--------------------------- MODULE MCWhereClause ---------------------------
(* Instances of WhereClause, with a number, a string and a boolean column, *)
(* and of SelectStatement: a behaviour reads a clause or a statement.      *)
EXTENDS WhereClause, MCSelectStatement

A == <<2, 0>>
B == <<3, 0>>

AllRows == [n : {Number(0), Number(1)}, s : {A, B}, b : {Number(0), Number(1)}]

Numeric == {Compare("<", Column("n"), Number(1)), Compare("<=", Column("n"), Number(0)),
            Compare(">=", Column("n"), Number(1))}
Lists == {[op |-> "in_list", left |-> Column("s"), list |-> <<A, B>>],
          [op |-> "not_in_list", left |-> Column("n"), list |-> <<Number(0), Number(1)>>]}
Patterns == {[op |-> "like", left |-> Column("s"), matches |-> {A, B}, plain |-> FALSE],
             [op |-> "like", left |-> Column("s"), matches |-> {B}, plain |-> TRUE]}
Truth == {[op |-> "truth", value |-> TRUE]}
StringOrder == {Compare("<", Column("s"), B)}

AllPredicates == Numeric \cup Lists \cup Patterns \cup Truth \cup StringOrder
AllForms == {"or_first", "or_last", "and_first", "and_last", "not"}
WithElse == {[then |-> Number(0), else |-> Number(1), value |-> Number(1)]}

VARIABLE part   \* what is read; never changes

AllInit ==
    \/ part = "clause" /\ Init /\ grammar = "none" /\ aliases = <<>> /\ open = <<>>
    \/ part = "statement" /\ StatementInit /\ stack = <<>> /\ leaves = 0 /\ nots = 0

AllNext ==
    \/ part = "clause" /\ Next /\ UNCHANGED <<part, statement>>
    \/ part = "statement" /\ StatementNext /\ UNCHANGED <<part, vars>>

AllSpec == AllInit /\ [][AllNext]_<<part, vars, statement>>
=============================================================================
