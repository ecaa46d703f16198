---------------------------- MODULE WhereClause ----------------------------
(***************************************************************************)
(* A WHERE clause, from the parser's reductions through the logical plan   *)
(* (lp_generate_where, lp_make_normal_disjunctive_form) and its expansion  *)
(* into one plan per disjunct (optimize_logical_plan) to the conditions    *)
(* the generated routine evaluates (tmpl_print_expression), against what   *)
(* the clause means.                                                       *)
(*                                                                         *)
(* A value is a pair: its place in the order of strings, and the number M  *)
(* takes it for.  A number is the same in both; letters count as 0.        *)
(***************************************************************************)
EXTENDS Integers, Sequences, SequencesExt, FiniteSets

CONSTANTS
    Predicates,     \* comparisons, LIKE, IN and truth values that may occur
    BoolColumns,    \* columns used as conditions
    ColumnForms,    \* where they are used: "or_first", "or_last", ...
    Cases,          \* CASE expressions compared with a value, without their condition
    StringColumns,  \* columns of type CHARACTER_STRING_TYPE
    Rows,           \* rows of the table
    MaxLeaves,      \* bound: predicates in a clause
    MaxNots         \* bound: NOTs in a clause

Number(n) == <<n, n>>
Null == <<-1, 0>>        \* the empty string

Or(l, r) == [op |-> "or", l |-> l, r |-> r]
And(l, r) == [op |-> "and", l |-> l, r |-> r]
Not(e) == [op |-> "not", l |-> e]
Compare(op, left, value) == [op |-> op, left |-> left, value |-> value]
Column(c) == [column |-> c]

Comparisons == {"=", "<>", "<", ">", "<=", ">="}

-----------------------------------------------------------------------------
(* What a clause means.                                                    *)

Relates(op, a, b) ==
    CASE op = "=" -> a = b
      [] op = "<>" -> a # b
      [] op = "<" -> a[1] < b[1]
      [] op = ">" -> a[1] > b[1]
      [] op = "<=" -> a[1] <= b[1]
      [] op = ">=" -> a[1] >= b[1]

RECURSIVE Holds(_, _)
Holds(e, row) ==
    LET Value(left) == IF "column" \in DOMAIN left THEN row[left.column]
                       ELSE IF Holds(left.when, row) THEN left.then ELSE left.else IN
    CASE e.op = "or" -> Holds(e.l, row) \/ Holds(e.r, row)
      [] e.op = "and" -> Holds(e.l, row) /\ Holds(e.r, row)
      [] e.op = "not" -> ~Holds(e.l, row)
      [] e.op = "test" -> row[e.column] # Number(0)
      [] e.op = "like" -> row[e.left.column] \in e.matches
      [] e.op = "in_list" -> row[e.left.column] \in Range(e.list)
      [] e.op = "not_in_list" -> row[e.left.column] \notin Range(e.list)
      [] e.op = "truth" -> e.value
      [] e.op \in Comparisons -> Relates(e.op, Value(e.left), e.value)

-----------------------------------------------------------------------------
(* The logical plan of a clause.                                           *)

\* A column used as a condition is compared with a value: NULL in "column OR
\* condition", "0" in the other forms.
BooleanColumn(c, form) ==
    Compare("<>", Column(c), IF form = "or_first" THEN Null ELSE Number(0))

InList(e) ==
    LET Item(v) == Compare(IF e.op = "in_list" THEN "=" ELSE "<>", e.left, v)
        Add(acc, v) == IF e.op = "in_list" THEN Or(Item(v), acc) ELSE And(Item(v), acc)
    IN FoldLeft(Add, Item(Head(e.list)), Tail(e.list))

RECURSIVE GenerateWhere(_)
\* lp_generate_where: a list becomes a chain of comparisons, and a pattern
\* without special characters an equality.
GenerateWhere(e) ==
    CASE e.op \in {"or", "and"} -> [op |-> e.op, l |-> GenerateWhere(e.l), r |-> GenerateWhere(e.r)]
      [] e.op = "not" -> Not(GenerateWhere(e.l))
      [] e.op = "test" -> BooleanColumn(e.column, e.form)
      [] e.op = "like" -> IF e.plain THEN Compare("=", e.left, CHOOSE v \in e.matches : TRUE) ELSE e
      [] e.op \in {"in_list", "not_in_list"} -> InList(e)
      [] e.op = "truth" -> e
      [] e.op \in Comparisons ->
           IF "column" \in DOMAIN e.left THEN e
           ELSE [e EXCEPT !.left.when = GenerateWhere(e.left.when)]

\* Operations that lp_apply_not leaves under their NOT.
Uninvertible == {"like", "is", "truth"}

Abort == [op |-> "abort"]

Inverted ==
    [op \in Comparisons |->
        CASE op = "=" -> "<>"
          [] op = "<>" -> "="
          [] op = "<" -> ">="
          [] op = ">" -> "<="
          [] op = "<=" -> ">"
          [] op = ">=" -> "<"]

RECURSIVE ApplyNotOps(_, _)
\* Mutant: OR and AND are not exchanged.
ApplyNotOps(root, count) ==
    IF root.op = "not"
    THEN IF root.l.op \in Uninvertible THEN root ELSE ApplyNotOps(root.l, count + 1)
    ELSE IF count % 2 = 0 THEN root
    ELSE CASE root.op = "or" -> Or(ApplyNotOps(root.l, count), ApplyNotOps(root.r, count))
           [] root.op = "and" -> And(ApplyNotOps(root.l, count), ApplyNotOps(root.r, count))
           [] root.op \in Comparisons -> [root EXCEPT !.op = Inverted[root.op]]
           [] OTHER -> Abort

RECURSIVE ApplyNot(_, _)
\* lp_apply_not; Abort where it runs into assert(FALSE).
ApplyNot(root, count) ==
    IF root.op = "not"
    THEN IF root.l.op \in Uninvertible THEN root ELSE ApplyNot(root.l, count + 1)
    ELSE IF count % 2 = 0 THEN root
    ELSE CASE root.op = "or" -> And(ApplyNot(root.l, count), ApplyNot(root.r, count))
           [] root.op = "and" -> Or(ApplyNot(root.l, count), ApplyNot(root.r, count))
           [] root.op \in Comparisons -> [root EXCEPT !.op = Inverted[root.op]]
           [] OTHER -> Abort

RECURSIVE Terms(_)
\* The chain of ORs to the right.
Terms(e) == IF e.op = "or" THEN <<e.l>> \o Terms(e.r) ELSE <<e>>

RECURSIVE Disjunction(_)
Disjunction(s) == IF Len(s) = 1 THEN s[1] ELSE Or(s[1], Disjunction(Tail(s)))

\* Each term of the left with each term of the right.
Distribute(left, right) ==
    LET l == Terms(left)
        r == Terms(right)
    IN Disjunction([i \in 1..(Len(l) * Len(r)) |->
                        And(l[((i - 1) \div Len(r)) + 1], r[((i - 1) % Len(r)) + 1])])

RECURSIVE NormalForm(_)
NormalForm(e) ==
    LET root == ApplyNot(e, 0) IN
    IF root.op \notin {"and", "or"} THEN root
    ELSE LET left == NormalForm(root.l)
             right == NormalForm(root.r)
         IN IF root.op = "or" THEN Or(left, right) ELSE Distribute(left, right)

\* Mutant: the expanded plans are not optimized again.
OptimizeOnce(where) ==
    LET terms == Terms(NormalForm(where)) IN <<Last(terms)>> \o Front(terms)

RECURSIVE Optimize(_)
\* The clauses of the plans that optimize_logical_plan makes of one plan.
Optimize(where) ==
    LET terms == Terms(NormalForm(where)) IN
    IF Len(terms) = 1 THEN terms
    ELSE Optimize(Last(terms)) \o FlattenSeq([i \in 1..(Len(terms) - 1) |-> Optimize(terms[i])])

Plans(stmt) == Optimize(GenerateWhere(stmt))

RECURSIVE VerifyStructure(_)
\* lp_verify_structure below LP_WHERE: the operators each operator allows as
\* operands.  The lists name LP_BOOLEAN_GREATER_THAN twice and
\* LP_BOOLEAN_GREATER_THAN_OR_EQUALS never; the list of NOT has no NOT either.
VerifyStructure(e) ==
    LET Operand(o) == o.op # ">=" /\ VerifyStructure(o) IN
    CASE e.op = "where" -> Operand(e.l)
      [] e.op \in {"or", "and"} -> Operand(e.l) /\ Operand(e.r)
      [] e.op = "not" -> e.l.op # "not" /\ Operand(e.l)
      [] e.op \in Comparisons -> "column" \in DOMAIN e.left \/ Operand(e.left.when)
      [] e.op \in {"like", "truth"} -> TRUE

WellFormed(where) == VerifyStructure([op |-> "where", l |-> where])

\* emit_select_statement: a plan that is not well formed is rejected.
Rejected(stmt) == ~WellFormed(GenerateWhere(stmt))

\* generate_physical_plan: a rewritten plan that is not is FATAL.
BadPlan(stmt) == \E plan \in ToSet(Plans(stmt)) : ~WellFormed(plan)

-----------------------------------------------------------------------------
(* The condition that is printed, as M evaluates it.                       *)

\* "<" and ">" on strings become "]]" (sorts after); the others compare numbers.
MRelates(op, stringType, a, b) ==
    CASE op = "=" -> a = b
      [] op = "<>" -> a # b
      [] op = "<" -> IF stringType THEN b[1] > a[1] ELSE a[2] < b[2]
      [] op = ">" -> IF stringType THEN a[1] > b[1] ELSE a[2] > b[2]
      [] op = "<=" -> ~(a[2] > b[2])
      [] op = ">=" -> ~(a[2] < b[2])

RECURSIVE Emitted(_, _)
\* In CASE, default_value is operand[0] of LP_CASE_STATEMENT: the value after
\* CASE, which these do not have, and not the ELSE in operand[1].
Emitted(e, row) ==
    LET Value(left) == IF "column" \in DOMAIN left THEN row[left.column]
                       ELSE IF Emitted(left.when, row) THEN left.then ELSE Null IN
    CASE e.op = "or" -> Emitted(e.l, row) \/ Emitted(e.r, row)
      [] e.op = "and" -> Emitted(e.l, row) /\ Emitted(e.r, row)
      [] e.op = "not" -> ~Emitted(e.l, row)
      [] e.op = "like" -> row[e.left.column] \in e.matches
      [] e.op = "truth" -> e.value
      [] e.op \in Comparisons ->
           MRelates(e.op, "column" \in DOMAIN e.left /\ e.left.column \in StringColumns,
                    Value(e.left), e.value)

\* How often a row is output: expanded plans run one after another and remember
\* the rows they have output (OPTIONAL_PART_OF_EXPANSION).
Times(plans, row) ==
    LET n == Cardinality({i \in DOMAIN plans : Emitted(plans[i], row)})
    IN IF Len(plans) > 1 /\ n > 1 THEN 1 ELSE n

-----------------------------------------------------------------------------
(* The parser builds a clause.                                             *)

VARIABLES
    stack,    \* its semantic values
    leaves,   \* predicates so far
    nots      \* NOTs so far

vars == <<stack, leaves, nots>>

Init == stack = <<>> /\ leaves = 0 /\ nots = 0

Top == Last(stack)

Push(e) ==
    /\ leaves < MaxLeaves
    /\ leaves' = leaves + 1
    /\ stack' = Append(stack, e)
    /\ UNCHANGED nots

Replace(n, e) == stack' = Append(SubSeq(stack, 1, Len(stack) - n), e)

Predicate(p) == Push(p)

SearchConditionOr ==
    /\ Len(stack) >= 2
    /\ Replace(2, Or(stack[Len(stack) - 1], Top))
    /\ UNCHANGED <<leaves, nots>>

BooleanTermAnd ==
    /\ Len(stack) >= 2
    /\ Replace(2, And(stack[Len(stack) - 1], Top))
    /\ UNCHANGED <<leaves, nots>>

BooleanFactorNot ==
    /\ stack # <<>> /\ nots < MaxNots
    /\ Replace(1, Not(Top))
    /\ nots' = nots + 1
    /\ UNCHANGED leaves

\* A column beside OR or AND.
ColumnCondition(c, form) ==
    /\ stack # <<>> /\ leaves < MaxLeaves
    /\ LET test == [op |-> "test", column |-> c, form |-> form] IN
       Replace(1, CASE form = "or_first" -> Or(test, Top)
                    [] form = "or_last" -> Or(Top, test)
                    [] form = "and_first" -> And(test, Top)
                    [] form = "and_last" -> And(Top, test))
    /\ leaves' = leaves + 1
    /\ UNCHANGED nots

NotColumn(c) ==
    /\ nots < MaxNots /\ leaves < MaxLeaves
    /\ stack' = Append(stack, Not([op |-> "test", column |-> c, form |-> "not"]))
    /\ leaves' = leaves + 1
    /\ nots' = nots + 1

\* CASE WHEN condition THEN ... ELSE ... END = value
SimpleCase(c) ==
    /\ stack # <<>> /\ leaves < MaxLeaves
    /\ Replace(1, Compare("=", [when |-> Top, then |-> c.then, else |-> c.else], c.value))
    /\ leaves' = leaves + 1
    /\ UNCHANGED nots

Next ==
    \/ \E p \in Predicates : Predicate(p)
    \/ SearchConditionOr
    \/ BooleanTermAnd
    \/ BooleanFactorNot
    \/ \E c \in BoolColumns, form \in ColumnForms \ {"not"} : ColumnCondition(c, form)
    \/ \E c \in BoolColumns : "not" \in ColumnForms /\ NotColumn(c)
    \/ \E c \in Cases : SimpleCase(c)

Spec == Init /\ [][Next]_vars

-----------------------------------------------------------------------------
Complete == Len(stack) = 1

RECURSIVE Covered(_, _)
\* The clauses whose conditions keep their meaning.  The others: a column before
\* OR, which is compared with NULL; CASE, whose ELSE is not printed; "<=" and ">="
\* of strings, which compare numbers; under NOT, LIKE and truth values, which
\* lp_apply_not cannot invert, and comparisons of strings, whose inverse compares
\* numbers.
Covered(e, negated) ==
    CASE e.op \in {"or", "and"} -> Covered(e.l, negated) /\ Covered(e.r, negated)
      [] e.op = "not" -> IF e.l.op \in Uninvertible THEN ~negated ELSE Covered(e.l, TRUE)
      [] e.op = "test" -> e.form # "or_first"
      [] e.op = "like" -> ~negated \/ e.plain
      [] e.op = "truth" -> ~negated
      [] e.op \in {"in_list", "not_in_list"} -> TRUE
      [] e.op \in {"=", "<>"} -> "column" \in DOMAIN e.left
      [] e.op \in Comparisons ->
             e.left.column \in StringColumns => ~negated /\ e.op \notin {"<=", ">="}

\* The routine generated for an accepted clause outputs each row of the table
\* that the clause holds for exactly once, and no other: NOTs are moved to the
\* comparisons, ANDs distributed over ORs, and rows that satisfy several disjuncts
\* are output by the first plan only.
SameRows ==
    Complete /\ Covered(stack[1], FALSE) /\ ~Rejected(stack[1]) /\ ~BadPlan(stack[1]) =>
        LET plans == Plans(stack[1]) IN
        \A row \in Rows : Times(plans, row) = IF Holds(stack[1], row) THEN 1 ELSE 0

RECURSIVE HasOr(_)
HasOr(e) == e.op = "or" \/ (e.op = "and" /\ (HasOr(e.l) \/ HasOr(e.r)))

RECURSIVE Rewritable(_, _)
\* The logical plans whose NOTs lp_apply_not can move: no LIKE or truth value
\* among operands it inverts (it aborts), and no "<" (it becomes ">=").
Rewritable(e, odd) ==
    CASE e.op = "not" -> e.l.op \in Uninvertible \/ Rewritable(e.l, ~odd)
      [] e.op \in {"or", "and"} -> Rewritable(e.l, odd) /\ Rewritable(e.r, odd)
      [] e.op \in {"like", "truth", "<"} -> ~odd
      [] OTHER -> TRUE

\* What optimize_logical_plan makes of a plan that passed the first
\* lp_verify_structure passes the second, which is FATAL, and is a conjunction,
\* which lp_optimize_where_multi_equal_ands asserts before it looks for keys to fix.
PlansWellFormed ==
    Complete /\ ~Rejected(stack[1]) /\ Rewritable(GenerateWhere(stack[1]), FALSE) =>
        /\ ~BadPlan(stack[1])
        /\ \A plan \in ToSet(Plans(stack[1])) : ~HasOr(plan)
=============================================================================
