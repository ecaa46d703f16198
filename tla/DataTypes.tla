----------------------------- MODULE DataTypes -----------------------------
(***************************************************************************)
(* The types of a SELECT whose names are resolved (populate_data_type).    *)
(***************************************************************************)
EXTENDS NameResolution

Unknown == "unknown"

\* The values of an expression that stand for a place in a column list.
Places(e) == {e.args[i] : i \in {n \in DOMAIN e.args : e.args[n].op = "alias"}}
ListExprs(heap, id) ==
    IF IsQuery(heap, id) THEN {heap[id].items[k].expr : k \in DOMAIN heap[id].items} ELSE {}
Clauses(heap, id) ==
    IF IsQuery(heap, id)
    THEN {heap[id].where, heap[id].order} \cup {heap[id].from[i].on : i \in DOMAIN heap[id].from}
    ELSE {}
ListsUsed(exprs) == {v.alias : v \in UNION {Places(e) : e \in exprs}}

RECURSIVE Reached(_, _)
\* The lists that populate_data_type goes through for the lists in ids: for a
\* column it goes through all columns of its list.
Reached(heap, ids) ==
    LET more == ids \cup UNION {ListsUsed(ListExprs(heap, id)) : id \in ids}
    IN IF more = ids THEN ids ELSE Reached(heap, more)

\* It never returns from a list that uses one of its own columns.
Endless(heap) ==
    \E id \in DOMAIN heap : id \in Reached(heap, ListsUsed(ListExprs(heap, id)))

\* The lists whose types are set: of every SELECT, and of the tables with a
\* column that is used.
Typed(heap) ==
    LET used(id) == ListsUsed(Clauses(heap, id) \cup ListExprs(heap, id)) IN
    Reached(heap, {id \in DOMAIN heap : IsQuery(heap, id)} \cup UNION {used(id) : id \in DOMAIN heap})

\* An unknown operand takes the type of the other one.
Adopted(types) ==
    IF types[1] = Unknown THEN <<types[2], types[2]>>
    ELSE IF types[2] = Unknown THEN <<types[1], types[1]>> ELSE types

Around(n, k) == [i \in 1..n |-> ((k + i - 2) % n) + 1]

RECURSIVE TypeOf(_, _), TypeOfExpr(_, _), TypesInList(_, _)
\* populate_data_type for a column list: the type of each of its columns.
TypesInList(heap, id) ==
    IF IsQuery(heap, id) THEN [k \in DOMAIN heap[id].items |-> TypeOfExpr(heap, heap[id].items[k].expr)]
    ELSE [k \in DOMAIN Schema[heap[id].table] |-> Schema[heap[id].table][k].type]

\* A column has the first known type of its list, from its place on.  The columns
\* of SELECT * are made before there are types, as integers.
TypeOf(heap, v) ==
    CASE v.op = "literal" -> v.type
      [] v.op = "star" -> "number"
      [] v.op = "query" -> "table"
      [] v.op = "alias" ->
            LET types == TypesInList(heap, v.alias)
                known == SelectSeq(Around(Len(types), v.column), LAMBDA k : types[k] # Unknown)
            IN IF known = <<>> THEN Unknown ELSE types[known[1]]

\* The type of a concatenation is CHARACTER_STRING_TYPE, which as an SqlValueType
\* is NUMBER_LITERAL.
TypeOfExpr(heap, e) ==
    CASE e.op = "value" -> TypeOf(heap, e.args[1])
      [] e.op = "+" -> Adopted([i \in 1..2 |-> TypeOf(heap, e.args[i])])[1]
      [] e.op = "||" -> "number"
      [] e.op = "case" -> TypeOf(heap, e.args[3])
      [] e.op = "call" -> "string"
      [] OTHER -> "boolean"

Mismatch(heap, e) ==
    /\ e.op \in {"=", "<", "+", "in"}
    /\ LET types == Adopted([i \in 1..2 |-> TypeOf(heap, e.args[i])])
       IN types[1] # types[2] /\ types[2] # "table"

PopulateDataType(heap) ==
    \E id \in DOMAIN heap : \E e \in Clauses(heap, id) \cup ListExprs(heap, id) : Mismatch(heap, e)

\* sql_statement: the names are resolved, then the types; either may refuse.
Parsed(st) == ~st.result /\ ~Endless(st.heap) /\ ~PopulateDataType(st.heap)
=============================================================================
