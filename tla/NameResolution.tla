--------------------------- MODULE NameResolution ---------------------------
(***************************************************************************)
(* The names of a SELECT: the table aliases the grammar numbers            *)
(* (parser/select.y) and the columns that qualify_query resolves its names *)
(* to.                                                                     *)
(*                                                                         *)
(* heap is the sequence of the table aliases in the order of unique_id: a  *)
(* table, or a SELECT with its lists.  An expression is an operation on a  *)
(* sequence of values; a value is a reference, a literal or a query.       *)
(***************************************************************************)
EXTENDS Integers, Sequences, SequencesExt, FiniteSets, JoinLists

CONSTANT Schema     \* the columns of each table: a sequence of [name, type]

Ref(t, c) == [op |-> "ref", table |-> t, name |-> c]       \* COLUMN_REFERENCE
Literal(type, text) == [op |-> "literal", type |-> type, text |-> text]
SubQuery(id) == [op |-> "query", alias |-> id]
\* A SqlColumnAlias: a place in the column list of a table alias, a column that
\* SELECT * made, or NULL.
ColumnAlias(id, k) == [op |-> "alias", alias |-> id, column |-> k]
StarColumn(id, k) == [op |-> "star", alias |-> id, column |-> k]
NoColumn == ColumnAlias(0, 0)

Expr(op, args) == [op |-> op, args |-> args]
NoExpr == Expr("none", <<>>)
Star == <<>>

IsQuery(heap, id) == heap[id].kind = "select"

-----------------------------------------------------------------------------
(* The grammar's helpers.                                                  *)

\* find_column_alias_name: the first column named in the expression; the names
\* of a CASE and of a function's parameters are not looked at.
FindColumnAliasName(e) ==
    LET refs == SelectSeq(e.args, LAMBDA v : v.op = "ref") IN
    IF e.op \in {"case", "call"} \/ refs = <<>> THEN "???" ELSE refs[1].name

DerivedColumn(item) ==
    [expr |-> item.expr, name |-> IF item.as = "" THEN FindColumnAliasName(item.expr) ELSE item.as]

\* The names of the column list of a table alias.
Names(heap, id) ==
    IF IsQuery(heap, id) THEN [k \in DOMAIN heap[id].items |-> heap[id].items[k].name]
    ELSE [k \in DOMAIN Schema[heap[id].table] |-> Schema[heap[id].table][k].name]

\* SELECT *: column_list_alias_to_columns and lp_columns_to_column_list for each
\* table of the list.
AllColumns(heap, from) ==
    LET Of(id) == [k \in DOMAIN Names(heap, id) |->
                      [expr |-> Expr("value", <<StarColumn(id, k)>>), name |-> Names(heap, id)[k]]]
    IN FlattenSeq([i \in DOMAIN from |-> Of(from[i].alias)])

-----------------------------------------------------------------------------
(* Names.                                                                  *)

\* The joins of every SELECT, as the grammar links them.
Linked(heap) ==
    LET from(id) == {q \in DOMAIN heap : IsQuery(heap, q) /\ \E i \in DOMAIN heap[q].from : heap[q].from[i].alias = id}
        At(id, d) == IF from(id) = {} THEN id
                     ELSE LET list == heap[CHOOSE q \in from(id) : TRUE].from
                              i == CHOOSE n \in DOMAIN list : list[n].alias = id
                          IN list[((i - 1 + d + Len(list)) % Len(list)) + 1].alias
    IN [next |-> [id \in DOMAIN heap |-> At(id, 1)], prev |-> [id \in DOMAIN heap |-> At(id, -1)]]

RECURSIVE CircleFrom(_, _, _)
CircleFrom(l, at, start) ==
    IF l.next[at] = start THEN <<at>> ELSE <<at>> \o CircleFrom(l, l.next[at], start)

Circle(l, start) == CircleFrom(l, start, start)

\* match_column_in_table: the first column of that name, 0 if there is none.
MatchColumnInTable(heap, id, name) ==
    LET k == {n \in DOMAIN Names(heap, id) : Names(heap, id)[n] = name} IN
    IF k = {} THEN 0 ELSE CHOOSE n \in k : \A m \in k : n <= m

\* memcmp with the length of the name that is looked for.
BeginsWith(name, prefix) ==
    Len(prefix) <= Len(name) /\ SubSeq(name, 1, Len(prefix)) = prefix

\* qualify_column_name: the table the name gives, or the first one with such a
\* column; then the names that the SELECT's own list gives its columns.
QualifyColumnName(heap, l, ref, tables, query) ==
    LET Matching(id) == IF ref.table # "" THEN heap[id].name = ref.table
                        ELSE MatchColumnInTable(heap, id, ref.name) # 0
        found == SelectSeq(Circle(l, tables), Matching)
        own == SelectSeq([k \in DOMAIN Names(heap, query) |-> k],
                         LAMBDA k : BeginsWith(Names(heap, query)[k], ref.name))
        column == IF found = <<>> THEN 0 ELSE MatchColumnInTable(heap, found[1], ref.name)
    IN IF column # 0 THEN ColumnAlias(found[1], column)
       ELSE IF ref.table = "" /\ own # <<>> THEN ColumnAlias(query, own[1])
       ELSE NoColumn

\* What qualify_query works on: the statement, the lists, and its result.
Unqualified(heap) == [heap |-> heap, lists |-> Linked(heap), result |-> FALSE]

\* What is stored when an expression is done: r holds it, and the rest.
StoreOn(r, query, i) == [r.st EXCEPT !.heap[query].from[i].on = r.expr]
StoreItem(r, query, k) == [r.st EXCEPT !.heap[query].items[k].expr = r.expr]
StoreWhere(r, query) == [r.st EXCEPT !.heap[query].where = r.expr]
StoreOrder(r, query) == [r.st EXCEPT !.heap[query].order = r.expr]

RECURSIVE QualifyQuery(_, _, _), QualifyStatement(_, _, _, _)
\* qualify_statement: each value in turn, except what follows ELSE.
QualifyStatement(st, e, tables, query) ==
    LET Value(r, v) ==
            IF e.op = "case" /\ Len(r.expr.args) = 3 THEN [r EXCEPT !.expr.args = Append(@, v)]
            ELSE IF v.op = "query"
            THEN [st |-> QualifyQuery(r.st, v.alias, tables), expr |-> Expr(e.op, Append(r.expr.args, v))]
            ELSE IF v.op = "ref"
            THEN LET c == QualifyColumnName(r.st.heap, r.st.lists, v, tables, query)
                 IN [r EXCEPT !.st.result = @ \/ c = NoColumn, !.expr.args = Append(@, c)]
            ELSE [r EXCEPT !.expr.args = Append(@, v)]
    IN FoldLeft(Value, [st |-> st, expr |-> Expr(e.op, <<>>)], e.args)

\* The joins' queries and conditions, one after the other; the list of the query
\* around this one hangs behind.
QualifyJoins(st, query, join) ==
    LET Inner(acc, id) == IF IsQuery(acc.heap, id) THEN QualifyQuery(acc, id, join) ELSE acc
        One(acc, i) == LET j == acc.heap[query].from[i]
                       IN StoreOn(QualifyStatement(Inner(acc, j.alias), j.on, join, query), query, i)
    IN FoldLeft(One, st, [i \in DOMAIN st.heap[query].from |-> i])

QualifyList(st, query, join) ==
    LET One(acc, k) == StoreItem(QualifyStatement(acc, acc.heap[query].items[k].expr, join, query), query, k)
    IN FoldLeft(One, st, [k \in DOMAIN st.heap[query].items |-> k])

QualifyWhere(st, query, join) == StoreWhere(QualifyStatement(st, st.heap[query].where, join, query), query)
QualifyOrder(st, query, join) == StoreOrder(QualifyStatement(st, st.heap[query].order, join, query), query)

\* parent is 0 for the statement itself.
LinkParent(st, join, parent) ==
    IF parent = 0 THEN st ELSE [st EXCEPT !.lists = Dqinsert(@, join, parent)]
UnlinkParent(st, join, end, parent) ==
    IF parent = 0 THEN st ELSE [st EXCEPT !.lists = ResetLists(@, join, end, parent)]

\* qualify_query
QualifyQuery(st, query, parent) ==
    LET join == st.heap[query].from[1].alias
        joins == QualifyJoins(LinkParent(st, join, parent), query, join)
        clauses == QualifyOrder(QualifyWhere(QualifyList(joins, query, join), query, join), query, join)
    IN UnlinkParent(clauses, join, st.lists.prev[join], parent)

Qualified(heap) == QualifyQuery(Unqualified(heap), Len(heap), 0)
=============================================================================
