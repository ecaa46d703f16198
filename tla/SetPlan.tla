------------------------------ MODULE SetPlan ------------------------------
(***************************************************************************)
(* Set operations, DISTINCT, ORDER BY, LIMIT and derived tables: how a     *)
(* statement becomes a chain of plans (generate_physical_plan) and what    *)
(* the routines generated for them (tmpl_physical_plan) do to the cursor:  *)
(*                                                                         *)
(*   out[k]      rows of output key k, ^cursor(id,"keys",k,"","",row)      *)
(*   count[k]    its root node, the number of the last row                 *)
(*   order       the rows of a plan with ORDER BY until it ends            *)
(*   index       ^cursor(id,"index",value,row), one for all output keys    *)
(*   seen        the nodes ^cursor(id,"index",value) that count the rows   *)
(*                                                                         *)
(* A row is one numeric column.                                            *)
(***************************************************************************)
EXTENDS Integers, Sequences, FiniteSets, SequencesExt, FiniteSetsExt

CONSTANTS
    Grammars   \* bound: the kinds of statements, each a record of
               \*   tables      possible results of a FROM and WHERE clause, in key order
               \*   options     what a select may ask for: DISTINCT, ORDER BY, LIMIT, and
               \*               whether its WHERE clause fixes all the keys
               \*   operations  set operations that may occur
               \*   nested      may a set operation be the right operand of another?
               \*   derived     {}, or the values of DISTINCT for SELECT ... FROM (statement)
               \*   selects     how many SELECTs there are at most
               \*   joins       outer joins, for the module OuterJoin

NoLimit == -1

VARIABLES
    grammar,   \* the kind of the statement; never changes
    stack, plans, cur, row, out, count, order, index, seen, phase

vars == <<grammar, stack, plans, cur, row, out, count, order, index, seen, phase>>
cursor == <<out, count, order, index, seen>>

-----------------------------------------------------------------------------
(* The statement and its plans.                                            *)

Select(table, opt) == [op |-> "select", rows |-> table, opt |-> opt]
SetOperation(type, l, r) == [op |-> "set", type |-> type, l |-> l, r |-> r]
SubQuery(distinct, e) == [op |-> "derived", distinct |-> distinct, of |-> e]

RECURSIVE Selects(_)
Selects(e) ==
    CASE e.op = "select" -> 1
      [] e.op = "set" -> Selects(e.l) + Selects(e.r)
      [] e.op = "derived" -> 1 + Selects(e.of)

Plan(source, dst, opt) ==
    [source |-> source, dst |-> dst, set |-> "not_set", distinct |-> opt.distinct,
     index |-> opt.distinct, orderBy |-> opt.order, limit |-> opt.limit, fixed |-> opt.fixed]

SetOf == [union |-> "union", union_all |-> "union", except |-> "except", except_all |-> "except",
          intersect |-> "intersect", intersect_all |-> "intersect"]

Unique == {"union", "except", "intersect"}

\* Mutant: the plan on the left keeps its duplicates.
SwitchRightOnly(type, ps, left, right) ==
    LET mark(p) == [p EXCEPT !.index = TRUE]
        only(p) == [p EXCEPT !.index = TRUE, !.distinct = @ \/ type \in Unique]
    IN [ps EXCEPT ![left] = mark(@), ![right] = [only(@) EXCEPT !.set = SetOf[type]]]

\* What a set operation changes in the plans of its operands.
Switch(type, ps, left, right) ==
    LET mark(p) == [p EXCEPT !.index = TRUE, !.distinct = @ \/ type \in Unique]
    IN [ps EXCEPT ![left] = mark(@), ![right] = [mark(@) EXCEPT !.set = SetOf[type]]]

RECURSIVE Compile(_, _)
\* The plans of a statement in the order they run, with output key dst, and the
\* position of the one that stands for the statement.  The plans of a derived
\* table have an output key of their own.
Compile(e, dst) ==
    CASE e.op = "select" -> [plans |-> <<Plan([rows |-> e.rows], dst, e.opt)>>, main |-> 1]
      [] e.op = "derived" ->
           LET sub == Compile(e.of, dst + 1)
               opt == [distinct |-> e.distinct, order |-> FALSE, limit |-> NoLimit, fixed |-> FALSE]
           IN [plans |-> Append(sub.plans, Plan([key |-> dst + 1], dst, opt)), main |-> Len(sub.plans) + 1]
      [] e.op = "set" ->
           LET l == Compile(e.l, dst)
               r == Compile(e.r, dst)
           IN [plans |-> Switch(e.type, l.plans \o r.plans, l.main, Len(l.plans) + r.main),
               main |-> l.main]

Plans(e) == Compile(e, 0).plans

-----------------------------------------------------------------------------
(* The parser.                                                             *)

Keys == 0..1      \* bound: derived tables are not nested
Empty == <<>>

G == Grammars[grammar]

Init ==
    /\ grammar \in DOMAIN Grammars
    /\ stack = <<>> /\ plans = <<>> /\ cur = 0 /\ row = 0 /\ phase = "parse"
    /\ out = [k \in Keys |-> Empty] /\ count = [k \in Keys |-> 0]
    /\ order = {} /\ index = {} /\ seen = {}

SelectsSoFar == FoldLeft(LAMBDA n, e : n + Selects(e), 0, stack)

QuerySpecification ==
    /\ phase = "parse" /\ SelectsSoFar < G.selects
    /\ \E t \in G.tables, opt \in G.options :
           /\ opt.fixed => Len(t) <= 1
           /\ stack' = Append(stack, Select(t, opt))
    /\ UNCHANGED <<plans, cur, row, phase, cursor>>

NonJoinQueryExpression(type) ==
    /\ phase = "parse" /\ Len(stack) >= 2
    /\ LET n == Len(stack) IN
       /\ G.nested \/ stack[n].op # "set"
       /\ stack' = Append(SubSeq(stack, 1, n - 2), SetOperation(type, stack[n - 1], stack[n]))
    /\ UNCHANGED <<plans, cur, row, phase, cursor>>

DerivedTable(distinct) ==
    /\ phase = "parse" /\ stack # <<>> /\ SelectsSoFar < G.selects
    /\ stack' = Append(Front(stack), SubQuery(distinct, Last(stack)))
    /\ UNCHANGED <<plans, cur, row, phase, cursor>>

EmitPhysicalPlan ==
    /\ phase = "parse" /\ Len(stack) = 1
    /\ plans' = Plans(stack[1])
    /\ phase' = "start" /\ cur' = 1 /\ row' = 1
    /\ UNCHANGED <<stack, cursor>>

-----------------------------------------------------------------------------
(* The routines.                                                           *)

P == plans[cur]
K == P.dst

Sorted(S) == SetToSortSeq(S, <)

\* The rows of a table, or of the output key of a derived table.
Source ==
    IF "rows" \in DOMAIN P.source THEN P.source.rows
    ELSE LET rows == out[P.source.key] IN [i \in 1..Cardinality(DOMAIN rows) |-> rows[Sorted(DOMAIN rows)[i]]]


\* Tested in the FOR of each key that is not fixed: a plan without one has no LIMIT.
LimitReached == P.limit # NoLimit /\ ~P.fixed /\ count[K] >= P.limit

More == phase = "run" /\ row <= Len(Source) /\ ~LimitReached
Value == Source[row]

StartPlan ==
    /\ phase = "start"
    /\ IF P.set = "not_set"
       THEN out' = [out EXCEPT ![K] = Empty] /\ count' = [count EXCEPT ![K] = 0]
       ELSE UNCHANGED <<out, count>>
    /\ phase' = "run" /\ row' = 1
    /\ UNCHANGED <<stack, plans, cur, order, index, seen>>

\* $DATA(^cursor(id,"index",value))
InIndex(v) == v \in seen \/ \E r \in 1..count[K] : <<v, r>> \in index

Duplicate == P.distinct /\ P.set \notin {"except", "intersect"} /\ InIndex(Value)

SkipRow ==
    /\ More /\ Duplicate
    /\ row' = row + 1
    /\ UNCHANGED <<stack, plans, cur, phase, cursor>>

\* SET of the row, under "order" if the rows are to be ordered, and of its index.
ProjectRow ==
    /\ More /\ P.set \notin {"except", "intersect"} /\ ~Duplicate
    /\ LET n == count[K] + 1 IN
       /\ count' = [count EXCEPT ![K] = n]
       /\ IF P.orderBy
          THEN order' = order \cup {<<Value, n>>} /\ UNCHANGED out
          ELSE out' = [out EXCEPT ![K] = (n :> Value) @@ @] /\ UNCHANGED order
       /\ IF P.index
          THEN index' = index \cup {<<Value, n>>} /\ seen' = seen \cup {Value}
          ELSE UNCHANGED <<index, seen>>
    /\ row' = row + 1
    /\ UNCHANGED <<stack, plans, cur, phase>>

Without(f, S) == [x \in DOMAIN f \ S |-> f[x]]

\* Mutant: the index of the row is not killed.
ExceptRowKeepsIndex ==
    /\ More /\ P.set = "except"
    /\ LET rows == {e \in index : e[1] = Value} IN
       out' = IF rows = {} THEN out ELSE [out EXCEPT ![K] = Without(@, {Min({e[2] : e \in rows})})]
    /\ row' = row + 1
    /\ UNCHANGED <<stack, plans, cur, phase, count, order, index, seen>>

\* The first row with this value is killed, and its index.
ExceptRow ==
    /\ More /\ P.set = "except"
    /\ LET rows == {e \in index : e[1] = Value}
           v == Min({e[2] : e \in rows})
       IN IF rows = {} THEN UNCHANGED <<out, index>>
          ELSE /\ out' = [out EXCEPT ![K] = Without(@, {v})]
               /\ index' = index \ {<<Value, v>>}
    /\ row' = row + 1
    /\ UNCHANGED <<stack, plans, cur, phase, count, order, seen>>

\* The row is counted, and the index of its value killed.
IntersectRow ==
    /\ More /\ P.set = "intersect"
    /\ count' = [count EXCEPT ![K] = @ + 1]
    /\ index' = {e \in index : e[1] # Value}
    /\ seen' = seen \ {Value}
    /\ row' = row + 1
    /\ UNCHANGED <<stack, plans, cur, phase, out, order>>

\* ORDER BY: rows are copied to 1, 2, ... in the order of the column.
OutOrdered ==
    LET before(a, b) == a[1] < b[1] \/ (a[1] = b[1] /\ a[2] < b[2])
        rows == SetToSortSeq(order, before)
    IN IF P.orderBy THEN [i \in 1..Len(rows) |-> rows[i][1]] @@ out[K] ELSE out[K]

\* INTERSECT: what remains in the index is walked with two calls of $QUERY for each
\* row, one for the count of a value and one for a row; the last subscript of the
\* node is the row that is killed.
Remaining ==
    LET nodes(v) == <<v>> \o Sorted({e[2] : e \in {x \in index : x[1] = v}})
        values == Sorted(seen \cup {e[1] : e \in index})
        walk == FlattenSeq([i \in DOMAIN values |-> nodes(values[i])])
    IN IF P.set = "intersect" THEN {walk[2 * i] : i \in 1..(Len(walk) \div 2)} ELSE {}

EndPlan ==
    /\ phase = "run" /\ (row > Len(Source) \/ LimitReached)
    /\ out' = [out EXCEPT ![K] = Without(OutOrdered, Remaining)]
    /\ order' = {}
    /\ IF cur = Len(plans) THEN phase' = "done" /\ UNCHANGED cur
       ELSE phase' = "start" /\ cur' = cur + 1
    /\ UNCHANGED <<stack, plans, row, count, index, seen>>

Statement ==
    \/ QuerySpecification
    \/ \E type \in G.operations : NonJoinQueryExpression(type)
    \/ \E distinct \in G.derived : DerivedTable(distinct)
    \/ EmitPhysicalPlan

Routine == StartPlan \/ SkipRow \/ ProjectRow \/ ExceptRow \/ IntersectRow \/ EndPlan

Next == (Statement \/ Routine) /\ UNCHANGED grammar

Spec == Init /\ [][Next]_vars

-----------------------------------------------------------------------------
(* What a statement returns: how often each value occurs.                  *)

AtMost(n, m) == IF n < m THEN n ELSE m

RECURSIVE Occurs(_, _)
Occurs(e, v) ==
    CASE e.op = "select" ->
           LET n == Cardinality({i \in DOMAIN e.rows : e.rows[i] = v})
           IN IF e.opt.distinct THEN AtMost(n, 1) ELSE n
      [] e.op = "derived" -> IF e.distinct THEN AtMost(Occurs(e.of, v), 1) ELSE Occurs(e.of, v)
      [] e.op = "set" ->
           LET l == Occurs(e.l, v)
               r == Occurs(e.r, v)
           IN CASE e.type = "union_all" -> l + r
                [] e.type = "union" -> AtMost(l + r, 1)
                [] e.type = "except_all" -> l - AtMost(l, r)
                [] e.type = "except" -> IF r = 0 THEN AtMost(l, 1) ELSE 0
                [] e.type = "intersect_all" -> AtMost(l, r)
                [] e.type = "intersect" -> AtMost(AtMost(l, r), 1)

RECURSIVE Values(_)
Values(e) ==
    CASE e.op = "select" -> Range(e.rows)
      [] e.op = "derived" -> Values(e.of)
      [] e.op = "set" -> Values(e.l) \cup Values(e.r)

Result == out[0]

RECURSIVE Operations(_)
Operations(e) == IF e.op = "set" THEN {e.type} \cup Operations(e.l) \cup Operations(e.r) ELSE {}

\* The operations that may come before one that is to find the index as it needs it:
\*   the index(value) of a row that EXCEPT killed remains, and UNION takes it for a row;
\*   INTERSECT kills the index of the rows that stay;
\*   an operation without ALL makes the first plan of its left operand distinct, and
\*   not the ones that UNION ALL added;
\*   INTERSECT ALL keeps all rows of a value or none.
Before == [union |-> {"union"}, intersect |-> {"union"}, except |-> {"union", "except"},
           except_all |-> {"union", "union_all", "except", "except_all"},
           union_all |-> {"union", "union_all", "except", "except_all", "intersect"}]

RECURSIVE InOrder(_)
InOrder(e) ==
    \/ e.op # "set"
    \/ Operations(e) = {"union"}
    \/ /\ e.r.op # "set" /\ InOrder(e.l)
       /\ e.type \in DOMAIN Before /\ Operations(e.l) \subseteq Before[e.type]

\* A statement of set operations returns each row as often as they say, if each comes
\* after operations that leave it the index it needs: a row of the cursor is found, or
\* not added again, or killed, through the index that all plans of the statement share.
RowsRight ==
    phase = "done" /\ stack[1].op = "set" /\ G.joins = {} /\ InOrder(stack[1]) =>
        \A v \in Values(stack[1]) :
            Cardinality({r \in DOMAIN Result : Result[r] = v}) = Occurs(stack[1], v)

\* As long as no INTERSECT has run, the nodes index(value,row) are exactly the rows of the
\* output key: an operation that kills a row kills this node, so that a later one does not
\* kill another row in its place.  The nodes index(value), which tell UNION that a value is
\* there, are those of the rows until an EXCEPT runs; EXCEPT leaves them, and from then on
\* they are at least those of the rows.
IndexKnows ==
    LET ran(operation) == \E i \in 1..cur : plans[i].set = operation
    IN /\ phase # "parse"
       /\ \E i \in DOMAIN plans : plans[i].set # "not_set"
       /\ ~ran("intersect")
       => /\ index = {<<Result[r], r>> : r \in DOMAIN Result}
          /\ Range(Result) \subseteq seen
          /\ ran("except") \/ seen = Range(Result)

WithoutDuplicates(s) ==
    FoldLeft(LAMBDA found, v : IF v \in Range(found) THEN found ELSE Append(found, v), <<>>, s)

\* The rows of a SELECT: LIMIT takes the first ones in the order of the keys, without the
\* duplicates if it is DISTINCT, and ORDER BY sorts those.
Limited(e) ==
    LET all == IF e.opt.distinct THEN WithoutDuplicates(e.rows) ELSE e.rows
        first == IF e.opt.limit = NoLimit THEN all
                 ELSE SubSeq(all, 1, AtMost(e.opt.limit, Len(all)))
    IN IF e.opt.order THEN SortSeq(first, <) ELSE first

\* LIMIT 0 where all keys are fixed: no FOR tests it, and the row is returned.
LimitIgnored(e) == e.opt.fixed /\ e.opt.limit = 0

=============================================================================
