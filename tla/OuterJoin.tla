----------------------------- MODULE OuterJoin -----------------------------
(***************************************************************************)
(* LEFT, RIGHT and FULL JOIN of two tables.  generate_logical_plan         *)
(* rewrites them to set operations of inner joins, which run as in         *)
(* SetPlan.                                                                *)
(***************************************************************************)
EXTENDS SetPlan

CONSTANT NoQuery   \* the statement is not an outer join

\* A row is [k |-> its key, x |-> the column of the join condition, y |-> another].
Null == 0
NullRow == [k |-> Null, x |-> Null, y |-> Null]

On(a, b) == a.x = b.x

Where(where, a, b) ==
    CASE where = "none" -> TRUE
      [] where = "left is 1" -> a.x = 1
      [] where = "right is 1" -> b.x = 1

Project(list, a, b) == [i \in DOMAIN list |-> (IF list[i][1] = 1 THEN a ELSE b)[list[i][2]]]

\* The columns of some of the two tables become NULL.
ReplaceTableReferences(p, tables) == [i \in 1..2 |-> IF i \in tables THEN NullRow ELSE p[i]]

\* The rows of a SELECT: a FROM clause that yields pairs, its WHERE clause on each pair,
\* and the select list of each pair after the replacement of references to tables.
Rows(q, pairs, tables) ==
    LET chosen == SelectSeq(pairs, LAMBDA p : Where(q.where, p[1], p[2]))
        values(p) == Project(q.list, p[1], p[2])
    IN Select([i \in DOMAIN chosen |-> values(ReplaceTableReferences(chosen[i], tables))],
              [distinct |-> FALSE, order |-> FALSE, limit |-> NoLimit, fixed |-> FALSE])

Pairs(l, r) ==
    [i \in 1..(Len(l) * Len(r)) |-> <<l[((i - 1) \div Len(r)) + 1], r[((i - 1) % Len(r)) + 1]>>]
Joined(q) == SelectSeq(Pairs(q.l, q.r), LAMBDA p : On(p[1], p[2]))

Inner(q) == Rows(q, Joined(q), {})

\* Mutant: the rows that have a match are not taken away.
LeftAll(q) == Rows(q, [i \in DOMAIN q.l |-> <<q.l[i], NullRow>>], {})

\* The table on the left alone, except the rows of the inner join; the columns of the
\* other table are NULL in all of the first SELECT, and in the list of the second.
LeftPart(q) ==
    SetOperation("except_all",
                 Rows(q, [i \in DOMAIN q.l |-> <<q.l[i], NullRow>>], {}),
                 Rows(q, Joined(q), {2}))

RightPart(q) ==
    SetOperation("except_all",
                 Rows(q, [i \in DOMAIN q.r |-> <<NullRow, q.r[i]>>], {}),
                 Rows(q, Joined(q), {1}))

GenerateLogicalPlan(q) ==
    SetOperation("union_all", Inner(q),
        CASE q.type = "left" -> LeftPart(q)
          [] q.type = "right" -> RightPart(q)
          [] q.type = "full" -> SetOperation("union_all", LeftPart(q), RightPart(q)))

-----------------------------------------------------------------------------
VARIABLE query   \* the outer join: [type, l, r, list, where]

OuterInit == Init /\ query = NoQuery

\* The statement is an outer join q of tables with contents q.l and q.r.
QualifiedJoin ==
    /\ phase = "parse" /\ stack = <<>>
    /\ \E q \in G.joins :
           query' = q /\ stack' = <<GenerateLogicalPlan(q)>>
    /\ UNCHANGED <<grammar, plans, cur, row, phase, cursor>>

OuterNext ==
    \/ QualifiedJoin
    \/ Next /\ UNCHANGED query

OuterSpec == OuterInit /\ [][OuterNext]_<<vars, query>>

-----------------------------------------------------------------------------
\* How often a row occurs in the outer join.
Expected(q, v) ==
    LET unmatched(side, other) == SelectSeq(side, LAMBDA a : \A j \in DOMAIN other : other[j].x # a.x)
        l == unmatched(q.l, q.r)
        r == unmatched(q.r, q.l)
        pairs == Joined(q)
                 \o (IF q.type \in {"left", "full"} THEN [i \in DOMAIN l |-> <<l[i], NullRow>>] ELSE <<>>)
                 \o (IF q.type \in {"right", "full"} THEN [i \in DOMAIN r |-> <<NullRow, r[i]>>] ELSE <<>>)
    IN Cardinality({i \in DOMAIN pairs : /\ Where(q.where, pairs[i][1], pairs[i][2])
                                         /\ Project(q.list, pairs[i][1], pairs[i][2]) = v})

\* An outer join returns the matching pairs, and each row of an outer table that has
\* no match once with NULLs, and nothing else: the rewriting takes the matching rows away
\* again by value, once for each match, from a result that also has the pairs.
OuterJoinRows ==
    phase = "done" /\ query # NoQuery =>
        \A v \in Range(Result) \cup {Project(query.list, a, b) : a \in Range(query.l) \cup {NullRow},
                                                                b \in Range(query.r) \cup {NullRow}} :
            Cardinality({i \in DOMAIN Result : Result[i] = v}) = Expected(query, v)

\* All rows of the table on the left are returned: those without a match with NULLs.
LeftRowsReturned ==
    phase = "done" /\ query # NoQuery =>
        \A a \in Range(query.l) : (\A b \in Range(query.r) : ~On(a, b)) =>
            Project(query.list, a, NullRow) \in Range(Result)
=============================================================================
