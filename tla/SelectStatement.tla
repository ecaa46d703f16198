-------------------------- MODULE SelectStatement --------------------------
(***************************************************************************)
(* A SELECT from its reduction by the parser (parser/select.y) to its plan *)
(* file: the statement is read, its names are resolved, it gets types, and *)
(* its hash names the file.                                                *)
(***************************************************************************)
EXTENDS QueryHash

CONSTANT Grammars   \* kinds of statements: for each depth of nesting, what the
                    \* clauses are chosen from

VARIABLES
    grammar,     \* the kind of the statement; never changes
    aliases,  \* the table aliases reduced so far; plan_id is their number
    open      \* the queries that are read, the outermost first

statement == <<grammar, aliases, open>>

Reading(items, use) ==
    [items |-> items, from |-> <<>>, where |-> NoExpr, use |-> use]

StatementInit ==
    /\ grammar \in DOMAIN Grammars
    /\ aliases = <<>>
    /\ \E items \in Grammars[grammar][1].lists : open = <<Reading(items, NoExpr)>>

Depth == Len(Grammars[grammar])
F == Grammars[grammar][Len(open)]
Current == Last(open)
Amend(q) == Append(Front(open), q)

\* The joins of q with one more: JOIN ... ON names its type on the right one,
\* CROSS JOIN on the left one.
Joined(from, id, on) ==
    LET j == [type |-> IF on = NoExpr THEN "none" ELSE "inner", alias |-> id, on |-> on]
    IN IF from = <<>> \/ on # NoExpr THEN Append(from, j)
       ELSE Append([from EXCEPT ![1].type = "cross"], j)

\* table_reference: a table of the FROM clause.
TableReference(t, on) ==
    /\ open # <<>> /\ Current.where = NoExpr
    /\ Len(Current.from) < F.joins
    /\ Current.from = <<>> => on = NoExpr
    /\ aliases' = Append(aliases, [kind |-> "table", table |-> t.table, name |-> t.name])
    /\ open' = Amend([Current EXCEPT !.from = Joined(@, Len(aliases'), on)])
    /\ UNCHANGED grammar

WhereCondition(e) ==
    /\ open # <<>> /\ Current.from # <<>> /\ Current.where = NoExpr
    /\ open' = Amend([Current EXCEPT !.where = e])
    /\ UNCHANGED <<grammar, aliases>>

\* A subquery begins, in the FROM clause or after IN.
Begin(items, use) ==
    /\ open # <<>> /\ Len(open) < Depth /\ Current.where = NoExpr
    /\ (use = NoExpr) = (Current.from = <<>>)
    /\ open' = Append(open, Reading(items, use))
    /\ UNCHANGED <<grammar, aliases>>

NoWords == <<[keyword |-> "none", value |-> ""]>>

\* query_specification; only the statement itself has an ORDER BY and keywords.
\* The query around it goes on with a derived table, or with its WHERE clause.
QuerySpecification(order, words, name) ==
    /\ open # <<>> /\ Current.from # <<>>
    /\ LET items == IF Current.items = Star THEN AllColumns(aliases, Current.from)
                    ELSE [k \in DOMAIN Current.items |-> DerivedColumn(Current.items[k])]
           id == Len(aliases) + 1
           around == open[Len(open) - 1]
       IN /\ aliases' = Append(aliases, [kind |-> "select", name |-> name, items |-> items, from |-> Current.from,
                                   where |-> Current.where, order |-> order, words |-> words])
          /\ open' = IF Len(open) = 1 THEN <<>>
                     ELSE Append(Front(Front(open)),
                            IF Current.use = NoExpr THEN [around EXCEPT !.from = Joined(@, id, NoExpr)]
                            ELSE [around EXCEPT !.where = Expr("in", Append(Current.use.args, SubQuery(id)))])
    /\ UNCHANGED grammar

StatementNext ==
    /\ open # <<>>
    /\ \/ \E t \in F.tables, on \in F.ons : TableReference(t, on)
       \/ \E e \in F.wheres : WhereCondition(e)
       \/ \E use \in F.uses : Len(open) < Depth /\ \E items \in Grammars[grammar][Len(open) + 1].lists : Begin(items, use)
       \/ \E order \in F.orders, words \in F.words, name \in F.names : QuerySpecification(order, words, name)

-----------------------------------------------------------------------------
(* Properties.                                                             *)

Finished == open = <<>> /\ aliases # <<>>

Exprs(q) ==
    [k \in DOMAIN q.items |-> q.items[k].expr] \o <<q.where>> \o [i \in DOMAIN q.from |-> q.from[i].on]
    \o <<q.order>>

\* The queries whose FROM clause contains id, and those with id after IN.
HolderOf(h, id) == {q \in DOMAIN h : IsQuery(h, q) /\ \E i \in DOMAIN h[q].from : h[q].from[i].alias = id}
UserOf(h, id) == {q \in DOMAIN h : IsQuery(h, q) /\ \E i \in DOMAIN h[q].where.args : h[q].where.args[i] = SubQuery(id)}

RECURSIVE Scopes(_, _)
\* The queries that a name in q may refer to, the innermost first: not the one
\* whose FROM clause contains q.
Scopes(h, q) ==
    <<q>> \o (IF UserOf(h, q) # {} THEN Scopes(h, CHOOSE p \in UserOf(h, q) : TRUE)
              ELSE IF HolderOf(h, q) # {} THEN Tail(Scopes(h, CHOOSE p \in HolderOf(h, q) : TRUE))
              ELSE <<>>)

Candidates(h, q, ref) ==
    {id \in {h[q].from[i].alias : i \in DOMAIN h[q].from} :
        IF ref.table # "" THEN h[id].name = ref.table ELSE MatchColumnInTable(h, id, ref.name) # 0}

\* What ref in query q should be: the one table that has it in the innermost query
\* with such a table; in ORDER BY (last) also the one item of the list with this
\* name.  Empty if the statement should be refused, more than one if there is no
\* telling.
Meant(h, q, ref, last) ==
    LET in == SelectSeq(Scopes(h, q), LAMBDA p : Candidates(h, p, ref) # {})
        own == {k \in DOMAIN h[q].items : h[q].items[k].name = ref.name}
        At(id) == IF MatchColumnInTable(h, id, ref.name) = 0 THEN NoColumn
                  ELSE ColumnAlias(id, MatchColumnInTable(h, id, ref.name))
    IN IF in # <<>> THEN {At(id) : id \in Candidates(h, in[1], ref)}
       ELSE IF ref.table # "" THEN {}
       ELSE IF last THEN {ColumnAlias(q, k) : k \in own}
       ELSE {ColumnAlias(q, k) : k \in own} \cup {NoColumn : k \in own}

\* A table beside the derived table q has the name, and none inside: a deviation.
Lateral(h, q, ref) ==
    /\ Candidates(h, q, ref) = {}
    /\ \E p \in UNION {HolderOf(h, r) : r \in DOMAIN h} : Candidates(h, p, ref) # {} /\ p \notin ToSet(Scopes(h, q))

\* A longer name of the list begins with this one, which no table has: a deviation.
Abbreviated(h, q, ref) ==
    /\ ref.table = "" /\ \A p \in ToSet(Scopes(h, q)) : Candidates(h, p, ref) = {}
    /\ \E k \in DOMAIN h[q].items :
          h[q].items[k].name # ref.name /\ BeginsWith(h[q].items[k].name, ref.name)

\* What st makes of the names of the statement.
Resolved(st) ==
    /\ st.lists = Linked(aliases)
    /\ \A q \in {id \in DOMAIN aliases : IsQuery(aliases, id)} :
       \A n \in DOMAIN Exprs(aliases[q]) :
          LET before == Exprs(aliases[q])[n]
              after == Exprs(st.heap[q])[n]
          IN \A i \in DOMAIN before.args :
                LET ref == before.args[i]
                    meant == Meant(aliases, q, ref, n = Len(Exprs(aliases[q])))
                IN (/\ ref.op = "ref" /\ ~(before.op = "case" /\ i = 4)
                    /\ ~Lateral(aliases, q, ref) /\ ~Abbreviated(aliases, q, ref)) =>
                      /\ Cardinality(meant) = 1 => after.args[i] \in meant
                      /\ meant \subseteq {NoColumn} => st.result

\* A name is resolved to the column that SQL's scopes give it, whatever queries
\* are around it or beside it; a name that no table has, and no item of the list
\* has or begins with, is refused; and the lists of joins are left as they were
\* (qualify_query links the list of the outer query behind that of the inner one,
\* and unlinks it).
NamesResolved == Finished => Resolved(Qualified(aliases))

\* The statements that differ from this one in one place.
Variants ==
    LET f == Grammars[grammar][1]
        root == Len(aliases)
        With(q) == [aliases EXCEPT ![root] = q]
        q == aliases[root]
    IN {With([q EXCEPT !.items = [k \in DOMAIN l |-> DerivedColumn(l[k])]]) : l \in f.lists \ {Star}}
       \cup {With([q EXCEPT !.where = e]) : e \in IF UNION {UserOf(aliases, id) : id \in DOMAIN aliases} = {} THEN f.wheres ELSE {}}
       \cup {With([q EXCEPT !.order = e]) : e \in f.orders}
       \cup {With([q EXCEPT !.words = w]) : w \in f.words}
       \cup {With([q EXCEPT !.from[2].on = e]) : e \in IF Len(q.from) = 2 THEN f.ons ELSE {}}
       \cup {[aliases EXCEPT ![id] = [kind |-> "table", table |-> t.table, name |-> t.name]] :
                id \in {n \in DOMAIN aliases : ~IsQuery(aliases, n)}, t \in f.tables}

\* Two aliases of one table with columns that are used: a deviation.
SelfJoined(h) ==
    \E id1, id2 \in {id \in Typed(h) : ~IsQuery(h, id)} : id1 # id2 /\ h[id1].table = h[id2].table

\* A statement st that is not refused has a plan file that st2 does not use.
OtherFile(name, st, st2) ==
    st2.heap = st.heap \/ ~(Parsed(st2) /\ GenerateRoutineName(st2.heap) = name)
OwnFile(st) ==
    Parsed(st) /\ ~SelfJoined(st.heap) =>
        LET name == GenerateRoutineName(st.heap) IN
        \A other \in Variants \ {aliases} : OtherFile(name, st, Qualified(other))

\* Statements that share a plan file are the same query: what hash_canonical_query
\* ingests tells apart any two that differ in a column, a table, a condition, an
\* order or a keyword.
SameFileSameQuery == Finished => OwnFile(Qualified(aliases))
=============================================================================
