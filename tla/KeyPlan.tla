------------------------------ MODULE KeyPlan ------------------------------
(***************************************************************************)
(* A SELECT from tables that are joined by equalities: the keys of its     *)
(* plan (join_tables), how lp_optimize_where_multi_equal_ands fixes them   *)
(* to values or replaces them by those of a cross reference, and the       *)
(* nested loops over the keys that tmpl_physical_plan prints.              *)
(*                                                                         *)
(* A table is its unique_id u; its content is a set of rows, which are     *)
(* functions from columns to values.  The database returns the keys of a   *)
(* global and of a cross reference in order; values are not empty.         *)
(***************************************************************************)
EXTENDS Integers, Sequences, Functions

CONSTANTS
    Queries,        \* bound: the kinds of queries, each a record of
                    \*   from        the tables of the FROM clause, in order
                    \*   outer       tables of a parent query
                    \*   keys        their key columns, in the order of KEY NUM
                    \*   contents    the contents they may have
                    \*   conditions  pairs of operands that may be compared
    MaxConditions,  \* bound: equalities in the WHERE clause
    None            \* no value

Column(u, c) == [u |-> u, c |-> c]
Literal(v) == [v |-> v]
IsColumn(o) == "u" \in DOMAIN o

Unset == 0

\* The tables of a query have keys, which tell the rows apart; a condition compares
\* values and columns that the rows have.
IsQuery(q) ==
    LET tables == Range(q.from) \cup q.outer
        has(u, c) == \A rows \in q.contents[u] : \A row \in rows : c \in DOMAIN row
        operand(o) ==
            IF IsColumn(o) THEN o = Column(o.u, o.c) /\ o.u \in tables /\ o.c \in STRING /\ has(o.u, o.c)
            ELSE o = Literal(o.v) /\ o.v \in Nat \ {Unset}
    IN  /\ q.from \in Seq(Nat) \ {<<>>} /\ IsInjective(q.from)
        /\ q.outer \in SUBSET Nat /\ q.outer \cap Range(q.from) = {}
        /\ \A u \in tables :
              /\ q.keys[u] \in Seq(STRING) \ {<<>>} /\ IsInjective(q.keys[u])
              /\ \A c \in Range(q.keys[u]) : has(u, c)
              /\ \A rows \in q.contents[u] : \A a \in rows :
                    /\ \A c \in DOMAIN a : a[c] \in Nat \ {Unset}
                    /\ \A b \in rows : (\A c \in Range(q.keys[u]) : a[c] = b[c]) => a = b
        /\ \A p \in q.conditions : operand(p[1]) /\ operand(p[2]) /\ p[1] # None /\ p[2] # None

ASSUME QueriesAssumption ==
    /\ \A q \in DOMAIN Queries : IsQuery(Queries[q])
    /\ None \notin STRING

VARIABLES
    query,     \* the kind of the query; never changes
    content,   \* the rows of each table
    where,     \* the conjuncts of the WHERE clause
    phase,
    next,      \* the table that is joined, then the conjunct that is looked at
    keys,      \* LP_KEYS
    rank,      \* key_unique_id_array
    replaced,  \* tables whose LP_TABLE is now the plan of a cross reference
    level,     \* the loop that is running
    down,      \* whether it starts
    cursor,    \* ^cursor(id,"keys",u,table,column)
    output     \* the rows put out

vars == <<query, content, where, phase, next, keys, rank, replaced, level, down, cursor, output>>
plan == <<keys, rank, replaced>>
loops == <<level, down, cursor, output>>

From == Queries[query].from
Outer == Queries[query].outer
KeyColumns == Queries[query].keys
Contents == Queries[query].contents
Tables == Range(From) \cup Outer

AllRows == UNION UNION {Contents[u] : u \in Tables}
Columns == UNION {DOMAIN row : row \in AllRows}

\* The loops of a parent query are at one row of each of its tables.
Init ==
    /\ query \in DOMAIN Queries
    /\ content \in {f \in [Tables -> UNION {Contents[u] : u \in Tables}] : \A u \in Tables : f[u] \in Contents[u]}
    /\ \E here \in [Outer -> AllRows] :
        /\ \A u \in Outer : here[u] \in content[u]
        /\ cursor = [s \in Tables \X Columns |->
                        IF s[1] \in Outer /\ s[2] \in Range(KeyColumns[s[1]]) THEN here[s[1]][s[2]] ELSE Unset]
    /\ where = <<>> /\ phase = "parse" /\ next = 1
    /\ keys = <<>> /\ rank = [u \in Tables |-> 0] /\ replaced = {}
    /\ level = 1 /\ down = TRUE /\ output = <<>>

BooleanTermAnd(c) ==
    /\ phase = "parse" /\ Len(where) < MaxConditions
    /\ where' = Append(where, c)
    /\ UNCHANGED <<content, phase, next, plan, loops>>

-----------------------------------------------------------------------------
(* The keys.                                                               *)

Key(u, c, xref) == [u |-> u, c |-> c, value |-> None, xref |-> xref]

\* get_key_columns
KeysOf(u, xref) == [i \in DOMAIN KeyColumns[u] |-> Key(u, KeyColumns[u][i], xref)]

\* One call of join_tables: the keys of the next table come after the others.
JoinTables ==
    /\ phase \in {"parse", "join"} /\ next <= Len(From)
    /\ keys' = keys \o KeysOf(From[next], None)
    /\ next' = next + 1 /\ phase' = "join"
    /\ UNCHANGED <<content, where, rank, replaced, loops>>

\* key_unique_id_array[unique_id] is the last position, 0 for tables of a parent query.
KeyUniqueIdArray ==
    /\ phase = "join" /\ next > Len(From)
    /\ rank' = [u \in Tables |->
                    LET at == {i \in DOMAIN keys : keys[i].u = u}
                    IN IF at = {} THEN 0 ELSE CHOOSE i \in at : \A j \in at : j <= i]
    /\ phase' = "optimize" /\ next' = 1
    /\ UNCHANGED <<content, where, keys, replaced, loops>>

\* The first of the places in the list where a wanted key is, 0 if there is none.
FirstKey(at) == IF at = {} THEN 0 ELSE CHOOSE i \in at : \A j \in at : i <= j

\* lp_get_key and lp_get_key_index; 0 if the column is not a key.
KeyIndex(o) == FirstKey({i \in 1..Len(keys) : keys[i].u = o.u /\ keys[i].c = o.c})

\* lp_verify_valid_for_key_fix
ValidForKeyFix(l, r) ==
    IsColumn(l) /\ IsColumn(r) =>
        /\ KeyIndex(l) # 0 \/ KeyIndex(r) # 0
        /\ KeyIndex(l) = 0 \/ KeyIndex(r) = 0 => l.u # r.u

\* Mutant: the order of the operands decides.
SidesAsWritten(l, r) ==
    IF IsColumn(l) /\ IsColumn(r)
    THEN IF rank[l.u] = 0 /\ rank[r.u] = 0 THEN {}
         ELSE IF rank[r.u] = 0 THEN {<<r, l>>} ELSE {<<l, r>>}
    ELSE {p \in {<<l, r>>, <<r, l>>} : IsColumn(p[1]) /\ rank[p[1].u] # 0}

\* The column to fix and what to fix it to: of two columns the one of the later table,
\* or of the parent query's table on the right, which then has no key here.
Sides(l, r) ==
    IF IsColumn(l) /\ IsColumn(r)
    THEN IF rank[l.u] = 0 /\ rank[r.u] = 0 THEN {}
         ELSE IF rank[r.u] = 0 \/ rank[l.u] < rank[r.u] THEN {<<r, l>>} ELSE {<<l, r>>}
    ELSE {p \in {<<l, r>>, <<r, l>>} : IsColumn(p[1]) /\ rank[p[1].u] # 0}

Fixes == IF ValidForKeyFix(where[next][1], where[next][2]) THEN Sides(where[next][1], where[next][2]) ELSE {}

HasTable(u) == u \in Range(From) \ replaced

\* lp_opt_fix_key_to_const: not a key that is fixed, nor one below a cross reference.
FixKey ==
    /\ phase = "optimize" /\ next <= Len(where)
    /\ \E s \in Fixes :
        LET i == KeyIndex(s[1]) IN
        /\ i # 0 /\ keys[i].value = None /\ keys[i].xref = None
        /\ keys' = [keys EXCEPT ![i].value = s[2]]
    /\ next' = next + 1
    /\ UNCHANGED <<content, where, phase, rank, replaced, loops>>

\* Mutant: whether keys follow is not looked at.
LinkedAlways(xref, rest) == <<Head(xref)>> \o rest

\* If other keys follow, they are linked to the first of the cross reference.
Linked(xref, rest) == IF rest = <<>> THEN xref ELSE <<Head(xref)>> \o rest

\* A column that is not a key: the keys of its table give way to the column, fixed, and
\* the keys below it in its cross reference.
GenerateXrefKeys ==
    /\ phase = "optimize" /\ next <= Len(where)
    /\ \E s \in Fixes :
        LET u == s[1].u
            c == s[1].c
            xref == KeysOf(u, c)
            rest == SubSeq(keys, 1 + (CHOOSE i \in DOMAIN keys : keys[i].u = u
                                         /\ \A j \in DOMAIN keys : keys[j].u = u => j <= i), Len(keys))
        IN /\ KeyIndex(s[1]) = 0 /\ HasTable(u)
           /\ keys' = SubSeq(keys, 1, FirstKey({i \in 1..Len(keys) : keys[i].u = u}) - 1)
                      \o <<[Key(u, c, None) EXCEPT !.value = s[2]]>>
                      \o Linked(xref, rest)
           /\ replaced' = replaced \cup {u}
    /\ next' = next + 1
    /\ UNCHANGED <<content, where, phase, rank, loops>>

NotOptimized ==
    /\ phase = "optimize" /\ next <= Len(where)
    /\ \A s \in Fixes : LET i == KeyIndex(s[1]) IN
           IF i = 0 THEN ~HasTable(s[1].u) ELSE keys[i].value # None \/ keys[i].xref # None
    /\ next' = next + 1
    /\ UNCHANGED <<content, where, phase, plan, loops>>

EmitPlan ==
    /\ phase = "optimize" /\ next > Len(where)
    /\ phase' = "run"
    /\ UNCHANGED <<content, where, next, plan, loops>>

-----------------------------------------------------------------------------
(* The loops.                                                              *)

Current == keys[level]
Slot(k) == <<k.u, k.c>>

\* Rows under the subscripts of the key: those of the earlier keys of the table.
Under(l) ==
    {row \in content[keys[l].u] :
        \A j \in 1..(l - 1) : keys[j].u = keys[l].u => row[keys[j].c] = cursor[Slot(keys[j])]}

\* tmpl_column_reference: a key of the plan, or else read from the row.  Unset stands for
\* a reference to a node of the cursor that does not exist, an error.
Value(o) ==
    IF ~IsColumn(o) THEN o.v
    ELSE IF KeyIndex(o) # 0 THEN cursor[<<o.u, o.c>>]
    ELSE LET rows == {row \in content[o.u] : \A c \in Range(KeyColumns[o.u]) : row[c] = cursor[<<o.u, c>>]}
         IN IF rows = {} THEN Unset ELSE (CHOOSE row \in rows : TRUE)[o.c]

\* A loop that ends, or a row that is done, returns to the innermost loop around it.
Return ==
    LET around == {i \in 1..(level - 1) : keys[i].value = None} IN
    IF around = {} THEN phase' = "done" /\ UNCHANGED <<level, down>>
    ELSE /\ level' = CHOOSE i \in around : \A j \in around : j <= i
         /\ down' = FALSE
         /\ UNCHANGED phase

Enter == level' = level + 1 /\ down' = TRUE /\ UNCHANGED phase

\* Mutant: what the key is fixed to need not exist.
HasDataAlways(v) == TRUE

\* $DATA(source)'=0
HasData(v) == \E row \in Under(level) : row[Current.c] = v

\* SET key=value IF $DATA(source)'=0 DO
SetFixedKey ==
    /\ phase = "run" /\ level <= Len(keys) /\ Current.value # None
    /\ LET v == Value(Current.value) IN
       IF v = Unset THEN phase' = "error" /\ UNCHANGED <<level, down, cursor>>
       ELSE /\ cursor' = [cursor EXCEPT ![Slot(Current)] = v]
            /\ IF HasData(v) THEN Enter ELSE Return
    /\ UNCHANGED <<content, where, next, plan, output>>

\* FOR  SET key=$ORDER(source) QUIT:(key="")  DO
Advance ==
    /\ phase = "run" /\ level <= Len(keys) /\ Current.value = None
    /\ LET after == {v \in {row[Current.c] : row \in Under(level)} :
                        down \/ v > cursor[Slot(Current)]} IN
       IF after = {} THEN Return /\ cursor' = [cursor EXCEPT ![Slot(Current)] = Unset]
       ELSE /\ cursor' = [cursor EXCEPT ![Slot(Current)] = CHOOSE v \in after : \A w \in after : v <= w]
            /\ Enter
    /\ UNCHANGED <<content, where, next, plan, output>>

\* IF 1&(conditions) DO: the row is put out.
Project ==
    /\ phase = "run" /\ level > Len(keys)
    /\ LET operands == (UNION {{where[i][1], where[i][2]} : i \in DOMAIN where})
                       \cup (UNION {{Column(u, c) : c \in Range(KeyColumns[u])} : u \in Range(From)})
       IN IF \E o \in operands : Value(o) = Unset
          THEN phase' = "error" /\ UNCHANGED <<level, down, output>>
          ELSE /\ IF \A i \in DOMAIN where : Value(where[i][1]) = Value(where[i][2])
                  THEN output' = Append(output, [u \in Range(From) |->
                           [i \in DOMAIN KeyColumns[u] |-> Value(Column(u, KeyColumns[u][i]))]])
                  ELSE UNCHANGED output
               /\ Return
    /\ UNCHANGED <<content, where, next, plan, cursor>>

Optimize == JoinTables \/ KeyUniqueIdArray \/ FixKey \/ GenerateXrefKeys \/ NotOptimized \/ EmitPlan

Routine == SetFixedKey \/ Advance \/ Project

Next ==
    /\ \/ \E c \in Queries[query].conditions : BooleanTermAnd(c)
       \/ Optimize
       \/ Routine
    /\ UNCHANGED query

Spec == Init /\ [][Next]_vars

-----------------------------------------------------------------------------
\* The rows of a table that the loops of the parent query are at, or all.
RowsOf(u) ==
    IF u \in Range(From) THEN content[u]
    ELSE {row \in content[u] : \A c \in Range(KeyColumns[u]) : row[c] = cursor[<<u, c>>]}

Expected ==
    LET all == {f \in [Tables -> UNION {content[u] : u \in Tables}] : \A u \in Tables : f[u] \in RowsOf(u)}
        val(f, o) == IF IsColumn(o) THEN f[o.u][o.c] ELSE o.v
        right == {f \in all : \A i \in DOMAIN where : val(f, where[i][1]) = val(f, where[i][2])}
    IN {[u \in Range(From) |-> [i \in DOMAIN KeyColumns[u] |-> f[u][KeyColumns[u][i]]]] : f \in right}

\* Each combination of rows that satisfies the WHERE clause is put out once, and no other,
\* whichever keys are fixed, in whatever order the equalities are written, and whichever
\* tables are read through a cross reference; the routine does not end with an error.
JoinRows ==
    /\ phase # "error"
    /\ phase = "done" => Range(output) = Expected /\ IsInjective(output)

\* A key is fixed to a column only where the loops already have the keys that the column
\* is read with: "When selecting which to fix, always pick the key with the higher
\* unique_id.  This should ensure that we will always have the right sequence."
RightSequence ==
    \A i \in DOMAIN keys :
        LET v == keys[i].value IN
        v # None => (IsColumn(v) /\ v.u \in Range(From) =>
            \/ \E j \in 1..(i - 1) : keys[j].u = v.u /\ keys[j].c = v.c
            \/ \A c \in Range(KeyColumns[v.u]) : \E j \in 1..(i - 1) : keys[j].u = v.u /\ keys[j].c = c)

\* "keys" has all of the key columns of each table.
KeysComplete ==
    phase \notin {"parse", "join"} =>
        \A u \in Range(From) : \A c \in Range(KeyColumns[u]) : \E i \in DOMAIN keys : keys[i].u = u /\ keys[i].c = c
=============================================================================
