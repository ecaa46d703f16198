---------------------------- MODULE KeyLoopProofs ----------------------------
(***************************************************************************)
(* The rows of a join, for any tables, contents and equalities: the loops  *)
(* over the keys of a plan put out each combination of rows once.          *)
(*                                                                         *)
(* Below, q is a query, ct the content of its tables, wh the conjuncts, ks *)
(* a list of keys, and cs a state of the cursor.                           *)
(***************************************************************************)
EXTENDS KeyPlanProofs

-----------------------------------------------------------------------------
(* The loops.  R has the rows that each table contributes.                 *)

Val(f, o) == IF IsColumn(o) THEN f[o.u][o.c] ELSE o.v

Combinations(R) == {f \in [DOMAIN R -> UNION {R[u] : u \in DOMAIN R}] : \A u \in DOMAIN R : f[u] \in R[u]}

Rights(R, wh) == {f \in Combinations(R) : \A i \in DOMAIN wh : Val(f, wh[i][1]) = Val(f, wh[i][2])}

OutOf(q, f) == [u \in Range(q.from) |-> [i \in DOMAIN q.keys[u] |-> f[u][q.keys[u][i]]]]

\* The value of a key in a combination of rows, and in the cursor
At(ks, f, k) == f[ks[k].u][ks[k].c]
Cur(ks, cs, k) == cs[<<ks[k].u, ks[k].c>>]

\* The loops outside of l are at the combination f.
Agree(ks, cs, f, l) == \A j \in 1..(l - 1) : At(ks, f, j) = Cur(ks, cs, j)

\* The loops have passed f.
Passed(ks, cs, l, d, f) ==
    \/ \E j \in 1..(l - 1) : Agree(ks, cs, f, j) /\ At(ks, f, j) < Cur(ks, cs, j)
    \/ ~d /\ Agree(ks, cs, f, l) /\ At(ks, f, l) <= Cur(ks, cs, l)

\* A row has the values of the loops down to l.
Reached(R, ks, cs, l) ==
    \E row \in R[ks[l].u] : \A j \in 1..l : ks[j].u = ks[l].u => row[ks[j].c] = Cur(ks, cs, j)

\* Where a key is fixed, the right combinations have its value.
Forced(R, wh, ks, cs, l) ==
    ks[l].value # None =>
        \A f \in Rights(R, wh) : Agree(ks, cs, f, l) => At(ks, f, l) = Cur(ks, cs, l)

\* Exactly the combinations S have been put out, each once.
PutOut(q, S, out) == Range(out) = {OutOf(q, f) : f \in S} /\ IsInjective(out)

Looping(q, R, wh, ks, cs, l, d, out) ==
    /\ l \in 1..Len(ks) + 1 /\ d \in BOOLEAN
    /\ ~d => l <= Len(ks) /\ ks[l].value = None
    /\ \A j \in 1..Len(ks) : j < l \/ (j = l /\ ~d) => Reached(R, ks, cs, j) /\ Forced(R, wh, ks, cs, j)
    /\ PutOut(q, {f \in Rights(R, wh) : Passed(ks, cs, l, d, f)}, out)

Contributed == [u \in Tables |-> RowsOf(u)]

\* The loops of the parent query are at a row.
OuterHere == \A u \in Outer : \E row \in content[u] : \A c \in Range(KeyColumns[u]) : row[c] = cursor[<<u, c>>]

RunInv ==
    /\ cursor \in [Tables \X Columns -> Nat] /\ OuterHere
    /\ \E X : output \in Seq(X)
    /\ phase \in {"parse", "join", "optimize"} => level = 1 /\ down = TRUE /\ output = <<>>
    /\ phase = "run" => Looping(Queries[query], Contributed, where, keys, cursor, level, down, output)
    /\ phase = "done" => PutOut(Queries[query], Rights(Contributed, where), output)
    /\ phase # "error"

JoinInv == KeysInv /\ SequencedIn(Queries[query], keys) /\ RunInv

-----------------------------------------------------------------------------
(* What the loops rely on.                                                 *)

Planned(q, ct, R, wh, ks) ==
    /\ IsQuery(q) /\ Contained(q, ct) /\ wh \in Seq(q.conditions)
    /\ ListedIn(q, ct, ks, Len(q.from)) /\ FoundedIn(wh, ks) /\ SequencedIn(q, ks)
    /\ DOMAIN R = TablesOf(q)
    /\ \A u \in Range(q.from) : R[u] = ct[u]
    /\ \A u \in q.outer : \E row \in ct[u] : R[u] = {row}

LEMMA Contribution ==
    ASSUME NEW q, NEW ct, NEW R, NEW wh, NEW ks, Planned(q, ct, R, wh, ks), NEW u \in TablesOf(q)
    PROVE  R[u] \subseteq ct[u]
<1>1. CASE u \in Range(q.from)
  BY <1>1, Zenon DEF Planned
<1>2. CASE u \in q.outer
  BY <1>2, Zenon DEF Planned
<1> QED
  BY <1>1, <1>2, Zenon DEF TablesOf

LEMMA CombinedRow ==
    ASSUME NEW q, NEW ct, NEW R, NEW wh, NEW ks, Planned(q, ct, R, wh, ks), NEW f \in Combinations(R)
    PROVE  \A u \in TablesOf(q) : f[u] \in R[u] /\ f[u] \in ct[u]
<1>1. DOMAIN R = TablesOf(q)
  BY Zenon DEF Planned
<1>2. \A u \in TablesOf(q) : f[u] \in R[u]
  BY <1>1, Zenon DEF Combinations
<1> QED
  BY <1>2, Contribution, Zenon

LEMMA PlanKeys ==
    ASSUME NEW q, NEW ct, NEW R, NEW wh, NEW ks, Planned(q, ct, R, wh, ks)
    PROVE  /\ Len(ks) \in Nat /\ DOMAIN ks = 1..Len(ks)
           /\ \A k \in 1..Len(ks) :
                 /\ ks[k].u \in Range(q.from) /\ ks[k].u \in TablesOf(q)
                 /\ Pos(q, ks[k].u) \in Nat
                 /\ \A row \in ct[ks[k].u] : ks[k].c \in DOMAIN row /\ row[ks[k].c] \in Nat /\ row[ks[k].c] # 0
                 /\ R[ks[k].u] = ct[ks[k].u]
<1>1. IsQuery(q) /\ Contained(q, ct) /\ ListedIn(q, ct, ks, Len(q.from))
  BY Zenon DEF Planned
<1>2. /\ Len(ks) \in Nat /\ DOMAIN ks = 1..Len(ks)
      /\ \A k \in 1..Len(ks) : ks[k].u \in Range(q.from) /\ Pos(q, ks[k].u) \in 1..Len(q.from)
  BY <1>1, KeyFacts, Zenon
<1>3. \A u \in Range(q.from) : u \in TablesOf(q) /\ R[u] = ct[u]
  BY Zenon DEF Planned, TablesOf
<1>4. \A k \in 1..Len(ks) : \A row \in ct[ks[k].u] : ks[k].c \in DOMAIN row
  BY <1>1, Zenon DEF ListedIn
<1>5. \A u \in TablesOf(q) : \A row \in ct[u] : \A c \in DOMAIN row : row[c] \in Nat /\ row[c] # 0
  BY <1>1, RowFacts, Zenon
<1>6. \A k \in 1..Len(ks) : \A row \in ct[ks[k].u] : row[ks[k].c] \in Nat /\ row[ks[k].c] # 0
  BY <1>2, <1>3, <1>4, <1>5, Zenon
<1> QED
  BY <1>2, <1>3, <1>4, <1>6

LEMMA CombinedValue ==
    ASSUME NEW q, NEW ct, NEW R, NEW wh, NEW ks, Planned(q, ct, R, wh, ks), NEW f \in Combinations(R),
           NEW k \in 1..Len(ks)
    PROVE  At(ks, f, k) \in Nat
<1>1. f[ks[k].u] \in ct[ks[k].u]
  BY PlanKeys, CombinedRow, Zenon
<1> QED
  BY <1>1, PlanKeys, Zenon DEF At

LEMMA LoopValue ==
    ASSUME NEW q, NEW ct, NEW R, NEW wh, NEW ks, Planned(q, ct, R, wh, ks), NEW cs,
           NEW k \in 1..Len(ks), Reached(R, ks, cs, k)
    PROVE  Cur(ks, cs, k) \in Nat
<1>1. PICK row \in R[ks[k].u] : \A j \in 1..k : ks[j].u = ks[k].u => row[ks[j].c] = Cur(ks, cs, j)
  BY Zenon DEF Reached
<1>2. k \in 1..k
  BY PlanKeys
<1>3. row[ks[k].c] = Cur(ks, cs, k)
  BY <1>1, <1>2, Zenon
<1>4. row \in ct[ks[k].u]
  BY <1>1, PlanKeys
<1> QED
  BY <1>3, <1>4, PlanKeys

\* The loops outside of l stay as they are.
Same(ks, cs, c2, l) == \A k \in 1..(l - 1) : Cur(ks, c2, k) = Cur(ks, cs, k)

LEMMA Frame ==
    ASSUME NEW ks, NEW cs, NEW c2, NEW l \in Nat, Same(ks, cs, c2, l)
    PROVE  /\ \A f : \A j \in 1..l : Agree(ks, c2, f, j) <=> Agree(ks, cs, f, j)
           /\ \A f : Passed(ks, c2, l, TRUE, f) <=> Passed(ks, cs, l, TRUE, f)
           /\ \A R : \A j \in 1..(l - 1) : Reached(R, ks, c2, j) <=> Reached(R, ks, cs, j)
           /\ \A R, wh : \A j \in 1..(l - 1) : Forced(R, wh, ks, c2, j) <=> Forced(R, wh, ks, cs, j)
<1>1. \A k \in 1..(l - 1) : Cur(ks, c2, k) = Cur(ks, cs, k)
  BY Zenon DEF Same
<1>2. ASSUME NEW f, NEW j \in 1..l PROVE Agree(ks, c2, f, j) <=> Agree(ks, cs, f, j)
  <2>1. \A k \in 1..(j - 1) : k \in 1..(l - 1)
    OBVIOUS
  <2> QED
    BY <1>1, <2>1, Zenon DEF Agree
<1>3. ASSUME NEW f PROVE Passed(ks, c2, l, TRUE, f) <=> Passed(ks, cs, l, TRUE, f)
  <2>1. \A j \in 1..(l - 1) : j \in 1..l
    OBVIOUS
  <2>2. \A j \in 1..(l - 1) : (Agree(ks, c2, f, j) <=> Agree(ks, cs, f, j)) /\ Cur(ks, c2, j) = Cur(ks, cs, j)
    BY <1>1, <1>2, <2>1, Zenon
  <2> QED
    BY <2>2, Zenon DEF Passed
<1>4. ASSUME NEW R, NEW j \in 1..(l - 1) PROVE Reached(R, ks, c2, j) <=> Reached(R, ks, cs, j)
  <2>1. \A k \in 1..j : k \in 1..(l - 1)
    OBVIOUS
  <2>2. \A k \in 1..j : Cur(ks, c2, k) = Cur(ks, cs, k)
    BY <1>1, <2>1, Zenon
  <2> QED
    BY <2>2, Zenon DEF Reached
<1>5. ASSUME NEW R, NEW wh, NEW j \in 1..(l - 1) PROVE Forced(R, wh, ks, c2, j) <=> Forced(R, wh, ks, cs, j)
  <2>1. j \in 1..l
    OBVIOUS
  <2>2. \A f : Agree(ks, c2, f, j) <=> Agree(ks, cs, f, j)
    BY <1>2, <2>1, Zenon
  <2> QED
    BY <1>1, <2>2, Zenon DEF Forced
<1> QED
  BY <1>2, <1>3, <1>4, <1>5, Zenon

\* Behind the loop i all keys down to l are fixed: a right combination that is at the
\* loops down to i is at all of them.
LEMMA ForcedDown ==
    ASSUME NEW R, NEW wh, NEW ks, NEW cs, NEW l \in Nat, NEW f \in Rights(R, wh),
           NEW i \in Nat, i < l, Agree(ks, cs, f, i + 1),
           \A j \in 1..(l - 1) : i < j => ks[j].value # None /\ Forced(R, wh, ks, cs, j)
    PROVE  Agree(ks, cs, f, l)
<1> SUFFICES ASSUME ~Agree(ks, cs, f, l) PROVE FALSE
  BY Zenon
<1> DEFINE T == {j \in 1..(l - 1) : At(ks, f, j) # Cur(ks, cs, j)}
<1>1. T \subseteq Nat /\ T # {}
  BY DEF Agree
<1>2. PICK j \in T : \A k \in T : j <= k
  <2> HIDE DEF T
  <2> QED
    BY <1>1, LeastNat, Zenon
<1>3. j \in 1..(l - 1) /\ At(ks, f, j) # Cur(ks, cs, j)
  BY Zenon
<1>4. Agree(ks, cs, f, j)
  <2> SUFFICES ASSUME NEW k \in 1..(j - 1) PROVE At(ks, f, k) = Cur(ks, cs, k)
    BY Zenon DEF Agree
  <2>1. k \in 1..(l - 1) /\ ~(j <= k)
    BY <1>3
  <2> QED
    BY <1>2, <2>1, Zenon
<1>5. i < j
  <2>1. \A k \in 1..i : At(ks, f, k) = Cur(ks, cs, k)
    <3>1. (i + 1) - 1 = i
      OBVIOUS
    <3> QED
      BY <3>1, Zenon DEF Agree
  <2> QED
    BY <1>3, <2>1
<1>6. ks[j].value # None /\ Forced(R, wh, ks, cs, j)
  BY <1>3, <1>5, Zenon
<1> QED
  BY <1>3, <1>4, <1>6, Zenon DEF Forced

LEMMA Back ==
    ASSUME NEW q, NEW ct, NEW R, NEW wh, NEW ks, Planned(q, ct, R, wh, ks), NEW cs,
           NEW l \in 1..(Len(ks) + 1), NEW f \in Rights(R, wh),
           \A j \in 1..(l - 1) : Reached(R, ks, cs, j) /\ Forced(R, wh, ks, cs, j),
           NEW i \in 1..(l - 1), \A j \in 1..(l - 1) : i < j => ks[j].value # None
    PROVE  Passed(ks, cs, i, FALSE, f) <=> Passed(ks, cs, l, TRUE, f) \/ Agree(ks, cs, f, l)
<1>1. Len(ks) \in Nat /\ l \in Nat /\ i \in Nat /\ i < l /\ \A j \in 1..(l - 1) : j \in 1..Len(ks) /\ j \in Nat
  BY PlanKeys
<1>2. f \in Combinations(R)
  BY Zenon DEF Rights
<1>3. \A j \in 1..(l - 1) : At(ks, f, j) \in Nat /\ Cur(ks, cs, j) \in Nat
  BY <1>1, <1>2, CombinedValue, LoopValue, Zenon
<1>4. ASSUME Passed(ks, cs, i, FALSE, f)
      PROVE  Passed(ks, cs, l, TRUE, f) \/ Agree(ks, cs, f, l)
  <2>1. CASE \E j \in 1..(i - 1) : Agree(ks, cs, f, j) /\ At(ks, f, j) < Cur(ks, cs, j)
    <3>1. \A j \in 1..(i - 1) : j \in 1..(l - 1)
      BY <1>1
    <3> QED
      BY <2>1, <3>1, Zenon DEF Passed
  <2>2. CASE Agree(ks, cs, f, i) /\ At(ks, f, i) < Cur(ks, cs, i)
    BY <2>2, Zenon DEF Passed
  <2>3. CASE Agree(ks, cs, f, i) /\ At(ks, f, i) = Cur(ks, cs, i)
    <3>1. Agree(ks, cs, f, i + 1)
      <4>1. \A k \in 1..((i + 1) - 1) : k \in 1..(i - 1) \/ k = i
        BY <1>1
      <4> QED
        BY <2>3, <4>1, Zenon DEF Agree
    <3>2. \A j \in 1..(l - 1) : i < j => ks[j].value # None /\ Forced(R, wh, ks, cs, j)
      BY Zenon
    <3> QED
      BY <1>1, <3>1, <3>2, ForcedDown, Zenon
  <2>4. \/ \E j \in 1..(i - 1) : Agree(ks, cs, f, j) /\ At(ks, f, j) < Cur(ks, cs, j)
        \/ Agree(ks, cs, f, i) /\ At(ks, f, i) <= Cur(ks, cs, i)
    BY <1>4, Zenon DEF Passed
  <2>5. At(ks, f, i) <= Cur(ks, cs, i) => At(ks, f, i) < Cur(ks, cs, i) \/ At(ks, f, i) = Cur(ks, cs, i)
    BY <1>3
  <2> QED
    BY <2>1, <2>2, <2>3, <2>4, <2>5, Zenon
<1>5. \A j \in 1..l : Agree(ks, cs, f, j) /\ i < j => Agree(ks, cs, f, i) /\ At(ks, f, i) = Cur(ks, cs, i)
  <2> SUFFICES ASSUME NEW j \in 1..l, Agree(ks, cs, f, j), i < j
               PROVE  Agree(ks, cs, f, i) /\ At(ks, f, i) = Cur(ks, cs, i)
    BY Zenon
  <2>1. i \in 1..(j - 1) /\ \A k \in 1..(i - 1) : k \in 1..(j - 1)
    BY <1>1
  <2> QED
    BY <2>1, Zenon DEF Agree
<1>6. Agree(ks, cs, f, i) /\ At(ks, f, i) <= Cur(ks, cs, i) => Passed(ks, cs, i, FALSE, f)
  BY Zenon DEF Passed
<1>7. ASSUME Agree(ks, cs, f, l) PROVE Passed(ks, cs, i, FALSE, f)
  <2>1. l \in 1..l
    BY <1>1
  <2>2. Agree(ks, cs, f, i) /\ At(ks, f, i) = Cur(ks, cs, i)
    BY <1>1, <1>5, <1>7, <2>1, Zenon
  <2>3. At(ks, f, i) <= Cur(ks, cs, i)
    BY <1>3, <2>2
  <2> QED
    BY <1>6, <2>2, <2>3, Zenon
<1>8. ASSUME Passed(ks, cs, l, TRUE, f) PROVE Passed(ks, cs, i, FALSE, f)
  <2>1. PICK j \in 1..(l - 1) : Agree(ks, cs, f, j) /\ At(ks, f, j) < Cur(ks, cs, j)
    BY <1>8, Zenon DEF Passed
  <2>2. CASE j < i
    <3>1. j \in 1..(i - 1)
      BY <1>1, <2>2
    <3> QED
      BY <2>1, <3>1, Zenon DEF Passed
  <2>3. CASE j = i
    <3>1. At(ks, f, i) <= Cur(ks, cs, i)
      BY <1>3, <2>1, <2>3, SMTT(60)
    <3> QED
      BY <1>6, <2>1, <2>3, <3>1, Zenon
  <2>4. CASE i < j
    <3>1. j \in 1..l
      BY <1>1
    <3>2. Agree(ks, cs, f, i) /\ At(ks, f, i) = Cur(ks, cs, i)
      BY <1>5, <2>1, <2>4, <3>1, Zenon
    <3>3. At(ks, f, i) <= Cur(ks, cs, i)
      BY <1>3, <3>2
    <3> QED
      BY <1>6, <3>2, <3>3, Zenon
  <2>5. j \in Nat
    BY <1>1, <2>1, Zenon
  <2>6. j < i \/ j = i \/ i < j
    BY <1>1, <2>5
  <2> QED
    BY <2>2, <2>3, <2>4, <2>6, Zenon
<1> QED
  BY <1>4, <1>7, <1>8, Zenon

-----------------------------------------------------------------------------
(* What the routine reads.                                                 *)

\* The keys of the row are where the loops are.
RowHere(ks, cs, u, row) == \A k \in 1..Len(ks) : ks[k].u = u => row[ks[k].c] = Cur(ks, cs, k)

LEMMA ValueRow ==
    ASSUME NEW q, q = Queries[query], Planned(q, content, Contributed, where, keys),
           NEW o, IsColumn(o), o.u \in TablesOf(q), NEW row \in Contributed[o.u],
           o.u \in Range(q.from) => RowHere(keys, cursor, o.u, row)
    PROVE  Value(o) = row[o.c]
<1>1. IsQuery(q) /\ Contained(q, content) /\ ListedIn(q, content, keys, Len(q.from))
  BY Zenon DEF Planned
<1>2. keys \in Seq(KeyType(q)) /\ Len(keys) \in Nat /\ \A k \in 1..Len(keys) : keys[k].u \in Range(q.from)
  BY <1>1, KeyFacts, Zenon
<1>3. CASE KeyIndex(o) # 0
  <2>1. PICK i \in 1..Len(keys) : keys[i].u = o.u /\ keys[i].c = o.c
    BY <1>2, <1>3, KeyIndexFacts, Zenon
  <2>2. row[keys[i].c] = Cur(keys, cursor, i)
    BY <1>2, <2>1, Zenon DEF RowHere
  <2>3. row[o.c] = cursor[<<o.u, o.c>>]
    BY <2>1, <2>2, Zenon DEF Cur
  <2> QED
    BY <1>3, <2>3, Zenon DEF Value
<1>4. CASE KeyIndex(o) = 0
  <2> DEFINE rows == {other \in content[o.u] : \A c \in Range(q.keys[o.u]) : other[c] = cursor[<<o.u, c>>]}
  <2>1. row \in content[o.u]
    BY Contribution, Zenon
  <2>2. \A c \in Range(q.keys[o.u]) : row[c] = cursor[<<o.u, c>>]
    <3>1. CASE o.u \in Range(q.from)
      <4> SUFFICES ASSUME NEW c \in Range(q.keys[o.u]) PROVE row[c] = cursor[<<o.u, c>>]
        BY Zenon
      <4>1. Pos(q, o.u) <= Len(q.from)
        BY <1>1, <3>1, PosFacts
      <4>2. PICK k \in 1..Len(keys) : keys[k].u = o.u /\ keys[k].c = c
        BY <1>1, <3>1, <4>1, ZenonT(60) DEF ListedIn
      <4>3. row[keys[k].c] = cursor[<<keys[k].u, keys[k].c>>]
        BY <3>1, <4>2, Zenon DEF RowHere, Cur
      <4> QED
        BY <4>2, <4>3, Zenon
    <3>2. CASE o.u \notin Range(q.from)
      <4>1. Contributed[o.u] = {other \in content[o.u] : \A c \in Range(q.keys[o.u]) : other[c] = cursor[<<o.u, c>>]}
        BY <3>2, Zenon DEF Contributed, RowsOf, Tables, TablesOf, From, Outer, KeyColumns
      <4> QED
        BY <4>1, Zenon
    <3> QED
      BY <3>1, <3>2, Zenon
  <2>3. row \in rows
    BY <2>1, <2>2, Zenon
  <2>4. \A other \in rows : other = row
    <3> SUFFICES ASSUME NEW other \in rows PROVE other = row
      BY Zenon
    <3>1. other \in content[o.u] /\ \A c \in Range(q.keys[o.u]) : row[c] = other[c]
      BY <2>2, Zenon
    <3> QED
      BY <1>1, <2>1, <3>1, RowFacts, SMTT(60)
  <2>5. Value(o) = IF rows = {} THEN Unset ELSE (CHOOSE r \in rows : TRUE)[o.c]
    <3> DEFINE all == {other \in content[o.u] : \A c \in Range(KeyColumns[o.u]) : other[c] = cursor[<<o.u, c>>]}
    <3>1. Value(o) = IF all = {} THEN Unset ELSE (CHOOSE r \in all : TRUE)[o.c]
      BY <1>4, Zenon DEF Value
    <3>2. all = rows
      BY Zenon DEF KeyColumns
    <3> HIDE DEF all, rows
    <3> QED
      BY <3>1, <3>2, Zenon
  <2> HIDE DEF rows
  <2>6. rows # {} /\ (CHOOSE r \in rows : TRUE) = row
    BY <2>3, <2>4, Zenon
  <2> QED
    BY <2>5, <2>6, Zenon
<1> QED
  BY <1>3, <1>4, Zenon

\* The rows of a table whose loops all run
LEMMA FullRow ==
    ASSUME NEW q, NEW ct, NEW R, NEW wh, NEW ks, Planned(q, ct, R, wh, ks), NEW cs, NEW l \in Nat,
           \A j \in 1..Len(ks) : j < l => Reached(R, ks, cs, j),
           NEW u \in Range(q.from), \A k \in 1..Len(ks) : ks[k].u = u => k < l
    PROVE  \E row \in R[u] : RowHere(ks, cs, u, row)
<1>1. IsQuery(q) /\ ListedIn(q, ct, ks, Len(q.from))
  BY Zenon DEF Planned
<1>2. PICK m \in Nat : m = Len(ks) /\ DOMAIN ks = 1..m
  BY PlanKeys
<1>3. \E k \in 1..m : ks[k].u = u
  <2>1. u \in TablesOf(q)
    BY Zenon DEF TablesOf
  <2>2. \E c \in Range(q.keys[u]) : TRUE
    <3>1. Len(q.keys[u]) \in Nat /\ Len(q.keys[u]) # 0 /\ Range(q.keys[u]) = {q.keys[u][i] : i \in 1..Len(q.keys[u])}
      BY <1>1, <2>1, TableFacts, Zenon
    <3>2. 1 \in 1..Len(q.keys[u])
      BY <3>1, SMTT(60)
    <3> QED
      BY <3>1, <3>2, Zenon
  <2>3. Pos(q, u) <= Len(q.from)
    BY <1>1, PosFacts
  <2> QED
    BY <1>1, <1>2, <2>2, <2>3, Zenon DEF ListedIn
<1>4. PICK t \in 1..m : ks[t].u = u /\ \A k \in 1..m : ks[k].u = u => k <= t
  <2>1. Top(ks, u) \in 1..m /\ ks[Top(ks, u)].u = u /\ \A k \in 1..m : ks[k].u = u => k <= Top(ks, u)
    BY <1>2, <1>3, TopFacts
  <2> QED
    BY <2>1, Zenon
<1>5. Reached(R, ks, cs, t)
  BY <1>2, <1>4, Zenon
<1>6. PICK row \in R[u] : \A j \in 1..t : ks[j].u = u => row[ks[j].c] = Cur(ks, cs, j)
  BY <1>4, <1>5, Zenon DEF Reached
<1>7. RowHere(ks, cs, u, row)
  <2> SUFFICES ASSUME NEW k \in 1..m, ks[k].u = u PROVE row[ks[k].c] = Cur(ks, cs, k)
    BY <1>2, Zenon DEF RowHere
  <2>1. k \in 1..t
    BY <1>4
  <2> QED
    BY <1>6, <2>1, Zenon
<1> QED
  BY <1>6, <1>7, Zenon

LEMMA EarlierKeys ==
    ASSUME NEW q, NEW ct, NEW R, NEW wh, NEW ks, Planned(q, ct, R, wh, ks),
           NEW l \in 1..Len(ks), NEW u \in Range(q.from), Pos(q, u) < Pos(q, ks[l].u)
    PROVE  \A k \in 1..Len(ks) : ks[k].u = u => k < l
<1> SUFFICES ASSUME NEW k \in 1..Len(ks), ks[k].u = u PROVE k < l
  BY Zenon
<1>1. Len(ks) \in Nat /\ Pos(q, ks[l].u) \in Nat /\ Pos(q, ks[k].u) \in Nat
  BY PlanKeys, Zenon
<1>2. l < k => Pos(q, ks[l].u) <= Pos(q, ks[k].u)
  BY Zenon DEF Planned, ListedIn
<1> QED
  BY <1>1, <1>2

LEMMA CombinedHere ==
    ASSUME NEW ks, NEW cs, NEW f, NEW l, Agree(ks, cs, f, l), NEW u,
           \A k \in 1..Len(ks) : ks[k].u = u => k \in 1..(l - 1)
    PROVE  RowHere(ks, cs, u, f[u])
<1> SUFFICES ASSUME NEW k \in 1..Len(ks), ks[k].u = u PROVE f[u][ks[k].c] = Cur(ks, cs, k)
  BY Zenon DEF RowHere
<1>1. At(ks, f, k) = Cur(ks, cs, k)
  BY Zenon DEF Agree
<1> QED
  BY <1>1, Zenon DEF At

\* The value of an operand whose table is outside, or has all its loops outside of l
LEMMA OperandValue ==
    ASSUME NEW q, q = Queries[query], Planned(q, content, Contributed, where, keys),
           NEW l \in Nat, \A j \in 1..Len(keys) : j < l => Reached(Contributed, keys, cursor, j),
           NEW o, Readable(q, content, o),
           IsColumn(o) /\ o.u \in Range(q.from) => \A k \in 1..Len(keys) : keys[k].u = o.u => k < l
    PROVE  /\ Value(o) \in Nat /\ Value(o) # 0
           /\ \A f \in Combinations(Contributed) : Agree(keys, cursor, f, l) => Val(f, o) = Value(o)
<1>1. CASE ~IsColumn(o)
  <2>1. Value(o) = o.v /\ \A f : Val(f, o) = o.v
    BY <1>1, Zenon DEF Value, Val
  <2> QED
    BY <1>1, <2>1, Zenon DEF Readable
<1>2. CASE IsColumn(o)
  <2>1. o.u \in TablesOf(q) /\ \A row \in content[o.u] : o.c \in DOMAIN row
    BY <1>2, Zenon DEF Readable
  <2>2. IsQuery(q) /\ Contained(q, content)
    BY Zenon DEF Planned
  <2>3. \E row \in Contributed[o.u] : o.u \in Range(q.from) => RowHere(keys, cursor, o.u, row)
    <3>1. CASE o.u \in Range(q.from)
      BY <1>2, <3>1, FullRow, Zenon
    <3>2. CASE o.u \notin Range(q.from)
      <4>1. o.u \in q.outer
        BY <2>1, <3>2, Zenon DEF TablesOf
      <4> QED
        BY <3>2, <4>1, Zenon DEF Planned
    <3> QED
      BY <3>1, <3>2, Zenon
  <2>4. PICK row \in Contributed[o.u] : o.u \in Range(q.from) => RowHere(keys, cursor, o.u, row)
    BY <2>3, Zenon
  <2>5. Value(o) = row[o.c]
    BY <1>2, <2>1, <2>4, ValueRow, Zenon
  <2>6. row \in content[o.u]
    BY <2>1, <2>4, Contribution, Zenon
  <2>7. row[o.c] \in Nat /\ row[o.c] # 0
    BY <2>1, <2>2, <2>6, RowFacts, Zenon
  <2>8. ASSUME NEW f \in Combinations(Contributed), Agree(keys, cursor, f, l)
        PROVE  Val(f, o) = Value(o)
    <3>1. f[o.u] \in Contributed[o.u]
      BY <2>1, CombinedRow, Zenon
    <3>2. ASSUME o.u \in Range(q.from) PROVE RowHere(keys, cursor, o.u, f[o.u])
      <4>1. \A k \in 1..Len(keys) : keys[k].u = o.u => k \in 1..(l - 1)
        BY <1>2, <3>2, SMTT(60)
      <4> QED
        BY <2>8, <4>1, CombinedHere, Zenon
    <3>3. Value(o) = f[o.u][o.c]
      BY <1>2, <2>1, <3>1, <3>2, ValueRow, Zenon
    <3> QED
      BY <1>2, <3>3, Zenon DEF Val
  <2> QED
    BY <2>5, <2>7, <2>8, Zenon
<1> QED
  BY <1>1, <1>2, Zenon

\* A key is fixed to a value that is there.
LEMMA FixedValue ==
    ASSUME NEW q, q = Queries[query], Planned(q, content, Contributed, where, keys),
           NEW l \in 1..Len(keys), \A j \in 1..Len(keys) : j < l => Reached(Contributed, keys, cursor, j),
           keys[l].value # None
    PROVE  /\ Value(keys[l].value) \in Nat /\ Value(keys[l].value) # 0
           /\ \A f \in Combinations(Contributed) :
                  Agree(keys, cursor, f, l) => Val(f, keys[l].value) = Value(keys[l].value)
<1>1. IsQuery(q) /\ Contained(q, content) /\ ListedIn(q, content, keys, Len(q.from)) /\ SequencedIn(q, keys)
  BY Zenon DEF Planned
<1>2. l \in Nat
  BY PlanKeys
<1>3. PICK o : o = keys[l].value
  BY Zenon
<1>4. o \in OperandsOf(q)
  <2>1. keys[l] \in KeyType(q)
    BY <1>1, KeyFacts, Zenon
  <2> QED
    BY <1>3, <2>1, Zenon DEF KeyType
<1>5. Readable(q, content, o)
  BY <1>1, <1>4, OperandFacts, Zenon DEF IsOperand
<1>6. ASSUME IsColumn(o), o.u \in Range(q.from)
      PROVE  \A k \in 1..Len(keys) : keys[k].u = o.u => k < l
  <2>1. o.u \notin q.outer
    BY <1>1, <1>6, QueryFacts, Zenon
  <2>2. Pos(q, o.u) < Pos(q, keys[l].u)
    BY <1>1, <1>3, <1>6, <2>1, Zenon DEF SequencedIn
  <2> QED
    BY <1>6, <2>2, EarlierKeys, Zenon
<1>7. /\ Value(o) \in Nat /\ Value(o) # 0
      /\ \A f \in Combinations(Contributed) : Agree(keys, cursor, f, l) => Val(f, o) = Value(o)
  BY <1>2, <1>5, <1>6, OperandValue, Zenon
<1> QED
  BY <1>3, <1>7, Zenon

LEMMA FixedRight ==
    ASSUME NEW q, q = Queries[query], Planned(q, content, Contributed, where, keys),
           NEW l \in 1..Len(keys), \A j \in 1..Len(keys) : j < l => Reached(Contributed, keys, cursor, j),
           keys[l].value # None, NEW f \in Rights(Contributed, where), Agree(keys, cursor, f, l)
    PROVE  At(keys, f, l) = Value(keys[l].value)
<1>1. f \in Combinations(Contributed) /\ \A i \in DOMAIN where : Val(f, where[i][1]) = Val(f, where[i][2])
  BY Zenon DEF Rights
<1>2. Val(f, keys[l].value) = Value(keys[l].value)
  BY <1>1, FixedValue, Zenon
<1>3. PICK n \in DOMAIN where :
          \/ where[n][1] = Column(keys[l].u, keys[l].c) /\ where[n][2] = keys[l].value
          \/ where[n][2] = Column(keys[l].u, keys[l].c) /\ where[n][1] = keys[l].value
  BY Zenon DEF Planned, FoundedIn
<1>4. Val(f, Column(keys[l].u, keys[l].c)) = Val(f, keys[l].value)
  BY <1>1, <1>3, Zenon
<1>5. Val(f, Column(keys[l].u, keys[l].c)) = At(keys, f, l)
  BY Zenon DEF Val, Column, IsColumn, At
<1> QED
  BY <1>2, <1>4, <1>5, Zenon

-----------------------------------------------------------------------------
(* The cursor.                                                             *)

LEMMA Slots ==
    ASSUME NEW q, q = Queries[query], Contained(q, content), NEW u \in TablesOf(q), NEW row \in content[u],
           NEW c \in DOMAIN row
    PROVE  <<u, c>> \in Tables \X Columns
<1>1. u \in Tables /\ content[u] \in Contents[u]
  BY Zenon DEF Contained, Tables, TablesOf, From, Outer, Contents
<1>2. row \in AllRows
  BY <1>1, Zenon DEF AllRows
<1>3. c \in Columns
  BY <1>2, Zenon DEF Columns
<1> QED
  BY <1>1, <1>3, Zenon

LEMMA OuterRow ==
    ASSUME NEW q, q = Queries[query], IsQuery(q), Contained(q, content), OuterHere, NEW u \in q.outer
    PROVE  /\ u \in TablesOf(q) /\ u \notin Range(q.from)
           /\ \E row \in content[u] : Contributed[u] = {row}
           /\ \A c \in Range(q.keys[u]) : <<u, c>> \in Tables \X Columns
<1>1. u \in TablesOf(q) /\ u \notin Range(q.from)
  BY QueryFacts, Zenon DEF TablesOf
<1>2. PICK row \in content[u] : \A c \in Range(q.keys[u]) : row[c] = cursor[<<u, c>>]
  BY Zenon DEF OuterHere, Outer, KeyColumns
<1>3. Contributed[u] = {other \in content[u] : \A c \in Range(q.keys[u]) : other[c] = cursor[<<u, c>>]}
  BY <1>1, Zenon DEF Contributed, RowsOf, Tables, TablesOf, From, Outer, KeyColumns
<1>4. ASSUME NEW other \in content[u], \A c \in Range(q.keys[u]) : other[c] = cursor[<<u, c>>]
      PROVE  other = row
  <2>1. \A c \in Range(q.keys[u]) : row[c] = other[c]
    BY <1>2, <1>4, Zenon
  <2> QED
    BY <1>1, <1>2, <1>4, <2>1, RowFacts, SMTT(60)
<1>5. Contributed[u] = {row}
  BY <1>2, <1>3, <1>4, Zenon
<1>6. \A c \in Range(q.keys[u]) : c \in DOMAIN row
  BY <1>1, <1>2, RowFacts, Zenon
<1>7. \A c \in Range(q.keys[u]) : <<u, c>> \in Tables \X Columns
  BY <1>1, <1>2, <1>6, Slots, Zenon
<1> QED
  BY <1>1, <1>2, <1>5, <1>7, Zenon

LEMMA PlannedNow ==
    ASSUME KeysInv, NEW q, q = Queries[query], SequencedIn(q, keys), OuterHere, phase \notin {"parse", "join"}
    PROVE  Planned(q, content, Contributed, where, keys)
<1>1. /\ IsQuery(q) /\ Contained(q, content) /\ where \in Seq(q.conditions)
      /\ ListedIn(q, content, keys, Len(q.from)) /\ FoundedIn(where, keys)
  BY QueriesAssumption, Zenon DEF KeysInv, Given, Tabled, From
<1>2. DOMAIN Contributed = TablesOf(q)
  BY Zenon DEF Contributed, Tables, TablesOf, From, Outer
<1>3. \A u \in Range(q.from) : Contributed[u] = content[u]
  BY Zenon DEF Contributed, RowsOf, Tables, From
<1>4. \A u \in q.outer : \E row \in content[u] : Contributed[u] = {row}
  BY <1>1, OuterRow, Zenon
<1> QED
  BY <1>1, <1>2, <1>3, <1>4, Zenon DEF Planned

LEMMA SameTables ==
    ASSUME query' = query
    PROVE  /\ From' = From /\ Outer' = Outer /\ KeyColumns' = KeyColumns /\ Tables' = Tables
           /\ (Tables \X Columns)' = Tables \X Columns
<1>1. From' = From /\ Outer' = Outer /\ KeyColumns' = KeyColumns /\ Contents' = Contents
  BY Zenon DEF From, Outer, KeyColumns, Contents
<1>2. Tables' = Tables
  BY <1>1, Zenon DEF Tables
<1>3. AllRows' = AllRows
  BY <1>1, <1>2, Zenon DEF AllRows
<1>4. Columns' = Columns
  BY <1>3, Zenon DEF Columns
<1>5. (Tables \X Columns)' = Tables' \X Columns'
  BY Zenon
<1> QED
  BY <1>1, <1>2, <1>4, <1>5, Zenon

LEMMA SameCursor ==
    ASSUME query' = query, content' = content, cursor' = cursor
    PROVE  /\ (Tables \X Columns)' = Tables \X Columns
           /\ Contributed' = Contributed /\ (OuterHere => OuterHere')
<1>1. From' = From /\ Outer' = Outer /\ KeyColumns' = KeyColumns /\ Tables' = Tables
  BY SameTables, Zenon
<1>2. OuterHere => OuterHere'
  BY <1>1, ZenonT(60) DEF OuterHere
<1>3. ASSUME NEW u PROVE RowsOf(u)' = RowsOf(u)
  BY <1>1, Zenon DEF RowsOf
<1>4. Contributed' = Contributed
  BY <1>1, <1>3, Zenon DEF Contributed
<1> QED
  BY <1>2, <1>4, SameTables, Zenon

LEMMA CursorSet ==
    ASSUME NEW q, q = Queries[query], Planned(q, content, Contributed, where, keys), OuterHere,
           cursor \in [Tables \X Columns -> Nat], NEW l \in 1..Len(keys),
           \A j \in 1..Len(keys) : j < l => Reached(Contributed, keys, cursor, j),
           NEW v \in Nat, cursor' = [cursor EXCEPT ![<<keys[l].u, keys[l].c>>] = v],
           query' = query, content' = content
    PROVE  /\ cursor' \in [(Tables \X Columns)' -> Nat]
           /\ OuterHere' /\ Contributed' = Contributed
           /\ Same(keys, cursor, cursor', l)
           /\ content[keys[l].u] # {} => Cur(keys, cursor', l) = v
<1>1. IsQuery(q) /\ Contained(q, content) /\ ListedIn(q, content, keys, Len(q.from))
  BY Zenon DEF Planned
<1>2. (Tables \X Columns)' = Tables \X Columns
  BY SameTables, Zenon
<1>3. PICK D, c2, a : D = Tables \X Columns /\ c2 = cursor' /\ a = <<keys[l].u, keys[l].c>>
  BY Zenon
<1>4. cursor \in [D -> Nat] /\ c2 = [cursor EXCEPT ![a] = v]
  BY <1>3, Zenon
<1>5. c2 \in [D -> Nat] /\ (\A b \in D : b # a => c2[b] = cursor[b]) /\ (a \in D => c2[a] = v)
  BY <1>4, Zenon
<1>6. cursor' \in [(Tables \X Columns)' -> Nat]
  BY <1>2, <1>3, <1>5, Zenon
<1>7. \A u \in q.outer : \A c \in Range(q.keys[u]) : cursor'[<<u, c>>] = cursor[<<u, c>>]
  <2> SUFFICES ASSUME NEW u \in q.outer, NEW c \in Range(q.keys[u]) PROVE c2[<<u, c>>] = cursor[<<u, c>>]
    BY <1>3, ZenonT(60)
  <2>1. u \notin Range(q.from) /\ <<u, c>> \in D
    BY <1>1, <1>3, OuterRow, Zenon
  <2>2. keys[l].u \in Range(q.from)
    BY PlanKeys, Zenon
  <2>3. <<u, c>> # a
    BY <1>3, <2>1, <2>2, ZenonT(60)
  <2> QED
    BY <1>5, <2>1, <2>3, Zenon
<1>8. OuterHere'
  <2>1. \A u \in q.outer : \E row \in content[u] : \A c \in Range(q.keys[u]) : row[c] = cursor[<<u, c>>]
    BY Zenon DEF OuterHere, Outer, KeyColumns
  <2>2. \A u \in q.outer : \E row \in content[u] : \A c \in Range(q.keys[u]) : row[c] = cursor'[<<u, c>>]
    BY <1>7, <2>1, SMTT(60)
  <2>3. Outer' = q.outer /\ KeyColumns' = q.keys
    BY Zenon DEF Outer, KeyColumns
  <2> QED
    BY <2>2, <2>3, SMTT(60) DEF OuterHere
<1>9. Contributed' = Contributed
  <2>1. Tables' = Tables /\ Tables = TablesOf(q)
    BY Zenon DEF Tables, TablesOf, From, Outer
  <2>2. ASSUME NEW u \in Tables PROVE RowsOf(u)' = RowsOf(u)
    <3>1. CASE u \in Range(q.from)
      BY <3>1, Zenon DEF RowsOf, From
    <3>2. CASE u \notin Range(q.from)
      <4>1. u \in q.outer
        BY <2>1, <3>2, Zenon DEF TablesOf
      <4>2. \A c \in Range(q.keys[u]) : cursor'[<<u, c>>] = cursor[<<u, c>>]
        BY <1>7, <4>1, ZenonT(60)
      <4>3. RowsOf(u) = {row \in content[u] : \A c \in Range(q.keys[u]) : row[c] = cursor[<<u, c>>]}
        BY <3>2, Zenon DEF RowsOf, From, KeyColumns
      <4>4. RowsOf(u)' = {row \in content[u] : \A c \in Range(q.keys[u]) : row[c] = cursor'[<<u, c>>]}
        BY <3>2, Zenon DEF RowsOf, From, KeyColumns
      <4> QED
        BY <4>2, <4>3, <4>4, ZenonT(60)
    <3> QED
      BY <3>1, <3>2, Zenon
  <2>3. Contributed = [u \in Tables |-> RowsOf(u)] /\ Contributed' = [u \in Tables |-> RowsOf(u)']
    BY <2>1, Zenon DEF Contributed
  <2> QED
    BY <2>2, <2>3, Zenon
<1>10. Same(keys, cursor, cursor', l)
  <2> SUFFICES ASSUME NEW k \in 1..(l - 1) PROVE Cur(keys, c2, k) = Cur(keys, cursor, k)
    BY <1>3, Zenon DEF Same
  <2>1. k \in 1..Len(keys) /\ k < l /\ keys[k].u \in TablesOf(q) /\ Contributed[keys[k].u] = content[keys[k].u]
    BY PlanKeys, SMTT(60)
  <2>2. \E row \in content[keys[k].u] : TRUE
    BY <2>1, Zenon DEF Reached
  <2>3. \A row \in content[keys[k].u] : keys[k].c \in DOMAIN row
    BY <2>1, PlanKeys, Zenon
  <2>4. <<keys[k].u, keys[k].c>> \in D
    BY <1>1, <1>3, <2>1, <2>2, <2>3, Slots, ZenonT(60)
  <2>5. ~(keys[k].u = keys[l].u /\ keys[k].c = keys[l].c)
    BY <1>1, <2>1 DEF ListedIn
  <2>6. <<keys[k].u, keys[k].c>> # a
    BY <1>3, <2>5, Zenon
  <2> QED
    BY <1>5, <2>4, <2>6, Zenon DEF Cur
<1>11. ASSUME content[keys[l].u] # {} PROVE Cur(keys, cursor', l) = v
  <2>1. keys[l].u \in TablesOf(q) /\ \A row \in content[keys[l].u] : keys[l].c \in DOMAIN row
    BY PlanKeys, Zenon
  <2>2. a \in D
    BY <1>1, <1>3, <1>11, <2>1, Slots, Zenon
  <2> QED
    BY <1>3, <1>5, <2>2, Zenon DEF Cur
<1> QED
  BY <1>6, <1>8, <1>9, <1>10, <1>11, Zenon

LEMMA ReturnStep ==
    ASSUME NEW q, q = Queries[query], Planned(q, content, Contributed, where, keys), phase = "run",
           level \in 1..(Len(keys) + 1),
           \A j \in 1..(level - 1) : /\ Reached(Contributed, keys, cursor, j)
                                     /\ Forced(Contributed, where, keys, cursor, j),
           Same(keys, cursor, cursor', level),
           Return,
           PutOut(q, {f \in Rights(Contributed, where) :
                          Passed(keys, cursor, level, TRUE, f) \/ Agree(keys, cursor, f, level)}, output')
    PROVE  /\ phase' \in {"run", "done"}
           /\ phase' = "run" => Looping(q, Contributed, where, keys, cursor', level', down', output')
           /\ phase' = "done" => PutOut(q, Rights(Contributed, where), output')
<1> DEFINE around == {i \in 1..(level - 1) : keys[i].value = None}
           F == Rights(Contributed, where)
           P(f) == Passed(keys, cursor, level, TRUE, f) \/ Agree(keys, cursor, f, level)
<1>1. Len(keys) \in Nat /\ level \in Nat /\ \A j \in 1..(level - 1) : j \in Nat /\ j \in 1..Len(keys)
  BY PlanKeys, SMTT(60)
<1>2. CASE around = {}
  <2>1. phase' = "done"
    BY <1>2, Zenon DEF Return
  <2>2. \A f \in F : Agree(keys, cursor, f, level)
    <3> SUFFICES ASSUME NEW f \in F PROVE Agree(keys, cursor, f, level)
      BY Zenon
    <3>1. Agree(keys, cursor, f, 0 + 1)
      BY DEF Agree
    <3>2. 0 \in Nat /\ 0 < level
      BY <1>1
    <3>3. \A j \in 1..(level - 1) : keys[j].value # None /\ Forced(Contributed, where, keys, cursor, j)
      BY <1>2, Zenon
    <3> QED
      BY <1>1, <3>1, <3>2, <3>3, ForcedDown, ZenonT(60)
  <2>3. {f \in F : P(f)} = F
    BY <2>2, Zenon
  <2>4. PutOut(q, F, output')
    BY <2>3, Zenon
  <2> QED
    BY <2>1, <2>4, Zenon
<1>3. CASE around # {}
  <2>1. PICK i : i = CHOOSE k \in around : \A j \in around : j <= k
    BY Zenon
  <2>2. level' = i /\ down' = FALSE /\ phase' = "run"
    BY <1>3, <2>1, Zenon DEF Return
  <2>3. i \in around /\ \A j \in around : j <= i
    <3>1. around \in SUBSET (1..Len(keys))
      BY <1>1, Zenon
    <3>2. \E k \in around : \A j \in around : j <= k
      <4> HIDE DEF around
      <4> QED
        BY <1>1, <1>3, <3>1, GreatestNat, Zenon
    <3> QED
      BY <2>1, <3>2, Zenon
  <2>4. i \in 1..(level - 1) /\ keys[i].value = None /\ \A j \in 1..(level - 1) : i < j => keys[j].value # None
    BY <1>1, <2>3
  <2>5. PICK c2 : c2 = cursor'
    BY Zenon
  <2>6. Same(keys, cursor, c2, level)
    BY <2>5, Zenon
  <2>7. \A j \in 1..(level - 1) : Reached(Contributed, keys, c2, j) /\ Forced(Contributed, where, keys, c2, j)
    BY <1>1, <2>6, Frame, Zenon
  <2>8. ASSUME NEW f \in F PROVE Passed(keys, c2, i, FALSE, f) <=> P(f)
    <3>1. Passed(keys, c2, i, FALSE, f) <=> Passed(keys, c2, level, TRUE, f) \/ Agree(keys, c2, f, level)
      BY <2>4, <2>7, Back, Zenon
    <3>2. level \in 1..level
      BY <1>1
    <3>3. Passed(keys, c2, level, TRUE, f) <=> Passed(keys, cursor, level, TRUE, f)
      BY <1>1, <2>6, Frame, Zenon
    <3>4. Agree(keys, c2, f, level) <=> Agree(keys, cursor, f, level)
      BY <1>1, <2>6, <3>2, Frame, Zenon
    <3> QED
      BY <3>1, <3>3, <3>4, Zenon
  <2>9. {f \in F : Passed(keys, c2, i, FALSE, f)} = {f \in F : P(f)}
    BY <2>8, Zenon
  <2>10. PutOut(q, {f \in F : Passed(keys, c2, i, FALSE, f)}, output')
    BY <2>9, Zenon
  <2>11. i \in 1..(Len(keys) + 1) /\ i <= Len(keys)
    BY <1>1, <2>4, SMTT(60)
  <2>12. \A j \in 1..Len(keys) : j < i \/ (j = i /\ ~FALSE) => j \in 1..(level - 1)
    BY <1>1, <2>4
  <2>13. Looping(q, Contributed, where, keys, c2, i, FALSE, output')
    BY <2>4, <2>7, <2>10, <2>11, <2>12, ZenonT(60) DEF Looping
  <2> QED
    BY <2>2, <2>5, <2>13, Zenon
<1> QED
  BY <1>2, <1>3, Zenon

-----------------------------------------------------------------------------
(* The steps of the routine.                                               *)

LEMMA AgreeUnder ==
    ASSUME NEW q, Planned(q, content, Contributed, where, keys), NEW l \in 1..Len(keys),
           NEW f \in Rights(Contributed, where), Agree(keys, cursor, f, l)
    PROVE  f[keys[l].u] \in Under(l) /\ f[keys[l].u][keys[l].c] = At(keys, f, l)
<1>1. f \in Combinations(Contributed)
  BY Zenon DEF Rights
<1>2. keys[l].u \in TablesOf(q)
  BY PlanKeys, Zenon
<1>3. f[keys[l].u] \in content[keys[l].u]
  BY <1>1, <1>2, CombinedRow, Zenon
<1>4. \A j \in 1..(l - 1) : keys[j].u = keys[l].u => f[keys[l].u][keys[j].c] = cursor[<<keys[j].u, keys[j].c>>]
  <2> SUFFICES ASSUME NEW j \in 1..(l - 1), keys[j].u = keys[l].u
               PROVE  f[keys[l].u][keys[j].c] = cursor[<<keys[j].u, keys[j].c>>]
    BY Zenon
  <2>1. At(keys, f, j) = Cur(keys, cursor, j)
    BY Zenon DEF Agree
  <2> QED
    BY <2>1, Zenon DEF At, Cur
<1> QED
  BY <1>3, <1>4, Zenon DEF Under, Slot, At

LEMMA UnderReached ==
    ASSUME NEW q, Planned(q, content, Contributed, where, keys), NEW l \in 1..Len(keys),
           NEW c2, Same(keys, cursor, c2, l), NEW row \in Under(l), row[keys[l].c] = Cur(keys, c2, l)
    PROVE  Reached(Contributed, keys, c2, l)
<1>1. Contributed[keys[l].u] = content[keys[l].u] /\ l \in Nat
  BY PlanKeys, SMTT(60)
<1>2. row \in content[keys[l].u]
  BY Zenon DEF Under
<1>3. \A j \in 1..(l - 1) : keys[j].u = keys[l].u => row[keys[j].c] = Cur(keys, cursor, j)
  BY Zenon DEF Under, Slot, Cur
<1>4. \A j \in 1..(l - 1) : Cur(keys, c2, j) = Cur(keys, cursor, j)
  BY Zenon DEF Same
<1>5. \A j \in 1..l : j \in 1..(l - 1) \/ j = l
  BY <1>1, SMTT(60)
<1>6. \A j \in 1..l : keys[j].u = keys[l].u => row[keys[j].c] = Cur(keys, c2, j)
  BY <1>3, <1>4, <1>5, Zenon
<1> QED
  BY <1>1, <1>2, <1>6, ZenonT(60) DEF Reached

LEMMA Positions ==
    ASSUME NEW n \in Nat, NEW l \in 1..n
    PROVE  /\ l \in Nat /\ l \in 1..l /\ (l + 1) - 1 = l /\ l + 1 \in 1..(n + 1)
           /\ \A j \in 1..l : j \in 1..(l - 1) \/ j = l
           /\ \A j \in 1..(l - 1) : j \in 1..l
           /\ \A j \in 1..n : j < l + 1 \/ (j = l + 1 /\ ~TRUE) => j \in 1..l
  OBVIOUS

LEMMA EnterStep ==
    ASSUME NEW q, Planned(q, content, Contributed, where, keys), NEW l \in 1..Len(keys), NEW d \in BOOLEAN,
           \A j \in 1..(l - 1) : /\ Reached(Contributed, keys, cursor, j)
                                 /\ Forced(Contributed, where, keys, cursor, j),
           NEW c2, Same(keys, cursor, c2, l), NEW row \in Under(l), row[keys[l].c] = Cur(keys, c2, l),
           keys[l].value # None =>
               \A f \in Rights(Contributed, where) : Agree(keys, cursor, f, l) => At(keys, f, l) = Cur(keys, c2, l),
           \A f \in Rights(Contributed, where) : Agree(keys, cursor, f, l) =>
               (At(keys, f, l) < Cur(keys, c2, l) <=> (~d /\ At(keys, f, l) <= Cur(keys, cursor, l))),
           NEW out, PutOut(q, {f \in Rights(Contributed, where) : Passed(keys, cursor, l, d, f)}, out)
    PROVE  Looping(q, Contributed, where, keys, c2, l + 1, TRUE, out)
<1> DEFINE F == Rights(Contributed, where)
<1>0. Len(keys) \in Nat
  BY PlanKeys, Zenon
<1>1. l \in Nat /\ \A j \in 1..l : j \in 1..(l - 1) \/ j = l
  BY <1>0, Positions, Zenon
<1>2. /\ \A f : \A j \in 1..l : Agree(keys, c2, f, j) <=> Agree(keys, cursor, f, j)
      /\ \A f : Passed(keys, c2, l, TRUE, f) <=> Passed(keys, cursor, l, TRUE, f)
  BY <1>1, Frame, ZenonT(60)
<1>3. \A j \in 1..(l - 1) : Reached(Contributed, keys, c2, j) /\ Forced(Contributed, where, keys, c2, j)
  BY <1>1, Frame, Zenon
<1>4. l \in 1..l
  BY <1>0, Positions, Zenon
<1>5. Reached(Contributed, keys, c2, l)
  BY UnderReached, Zenon
<1>6. Forced(Contributed, where, keys, c2, l)
  BY <1>2, <1>4, Zenon DEF Forced
<1>7. \A j \in 1..Len(keys) : j < l + 1 \/ (j = l + 1 /\ ~TRUE) => j \in 1..l
  BY <1>0, Positions, Zenon
<1>8. \A j \in 1..Len(keys) : j < l + 1 \/ (j = l + 1 /\ ~TRUE) =>
          Reached(Contributed, keys, c2, j) /\ Forced(Contributed, where, keys, c2, j)
  BY <1>1, <1>3, <1>5, <1>6, <1>7, ZenonT(60)
<1>9. ASSUME NEW f \in F
      PROVE  Passed(keys, c2, l + 1, TRUE, f) <=> Passed(keys, cursor, l, d, f)
  <2> DEFINE A == \E j \in 1..(l - 1) : Agree(keys, cursor, f, j) /\ At(keys, f, j) < Cur(keys, cursor, j)
             A2 == \E j \in 1..(l - 1) : Agree(keys, c2, f, j) /\ At(keys, f, j) < Cur(keys, c2, j)
             B == Agree(keys, cursor, f, l) /\ At(keys, f, l) < Cur(keys, c2, l)
  <2>1. Passed(keys, cursor, l, d, f) <=> A \/ (~d /\ Agree(keys, cursor, f, l) /\ At(keys, f, l) <= Cur(keys, cursor, l))
    BY Zenon DEF Passed
  <2>2. Passed(keys, c2, l + 1, TRUE, f) <=> A2 \/ (Agree(keys, c2, f, l) /\ At(keys, f, l) < Cur(keys, c2, l))
    <3>1. Passed(keys, c2, l + 1, TRUE, f) <=> \E j \in 1..((l + 1) - 1) : Agree(keys, c2, f, j) /\ At(keys, f, j) < Cur(keys, c2, j)
      BY Zenon DEF Passed
    <3>2. (l + 1) - 1 = l /\ \A j \in 1..(l - 1) : j \in 1..l
      BY <1>0, Positions, Zenon
    <3> QED
      BY <1>1, <1>4, <3>1, <3>2, ZenonT(60)
  <2>3. A2 <=> A
    <3>1. (A2 <=> Passed(keys, c2, l, TRUE, f)) /\ (A <=> Passed(keys, cursor, l, TRUE, f))
      BY Zenon DEF Passed
    <3> QED
      BY <1>2, <3>1, Zenon
  <2>4. Agree(keys, c2, f, l) <=> Agree(keys, cursor, f, l)
    BY <1>2, <1>4, ZenonT(60)
  <2> HIDE DEF A, A2
  <2> QED
    BY <2>1, <2>2, <2>3, <2>4, Zenon
<1>10. {f \in F : Passed(keys, c2, l + 1, TRUE, f)} = {f \in F : Passed(keys, cursor, l, d, f)}
  BY <1>9, ZenonT(60)
<1>11. PutOut(q, {f \in F : Passed(keys, c2, l + 1, TRUE, f)}, out)
  BY <1>10, ZenonT(60)
<1>12. l + 1 \in 1..(Len(keys) + 1)
  BY <1>0, Positions, Zenon
<1> QED
  BY <1>8, <1>11, <1>12, Zenon DEF Looping

\* What a step of the routine has to show
Ran(q) ==
    /\ cursor' \in [(Tables \X Columns)' -> Nat] /\ OuterHere' /\ Contributed' = Contributed
    /\ phase' \in {"run", "done"}
    /\ phase' = "run" => Looping(q, Contributed, where, keys, cursor', level', down', output')
    /\ phase' = "done" => PutOut(q, Rights(Contributed, where), output')

\* What it starts from
Runs(q) ==
    /\ q = Queries[query] /\ Planned(q, content, Contributed, where, keys) /\ OuterHere
    /\ cursor \in [Tables \X Columns -> Nat]
    /\ phase = "run"
    /\ Looping(q, Contributed, where, keys, cursor, level, down, output)
    /\ query' = query

LEMMA RunsFacts ==
    ASSUME NEW q, Runs(q)
    PROVE  /\ q = Queries[query] /\ Planned(q, content, Contributed, where, keys) /\ OuterHere
           /\ cursor \in [Tables \X Columns -> Nat]
           /\ phase = "run" /\ query' = query
           /\ level \in 1..(Len(keys) + 1) /\ level \in Nat /\ down \in BOOLEAN /\ Len(keys) \in Nat
           /\ ~down => level <= Len(keys) /\ keys[level].value = None /\ Reached(Contributed, keys, cursor, level)
           /\ \A j \in 1..(level - 1) : /\ Reached(Contributed, keys, cursor, j)
                                        /\ Forced(Contributed, where, keys, cursor, j)
           /\ \A j \in 1..Len(keys) : j < level => Reached(Contributed, keys, cursor, j)
           /\ PutOut(q, {f \in Rights(Contributed, where) : Passed(keys, cursor, level, down, f)}, output)
<1>1. /\ q = Queries[query] /\ Planned(q, content, Contributed, where, keys) /\ OuterHere
      /\ cursor \in [Tables \X Columns -> Nat] /\ phase = "run" /\ query' = query
      /\ Looping(q, Contributed, where, keys, cursor, level, down, output)
  BY Zenon DEF Runs
<1>2. Len(keys) \in Nat
  BY <1>1, PlanKeys, Zenon
<1>3. /\ level \in 1..(Len(keys) + 1) /\ down \in BOOLEAN
      /\ ~down => level <= Len(keys) /\ keys[level].value = None
      /\ PutOut(q, {f \in Rights(Contributed, where) : Passed(keys, cursor, level, down, f)}, output)
  BY <1>1, Zenon DEF Looping
<1>4. \A j \in 1..Len(keys) : j < level \/ (j = level /\ ~down) =>
          Reached(Contributed, keys, cursor, j) /\ Forced(Contributed, where, keys, cursor, j)
  BY <1>1, Zenon DEF Looping
<1>5. level \in Nat /\ \A j \in 1..(level - 1) : j \in 1..Len(keys) /\ j < level
  BY <1>2, <1>3, SMTT(60)
<1>6. ~down => level \in 1..Len(keys)
  BY <1>2, <1>3, SMTT(60)
<1> QED
  BY <1>1, <1>2, <1>3, <1>4, <1>5, <1>6, ZenonT(60)

LEMMA SetFixedKeyRuns ==
    ASSUME NEW q, Runs(q), SetFixedKey
    PROVE  Ran(q)
<1> DEFINE F == Rights(Contributed, where)
<1>1. /\ q = Queries[query] /\ Planned(q, content, Contributed, where, keys) /\ OuterHere
      /\ cursor \in [Tables \X Columns -> Nat] /\ phase = "run" /\ query' = query
      /\ level \in 1..(Len(keys) + 1) /\ level \in Nat /\ down \in BOOLEAN /\ Len(keys) \in Nat
      /\ ~down => keys[level].value = None
      /\ \A j \in 1..(level - 1) : /\ Reached(Contributed, keys, cursor, j)
                                   /\ Forced(Contributed, where, keys, cursor, j)
      /\ \A j \in 1..Len(keys) : j < level => Reached(Contributed, keys, cursor, j)
      /\ PutOut(q, {f \in F : Passed(keys, cursor, level, down, f)}, output)
  BY RunsFacts, Zenon
<1>2. /\ level <= Len(keys) /\ keys[level].value # None /\ content' = content /\ output' = output
  BY Zenon DEF SetFixedKey, Current
<1>3. level \in 1..Len(keys) /\ down = TRUE
  BY <1>1, <1>2, SMTT(60)
<1>4. PICK v : v = Value(keys[level].value)
  BY Zenon
<1>5. v \in Nat /\ v # 0
  BY <1>1, <1>2, <1>3, <1>4, FixedValue, ZenonT(60)
<1>6. /\ cursor' = [cursor EXCEPT ![<<keys[level].u, keys[level].c>>] = v]
      /\ IF HasData(v) THEN Enter ELSE Return
  <2>1. v # Unset
    BY <1>5, Zenon DEF Unset
  <2> QED
    BY <1>4, <2>1, Zenon DEF SetFixedKey, Current, Slot
<1>7. /\ cursor' \in [(Tables \X Columns)' -> Nat] /\ OuterHere' /\ Contributed' = Contributed
      /\ Same(keys, cursor, cursor', level)
      /\ content[keys[level].u] # {} => Cur(keys, cursor', level) = v
  BY <1>1, <1>2, <1>3, <1>5, <1>6, CursorSet, ZenonT(60)
<1>8. \A f \in F : Agree(keys, cursor, f, level) => At(keys, f, level) = v
  BY <1>1, <1>2, <1>3, <1>4, FixedRight, ZenonT(60)
<1>9. CASE HasData(v)
  <2>1. phase' = phase /\ level' = level + 1 /\ down' = TRUE
    BY <1>6, <1>9, Zenon DEF Enter
  <2>2. PICK row \in Under(level) : row[keys[level].c] = v
    BY <1>9, Zenon DEF HasData, Current
  <2>3. row \in content[keys[level].u]
    BY <2>2, Zenon DEF Under
  <2>4. PICK c2 : c2 = cursor'
    BY Zenon
  <2>5. Cur(keys, c2, level) = v /\ Same(keys, cursor, c2, level)
    BY <1>7, <2>3, <2>4, ZenonT(60)
  <2>6. \A f \in F : Agree(keys, cursor, f, level) =>
            (At(keys, f, level) < Cur(keys, c2, level) <=> (~down /\ At(keys, f, level) <= Cur(keys, cursor, level)))
    BY <1>3, <1>5, <1>8, <2>5, SMTT(60)
  <2>7. keys[level].value # None =>
            \A f \in F : Agree(keys, cursor, f, level) => At(keys, f, level) = Cur(keys, c2, level)
    BY <1>8, <2>5, ZenonT(60)
  <2>8. Looping(q, Contributed, where, keys, c2, level + 1, TRUE, output)
    BY <1>1, <1>3, <2>2, <2>5, <2>6, <2>7, EnterStep, ZenonT(60)
  <2> QED
    BY <1>1, <1>2, <1>7, <2>1, <2>4, <2>8, ZenonT(60) DEF Ran
<1>10. CASE ~HasData(v)
  <2>1. Return
    BY <1>6, <1>10, Zenon
  <2>2. \A f \in F : ~Agree(keys, cursor, f, level)
    <3> SUFFICES ASSUME NEW f \in F, Agree(keys, cursor, f, level) PROVE FALSE
      BY Zenon
    <3>1. f[keys[level].u] \in Under(level) /\ f[keys[level].u][keys[level].c] = At(keys, f, level)
      BY <1>1, <1>3, AgreeUnder, Zenon
    <3> QED
      BY <1>8, <1>10, <3>1, Zenon DEF HasData, Current
  <2>3. {f \in F : Passed(keys, cursor, level, TRUE, f) \/ Agree(keys, cursor, f, level)}
        = {f \in F : Passed(keys, cursor, level, down, f)}
    BY <1>3, <2>2, Zenon
  <2>4. PutOut(q, {f \in F : Passed(keys, cursor, level, TRUE, f) \/ Agree(keys, cursor, f, level)}, output')
    BY <1>1, <1>2, <2>3, ZenonT(60)
  <2>5. /\ phase' \in {"run", "done"}
        /\ phase' = "run" => Looping(q, Contributed, where, keys, cursor', level', down', output')
        /\ phase' = "done" => PutOut(q, Rights(Contributed, where), output')
    BY <1>1, <1>7, <2>1, <2>4, ReturnStep, ZenonT(60)
  <2> QED
    BY <1>7, <2>5, Zenon DEF Ran
<1> QED
  BY <1>9, <1>10, Zenon

LEMMA AdvanceRuns ==
    ASSUME NEW q, Runs(q), Advance
    PROVE  Ran(q)
<1> DEFINE F == Rights(Contributed, where)
           values == {row[keys[level].c] : row \in Under(level)}
           after == {v \in values : down \/ v > Cur(keys, cursor, level)}
<1>1. /\ q = Queries[query] /\ Planned(q, content, Contributed, where, keys) /\ OuterHere
      /\ cursor \in [Tables \X Columns -> Nat] /\ phase = "run" /\ query' = query
      /\ level \in 1..(Len(keys) + 1) /\ level \in Nat /\ down \in BOOLEAN /\ Len(keys) \in Nat
      /\ ~down => Reached(Contributed, keys, cursor, level)
      /\ \A j \in 1..(level - 1) : /\ Reached(Contributed, keys, cursor, j)
                                   /\ Forced(Contributed, where, keys, cursor, j)
      /\ \A j \in 1..Len(keys) : j < level => Reached(Contributed, keys, cursor, j)
      /\ PutOut(q, {f \in F : Passed(keys, cursor, level, down, f)}, output)
  BY RunsFacts, Zenon
<1>2. level <= Len(keys) /\ keys[level].value = None /\ content' = content /\ output' = output
  BY Zenon DEF Advance, Current
<1>3. level \in 1..Len(keys)
  BY <1>1, <1>2, SMTT(60)
<1>4. IF after = {} THEN Return /\ cursor' = [cursor EXCEPT ![<<keys[level].u, keys[level].c>>] = 0]
      ELSE /\ cursor' = [cursor EXCEPT ![<<keys[level].u, keys[level].c>>] = CHOOSE v \in after : \A w \in after : v <= w]
           /\ Enter
  BY Zenon DEF Advance, Current, Slot, Cur, Unset
<1>5. \A row \in Under(level) : row \in content[keys[level].u] /\ row[keys[level].c] \in Nat
  <2>1. \A row \in Under(level) : row \in content[keys[level].u]
    BY Zenon DEF Under
  <2> QED
    BY <1>1, <1>3, <2>1, PlanKeys, ZenonT(60)
<1>6. values \subseteq Nat
  BY <1>5, Zenon
<1>7. \A f \in F : Agree(keys, cursor, f, level) => At(keys, f, level) \in values
  <2> SUFFICES ASSUME NEW f \in F, Agree(keys, cursor, f, level) PROVE At(keys, f, level) \in values
    BY Zenon
  <2>1. f[keys[level].u] \in Under(level) /\ f[keys[level].u][keys[level].c] = At(keys, f, level)
    BY <1>1, <1>3, AgreeUnder, ZenonT(60)
  <2> QED
    BY <2>1, Zenon
<1>8. ~down => Cur(keys, cursor, level) \in Nat
  BY <1>1, <1>3, LoopValue, Zenon
<1>9. CASE after = {}
  <2>1. Return /\ cursor' = [cursor EXCEPT ![<<keys[level].u, keys[level].c>>] = 0]
    BY <1>4, <1>9, Zenon
  <2>2. /\ cursor' \in [(Tables \X Columns)' -> Nat] /\ OuterHere' /\ Contributed' = Contributed
        /\ Same(keys, cursor, cursor', level)
    <3>1. 0 \in Nat
      BY Zenon
    <3> HIDE DEF values, after
    <3> QED
      BY <1>1, <1>2, <1>3, <2>1, <3>1, CursorSet, ZenonT(60)
  <2>3. ASSUME NEW f \in F
        PROVE  Passed(keys, cursor, level, TRUE, f) \/ Agree(keys, cursor, f, level) <=> Passed(keys, cursor, level, down, f)
    <3>1. Passed(keys, cursor, level, down, f) <=>
              \/ Passed(keys, cursor, level, TRUE, f)
              \/ ~down /\ Agree(keys, cursor, f, level) /\ At(keys, f, level) <= Cur(keys, cursor, level)
      BY Zenon DEF Passed
    <3>2. Agree(keys, cursor, f, level) => ~down /\ At(keys, f, level) <= Cur(keys, cursor, level)
      <4>1. \A v \in values : ~down /\ ~(v > Cur(keys, cursor, level)) /\ v \in Nat
        BY <1>6, <1>9, Zenon
      <4> HIDE DEF values
      <4> QED
        BY <1>7, <1>8, <4>1, SMTT(60)
    <3> QED
      BY <3>1, <3>2, Zenon
  <2>4. {f \in F : Passed(keys, cursor, level, TRUE, f) \/ Agree(keys, cursor, f, level)}
        = {f \in F : Passed(keys, cursor, level, down, f)}
    BY <2>3, Zenon
  <2>5. PutOut(q, {f \in F : Passed(keys, cursor, level, TRUE, f) \/ Agree(keys, cursor, f, level)}, output')
    BY <1>1, <1>2, <2>4, ZenonT(60)
  <2>6. /\ phase' \in {"run", "done"}
        /\ phase' = "run" => Looping(q, Contributed, where, keys, cursor', level', down', output')
        /\ phase' = "done" => PutOut(q, Rights(Contributed, where), output')
    <3> HIDE DEF values, after
    <3> QED
      BY <1>1, <2>1, <2>2, <2>5, ReturnStep, ZenonT(60)
  <2> QED
    BY <2>2, <2>6, Zenon DEF Ran
<1>10. CASE after # {}
  <2>1. PICK v : v = CHOOSE x \in after : \A w \in after : x <= w
    BY Zenon
  <2>2. v \in after /\ \A w \in after : v <= w
    <3>1. after \subseteq Nat
      BY <1>6, Zenon
    <3>2. \E x \in after : \A w \in after : x <= w
      <4> HIDE DEF after
      <4> QED
        BY <1>10, <3>1, LeastNat, Zenon
    <3> HIDE DEF after
    <3> QED
      BY <2>1, <3>2, Zenon
  <2>3. /\ cursor' = [cursor EXCEPT ![<<keys[level].u, keys[level].c>>] = v]
        /\ phase' = phase /\ level' = level + 1 /\ down' = TRUE
    BY <1>4, <1>10, <2>1, Zenon DEF Enter
  <2>4. v \in values /\ v \in Nat /\ (down \/ v > Cur(keys, cursor, level))
    BY <1>6, <2>2, Zenon
  <2>5. PICK row \in Under(level) : row[keys[level].c] = v
    BY <2>4, Zenon
  <2>6. content[keys[level].u] # {}
    BY <1>5, <2>5, Zenon
  <2>7. /\ cursor' \in [(Tables \X Columns)' -> Nat] /\ OuterHere' /\ Contributed' = Contributed
        /\ Same(keys, cursor, cursor', level)
        /\ Cur(keys, cursor', level) = v
    <3> HIDE DEF values, after
    <3> QED
      BY <1>1, <1>2, <1>3, <2>3, <2>4, <2>6, CursorSet, ZenonT(60)
  <2>8. PICK c2 : c2 = cursor'
    BY Zenon
  <2>9. Cur(keys, c2, level) = v /\ Same(keys, cursor, c2, level)
    BY <2>7, <2>8, ZenonT(60)
  <2>10. \A f \in F : Agree(keys, cursor, f, level) =>
             (At(keys, f, level) < Cur(keys, c2, level) <=> (~down /\ At(keys, f, level) <= Cur(keys, cursor, level)))
    <3> SUFFICES ASSUME NEW f \in F, Agree(keys, cursor, f, level)
                 PROVE  At(keys, f, level) < v <=> (~down /\ At(keys, f, level) <= Cur(keys, cursor, level))
      BY <2>9, Zenon
    <3>1. PICK a : a = At(keys, f, level)
      BY Zenon
    <3>2. a \in values /\ a \in Nat
      BY <1>6, <1>7, <3>1, ZenonT(60)
    <3>3. a < v => ~down /\ ~(a > Cur(keys, cursor, level))
      <4>1. a \in after => v <= a
        BY <2>2, Zenon
      <4>2. down \/ a > Cur(keys, cursor, level) => a \in after
        BY <3>2, Zenon
      <4> HIDE DEF after, values
      <4> QED
        BY <2>4, <3>2, <4>1, <4>2, SMTT(60)
    <3> HIDE DEF after, values
    <3> QED
      BY <1>1, <1>8, <2>4, <3>1, <3>2, <3>3, SMTT(60)
  <2>11. keys[level].value # None =>
             \A f \in F : Agree(keys, cursor, f, level) => At(keys, f, level) = Cur(keys, c2, level)
    BY <1>2, Zenon
  <2>12. Looping(q, Contributed, where, keys, c2, level + 1, TRUE, output)
    <3> HIDE DEF values, after
    <3> QED
      BY <1>1, <1>3, <2>5, <2>9, <2>10, <2>11, EnterStep, ZenonT(60)
  <2> QED
    BY <1>1, <1>2, <2>3, <2>7, <2>8, <2>12, ZenonT(60) DEF Ran
<1> QED
  BY <1>9, <1>10, Zenon

-----------------------------------------------------------------------------
(* The row that is put out.                                                *)

\* The key columns of a table tell its rows apart, and all of them are keys.
LEMMA OneRow ==
    ASSUME NEW q, NEW ct, NEW R, NEW wh, NEW ks, Planned(q, ct, R, wh, ks), NEW cs, NEW u \in Range(q.from),
           NEW a \in ct[u], NEW b \in ct[u], RowHere(ks, cs, u, a), RowHere(ks, cs, u, b)
    PROVE  a = b
<1>1. IsQuery(q) /\ Contained(q, ct) /\ ListedIn(q, ct, ks, Len(q.from)) /\ u \in TablesOf(q)
  BY Zenon DEF Planned, TablesOf
<1>2. ASSUME NEW c \in Range(q.keys[u]) PROVE a[c] = b[c]
  <2>1. Pos(q, u) <= Len(q.from)
    BY <1>1, PosFacts
  <2>2. PICK k \in 1..Len(ks) : ks[k].u = u /\ ks[k].c = c
    BY <1>1, <2>1, ZenonT(60) DEF ListedIn
  <2>3. a[ks[k].c] = Cur(ks, cs, k) /\ b[ks[k].c] = Cur(ks, cs, k)
    BY <2>2, Zenon DEF RowHere
  <2> QED
    BY <2>2, <2>3, Zenon
<1> QED
  BY <1>1, <1>2, RowFacts, ZenonT(60)

\* Combinations that agree on the tables of the FROM clause are the same.
LEMMA SameCombination ==
    ASSUME NEW q, NEW ct, NEW R, NEW wh, NEW ks, Planned(q, ct, R, wh, ks),
           NEW f \in Combinations(R), NEW g \in Combinations(R), \A u \in Range(q.from) : f[u] = g[u]
    PROVE  f = g
<1>1. DOMAIN R = TablesOf(q)
  BY Zenon DEF Planned
<1>2. \A u \in TablesOf(q) : f[u] \in R[u] /\ g[u] \in R[u]
  BY CombinedRow, Zenon
<1>3. ASSUME NEW u \in TablesOf(q) PROVE f[u] = g[u]
  <2>1. CASE u \in Range(q.from)
    BY <2>1, Zenon
  <2>2. CASE u \notin Range(q.from)
    <3>1. u \in q.outer
      BY <2>2, Zenon DEF TablesOf
    <3>2. PICK row \in ct[u] : R[u] = {row}
      BY <3>1, Zenon DEF Planned
    <3> QED
      BY <1>2, <3>2, Zenon
  <2> QED
    BY <2>1, <2>2, Zenon
<1>4. f \in [TablesOf(q) -> UNION {R[u] : u \in DOMAIN R}] /\ g \in [TablesOf(q) -> UNION {R[u] : u \in DOMAIN R}]
  BY <1>1, Zenon DEF Combinations
<1> QED
  BY <1>3, <1>4, SMTT(60)

\* The loops are at one combination when all of them run.
LEMMA HereCombination ==
    ASSUME NEW q, NEW ct, NEW R, NEW wh, NEW ks, Planned(q, ct, R, wh, ks), NEW cs,
           \A j \in 1..Len(ks) : Reached(R, ks, cs, j)
    PROVE  \E f \in Combinations(R) :
               /\ Agree(ks, cs, f, Len(ks) + 1)
               /\ \A g \in Combinations(R) : Agree(ks, cs, g, Len(ks) + 1) => g = f
<1> DEFINE Here(u, row) == u \in Range(q.from) => RowHere(ks, cs, u, row)
           f == [u \in TablesOf(q) |-> CHOOSE row \in R[u] : Here(u, row)]
<1>1. /\ IsQuery(q) /\ Contained(q, ct) /\ DOMAIN R = TablesOf(q)
      /\ Len(ks) \in Nat /\ Len(ks) + 1 \in Nat /\ (Len(ks) + 1) - 1 = Len(ks)
      /\ \A k \in 1..Len(ks) : k < Len(ks) + 1 /\ ks[k].u \in Range(q.from)
  <2>1. IsQuery(q) /\ Contained(q, ct) /\ DOMAIN R = TablesOf(q)
    BY Zenon DEF Planned
  <2>2. Len(ks) \in Nat /\ \A k \in 1..Len(ks) : ks[k].u \in Range(q.from)
    BY PlanKeys, Zenon
  <2> QED
    BY <2>1, <2>2, SMTT(60)
<1>2. \A u \in TablesOf(q) : \E row \in R[u] : Here(u, row)
  <2> SUFFICES ASSUME NEW u \in TablesOf(q) PROVE \E row \in R[u] : Here(u, row)
    BY Zenon
  <2>1. CASE u \in Range(q.from)
    <3>1. \E row \in R[u] : RowHere(ks, cs, u, row)
      BY <1>1, <2>1, FullRow, ZenonT(60)
    <3> QED
      BY <3>1, Zenon
  <2>2. CASE u \notin Range(q.from)
    <3>1. u \in q.outer
      BY <2>2, Zenon DEF TablesOf
    <3> QED
      BY <2>2, <3>1, Zenon DEF Planned
  <2> QED
    BY <2>1, <2>2, Zenon
<1>3. \A u \in TablesOf(q) : f[u] \in R[u] /\ Here(u, f[u])
  <2> HIDE DEF Here
  <2> QED
    BY <1>2, Zenon
<1>4. f \in Combinations(R)
  <2>1. f \in [TablesOf(q) -> UNION {R[u] : u \in TablesOf(q)}]
    BY <1>3, Zenon
  <2> HIDE DEF f
  <2> QED
    BY <1>1, <1>3, <2>1, Zenon DEF Combinations
<1>5. Agree(ks, cs, f, Len(ks) + 1)
  <2> SUFFICES ASSUME NEW k \in 1..Len(ks) PROVE At(ks, f, k) = Cur(ks, cs, k)
    BY <1>1, Zenon DEF Agree
  <2>1. ks[k].u \in Range(q.from) /\ ks[k].u \in TablesOf(q)
    BY <1>1, Zenon DEF TablesOf
  <2>2. RowHere(ks, cs, ks[k].u, f[ks[k].u])
    BY <1>3, <2>1, Zenon
  <2> HIDE DEF f, Here
  <2> QED
    BY <2>2, Zenon DEF RowHere, At
<1>6. ASSUME NEW g \in Combinations(R), Agree(ks, cs, g, Len(ks) + 1) PROVE g = f
  <2>1. ASSUME NEW u \in Range(q.from) PROVE g[u] = f[u]
    <3>1. u \in TablesOf(q)
      BY Zenon DEF TablesOf
    <3>2. \A k \in 1..Len(ks) : ks[k].u = u => k \in 1..((Len(ks) + 1) - 1)
      BY <1>1, Zenon
    <3>3. RowHere(ks, cs, u, g[u])
      BY <1>6, <3>2, CombinedHere, Zenon
    <3>4. RowHere(ks, cs, u, f[u])
      BY <1>3, <3>1, Zenon
    <3>5. g[u] \in ct[u] /\ f[u] \in ct[u]
      <4> HIDE DEF f, Here
      <4> QED
        BY <1>4, <3>1, CombinedRow, ZenonT(60)
    <3> HIDE DEF f, Here
    <3> QED
      BY <3>3, <3>4, <3>5, OneRow, SMTT(60)
  <2> HIDE DEF f, Here
  <2> QED
    BY <1>4, <2>1, SameCombination, SMTT(60)
<1> HIDE DEF f
<1> QED
  BY <1>4, <1>5, <1>6, Zenon

\* A combination is told by what is put out of it.
LEMMA OutApart ==
    ASSUME NEW q, NEW ct, NEW R, NEW wh, NEW ks, Planned(q, ct, R, wh, ks),
           NEW f \in Combinations(R), NEW g \in Combinations(R), OutOf(q, f) = OutOf(q, g)
    PROVE  f = g
<1>1. IsQuery(q) /\ Contained(q, ct)
  BY Zenon DEF Planned
<1>2. ASSUME NEW u \in Range(q.from) PROVE f[u] = g[u]
  <2>1. u \in TablesOf(q) /\ f[u] \in ct[u] /\ g[u] \in ct[u]
    BY CombinedRow, Zenon DEF TablesOf
  <2>2. \A i \in DOMAIN q.keys[u] : f[u][q.keys[u][i]] = g[u][q.keys[u][i]]
    <3>1. OutOf(q, f)[u] = [i \in DOMAIN q.keys[u] |-> f[u][q.keys[u][i]]]
      BY Zenon DEF OutOf
    <3>2. OutOf(q, g)[u] = [i \in DOMAIN q.keys[u] |-> g[u][q.keys[u][i]]]
      BY Zenon DEF OutOf
    <3>3. [i \in DOMAIN q.keys[u] |-> f[u][q.keys[u][i]]] = [i \in DOMAIN q.keys[u] |-> g[u][q.keys[u][i]]]
      BY <3>1, <3>2, ZenonT(60)
    <3> QED
      BY <3>3, Zenon
  <2>3. \A c \in Range(q.keys[u]) : f[u][c] = g[u][c]
    BY <2>2, Zenon DEF Range
  <2> QED
    BY <1>1, <2>1, <2>3, RowFacts, SMTT(60)
<1> QED
  BY <1>2, SameCombination, SMTT(60)

LEMMA PutOutMore ==
    ASSUME NEW X, NEW out \in Seq(X), NEW q, NEW T, PutOut(q, T, out), NEW f,
           \A g \in T : OutOf(q, g) # OutOf(q, f)
    PROVE  PutOut(q, T \cup {f}, Append(out, OutOf(q, f)))
<1>1. PICK e : e = OutOf(q, f)
  BY Zenon
<1>2. PICK n \in Nat : n = Len(out) /\ DOMAIN out = 1..n
  OBVIOUS
<1>3. PICK more : more = Append(out, e)
  BY Zenon
<1>4. /\ DOMAIN more = 1..(n + 1) /\ more[n + 1] = e /\ \A i \in 1..n : more[i] = out[i]
      /\ \A i \in 1..(n + 1) : i \in 1..n \/ i = n + 1
  BY <1>2, <1>3, SMTT(60)
<1>5. Range(out) = {OutOf(q, g) : g \in T} /\ IsInjective(out)
  BY Zenon DEF PutOut
<1>6. \A i \in 1..n : out[i] # e
  <2>1. \A i \in 1..n : out[i] \in Range(out)
    BY <1>2, Zenon DEF Range
  <2> QED
    BY <1>1, <1>5, <2>1, Zenon
<1>7. IsInjective(more)
  <2>1. \A a, b \in 1..n : out[a] = out[b] => a = b
    BY <1>2, <1>5, Zenon DEF IsInjective
  <2>2. ASSUME NEW a \in 1..(n + 1), NEW b \in 1..(n + 1), more[a] = more[b] PROVE a = b
    BY <1>4, <1>6, <2>1, <2>2, ZenonT(60)
  <2> QED
    BY <1>4, <2>2, Zenon DEF IsInjective
<1>8. Range(more) = Range(out) \cup {e}
  <2>1. \A x : x \in Range(more) <=> \E i \in 1..(n + 1) : more[i] = x
    BY <1>4, Zenon DEF Range
  <2>2. \A x : x \in Range(out) <=> \E i \in 1..n : out[i] = x
    BY <1>2, Zenon DEF Range
  <2>3. n + 1 \in 1..(n + 1) /\ \A i \in 1..n : i \in 1..(n + 1)
    OBVIOUS
  <2> QED
    BY <1>4, <2>1, <2>2, <2>3, ZenonT(60)
<1>9. Range(more) = {OutOf(q, g) : g \in T \cup {f}}
  BY <1>1, <1>5, <1>8, Zenon
<1> QED
  BY <1>1, <1>3, <1>7, <1>9, ZenonT(60) DEF PutOut

LEMMA ReadableKey ==
    ASSUME NEW q, IsQuery(q), NEW ct, Contained(q, ct), NEW u \in TablesOf(q), NEW c \in Range(q.keys[u])
    PROVE  Readable(q, ct, Column(u, c))
<1>1. PICK o : o = Column(u, c)
  BY Zenon
<1>2. IsColumn(o) /\ o.u = u /\ o.c = c /\ o = Column(o.u, o.c)
  BY <1>1, Zenon DEF Column, IsColumn
<1>3. c \in STRING
  <2>1. q.keys[u] \in Seq(STRING) /\ Range(q.keys[u]) = {q.keys[u][i] : i \in 1..Len(q.keys[u])}
    BY TableFacts, Zenon
  <2>2. PICK i \in 1..Len(q.keys[u]) : c = q.keys[u][i]
    BY <2>1, Zenon
  <2> QED
    BY <2>1, <2>2
<1>4. \A row \in ct[u] : c \in DOMAIN row
  BY RowFacts, Zenon
<1> QED
  BY <1>1, <1>2, <1>3, <1>4, ZenonT(60) DEF Readable

\* What is read when all loops run is the combination that they are at.
LEMMA ReadHere ==
    ASSUME NEW q, q = Queries[query], Planned(q, content, Contributed, where, keys),
           \A j \in 1..Len(keys) : Reached(Contributed, keys, cursor, j),
           NEW f \in Combinations(Contributed), Agree(keys, cursor, f, Len(keys) + 1),
           NEW o, Readable(q, content, o)
    PROVE  Value(o) # Unset /\ Value(o) = Val(f, o)
<1>1. Len(keys) \in Nat
  BY PlanKeys, Zenon
<1>2. Len(keys) + 1 \in Nat /\ \A k \in 1..Len(keys) : k < Len(keys) + 1
  BY <1>1
<1>3. /\ Value(o) \in Nat /\ Value(o) # 0
      /\ \A g \in Combinations(Contributed) : Agree(keys, cursor, g, Len(keys) + 1) => Val(g, o) = Value(o)
  BY <1>2, OperandValue, ZenonT(60)
<1> QED
  BY <1>3, Zenon DEF Unset

LEMMA ProjectRuns ==
    ASSUME NEW q, Runs(q), Project, NEW X, output \in Seq(X)
    PROVE  Ran(q) /\ \E Y : output' \in Seq(Y)
<1> DEFINE F == Rights(Contributed, where)
           compared == UNION {{where[i][1], where[i][2]} : i \in DOMAIN where}
           shown == UNION {{Column(u, c) : c \in Range(KeyColumns[u])} : u \in Range(From)}
           all == compared \cup shown
           right == \A i \in DOMAIN where : Value(where[i][1]) = Value(where[i][2])
           row == [u \in Range(From) |-> [i \in DOMAIN KeyColumns[u] |-> Value(Column(u, KeyColumns[u][i]))]]
<1>1. /\ q = Queries[query] /\ Planned(q, content, Contributed, where, keys) /\ OuterHere
      /\ cursor \in [Tables \X Columns -> Nat] /\ phase = "run" /\ query' = query
      /\ level \in 1..(Len(keys) + 1) /\ level \in Nat /\ down \in BOOLEAN /\ Len(keys) \in Nat
      /\ ~down => level <= Len(keys)
      /\ \A j \in 1..(level - 1) : /\ Reached(Contributed, keys, cursor, j)
                                   /\ Forced(Contributed, where, keys, cursor, j)
      /\ \A j \in 1..Len(keys) : j < level => Reached(Contributed, keys, cursor, j)
      /\ PutOut(q, {f \in F : Passed(keys, cursor, level, down, f)}, output)
  BY RunsFacts, Zenon
<1>2. level > Len(keys) /\ content' = content /\ cursor' = cursor
  BY Zenon DEF Project
<1>3. level = Len(keys) + 1 /\ down = TRUE /\ \A j \in 1..Len(keys) : Reached(Contributed, keys, cursor, j)
  BY <1>1, <1>2, SMTT(60)
<1>4. PICK f \in Combinations(Contributed) :
          /\ Agree(keys, cursor, f, Len(keys) + 1)
          /\ \A g \in Combinations(Contributed) : Agree(keys, cursor, g, Len(keys) + 1) => g = f
  BY <1>1, <1>3, HereCombination, SMTT(60)
<1>5. \A o : Readable(q, content, o) => Value(o) # Unset /\ Value(o) = Val(f, o)
  BY <1>1, <1>3, <1>4, ReadHere, ZenonT(60)
<1>6. IsQuery(q) /\ Contained(q, content) /\ where \in Seq(q.conditions)
  BY <1>1, Zenon DEF Planned
<1>7. \A i \in DOMAIN where : Readable(q, content, where[i][1]) /\ Readable(q, content, where[i][2])
  <2> SUFFICES ASSUME NEW i \in DOMAIN where
               PROVE  Readable(q, content, where[i][1]) /\ Readable(q, content, where[i][2])
    BY ZenonT(60)
  <2>1. where[i] \in q.conditions
    BY <1>6, SMTT(60)
  <2>2. where[i][1] \in OperandsOf(q) /\ where[i][2] \in OperandsOf(q)
    BY <2>1 DEF OperandsOf
  <2> QED
    BY <1>6, <2>2, OperandFacts, ZenonT(60) DEF IsOperand
<1>8. From = q.from /\ KeyColumns = q.keys /\ \A u \in Range(q.from) : u \in TablesOf(q)
  BY <1>1, Zenon DEF From, KeyColumns, TablesOf
<1>9. \A u \in Range(q.from) : \A c \in Range(q.keys[u]) : Readable(q, content, Column(u, c))
  BY <1>6, <1>8, ReadableKey, ZenonT(60)
<1>10. \A o \in compared \cup shown : Value(o) # Unset
  <2>1. \A o \in compared : Readable(q, content, o)
    BY <1>7, Zenon
  <2>2. \A o \in shown : Readable(q, content, o)
    BY <1>8, <1>9, SMTT(60)
  <2> HIDE DEF compared, shown
  <2> QED
    BY <1>5, <2>1, <2>2, ZenonT(60)
<1>11. (IF right THEN output' = Append(output, row) ELSE output' = output) /\ Return
  <2>1. ~\E o \in all : Value(o) = Unset
    <3> HIDE DEF compared, shown
    <3> QED
      BY <1>10, Zenon
  <2>2. IF \E o \in all : Value(o) = Unset
        THEN phase' = "error" /\ UNCHANGED <<level, down, output>>
        ELSE (IF right THEN output' = Append(output, row) ELSE UNCHANGED output) /\ Return
    BY Zenon DEF Project
  <2> HIDE DEF all, right, row
  <2> QED
    BY <2>1, <2>2, Zenon
<1>12. row = OutOf(q, f)
  <2>1. ASSUME NEW u \in Range(q.from), NEW i \in DOMAIN q.keys[u]
        PROVE  Value(Column(u, q.keys[u][i])) = f[u][q.keys[u][i]]
    <3>1. q.keys[u][i] \in Range(q.keys[u])
      BY Zenon DEF Range
    <3>2. Value(Column(u, q.keys[u][i])) = Val(f, Column(u, q.keys[u][i]))
      BY <1>5, <1>9, <3>1, ZenonT(60)
    <3> QED
      BY <3>2, Zenon DEF Val, Column, IsColumn
  <2>2. row = [u \in Range(q.from) |-> [i \in DOMAIN q.keys[u] |-> Value(Column(u, q.keys[u][i]))]]
    BY <1>8, Zenon
  <2> QED
    BY <2>1, <2>2, ZenonT(60) DEF OutOf
<1>13. right <=> f \in F
  <2>1. \A i \in DOMAIN where : /\ Value(where[i][1]) = Val(f, where[i][1])
                                /\ Value(where[i][2]) = Val(f, where[i][2])
    BY <1>5, <1>7, Zenon
  <2>2. f \in F <=> \A i \in DOMAIN where : Val(f, where[i][1]) = Val(f, where[i][2])
    BY <1>4, Zenon DEF Rights
  <2> QED
    BY <2>1, <2>2, Zenon
<1>14. ~Passed(keys, cursor, level, TRUE, f)
  <2> SUFFICES ASSUME NEW j \in 1..(level - 1), At(keys, f, j) < Cur(keys, cursor, j) PROVE FALSE
    BY Zenon DEF Passed
  <2>1. At(keys, f, j) = Cur(keys, cursor, j)
    BY <1>3, <1>4, ZenonT(60) DEF Agree
  <2>2. Cur(keys, cursor, j) \in Nat
    BY <1>1, <1>3, LoopValue, SMTT(60)
  <2> QED
    BY <2>1, <2>2
<1> DEFINE T == {g \in F : Passed(keys, cursor, level, TRUE, g)}
           U == {g \in F : Passed(keys, cursor, level, TRUE, g) \/ Agree(keys, cursor, g, level)}
<1>15. PutOut(q, T, output)
  BY <1>1, <1>3, ZenonT(60)
<1>16. \A g \in F : g \in Combinations(Contributed)
  BY Zenon DEF Rights
<1>17. \A g \in F : Agree(keys, cursor, g, level) => g = f
  BY <1>3, <1>4, <1>16, ZenonT(60)
<1> HIDE DEF all, compared, shown, right, row
<1>18. PutOut(q, U, output') /\ \E Y : output' \in Seq(Y)
  <2>1. CASE right
    <3>1. output' = Append(output, OutOf(q, f))
      BY <1>11, <1>12, <2>1, ZenonT(60)
    <3>2. U = T \cup {f}
      <4>1. f \in F /\ Agree(keys, cursor, f, level)
        BY <1>3, <1>4, <1>13, <2>1, ZenonT(60)
      <4> HIDE DEF F
      <4> QED
        BY <1>17, <4>1, Zenon
    <3>3. \A g \in T : OutOf(q, g) # OutOf(q, f)
      <4> SUFFICES ASSUME NEW g \in T, OutOf(q, g) = OutOf(q, f) PROVE FALSE
        BY Zenon
      <4>1. g \in Combinations(Contributed) /\ Passed(keys, cursor, level, TRUE, g)
        BY <1>16, ZenonT(60)
      <4>2. g = f
        BY <1>1, <1>4, <4>1, OutApart, ZenonT(60)
      <4> QED
        BY <1>14, <4>1, <4>2, ZenonT(60)
    <3>4. PutOut(q, T \cup {f}, Append(output, OutOf(q, f)))
      <4> HIDE DEF T
      <4> QED
        BY <1>15, <3>3, PutOutMore, ZenonT(60)
    <3>5. \E Y : output' \in Seq(Y)
      <4>1. PICK e : e = OutOf(q, f)
        BY Zenon
      <4>2. Append(output, e) \in Seq(X \cup {e})
        OBVIOUS
      <4> QED
        BY <3>1, <4>1, <4>2, ZenonT(60)
    <3> HIDE DEF T, U
    <3> QED
      BY <3>1, <3>2, <3>4, <3>5, ZenonT(60)
  <2>2. CASE ~right
    <3>1. output' = output
      BY <1>11, <2>2, Zenon
    <3>2. U = T
      <4> HIDE DEF F
      <4> QED
        BY <1>13, <1>17, <2>2, ZenonT(60)
    <3> HIDE DEF T, U
    <3> QED
      BY <1>15, <3>1, <3>2, ZenonT(60)
  <2> QED
    BY <2>1, <2>2, Zenon
<1>19. (Tables \X Columns)' = Tables \X Columns /\ Contributed' = Contributed /\ OuterHere'
  BY <1>1, <1>2, SameCursor, ZenonT(60)
<1>20. Same(keys, cursor, cursor', level)
  BY <1>2, Zenon DEF Same
<1>21. /\ phase' \in {"run", "done"}
       /\ phase' = "run" => Looping(q, Contributed, where, keys, cursor', level', down', output')
       /\ phase' = "done" => PutOut(q, Rights(Contributed, where), output')
  BY <1>1, <1>11, <1>18, <1>20, ReturnStep, ZenonT(60)
<1>22. cursor' \in [(Tables \X Columns)' -> Nat]
  BY <1>1, <1>2, <1>19, Zenon
<1> QED
  BY <1>18, <1>19, <1>21, <1>22, ZenonT(60) DEF Ran

-----------------------------------------------------------------------------
(* The invariant of the loops.                                             *)

LEMMA RunInit ==
    ASSUME Init
    PROVE  RunInv
<1>1. PICK q : q = Queries[query] /\ IsQuery(q)
  BY QueriesAssumption, Zenon DEF Init
<1>2. /\ From = q.from /\ Outer = q.outer /\ KeyColumns = q.keys /\ Contents = q.contents
      /\ Tables = TablesOf(q)
  BY <1>1, Zenon DEF From, Outer, KeyColumns, Contents, Tables, TablesOf
<1>3. Contained(q, content)
  BY <1>2, Zenon DEF Init, Contained
<1>4. PICK here \in [Outer -> AllRows] :
          /\ \A u \in Outer : here[u] \in content[u]
          /\ cursor = [s \in Tables \X Columns |->
                          IF s[1] \in Outer /\ s[2] \in Range(KeyColumns[s[1]]) THEN here[s[1]][s[2]] ELSE Unset]
  BY Zenon DEF Init
<1>5. ASSUME NEW u \in Outer, NEW c \in Range(KeyColumns[u])
      PROVE  here[u][c] \in Nat /\ <<u, c>> \in Tables \X Columns
  <2>1. u \in TablesOf(q) /\ here[u] \in content[u] /\ c \in Range(q.keys[u])
    BY <1>2, <1>4, Zenon DEF TablesOf
  <2>2. c \in DOMAIN here[u] /\ here[u][c] \in Nat
    BY <1>1, <1>3, <2>1, RowFacts, ZenonT(60)
  <2> QED
    BY <1>1, <1>3, <2>1, <2>2, Slots, ZenonT(60)
<1>6. cursor \in [Tables \X Columns -> Nat]
  <2>1. \A s \in Tables \X Columns :
            (IF s[1] \in Outer /\ s[2] \in Range(KeyColumns[s[1]]) THEN here[s[1]][s[2]] ELSE Unset) \in Nat
    BY <1>5, Zenon DEF Unset
  <2> QED
    BY <1>4, <2>1, Zenon
<1>7. OuterHere
  <2> SUFFICES ASSUME NEW u \in Outer
               PROVE  \A c \in Range(KeyColumns[u]) : here[u][c] = cursor[<<u, c>>]
    BY <1>4, Zenon DEF OuterHere
  <2>1. ASSUME NEW c \in Range(KeyColumns[u]) PROVE here[u][c] = cursor[<<u, c>>]
    <3>0. <<u, c>> \in Tables \X Columns
      BY <1>5, Zenon
    <3>1. PICK s : s = <<u, c>>
      BY Zenon
    <3>2. s \in Tables \X Columns /\ s[1] = u /\ s[2] = c
      BY <3>0, <3>1, Zenon
    <3>3. cursor[s] = here[u][c]
      BY <1>4, <3>2, Zenon
    <3> QED
      BY <3>1, <3>3, Zenon
  <2> QED
    BY <2>1, Zenon
<1>8. phase = "parse" /\ level = 1 /\ down = TRUE /\ output = <<>>
  BY Zenon DEF Init
<1>9. output \in Seq({})
  BY <1>8
<1> QED
  BY <1>6, <1>7, <1>8, <1>9, ZenonT(60) DEF RunInv

LEMMA LoopsStart ==
    ASSUME NEW q, Planned(q, content, Contributed, where, keys), NEW cs
    PROVE  Looping(q, Contributed, where, keys, cs, 1, TRUE, <<>>)
<1>1. Len(keys) \in Nat
  BY PlanKeys, Zenon
<1>2. 1 \in 1..(Len(keys) + 1) /\ \A j \in 1..Len(keys) : ~(j < 1)
  BY <1>1, SMTT(60)
<1>3. \A f : ~Passed(keys, cs, 1, TRUE, f)
  <2>1. ~\E j \in 1..(1 - 1) : TRUE
    OBVIOUS
  <2> QED
    BY <2>1, Zenon DEF Passed
<1>4. PutOut(q, {f \in Rights(Contributed, where) : Passed(keys, cs, 1, TRUE, f)}, <<>>)
  <2>1. {f \in Rights(Contributed, where) : Passed(keys, cs, 1, TRUE, f)} = {}
    BY <1>3, Zenon
  <2>2. Range(<<>>) = {} /\ IsInjective(<<>>)
    BY DEF Range, IsInjective
  <2> QED
    BY <2>1, <2>2, Zenon DEF PutOut
<1> QED
  BY <1>2, <1>4, Zenon DEF Looping

\* A step of the optimizer, which leaves the loops alone
LEMMA BeforeLoops ==
    ASSUME RunInv, phase \in {"parse", "join", "optimize"}, phase' \in {"parse", "join", "optimize"},
           query' = query, content' = content, UNCHANGED loops
    PROVE  RunInv'
<1>1. /\ cursor \in [Tables \X Columns -> Nat] /\ OuterHere /\ (\E X : output \in Seq(X))
      /\ level = 1 /\ down = TRUE /\ output = <<>>
  BY Zenon DEF RunInv
<1>2. level' = level /\ down' = down /\ cursor' = cursor /\ output' = output
  BY Zenon DEF loops
<1>3. (Tables \X Columns)' = Tables \X Columns /\ OuterHere'
  BY <1>1, <1>2, SameCursor, ZenonT(60)
<1>4. cursor' \in [(Tables \X Columns)' -> Nat]
  BY <1>1, <1>2, <1>3, ZenonT(60)
<1> QED
  BY <1>1, <1>2, <1>3, <1>4, ZenonT(60) DEF RunInv

LEMMA EmitPlanRuns ==
    ASSUME KeysInv, SequencedIn(Queries[query], keys), RunInv, EmitPlan, query' = query
    PROVE  RunInv'
<1>1. /\ cursor \in [Tables \X Columns -> Nat] /\ OuterHere /\ (\E X : output \in Seq(X))
      /\ level = 1 /\ down = TRUE /\ output = <<>> /\ phase = "optimize"
  BY Zenon DEF RunInv, EmitPlan
<1>2. /\ level' = level /\ down' = down /\ cursor' = cursor /\ output' = output
      /\ phase' = "run" /\ content' = content /\ where' = where /\ keys' = keys
  BY Zenon DEF EmitPlan, loops, plan
<1>3. PICK q : q = Queries[query]
  BY Zenon
<1>4. Planned(q, content, Contributed, where, keys)
  BY <1>1, <1>3, PlannedNow, ZenonT(60)
<1>5. Looping(q, Contributed, where, keys, cursor, 1, TRUE, <<>>)
  BY <1>4, LoopsStart, Zenon
<1>6. (Tables \X Columns)' = Tables \X Columns /\ OuterHere' /\ Contributed' = Contributed
  BY <1>1, <1>2, SameCursor, ZenonT(60)
<1>7. cursor' \in [(Tables \X Columns)' -> Nat]
  BY <1>1, <1>2, <1>6, ZenonT(60)
<1>8. Looping(Queries[query]', Contributed', where', keys', cursor', level', down', output')
  BY <1>1, <1>2, <1>3, <1>5, <1>6, ZenonT(60)
<1> QED
  BY <1>1, <1>2, <1>6, <1>7, <1>8, ZenonT(60) DEF RunInv

LEMMA RoutineRuns ==
    ASSUME KeysInv, SequencedIn(Queries[query], keys), RunInv, Routine, query' = query
    PROVE  RunInv'
<1>1. /\ phase = "run" /\ content' = content /\ where' = where /\ keys' = keys
  BY RoutinePhase, Zenon DEF plan
<1>2. PICK q : q = Queries[query]
  BY Zenon
<1>3. /\ cursor \in [Tables \X Columns -> Nat] /\ OuterHere
      /\ Looping(q, Contributed, where, keys, cursor, level, down, output)
  BY <1>1, <1>2, ZenonT(60) DEF RunInv
<1>4. Planned(q, content, Contributed, where, keys)
  BY <1>1, <1>2, <1>3, PlannedNow, ZenonT(60)
<1>5. Runs(q)
  BY <1>1, <1>2, <1>3, <1>4, ZenonT(60) DEF Runs
<1>6. PICK X : output \in Seq(X)
  BY Zenon DEF RunInv
<1>7. Ran(q) /\ \E Y : output' \in Seq(Y)
  <2>1. CASE SetFixedKey
    BY <1>5, <1>6, <2>1, SetFixedKeyRuns, ZenonT(60) DEF SetFixedKey
  <2>2. CASE Advance
    BY <1>5, <1>6, <2>2, AdvanceRuns, ZenonT(60) DEF Advance
  <2>3. CASE Project
    BY <1>5, <1>6, <2>3, ProjectRuns, ZenonT(60)
  <2> QED
    BY <2>1, <2>2, <2>3, ZenonT(60) DEF Routine
<1>8. /\ cursor' \in [(Tables \X Columns)' -> Nat] /\ OuterHere' /\ Contributed' = Contributed
      /\ phase' \in {"run", "done"}
      /\ phase' = "run" => Looping(q, Contributed, where, keys, cursor', level', down', output')
      /\ phase' = "done" => PutOut(q, Rights(Contributed, where), output')
  BY <1>7, ZenonT(60) DEF Ran
<1>9. phase' = "run" => Looping(Queries[query]', Contributed', where', keys', cursor', level', down', output')
  BY <1>1, <1>2, <1>8, ZenonT(60)
<1>10. phase' = "done" => PutOut(Queries[query]', Rights(Contributed', where'), output')
  BY <1>1, <1>2, <1>8, ZenonT(60)
<1>11. phase' \notin {"parse", "join", "optimize", "error"}
  BY <1>8, Zenon
<1> QED
  BY <1>7, <1>8, <1>9, <1>10, <1>11, ZenonT(60) DEF RunInv

LEMMA RunNext ==
    ASSUME KeysInv, SequencedIn(Queries[query], keys), RunInv, [Next]_vars
    PROVE  RunInv'
<1>1. query' = query
  BY Zenon DEF Next, vars
<1>2. CASE UNCHANGED vars
  <2>1. /\ phase' = phase /\ content' = content /\ where' = where /\ keys' = keys
        /\ level' = level /\ down' = down /\ cursor' = cursor /\ output' = output
    BY <1>2, Zenon DEF vars, loops, plan
  <2>2. (Tables \X Columns)' = Tables \X Columns /\ Contributed' = Contributed /\ (OuterHere => OuterHere')
    BY <1>1, <2>1, SameCursor, ZenonT(60)
  <2> QED
    BY <1>1, <2>1, <2>2, ZenonT(60) DEF RunInv
<1>3. CASE Next
  <2>1. ASSUME NEW c \in Queries[query].conditions, BooleanTermAnd(c) PROVE RunInv'
    <3>1. /\ phase \in {"parse", "join", "optimize"} /\ phase' \in {"parse", "join", "optimize"}
          /\ content' = content /\ UNCHANGED loops
      BY <2>1, Zenon DEF BooleanTermAnd
    <3> QED
      BY <1>1, <3>1, BeforeLoops, ZenonT(60)
  <2>2. CASE JoinTables \/ KeyUniqueIdArray \/ FixKey \/ GenerateXrefKeys \/ NotOptimized
    <3>1. /\ phase \in {"parse", "join", "optimize"} /\ phase' \in {"parse", "join", "optimize"}
          /\ content' = content /\ UNCHANGED loops
      BY <2>2, Zenon DEF JoinTables, KeyUniqueIdArray, FixKey, GenerateXrefKeys, NotOptimized
    <3> QED
      BY <1>1, <3>1, BeforeLoops, Zenon
  <2>3. CASE EmitPlan
    BY <1>1, <2>3, EmitPlanRuns, ZenonT(60)
  <2>4. CASE Routine
    BY <1>1, <2>4, RoutineRuns, ZenonT(60)
  <2> QED
    BY <1>3, <2>1, <2>2, <2>3, <2>4, ZenonT(60) DEF Next, Optimize
<1> QED
  BY <1>2, <1>3, Zenon

LEMMA ExpectedRows ==
    Expected = {OutOf(Queries[query], f) : f \in Rights(Contributed, where)}
<1>1. PICK q : q = Queries[query]
  BY Zenon
<1> DEFINE all == {f \in [Tables -> UNION {content[u] : u \in Tables}] : \A u \in Tables : f[u] \in RowsOf(u)}
<1>2. all = Combinations(Contributed)
  <2>1. DOMAIN Contributed = Tables /\ \A u \in Tables : Contributed[u] = RowsOf(u)
    BY Zenon DEF Contributed
  <2>2. \A u \in Tables : RowsOf(u) \subseteq content[u]
    BY Zenon DEF RowsOf
  <2>3. ASSUME NEW f \in all PROVE f \in Combinations(Contributed)
    <3>1. f = [u \in Tables |-> f[u]] /\ \A u \in Tables : f[u] \in Contributed[u]
      BY <2>1, <2>3, Zenon
    <3> QED
      BY <2>1, <3>1, ZenonT(60) DEF Combinations
  <2>4. ASSUME NEW f \in Combinations(Contributed) PROVE f \in all
    <3>1. f = [u \in Tables |-> f[u]] /\ \A u \in Tables : f[u] \in RowsOf(u)
      BY <2>1, <2>4, ZenonT(60) DEF Combinations
    <3>2. \A u \in Tables : f[u] \in UNION {content[v] : v \in Tables}
      BY <2>2, <3>1, ZenonT(60)
    <3> QED
      BY <3>1, <3>2, Zenon
  <2> QED
    BY <2>3, <2>4, Zenon
<1> DEFINE right == {f \in all : \A i \in DOMAIN where : Val(f, where[i][1]) = Val(f, where[i][2])}
<1>3. right = Rights(Contributed, where)
  BY <1>2, ZenonT(60) DEF Rights
<1>4. Expected = {[u \in Range(From) |-> [i \in DOMAIN KeyColumns[u] |-> f[u][KeyColumns[u][i]]]] : f \in right}
  BY Zenon DEF Expected, Val
<1> HIDE DEF right
<1>5. Range(From) = Range(q.from) /\ KeyColumns = q.keys
  BY <1>1, Zenon DEF From, KeyColumns
<1>6. \A f : OutOf(q, f) = [u \in Range(From) |-> [i \in DOMAIN KeyColumns[u] |-> f[u][KeyColumns[u][i]]]]
  BY <1>5, Zenon DEF OutOf
<1>7. Expected = {OutOf(q, f) : f \in right}
  <2> DEFINE shown(f) == [u \in Range(From) |-> [i \in DOMAIN KeyColumns[u] |-> f[u][KeyColumns[u][i]]]]
  <2>1. Expected = {shown(f) : f \in right} /\ \A f : OutOf(q, f) = shown(f)
    BY <1>4, <1>6, Zenon
  <2> HIDE DEF shown
  <2> QED
    BY <2>1, Zenon
<1> QED
  BY <1>1, <1>3, <1>7, ZenonT(60)

LEMMA RowsPutOut ==
    ASSUME RunInv
    PROVE  JoinRows
  BY ExpectedRows, Zenon DEF RunInv, JoinRows, PutOut

\* The routine of a plan puts out each combination of rows that satisfies the WHERE clause
\* exactly once, and no other, and does not read a key that the cursor does not have:
\* whatever the tables contain, whichever keys lp_optimize_where_multi_equal_ands fixes
\* or moves to cross references, and whatever rows the parent query's loops are at.  The
\* queries are those without the two deviations above.
THEOREM RowsAlwaysJoined ==
    ASSUME KeysLinked, KeysApart
    PROVE  Spec => []JoinRows
<1>1. Init => JoinInv
  BY KeysInit, RunInit, Zenon DEF JoinInv
<1>2. JoinInv /\ [Next]_vars => JoinInv'
  <2> SUFFICES ASSUME JoinInv, [Next]_vars PROVE JoinInv'
    BY Zenon
  <2>1. PICK q : q = Queries[query]
    BY Zenon
  <2>2. KeysInv' /\ query' = query /\ SequencedIn(q, keys')
    BY <2>1, KeysNext, Zenon DEF JoinInv
  <2>3. SequencedIn(Queries[query]', keys')
    BY <2>1, <2>2, Zenon
  <2>4. RunInv'
    BY RunNext, Zenon DEF JoinInv
  <2> QED
    BY <2>2, <2>3, <2>4, Zenon DEF JoinInv
<1>3. JoinInv => JoinRows
  BY RowsPutOut, Zenon DEF JoinInv
<1> QED
  BY <1>1, <1>2, <1>3, PTL DEF Spec

=============================================================================
