--------------------------- MODULE KeyPlanProofs ---------------------------
(***************************************************************************)
(* The keys of a plan, for any tables, contents and equalities: the        *)
(* optimizer keeps them complete and in an order that works.               *)
(*                                                                         *)
(* Below, q is a query, ct the content of its tables, wh the conjuncts and *)
(* ks a list of keys.                                                      *)
(***************************************************************************)
EXTENDS KeyPlan, WellFoundedInduction, TLAPS

TablesOf(q) == Range(q.from) \cup q.outer
OperandsOf(q) == UNION {{p[1], p[2]} : p \in q.conditions}

\* Where a table is in the FROM clause
Pos(q, u) == CHOOSE i \in DOMAIN q.from : q.from[i] = u

\* Two known deviations.  lp_optimize_where_multi_equal_ands loses all keys but the
\* first of a table with a cross reference, if other keys follow.
KeysLinked ==
    \A n \in DOMAIN Queries : LET q == Queries[n] IN
        \A u \in Range(q.from) :
            \/ u = q.from[Len(q.from)]
            \/ Len(q.keys[u]) = 1
            \/ \A o \in OperandsOf(q) : IsColumn(o) /\ o.u = u => o.c \in Range(q.keys[u])

\* And it fixes a key to another one of its table, which may come later.
KeysApart ==
    \A n \in DOMAIN Queries : LET q == Queries[n] IN
        \A p \in q.conditions :
            IsColumn(p[1]) /\ IsColumn(p[2]) /\ p[1].u = p[2].u =>
                p[1].c \notin Range(q.keys[p[1].u]) \/ p[2].c \notin Range(q.keys[p[1].u])

-----------------------------------------------------------------------------
(* The keys.                                                               *)

KeyType(q) ==
    [u : Range(q.from), c : STRING, value : OperandsOf(q) \cup {None}, xref : STRING \cup {None}]

\* The keys are those of the first n tables, table by table, each once.
ListedIn(q, ct, ks, n) ==
    /\ ks \in Seq(KeyType(q))
    /\ \A k \in 1..Len(ks) : /\ Pos(q, ks[k].u) <= n
                             /\ \A row \in ct[ks[k].u] : ks[k].c \in DOMAIN row
    /\ \A j, k \in 1..Len(ks) :
           j < k => /\ Pos(q, ks[j].u) <= Pos(q, ks[k].u)
                    /\ ~(ks[j].u = ks[k].u /\ ks[j].c = ks[k].c)
    /\ \A u \in Range(q.from) : Pos(q, u) <= n =>
           \A c \in Range(q.keys[u]) : \E k \in 1..Len(ks) : ks[k].u = u /\ ks[k].c = c

\* A key is fixed to the other side of a conjunct.
FoundedIn(wh, ks) ==
    \A k \in 1..Len(ks) : ks[k].value # None =>
        \E n \in DOMAIN wh : \/ wh[n][1] = Column(ks[k].u, ks[k].c) /\ wh[n][2] = ks[k].value
                             \/ wh[n][2] = Column(ks[k].u, ks[k].c) /\ wh[n][1] = ks[k].value

\* In a cross reference (of the tables r) the column is fixed, and the keys below it are not.
CrossedIn(q, ks, r) ==
    \A k \in 1..Len(ks) :
        /\ ks[k].u \in r => ks[k].value # None \/ ks[k].xref # None
        /\ ks[k].c \notin Range(q.keys[ks[k].u]) => ks[k].u \in r

\* key_unique_id_array orders the tables like the FROM clause.
RankedIn(q, rk) ==
    /\ rk \in [TablesOf(q) -> Nat]
    /\ \A u \in TablesOf(q) : rk[u] = 0 <=> u \in q.outer
    /\ \A u, v \in Range(q.from) : rk[u] < rk[v] <=> Pos(q, u) < Pos(q, v)

\* A key is fixed to a value, or to a column of a table before its own or outside.
SequencedIn(q, ks) ==
    \A k \in 1..Len(ks) :
        ks[k].value # None /\ IsColumn(ks[k].value) =>
            ks[k].value.u \in q.outer \/ Pos(q, ks[k].value.u) < Pos(q, ks[k].u)

Contained(q, ct) == \A u \in TablesOf(q) : ct[u] \in q.contents[u]

\* How many tables have been joined
Tabled == IF phase = "parse" THEN 0 ELSE IF phase = "join" THEN next - 1 ELSE Len(From)

Given ==
    /\ query \in DOMAIN Queries
    /\ Contained(Queries[query], content)
    /\ where \in Seq(Queries[query].conditions)
    /\ next \in Nat \ {0}
    /\ phase \in {"parse", "join", "optimize", "run", "done", "error"}
    /\ phase = "parse" => next = 1 /\ keys = <<>>
    /\ phase = "join" => next <= Len(From) + 1
    /\ phase \in {"parse", "join"} => replaced = {} /\ \A k \in 1..Len(keys) : keys[k].value = None

KeysInv ==
    /\ Given
    /\ ListedIn(Queries[query], content, keys, Tabled)
    /\ FoundedIn(where, keys)
    /\ CrossedIn(Queries[query], keys, replaced)
    /\ phase \notin {"parse", "join"} => RankedIn(Queries[query], rank)

-----------------------------------------------------------------------------
(* Numbers.                                                                *)

LEMMA LeastNat ==
    ASSUME NEW T, T \subseteq Nat, T # {}
    PROVE  \E n \in T : \A m \in T : n <= m
<1> DEFINE R == OpToRel(<, Nat)
<1>1. IsWellFoundedOn(R, Nat)
  BY NatLessThanWellFounded, Zenon
<1>2. \A i, j \in Nat : <<i, j>> \in R <=> i < j
  BY Zenon DEF OpToRel
<1> HIDE DEF R
<1>3. PICK n \in T : \A m \in T : ~(<<m, n>> \in R)
  BY <1>1, WFMin, Zenon
<1>4. ASSUME NEW m \in T PROVE n <= m
  <2>1. m \in Nat /\ n \in Nat /\ ~(<<m, n>> \in R)
    BY <1>3, Zenon
  <2> QED
    BY <1>2, <2>1
<1> QED
  BY <1>4, Zenon

LEMMA GreatestNat ==
    ASSUME NEW n \in Nat, NEW S \in SUBSET (1..n), S # {}
    PROVE  \E m \in S : \A k \in S : k <= m
<1> DEFINE T == {n - k : k \in S}
<1>1. T \subseteq Nat /\ T # {}
  <2>1. \A k \in S : n - k \in Nat
    OBVIOUS
  <2> QED
    BY <2>1, Zenon
<1>2. \A k \in S : n - k \in T
  BY Zenon
<1>3. PICK t \in T : \A s \in T : t <= s
  <2> HIDE DEF T
  <2> QED
    BY <1>1, LeastNat, Zenon
<1>4. PICK m \in S : t = n - m
  BY <1>3, Zenon
<1>5. ASSUME NEW k \in S PROVE k <= m
  BY <1>2, <1>3, <1>4
<1> QED
  BY <1>5, Zenon

-----------------------------------------------------------------------------
(* What the assumption says of a query.                                    *)

LEMMA QueryFacts ==
    ASSUME NEW q, IsQuery(q)
    PROVE  /\ q.from \in Seq(Nat) /\ Len(q.from) \in Nat /\ Len(q.from) # 0
           /\ DOMAIN q.from = 1..Len(q.from)
           /\ \A i, j \in 1..Len(q.from) : q.from[i] = q.from[j] => i = j
           /\ Range(q.from) = {q.from[i] : i \in 1..Len(q.from)}
           /\ q.outer \cap Range(q.from) = {}
<1>1. q.from \in Seq(Nat) /\ q.from # <<>> /\ IsInjective(q.from) /\ q.outer \cap Range(q.from) = {}
  BY Zenon DEF IsQuery
<1>2. Len(q.from) \in Nat /\ Len(q.from) # 0 /\ DOMAIN q.from = 1..Len(q.from)
  BY <1>1
<1> QED
  BY <1>1, <1>2, Zenon DEF IsInjective, Range

LEMMA TableFacts ==
    ASSUME NEW q, IsQuery(q), NEW u \in TablesOf(q)
    PROVE  /\ q.keys[u] \in Seq(STRING) /\ Len(q.keys[u]) \in Nat /\ Len(q.keys[u]) # 0
           /\ DOMAIN q.keys[u] = 1..Len(q.keys[u])
           /\ \A i, j \in 1..Len(q.keys[u]) : q.keys[u][i] = q.keys[u][j] => i = j
           /\ Range(q.keys[u]) = {q.keys[u][i] : i \in 1..Len(q.keys[u])}
<1>1. q.keys[u] \in Seq(STRING) /\ q.keys[u] # <<>> /\ IsInjective(q.keys[u])
  BY Zenon DEF IsQuery, TablesOf
<1>2. Len(q.keys[u]) \in Nat /\ Len(q.keys[u]) # 0 /\ DOMAIN q.keys[u] = 1..Len(q.keys[u])
  BY <1>1
<1> QED
  BY <1>1, <1>2, Zenon DEF IsInjective, Range

LEMMA RowFacts ==
    ASSUME NEW q, IsQuery(q), NEW u \in TablesOf(q), NEW ct, Contained(q, ct), NEW row \in ct[u]
    PROVE  /\ \A c \in Range(q.keys[u]) : c \in DOMAIN row
           /\ \A c \in DOMAIN row : row[c] \in Nat /\ row[c] # 0
           /\ \A other \in ct[u] : (\A c \in Range(q.keys[u]) : row[c] = other[c]) => row = other
<1>1. ct[u] \in q.contents[u]
  BY Zenon DEF Contained
<1>2. /\ \A c \in Range(q.keys[u]) : \A rows \in q.contents[u] : \A r \in rows : c \in DOMAIN r
      /\ \A rows \in q.contents[u] : \A a \in rows :
            /\ \A c \in DOMAIN a : a[c] \in Nat \ {Unset}
            /\ \A b \in rows : (\A c \in Range(q.keys[u]) : a[c] = b[c]) => a = b
  BY Zenon DEF IsQuery, TablesOf
<1> QED
  BY <1>1, <1>2, Zenon DEF Unset

\* The operands of the conditions
Readable(q, ct, o) ==
    IF IsColumn(o)
    THEN /\ o = Column(o.u, o.c) /\ o.u \in TablesOf(q) /\ o.c \in STRING
         /\ \A row \in ct[o.u] : o.c \in DOMAIN row
    ELSE o = Literal(o.v) /\ o.v \in Nat /\ o.v # 0

IsOperand(q, ct, o) == o # None /\ Readable(q, ct, o)

LEMMA OperandFacts ==
    ASSUME NEW q, IsQuery(q), NEW ct, Contained(q, ct), NEW o \in OperandsOf(q)
    PROVE  IsOperand(q, ct, o)
<1>1. PICK p \in q.conditions : o \in {p[1], p[2]}
  BY Zenon DEF OperandsOf
<1>2. /\ o # None
      /\ IF IsColumn(o)
         THEN /\ o = Column(o.u, o.c) /\ o.u \in Range(q.from) \cup q.outer /\ o.c \in STRING
              /\ \A rows \in q.contents[o.u] : \A row \in rows : o.c \in DOMAIN row
         ELSE o = Literal(o.v) /\ o.v \in Nat \ {Unset}
  <2>1. CASE o = p[1]
    BY <1>1, <2>1, Zenon DEF IsQuery
  <2>2. CASE o = p[2]
    BY <1>1, <2>2, Zenon DEF IsQuery
  <2> QED
    BY <1>1, <2>1, <2>2, Zenon
<1>3. CASE IsColumn(o)
  BY <1>2, <1>3, Zenon DEF IsOperand, Readable, TablesOf, Contained
<1>4. CASE ~IsColumn(o)
  BY <1>2, <1>4, Zenon DEF IsOperand, Readable, Unset
<1> QED
  BY <1>3, <1>4, Zenon

LEMMA PosFacts ==
    ASSUME NEW q, IsQuery(q)
    PROVE  /\ \A u \in Range(q.from) : Pos(q, u) \in 1..Len(q.from) /\ q.from[Pos(q, u)] = u
           /\ \A i \in 1..Len(q.from) : q.from[i] \in Range(q.from) /\ Pos(q, q.from[i]) = i
<1>1. ASSUME NEW u \in Range(q.from) PROVE Pos(q, u) \in 1..Len(q.from) /\ q.from[Pos(q, u)] = u
  <2>1. \E i \in DOMAIN q.from : q.from[i] = u
    BY Zenon DEF Range
  <2> QED
    BY <2>1, QueryFacts, Zenon DEF Pos
<1>2. ASSUME NEW i \in 1..Len(q.from) PROVE q.from[i] \in Range(q.from) /\ Pos(q, q.from[i]) = i
  <2>1. DOMAIN q.from = 1..Len(q.from) /\ \A a, b \in 1..Len(q.from) : q.from[a] = q.from[b] => a = b
    BY QueryFacts, Zenon
  <2>2. q.from[i] \in Range(q.from)
    BY <2>1, Zenon DEF Range
  <2>3. Pos(q, q.from[i]) \in 1..Len(q.from) /\ q.from[Pos(q, q.from[i])] = q.from[i]
    BY <1>1, <2>2, Zenon
  <2> QED
    BY <2>1, <2>2, <2>3, Zenon
<1> QED
  BY <1>1, <1>2, Zenon

LEMMA KeyIndexFacts ==
    ASSUME NEW A, keys \in Seq(A), NEW o
    PROVE  /\ KeyIndex(o) # 0 => /\ KeyIndex(o) \in 1..Len(keys)
                                 /\ keys[KeyIndex(o)].u = o.u /\ keys[KeyIndex(o)].c = o.c
           /\ KeyIndex(o) = 0 => \A k \in 1..Len(keys) : ~(keys[k].u = o.u /\ keys[k].c = o.c)
<1> DEFINE I == {i \in 1..Len(keys) : keys[i].u = o.u /\ keys[i].c = o.c}
<1>1. Len(keys) \in Nat /\ DOMAIN keys = 1..Len(keys)
  OBVIOUS
<1> DEFINE first == CHOOSE i \in I : \A j \in I : i <= j
<1>2. KeyIndex(o) = IF I = {} THEN 0 ELSE first
  BY Zenon DEF KeyIndex, FirstKey
<1>3. CASE I # {}
  <2>1. I \subseteq Nat
    BY <1>1
  <2>2. first \in I
    <3> HIDE DEF I
    <3>1. \E x \in I : \A y \in I : x <= y
      BY <1>3, <2>1, LeastNat, Zenon
    <3> QED
      BY <3>1, Zenon
  <2>3. first \in 1..Len(keys) /\ keys[first].u = o.u /\ keys[first].c = o.c
    <3> HIDE DEF first
    <3> QED
      BY <2>2, Zenon
  <2>4. KeyIndex(o) = first /\ first # 0
    <3> HIDE DEF first, I
    <3> QED
      BY <1>1, <1>2, <1>3, <2>3
  <2> HIDE DEF first
  <2> QED
    BY <2>3, <2>4, Zenon
<1>4. CASE I = {}
  BY <1>1, <1>2, <1>4, Zenon
<1> QED
  BY <1>3, <1>4, Zenon

-----------------------------------------------------------------------------
(* Lists of keys.                                                          *)

LEMMA AtMost ==
    ASSUME NEW n \in Nat, NEW i \in 1..n
    PROVE  i <= n
  OBVIOUS

LEMMA OneMore ==
    ASSUME NEW n \in Nat, NEW i \in Nat
    PROVE  /\ i <= n => i <= n + 1
           /\ i <= n + 1 /\ ~(i <= n) => i = n + 1
  OBVIOUS

\* get_key_columns of the table u, as keys
Fresh(q, u, xref) == [i \in DOMAIN q.keys[u] |-> Key(u, q.keys[u][i], xref)]

\* The key columns of the table u, as keys of it, with no value yet
FreshOf(q, u, xref) ==
  /\ Fresh(q, u, xref) \in Seq(KeyType(q)) /\ Len(Fresh(q, u, xref)) = Len(q.keys[u])
  /\ \A i \in 1..Len(q.keys[u]) :
        /\ Fresh(q, u, xref)[i].u = u /\ Fresh(q, u, xref)[i].c = q.keys[u][i]
        /\ Fresh(q, u, xref)[i].value = None /\ Fresh(q, u, xref)[i].xref = xref

LEMMA FreshFacts ==
    ASSUME NEW q, IsQuery(q), NEW u \in Range(q.from), NEW xref \in STRING \cup {None}
    PROVE  FreshOf(q, u, xref)
<1>1. /\ Len(q.keys[u]) \in Nat /\ DOMAIN q.keys[u] = 1..Len(q.keys[u])
      /\ \A i \in 1..Len(q.keys[u]) : q.keys[u][i] \in STRING
  BY TableFacts DEF TablesOf
<1>2. PICK m, cols : m = Len(q.keys[u]) /\ cols = q.keys[u]
  BY Zenon
<1>3. Fresh(q, u, xref) = [i \in 1..m |-> [u |-> u, c |-> cols[i], value |-> None, xref |-> xref]]
  BY <1>1, <1>2, Zenon DEF Fresh, Key
<1>4. \A i \in 1..m : [u |-> u, c |-> cols[i], value |-> None, xref |-> xref] \in KeyType(q)
  BY <1>1, <1>2, Zenon DEF KeyType
<1> HIDE DEF KeyType
<1>5. Fresh(q, u, xref) \in [1..m -> KeyType(q)]
  BY <1>3, <1>4, Zenon
<1>6. Fresh(q, u, xref) \in Seq(KeyType(q)) /\ Len(Fresh(q, u, xref)) = m
  BY <1>1, <1>2, <1>5
<1>7. \A i \in 1..m : /\ Fresh(q, u, xref)[i].u = u /\ Fresh(q, u, xref)[i].c = cols[i]
                     /\ Fresh(q, u, xref)[i].value = None /\ Fresh(q, u, xref)[i].xref = xref
  BY ONLY <1>3, SMT
<1> QED
  BY <1>2, <1>6, <1>7, Zenon DEF FreshOf

LEMMA ListNext ==
    ASSUME NEW q, IsQuery(q), NEW ct, Contained(q, ct), NEW n \in Nat, n < Len(q.from),
           NEW ks, ListedIn(q, ct, ks, n)
    PROVE  ListedIn(q, ct, ks \o Fresh(q, q.from[n + 1], None), n + 1)
<1>1. PICK u, nk, k2, m, cols :
          /\ u = q.from[n + 1] /\ nk = Fresh(q, u, None) /\ k2 = ks \o nk
          /\ m = Len(ks) /\ cols = q.keys[u]
  BY Zenon
<1>2. Len(q.from) \in Nat /\ n + 1 \in 1..Len(q.from)
  BY QueryFacts
<1>3. u \in Range(q.from) /\ Pos(q, u) = n + 1
  BY <1>1, <1>2, PosFacts, Zenon
<1>4. u \in TablesOf(q)
  BY <1>3, Zenon DEF TablesOf
<1>5. /\ Len(cols) \in Nat /\ \A i, j \in 1..Len(cols) : cols[i] = cols[j] => i = j
      /\ Range(cols) = {cols[i] : i \in 1..Len(cols)}
  <2>1. /\ Len(q.keys[u]) \in Nat /\ \A i, j \in 1..Len(q.keys[u]) : q.keys[u][i] = q.keys[u][j] => i = j
        /\ Range(q.keys[u]) = {q.keys[u][i] : i \in 1..Len(q.keys[u])}
    BY <1>4, TableFacts, Zenon
  <2>2. cols = q.keys[u]
    BY <1>1, Zenon
  <2> QED
    BY <2>1, <2>2, Zenon
<1>6. /\ nk \in Seq(KeyType(q)) /\ Len(nk) = Len(cols)
      /\ \A i \in 1..Len(cols) : nk[i].u = u /\ nk[i].c = cols[i]
  <2>1. /\ Fresh(q, u, None) \in Seq(KeyType(q)) /\ Len(Fresh(q, u, None)) = Len(q.keys[u])
        /\ \A i \in 1..Len(q.keys[u]) : Fresh(q, u, None)[i].u = u /\ Fresh(q, u, None)[i].c = q.keys[u][i]
    <3>1. None \in STRING \cup {None}
      BY Zenon
    <3>2. FreshOf(q, u, None)
      BY <1>3, <3>1, FreshFacts, Zenon
    <3> QED
      BY <3>2, Zenon DEF FreshOf
  <2>2. cols = q.keys[u] /\ nk = Fresh(q, u, None)
    BY <1>1, Zenon
  <2> QED
    BY <2>1, <2>2, Zenon
<1>7. /\ ks \in Seq(KeyType(q)) /\ m \in Nat
      /\ \A k \in 1..m : Pos(q, ks[k].u) <= n /\ \A row \in ct[ks[k].u] : ks[k].c \in DOMAIN row
      /\ \A j, k \in 1..m : j < k => /\ Pos(q, ks[j].u) <= Pos(q, ks[k].u)
                                     /\ ~(ks[j].u = ks[k].u /\ ks[j].c = ks[k].c)
      /\ \A w \in Range(q.from) : Pos(q, w) <= n =>
             \A c \in Range(q.keys[w]) : \E k \in 1..m : ks[k].u = w /\ ks[k].c = c
  <2>1. ks \in Seq(KeyType(q)) /\ m = Len(ks)
    BY <1>1, Zenon DEF ListedIn
  <2>2. m \in Nat
    BY <2>1
  <2> QED
    BY <2>1, <2>2, Zenon DEF ListedIn
<1>8. \A k \in 1..m : ks[k].u \in Range(q.from) /\ Pos(q, ks[k].u) \in Nat
  <2>1. \A k \in 1..m : ks[k] \in KeyType(q)
    BY <1>1, <1>7
  <2>2. \A k \in 1..m : ks[k].u \in Range(q.from)
    BY <2>1, Zenon DEF KeyType
  <2> QED
    BY <1>2, <2>2, PosFacts
<1>9. /\ k2 \in Seq(KeyType(q)) /\ Len(k2) = m + Len(cols)
      /\ \A k \in 1..m : k2[k] = ks[k]
      /\ \A i \in 1..Len(cols) : k2[m + i] = nk[i]
  <2>1. k2 = ks \o nk /\ m = Len(ks) /\ ks \in Seq(KeyType(q)) /\ nk \in Seq(KeyType(q)) /\ Len(nk) = Len(cols)
    BY <1>1, <1>6, <1>7, Zenon
  <2> QED
    <3>1. /\ ks \o nk \in Seq(KeyType(q)) /\ Len(ks \o nk) = Len(ks) + Len(nk)
          /\ \A k \in 1..Len(ks) : (ks \o nk)[k] = ks[k]
          /\ \A i \in 1..Len(nk) : (ks \o nk)[Len(ks) + i] = nk[i]
      <4>1. PICK S : S = KeyType(q)
        BY Zenon
      <4>2. ks \in Seq(S) /\ nk \in Seq(S)
        BY <2>1, <4>1, Zenon
      <4>3. ks \o nk \in Seq(S)
        BY <4>2
      <4>4. /\ Len(ks \o nk) = Len(ks) + Len(nk)
            /\ \A k \in 1..Len(ks) : (ks \o nk)[k] = ks[k]
            /\ \A i \in 1..Len(nk) : (ks \o nk)[Len(ks) + i] = nk[i]
        BY <4>2
      <4> QED
        BY <4>1, <4>3, <4>4, Zenon
    <3> QED
      BY <2>1, <3>1, Zenon
<1>10. ASSUME NEW k \in 1..(m + Len(cols)), k \notin 1..m
       PROVE  \E i \in 1..Len(cols) : k = m + i /\ k2[k].u = u /\ k2[k].c = cols[i]
  <2>1. k - m \in 1..Len(cols) /\ k = m + (k - m)
    BY <1>5, <1>7, <1>10
  <2> QED
    BY <1>6, <1>9, <2>1, ZenonT(60)
<1>11. \A row \in ct[u] : \A i \in 1..Len(cols) : cols[i] \in DOMAIN row
  <2>1. \A row \in ct[u] : \A c \in Range(cols) : c \in DOMAIN row
    BY <1>1, <1>4, RowFacts, Zenon
  <2> QED
    BY <1>5, <2>1, Zenon
<1>12. \A k \in 1..Len(k2) : Pos(q, k2[k].u) <= n + 1 /\ \A row \in ct[k2[k].u] : k2[k].c \in DOMAIN row
  <2> SUFFICES ASSUME NEW k \in 1..(m + Len(cols))
               PROVE  Pos(q, k2[k].u) <= n + 1 /\ \A row \in ct[k2[k].u] : k2[k].c \in DOMAIN row
    BY <1>9, Zenon
  <2>1. CASE k \in 1..m
    <3>1. k2[k] = ks[k]
      BY <1>9, <2>1, Zenon
    <3>2. Pos(q, ks[k].u) \in Nat /\ Pos(q, ks[k].u) <= n /\ \A row \in ct[ks[k].u] : ks[k].c \in DOMAIN row
      BY <1>7, <1>8, <2>1, Zenon
    <3> QED
      BY <3>1, <3>2, OneMore, Zenon
  <2>2. CASE k \notin 1..m
    BY <1>3, <1>10, <1>11, <2>2
  <2> QED
    BY <2>1, <2>2, Zenon
<1>13. \A j, k \in 1..Len(k2) :
          j < k => /\ Pos(q, k2[j].u) <= Pos(q, k2[k].u)
                   /\ ~(k2[j].u = k2[k].u /\ k2[j].c = k2[k].c)
  <2> SUFFICES ASSUME NEW j \in 1..(m + Len(cols)), NEW k \in 1..(m + Len(cols)), j < k
               PROVE  /\ Pos(q, k2[j].u) <= Pos(q, k2[k].u)
                      /\ ~(k2[j].u = k2[k].u /\ k2[j].c = k2[k].c)
    BY <1>9, Zenon
  <2>1. CASE k \in 1..m
    <3>1. j \in 1..m
      BY <1>5, <1>7, <2>1
    <3> QED
      BY <1>7, <1>9, <2>1, <3>1
  <2>2. CASE k \notin 1..m /\ j \in 1..m
    <3>1. k2[k].u = u /\ k2[j] = ks[j]
      BY <1>9, <1>10, <2>2, Zenon
    <3>2. Pos(q, ks[j].u) <= n /\ Pos(q, ks[j].u) \in Nat
      BY <1>7, <1>8, <2>2, Zenon
    <3> QED
      BY <1>3, <3>1, <3>2
  <2>3. CASE k \notin 1..m /\ j \notin 1..m
    <3>1. PICK a \in 1..Len(cols) : k = m + a /\ k2[k].u = u /\ k2[k].c = cols[a]
      BY <1>10, <2>3, Zenon
    <3>2. PICK b \in 1..Len(cols) : j = m + b /\ k2[j].u = u /\ k2[j].c = cols[b]
      BY <1>10, <2>3, Zenon
    <3>3. a # b
      BY <1>5, <1>7, <3>1, <3>2
    <3> QED
      BY <1>3, <1>5, <3>1, <3>2, <3>3
  <2> QED
    BY <2>1, <2>2, <2>3, Zenon
<1>14. ASSUME NEW w \in Range(q.from), Pos(q, w) <= n + 1, NEW c \in Range(q.keys[w])
       PROVE  \E k \in 1..Len(k2) : k2[k].u = w /\ k2[k].c = c
  <2>1. CASE Pos(q, w) <= n
    <3>1. PICK k \in 1..m : ks[k].u = w /\ ks[k].c = c
      BY <1>7, <1>14, <2>1, ZenonT(60)
    <3> QED
      BY <1>5, <1>7, <1>9, <3>1
  <2>2. CASE ~(Pos(q, w) <= n)
    <3>1. Pos(q, w) \in Nat /\ q.from[Pos(q, w)] = w
      BY <1>2, PosFacts
    <3>2. w = u
      BY <1>1, <1>14, <2>2, <3>1, OneMore, Zenon
    <3>3. PICK i \in 1..Len(cols) : c = cols[i]
      BY <1>1, <1>5, <1>14, <3>2
    <3> QED
      <4>1. m + i \in 1..Len(k2) /\ k2[m + i].u = w /\ k2[m + i].c = c
        BY <1>5, <1>6, <1>7, <1>9, <3>2, <3>3, SMTT(60)
      <4> QED
        BY <4>1, Zenon
  <2> QED
    BY <2>1, <2>2, Zenon
<1>15. ListedIn(q, ct, k2, n + 1)
  BY <1>9, <1>12, <1>13, <1>14, Zenon DEF ListedIn
<1> QED
  BY <1>1, <1>15, Zenon

\* What fixing a key keeps
LEMMA ListSame ==
    ASSUME NEW q, NEW ct, NEW n, NEW ks, ListedIn(q, ct, ks, n),
           NEW k2 \in Seq(KeyType(q)), Len(k2) = Len(ks),
           \A k \in 1..Len(ks) : k2[k].u = ks[k].u /\ k2[k].c = ks[k].c
    PROVE  ListedIn(q, ct, k2, n)
<1>1. PICK m : m = Len(ks)
  BY Zenon
<1>2. m = Len(k2) /\ \A k \in 1..m : k2[k].u = ks[k].u /\ k2[k].c = ks[k].c
  BY <1>1, Zenon
<1>3. \A k \in 1..m : Pos(q, k2[k].u) <= n /\ \A row \in ct[k2[k].u] : k2[k].c \in DOMAIN row
  BY <1>1, <1>2, Zenon DEF ListedIn
<1>4. \A j, k \in 1..m :
          j < k => /\ Pos(q, k2[j].u) <= Pos(q, k2[k].u)
                   /\ ~(k2[j].u = k2[k].u /\ k2[j].c = k2[k].c)
  <2> SUFFICES ASSUME NEW j \in 1..m, NEW k \in 1..m, j < k
               PROVE  Pos(q, k2[j].u) <= Pos(q, k2[k].u) /\ ~(k2[j].u = k2[k].u /\ k2[j].c = k2[k].c)
    BY Zenon
  <2>1. Pos(q, ks[j].u) <= Pos(q, ks[k].u) /\ ~(ks[j].u = ks[k].u /\ ks[j].c = ks[k].c)
    BY <1>1, ZenonT(60) DEF ListedIn
  <2> QED
    BY <1>2, <2>1, Zenon
<1>5. \A u \in Range(q.from) : Pos(q, u) <= n =>
          \A c \in Range(q.keys[u]) : \E k \in 1..m : k2[k].u = u /\ k2[k].c = c
  BY <1>1, <1>2 DEF ListedIn
<1> QED
  <2>1. k2 \in Seq(KeyType(q))
    BY Zenon
  <2> QED
    BY ONLY <1>2, <1>3, <1>4, <1>5, <2>1, ZenonT(60) DEF ListedIn

LEMMA KeyFacts ==
    ASSUME NEW q, IsQuery(q), NEW ct, NEW n, NEW ks, ListedIn(q, ct, ks, n)
    PROVE  /\ ks \in Seq(KeyType(q)) /\ Len(ks) \in Nat /\ DOMAIN ks = 1..Len(ks)
           /\ \A k \in 1..Len(ks) : /\ ks[k] \in KeyType(q) /\ ks[k].u \in Range(q.from)
                                    /\ Pos(q, ks[k].u) \in 1..Len(q.from)
<1>1. ks \in Seq(KeyType(q))
  BY Zenon DEF ListedIn
<1>2. Len(ks) \in Nat /\ DOMAIN ks = 1..Len(ks) /\ \A k \in 1..Len(ks) : ks[k] \in KeyType(q)
  BY <1>1
<1>3. \A k \in 1..Len(ks) : ks[k].u \in Range(q.from)
  BY <1>2, Zenon DEF KeyType
<1> QED
  BY <1>1, <1>2, <1>3, PosFacts, Zenon

\* The last position of the keys of a table
Top(ks, u) ==
    LET at == {i \in DOMAIN ks : ks[i].u = u}
    IN IF at = {} THEN 0 ELSE CHOOSE i \in at : \A j \in at : j <= i

LEMMA TopFacts ==
    ASSUME NEW ks, NEW m \in Nat, DOMAIN ks = 1..m, NEW u
    PROVE  /\ Top(ks, u) \in 0..m
           /\ Top(ks, u) = 0 <=> \A k \in 1..m : ks[k].u # u
           /\ Top(ks, u) # 0 => ks[Top(ks, u)].u = u
           /\ \A k \in 1..m : ks[k].u = u => k <= Top(ks, u)
<1> DEFINE at == {i \in 1..m : ks[i].u = u}
<1>1. Top(ks, u) = IF at = {} THEN 0 ELSE CHOOSE i \in at : \A j \in at : j <= i
  <2> DEFINE all == {i \in DOMAIN ks : ks[i].u = u}
  <2>1. all = at
    BY Zenon
  <2>2. Top(ks, u) = IF all = {} THEN 0 ELSE CHOOSE i \in all : \A j \in all : j <= i
    BY Zenon DEF Top
  <2> HIDE DEF all, at
  <2> QED
    BY <2>1, <2>2, Zenon
<1>2. at \in SUBSET (1..m) /\ \A k \in 1..m : k \in at <=> ks[k].u = u
  BY Zenon
<1> HIDE DEF at
<1>3. CASE at = {}
  BY <1>1, <1>2, <1>3
<1>4. CASE at # {}
  <2>1. \E i \in at : \A j \in at : j <= i
    BY <1>2, <1>4, GreatestNat, Zenon
  <2>2. Top(ks, u) \in at /\ \A j \in at : j <= Top(ks, u)
    BY <1>1, <1>4, <2>1, Zenon
  <2>3. Top(ks, u) \in 1..m /\ ks[Top(ks, u)].u = u
    BY <1>2, <2>2, Zenon
  <2>4. \A k \in 1..m : ks[k].u = u => k <= Top(ks, u)
    BY <1>2, <2>2, Zenon
  <2> QED
    BY <2>3, <2>4
<1> QED
  BY <1>3, <1>4, Zenon

LEMMA Ranks ==
    ASSUME NEW q, IsQuery(q), NEW ct, NEW ks, ListedIn(q, ct, ks, Len(q.from)),
           NEW rk, rk = [u \in TablesOf(q) |-> Top(ks, u)]
    PROVE  RankedIn(q, rk)
<1>1. PICK m \in Nat : m = Len(ks) /\ DOMAIN ks = 1..m
  BY KeyFacts, Zenon
<1>2. \A k \in 1..m : ks[k].u \in Range(q.from) /\ Pos(q, ks[k].u) \in Nat
  BY <1>1, KeyFacts
<1>3. \A j, k \in 1..m : j < k => Pos(q, ks[j].u) <= Pos(q, ks[k].u)
  BY <1>1, Zenon DEF ListedIn
<1>4. \A u \in Range(q.from) : Pos(q, u) \in Nat /\ Pos(q, u) <= Len(q.from) /\ q.from[Pos(q, u)] = u
  BY PosFacts
<1>5. \A u : /\ Top(ks, u) \in 0..m
             /\ Top(ks, u) = 0 <=> \A k \in 1..m : ks[k].u # u
             /\ Top(ks, u) # 0 => ks[Top(ks, u)].u = u
             /\ \A k \in 1..m : ks[k].u = u => k <= Top(ks, u)
  BY <1>1, TopFacts, Zenon
<1>6. ASSUME NEW u \in Range(q.from)
      PROVE  Top(ks, u) \in 1..m /\ ks[Top(ks, u)].u = u
  <2>1. u \in TablesOf(q)
    BY Zenon DEF TablesOf
  <2>2. \E c \in Range(q.keys[u]) : TRUE
    <3>1. Len(q.keys[u]) \in Nat /\ Len(q.keys[u]) # 0 /\ Range(q.keys[u]) = {q.keys[u][i] : i \in 1..Len(q.keys[u])}
      BY <2>1, TableFacts, Zenon
    <3>2. 1 \in 1..Len(q.keys[u])
      BY <3>1
    <3> QED
      BY <3>1, <3>2, Zenon
  <2>3. \E k \in 1..m : ks[k].u = u
    BY <1>1, <1>4, <2>2, Zenon DEF ListedIn
  <2> QED
    BY <1>5, <2>3
<1>7. ASSUME NEW u \in Range(q.from), NEW v \in Range(q.from), Pos(q, u) < Pos(q, v)
      PROVE  Top(ks, u) < Top(ks, v)
  <2>1. Top(ks, u) \in 1..m /\ Top(ks, v) \in 1..m /\ ks[Top(ks, u)].u = u /\ ks[Top(ks, v)].u = v
    BY <1>6, Zenon
  <2>2. CASE Top(ks, v) < Top(ks, u)
    <3>1. Pos(q, v) <= Pos(q, u)
      BY <1>3, <2>1, <2>2, Zenon
    <3> QED
      BY <1>4, <1>7, <3>1
  <2>3. CASE Top(ks, v) = Top(ks, u)
    <3>1. u = v
      BY <2>1, <2>3, Zenon
    <3> QED
      BY <1>4, <1>7, <3>1
  <2> QED
    BY <2>1, <2>2, <2>3
<1>8. ASSUME NEW u \in Range(q.from), NEW v \in Range(q.from), Top(ks, u) < Top(ks, v)
      PROVE  Pos(q, u) < Pos(q, v)
  <2>1. Pos(q, u) \in Nat /\ Pos(q, v) \in Nat /\ Top(ks, u) \in Nat /\ Top(ks, v) \in Nat
    BY <1>4, <1>6
  <2>2. CASE Pos(q, v) < Pos(q, u)
    <3>1. Top(ks, v) < Top(ks, u)
      BY <1>7, <2>2, Zenon
    <3> QED
      BY <1>8, <2>1, <3>1
  <2>3. CASE Pos(q, v) = Pos(q, u)
    <3>1. u = v
      BY <1>4, <2>3, Zenon
    <3> QED
      BY <1>8, <2>1, <3>1
  <2> QED
    BY <2>1, <2>2, <2>3
<1>9. ASSUME NEW u \in TablesOf(q) PROVE Top(ks, u) = 0 <=> u \in q.outer
  <2>1. CASE u \in Range(q.from)
    <3>1. u \notin q.outer
      BY <2>1, QueryFacts, Zenon
    <3> QED
      BY <1>6, <2>1, <3>1
  <2>2. CASE u \notin Range(q.from)
    <3>1. u \in q.outer
      BY <2>2, Zenon DEF TablesOf
    <3>2. \A k \in 1..m : ks[k].u # u
      BY <1>2, <2>2, Zenon
    <3> QED
      BY <1>5, <3>1, <3>2, Zenon
  <2> QED
    BY <2>1, <2>2, Zenon
<1>10. /\ \A u \in TablesOf(q) : rk[u] = Top(ks, u) /\ Top(ks, u) \in Nat
       /\ rk \in [TablesOf(q) -> Nat]
  <2>1. \A u : Top(ks, u) \in Nat
    BY <1>5
  <2> QED
    BY <2>1, Zenon
<1>11. \A u \in Range(q.from) : u \in TablesOf(q)
  BY Zenon DEF TablesOf
<1>12. \A u \in TablesOf(q) : rk[u] = 0 <=> u \in q.outer
  BY <1>9, <1>10, Zenon
<1>13. \A u, v \in Range(q.from) : rk[u] < rk[v] <=> Pos(q, u) < Pos(q, v)
  <2> SUFFICES ASSUME NEW u \in Range(q.from), NEW v \in Range(q.from)
               PROVE  rk[u] < rk[v] <=> Pos(q, u) < Pos(q, v)
    BY Zenon
  <2>1. rk[u] = Top(ks, u) /\ rk[v] = Top(ks, v)
    BY <1>10, <1>11, Zenon
  <2>2. Top(ks, u) < Top(ks, v) <=> Pos(q, u) < Pos(q, v)
    BY <1>7, <1>8, Zenon
  <2> QED
    BY <2>1, <2>2, Zenon
<1> QED
  BY <1>10, <1>12, <1>13, Zenon DEF RankedIn

\* k2 has the key x and the m keys xs instead of those from first to last.
Replaced(ks, first, last, x, xs, m, k2) ==
    /\ Len(k2) = first + m + (Len(ks) - last)
    /\ \A k \in 1..(first - 1) : k2[k] = ks[k]
    /\ k2[first] = x
    /\ \A i \in 1..m : k2[first + i] = xs[i]
    /\ \A i \in 1..(Len(ks) - last) : k2[first + m + i] = ks[last + i]

Spliced(ks, first, last, x, xs) == (SubSeq(ks, 1, first - 1) \o <<x>>) \o (xs \o SubSeq(ks, last + 1, Len(ks)))

LEMMA Splice ==
    ASSUME NEW S, NEW ks \in Seq(S), NEW x \in S, NEW xs \in Seq(S),
           NEW first \in 1..Len(ks), NEW last \in first..Len(ks),
           NEW k2, k2 = Spliced(ks, first, last, x, xs)
    PROVE  k2 \in Seq(S) /\ Replaced(ks, first, last, x, xs, Len(xs), k2)
<1>1. PICK a, b, d, e : /\ a = SubSeq(ks, 1, first - 1) /\ b = SubSeq(ks, last + 1, Len(ks))
                        /\ d = a \o <<x>> /\ e = xs \o b
  BY Zenon
<1>2. Len(ks) \in Nat
  OBVIOUS
<1>3. /\ a \in Seq(S) /\ Len(a) = first - 1
      /\ \A k \in 1..(first - 1) : a[k] = ks[k]
  BY <1>1, <1>2, SMTT(60)
<1>4. /\ b \in Seq(S) /\ Len(b) = Len(ks) - last
      /\ \A i \in 1..(Len(ks) - last) : b[i] = ks[last + i]
  <2>1. b \in Seq(S) /\ Len(b) = Len(ks) - last
    BY <1>1, <1>2, SMTT(60)
  <2>2. ASSUME NEW i \in 1..(Len(ks) - last) PROVE b[i] = ks[last + i]
    <3>1. SubSeq(ks, last + 1, Len(ks))[i] = ks[(last + 1) + i - 1]
      BY <1>2
    <3>2. (last + 1) + i - 1 = last + i
      BY <1>2
    <3> QED
      BY <1>1, <3>1, <3>2, Zenon
  <2> QED
    BY <2>1, <2>2, Zenon
<1>5. /\ d \in Seq(S) /\ Len(d) = first /\ d[first] = x
      /\ \A k \in 1..(first - 1) : d[k] = ks[k]
  BY <1>1, <1>3
<1>6. Len(xs) \in Nat /\ Len(a) \in Nat /\ Len(b) \in Nat /\ Len(ks) - last \in Nat
  BY <1>2, <1>3, <1>4
<1>7. /\ e \in Seq(S) /\ Len(e) = Len(xs) + Len(b)
      /\ \A i \in 1..Len(xs) : e[i] = xs[i]
      /\ \A i \in 1..Len(b) : e[Len(xs) + i] = b[i]
  <2>1. b \in Seq(S) /\ e = xs \o b
    BY <1>1, <1>4, Zenon
  <2>2. xs \o b \in Seq(S)
    BY <2>1
  <2>3. /\ Len(xs \o b) = Len(xs) + Len(b)
        /\ \A i \in 1..Len(xs) : (xs \o b)[i] = xs[i]
        /\ \A i \in 1..Len(b) : (xs \o b)[Len(xs) + i] = b[i]
    BY <2>1
  <2> QED
    BY <2>1, <2>2, <2>3, Zenon
<1>8. /\ k2 \in Seq(S) /\ Len(k2) = Len(d) + Len(e)
      /\ \A k \in 1..Len(d) : k2[k] = d[k]
      /\ \A i \in 1..Len(e) : k2[Len(d) + i] = e[i]
  <2>1. k2 = d \o e
    BY <1>1, Zenon DEF Spliced
  <2>2. d \in Seq(S) /\ e \in Seq(S)
    BY <1>5, <1>7, Zenon
  <2>3. d \o e \in Seq(S)
    BY <2>2
  <2>4. /\ Len(d \o e) = Len(d) + Len(e)
        /\ \A i \in 1..Len(d) : (d \o e)[i] = d[i]
        /\ \A i \in 1..Len(e) : (d \o e)[Len(d) + i] = e[i]
    BY <2>2
  <2> QED
    BY <2>1, <2>3, <2>4, Zenon
<1>9. ASSUME NEW i \in 1..(Len(ks) - last) PROVE k2[first + Len(xs) + i] = ks[last + i]
  <2>1. i \in 1..Len(b) /\ e[Len(xs) + i] = ks[last + i]
    BY <1>4, <1>7, Zenon
  <2>2. PICK p \in Nat : p = Len(xs) + i
    BY <1>6
  <2>3. p \in 1..Len(e) /\ e[p] = ks[last + i] /\ first + p = first + Len(xs) + i
    BY <1>6, <1>7, <2>1, <2>2, SMTT(60)
  <2> QED
    BY <1>5, <1>8, <2>3, Zenon
<1>10. ASSUME NEW i \in 1..Len(xs) PROVE k2[first + i] = xs[i]
  <2>1. i \in 1..Len(e) /\ e[i] = xs[i]
    BY <1>6, <1>7
  <2> QED
    BY <1>5, <1>8, <2>1, Zenon
<1>11. \A k \in 1..first : k2[k] = d[k]
  BY <1>5, <1>8, Zenon
<1>12. k2[first] = x /\ \A k \in 1..(first - 1) : k2[k] = ks[k]
  <2>1. first \in 1..first /\ \A k \in 1..(first - 1) : k \in 1..first
    OBVIOUS
  <2> QED
    BY <1>5, <1>11, <2>1, Zenon
<1>13. Len(k2) = first + Len(xs) + (Len(ks) - last)
  <2>1. Len(k2) = Len(d) + Len(e) /\ Len(d) = first /\ Len(e) = Len(xs) + Len(b) /\ Len(b) = Len(ks) - last
    BY <1>4, <1>5, <1>7, <1>8, Zenon
  <2>2. first \in Nat /\ last \in Nat
    BY <1>2
  <2> QED
    BY ONLY <1>2, <1>6, <2>1, <2>2
<1> QED
  BY <1>8, <1>9, <1>10, <1>12, <1>13, Zenon DEF Replaced

\* The keys of u are from first to last.
Spans(ks, u, first, last) ==
    /\ first \in 1..Len(ks) /\ ks[first].u = u /\ last \in 1..Len(ks) /\ ks[last].u = u
    /\ \A k \in 1..Len(ks) : ks[k].u = u => first <= k /\ k <= last

\* The keys of a cross reference for a column
IsCross(q, ct, u, x, xs, m) ==
    /\ x.u = u /\ x.c \notin Range(q.keys[u]) /\ \A row \in ct[u] : x.c \in DOMAIN row
    /\ m = Len(q.keys[u])
    /\ \A i \in 1..m : xs[i].u = u /\ xs[i].c = q.keys[u][i]

\* The keys of a table are together.
LEMMA Span ==
    ASSUME NEW q, IsQuery(q), NEW ct, NEW n, NEW ks, ListedIn(q, ct, ks, n), NEW u \in Range(q.from),
           NEW first, NEW last, Spans(ks, u, first, last)
    PROVE  \A k \in 1..Len(ks) : /\ k < first => Pos(q, ks[k].u) < Pos(q, u)
                                 /\ first <= k /\ k <= last => ks[k].u = u
                                 /\ last < k => Pos(q, u) < Pos(q, ks[k].u)
<1>1. PICK m \in Nat : m = Len(ks)
  BY KeyFacts, Zenon
<1>2. \A k \in 1..m : ks[k].u \in Range(q.from) /\ Pos(q, ks[k].u) \in Nat
  BY <1>1, KeyFacts
<1>3. \A j, k \in 1..m : j < k => Pos(q, ks[j].u) <= Pos(q, ks[k].u)
  BY <1>1, Zenon DEF ListedIn
<1>4. \A v \in Range(q.from) : Pos(q, v) \in Nat /\ q.from[Pos(q, v)] = v
  BY PosFacts
<1>8. /\ first \in 1..m /\ ks[first].u = u /\ last \in 1..m /\ ks[last].u = u
      /\ \A k \in 1..m : ks[k].u = u => first <= k /\ k <= last
  BY <1>1, Zenon DEF Spans
<1>5. ASSUME NEW k \in 1..m, k < first PROVE Pos(q, ks[k].u) < Pos(q, u)
  <2>1. ks[k].u # u
    BY <1>5, <1>8
  <2>2. Pos(q, ks[k].u) <= Pos(q, u)
    BY <1>3, <1>5, <1>8, Zenon
  <2> QED
    BY <1>2, <1>4, <2>1, <2>2
<1>6. ASSUME NEW k \in 1..m, last < k PROVE Pos(q, u) < Pos(q, ks[k].u)
  <2>1. ks[k].u # u
    BY <1>6, <1>8
  <2>2. Pos(q, u) <= Pos(q, ks[k].u)
    BY <1>3, <1>6, <1>8, Zenon
  <2> QED
    BY <1>2, <1>4, <2>1, <2>2
<1>7. ASSUME NEW k \in 1..m, first <= k, k <= last PROVE ks[k].u = u
  <2>1. CASE k = first \/ k = last
    BY <1>8, <2>1, Zenon
  <2>2. CASE first < k /\ k < last
    <3>1. Pos(q, u) <= Pos(q, ks[k].u) /\ Pos(q, ks[k].u) <= Pos(q, u)
      BY <1>3, <1>8, <2>2, Zenon
    <3> QED
      BY <1>2, <1>4, <3>1
  <2> QED
    BY <1>7, <1>8, <2>1, <2>2
<1> QED
  BY <1>1, <1>5, <1>6, <1>7, Zenon

\* The new list: x and xs in the place of the keys of u.  A position is before, in or
\* after the place.
LEMMA Places ==
    ASSUME NEW a \in Nat, NEW m \in Nat, NEW r \in Nat, NEW k \in 1..(a + m + r)
    PROVE  \/ k \in 1..(a - 1) \/ k = a \/ (\E i \in 1..m : k = a + i) \/ (\E i \in 1..r : k = a + m + i)
<1>1. CASE k < a
  BY <1>1
<1>2. CASE k = a
  BY <1>2, Zenon
<1>3. CASE a < k /\ k <= a + m
  <2>1. k - a \in 1..m /\ k = a + (k - a)
    BY <1>3
  <2> QED
    BY <2>1, Zenon
<1>4. CASE a + m < k
  <2>1. k - (a + m) \in 1..r /\ k = a + m + (k - (a + m))
    BY <1>4
  <2> QED
    BY <2>1, Zenon
<1> QED
  BY <1>1, <1>2, <1>3, <1>4

LEMMA ListCrossed ==
    ASSUME NEW q, IsQuery(q), NEW ct, Contained(q, ct), NEW n \in Nat, NEW ks, ListedIn(q, ct, ks, n),
           NEW u \in Range(q.from), Pos(q, u) <= n,
           NEW first, NEW last, Spans(ks, u, first, last), NEW x, NEW xs, NEW m,
           IsCross(q, ct, u, x, xs, m),
           NEW k2, k2 \in Seq(KeyType(q)), Replaced(ks, first, last, x, xs, m, k2)
    PROVE  ListedIn(q, ct, k2, n)
<1>0. u \in TablesOf(q)
  BY Zenon DEF TablesOf
<1>1. PICK l \in Nat, r \in Nat : l = Len(ks) /\ r = l - last /\ m \in Nat /\ first \in 1..l /\ last \in 1..l
  <2>1. Len(ks) \in Nat
    BY KeyFacts, Zenon
  <2>2. first \in 1..Len(ks) /\ last \in 1..Len(ks)
    BY Zenon DEF Spans
  <2>3. m \in Nat
    BY <1>0, TableFacts, Zenon DEF IsCross
  <2>4. Len(ks) - last \in Nat
    BY <2>1, <2>2, SMTT(60)
  <2> QED
    BY <2>1, <2>2, <2>3, <2>4, Zenon
<1>2. /\ \A k \in 1..l : ks[k].u \in Range(q.from) /\ Pos(q, ks[k].u) \in Nat /\ Pos(q, ks[k].u) <= n
      /\ \A k \in 1..l : \A row \in ct[ks[k].u] : ks[k].c \in DOMAIN row
  <2>1. \A k \in 1..l : ks[k].u \in Range(q.from) /\ Pos(q, ks[k].u) \in Nat
    BY <1>1, KeyFacts, SMTT(60)
  <2>2. \A k \in 1..l : Pos(q, ks[k].u) <= n /\ \A row \in ct[ks[k].u] : ks[k].c \in DOMAIN row
    BY <1>1, Zenon DEF ListedIn
  <2> QED
    BY <2>1, <2>2, Zenon
<1>3. \A j, k \in 1..l : j < k => /\ Pos(q, ks[j].u) <= Pos(q, ks[k].u)
                                  /\ ~(ks[j].u = ks[k].u /\ ks[j].c = ks[k].c)
  BY <1>1, Zenon DEF ListedIn
<1>4. /\ \A k \in 1..(first - 1) : k \in 1..l /\ k2[k] = ks[k] /\ Pos(q, ks[k].u) < Pos(q, u)
      /\ \A i \in 1..r : last + i \in 1..l /\ k2[first + m + i] = ks[last + i] /\ Pos(q, u) < Pos(q, ks[last + i].u)
  <2>1. \A k \in 1..l : /\ k < first => Pos(q, ks[k].u) < Pos(q, u)
                        /\ last < k => Pos(q, u) < Pos(q, ks[k].u)
    BY <1>1, Span, Zenon
  <2>2. \A k \in 1..(first - 1) : k \in 1..l /\ k < first
    BY <1>1
  <2>3. \A i \in 1..r : last + i \in 1..l /\ last < last + i
    BY <1>1
  <2>4. /\ \A k \in 1..(first - 1) : k2[k] = ks[k]
        /\ \A i \in 1..r : k2[first + m + i] = ks[last + i]
    BY <1>1, Zenon DEF Replaced
  <2> QED
    BY <2>1, <2>2, <2>3, <2>4, Zenon
<1>5. Pos(q, u) \in Nat
  BY PosFacts
<1>6. /\ Range(q.keys[u]) = {q.keys[u][i] : i \in 1..m}
      /\ \A i, j \in 1..m : q.keys[u][i] = q.keys[u][j] => i = j
  <2>1. m = Len(q.keys[u])
    BY Zenon DEF IsCross
  <2>2. /\ Range(q.keys[u]) = {q.keys[u][i] : i \in 1..Len(q.keys[u])}
        /\ \A i, j \in 1..Len(q.keys[u]) : q.keys[u][i] = q.keys[u][j] => i = j
    BY <1>0, TableFacts, Zenon
  <2> QED
    BY <2>1, <2>2, Zenon
<1>7. /\ k2[first].u = u /\ k2[first].c = x.c
      /\ \A i \in 1..m : k2[first + i].u = u /\ k2[first + i].c = q.keys[u][i]
  <2>1. k2[first] = x /\ \A i \in 1..m : k2[first + i] = xs[i]
    BY Zenon DEF Replaced
  <2>2. x.u = u /\ \A i \in 1..m : xs[i].u = u /\ xs[i].c = q.keys[u][i]
    BY Zenon DEF IsCross
  <2> QED
    BY <2>1, <2>2, Zenon
<1>8. Len(k2) = first + m + r
  BY <1>1, Zenon DEF Replaced
<1>9. \A i \in 1..m : q.keys[u][i] \in Range(q.keys[u])
  BY <1>6, Zenon
\* before, in, after
<1> DEFINE Before(k) == k \in 1..(first - 1)
           Within(k) == k = first \/ \E i \in 1..m : k = first + i
           After(k) == \E i \in 1..r : k = first + m + i
<1>16. x.c \notin Range(q.keys[u]) /\ \A row \in ct[u] : x.c \in DOMAIN row
  BY Zenon DEF IsCross
<1>10. \A k \in 1..Len(k2) : Before(k) \/ Within(k) \/ After(k)
  <2>1. first \in Nat
    BY <1>1
  <2> QED
    BY <1>1, <1>8, <2>1, Places
<1>11. /\ \A k : Before(k) => Pos(q, k2[k].u) < Pos(q, u) /\ Pos(q, k2[k].u) \in Nat
       /\ \A k : Within(k) => k2[k].u = u
       /\ \A k : After(k) => Pos(q, u) < Pos(q, k2[k].u) /\ Pos(q, k2[k].u) \in Nat /\ Pos(q, k2[k].u) <= n
  BY <1>2, <1>4, <1>7, ZenonT(60)
<1>12. ASSUME NEW k \in 1..Len(k2)
       PROVE  Pos(q, k2[k].u) <= n /\ \A row \in ct[k2[k].u] : k2[k].c \in DOMAIN row
  <2>1. CASE Before(k)
    BY <1>2, <1>4, <2>1, Zenon
  <2>2. CASE k = first
    BY <1>7, <1>16, <2>2, Zenon
  <2>3. CASE \E i \in 1..m : k = first + i
    <3>1. \A row \in ct[u] : \A c \in Range(q.keys[u]) : c \in DOMAIN row
      BY <1>0, RowFacts, Zenon
    <3> QED
      BY <1>7, <1>9, <2>3, <3>1, ZenonT(60)
  <2>4. CASE After(k)
    BY <1>2, <1>4, <2>4, Zenon
  <2> QED
    BY <1>10, <2>1, <2>2, <2>3, <2>4, Zenon
<1>13. ASSUME NEW j \in 1..Len(k2), NEW k \in 1..Len(k2), j < k
       PROVE  Pos(q, k2[j].u) <= Pos(q, k2[k].u) /\ ~(k2[j].u = k2[k].u /\ k2[j].c = k2[k].c)
  <2>1. CASE Before(j) /\ Before(k)
    BY <1>3, <1>4, <1>13, <2>1
  <2>2. CASE Before(j) /\ (Within(k) \/ After(k))
    <3> HIDE DEF Before, Within, After
    <3> QED
      BY <1>5, <1>11, <2>2, SMTT(60)
  <2>3. CASE Within(j) /\ After(k)
    <3> HIDE DEF Before, Within, After
    <3> QED
      BY <1>5, <1>11, <2>3
  <2>4. CASE Within(j) /\ Within(k)
    <3>1. k2[j].u = u /\ k2[k].u = u
      BY <1>7, <2>4, Zenon
    <3>2. k2[j].c # k2[k].c
      <4>1. CASE j = first
        <5>1. PICK i \in 1..m : k = first + i
          BY <1>13, <2>4, <4>1, SMTT(60)
        <5> QED
          BY <1>7, <1>9, <1>16, <4>1, <5>1, Zenon
      <4>2. CASE k = first
        <5>1. PICK i \in 1..m : j = first + i
          BY <1>13, <2>4, <4>2, SMTT(60)
        <5> QED
          BY <1>7, <1>9, <1>16, <4>2, <5>1, Zenon
      <4>3. CASE j # first /\ k # first
        <5>1. PICK i \in 1..m, p \in 1..m : j = first + i /\ k = first + p
          BY <2>4, <4>3, Zenon
        <5>2. i # p
          BY <1>13, <5>1
        <5> QED
          BY <1>6, <1>7, <5>1, <5>2, ZenonT(60)
      <4> QED
        BY <4>1, <4>2, <4>3, Zenon
    <3> QED
      BY <1>5, <3>1, <3>2, SMTT(60)
  <2>5. CASE After(j) /\ After(k)
    <3>1. PICK i \in 1..r, p \in 1..r : j = first + m + i /\ k = first + m + p
      BY <2>5, Zenon
    <3>2. last + i < last + p
      BY <1>1, <1>13, <3>1
    <3> QED
      BY <1>3, <1>4, <3>1, <3>2, SMTT(60)
  <2>6. (Within(j) => ~Before(k)) /\ (After(j) => ~Before(k) /\ ~Within(k))
    BY <1>1, <1>13, SMTT(60)
  <2> HIDE DEF Before, Within, After
  <2> QED
    BY <1>10, <2>1, <2>2, <2>3, <2>4, <2>5, <2>6, Zenon
<1>14. ASSUME NEW v \in Range(q.from), Pos(q, v) <= n, NEW c \in Range(q.keys[v])
       PROVE  \E k \in 1..Len(k2) : k2[k].u = v /\ k2[k].c = c
  <2>1. CASE v = u
    <3>1. PICK i \in 1..m : c = q.keys[u][i]
      BY <1>6, <1>14, <2>1, Zenon
    <3>2. first + i \in 1..Len(k2)
      BY <1>1, <1>8, SMTT(60)
    <3> QED
      BY <1>7, <2>1, <3>1, <3>2, Zenon
  <2>2. CASE v # u
    <3>1. PICK k \in 1..l : ks[k].u = v /\ ks[k].c = c
      BY <1>1, <1>14, ZenonT(60) DEF ListedIn
    <3>2. k < first \/ last < k
      <4>1. \A p \in 1..l : first <= p /\ p <= last => ks[p].u = u
        BY <1>1, Span, SMTT(60)
      <4> QED
        BY <1>1, <2>2, <3>1, <4>1, SMTT(60)
    <3>3. CASE k < first
      <4>1. k \in 1..(first - 1) /\ k \in 1..Len(k2)
        BY <1>1, <1>8, <3>3, SMTT(60)
      <4> QED
        BY <1>4, <3>1, <4>1, Zenon
    <3>4. CASE last < k
      <4>1. PICK i \in 1..r : k = last + i
        <5>1. k - last \in 1..r /\ k = last + (k - last)
          BY <1>1, <3>4, SMTT(60)
        <5> QED
          BY <5>1, Zenon
      <4>2. first + m + i \in 1..Len(k2)
        BY <1>1, <1>8, SMTT(60)
      <4> QED
        BY <1>4, <3>1, <4>1, <4>2, Zenon
    <3> QED
      BY <3>2, <3>3, <3>4, Zenon
  <2> QED
    BY <2>1, <2>2, Zenon
<1> QED
  BY <1>12, <1>13, <1>14, Zenon DEF ListedIn

\* Every key of k2 is a key of ks of another table than u, or x, or one of xs
Traced(ks, u, x, xs, m, k2) ==
    \A k \in 1..Len(k2) : \/ \E j \in 1..Len(ks) : k2[k] = ks[j] /\ ks[j].u # u
                          \/ k2[k] = x
                          \/ \E i \in 1..m : k2[k] = xs[i]

LEMMA ReplacedKeys ==
    ASSUME NEW q, IsQuery(q), NEW ct, NEW n, NEW ks, ListedIn(q, ct, ks, n), NEW u \in Range(q.from),
           NEW first, NEW last, Spans(ks, u, first, last), NEW x, NEW xs, NEW m \in Nat,
           NEW k2, Replaced(ks, first, last, x, xs, m, k2)
    PROVE  Traced(ks, u, x, xs, m, k2)
<1>1. PICK l \in Nat, r \in Nat : l = Len(ks) /\ r = l - last /\ first \in 1..l /\ last \in 1..l
  <2>1. Len(ks) \in Nat
    BY KeyFacts, Zenon
  <2>2. first \in 1..Len(ks) /\ last \in 1..Len(ks)
    BY Zenon DEF Spans
  <2>3. Len(ks) - last \in Nat
    BY <2>1, <2>2
  <2> QED
    BY <2>1, <2>2, <2>3, Zenon
<1>2. \A k \in 1..l : k < first \/ last < k => ks[k].u # u
  BY <1>1 DEF Spans
<1>3. Len(k2) = first + m + r
  BY <1>1, Zenon DEF Replaced
<1>4. /\ \A k \in 1..(first - 1) : k2[k] = ks[k]
      /\ k2[first] = x
      /\ \A i \in 1..m : k2[first + i] = xs[i]
      /\ \A i \in 1..r : k2[first + m + i] = ks[last + i]
  BY <1>1, Zenon DEF Replaced
<1> SUFFICES ASSUME NEW k \in 1..(first + m + r)
             PROVE  \/ \E j \in 1..l : k2[k] = ks[j] /\ ks[j].u # u
                    \/ k2[k] = x
                    \/ \E i \in 1..m : k2[k] = xs[i]
  BY <1>1, <1>3, Zenon DEF Traced
<1>5. CASE k \in 1..(first - 1)
  BY <1>1, <1>2, <1>4, <1>5, SMTT(60)
<1>6. CASE k = first \/ \E i \in 1..m : k = first + i
  BY <1>4, <1>6, Zenon
<1>7. CASE \E i \in 1..r : k = first + m + i
  <2>1. PICK i \in 1..r : k = first + m + i
    BY <1>7, Zenon
  <2>2. last + i \in 1..l /\ last < last + i
    BY <1>1
  <2> QED
    BY <1>2, <1>4, <2>1, <2>2, Zenon
<1>8. first \in Nat
  BY <1>1
<1> QED
  BY <1>5, <1>6, <1>7, <1>8, Places

-----------------------------------------------------------------------------
(* The conjunct that is looked at.                                         *)

\* It is on the conjunct.
OnConjunct(wh, a, b) ==
    \E n \in DOMAIN wh : (wh[n][1] = a /\ wh[n][2] = b) \/ (wh[n][2] = a /\ wh[n][1] = b)

LEMMA ConjunctFacts ==
    ASSUME NEW q, IsQuery(q), NEW wh \in Seq(q.conditions), NEW n \in DOMAIN wh
    PROVE  wh[n] \in q.conditions /\ wh[n][1] \in OperandsOf(q) /\ wh[n][2] \in OperandsOf(q)
<1>1. wh[n] \in q.conditions
  BY SMTT(60)
<1> QED
  BY <1>1 DEF OperandsOf

\* Of two columns, the one that is fixed is the one of the later table.
LEMMA SidesFacts ==
    ASSUME NEW q, IsQuery(q), NEW ct, Contained(q, ct), RankedIn(q, rank),
           NEW l \in OperandsOf(q), NEW r \in OperandsOf(q), NEW s \in Sides(l, r), IsColumn(s[1]) => s[1].u \in Range(q.from)
    PROVE  /\ s = <<l, r>> \/ s = <<r, l>>
           /\ IsColumn(s[1])
           /\ IsColumn(s[2]) => \/ s[2].u \in q.outer
                                \/ Pos(q, s[2].u) < Pos(q, s[1].u)
                                \/ s[2].u = s[1].u
<1>1. /\ \A u \in TablesOf(q) : rank[u] \in Nat /\ (rank[u] = 0 <=> u \in q.outer)
      /\ \A u, v \in Range(q.from) : rank[u] < rank[v] <=> Pos(q, u) < Pos(q, v)
  BY Zenon DEF RankedIn
<1>2. (IsColumn(l) => l.u \in TablesOf(q)) /\ (IsColumn(r) => r.u \in TablesOf(q))
  BY OperandFacts, Zenon DEF IsOperand, Readable
<1>3. \A u \in TablesOf(q) : u \notin q.outer => u \in Range(q.from)
  BY Zenon DEF TablesOf
<1>4. \A u, v \in Range(q.from) : Pos(q, u) \in Nat /\ Pos(q, v) \in Nat /\ (Pos(q, u) = Pos(q, v) => u = v)
  <2>1. \A u \in Range(q.from) : Pos(q, u) \in Nat /\ q.from[Pos(q, u)] = u
    BY PosFacts, SMTT(60)
  <2> QED
    BY <2>1, Zenon
<1>5. \A u \in Range(q.from) : u \in TablesOf(q) /\ u \notin q.outer
  BY QueryFacts, Zenon DEF TablesOf
<1>6. CASE IsColumn(l) /\ IsColumn(r)
  <2>1. \/ s = <<r, l>> /\ (rank[r.u] = 0 \/ rank[l.u] < rank[r.u])
        \/ s = <<l, r>> /\ ~(rank[r.u] = 0 \/ rank[l.u] < rank[r.u])
    BY <1>6, Zenon DEF Sides
  <2>2. CASE s = <<r, l>> /\ (rank[r.u] = 0 \/ rank[l.u] < rank[r.u])
    <3>1. s[1] = r /\ s[2] = l
      BY <2>2, Zenon
    <3>2. r.u \in Range(q.from) /\ rank[r.u] # 0
      BY <1>1, <1>5, <1>6, <3>1, Zenon
    <3> QED
      BY <1>1, <1>2, <1>3, <1>6, <2>2, <3>1, <3>2, Zenon
  <2>3. CASE s = <<l, r>> /\ ~(rank[r.u] = 0 \/ rank[l.u] < rank[r.u])
    <3>1. s[1] = l /\ s[2] = r
      BY <2>3, Zenon
    <3>2. l.u \in Range(q.from) /\ r.u \in Range(q.from)
      BY <1>1, <1>2, <1>3, <1>6, <2>3, <3>1, Zenon
    <3>3. ~(Pos(q, l.u) < Pos(q, r.u))
      BY <1>1, <2>3, <3>2, Zenon
    <3>4. Pos(q, r.u) < Pos(q, l.u) \/ r.u = l.u
      BY <1>4, <3>2, <3>3, SMTT(60)
    <3> QED
      BY <1>6, <2>3, <3>1, <3>4, Zenon
  <2> QED
    BY <2>1, <2>2, <2>3, Zenon
<1>7. CASE ~(IsColumn(l) /\ IsColumn(r))
  <2>1. s \in {<<l, r>>, <<r, l>>} /\ IsColumn(s[1])
    BY <1>7, Zenon DEF Sides
  <2>2. (s[1] = l /\ s[2] = r) \/ (s[1] = r /\ s[2] = l)
    <3>1. CASE s = <<l, r>>
      BY <3>1, Zenon
    <3>2. CASE s = <<r, l>>
      BY <3>2, Zenon
    <3> QED
      BY <2>1, <3>1, <3>2, Zenon
  <2> QED
    BY <1>7, <2>1, <2>2, Zenon
<1> QED
  BY <1>6, <1>7, Zenon

LEMMA FixFacts ==
    ASSUME KeysInv, phase = "optimize", next <= Len(where), NEW s \in Fixes,
           NEW q, q = Queries[query], IsColumn(s[1]) => s[1].u \in Range(q.from)
    PROVE  /\ s[1] \in OperandsOf(q) /\ s[2] \in OperandsOf(q)
           /\ IsColumn(s[1]) /\ s[1] = Column(s[1].u, s[1].c) /\ s[1].u \in Range(q.from) /\ s[1].c \in STRING
           /\ OnConjunct(where, s[1], s[2])
           /\ IsColumn(s[2]) => \/ s[2].u \in q.outer
                                \/ Pos(q, s[2].u) < Pos(q, s[1].u)
                                \/ s[2].u = s[1].u /\ KeyIndex(s[1]) # 0 /\ KeyIndex(s[2]) # 0
<1>1. /\ IsQuery(q) /\ Contained(q, content) /\ where \in Seq(q.conditions) /\ next \in Nat \ {0}
      /\ RankedIn(q, rank)
  BY QueriesAssumption, Zenon DEF KeysInv, Given
<1>2. next \in DOMAIN where
  BY <1>1
<1>3. PICK l, r : l = where[next][1] /\ r = where[next][2]
  BY Zenon
<1>4. l \in OperandsOf(q) /\ r \in OperandsOf(q)
  BY <1>1, <1>2, <1>3, ConjunctFacts, Zenon
<1>5. ValidForKeyFix(l, r) /\ s \in Sides(l, r)
  BY <1>3, Zenon DEF Fixes
<1>6. /\ s = <<l, r>> \/ s = <<r, l>>
      /\ IsColumn(s[1])
      /\ IsColumn(s[2]) => s[2].u \in q.outer \/ Pos(q, s[2].u) < Pos(q, s[1].u) \/ s[2].u = s[1].u
  BY <1>1, <1>4, <1>5, SidesFacts
<1>7. (s[1] = l /\ s[2] = r) \/ (s[1] = r /\ s[2] = l)
  <2>1. CASE s = <<l, r>>
    BY <2>1, Zenon
  <2>2. CASE s = <<r, l>>
    BY <2>2, Zenon
  <2> QED
    BY <1>6, <2>1, <2>2, Zenon
<1>8. s[1] = Column(s[1].u, s[1].c) /\ s[1].c \in STRING
  BY <1>1, <1>4, <1>6, <1>7, OperandFacts, Zenon DEF IsOperand, Readable
<1>9. OnConjunct(where, s[1], s[2])
  BY <1>2, <1>3, <1>7, Zenon DEF OnConjunct
<1>10. IsColumn(s[2]) /\ s[2].u = s[1].u => KeyIndex(s[1]) # 0 /\ KeyIndex(s[2]) # 0
  BY <1>5, <1>6, <1>7, Zenon DEF ValidForKeyFix
<1> QED
  BY <1>4, <1>6, <1>7, <1>8, <1>9, <1>10, Zenon

\* A conjunct is a condition of the query.
LEMMA OnCondition ==
    ASSUME NEW q, IsQuery(q), NEW wh \in Seq(q.conditions), NEW a, NEW b, OnConjunct(wh, a, b)
    PROVE  \E p \in q.conditions : (p[1] = a /\ p[2] = b) \/ (p[2] = a /\ p[1] = b)
<1>1. PICK n \in DOMAIN wh : (wh[n][1] = a /\ wh[n][2] = b) \/ (wh[n][2] = a /\ wh[n][1] = b)
  BY Zenon DEF OnConjunct
<1>2. wh[n] \in q.conditions
  BY ConjunctFacts, Zenon
<1> QED
  BY <1>1, <1>2, Zenon

\* KeysApart: the two columns are not both keys.
LEMMA Apart ==
    ASSUME KeysApart, query \in DOMAIN Queries, NEW q, q = Queries[query], IsQuery(q),
           NEW wh \in Seq(q.conditions), NEW a, NEW b, OnConjunct(wh, a, b),
           IsColumn(a), IsColumn(b), a.u = b.u
    PROVE  a.c \notin Range(q.keys[a.u]) \/ b.c \notin Range(q.keys[a.u])
<1>1. PICK p \in q.conditions : (p[1] = a /\ p[2] = b) \/ (p[2] = a /\ p[1] = b)
  BY OnCondition, SMTT(60)
<1>2. IsColumn(p[1]) /\ IsColumn(p[2]) /\ p[1].u = p[2].u =>
          p[1].c \notin Range(q.keys[p[1].u]) \/ p[2].c \notin Range(q.keys[p[1].u])
  BY Zenon DEF KeysApart
<1> QED
  BY <1>1, <1>2, Zenon

LEMMA FixKeyStep ==
    ASSUME KeysInv, FixKey, query' = query, NEW q, q = Queries[query]
    PROVE  /\ KeysInv'
           /\ KeysApart /\ SequencedIn(q, keys) => SequencedIn(q, keys')
<1>1. /\ query \in DOMAIN Queries /\ IsQuery(q) /\ Contained(q, content)
      /\ where \in Seq(q.conditions) /\ next \in Nat \ {0}
      /\ ListedIn(q, content, keys, Len(q.from)) /\ RankedIn(q, rank)
      /\ FoundedIn(where, keys) /\ CrossedIn(q, keys, replaced)
  BY QueriesAssumption, Zenon DEF FixKey, KeysInv, Given, Tabled, From
<1>2. /\ phase = "optimize" /\ next <= Len(where) /\ next' = next + 1
      /\ content' = content /\ where' = where /\ phase' = phase /\ rank' = rank /\ replaced' = replaced
  BY Zenon DEF FixKey
<1>3. PICK s \in Fixes : LET i == KeyIndex(s[1]) IN
          /\ i # 0 /\ keys[i].value = None /\ keys[i].xref = None
          /\ keys' = [keys EXCEPT ![i].value = s[2]]
  BY Zenon DEF FixKey
<1>4. PICK i : i = KeyIndex(s[1])
  BY Zenon
<1>5. i # 0 /\ keys[i].value = None /\ keys[i].xref = None /\ keys' = [keys EXCEPT ![i].value = s[2]]
  BY <1>3, <1>4, Zenon
<1>6. keys \in Seq(KeyType(q)) /\ Len(keys) \in Nat /\ \A k \in 1..Len(keys) : keys[k] \in KeyType(q)
  BY <1>1, KeyFacts, Zenon
<1>7. i \in 1..Len(keys) /\ keys[i].u = s[1].u /\ keys[i].c = s[1].c
  BY <1>4, <1>5, <1>6, KeyIndexFacts, Zenon
<1>8. keys[i].u \in Range(q.from)
  BY <1>1, <1>7, KeyFacts, Zenon
<1>9. /\ s[1] \in OperandsOf(q) /\ s[2] \in OperandsOf(q)
      /\ IsColumn(s[1]) /\ s[1] = Column(s[1].u, s[1].c)
      /\ OnConjunct(where, s[1], s[2])
      /\ IsColumn(s[2]) => \/ s[2].u \in q.outer
                           \/ Pos(q, s[2].u) < Pos(q, s[1].u)
                           \/ s[2].u = s[1].u /\ KeyIndex(s[1]) # 0 /\ KeyIndex(s[2]) # 0
  BY <1>2, <1>7, <1>8, FixFacts, Zenon
<1>10. PICK k2 : k2 = keys'
  BY Zenon
<1>11. PICK l \in Nat : l = Len(keys)
  BY <1>6, Zenon
<1>12. /\ k2 \in Seq(KeyType(q)) /\ Len(k2) = l
       /\ k2[i] = [keys[i] EXCEPT !.value = s[2]]
       /\ \A k \in 1..l : k # i => k2[k] = keys[k]
  <2>1. keys \in [1..l -> KeyType(q)]
    BY <1>6, <1>11
  <2>2. [keys[i] EXCEPT !.value = s[2]] \in KeyType(q)
    <3>1. keys[i] \in KeyType(q)
      BY <1>6, <1>7, Zenon
    <3> QED
      BY <1>9, <3>1, Zenon DEF KeyType
  <2>3. k2 = [keys EXCEPT ![i] = [keys[i] EXCEPT !.value = s[2]]]
    BY <1>5, <1>10, Zenon
  <2>4. PICK S, new : S = KeyType(q) /\ new = [keys[i] EXCEPT !.value = s[2]]
    BY Zenon
  <2>5. keys \in [1..l -> S] /\ new \in S /\ k2 = [keys EXCEPT ![i] = new] /\ i \in 1..l
    BY <1>7, <1>11, <2>1, <2>2, <2>3, <2>4, Zenon
  <2>6. k2 \in [1..l -> S] /\ k2[i] = new /\ \A k \in 1..l : k # i => k2[k] = keys[k]
    BY <2>5, Zenon
  <2>7. k2 \in Seq(S) /\ Len(k2) = l
    BY <2>6
  <2> QED
    BY <2>4, <2>6, <2>7, Zenon
<1>13. \A k \in 1..l : k2[k].u = keys[k].u /\ k2[k].c = keys[k].c /\ k2[k].xref = keys[k].xref
  <2>1. k2[i].u = keys[i].u /\ k2[i].c = keys[i].c /\ k2[i].xref = keys[i].xref
    <3>1. keys[i] \in KeyType(q)
      BY <1>6, <1>7, Zenon
    <3> QED
      BY <1>12, <3>1, Zenon DEF KeyType
  <2> QED
    BY <1>12, <2>1, Zenon
<1>14. k2[i].value = s[2] /\ s[2] # None
  <2>1. keys[i] \in KeyType(q)
    BY <1>6, <1>7, Zenon
  <2>2. k2[i].value = s[2]
    BY <1>12, <2>1, Zenon DEF KeyType
  <2> QED
    BY <1>1, <1>9, <2>2, OperandFacts, Zenon DEF IsOperand, Readable
<1>15. ListedIn(q, content, k2, Len(q.from))
  BY <1>1, <1>11, <1>12, <1>13, ListSame, ZenonT(60)
<1>16. FoundedIn(where, k2)
  <2> SUFFICES ASSUME NEW k \in 1..l, k2[k].value # None
               PROVE  \E n \in DOMAIN where :
                          \/ where[n][1] = Column(k2[k].u, k2[k].c) /\ where[n][2] = k2[k].value
                          \/ where[n][2] = Column(k2[k].u, k2[k].c) /\ where[n][1] = k2[k].value
    BY <1>12, Zenon DEF FoundedIn
  <2>1. CASE k = i
    <3>1. Column(k2[k].u, k2[k].c) = s[1] /\ k2[k].value = s[2]
      BY <1>7, <1>9, <1>11, <1>13, <1>14, <2>1, Zenon
    <3> QED
      BY <1>9, <3>1, Zenon DEF OnConjunct
  <2>2. CASE k # i
    BY <1>1, <1>11, <1>12, <2>2, SMTT(60) DEF FoundedIn
  <2> QED
    BY <2>1, <2>2, Zenon
<1>17. CrossedIn(q, k2, replaced)
  <2> SUFFICES ASSUME NEW k \in 1..l
               PROVE  /\ k2[k].u \in replaced => k2[k].value # None \/ k2[k].xref # None
                      /\ k2[k].c \notin Range(q.keys[k2[k].u]) => k2[k].u \in replaced
    BY <1>12, Zenon DEF CrossedIn
  <2>1. /\ keys[k].u \in replaced => keys[k].value # None \/ keys[k].xref # None
        /\ keys[k].c \notin Range(q.keys[keys[k].u]) => keys[k].u \in replaced
    BY <1>1, <1>11, Zenon DEF CrossedIn
  <2>2. CASE k = i
    BY <1>13, <1>14, <2>1, <2>2, Zenon
  <2>3. CASE k # i
    BY <1>12, <2>1, <2>3, Zenon
  <2> QED
    BY <2>2, <2>3, Zenon
<1>18. KeysInv'
  <2>1. Given'
    <3>1. next' \in Nat \ {0}
      BY <1>1, <1>2
    <3> QED
      BY <1>1, <1>2, <3>1, Zenon DEF Given
  <2>2. Tabled' = Len(q.from)
    BY <1>2, Zenon DEF Tabled, From
  <2>3. /\ ListedIn(q, content, keys', Len(q.from)) /\ FoundedIn(where, keys')
        /\ CrossedIn(q, keys', replaced)
    BY <1>10, <1>15, <1>16, <1>17, Zenon
  <2> QED
    BY <1>1, <1>2, <2>1, <2>2, <2>3, Zenon DEF KeysInv
<1>19. ASSUME KeysApart, SequencedIn(q, keys) PROVE SequencedIn(q, k2)
  <2> SUFFICES ASSUME NEW k \in 1..l, k2[k].value # None, IsColumn(k2[k].value)
               PROVE  k2[k].value.u \in q.outer \/ Pos(q, k2[k].value.u) < Pos(q, k2[k].u)
    BY <1>12, Zenon DEF SequencedIn
  <2>1. CASE k # i
    BY <1>11, <1>12, <1>19, <2>1, Zenon DEF SequencedIn
  <2>2. CASE k = i
    <3>1. k2[k].value = s[2] /\ k2[k].u = s[1].u
      BY <1>7, <1>11, <1>13, <1>14, <2>2, Zenon
    <3>2. CASE s[2].u = s[1].u /\ KeyIndex(s[1]) # 0 /\ KeyIndex(s[2]) # 0
      <4>1. PICK j \in 1..l : keys[j].u = s[2].u /\ keys[j].c = s[2].c
        BY <1>6, <1>11, <3>2, KeyIndexFacts, Zenon
      <4>2. s[1].c \notin Range(q.keys[s[1].u]) \/ s[2].c \notin Range(q.keys[s[1].u])
        BY <1>1, <1>9, <1>19, <3>1, <3>2, Apart, Zenon
      <4>3. s[1].u \in replaced
        BY <1>1, <1>7, <1>11, <3>2, <4>1, <4>2, Zenon DEF CrossedIn
      <4>4. FALSE
        BY <1>1, <1>5, <1>7, <1>11, <4>3, Zenon DEF CrossedIn
      <4> QED
        BY <4>4, Zenon
    <3> QED
      BY <1>9, <3>1, <3>2, Zenon
  <2> QED
    BY <2>1, <2>2, Zenon
<1> QED
  BY <1>10, <1>18, <1>19, Zenon

\* The first and the last key of a table
FirstOf(u) == FirstKey({i \in 1..Len(keys) : keys[i].u = u})
LastOf(u) == CHOOSE i \in DOMAIN keys : keys[i].u = u /\ \A j \in DOMAIN keys : keys[j].u = u => j <= i

LEMMA SpanOf ==
    ASSUME NEW q, IsQuery(q), NEW n, ListedIn(q, content, keys, n), NEW u \in Range(q.from), Pos(q, u) <= n
    PROVE  Spans(keys, u, FirstOf(u), LastOf(u))
<1>0. PICK first, last : first = FirstOf(u) /\ last = LastOf(u)
  BY Zenon
<1>1. PICK m \in Nat : m = Len(keys) /\ DOMAIN keys = 1..m
  BY KeyFacts, Zenon
<1> DEFINE at == {i \in 1..m : keys[i].u = u}
<1>2. at \in SUBSET (1..m) /\ at \subseteq Nat /\ \A k \in 1..m : k \in at <=> keys[k].u = u
  OBVIOUS
<1>3. at # {}
  <2>1. u \in TablesOf(q)
    BY Zenon DEF TablesOf
  <2>2. \E c \in Range(q.keys[u]) : TRUE
    <3>1. Len(q.keys[u]) \in Nat /\ Len(q.keys[u]) # 0 /\ Range(q.keys[u]) = {q.keys[u][i] : i \in 1..Len(q.keys[u])}
      BY <2>1, TableFacts, Zenon
    <3>2. 1 \in 1..Len(q.keys[u])
      BY <3>1
    <3> QED
      BY <3>1, <3>2, Zenon
  <2>3. \E k \in 1..m : keys[k].u = u
    BY <1>1, <2>2, Zenon DEF ListedIn
  <2> QED
    BY <2>3, Zenon
<1>4. first \in at /\ \A j \in at : first <= j
  <2>1. first = IF at = {} THEN 0 ELSE CHOOSE x \in at : \A y \in at : x <= y
    BY <1>0, <1>1 DEF FirstKey, FirstOf
  <2>2. first = CHOOSE x \in at : \A y \in at : x <= y
    BY <1>3, <2>1, Zenon
  <2> HIDE DEF at
  <2>3. \E x \in at : \A y \in at : x <= y
    BY <1>2, <1>3, LeastNat, Zenon
  <2> QED
    BY <2>2, <2>3, Zenon
<1>5. last \in at /\ \A j \in at : j <= last
  <2>1. \E x \in at : \A y \in at : y <= x
    <3> HIDE DEF at
    <3> QED
      BY <1>2, <1>3, GreatestNat, Zenon
  <2>2. \E i \in DOMAIN keys : keys[i].u = u /\ \A j \in DOMAIN keys : keys[j].u = u => j <= i
    BY <1>1, <2>1, Zenon
  <2>3. last \in DOMAIN keys /\ keys[last].u = u /\ \A j \in DOMAIN keys : keys[j].u = u => j <= last
    BY <1>0, <2>2, Zenon DEF LastOf
  <2> QED
    BY <1>1, <2>3, Zenon
<1> QED
  BY <1>0, <1>1, <1>4, <1>5, Zenon DEF Spans

\* Where other keys follow, KeysLinked says that the cross reference has one key.
LEMMA LinkedFacts ==
    ASSUME NEW S, NEW xs \in Seq(S), NEW rest \in Seq(S), xs # <<>>, rest # <<>> => Len(xs) = 1
    PROVE  Linked(xs, rest) = xs \o rest
<1>1. CASE rest = <<>>
  BY <1>1 DEF Linked
<1>2. CASE rest # <<>>
  <2>1. xs = <<Head(xs)>>
    BY <1>2
  <2>2. Linked(xs, rest) = <<Head(xs)>> \o rest
    BY <1>2, Zenon DEF Linked
  <2> QED
    BY <2>1, <2>2, Zenon
<1> QED
  BY <1>1, <1>2, Zenon

\* The keys that GenerateXrefKeys makes
Crossed(ks, first, last, x, xs) ==
    SubSeq(ks, 1, first - 1) \o <<x>> \o Linked(xs, SubSeq(ks, 1 + last, Len(ks)))

LEMMA GenerateXrefKeysStep ==
    ASSUME KeysLinked, KeysInv, GenerateXrefKeys, query' = query, NEW q, q = Queries[query]
    PROVE  /\ KeysInv'
           /\ SequencedIn(q, keys) => SequencedIn(q, keys')
<1>1. /\ query \in DOMAIN Queries /\ IsQuery(q) /\ Contained(q, content)
      /\ where \in Seq(q.conditions) /\ next \in Nat \ {0}
      /\ ListedIn(q, content, keys, Len(q.from)) /\ RankedIn(q, rank)
      /\ FoundedIn(where, keys) /\ CrossedIn(q, keys, replaced)
  BY QueriesAssumption, Zenon DEF GenerateXrefKeys, KeysInv, Given, Tabled, From
<1>2. /\ phase = "optimize" /\ next <= Len(where) /\ next' = next + 1
      /\ content' = content /\ where' = where /\ phase' = phase /\ rank' = rank
  BY Zenon DEF GenerateXrefKeys
<1>3. PICK s \in Fixes :
          /\ KeyIndex(s[1]) = 0 /\ HasTable(s[1].u) /\ replaced' = replaced \cup {s[1].u}
          /\ keys' = Crossed(keys, FirstOf(s[1].u), LastOf(s[1].u),
                             [Key(s[1].u, s[1].c, None) EXCEPT !.value = s[2]], KeysOf(s[1].u, s[1].c))
  BY Zenon DEF GenerateXrefKeys, FirstOf, LastOf, Crossed
<1>4. PICK u, c, first, last, x, xs, k2 :
          /\ u = s[1].u /\ c = s[1].c /\ first = FirstOf(u) /\ last = LastOf(u)
          /\ x = [Key(u, c, None) EXCEPT !.value = s[2]] /\ xs = KeysOf(u, c) /\ k2 = keys'
  BY Zenon
<1>5. /\ KeyIndex(s[1]) = 0 /\ u \in Range(q.from) /\ u \notin replaced /\ replaced' = replaced \cup {u}
      /\ k2 = Crossed(keys, first, last, x, xs)
  <2>1. HasTable(u) /\ replaced' = replaced \cup {u} /\ k2 = Crossed(keys, first, last, x, xs)
    BY <1>3, <1>4, Zenon
  <2> QED
    BY <1>3, <2>1, Zenon DEF HasTable, From
<1>6. /\ s[1] \in OperandsOf(q) /\ s[2] \in OperandsOf(q)
      /\ IsColumn(s[1]) /\ s[1] = Column(u, c) /\ c \in STRING
      /\ OnConjunct(where, s[1], s[2])
      /\ IsColumn(s[2]) => s[2].u \in q.outer \/ Pos(q, s[2].u) < Pos(q, u)
  BY <1>2, <1>4, <1>5, FixFacts, Zenon
<1>7. Pos(q, u) \in 1..Len(q.from) /\ q.from[Pos(q, u)] = u /\ Len(q.from) \in Nat /\ u \in TablesOf(q)
  BY <1>1, <1>5, PosFacts, QueryFacts, Zenon DEF TablesOf
<1>8. Spans(keys, u, first, last)
  <2>1. Pos(q, u) <= Len(q.from)
    BY <1>7, AtMost, Zenon
  <2> QED
    BY <1>1, <1>4, <1>5, <2>1, SpanOf, Zenon
<1>9. keys \in Seq(KeyType(q)) /\ Len(keys) \in Nat /\ first \in 1..Len(keys) /\ last \in first..Len(keys)
  <2>1. keys \in Seq(KeyType(q)) /\ Len(keys) \in Nat
    BY <1>1, KeyFacts, Zenon
  <2>2. first \in 1..Len(keys) /\ last \in 1..Len(keys) /\ first <= last
    BY <1>8, Zenon DEF Spans
  <2> QED
    BY <2>1, <2>2
<1>10. \A k \in 1..Len(keys) : ~(keys[k].u = u /\ keys[k].c = c)
  <2>1. s[1].u = u /\ s[1].c = c
    BY <1>4, Zenon
  <2> QED
    BY <1>5, <1>9, <2>1, KeyIndexFacts, Zenon
<1>11. c \notin Range(q.keys[u])
  <2>1. Pos(q, u) <= Len(q.from)
    BY <1>7, AtMost, Zenon
  <2>2. \A d \in Range(q.keys[u]) : \E k \in 1..Len(keys) : keys[k].u = u /\ keys[k].c = d
    BY <1>1, <1>5, <2>1, Zenon DEF ListedIn
  <2> QED
    BY <1>10, <2>2, Zenon
<1>12. /\ x \in KeyType(q) /\ x.u = u /\ x.c = c /\ x.value = s[2] /\ x.xref = None
  BY <1>4, <1>5, <1>6, Zenon DEF Key, KeyType
<1>13. xs = Fresh(q, u, c)
  BY <1>4, ZenonT(60) DEF KeysOf, Fresh, KeyColumns
<1>14. PICK m \in Nat : m = Len(q.keys[u]) /\ m # 0
  BY <1>1, <1>7, TableFacts, SMTT(60)
<1>15. /\ xs \in Seq(KeyType(q)) /\ Len(xs) = m
       /\ \A i \in 1..m : xs[i].u = u /\ xs[i].c = q.keys[u][i] /\ xs[i].value = None /\ xs[i].xref = c
  <2>1. c \in STRING \cup {None}
    BY <1>6, Zenon
  <2>2. FreshOf(q, u, c)
    BY <1>1, <1>5, <2>1, FreshFacts, Zenon
  <2>3. /\ Fresh(q, u, c) \in Seq(KeyType(q)) /\ Len(Fresh(q, u, c)) = Len(q.keys[u])
        /\ \A i \in 1..Len(q.keys[u]) :
              /\ Fresh(q, u, c)[i].u = u /\ Fresh(q, u, c)[i].c = q.keys[u][i]
              /\ Fresh(q, u, c)[i].value = None /\ Fresh(q, u, c)[i].xref = c
    BY <2>2, Zenon DEF FreshOf
  <2> QED
    BY <1>13, <1>14, <2>3, Zenon
<1>16. PICK rest : rest = SubSeq(keys, last + 1, Len(keys))
  BY Zenon
<1>17. rest \in Seq(KeyType(q)) /\ Len(rest) = Len(keys) - last
  <2>1. PICK S : S = KeyType(q)
    BY Zenon
  <2>2. keys \in Seq(S)
    BY <1>9, <2>1, Zenon
  <2>3. rest \in Seq(S) /\ Len(rest) = Len(keys) - last
    BY <1>9, <1>16, <2>2
  <2> QED
    BY <2>1, <2>3, Zenon
<1>18. ASSUME rest # <<>> PROVE m = 1
  <2>1. last + 1 \in 1..Len(keys)
    BY <1>9, <1>17, <1>18
  <2>2. Pos(q, u) < Pos(q, keys[last + 1].u)
    <3>1. \A k \in 1..Len(keys) : last < k => Pos(q, u) < Pos(q, keys[k].u)
      BY <1>1, <1>5, <1>8, Span, Zenon
    <3> QED
      BY <1>9, <2>1, <3>1
  <2>3. Pos(q, keys[last + 1].u) \in 1..Len(q.from)
    BY <1>1, <2>1, KeyFacts, Zenon
  <2>4. Pos(q, u) < Len(q.from)
    BY <1>7, <2>2, <2>3, SMTT(60)
  <2>5. u # q.from[Len(q.from)]
    <3>1. Len(q.from) \in 1..Len(q.from)
      BY <1>7
    <3>2. Pos(q, q.from[Len(q.from)]) = Len(q.from)
      BY <1>1, <3>1, PosFacts, Zenon
    <3> QED
      BY <1>7, <2>4, <3>2
  <2>6. \/ u = q.from[Len(q.from)]
        \/ Len(q.keys[u]) = 1
        \/ \A o \in OperandsOf(q) : IsColumn(o) /\ o.u = u => o.c \in Range(q.keys[u])
    BY <1>1, <1>5, Zenon DEF KeysLinked
  <2> QED
    BY <1>4, <1>6, <1>11, <1>14, <2>5, <2>6, Zenon
<1>19. k2 = Spliced(keys, first, last, x, xs)
  <2>1. last + 1 = 1 + last
    BY <1>9
  <2>2. k2 = (SubSeq(keys, 1, first - 1) \o <<x>>) \o Linked(xs, rest)
    BY <1>5, <1>16, <2>1, Zenon DEF Crossed
  <2>3. xs # <<>>
    BY <1>14, <1>15, Zenon
  <2>4. Linked(xs, rest) = xs \o rest
    BY <1>15, <1>17, <1>18, <2>3, LinkedFacts, Zenon
  <2> QED
    BY <1>16, <2>2, <2>4, Zenon DEF Spliced
<1>20. k2 \in Seq(KeyType(q)) /\ Replaced(keys, first, last, x, xs, m, k2)
  <2>1. Len(xs) = m /\ xs \in Seq(KeyType(q))
    BY <1>15, Zenon
  <2>2. k2 \in Seq(KeyType(q)) /\ Replaced(keys, first, last, x, xs, Len(xs), k2)
    BY <1>9, <1>12, <1>19, <2>1, Splice, Zenon
  <2> QED
    BY <2>1, <2>2, Zenon
<1>21. IsCross(q, content, u, x, xs, m)
  <2>1. \A row \in content[u] : c \in DOMAIN row
    BY <1>1, <1>4, <1>6, OperandFacts, Zenon DEF IsOperand, Readable
  <2> QED
    BY <1>11, <1>12, <1>14, <1>15, <2>1, Zenon DEF IsCross
<1>22. ListedIn(q, content, k2, Len(q.from))
  <2>1. Pos(q, u) <= Len(q.from) /\ Len(q.from) \in Nat
    BY <1>7, AtMost, Zenon
  <2> QED
    BY <1>1, <1>5, <1>8, <1>20, <1>21, <2>1, ListCrossed, Zenon
<1>23. \A k \in 1..Len(k2) : \/ \E j \in 1..Len(keys) : k2[k] = keys[j] /\ keys[j].u # u
                             \/ k2[k] = x
                             \/ \E i \in 1..m : k2[k] = xs[i]
  <2>1. Traced(keys, u, x, xs, m, k2)
    BY <1>1, <1>5, <1>8, <1>14, <1>20, ReplacedKeys, Zenon
  <2> QED
    BY <2>1, Zenon DEF Traced
<1>24. s[2] # None /\ c # None
  BY <1>1, <1>6, OperandFacts, QueriesAssumption, Zenon DEF IsOperand, Readable
<1>25. FoundedIn(where, k2)
  <2> SUFFICES ASSUME NEW k \in 1..Len(k2), k2[k].value # None
               PROVE  OnConjunct(where, Column(k2[k].u, k2[k].c), k2[k].value)
    BY Zenon DEF FoundedIn, OnConjunct
  <2>1. CASE k2[k] = x
    BY <1>6, <1>12, <2>1, Zenon
  <2>2. CASE \E j \in 1..Len(keys) : k2[k] = keys[j] /\ keys[j].u # u
    BY <1>1, <2>2, ZenonT(60) DEF FoundedIn, OnConjunct
  <2> QED
    BY <1>15, <1>23, <2>1, <2>2, ZenonT(60)
<1>26. CrossedIn(q, k2, replaced')
  <2> SUFFICES ASSUME NEW k \in 1..Len(k2)
               PROVE  /\ k2[k].u \in replaced \cup {u} => k2[k].value # None \/ k2[k].xref # None
                      /\ k2[k].c \notin Range(q.keys[k2[k].u]) => k2[k].u \in replaced \cup {u}
    BY <1>5, Zenon DEF CrossedIn
  <2>1. CASE k2[k] = x
    BY <1>12, <1>24, <2>1, Zenon
  <2>2. CASE \E j \in 1..Len(keys) : k2[k] = keys[j] /\ keys[j].u # u
    BY <1>1, <2>2, Zenon DEF CrossedIn
  <2>3. CASE \E i \in 1..m : k2[k] = xs[i]
    BY <1>15, <1>24, <2>3, Zenon
  <2> QED
    BY <1>23, <2>1, <2>2, <2>3, Zenon
<1>27. KeysInv'
  <2>1. Given'
    <3>1. next' \in Nat \ {0}
      BY <1>1, <1>2
    <3> QED
      BY <1>1, <1>2, <3>1, Zenon DEF Given
  <2>2. Tabled' = Len(q.from)
    BY <1>2, Zenon DEF Tabled, From
  <2>3. /\ ListedIn(q, content, keys', Len(q.from)) /\ FoundedIn(where, keys')
        /\ CrossedIn(q, keys', replaced')
    BY <1>4, <1>22, <1>25, <1>26, Zenon
  <2> QED
    BY <1>1, <1>2, <2>1, <2>2, <2>3, Zenon DEF KeysInv
<1>28. ASSUME SequencedIn(q, keys) PROVE SequencedIn(q, k2)
  <2> SUFFICES ASSUME NEW k \in 1..Len(k2), k2[k].value # None, IsColumn(k2[k].value)
               PROVE  k2[k].value.u \in q.outer \/ Pos(q, k2[k].value.u) < Pos(q, k2[k].u)
    BY Zenon DEF SequencedIn
  <2>1. CASE k2[k] = x
    BY <1>6, <1>12, <2>1, Zenon
  <2>2. CASE \E j \in 1..Len(keys) : k2[k] = keys[j] /\ keys[j].u # u
    BY <1>28, <2>2, Zenon DEF SequencedIn
  <2> QED
    BY <1>15, <1>23, <2>1, <2>2, ZenonT(60)
<1> QED
  BY <1>4, <1>27, <1>28, Zenon

LEMMA KeysInit ==
    ASSUME Init, NEW q, q = Queries[query]
    PROVE  KeysInv /\ SequencedIn(q, keys)
<1>1. query \in DOMAIN Queries /\ where = <<>> /\ phase = "parse" /\ next = 1 /\ keys = <<>> /\ replaced = {}
  BY Zenon DEF Init
<1>2. Contained(q, content)
  BY Zenon DEF Init, Contained, Tables, TablesOf, From, Outer, Contents
<1>3. IsQuery(q)
  BY <1>1, QueriesAssumption, Zenon
<1>4. Given
  BY <1>1, <1>2 DEF Given
<1>5. ListedIn(q, content, keys, 0)
  <2>1. \A u \in Range(q.from) : ~(Pos(q, u) <= 0)
    BY <1>3, PosFacts
  <2>2. keys \in Seq(KeyType(q)) /\ Len(keys) = 0 /\ 1..0 = {}
    BY <1>1
  <2> QED
    BY <2>1, <2>2, Zenon DEF ListedIn
<1>6. Tabled = 0 /\ 1..Len(keys) = {}
  BY <1>1 DEF Tabled
<1> QED
  BY <1>1, <1>4, <1>5, <1>6, Zenon DEF KeysInv, FoundedIn, CrossedIn, SequencedIn

LEMMA BooleanTermAndStep ==
    ASSUME KeysInv, NEW q, q = Queries[query], NEW c \in q.conditions, BooleanTermAnd(c), query' = query
    PROVE  KeysInv' /\ keys' = keys
<1>1. /\ phase = "parse" /\ where' = Append(where, c) /\ content' = content /\ phase' = phase
      /\ next' = next /\ keys' = keys /\ rank' = rank /\ replaced' = replaced
  BY Zenon DEF BooleanTermAnd, plan
<1>2. Given /\ where \in Seq(q.conditions) /\ keys = <<>>
  BY <1>1, Zenon DEF KeysInv, Given
<1>3. where' \in Seq(q.conditions)
  BY <1>1, <1>2
<1>4. Given'
  BY <1>1, <1>2, <1>3, Zenon DEF Given, From
<1>5. Tabled' = Tabled
  BY <1>1, Zenon DEF Tabled
<1>6. 1..Len(keys') = {}
  BY <1>1, <1>2, SMTT(60)
<1>7. ListedIn(q, content, keys, Tabled)
  BY Zenon DEF KeysInv
<1>8. ListedIn(q, content', keys', Tabled')
  BY <1>1, <1>5, <1>7, Zenon
<1> QED
  BY <1>1, <1>4, <1>6, <1>8, Zenon DEF KeysInv, FoundedIn, CrossedIn

LEMMA JoinTablesStep ==
    ASSUME KeysInv, NEW q, q = Queries[query], JoinTables, query' = query
    PROVE  KeysInv' /\ SequencedIn(q, keys')
<1>1. /\ phase \in {"parse", "join"} /\ next <= Len(q.from) /\ content' = content /\ where' = where
      /\ phase' = "join" /\ next' = next + 1 /\ rank' = rank /\ replaced' = replaced
      /\ keys' = keys \o KeysOf(q.from[next], None)
  BY Zenon DEF JoinTables, From
<1>2. /\ Given /\ query \in DOMAIN Queries /\ where \in Seq(q.conditions) /\ Contained(q, content)
      /\ next \in Nat \ {0}
      /\ replaced = {} /\ \A k \in 1..Len(keys) : keys[k].value = None
  BY <1>1, Zenon DEF KeysInv, Given
<1>3. IsQuery(q) /\ Len(q.from) \in Nat
  BY <1>2, QueriesAssumption, QueryFacts, Zenon
<1>4. PICK n \in Nat : n = next - 1 /\ n < Len(q.from) /\ n + 1 = next
  <2>1. next - 1 \in Nat /\ next - 1 < Len(q.from) /\ (next - 1) + 1 = next
    BY <1>1, <1>2, <1>3
  <2> QED
    BY <2>1, Zenon
<1>5. Tabled = n /\ Tabled' = n + 1
  <2>1. Tabled = n
    BY <1>1, <1>2, <1>4 DEF Tabled, Given
  <2>2. Tabled' = n + 1
    BY <1>1, <1>2, <1>4 DEF Tabled
  <2> QED
    BY <2>1, <2>2, Zenon
<1>6. ListedIn(q, content, keys, n)
  BY <1>5, Zenon DEF KeysInv
<1>7. PICK u, nk, k2 : u = q.from[next] /\ nk = Fresh(q, u, None) /\ k2 = keys'
  BY Zenon
<1>8. k2 = keys \o nk
  BY <1>1, <1>7, Zenon DEF KeysOf, KeyColumns, Fresh
<1>9. ListedIn(q, content, k2, n + 1)
  <2>1. ListedIn(q, content, keys \o Fresh(q, q.from[n + 1], None), n + 1)
    BY <1>2, <1>3, <1>4, <1>6, ListNext, Zenon
  <2> QED
    BY <1>4, <1>7, <1>8, <2>1, Zenon
<1>10. u \in Range(q.from)
  <2>1. next \in 1..Len(q.from)
    BY <1>1, <1>2, <1>3, SMTT(60)
  <2> QED
    BY <1>3, <1>7, <2>1, PosFacts, Zenon
<1>11. PICK m \in Nat : m = Len(q.keys[u]) /\ Range(q.keys[u]) = {q.keys[u][i] : i \in 1..m}
  <2>1. u \in TablesOf(q)
    BY <1>10, Zenon DEF TablesOf
  <2>2. Len(q.keys[u]) \in Nat /\ Range(q.keys[u]) = {q.keys[u][i] : i \in 1..Len(q.keys[u])}
    BY ONLY <1>3, <2>1, TableFacts, Zenon
  <2> QED
    BY <2>2, Zenon
<1>12. /\ nk \in Seq(KeyType(q)) /\ Len(nk) = m
       /\ \A i \in 1..m : nk[i].u = u /\ nk[i].c = q.keys[u][i] /\ nk[i].value = None
  <2>1. None \in STRING \cup {None}
    BY Zenon
  <2>2. FreshOf(q, u, None)
    BY <1>3, <1>10, <2>1, FreshFacts, Zenon
  <2>3. /\ Fresh(q, u, None) \in Seq(KeyType(q)) /\ Len(Fresh(q, u, None)) = Len(q.keys[u])
        /\ \A i \in 1..Len(q.keys[u]) :
              /\ Fresh(q, u, None)[i].u = u /\ Fresh(q, u, None)[i].c = q.keys[u][i]
              /\ Fresh(q, u, None)[i].value = None
    BY <2>2, Zenon DEF FreshOf
  <2> QED
    BY <1>7, <1>11, <2>3, ZenonT(60)
<1>13. \A k \in 1..Len(k2) : \/ k \in 1..Len(keys) /\ k2[k] = keys[k]
                             \/ \E i \in 1..m : k2[k] = nk[i]
  <2>1. PICK S : S = KeyType(q)
    BY Zenon
  <2>2. keys \in Seq(S) /\ nk \in Seq(S) /\ Len(nk) = m
    BY <1>3, <1>6, <1>12, <2>1, KeyFacts, Zenon
  <2>3. /\ Len(keys) \in Nat /\ Len(keys \o nk) = Len(keys) + m
        /\ \A k \in 1..Len(keys) : (keys \o nk)[k] = keys[k]
        /\ \A i \in 1..m : (keys \o nk)[Len(keys) + i] = nk[i]
    BY <2>2
  <2>4. /\ Len(keys) \in Nat /\ Len(k2) = Len(keys) + m
        /\ \A k \in 1..Len(keys) : k2[k] = keys[k]
        /\ \A i \in 1..m : k2[Len(keys) + i] = nk[i]
    BY <1>8, <2>3, Zenon
  <2>5. ASSUME NEW k \in 1..(Len(keys) + m), k \notin 1..Len(keys) PROVE \E i \in 1..m : k = Len(keys) + i
    <3>1. k - Len(keys) \in 1..m /\ k = Len(keys) + (k - Len(keys))
      BY <2>4, <2>5
    <3> QED
      BY <3>1, Zenon
  <2> SUFFICES ASSUME NEW k \in 1..(Len(keys) + m)
               PROVE  \/ k \in 1..Len(keys) /\ k2[k] = keys[k]
                      \/ \E i \in 1..m : k2[k] = nk[i]
    BY <2>4, Zenon
  <2>6. CASE k \in 1..Len(keys)
    BY <2>4, <2>6, Zenon
  <2>7. CASE k \notin 1..Len(keys)
    BY <2>4, <2>5, <2>7, Zenon
  <2> QED
    BY <2>6, <2>7, Zenon
<1>14. \A k \in 1..Len(k2) : k2[k].value = None
  BY <1>2, <1>12, <1>13, SMTT(60)
<1>15. CrossedIn(q, k2, replaced)
  <2> SUFFICES ASSUME NEW k \in 1..Len(k2) PROVE k2[k].c \in Range(q.keys[k2[k].u])
    BY <1>2, Zenon DEF CrossedIn
  <2>1. \A j \in 1..Len(keys) : keys[j].c \in Range(q.keys[keys[j].u])
    BY <1>2, Zenon DEF KeysInv, CrossedIn
  <2>2. \A i \in 1..m : q.keys[u][i] \in Range(q.keys[u])
    BY <1>11, Zenon
  <2> QED
    BY <1>12, <1>13, <2>1, <2>2, SMTT(60)
<1>16. FoundedIn(where, k2) /\ SequencedIn(q, k2)
  BY <1>14, Zenon DEF FoundedIn, SequencedIn
<1>17. Given'
  <2>1. next' \in Nat \ {0} /\ next' <= Len(q.from) + 1
    BY <1>1, <1>2, <1>3
  <2>2. \A k \in 1..Len(keys') : keys'[k].value = None
    BY <1>7, <1>14, Zenon
  <2> QED
    BY <1>1, <1>2, <2>1, <2>2, Zenon DEF Given, From
<1> QED
  BY <1>1, <1>5, <1>7, <1>9, <1>15, <1>16, <1>17, Zenon DEF KeysInv

LEMMA KeyUniqueIdArrayStep ==
    ASSUME KeysInv, NEW q, q = Queries[query], KeyUniqueIdArray, query' = query
    PROVE  KeysInv' /\ keys' = keys
<1>1. /\ phase = "join" /\ next > Len(q.from) /\ content' = content /\ where' = where
      /\ phase' = "optimize" /\ next' = 1 /\ keys' = keys /\ replaced' = replaced
      /\ rank' = [u \in TablesOf(q) |-> Top(keys, u)]
  BY Zenon DEF KeyUniqueIdArray, From, Outer, Tables, TablesOf, Top
<1>2. /\ query \in DOMAIN Queries /\ where \in Seq(q.conditions) /\ Contained(q, content)
      /\ next \in Nat \ {0} /\ next <= Len(q.from) + 1
  BY <1>1, Zenon DEF KeysInv, Given, From
<1>3. IsQuery(q) /\ Len(q.from) \in Nat
  BY <1>2, QueriesAssumption, QueryFacts, Zenon
<1>4. Tabled = Len(q.from) /\ Tabled' = Len(q.from)
  <2>1. next - 1 = Len(q.from)
    BY <1>1, <1>2, <1>3
  <2> QED
    BY <1>1, <2>1, Zenon DEF Tabled, From
<1>5. ListedIn(q, content, keys, Len(q.from)) /\ FoundedIn(where, keys) /\ CrossedIn(q, keys, replaced)
  BY <1>4, Zenon DEF KeysInv
<1>6. RankedIn(q, rank')
  BY <1>1, <1>3, <1>5, Ranks, Zenon
<1>7. Given'
  BY <1>1, <1>2 DEF Given
<1> QED
  BY <1>1, <1>4, <1>5, <1>6, <1>7, Zenon DEF KeysInv

\* Looking at a conjunct, printing the plan, and running it leave the plan as it is.
LEMMA SamePlan ==
    ASSUME KeysInv, query' = query, content' = content, where' = where, UNCHANGED plan,
           next' \in Nat \ {0}, phase \notin {"parse", "join"},
           phase' \in {"optimize", "run", "done", "error"}
    PROVE  KeysInv'
<1>1. keys' = keys /\ rank' = rank /\ replaced' = replaced
  BY Zenon DEF plan
<1>2. Given'
  BY Zenon DEF KeysInv, Given
<1>3. Tabled' = Tabled
  BY Zenon DEF KeysInv, Given, Tabled, From
<1> QED
  BY <1>1, <1>2, <1>3, Zenon DEF KeysInv

LEMMA RoutinePhase ==
    ASSUME KeysInv, Routine
    PROVE  /\ phase = "run" /\ phase' \in {"run", "done", "error"}
           /\ content' = content /\ where' = where /\ next' = next /\ UNCHANGED plan
<1>1. CASE SetFixedKey
  BY <1>1, Zenon DEF SetFixedKey, Enter, Return
<1>2. CASE Advance
  BY <1>2, Zenon DEF Advance, Enter, Return
<1>3. CASE Project
  BY <1>3, Zenon DEF Project, Enter, Return
<1> QED
  BY <1>1, <1>2, <1>3, Zenon DEF Routine

LEMMA KeysNext ==
    ASSUME KeysLinked, KeysInv, [Next]_vars, NEW q, q = Queries[query]
    PROVE  /\ KeysInv' /\ query' = query
           /\ KeysApart /\ SequencedIn(q, keys) => SequencedIn(q, keys')
<1>1. CASE UNCHANGED vars
  BY <1>1, Zenon DEF vars, KeysInv, Given, Tabled, From
<1>2. ASSUME Next
      PROVE  /\ KeysInv'
             /\ KeysApart /\ SequencedIn(q, keys) => SequencedIn(q, keys')
  <2>1. query' = query
    BY <1>2, Zenon DEF Next
  <2>2. Given /\ next \in Nat \ {0}
    BY Zenon DEF KeysInv, Given
  <2>3. ASSUME NEW c \in Queries[query].conditions, BooleanTermAnd(c)
        PROVE  /\ KeysInv'
               /\ KeysApart /\ SequencedIn(q, keys) => SequencedIn(q, keys')
    BY <2>1, <2>3, BooleanTermAndStep, Zenon
  <2>4. CASE JoinTables
    BY <2>1, <2>4, JoinTablesStep, Zenon
  <2>5. CASE KeyUniqueIdArray
    BY <2>1, <2>5, KeyUniqueIdArrayStep, Zenon
  <2>6. CASE FixKey
    BY <2>1, <2>6, FixKeyStep, Zenon
  <2>7. CASE GenerateXrefKeys
    BY <2>1, <2>7, GenerateXrefKeysStep, Zenon
  <2>8. CASE NotOptimized
    <3>1. /\ phase = "optimize" /\ phase' = "optimize" /\ content' = content /\ where' = where
          /\ UNCHANGED plan /\ keys' = keys /\ next' \in Nat \ {0}
      BY <2>2, <2>8, SMTT(60) DEF NotOptimized, plan
    <3> QED
      BY <2>1, <3>1, SamePlan, Zenon
  <2>9. CASE EmitPlan
    <3>1. /\ phase = "optimize" /\ phase' = "run" /\ content' = content /\ where' = where
          /\ UNCHANGED plan /\ keys' = keys /\ next' \in Nat \ {0}
      BY <2>2, <2>9, Zenon DEF EmitPlan, plan
    <3> QED
      BY <2>1, <3>1, SamePlan, Zenon
  <2>10. CASE Routine
    <3>1. /\ phase = "run" /\ phase' \in {"run", "done", "error"} /\ content' = content /\ where' = where
          /\ UNCHANGED plan /\ next' = next
      BY <2>10, RoutinePhase, Zenon
    <3>2. keys' = keys
      BY <3>1, Zenon DEF plan
    <3> QED
      BY <2>1, <2>2, <3>1, <3>2, SamePlan, Zenon
  <2> QED
    BY <1>2, <2>3, <2>4, <2>5, <2>6, <2>7, <2>8, <2>9, <2>10, Zenon DEF Next, Optimize
<1>3. query' = query
  BY Zenon DEF Next, vars
<1> QED
  BY <1>1, <1>2, <1>3, Zenon

LEMMA Completeness ==
    ASSUME KeysInv
    PROVE  KeysComplete
<1>1. PICK q : q = Queries[query]
  BY Zenon
<1> SUFFICES ASSUME phase \notin {"parse", "join"}, NEW u \in Range(q.from), NEW c \in Range(q.keys[u])
             PROVE  \E i \in DOMAIN keys : keys[i].u = u /\ keys[i].c = c
  BY <1>1, Zenon DEF KeysComplete, From, KeyColumns
<1>2. IsQuery(q) /\ ListedIn(q, content, keys, Len(q.from))
  BY <1>1, QueriesAssumption, Zenon DEF KeysInv, Given, Tabled, From
<1>3. Pos(q, u) <= Len(q.from)
  BY <1>2, PosFacts, SMTT(60)
<1>4. DOMAIN keys = 1..Len(keys)
  BY <1>2, KeyFacts, Zenon
<1>5. \E i \in 1..Len(keys) : keys[i].u = u /\ keys[i].c = c
  BY <1>2, <1>3, ZenonT(60) DEF ListedIn
<1> QED
  BY <1>4, <1>5, Zenon

LEMMA Sequence ==
    ASSUME KeysInv, SequencedIn(Queries[query], keys)
    PROVE  RightSequence
<1>1. PICK q : q = Queries[query]
  BY Zenon
<1> SUFFICES ASSUME NEW i \in DOMAIN keys, keys[i].value # None, IsColumn(keys[i].value),
                    keys[i].value.u \in Range(q.from), NEW c \in Range(q.keys[keys[i].value.u])
             PROVE  \E j \in 1..(i - 1) : keys[j].u = keys[i].value.u /\ keys[j].c = c
  BY <1>1, Zenon DEF RightSequence, From, KeyColumns
<1>0. PICK v : v = keys[i].value
  BY Zenon
<1>2. IsQuery(q) /\ ListedIn(q, content, keys, Tabled)
  BY <1>1, QueriesAssumption, Zenon DEF KeysInv, Given
<1>3. Len(keys) \in Nat /\ i \in 1..Len(keys)
  BY <1>2, KeyFacts, Zenon
<1>4. ListedIn(q, content, keys, Len(q.from))
  BY <1>1, <1>2, <1>3, Zenon DEF KeysInv, Given, Tabled, From
<1>5. Pos(q, v.u) < Pos(q, keys[i].u)
  <2>1. v.u \notin q.outer
    BY <1>0, <1>2, QueryFacts, ZenonT(60)
  <2> QED
    BY <1>0, <1>1, <1>3, <2>1, Zenon DEF SequencedIn
<1>6. Pos(q, v.u) \in Nat /\ Pos(q, v.u) <= Len(q.from)
  BY <1>0, <1>2, PosFacts, SMTT(60)
<1>7. PICK j \in 1..Len(keys) : keys[j].u = v.u /\ keys[j].c = c
  <2>1. v.u \in Range(q.from) /\ c \in Range(q.keys[v.u])
    BY <1>0, Zenon
  <2> QED
    BY <1>4, <1>6, <2>1, ZenonT(60) DEF ListedIn
<1>8. Pos(q, keys[i].u) \in Nat
  BY <1>2, <1>3, KeyFacts, SMTT(60)
<1>9. i < j => Pos(q, keys[i].u) <= Pos(q, keys[j].u)
  BY <1>3, <1>4, <1>7, Zenon DEF ListedIn
<1>10. j < i
  BY <1>3, <1>5, <1>6, <1>7, <1>8, <1>9
<1> QED
  BY <1>0, <1>3, <1>7, <1>10, SMTT(60)

\* The keys of a plan have all key columns of the tables of the FROM clause, whatever
\* the optimizer fixes or reads through cross references (join_tables,
\* lp_optimize_where_multi_equal_ands, lp_generate_xref_keys).
THEOREM KeysAlwaysComplete ==
    ASSUME KeysLinked
    PROVE  Spec => []KeysComplete
<1>1. Init => KeysInv
  BY KeysInit, Zenon
<1>2. KeysInv /\ [Next]_vars => KeysInv'
  BY KeysNext, Zenon
<1>3. KeysInv => KeysComplete
  BY Completeness, Zenon
<1> QED
  BY <1>1, <1>2, <1>3, PTL DEF Spec

\* The order of the keys works: where a key is fixed to a column, the loops outside
\* have the keys that the column is read with (lp_optimize_where_multi_equal_ands).
THEOREM AlwaysRightSequence ==
    ASSUME KeysLinked, KeysApart
    PROVE  Spec => []RightSequence
<1> DEFINE I == KeysInv /\ SequencedIn(Queries[query], keys)
<1>1. Init => I
  BY KeysInit, Zenon
<1>2. I /\ [Next]_vars => I'
  BY KeysNext, Zenon
<1>3. I => RightSequence
  BY Sequence, Zenon
<1> QED
  BY <1>1, <1>2, <1>3, PTL DEF Spec

=============================================================================
