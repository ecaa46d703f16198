----------------------------- MODULE XrefProofs -----------------------------
(***************************************************************************)
(* Proofs about cross reference maintenance, for any table, any number of  *)
(* processes and any number of updates and deaths.                         *)
(***************************************************************************)
EXTENDS Xref, FiniteSetTheorems, TLAPS

----------------------------------------------------------------------------
(* The build happens once while the LOCK does not run out *)

\* The types the argument needs
ControlOK == pc \in [Proc -> PC] /\ lock \in Proc \cup {NoProc}

\* From the LOCK to its release the process holds it
HolderBuilds == \A p \in Proc : Building(p) \/ pc[p] = "check" => lock = p

\* A process past the status check has read that the build is not done
BuildNotDone == \A p \in Proc : Building(p) => ~done

OnceInv == ControlOK /\ ("expires" \notin may => HolderBuilds /\ BuildNotDone)

LEMMA OnceStep ==
  ASSUME OnceInv, [Next]_vars
  PROVE  OnceInv'
<1> USE XrefAssumption DEF OnceInv, ControlOK, HolderBuilds, BuildNotDone, Building, PC, Goto
<1>1. ASSUME NEW p \in Proc, CallBuilder(p) PROVE OnceInv'
  BY <1>1, Zenon DEF CallBuilder
<1>2. ASSUME NEW p \in Proc, Lock(p) PROVE OnceInv'
  BY <1>2, Zenon DEF Lock
<1>3. ASSUME NEW p \in Proc, LockTimeout(p) PROVE OnceInv'
  BY <1>3, Zenon DEF LockTimeout
<1>4. ASSUME NEW p \in Proc, CheckStatus(p) PROVE OnceInv'
  BY <1>4, ZenonT(60) DEF CheckStatus, Release
<1>5. ASSUME NEW p \in Proc, InstallTrigger(p) PROVE OnceInv'
  BY <1>5, Zenon DEF InstallTrigger
<1>6. ASSUME NEW p \in Proc, Advance(p) PROVE OnceInv'
  BY <1>6, Zenon DEF Advance
<1>7. ASSUME NEW p \in Proc, Evaluate(p) PROVE OnceInv'
  BY <1>7, Zenon DEF Evaluate
<1>8. ASSUME NEW p \in Proc, SetEntry(p) PROVE OnceInv'
  BY <1>8, Zenon DEF SetEntry
<1>9. ASSUME NEW p \in Proc, IncrementTotal(p) PROVE OnceInv'
  BY <1>9, Zenon DEF IncrementTotal
<1>10. ASSUME NEW p \in Proc, Reevaluate(p) PROVE OnceInv'
  BY <1>10, Zenon DEF Reevaluate
<1>11. ASSUME NEW p \in Proc, IncrementCount(p) PROVE OnceInv'
  BY <1>11, Zenon DEF IncrementCount
<1>12. ASSUME NEW p \in Proc, Finish(p) PROVE OnceInv'
  BY <1>12, Zenon DEF Finish, Release
<1>13. ASSUME NEW p \in Proc, Crash(p) PROVE OnceInv'
  BY <1>13, Zenon DEF Crash, Release
<1>14. ASSUME NEW k \in Key, KillRow(k) PROVE OnceInv'
  BY <1>14, Zenon DEF KillRow
<1>15. ASSUME NEW k \in Key, NEW v \in Column, SetRow(k, v) PROVE OnceInv'
  BY <1>15, Zenon DEF SetRow
<1>16. CASE UNCHANGED vars
  BY <1>16, Zenon DEF vars
<1>17. QED
  BY <1>1, <1>2, <1>3, <1>4, <1>5, <1>6, <1>7, <1>8, <1>9, <1>10, <1>11, <1>12, <1>13, <1>14, <1>15, <1>16, ZenonT(60) DEF Next, Step

\* At most one process at a time builds the cross reference and none does once
\* it is done, as long as the LOCK does not run out: whatever is updated
\* meanwhile and whichever processes die.
THEOREM BuiltOnce ==
  Spec => []BuildsOnce
<1>1. Init => OnceInv
  BY Zenon DEF Init, OnceInv, ControlOK, HolderBuilds, BuildNotDone, Building, PC
<1>2. OnceInv /\ [Next]_vars => OnceInv'
  BY OnceStep, Zenon
<1>3. OnceInv => BuildsOnce
  BY Zenon DEF OnceInv, HolderBuilds, BuildNotDone, BuildsOnce
<1>4. QED
  BY <1>1, <1>2, <1>3, PTL DEF Spec

----------------------------------------------------------------------------
(* What the cross reference holds, by one builder or several at once *)

\* No update overlaps a build, and no builder dies.
Quiet == may \cap {"overlap", "death"} = {}
Inside == {"advance", "evaluate", "entry", "total", "reevaluate", "count"}

\* The rows up to k of table t with value v, and those with any value
With(t, v, k) == {j \in Key : j <= k /\ t[j] = v}
Full(t, k) == {j \in Key : j <= k /\ t[j] \in Value}

\* What the cross reference holds when the entries e of the rows up to k, the
\* total n or the counts c are stored.  Each of several builders counts every
\* row, so the counts are then only bounds; empty values are counted by the
\* build and not by handleSet, so the total is then only a bound, too.
CoversTo(t, e, k) == \A v \in Value, j \in Key : j <= k /\ t[j] = v => <<v, j>> \in e
TotalTo(t, m, n, k) ==
  /\ n >= Cardinality(Full(t, k))
  /\ m \cap {"empty", "expires"} = {} => n = Cardinality(Full(t, k))
CountsTo(t, m, c, k) ==
  /\ \A v \in Value : c[v] >= Cardinality(With(t, v, k))
  /\ "expires" \notin m => \A v \in Value : c[v] = Cardinality(With(t, v, k))
  /\ "empty" \notin m => c[Empty] = 0

\* No entry is for a value that its row does not have.
NoStray(t, e) == \A v \in Value, j \in Key : <<v, j>> \in e => t[j] = v

DataOK ==
  /\ table \in [Key -> Index \cup {NoRow}]
  /\ "empty" \notin may => \A k \in Key : table[k] # Empty
  /\ entry \subseteq Index \X Key
  /\ count \in [Index -> Int] /\ total \in Int
  /\ key \in [Proc -> 0 .. NumRows] /\ val \in [Proc -> Index]

\* Nothing is stored before the build, and handleSet does not run
Fresh ==
  ~done /\ (\A p \in Proc : pc[p] \notin Inside) =>
    ~trigger /\ entry = {} /\ count = [v \in Index |-> 0] /\ total = 0

\* How far a builder has come
Row(p) == key[p] \in Key /\ table[key[p]] # NoRow
BuiltTo(p) ==
  /\ pc[p] \in Inside => trigger
  /\ pc[p] \in {"evaluate", "entry", "total", "reevaluate", "count"} => Row(p)
  /\ pc[p] \in {"entry", "count"} => val[p] = table[key[p]]
  /\ pc[p] \in {"evaluate", "entry"} => CoversTo(table, entry, key[p] - 1)
  /\ pc[p] \in {"advance", "total", "reevaluate", "count"} => CoversTo(table, entry, key[p])
  /\ pc[p] \in {"evaluate", "entry", "total"} => TotalTo(table, may, total, key[p] - 1)
  /\ pc[p] \in {"advance", "reevaluate", "count"} => TotalTo(table, may, total, key[p])
  /\ pc[p] \in Inside \ {"advance"} => CountsTo(table, may, count, key[p] - 1)
  /\ pc[p] = "advance" => CountsTo(table, may, count, key[p])

\* The trigger keeps all of it up to date
Kept ==
  done => /\ trigger
          /\ CoversTo(table, entry, NumRows)
          /\ TotalTo(table, may, total, NumRows) /\ CountsTo(table, may, count, NumRows)

Exact == DataOK /\ NoStray(table, entry) /\ Fresh /\ (\A p \in Proc : BuiltTo(p)) /\ Kept
ExactInv == OnceInv /\ (Quiet => Exact)

\* Sets of rows are finite.
LEMMA CountRows ==
  ASSUME NEW S \in SUBSET Key
  PROVE  /\ Cardinality(S) \in Nat
         /\ Cardinality(S) = 0 <=> S = {}
         /\ \A k \in Key : k \notin S => Cardinality(S \cup {k}) = Cardinality(S) + 1
         /\ \A k \in S : Cardinality(S \ {k}) = Cardinality(S) - 1
<1>1. IsFiniteSet(Key)
  BY XrefAssumption, FS_Interval DEF Key
<1>2. IsFiniteSet(S)
  BY <1>1, FS_Subset, Zenon
<1> QED
  BY <1>2, FS_CardinalityType, FS_EmptySet, FS_AddElement, FS_RemoveElement, Zenon

\* One more row
LEMMA OneMore ==
  ASSUME DataOK, NEW k \in Key
  PROVE  /\ k - 1 \in 0 .. NumRows /\ k \in 0 .. NumRows
         /\ \A v \in Value : Cardinality(With(table, v, k)) =
              Cardinality(With(table, v, k - 1)) + (IF table[k] = v THEN 1 ELSE 0)
         /\ Cardinality(Full(table, k)) = Cardinality(Full(table, k - 1)) + (IF table[k] \in Value THEN 1 ELSE 0)
<1>1. /\ k \in Nat /\ k \in 1 .. NumRows /\ ~(k <= k - 1)
      /\ \A j \in Key : j <= k <=> j <= k - 1 \/ j = k
  BY XrefAssumption DEF Key
<1>2. ASSUME NEW v \in Value
      PROVE  Cardinality(With(table, v, k)) = Cardinality(With(table, v, k - 1)) + (IF table[k] = v THEN 1 ELSE 0)
  <2>1. With(table, v, k - 1) \in SUBSET Key /\ k \notin With(table, v, k - 1)
    BY <1>1, Zenon DEF With
  <2>2. CASE table[k] = v
    <3>1. With(table, v, k) = With(table, v, k - 1) \cup {k}
      BY <1>1, <2>2, Zenon DEF With
    <3> QED
      BY <2>1, <2>2, <3>1, CountRows, ZenonT(60)
  <2>3. CASE table[k] # v
    <3>1. With(table, v, k) = With(table, v, k - 1)
      BY <1>1, <2>3, Zenon DEF With
    <3> QED
      BY <2>1, <2>3, <3>1, CountRows
  <2> QED
    BY <2>2, <2>3, Zenon
<1>3. Cardinality(Full(table, k)) = Cardinality(Full(table, k - 1)) + (IF table[k] \in Value THEN 1 ELSE 0)
  <2>1. Full(table, k - 1) \in SUBSET Key /\ k \notin Full(table, k - 1)
    BY <1>1, Zenon DEF Full
  <2>2. CASE table[k] \in Value
    <3>1. Full(table, k) = Full(table, k - 1) \cup {k}
      BY <1>1, <2>2, Zenon DEF Full
    <3> QED
      BY <2>1, <2>2, <3>1, CountRows, Zenon
  <2>3. CASE table[k] \notin Value
    <3>1. Full(table, k) = Full(table, k - 1)
      BY <1>1, <2>3, Zenon DEF Full
    <3> QED
      BY <2>1, <2>3, <3>1, CountRows
  <2> QED
    BY <2>2, <2>3, Zenon
<1> QED
  BY <1>1, <1>2, <1>3, XrefAssumption

\* Before the builder has a row, nothing is counted.
LEMMA NoneYet ==
  /\ \A v \in Value : With(table, v, 0) = {}
  /\ Full(table, 0) = {}
  /\ Cardinality({}) = 0
<1>1. \A j \in Key : ~(j <= 0)
  BY XrefAssumption DEF Key
<1> QED
  BY <1>1, FS_EmptySet, Zenon DEF With, Full

\* While the LOCK does not run out only one process is inside the build, and it
\* is not done.
LEMMA Alone ==
  ASSUME ExactInv, "expires" \notin may, NEW p \in Proc, Building(p)
  PROVE  ~done /\ \A q \in Proc : pc[q] \in Inside => q = p
  BY Zenon DEF ExactInv, OnceInv, HolderBuilds, BuildNotDone, Building, Inside

\* What is at least a count of rows is not negative.
LEMMA AtLeast ==
  ASSUME NEW n \in Int, NEW rows \in Nat, n >= rows
  PROVE  n >= 0
  OBVIOUS

\* Nothing is negative when a process begins to build: the cross reference is
\* empty, or others have come further.
LEMMA StartingPoint ==
  ASSUME ExactInv, Quiet, NEW p \in Proc, pc[p] = "trigger"
  PROVE  CoversTo(table, entry, 0) /\ TotalTo(table, may, total, 0) /\ CountsTo(table, may, count, 0)
<1>1. Exact /\ Building(p) /\ pc[p] \notin Inside
  BY Zenon DEF ExactInv, Building, Inside
<1>2. CoversTo(table, entry, 0)
  <2>1. \A j \in Key : ~(j <= 0)
    BY XrefAssumption DEF Key
  <2> QED
    BY <2>1, Zenon DEF CoversTo
<1>3. Cardinality(Full(table, 0)) = 0 /\ \A v \in Value : Cardinality(With(table, v, 0)) = 0
  BY NoneYet, Zenon
<1>4. \A k : Cardinality(Full(table, k)) \in Nat /\ \A v \in Value : Cardinality(With(table, v, k)) \in Nat
  <2>1. \A k : Full(table, k) \in SUBSET Key /\ \A v \in Value : With(table, v, k) \in SUBSET Key
    BY Zenon DEF Full, With
  <2> QED
    BY <2>1, CountRows, Zenon
<1>5. total \in Int /\ \A v \in Value : count[v] \in Int
  BY <1>1, Zenon DEF Exact, DataOK, Index
<1>6. ASSUME NEW k, "expires" \in may, TotalTo(table, may, total, k), CountsTo(table, may, count, k)
      PROVE  TotalTo(table, may, total, 0) /\ CountsTo(table, may, count, 0)
  <2>1. total >= 0
    <3>1. total >= Cardinality(Full(table, k)) /\ Cardinality(Full(table, k)) \in Nat
      BY <1>4, <1>6, Zenon DEF TotalTo
    <3> QED
      BY <1>5, <3>1, AtLeast, Zenon
  <2>2. ASSUME NEW v \in Value PROVE count[v] >= 0
    <3>1. count[v] >= Cardinality(With(table, v, k)) /\ Cardinality(With(table, v, k)) \in Nat
      BY <1>4, <1>6, Zenon DEF CountsTo
    <3> QED
      BY <1>5, <3>1, AtLeast, Zenon
  <2>3. TotalTo(table, may, total, 0)
    BY <1>3, <1>6, <2>1, Zenon DEF TotalTo
  <2>4. CountsTo(table, may, count, 0)
    BY <1>3, <1>6, <2>2, Zenon DEF CountsTo
  <2> QED
    BY <2>3, <2>4, Zenon
<1>7. CASE ~done /\ \A q \in Proc : pc[q] \notin Inside
  <2>1. count = [v \in Index |-> 0] /\ total = 0
    BY <1>1, <1>7, Zenon DEF Exact, Fresh
  <2>2. count[Empty] = 0 /\ \A v \in Value : count[v] = 0
    BY <2>1, Zenon DEF Index
  <2>3. TotalTo(table, may, total, 0)
    BY <1>3, <2>1 DEF TotalTo
  <2>4. CountsTo(table, may, count, 0)
    BY <1>3, <2>2 DEF CountsTo
  <2> QED
    BY <1>2, <2>3, <2>4, Zenon
<1>8. CASE done \/ \E q \in Proc : pc[q] \in Inside
  <2>1. "expires" \in may
    BY <1>1, <1>8, Alone, Zenon
  <2>2. CASE done
    BY <1>1, <1>2, <1>6, <2>1, <2>2, Zenon DEF Exact, Kept
  <2>3. ASSUME NEW q \in Proc, pc[q] \in Inside
        PROVE  TotalTo(table, may, total, 0) /\ CountsTo(table, may, count, 0)
    <3>1. \E k : TotalTo(table, may, total, k)
      BY <1>1, <2>3, Zenon DEF Exact, BuiltTo, Inside
    <3>2. \E k : CountsTo(table, may, count, k)
      BY <1>1, <2>3, Zenon DEF Exact, BuiltTo, Inside
    <3>3. total >= 0
      <4>1. PICK k : total >= Cardinality(Full(table, k))
        BY <3>1, Zenon DEF TotalTo
      <4> QED
        BY <1>4, <1>5, <4>1, AtLeast, Zenon
    <3>4. (\A v \in Value : count[v] >= 0) /\ ("empty" \notin may => count[Empty] = 0)
      <4>1. PICK k : CountsTo(table, may, count, k)
        BY <3>2, Zenon
      <4>2. ASSUME NEW v \in Value PROVE count[v] >= 0
        <5>1. count[v] >= Cardinality(With(table, v, k)) /\ Cardinality(With(table, v, k)) \in Nat
          BY <1>4, <4>1, Zenon DEF CountsTo
        <5> QED
          BY <1>5, <5>1, AtLeast, Zenon
      <4> QED
        BY <4>1, <4>2, Zenon DEF CountsTo
    <3>5. TotalTo(table, may, total, 0)
      BY <1>3, <2>1, <3>3, Zenon DEF TotalTo
    <3>6. CountsTo(table, may, count, 0)
      BY <1>3, <2>1, <3>4, Zenon DEF CountsTo
    <3> QED
      BY <3>5, <3>6, Zenon
  <2> QED
    BY <1>2, <1>8, <2>2, <2>3, Zenon
<1> QED
  BY <1>7, <1>8, Zenon

\* Steps outside the build.
LEMMA OutsideKeeps ==
  ASSUME ExactInv, Quiet, NEW p \in Proc,
         CallBuilder(p) \/ Lock(p) \/ LockTimeout(p) \/ CheckStatus(p)
  PROVE  Exact'
<1>1. /\ UNCHANGED <<table, entry, count, total, done, trigger, key, val, may>>
      /\ \A q \in Proc : pc'[q] = pc[q] \/ (pc[q] \notin Inside /\ pc'[q] \notin Inside)
  <2>1. ControlOK
    BY Zenon DEF ExactInv, OnceInv
  <2> QED
    BY <2>1, Zenon DEF CallBuilder, Lock, LockTimeout, CheckStatus, Goto, xref, ControlOK, Inside
<1>2. Exact
  BY Zenon DEF ExactInv
<1>3. DataOK' /\ Kept' /\ NoStray(table', entry')
  BY <1>1, <1>2, Zenon DEF Exact, DataOK, Kept
<1>4. Fresh'
  BY <1>1, <1>2, Zenon DEF Exact, Fresh, Inside
<1>5. ASSUME NEW q \in Proc PROVE BuiltTo(q)'
  <2>1. CASE pc'[q] = pc[q]
    BY <1>1, <1>2, <2>1, Zenon DEF Exact, BuiltTo, Row, Inside
  <2>2. CASE pc'[q] \notin Inside
    BY <2>2, Zenon DEF BuiltTo, Inside
  <2> QED
    BY <1>1, <2>1, <2>2, Zenon
<1> QED
  BY <1>3, <1>4, <1>5, Zenon DEF Exact

\* What others have stored or counted stays when more is.
LEMMA MoreKeeps ==
  ASSUME DataOK, DataOK', "expires" \in may, may' = may, table' = table, entry \subseteq entry',
         total' >= total, \A v \in Value : count'[v] >= count[v],
         "empty" \notin may => count'[Empty] = count[Empty]
  PROVE  \A k : /\ CoversTo(table, entry, k) => CoversTo(table', entry', k)
                /\ TotalTo(table, may, total, k) => TotalTo(table', may', total', k)
                /\ CountsTo(table, may, count, k) => CountsTo(table', may', count', k)
<1> TAKE k
<1>1. Cardinality(Full(table, k)) \in Nat /\ \A v \in Value : Cardinality(With(table, v, k)) \in Nat
  <2>1. Full(table, k) \in SUBSET Key /\ \A v \in Value : With(table, v, k) \in SUBSET Key
    BY Zenon DEF Full, With
  <2> QED
    BY <2>1, CountRows, Zenon
<1>2. total \in Int /\ total' \in Int /\ \A v \in Value : count[v] \in Int /\ count'[v] \in Int
  BY Zenon DEF DataOK, Index
<1>3. CoversTo(table, entry, k) => CoversTo(table', entry', k)
  BY Zenon DEF CoversTo
<1>4. TotalTo(table, may, total, k) => TotalTo(table', may', total', k)
  BY <1>1, <1>2 DEF TotalTo
<1>5. CountsTo(table, may, count, k) => CountsTo(table', may', count', k)
  <2> SUFFICES ASSUME CountsTo(table, may, count, k) PROVE CountsTo(table', may', count', k)
    BY Zenon
  <2>1. ASSUME NEW v \in Value PROVE count'[v] >= Cardinality(With(table, v, k))
    <3>1. count[v] >= Cardinality(With(table, v, k)) /\ count'[v] >= count[v]
      BY Zenon DEF CountsTo
    <3>2. count[v] \in Int /\ count'[v] \in Int /\ Cardinality(With(table, v, k)) \in Nat
      BY <1>1, <1>2, Zenon
    <3> QED
      BY <3>1, <3>2
  <2> QED
    BY <2>1, Zenon DEF CountsTo
<1> QED
  BY <1>3, <1>4, <1>5, Zenon

\* The others are outside, or lose nothing: what the builder changes is for it to
\* answer for.
LEMMA BuilderKeeps ==
  ASSUME ExactInv, Quiet, NEW p \in Proc, Building(p), NEW l \in Inside,
         pc' = [pc EXCEPT ![p] = l], table' = table, done' = done, may' = may, trigger => trigger',
         \A q \in Proc : q # p => key'[q] = key[q] /\ val'[q] = val[q],
         entry \subseteq entry', NoStray(table, entry'),
         total' >= total, \A v \in Value : count'[v] >= count[v],
         "empty" \notin may => count'[Empty] = count[Empty],
         DataOK', BuiltTo(p)'
  PROVE  Exact'
<1>1. Exact /\ pc \in [Proc -> PC]
  BY Zenon DEF ExactInv, OnceInv, ControlOK
<1>2. Fresh' /\ NoStray(table', entry')
  BY <1>1, Zenon DEF Fresh
<1>3. CASE "expires" \notin may
  <2>1. ~done /\ \A q \in Proc : q # p => pc[q] \notin Inside
    BY <1>3, Alone, Zenon
  <2>2. Kept'
    BY <2>1, Zenon DEF Kept
  <2>3. ASSUME NEW q \in Proc, q # p PROVE BuiltTo(q)'
    <3>1. pc'[q] \notin Inside
      BY <1>1, <2>1, <2>3, Zenon
    <3> QED
      BY <3>1, Zenon DEF BuiltTo, Inside
  <2> QED
    BY <1>2, <2>2, <2>3, Zenon DEF Exact
<1>4. CASE "expires" \in may
  <2>1. \A k : /\ CoversTo(table, entry, k) => CoversTo(table', entry', k)
               /\ TotalTo(table, may, total, k) => TotalTo(table', may', total', k)
               /\ CountsTo(table, may, count, k) => CountsTo(table', may', count', k)
    <3>1. DataOK
      BY <1>1, Zenon DEF Exact
    <3> QED
      BY <1>4, <3>1, MoreKeeps, Zenon
  <2>2. Kept'
    BY <1>1, <2>1, Zenon DEF Exact, Kept
  <2>3. ASSUME NEW q \in Proc, q # p PROVE BuiltTo(q)'
    <3>1. pc'[q] = pc[q] /\ key'[q] = key[q] /\ val'[q] = val[q] /\ table' = table
      BY <1>1, <2>3, Zenon
    <3>2. BuiltTo(q)
      BY <1>1, Zenon DEF Exact
    <3> QED
      BY <2>1, <3>1, <3>2, ZenonT(60) DEF BuiltTo, Row
  <2> QED
    BY <1>2, <2>2, <2>3, Zenon DEF Exact
<1> QED
  BY <1>3, <1>4, Zenon

\* Steps that store nothing.
LEMMA ReaderKeeps ==
  ASSUME ExactInv, Quiet, NEW p \in Proc, Building(p), NEW l \in Inside,
         pc' = [pc EXCEPT ![p] = l], UNCHANGED <<table, entry, count, total, done, may>>, trigger => trigger',
         \A q \in Proc : q # p => key'[q] = key[q] /\ val'[q] = val[q],
         DataOK', BuiltTo(p)'
  PROVE  Exact'
<1>1. NoStray(table, entry') /\ DataOK
  BY Zenon DEF ExactInv, Exact
<1>2. total' >= total /\ \A v \in Value : count'[v] >= count[v]
  BY <1>1 DEF DataOK, Index
<1> QED
  BY <1>1, <1>2, BuilderKeeps, Zenon

\* The trigger, and key 0.
LEMMA InstallTriggerKeeps ==
  ASSUME ExactInv, Quiet, NEW p \in Proc, InstallTrigger(p)
  PROVE  Exact'
<1>1. Exact /\ Building(p) /\ ControlOK
  BY Zenon DEF ExactInv, OnceInv, InstallTrigger, Building
<1>2. /\ trigger' = TRUE /\ key' = [key EXCEPT ![p] = 0]
      /\ pc' = [pc EXCEPT ![p] = "advance"]
      /\ UNCHANGED <<table, entry, count, total, done, val, may>>
  BY Zenon DEF InstallTrigger, Goto, xref
<1>3. key \in [Proc -> 0 .. NumRows]
  BY <1>1, Zenon DEF Exact, DataOK
<1>4. /\ key'[p] = 0 /\ pc'[p] = "advance"
      /\ \A q \in Proc : q # p => key'[q] = key[q] /\ val'[q] = val[q]
  BY <1>1, <1>2, <1>3, ZenonT(60) DEF ControlOK
<1>5. DataOK'
  BY <1>1, <1>2, XrefAssumption DEF Exact, DataOK
<1>6. CoversTo(table, entry, 0) /\ TotalTo(table, may, total, 0) /\ CountsTo(table, may, count, 0)
  BY StartingPoint, Zenon DEF InstallTrigger
<1>7. BuiltTo(p)'
  BY <1>2, <1>4, <1>6, Zenon DEF BuiltTo, Inside
<1> QED
  BY <1>1, <1>2, <1>4, <1>5, <1>7, ReaderKeeps, Zenon DEF Inside

\* The next row: there is none in between.
LEMMA AdvanceKeeps ==
  ASSUME ExactInv, Quiet, NEW p \in Proc, Advance(p)
  PROVE  Exact'
<1>1. Exact /\ Building(p) /\ pc[p] = "advance" /\ ControlOK
  BY Zenon DEF ExactInv, OnceInv, Advance, Building
<1>2. PICK k \in RowsAfter(key[p]) :
        (\A j \in RowsAfter(key[p]) : k <= j) /\ key' = [key EXCEPT ![p] = k]
  BY Zenon DEF Advance
<1>3. /\ pc' = [pc EXCEPT ![p] = "evaluate"]
      /\ UNCHANGED <<table, entry, count, total, done, trigger, val, may>>
  BY Zenon DEF Advance, Goto, xref
<1>4. /\ key'[p] = k /\ pc'[p] = "evaluate" /\ k \in Key /\ table[k] # NoRow
      /\ \A q \in Proc : q # p => key'[q] = key[q] /\ val'[q] = val[q]
  BY <1>1, <1>2, <1>3, Zenon DEF Exact, DataOK, ControlOK, RowsAfter
<1>5. \A j \in Key : table[j] # NoRow => (j <= key[p] <=> j <= k - 1)
  <2>1. key[p] \in Nat /\ \A j \in Key : j \in Nat
    BY <1>1, XrefAssumption DEF Exact, DataOK, Key
  <2> QED
    BY <1>2, <2>1, SMTT(60) DEF RowsAfter
<1>6. /\ \A v \in Value : With(table, v, key[p]) = With(table, v, k - 1)
      /\ Full(table, key[p]) = Full(table, k - 1)
  BY <1>5, XrefAssumption, Zenon DEF With, Full
<1>7. CoversTo(table, entry, k - 1) /\ TotalTo(table, may, total, k - 1) /\ CountsTo(table, may, count, k - 1)
  <2>1. CoversTo(table, entry, key[p]) /\ TotalTo(table, may, total, key[p]) /\ CountsTo(table, may, count, key[p])
    BY <1>1, Zenon DEF Exact, BuiltTo
  <2>2. CoversTo(table, entry, k - 1)
    <3>1. \A j \in Key, v \in Value : table[j] = v => table[j] # NoRow
      BY XrefAssumption, Zenon
    <3> QED
      BY <1>5, <2>1, <3>1, Zenon DEF CoversTo
  <2>3. TotalTo(table, may, total, k - 1)
    BY <1>6, <2>1, Zenon DEF TotalTo
  <2>4. CountsTo(table, may, count, k - 1)
    BY <1>6, <2>1, Zenon DEF CountsTo
  <2> QED
    BY <2>2, <2>3, <2>4, Zenon
<1>8. DataOK'
  <2>1. key \in [Proc -> 0 .. NumRows] /\ k \in 0 .. NumRows
    BY <1>1, <1>4, XrefAssumption DEF Exact, DataOK, Key
  <2>2. key' \in [Proc -> 0 .. NumRows]
    BY <1>2, <2>1, Zenon
  <2> QED
    BY <1>1, <1>3, <2>2, ZenonT(60) DEF Exact, DataOK
<1>9. BuiltTo(p)'
  BY <1>1, <1>3, <1>4, <1>7, Zenon DEF Exact, BuiltTo, Row, Inside
<1> QED
  BY <1>1, <1>3, <1>4, <1>8, <1>9, ReaderKeeps, Zenon DEF Inside

\* The row is read.
LEMMA EvaluateKeeps ==
  ASSUME ExactInv, Quiet, NEW p \in Proc, Evaluate(p) \/ Reevaluate(p)
  PROVE  Exact'
<1>1. Exact /\ Building(p) /\ ControlOK
  BY Zenon DEF ExactInv, OnceInv, Evaluate, Reevaluate, Building
<1>2. PICK l \in {"entry", "count"} :
        /\ pc' = [pc EXCEPT ![p] = l]
        /\ \/ l = "entry" /\ pc[p] = "evaluate"
           \/ l = "count" /\ pc[p] = "reevaluate"
  BY Zenon DEF Evaluate, Reevaluate, Goto
<1>3. /\ val' = [val EXCEPT ![p] = ColumnOf(key[p])]
      /\ UNCHANGED <<table, entry, count, total, done, trigger, key, may>>
  BY Zenon DEF Evaluate, Reevaluate, xref
<1>4. Row(p) /\ ColumnOf(key[p]) = table[key[p]] /\ table[key[p]] \in Index
  BY <1>1, <1>2, ZenonT(60) DEF Exact, BuiltTo, DataOK, Row, ColumnOf
<1>5. DataOK'
  BY <1>1, <1>3, <1>4, Zenon DEF Exact, DataOK
<1>6. BuiltTo(p)'
  BY <1>1, <1>2, <1>3, <1>4, Zenon DEF Exact, DataOK, ControlOK, BuiltTo, Row, Inside
<1>7. \A q \in Proc : q # p => key'[q] = key[q] /\ val'[q] = val[q]
  BY <1>1, <1>3, Zenon DEF Exact, DataOK
<1> QED
  BY <1>1, <1>2, <1>3, <1>5, <1>6, <1>7, ReaderKeeps, Zenon DEF Inside

\* The entry of the row.
LEMMA SetEntryKeeps ==
  ASSUME ExactInv, Quiet, NEW p \in Proc, SetEntry(p)
  PROVE  Exact'
<1>1. Exact /\ Building(p) /\ ControlOK /\ pc[p] = "entry"
  BY Zenon DEF ExactInv, OnceInv, SetEntry, Building
<1>2. /\ pc' = [pc EXCEPT ![p] = "total"]
      /\ entry' = entry \cup {<<val[p], key[p]>>}
      /\ UNCHANGED <<table, count, total, done, trigger, key, val, may>>
  BY Zenon DEF SetEntry, Goto
<1>3. Row(p) /\ val[p] = table[key[p]] /\ val[p] \in Index
  BY <1>1, Zenon DEF Exact, BuiltTo, DataOK, Row
<1>4. DataOK'
  BY <1>1, <1>2, <1>3 DEF Exact, DataOK, Row
<1>5. \A v, j : <<v, j>> \in entry' <=> <<v, j>> \in entry \/ (v = val[p] /\ j = key[p])
  BY <1>2, Zenon
<1>6. CoversTo(table, entry', key[p])
  <2>1. \A j \in Key : j <= key[p] <=> j <= key[p] - 1 \/ j = key[p]
    BY <1>3, XrefAssumption, SMTT(60) DEF Row, Key
  <2>2. CoversTo(table, entry, key[p] - 1)
    BY <1>1, Zenon DEF Exact, BuiltTo
  <2> QED
    BY <1>3, <1>5, <2>1, <2>2, Zenon DEF CoversTo
<1>7. NoStray(table, entry')
  <2>1. NoStray(table, entry)
    BY <1>1, Zenon DEF Exact
  <2> QED
    BY <1>3, <1>5, <2>1, Zenon DEF NoStray
<1>8. BuiltTo(p)'
  BY <1>1, <1>2, <1>3, <1>6, Zenon DEF Exact, ControlOK, BuiltTo, Row, Inside
<1>9. entry \subseteq entry' /\ total' >= total /\ \A v \in Value : count'[v] >= count[v]
  BY <1>1, <1>2 DEF Exact, DataOK, Index
<1> QED
  BY <1>1, <1>2, <1>4, <1>7, <1>8, <1>9, BuilderKeeps, ZenonT(60) DEF Inside

\* The total: it is never negative, so the IF goes on.
LEMMA IncrementTotalKeeps ==
  ASSUME ExactInv, Quiet, NEW p \in Proc, IncrementTotal(p)
  PROVE  Exact'
<1>1. Exact /\ Building(p) /\ ControlOK /\ pc[p] = "total"
  BY Zenon DEF ExactInv, OnceInv, IncrementTotal, Building
<1>2. Row(p) /\ DataOK /\ TotalTo(table, may, total, key[p] - 1)
  BY <1>1, Zenon DEF Exact, BuiltTo
<1>3. key[p] \in Key
  BY <1>2, Zenon DEF Row
<1>4. Cardinality(Full(table, key[p] - 1)) \in Nat
  <2>1. Full(table, key[p] - 1) \in SUBSET Key
    BY Zenon DEF Full
  <2> QED
    BY <2>1, CountRows, Zenon
<1>5. total \in Int /\ total >= 0
  BY <1>2, <1>4 DEF DataOK, TotalTo
<1>6. /\ pc' = [pc EXCEPT ![p] = "reevaluate"]
      /\ total' = total + 1
      /\ UNCHANGED <<table, entry, count, done, trigger, key, val, may>>
  <2>1. total + 1 # 0
    BY <1>5
  <2> QED
    BY <2>1, Zenon DEF IncrementTotal, Goto
<1>7. DataOK'
  BY <1>2, <1>5, <1>6, SMTT(60) DEF DataOK
<1>8. TotalTo(table, may, total + 1, key[p])
  <2>1. Cardinality(Full(table, key[p])) =
          Cardinality(Full(table, key[p] - 1)) + (IF table[key[p]] \in Value THEN 1 ELSE 0)
    BY <1>2, <1>3, OneMore, Zenon
  <2>2. "empty" \notin may => table[key[p]] \in Value
    BY <1>2, <1>3, Zenon DEF DataOK, Row, Index
  <2> QED
    BY <1>2, <1>4, <1>5, <2>1, <2>2, SMTT(60) DEF TotalTo
<1>9. BuiltTo(p)'
  <2>1. pc'[p] = "reevaluate" /\ TotalTo(table', may', total', key'[p])
    BY <1>1, <1>6, <1>8, Zenon DEF ControlOK
  <2>2. trigger /\ CoversTo(table, entry, key[p]) /\ CountsTo(table, may, count, key[p] - 1)
    BY <1>1, Zenon DEF Exact, BuiltTo, Inside
  <2> QED
    BY <1>2, <1>6, <2>1, <2>2, Zenon DEF BuiltTo, Row, Inside
<1>10. NoStray(table, entry') /\ total' >= total /\ \A v \in Value : count'[v] >= count[v]
  BY <1>1, <1>5, <1>6 DEF Exact, DataOK, Index
<1> QED
  BY <1>1, <1>6, <1>7, <1>9, <1>10, BuilderKeeps, Zenon DEF Inside

\* The count of the row's value.
LEMMA IncrementCountKeeps ==
  ASSUME ExactInv, Quiet, NEW p \in Proc, IncrementCount(p)
  PROVE  Exact'
<1>1. Exact /\ Building(p) /\ ControlOK /\ pc[p] = "count"
  BY Zenon DEF ExactInv, OnceInv, IncrementCount, Building
<1>2. /\ pc' = [pc EXCEPT ![p] = "advance"]
      /\ count' = [count EXCEPT ![val[p]] = @ + 1]
      /\ UNCHANGED <<table, entry, total, done, trigger, key, val, may>>
  BY Zenon DEF IncrementCount, Goto
<1>3. Row(p) /\ DataOK /\ val[p] = table[key[p]] /\ CountsTo(table, may, count, key[p] - 1)
  BY <1>1, Zenon DEF Exact, BuiltTo, Inside
<1>4. key[p] \in Key /\ val[p] \in Index
  BY <1>3, Zenon DEF Row, DataOK
<1>5. DataOK'
  BY <1>2, <1>3, <1>4, SMTT(60) DEF DataOK
<1>6. ASSUME NEW v \in Value
      PROVE  count[v] \in Int /\ count'[v] = count[v] + (IF table[key[p]] = v THEN 1 ELSE 0)
  BY <1>2, <1>3, <1>4 DEF DataOK, Index
<1>7. "empty" \notin may => count'[Empty] = count[Empty]
  <2>1. "empty" \notin may => val[p] # Empty
    BY <1>3, <1>4, Zenon DEF DataOK
  <2>2. val[p] # Empty => count'[Empty] = count[Empty]
    BY <1>2, <1>3, Zenon DEF DataOK, Index
  <2> QED
    BY <2>1, <2>2, Zenon
<1>8. CountsTo(table, may, count', key[p])
  <2>1. ASSUME NEW v \in Value
        PROVE  /\ count'[v] >= Cardinality(With(table, v, key[p]))
               /\ "expires" \notin may => count'[v] = Cardinality(With(table, v, key[p]))
    <3>1. Cardinality(With(table, v, key[p])) =
            Cardinality(With(table, v, key[p] - 1)) + (IF table[key[p]] = v THEN 1 ELSE 0)
      BY <1>3, <1>4, OneMore, Zenon
    <3>2. /\ count[v] >= Cardinality(With(table, v, key[p] - 1))
          /\ "expires" \notin may => count[v] = Cardinality(With(table, v, key[p] - 1))
      BY <1>3, Zenon DEF CountsTo
    <3>3. Cardinality(With(table, v, key[p] - 1)) \in Nat
      <4>1. With(table, v, key[p] - 1) \in SUBSET Key
        BY Zenon DEF With
      <4> QED
        BY <4>1, CountRows, Zenon
    <3> QED
      BY <1>6, <3>1, <3>2, <3>3, SMTT(60)
  <2>2. "empty" \notin may => count'[Empty] = 0
    BY <1>3, <1>7, Zenon DEF CountsTo
  <2> QED
    BY <2>1, <2>2, Zenon DEF CountsTo
<1>9. BuiltTo(p)'
  BY <1>1, <1>2, <1>3, <1>8, Zenon DEF Exact, ControlOK, BuiltTo, Row, Inside
<1>10. NoStray(table, entry') /\ total' >= total /\ \A v \in Value : count'[v] >= count[v]
  BY <1>1, <1>2, <1>6 DEF Exact, DataOK
<1> QED
  BY <1>1, <1>2, <1>5, <1>7, <1>9, <1>10, BuilderKeeps, ZenonT(60) DEF Inside

\* The loop has seen all rows.
LEMMA FinishKeeps ==
  ASSUME ExactInv, Quiet, NEW p \in Proc, Finish(p)
  PROVE  Exact'
<1>1. Exact /\ ControlOK /\ pc[p] = "advance"
  BY Zenon DEF ExactInv, OnceInv, Finish
<1>2. /\ pc' = [pc EXCEPT ![p] = "idle"] /\ done' = TRUE
      /\ UNCHANGED <<table, entry, count, total, trigger, key, val, may>>
  BY Zenon DEF Finish, Goto, xref
<1>3. \A j \in Key : table[j] # NoRow => (j <= key[p] <=> j <= NumRows)
  <2>1. key[p] \in Nat /\ key[p] <= NumRows /\ \A j \in Key : j \in Nat /\ j <= NumRows
    BY <1>1, XrefAssumption DEF Exact, DataOK, Key
  <2> QED
    BY <2>1, XrefAssumption, SMTT(60) DEF Finish, RowsAfter
<1>4. /\ \A v \in Value : With(table, v, key[p]) = With(table, v, NumRows)
      /\ Full(table, key[p]) = Full(table, NumRows)
  BY <1>3, XrefAssumption, Zenon DEF With, Full
<1>5. Kept'
  <2>1. /\ trigger /\ CoversTo(table, entry, key[p])
        /\ TotalTo(table, may, total, key[p]) /\ CountsTo(table, may, count, key[p])
    BY <1>1, Zenon DEF Exact, BuiltTo, Inside
  <2>2. CoversTo(table, entry, NumRows)
    BY <1>3, <2>1, XrefAssumption, Zenon DEF CoversTo
  <2>3. TotalTo(table, may, total, NumRows) /\ CountsTo(table, may, count, NumRows)
    BY <1>4, <2>1, Zenon DEF TotalTo, CountsTo
  <2> QED
    BY <1>2, <2>1, <2>2, <2>3, Zenon DEF Kept
<1>6. DataOK' /\ Fresh' /\ NoStray(table', entry')
  BY <1>1, <1>2, Zenon DEF Exact, DataOK, Fresh
<1>7. ASSUME NEW q \in Proc PROVE BuiltTo(q)'
  <2>1. CASE q = p
    <3>1. pc'[q] \notin Inside
      BY <1>1, <1>2, <2>1, Zenon DEF ControlOK, Inside
    <3> QED
      BY <3>1, Zenon DEF BuiltTo, Inside
  <2>2. CASE q # p
    <3>1. pc'[q] = pc[q]
      BY <1>1, <1>2, <2>2, Zenon DEF ControlOK
    <3>2. BuiltTo(q)
      BY <1>1, Zenon DEF Exact
    <3> QED
      BY <1>2, <3>1, <3>2, ZenonT(60) DEF BuiltTo, Row
  <2> QED
    BY <2>1, <2>2, Zenon
<1> QED
  BY <1>5, <1>6, <1>7, Zenon DEF Exact

----------------------------------------------------------------------------
(* handleSet *)

\* The entries are those of the rows.
Indexed(t, e) == \A v \in Value, j \in Key : <<v, j>> \in e <=> t[j] = v

LEMMA DoneIndexed ==
  ASSUME Exact, done
  PROVE  Indexed(table, entry)
<1>1. \A j \in Key : j <= NumRows
  BY XrefAssumption DEF Key
<1> QED
  BY <1>1, Zenon DEF Exact, Kept, CoversTo, NoStray, Indexed

LEMMA IndexedKept ==
  ASSUME Indexed(table', entry')
  PROVE  CoversTo(table', entry', NumRows) /\ NoStray(table', entry')
  BY Zenon DEF Indexed, CoversTo, NoStray

\* A set of rows that one row joins, leaves or stays in
LEMMA Toggled ==
  ASSUME NEW A \in SUBSET Key, NEW B \in SUBSET Key, NEW k \in Key, A \ {k} = B \ {k}
  PROVE  Cardinality(B) = Cardinality(A) + (IF k \in B THEN 1 ELSE 0) - (IF k \in A THEN 1 ELSE 0)
<1>1. ASSUME NEW S \in SUBSET Key
      PROVE  Cardinality(S) = Cardinality(S \ {k}) + (IF k \in S THEN 1 ELSE 0)
  <2>1. S \ {k} \in SUBSET Key /\ k \notin S \ {k} /\ Cardinality(S \ {k}) \in Nat
    BY CountRows, Zenon
  <2>2. CASE k \in S
    <3>1. S = (S \ {k}) \cup {k}
      BY <2>2, Zenon
    <3> QED
      BY <2>1, <2>2, <3>1, CountRows
  <2>3. CASE k \notin S
    <3>1. S = S \ {k}
      BY <2>3, Zenon
    <3> QED
      BY <2>1, <2>3, <3>1
  <2> QED
    BY <2>2, <2>3, Zenon
<1>2. /\ Cardinality(A) = Cardinality(A \ {k}) + (IF k \in A THEN 1 ELSE 0)
      /\ Cardinality(B) = Cardinality(A \ {k}) + (IF k \in B THEN 1 ELSE 0)
  BY <1>1, Zenon
<1>3. Cardinality(A \ {k}) \in Nat
  BY CountRows, Zenon
<1> QED
  BY <1>2, <1>3

\* The rows of table t with a value in V
Cells(t, V) == {j \in Key : t[j] \in V}

LEMMA Changed ==
  \A V, f, t : \A k \in Key : (\A j \in Key : j # k => t[j] = f[j]) =>
    Cardinality(Cells(t, V)) = Cardinality(Cells(f, V)) + (IF t[k] \in V THEN 1 ELSE 0)
                                                        - (IF f[k] \in V THEN 1 ELSE 0)
<1> SUFFICES ASSUME NEW V, NEW k \in Key, NEW f, NEW t, \A j \in Key : j # k => t[j] = f[j]
             PROVE  Cardinality(Cells(t, V)) = Cardinality(Cells(f, V)) + (IF t[k] \in V THEN 1 ELSE 0)
                                                                        - (IF f[k] \in V THEN 1 ELSE 0)
  BY Zenon
<1>1. /\ Cells(t, V) \in SUBSET Key /\ Cells(f, V) \in SUBSET Key
      /\ Cells(f, V) \ {k} = Cells(t, V) \ {k}
      /\ k \in Cells(t, V) <=> t[k] \in V
      /\ k \in Cells(f, V) <=> f[k] \in V
  BY Zenon DEF Cells
<1>2. Cardinality(Cells(t, V)) = Cardinality(Cells(f, V)) + (IF k \in Cells(t, V) THEN 1 ELSE 0)
                                                          - (IF k \in Cells(f, V) THEN 1 ELSE 0)
  BY <1>1, Toggled
<1>3. /\ (IF k \in Cells(t, V) THEN 1 ELSE 0) = (IF t[k] \in V THEN 1 ELSE 0)
      /\ (IF k \in Cells(f, V) THEN 1 ELSE 0) = (IF f[k] \in V THEN 1 ELSE 0)
  BY <1>1, Zenon
<1> QED
  BY <1>2, <1>3, Zenon

LEMMA Replaced ==
  \A f, t : \A k \in Key : (\A j \in Key : j # k => t[j] = f[j]) =>
    /\ \A v \in Value : Cardinality(With(t, v, NumRows)) =
         Cardinality(With(f, v, NumRows)) + (IF t[k] = v THEN 1 ELSE 0) - (IF f[k] = v THEN 1 ELSE 0)
    /\ Cardinality(Full(t, NumRows)) =
         Cardinality(Full(f, NumRows)) + (IF t[k] \in Value THEN 1 ELSE 0)
                                       - (IF f[k] \in Value THEN 1 ELSE 0)
<1>1. SUFFICES ASSUME NEW f, NEW t, NEW k \in Key, \A j \in Key : j # k => t[j] = f[j]
               PROVE  /\ \A v \in Value : Cardinality(With(t, v, NumRows)) =
                           Cardinality(With(f, v, NumRows)) + (IF t[k] = v THEN 1 ELSE 0) - (IF f[k] = v THEN 1 ELSE 0)
                      /\ Cardinality(Full(t, NumRows)) =
                           Cardinality(Full(f, NumRows)) + (IF t[k] \in Value THEN 1 ELSE 0)
                                                         - (IF f[k] \in Value THEN 1 ELSE 0)
  BY Zenon
<1>2. \A j \in Key : j <= NumRows
  BY XrefAssumption DEF Key
<1>3. ASSUME NEW v \in Value
      PROVE  Cardinality(With(t, v, NumRows)) =
               Cardinality(With(f, v, NumRows)) + (IF t[k] = v THEN 1 ELSE 0) - (IF f[k] = v THEN 1 ELSE 0)
  <2> DEFINE V == {v}
  <2>1. With(f, v, NumRows) = Cells(f, V) /\ With(t, v, NumRows) = Cells(t, V)
    BY <1>2, Zenon DEF With, Cells
  <2>2. (t[k] \in V <=> t[k] = v) /\ (f[k] \in V <=> f[k] = v)
    BY Zenon
  <2> HIDE DEF V
  <2>3. Cardinality(Cells(t, V)) = Cardinality(Cells(f, V)) + (IF t[k] \in V THEN 1 ELSE 0)
                                                            - (IF f[k] \in V THEN 1 ELSE 0)
    BY <1>1, Changed, Zenon
  <2> QED
    BY <2>1, <2>2, <2>3, Zenon
<1>4. Cardinality(Full(t, NumRows)) =
        Cardinality(Full(f, NumRows)) + (IF t[k] \in Value THEN 1 ELSE 0)
                                      - (IF f[k] \in Value THEN 1 ELSE 0)
  <2>1. Full(f, NumRows) = Cells(f, Value) /\ Full(t, NumRows) = Cells(t, Value)
    BY <1>2, Zenon DEF Full, Cells
  <2>2. Cardinality(Cells(t, Value)) = Cardinality(Cells(f, Value)) + (IF t[k] \in Value THEN 1 ELSE 0)
                                                                    - (IF f[k] \in Value THEN 1 ELSE 0)
    BY <1>1, Changed, Zenon
  <2> QED
    BY <2>1, <2>2, Zenon
<1> QED
  BY <1>3, <1>4, Zenon

\* The count of the old value tells whether other rows have it: the value node is
\* killed with no entry under it.
LEMMA PrunedExact ==
  ASSUME DataOK, Indexed(table, entry), NEW k \in Key, table[k] \in Value
  PROVE  \A c : c[table[k]] >= Cardinality(With(table, table[k], NumRows)) - 1 /\ c[table[k]] \in Int =>
           \A v \in Value, j \in Key :
             <<v, j>> \in Pruned(entry \ {<<table[k], k>>}, c, {table[k]}) <=> table[j] = v /\ j # k
<1> DEFINE old == table[k]
<1> SUFFICES ASSUME NEW c, NEW v \in Value, NEW j \in Key,
                    c[old] >= Cardinality(With(table, old, NumRows)) - 1, c[old] \in Int
             PROVE  <<v, j>> \in Pruned(entry \ {<<old, k>>}, c, {old}) <=> table[j] = v /\ j # k
  BY Zenon
<1> DEFINE e == entry \ {<<old, k>>}
<1>1. \A i \in Key : i <= NumRows
  BY XrefAssumption DEF Key
<1>2. <<v, j>> \in entry <=> table[j] = v
  BY Zenon DEF Indexed
<1>3. <<v, j>> \in e <=> table[j] = v /\ j # k
  BY <1>2, ZenonT(60)
<1>4. ASSUME table[j] = old, j # k PROVE c[old] # 0
  <2>1. With(table, old, NumRows) \in SUBSET Key /\ k \in With(table, old, NumRows)
    BY <1>1, Zenon DEF With
  <2>2. j \in With(table, old, NumRows) \ {k}
    BY <1>1, <1>4, Zenon DEF With
  <2>3. With(table, old, NumRows) \ {k} \in SUBSET Key /\ With(table, old, NumRows) \ {k} # {}
    BY <2>1, <2>2, Zenon
  <2>4. Cardinality(With(table, old, NumRows) \ {k}) # 0
    BY <2>3, CountRows, Zenon
  <2>6. Cardinality(With(table, old, NumRows)) \in Nat /\ Cardinality(With(table, old, NumRows) \ {k}) \in Nat
    BY <2>1, <2>3, CountRows, Zenon
  <2>5. Cardinality(With(table, old, NumRows) \ {k}) = Cardinality(With(table, old, NumRows)) - 1
    BY <2>1, CountRows, Zenon
  <2> QED
    BY <2>4, <2>5, <2>6
<1> QED
  BY <1>3, <1>4, Zenon DEF Pruned

\* An update leaves the builders alone: there is none.  It is the trigger that has
\* to keep the cross reference up to date.
LEMMA UpdateKeeps ==
  ASSUME ExactInv, Quiet, MayUpdate, NEW k \in Key, NEW x \in Index \cup {NoRow},
         "empty" \notin may => x # Empty, table' = [table EXCEPT ![k] = x],
         UNCHANGED <<done, trigger, pc, key, val, may>>,
         ~trigger => UNCHANGED <<entry, count, total>>,
         trigger /\ Kept /\ done => /\ entry' \subseteq Index \X Key
                    /\ count' \in [Index -> Int] /\ total' \in Int
                    /\ Indexed(table', entry') /\ TotalTo(table', may, total', NumRows)
                    /\ CountsTo(table', may, count', NumRows)
  PROVE  Exact'
<1>1. Exact /\ \A p \in Proc : pc[p] \notin Inside
  BY Zenon DEF ExactInv, Quiet, MayUpdate, Building, Inside
<1>2. trigger => done
  BY <1>1, Zenon DEF Exact, Fresh
<1>3. Kept
  BY <1>1, Zenon DEF Exact
<1>4. /\ table' \in [Key -> Index \cup {NoRow}]
      /\ "empty" \notin may' => \A j \in Key : table'[j] # Empty
  BY <1>1, Zenon DEF Exact, DataOK
<1>5. entry' \subseteq Index \X Key /\ count' \in [Index -> Int] /\ total' \in Int
  BY <1>1, <1>2, <1>3, Zenon DEF Exact, DataOK
<1>6. DataOK'
  BY <1>1, <1>4, <1>5, Zenon DEF Exact, DataOK
<1>7. Fresh'
  BY <1>1, <1>2, Zenon DEF Exact, Fresh
<1>8. \A p \in Proc : BuiltTo(p)'
  BY <1>1, Zenon DEF BuiltTo, Inside
<1>9. Kept' /\ NoStray(table', entry')
  <2>1. CASE trigger
    BY <1>2, <1>3, <2>1, IndexedKept, Zenon DEF Kept
  <2>2. CASE ~trigger
    <3>1. ~done /\ entry' = {}
      BY <1>1, <1>3, <2>2, ZenonT(60) DEF Exact, Kept, Fresh
    <3> QED
      BY <3>1, Zenon DEF Kept, NoStray
  <2> QED
    BY <2>1, <2>2, Zenon
<1> QED
  BY <1>6, <1>7, <1>8, <1>9, Zenon DEF Exact

\* What the update of a row changes
LEMMA RowChanged ==
  ASSUME NEW k \in Key, NEW x, table'[k] = x, \A j \in Key : j # k => table'[j] = table[j]
  PROVE  /\ \A v \in Value : Cardinality(With(table', v, NumRows)) =
              Cardinality(With(table, v, NumRows)) + (IF x = v THEN 1 ELSE 0)
                                                   - (IF table[k] = v THEN 1 ELSE 0)
         /\ Cardinality(Full(table', NumRows)) =
              Cardinality(Full(table, NumRows)) + (IF x \in Value THEN 1 ELSE 0)
                                                - (IF table[k] \in Value THEN 1 ELSE 0)
<1>1. /\ \A v \in Value : Cardinality(With(table', v, NumRows)) =
           Cardinality(With(table, v, NumRows)) + (IF table'[k] = v THEN 1 ELSE 0)
                                                - (IF table[k] = v THEN 1 ELSE 0)
      /\ Cardinality(Full(table', NumRows)) =
           Cardinality(Full(table, NumRows)) + (IF table'[k] \in Value THEN 1 ELSE 0)
                                             - (IF table[k] \in Value THEN 1 ELSE 0)
  BY Replaced, Zenon
<1> QED
  BY <1>1, Zenon

\* handleSet moves the entry and both counts from the old value to the new one.
LEMMA SetRowKeeps ==
  ASSUME ExactInv, Quiet, NEW k \in Key, NEW x \in Column, SetRow(k, x)
  PROVE  Exact'
<1>1. /\ MayUpdate /\ table[k] # x /\ table' = [table EXCEPT ![k] = x]
      /\ UNCHANGED <<done, trigger, pc, key, val, may>>
  BY Zenon DEF SetRow
<1>2. /\ DataOK /\ table[k] \in Index \cup {NoRow}
      /\ x \in Index /\ ("empty" \notin may => x # Empty)
  BY XrefAssumption, Zenon DEF ExactInv, Exact, DataOK, Column, Index
<1>3. ~trigger => UNCHANGED <<entry, count, total>>
  BY Zenon DEF SetRow, xref
<1>4. ASSUME trigger, Kept, done
      PROVE  /\ entry' \subseteq Index \X Key
             /\ count' \in [Index -> Int] /\ total' \in Int
             /\ Indexed(table', entry') /\ TotalTo(table', may, total', NumRows)
             /\ CountsTo(table', may, count', NumRows)
  <2> DEFINE old == ColumnOf(k)
  <2>1. /\ table'[k] = x /\ \A j \in Key : j # k => table'[j] = table[j]
        /\ \A v \in Value : Cardinality(With(table', v, NumRows)) =
             Cardinality(With(table, v, NumRows)) + (IF x = v THEN 1 ELSE 0)
                                                  - (IF table[k] = v THEN 1 ELSE 0)
        /\ Cardinality(Full(table', NumRows)) =
             Cardinality(Full(table, NumRows)) + (IF x \in Value THEN 1 ELSE 0)
                                               - (IF table[k] \in Value THEN 1 ELSE 0)
    <3>1. table'[k] = x /\ \A j \in Key : j # k => table'[j] = table[j]
      BY <1>1, <1>2, Zenon DEF DataOK
    <3> QED
      BY <3>1, RowChanged, Zenon
  <2>2. /\ old \in Index
        /\ \A v \in Value : table[k] = v <=> old = v
        /\ table[k] \in Value <=> old # Empty
        /\ x \in Value <=> x # Empty
    BY <1>2, XrefAssumption, Zenon DEF ColumnOf, Index
  <2>3. /\ Indexed(table, entry)
        /\ TotalTo(table, may, total, NumRows) /\ CountsTo(table, may, count, NumRows)
    BY <1>4, DoneIndexed, Zenon DEF Kept, ExactInv
  <2>4. \A j \in Key : j <= NumRows
    BY XrefAssumption DEF Key
  <2>5. /\ \A v \in Value : Cardinality(With(table, v, NumRows)) \in Nat
        /\ Cardinality(Full(table, NumRows)) \in Nat
    <3>1. /\ \A v \in Value : With(table, v, NumRows) \in SUBSET Key
          /\ Full(table, NumRows) \in SUBSET Key
      BY Zenon DEF With, Full
    <3> QED
      BY <3>1, CountRows, Zenon
  <2> HIDE DEF old
  <2>6. CASE old = x
    <3>1. UNCHANGED <<entry, count, total>>
      BY <2>6, Zenon DEF SetRow, xref, old
    <3>2. x \notin Value /\ table[k] \notin Value
      BY <1>1, <1>2, <2>2, <2>6, ZenonT(60) DEF ColumnOf, old, Index
    <3>3. Indexed(table', entry')
      BY <2>1, <2>3, <3>1, <3>2, ZenonT(60) DEF Indexed
    <3>4. Cardinality(Full(table', NumRows)) = Cardinality(Full(table, NumRows))
      BY <2>1, <2>5, <3>2, SMTT(60)
    <3>5. \A v \in Value : Cardinality(With(table', v, NumRows)) = Cardinality(With(table, v, NumRows))
      BY <2>1, <2>5, <3>2, SMTT(60)
    <3> QED
      BY <1>2, <2>3, <3>1, <3>3, <3>4, <3>5, ZenonT(60) DEF TotalTo, CountsTo, DataOK
  <2>7. CASE old # x
    <3>1. TriggerSet(k, old, x)
      BY <1>4, <2>7, Zenon DEF SetRow, old
    <3>2. count' = CountAfterSet(old, x)
      BY <3>1, Zenon DEF TriggerSet
    <3>3. total' = total + (IF x = Empty THEN 0 ELSE 1) - (IF old = Empty THEN 0 ELSE 1)
      BY <3>1, Zenon DEF TriggerSet
    <3>4. count' \in [Index -> Int] /\ total' \in Int
      BY <1>2, <3>2, <3>3, SMTT(60) DEF CountAfterSet, DataOK
    <3>5. TotalTo(table', may, total', NumRows)
      BY <1>2, <2>1, <2>2, <2>3, <2>5, <3>3, SMTT(60) DEF TotalTo, DataOK
    <3>6. CountsTo(table', may, count', NumRows)
      <4>1. ASSUME NEW v \in Value
            PROVE  /\ count'[v] >= Cardinality(With(table', v, NumRows))
                   /\ "expires" \notin may => count'[v] = Cardinality(With(table', v, NumRows))
        <5>1. count'[v] = count[v] + (IF v = x THEN 1 ELSE 0) - (IF v = old THEN 1 ELSE 0)
          BY <3>2, XrefAssumption, Zenon DEF CountAfterSet, Index
        <5>2. /\ count[v] >= Cardinality(With(table, v, NumRows)) /\ count[v] \in Int
              /\ "expires" \notin may => count[v] = Cardinality(With(table, v, NumRows))
          BY <1>2, <2>3, Zenon DEF CountsTo, DataOK, Index
        <5>3. Cardinality(With(table', v, NumRows)) =
                Cardinality(With(table, v, NumRows)) + (IF x = v THEN 1 ELSE 0)
                                                     - (IF old = v THEN 1 ELSE 0)
          BY <2>1, <2>2, ZenonT(60)
        <5> QED
          BY <2>5, <5>1, <5>2, <5>3, SMTT(60)
      <4>2. count'[Empty] = count[Empty]
        BY <1>2, <3>2, SMTT(60) DEF CountAfterSet, Index, DataOK
      <4> QED
        BY <2>3, <4>1, <4>2, ZenonT(60) DEF CountsTo
    <3>7. Indexed(table', entry') /\ entry' \subseteq Index \X Key
      <4> DEFINE less == [count EXCEPT ![old] = @ - 1]
                 kept == IF old = Empty THEN entry ELSE Pruned(Unindexed(k, old), less, {old})
      <4>1. entry' = IF x = Empty THEN kept ELSE kept \cup {<<x, k>>}
        BY <3>1, Zenon DEF TriggerSet
      <4>2. kept \subseteq entry
        BY Zenon DEF Pruned, Unindexed
      <4>3. \A v \in Value, j \in Key : <<v, j>> \in kept <=> table[j] = v /\ j # k
        <5>1. CASE old = Empty
          <6>1. table[k] \notin Value
            BY <2>2, <5>1, Zenon
          <6> QED
            BY <2>3, <2>4, <5>1, <6>1, ZenonT(60) DEF Indexed
        <5>2. CASE old # Empty
          <6>1. old \in Value /\ table[k] = old
            BY <2>2, <5>2, Zenon DEF Index
          <6>2. less[old] >= Cardinality(With(table, old, NumRows)) - 1 /\ less[old] \in Int
            <7>1. count[old] \in Int /\ less[old] = count[old] - 1
              BY <1>2, <2>2, Zenon DEF DataOK
            <7>2. count[old] >= Cardinality(With(table, old, NumRows)) /\ Cardinality(With(table, old, NumRows)) \in Nat
              BY <2>3, <2>5, <6>1, Zenon DEF CountsTo
            <7> QED
              BY <7>1, <7>2, SMTT(60)
          <6> HIDE DEF less
          <6>3. \A v \in Value, j \in Key :
                  <<v, j>> \in Pruned(entry \ {<<old, k>>}, less, {old}) <=> table[j] = v /\ j # k
            BY <1>2, <2>3, <6>1, <6>2, PrunedExact, ZenonT(60)
          <6> QED
            BY <5>2, <6>3, Zenon DEF Unindexed
        <5> QED
          BY <5>1, <5>2, Zenon
      <4> HIDE DEF kept
      <4>4. entry' \subseteq Index \X Key
        BY <1>2, <4>1, <4>2, SMTT(60) DEF DataOK
      <4>5. Indexed(table', entry')
        BY <2>1, <2>2, <2>4, <4>1, <4>3, ZenonT(60) DEF Indexed
      <4> QED
        BY <4>4, <4>5, Zenon
    <3> QED
      BY <3>4, <3>5, <3>6, <3>7, Zenon
  <2> QED
    BY <2>6, <2>7, Zenon
<1> QED
  BY <1>1, <1>2, <1>3, <1>4, UpdateKeeps, Zenon

\* KILL of a row with a value: the total says whether it was the last one.
LEMMA KillRowKeeps ==
  ASSUME ExactInv, Quiet, NEW k \in Key, KillRow(k)
  PROVE  Exact'
<1>1. /\ MayUpdate /\ table[k] # NoRow /\ table' = [table EXCEPT ![k] = NoRow]
      /\ UNCHANGED <<done, trigger, pc, key, val, may>>
  BY Zenon DEF KillRow
<1>2. DataOK /\ NoRow # Empty /\ NoRow \notin Value
  BY XrefAssumption, Zenon DEF ExactInv, Exact
<1>3. ~trigger => UNCHANGED <<entry, count, total>>
  BY Zenon DEF KillRow, xref
<1>4. ASSUME trigger, Kept, done
      PROVE  /\ entry' \subseteq Index \X Key
             /\ count' \in [Index -> Int] /\ total' \in Int
             /\ Indexed(table', entry') /\ TotalTo(table', may, total', NumRows)
             /\ CountsTo(table', may, count', NumRows)
  <2>1. /\ table'[k] = NoRow /\ \A j \in Key : j # k => table'[j] = table[j]
        /\ \A v \in Value : Cardinality(With(table', v, NumRows)) =
             Cardinality(With(table, v, NumRows)) + (IF NoRow = v THEN 1 ELSE 0)
                                                  - (IF table[k] = v THEN 1 ELSE 0)
        /\ Cardinality(Full(table', NumRows)) =
             Cardinality(Full(table, NumRows)) + (IF NoRow \in Value THEN 1 ELSE 0)
                                               - (IF table[k] \in Value THEN 1 ELSE 0)
    <3>1. table'[k] = NoRow /\ \A j \in Key : j # k => table'[j] = table[j]
      BY <1>1, <1>2, Zenon DEF DataOK
    <3> QED
      BY <3>1, RowChanged, Zenon
  <2>2. /\ Indexed(table, entry)
        /\ TotalTo(table, may, total, NumRows) /\ CountsTo(table, may, count, NumRows)
    BY <1>4, DoneIndexed, Zenon DEF Kept, ExactInv
  <2>3. \A j \in Key : j <= NumRows
    BY XrefAssumption DEF Key
  <2>4. /\ \A v \in Value : Cardinality(With(table, v, NumRows)) \in Nat
        /\ Cardinality(Full(table, NumRows)) \in Nat
    <3>1. /\ \A v \in Value : With(table, v, NumRows) \in SUBSET Key
          /\ Full(table, NumRows) \in SUBSET Key
      BY Zenon DEF With, Full
    <3> QED
      BY <3>1, CountRows, Zenon
  <2> DEFINE vs == {v \in Value : <<v, k>> \in entry}
             less == [v \in Index |-> IF v \in vs THEN count[v] - 1 ELSE count[v]]
  <2>5. TriggerKill(k)
    BY <1>4, Zenon DEF KillRow
  <2>6. vs = {v \in Value : table[k] = v}
    BY <2>2, <2>3, Zenon DEF Indexed
  <2>7. CASE table[k] \notin Value
    <3>1. vs = {} /\ Cardinality(vs) = 0
      BY <2>6, <2>7, FS_EmptySet, Zenon
    <3>2. total \notin 1 .. Cardinality(vs)
      BY <3>1
    <3>3. /\ entry' = Pruned(entry \ (vs \X {k}), less, vs)
          /\ count' = less /\ total' = total - Cardinality(vs)
      BY <2>5, <3>2, Zenon DEF TriggerKill
    <3>4. entry' = entry /\ total' = total
      <4>1. entry' = {n \in entry \ (vs \X {k}) : ~(n[1] \in vs /\ less[n[1]] = 0)}
        BY <3>3, Zenon DEF Pruned
      <4> HIDE DEF less, vs
      <4>2. entry' = entry
        BY <3>1, <4>1, Zenon
      <4>3. total' = total
        BY <1>2, <3>1, <3>3, SMTT(60) DEF DataOK
      <4> QED
        BY <4>2, <4>3, Zenon
    <3>5. count' = count
      BY <1>2, <3>1, <3>3, Zenon DEF DataOK
    <3>6. Indexed(table', entry')
      BY <1>2, <2>1, <2>2, <2>7, <3>4, ZenonT(60) DEF Indexed
    <3>7. Cardinality(Full(table', NumRows)) = Cardinality(Full(table, NumRows))
      BY <1>2, <2>1, <2>4, <2>7, SMTT(60)
    <3>8. \A v \in Value : Cardinality(With(table', v, NumRows)) = Cardinality(With(table, v, NumRows))
      BY <1>2, <2>1, <2>4, <2>7, SMTT(60)
    <3> QED
      BY <1>2, <2>2, <3>4, <3>5, <3>6, <3>7, <3>8, ZenonT(60) DEF TotalTo, CountsTo, DataOK
  <2>8. CASE table[k] \in Value
    <3>1. vs = {table[k]}
      BY <2>6, <2>8, Zenon
    <3>2. Cardinality(vs) = 1
      BY <3>1, FS_Singleton, Zenon
    <3>3. k \in Full(table, NumRows) /\ Full(table, NumRows) \in SUBSET Key
      BY <2>3, <2>8, Zenon DEF Full
    <3>4. Cardinality(Full(table, NumRows)) # 0
      BY <3>3, CountRows, Zenon
    <3>5. total \in Int /\ total >= Cardinality(Full(table, NumRows)) /\ total >= 1
      BY <1>2, <2>2, <2>4, <3>4, SMTT(60) DEF TotalTo, DataOK
    <3>6. Cardinality(Full(table', NumRows)) = Cardinality(Full(table, NumRows)) - 1
      BY <1>2, <2>1, <2>4, <2>8, SMTT(60)
    <3>7. CASE total = 1
      <4>1. entry' = {} /\ count' = [v \in Index |-> 0] /\ total' = 0
        BY <2>5, <3>2, <3>7, SMTT(60) DEF TriggerKill
      <4>2. Full(table', NumRows) = {} /\ Cardinality(Full(table', NumRows)) = 0
        <5>1. Cardinality(Full(table', NumRows)) = 0
          BY <2>4, <3>4, <3>5, <3>6, <3>7, SMTT(60)
        <5>2. Full(table', NumRows) \in SUBSET Key
          BY Zenon DEF Full
        <5> QED
          BY <5>1, <5>2, CountRows, Zenon
      <4>3. \A j \in Key : table'[j] \notin Value
        BY <2>3, <4>2, Zenon DEF Full
      <4>4. \A v \in Value : With(table', v, NumRows) = {}
        BY <4>3, Zenon DEF With
      <4>5. Indexed(table', entry')
        BY <4>1, <4>3, Zenon DEF Indexed
      <4>6. TotalTo(table', may, total', NumRows)
        BY <4>1, <4>2 DEF TotalTo
      <4>7. CountsTo(table', may, count', NumRows)
        <5>1. /\ \A v \in Value : count'[v] = 0 /\ Cardinality(With(table', v, NumRows)) = 0
              /\ count'[Empty] = 0
          BY <4>1, <4>4, FS_EmptySet, Zenon DEF Index
        <5>2. \A v \in Value : count'[v] >= Cardinality(With(table', v, NumRows))
          BY <5>1
        <5> QED
          BY <5>1, <5>2, Zenon DEF CountsTo
      <4> QED
        BY <4>1, <4>5, <4>6, <4>7, SMTT(60)
    <3>8. CASE total # 1
      <4>1. total \notin 1 .. Cardinality(vs)
        BY <3>2, <3>5, <3>8, SMTT(60)
      <4>2. /\ entry' = Pruned(entry \ (vs \X {k}), less, vs)
            /\ count' = less /\ total' = total - Cardinality(vs)
        BY <2>5, <4>1, Zenon DEF TriggerKill
      <4>3. \A v \in Index : less[v] = IF v = table[k] THEN count[v] - 1 ELSE count[v]
        BY <3>1, Zenon
      <4>4. count' \in [Index -> Int] /\ total' \in Int /\ total' = total - 1
        BY <1>2, <3>2, <4>2, SMTT(60) DEF DataOK
      <4>5. less[table[k]] >= Cardinality(With(table, table[k], NumRows)) - 1 /\ less[table[k]] \in Int
        <5>1. count[table[k]] \in Int /\ less[table[k]] = count[table[k]] - 1
          BY <1>2, <2>8, <4>3, Zenon DEF DataOK, Index
        <5>2. /\ count[table[k]] >= Cardinality(With(table, table[k], NumRows))
              /\ Cardinality(With(table, table[k], NumRows)) \in Nat
          BY <2>2, <2>4, <2>8, Zenon DEF CountsTo
        <5> QED
          BY <5>1, <5>2
      <4>6. entry' = Pruned(entry \ {<<table[k], k>>}, less, {table[k]})
        <5>1. vs \X {k} = {<<table[k], k>>}
          BY <3>1
        <5> QED
          BY <3>1, <4>2, <5>1, Zenon
      <4>7. ASSUME NEW v \in Value PROVE less[v] = count[v] - (IF table[k] = v THEN 1 ELSE 0)
        <5>1. v \in Index /\ count[v] \in Int
          BY <1>2, Zenon DEF Index, DataOK
        <5>2. less[v] = IF v = table[k] THEN count[v] - 1 ELSE count[v]
          BY <4>3, <5>1, Zenon
        <5> HIDE DEF less
        <5> QED
          BY <5>1, <5>2, SMTT(60)
      <4>8. less[Empty] = count[Empty]
        BY <2>8, <4>3, XrefAssumption, Zenon DEF Index
      <4> HIDE DEF less, vs
      <4>9. \A v \in Value, j \in Key : <<v, j>> \in entry' <=> table[j] = v /\ j # k
        <5>1. \A v \in Value, j \in Key :
                <<v, j>> \in Pruned(entry \ {<<table[k], k>>}, less, {table[k]}) <=> table[j] = v /\ j # k
          BY <1>2, <2>2, <2>8, <4>5, PrunedExact, ZenonT(60)
        <5> QED
          BY <4>6, <5>1, Zenon
      <4>10. Indexed(table', entry')
        BY <1>2, <2>1, <2>3, <4>9, ZenonT(60) DEF Indexed
      <4>11. entry' \subseteq Index \X Key
        BY <1>2, <4>6, Zenon DEF Pruned, DataOK
      <4>12. TotalTo(table', may, total', NumRows)
        BY <2>2, <2>4, <3>5, <3>6, <4>4, SMTT(60) DEF TotalTo
      <4>13. CountsTo(table', may, count', NumRows)
        <5>1. ASSUME NEW v \in Value
              PROVE  /\ count'[v] >= Cardinality(With(table', v, NumRows))
                     /\ "expires" \notin may => count'[v] = Cardinality(With(table', v, NumRows))
          <6>1. /\ count[v] >= Cardinality(With(table, v, NumRows)) /\ count[v] \in Int
                /\ "expires" \notin may => count[v] = Cardinality(With(table, v, NumRows))
            BY <1>2, <2>2, Zenon DEF CountsTo, DataOK, Index
          <6>2. Cardinality(With(table', v, NumRows)) =
                  Cardinality(With(table, v, NumRows)) + 0 - (IF table[k] = v THEN 1 ELSE 0)
            BY <1>2, <2>1, Zenon
          <6> QED
            <7>1. count'[v] = count[v] - (IF table[k] = v THEN 1 ELSE 0)
              BY <4>2, <4>7, Zenon
            <7> QED
              BY <2>4, <6>1, <6>2, <7>1, SMTT(60)
        <5> QED
          BY <2>2, <4>2, <4>8, <5>1, ZenonT(60) DEF CountsTo
      <4> QED
        BY <4>4, <4>10, <4>11, <4>12, <4>13, ZenonT(60)
    <3> QED
      BY <3>7, <3>8, Zenon
  <2> QED
    BY <2>7, <2>8, ZenonT(60)
<1> QED
  BY <1>1, <1>2, <1>3, <1>4, UpdateKeeps, Zenon

----------------------------------------------------------------------------

LEMMA ExactStep ==
  ASSUME ExactInv, [Next]_vars
  PROVE  ExactInv'
<1>1. OnceInv'
  BY OnceStep, Zenon DEF ExactInv
<1>2. ASSUME Quiet' PROVE Exact'
  <2>1. may' = may
    BY Zenon DEF Next, Step, vars, CallBuilder, Lock, LockTimeout, CheckStatus, InstallTrigger, Advance, Evaluate,
           SetEntry, IncrementTotal, Reevaluate, IncrementCount, Finish, Crash, KillRow, SetRow
  <2>2. Quiet
    BY <1>2, <2>1, Zenon DEF Quiet
  <2>3. "death" \notin may
    BY <2>2, Zenon DEF Quiet
  <2>4. ASSUME NEW p \in Proc, CallBuilder(p) \/ Step(p) \/ Crash(p) PROVE Exact'
    BY <2>2, <2>3, <2>4, OutsideKeeps, InstallTriggerKeeps, AdvanceKeeps, EvaluateKeeps, SetEntryKeeps,
       IncrementTotalKeeps, IncrementCountKeeps, FinishKeeps, ZenonT(60) DEF Step, Crash
  <2>5. ASSUME NEW k \in Key, KillRow(k) \/ \E x \in Column : SetRow(k, x) PROVE Exact'
    BY <2>2, <2>5, KillRowKeeps, SetRowKeeps, Zenon
  <2>6. CASE UNCHANGED vars
    BY <2>2, <2>6, ZenonT(60) DEF vars, xref, ExactInv, Exact, DataOK, Fresh, BuiltTo, Row, Kept
  <2> QED
    BY <2>4, <2>5, <2>6, Zenon DEF Next
<1> QED
  BY <1>1, <1>2, Zenon DEF ExactInv

LEMMA ExactInit ==
  ASSUME Init
  PROVE  ExactInv
<1>1. OnceInv
  BY Zenon DEF Init, OnceInv, ControlOK, HolderBuilds, BuildNotDone, Building, PC
<1>2. DataOK
  BY XrefAssumption DEF Init, DataOK, Column, Index
<1>3. Fresh /\ Kept /\ NoStray(table, entry)
  BY Zenon DEF Init, Fresh, Kept, NoStray
<1>4. \A p \in Proc : BuiltTo(p)
  BY Zenon DEF Init, BuiltTo, Inside
<1> QED
  BY <1>1, <1>2, <1>3, <1>4, Zenon DEF ExactInv, Exact

LEMMA ExactAlways ==
  Spec => []ExactInv
<1>1. ExactInv /\ [Next]_vars => ExactInv'
  BY ExactStep, Zenon
<1> QED
  BY ExactInit, <1>1, PTL DEF Spec

\* After an undisturbed build a query that looks up a value by the cross reference
\* gets the keys of the rows that have it, whatever is updated later: of a table of
\* any size, for any number of updates and of processes that call the routine.
THEOREM IndexAlwaysExact ==
  Spec => []IndexExact
<1>1. ExactInv => IndexExact
  <2> SUFFICES ASSUME ExactInv, done, may \subseteq {"empty"}, NEW v \in Value
               PROVE  /\ {k \in Key : <<v, k>> \in entry} = RowsWith(v)
                      /\ count[v] = Cardinality(RowsWith(v))
    BY Zenon DEF IndexExact
  <2>1. Indexed(table, entry) /\ CountsTo(table, may, count, NumRows)
    BY DoneIndexed, Zenon DEF ExactInv, Quiet, Exact, Kept
  <2>2. \A j \in Key : j <= NumRows
    BY XrefAssumption DEF Key
  <2>3. With(table, v, NumRows) = RowsWith(v)
    BY <2>2, Zenon DEF With, RowsWith
  <2>4. {k \in Key : <<v, k>> \in entry} = RowsWith(v)
    BY <2>1, <2>2, Zenon DEF Indexed, RowsWith
  <2> QED
    BY <2>1, <2>3, <2>4, Zenon DEF CountsTo
<1> QED
  BY <1>1, ExactAlways, PTL

\* However many processes build the cross reference at once because their waits
\* for the lock ran out, a query that finds xref_status "done" gets every row with
\* the value it looks up, and so do later ones whatever is updated after the
\* build: a count that is too high only delays the KILL of a value node.
THEOREM RowsAlwaysFound ==
  Spec => []RowsFound
<1>1. ExactInv => RowsFound
  BY DoneIndexed, Zenon DEF ExactInv, Quiet, Indexed, RowsFound, RowsWith
<1> QED
  BY <1>1, ExactAlways, PTL

\* While the column is never empty, the counts in the cross reference are the
\* numbers of rows of the table and of each value.
THEOREM CountsAreRows ==
  Spec => []RowCounts
<1>1. ExactInv => RowCounts
  <2> SUFFICES ASSUME ExactInv, done, may = {}
               PROVE  /\ total = Cardinality({k \in Key : table[k] # NoRow})
                      /\ \A v \in Index : count[v] = Cardinality(RowsWith(v))
    BY Zenon DEF RowCounts
  <2>1. DataOK /\ TotalTo(table, may, total, NumRows) /\ CountsTo(table, may, count, NumRows)
    BY Zenon DEF ExactInv, Quiet, Exact, Kept
  <2>2. \A j \in Key : j <= NumRows
    BY XrefAssumption DEF Key
  <2>3. \A j \in Key : table[j] \in Value <=> table[j] # NoRow
    BY <2>1, XrefAssumption, Zenon DEF DataOK, Index
  <2>4. Full(table, NumRows) = {k \in Key : table[k] # NoRow}
    BY <2>2, <2>3, Zenon DEF Full
  <2>5. total = Cardinality({k \in Key : table[k] # NoRow})
    BY <2>1, <2>4, Zenon DEF TotalTo
  <2>6. \A v \in Value : With(table, v, NumRows) = RowsWith(v)
    BY <2>2, Zenon DEF With, RowsWith
  <2>7. RowsWith(Empty) = {}
    BY <2>1, Zenon DEF DataOK, RowsWith
  <2>8. count[Empty] = Cardinality(RowsWith(Empty))
    BY <2>1, <2>7, FS_EmptySet, Zenon DEF CountsTo
  <2> QED
    BY <2>1, <2>5, <2>6, <2>8, Zenon DEF CountsTo, Index
<1> QED
  BY <1>1, ExactAlways, PTL

=============================================================================
