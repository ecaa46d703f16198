--------------------------- MODULE JoinListProofs ---------------------------
(* qualify_query leaves the lists of joins as it found them, for any number *)
(* of joins in the query and in the queries around it.                      *)
EXTENDS JoinLists, TLAPS

\* The last joins of two lists are not the same.
LEMMA EndsDiffer ==
    ASSUME NEW Join, NEW l \in Rings(Join), NEW join \in Join, NEW parent \in Join, join # parent
    PROVE  /\ l.prev[join] \in Join /\ l.prev[parent] \in Join
           /\ l.prev[join] # l.prev[parent]
  BY DEF Rings

\* What dqinsert writes, link by link.
LEMMA Spliced ==
    ASSUME NEW Join, NEW l \in Rings(Join), NEW join \in Join, NEW parent \in Join, join # parent,
           NEW s, s = Dqinsert(l, join, parent)
    PROVE  /\ s \in [next : [Join -> Join], prev : [Join -> Join]]
           /\ \A j \in Join : s.next[j] = IF j = l.prev[parent] THEN join
                                          ELSE IF j = l.prev[join] THEN parent ELSE l.next[j]
           /\ \A j \in Join : s.prev[j] = IF j = parent THEN l.prev[join]
                                          ELSE IF j = join THEN l.prev[parent] ELSE l.prev[j]
  BY Zenon DEF Dqinsert, Rings

\* A splice keeps next and prev each other's way back: dqinsert of double_list.h
\* never tears a list of joins, wherever in two lists the two joins are.
THEOREM SpliceKeepsRings ==
    ASSUME NEW Join, NEW l \in Rings(Join), NEW join \in Join, NEW parent \in Join, join # parent
    PROVE  Dqinsert(l, join, parent) \in Rings(Join)
<1> SUFFICES ASSUME NEW s, s = Dqinsert(l, join, parent)
             PROVE  s \in Rings(Join)
  OBVIOUS
<1>1. /\ l.prev[join] \in Join /\ l.prev[parent] \in Join
      /\ l.prev[join] # l.prev[parent]
  BY EndsDiffer
<1>2. /\ s \in [next : [Join -> Join], prev : [Join -> Join]]
      /\ \A j \in Join : s.next[j] = IF j = l.prev[parent] THEN join
                                     ELSE IF j = l.prev[join] THEN parent ELSE l.next[j]
      /\ \A j \in Join : s.prev[j] = IF j = parent THEN l.prev[join]
                                     ELSE IF j = join THEN l.prev[parent] ELSE l.prev[j]
  BY Spliced, SMTT(60)
<1>3. /\ l.next \in [Join -> Join] /\ l.prev \in [Join -> Join]
      /\ \A j \in Join : l.next[l.prev[j]] = j /\ l.prev[l.next[j]] = j
  BY DEF Rings
<1>4. ASSUME NEW j \in Join PROVE s.next[s.prev[j]] = j
  <2>1. CASE j = parent
    BY <1>1, <1>2, <2>1
  <2>2. CASE j = join
    BY <1>1, <1>2, <2>2
  <2>3. CASE j # parent /\ j # join
    <3>1. s.prev[j] = l.prev[j] /\ l.prev[j] \in Join
      BY <1>2, <1>3, <2>3
    <3>2. l.prev[j] # l.prev[parent] /\ l.prev[j] # l.prev[join]
      BY <1>3, <2>3
    <3> QED
      BY <1>2, <1>3, <3>1, <3>2
  <2> QED
    BY <2>1, <2>2, <2>3
<1>5. ASSUME NEW j \in Join PROVE s.prev[s.next[j]] = j
  <2>1. CASE j = l.prev[parent]
    BY <1>2, <2>1
  <2>2. CASE j = l.prev[join]
    BY <1>1, <1>2, <2>2
  <2>3. CASE j # l.prev[parent] /\ j # l.prev[join]
    <3>1. s.next[j] = l.next[j] /\ l.next[j] \in Join
      BY <1>2, <1>3, <2>3
    <3>2. l.next[j] # parent /\ l.next[j] # join
      BY <1>3, <2>3
    <3> QED
      BY <1>2, <1>3, <3>1, <3>2
  <2> QED
    BY <2>1, <2>2, <2>3
<1> QED
  BY <1>2, <1>4, <1>5, Zenon DEF Rings

\* qualify_query's reset undoes its splice: with the end of its own list that it
\* kept from before, the lists are again those that the parser linked, so the
\* next query that is resolved sees its own scope and no other.
THEOREM SpliceUndone ==
    ASSUME NEW Join, NEW l \in Rings(Join), NEW join \in Join, NEW parent \in Join, join # parent
    PROVE  ResetLists(Dqinsert(l, join, parent), join, l.prev[join], parent) = l
<1> SUFFICES ASSUME NEW s, s = Dqinsert(l, join, parent)
             PROVE  ResetLists(s, join, l.prev[join], parent) = l
  OBVIOUS
<1>1. /\ l.prev[join] \in Join /\ l.prev[parent] \in Join
      /\ l.prev[join] # l.prev[parent]
  BY EndsDiffer
<1>2. /\ s \in [next : [Join -> Join], prev : [Join -> Join]]
      /\ \A j \in Join : s.next[j] = IF j = l.prev[parent] THEN join
                                     ELSE IF j = l.prev[join] THEN parent ELSE l.next[j]
      /\ \A j \in Join : s.prev[j] = IF j = parent THEN l.prev[join]
                                     ELSE IF j = join THEN l.prev[parent] ELSE l.prev[j]
  BY Spliced, SMTT(60)
<1>3. s.prev[join] = l.prev[parent]
  BY <1>2
<1>4. [s.next EXCEPT ![l.prev[parent]] = parent, ![l.prev[join]] = join] = l.next
  BY <1>1, <1>2 DEF Rings
<1>5. [s.prev EXCEPT ![parent] = l.prev[parent], ![join] = l.prev[join]] = l.prev
  BY <1>2 DEF Rings
<1> QED
  BY <1>3, <1>4, <1>5 DEF ResetLists, Rings
=============================================================================
