----------------------------- MODULE JoinLists -----------------------------
(***************************************************************************)
(* The joins of a SELECT are a circular list, next and prev (double_list.h *)
(* macros); a join is named by the table alias it holds.  While a query is *)
(* resolved, the list of the query around it hangs behind its own, and     *)
(* qualify_query then takes the two apart again.                           *)
(***************************************************************************)

\* dqinsert(self, new): the list of new comes before self.
Dqinsert(l, self, new) ==
    LET temp == l.prev[self]
        next == [l.next EXCEPT ![temp] = new]
        prev == [l.prev EXCEPT ![self] = l.prev[new]]
    IN [next |-> [next EXCEPT ![prev[new]] = self], prev |-> [prev EXCEPT ![new] = temp]]

\* Mutant: the list of this query keeps its new end.
ResetParentOnly(l, join, end, parent) ==
    LET last == l.prev[join] IN
    [next |-> [l.next EXCEPT ![last] = parent], prev |-> [l.prev EXCEPT ![parent] = last]]

\* "Make sure to reset parent query".
ResetLists(l, join, end, parent) ==
    LET last == l.prev[join] IN
    [next |-> [l.next EXCEPT ![last] = parent, ![end] = join],
     prev |-> [l.prev EXCEPT ![parent] = last, ![join] = end]]

\* The links over a set of joins, each the way back of the other.
Rings(Join) ==
    {l \in [next : [Join -> Join], prev : [Join -> Join]] :
        \A j \in Join : l.next[l.prev[j]] = j /\ l.prev[l.next[j]] = j}
=============================================================================
