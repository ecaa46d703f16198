---------------------------- MODULE RoutineStore ----------------------------
(***************************************************************************)
(* What the cache of generated routines promises the statements that use   *)
(* it: a routine is made at most once, appears whole, and stays; a client  *)
(* uses a routine only when it is there.  PlanCache implements it with two *)
(* looks at the file system, a lock, a temporary file and a rename.        *)
(***************************************************************************)
CONSTANTS
  Client,
  Routine,
  Rejected    \* routines for statements no plan can be made for

VARIABLES
  store,      \* [Routine -> "absent" or "whole"]
  want,       \* [Client -> Routine]: the routine of a client's statement
  client      \* [Client -> "idle", "asking", "using" or "dead"]

vars == <<store, want, client>>

Init ==
  /\ store = [r \in Routine |-> "absent"]
  /\ want \in [Client -> Routine]
  /\ client = [c \in Client |-> "idle"]

Ask(c) ==
  /\ client[c] = "idle"
  /\ \E r \in Routine : want' = [want EXCEPT ![c] = r]
  /\ client' = [client EXCEPT ![c] = "asking"]
  /\ UNCHANGED store

Find(c) ==
  /\ client[c] = "asking"
  /\ store[want[c]] = "whole"
  /\ client' = [client EXCEPT ![c] = "using"]
  /\ UNCHANGED <<store, want>>

Make(c) ==
  /\ client[c] = "asking"
  /\ store[want[c]] = "absent"
  /\ want[c] \notin Rejected
  /\ store' = [store EXCEPT ![want[c]] = "whole"]
  /\ client' = [client EXCEPT ![c] = "using"]
  /\ UNCHANGED want

Refuse(c) ==
  /\ client[c] = "asking"
  /\ want[c] \in Rejected
  /\ client' = [client EXCEPT ![c] = "idle"]
  /\ UNCHANGED <<store, want>>

Done(c) ==
  /\ client[c] = "using"
  /\ client' = [client EXCEPT ![c] = "idle"]
  /\ UNCHANGED <<store, want>>

Die(c) ==
  /\ client[c] \in {"asking", "using"}
  /\ client' = [client EXCEPT ![c] = "dead"]
  /\ UNCHANGED <<store, want>>

Return(c) ==
  /\ client[c] = "dead"
  /\ client' = [client EXCEPT ![c] = "idle"]
  /\ UNCHANGED <<store, want>>

Next == \E c \in Client :
  \/ Ask(c) \/ Find(c) \/ Make(c) \/ Refuse(c) \/ Done(c) \/ Die(c) \/ Return(c)

Spec == Init /\ [][Next]_vars
=============================================================================
