-------------------------- MODULE RoctoServerProofs --------------------------
(* Sessions of rocto: for any number of clients that connect, are refused,  *)
(* die and disconnect in any order, only those whose password is right have *)
(* a session, no two have the same one, and each has its own variables.     *)
EXTENDS RoctoServer, FiniteSetTheorems, TLAPS

Before == {"none", "first", "ssl", "startup", "challenge", "password", "incr"}
Within == {"defaults", "parms", "report", "loop"}

Types ==
    /\ conn \in [Client -> {"none", "pending", "open", "closed"}]
    /\ script \in [Client -> Script]
    /\ cur \subseteq Client
    /\ child \in [Client -> Before \cup Within \cup {"exited", "reaped"}]
    /\ todo \in [Client -> SUBSET Param]
    /\ lastId \in Nat
    /\ session \in [Client -> Nat]
    /\ variables \in [SessionId -> [Param -> Value]]
    /\ reported \in [Client -> [Param -> Value]]

\* A connection has no process before it is made, nor before it is forked for.
Forked ==
    \A c \in Client :
        /\ conn[c] = "none" => child[c] = "none" /\ c \notin cur
        /\ c \in cur => child[c] = "none"

\* A process has a session from NewSession on, and only after the right password.
Entered ==
    \A c \in Client :
        /\ child[c] \in Before => session[c] = 0
        /\ child[c] \in Within => session[c] # 0
        /\ child[c] = "incr" \/ session[c] # 0 => script[c].login = "right"

\* The subscripts given out are those up to lastId, one for each session.
Opened == {c \in Client : session[c] # 0}
Numbered ==
    /\ Cardinality(Opened) = lastId
    /\ \A c \in Client : session[c] <= lastId
    /\ \A i \in SessionId : i > lastId => variables[i] = [p \in Param |-> Unset]

\* What the three loops leave in a session's variables.
Default(p) == IF p \in Defaults THEN "default" ELSE Unset
Final(c, p) == IF p \in script[c].params THEN c ELSE Default(p)

\* How far each loop has come.
FilledAt(c) ==
    /\ child[c] = "defaults" => todo[c] \subseteq Defaults
    /\ child[c] = "parms" => todo[c] \subseteq script[c].params
    /\ child[c] = "defaults" =>
           \A p \in Param : variables[session[c]][p] =
               IF p \in todo[c] THEN Unset ELSE Default(p)
    /\ child[c] = "parms" =>
           \A p \in Param : variables[session[c]][p] =
               IF p \in todo[c] THEN Default(p) ELSE Final(c, p)
    /\ child[c] \in {"report", "loop"} =>
           \A p \in Param : variables[session[c]][p] = Final(c, p)
    /\ child[c] \in Before \cup {"defaults", "parms"} =>
           \A p \in Param : reported[c][p] = Unset
    /\ child[c] = "report" =>
           \A p \in Param : reported[c][p] = IF p \in todo[c] THEN Unset ELSE Final(c, p)
    /\ child[c] = "loop" =>
           \A p \in Param : reported[c][p] = Final(c, p)
Filled == \A c \in Client : FilledAt(c)

IInv == Types /\ Forked /\ Entered /\ Numbered /\ SessionsApart /\ Filled

-----------------------------------------------------------------------------
\* A step that touches no session: clients, the listening process, the helper
\* thread, a child before it has a session, and the end of a child.
Quiet ==
    /\ UNCHANGED <<todo, lastId, session, variables, reported>>
    /\ conn' \in [Client -> {"none", "pending", "open", "closed"}]
    /\ script' \in [Client -> Script] /\ cur' \subseteq Client
    /\ child' \in [Client -> Before \cup Within \cup {"exited", "reaped"}]
    /\ Forked'
    /\ \/ UNCHANGED script
       \/ UNCHANGED child /\ \A c \in Client : script'[c] = script[c] \/ conn[c] = "none"
    /\ \A c \in Client :
           \/ child'[c] = child[c]
           \/ child'[c] \in {"exited", "reaped"}
           \/ /\ child[c] \in Before /\ child'[c] \in Before
              /\ child'[c] = "incr" => script[c].login = "right"

\* What is known of a session's variables stays known while nothing of it changes.
LEMMA FilledKept ==
    ASSUME Filled, NEW d \in Client,
           child'[d] = child[d], todo'[d] = todo[d], script'[d] = script[d],
           session'[d] = session[d], reported'[d] = reported[d],
           child[d] \in Within => variables'[session[d]] = variables[session[d]]
    PROVE  FilledAt(d)'
<1>1. FilledAt(d) /\ \A p \in Param : Final(d, p)' = Final(d, p)
  BY Zenon DEF Filled, Final, Default
<1>2. child[d] \in {"defaults", "parms", "report", "loop"} => variables'[session[d]] = variables[session[d]]
  BY Zenon DEF Within
<1> QED
  BY <1>1, <1>2 DEF FilledAt, Default

\* Such a step keeps what is known of sessions.
LEMMA QuietKeeps == IInv /\ Quiet => IInv'
<1> SUFFICES ASSUME IInv, Quiet PROVE IInv'
  BY Zenon
<1>1. Types' /\ Forked'
  BY Zenon DEF IInv, Types, Quiet, Value, SessionId
<1>2. Entered'
  BY DEF IInv, Types, Quiet, Entered, Forked, Before, Within
<1>3. Numbered'
  BY Zenon DEF IInv, Quiet, Numbered, Opened
<1>4. SessionsApart'
  BY Zenon DEF IInv, Quiet, SessionsApart
<1>5. Filled'
  <2> SUFFICES ASSUME NEW c \in Client PROVE FilledAt(c)'
    BY Zenon DEF Filled
  <2>1. CASE child'[c] = child[c] /\ script'[c] = script[c]
    BY <2>1, FilledKept, Zenon DEF IInv, Quiet
  <2>2. CASE child'[c] \in {"exited", "reaped"}
    BY <2>2, Zenon DEF FilledAt, Before
  <2>3. CASE child[c] \in Before /\ child'[c] \in Before
    BY <2>3, Zenon DEF IInv, Quiet, Filled, FilledAt, Before
  <2>4. CASE child'[c] = child[c] /\ conn[c] = "none"
    BY <2>4, ZenonT(60) DEF IInv, Quiet, Filled, FilledAt, Forked, Before
  <2> QED
    BY <2>1, <2>2, <2>3, <2>4, Zenon DEF Quiet
<1> QED
  BY <1>1, <1>2, <1>3, <1>4, <1>5, Zenon DEF IInv

-----------------------------------------------------------------------------
\* handle_password_message lets only the right password through; no other
\* step before the session reaches it.
LEMMA QuietActions ==
    ASSUME IInv,
           \/ Main \/ Helper \/ Interrupted \/ Sigint
           \/ \E c \in Client : \/ Connect(c) \/ Disconnect(c) \/ Exit(c)
                                \/ ReadFirst(c) \/ AnswerSsl(c) \/ ReadStartup(c)
                                \/ Challenge(c) \/ Password(c)
    PROVE  Quiet
<1> USE DEF IInv, Types, Forked, Quiet, Before, Within, parent, data
<1>1. CASE Fork
  BY <1>1, Zenon DEF Fork
<1>2. CASE NoChildren \/ Interrupted \/ Sigint
  BY <1>2, Zenon DEF NoChildren, Interrupted, Sigint
<1>3. ASSUME NEW c \in Client, Accept(c) PROVE Quiet
  BY <1>3, Zenon DEF Accept
<1>4. ASSUME NEW c \in Client, Reap(c) PROVE Quiet
  BY <1>4, Zenon DEF Reap
<1>5. ASSUME NEW c \in Client, Connect(c) PROVE Quiet
  BY <1>5, ServerAssumption, ZenonT(60) DEF Connect
<1>6. ASSUME NEW c \in Client, Disconnect(c) PROVE Quiet
  BY <1>6, Zenon DEF Disconnect
<1>7. ASSUME NEW c \in Client, Exit(c) PROVE Quiet
  BY <1>7, Zenon DEF Exit, Goto, Active
<1>8. ASSUME NEW c \in Client, ReadFirst(c) PROVE Quiet
  BY <1>8, Zenon DEF ReadFirst, Goto
<1>9. ASSUME NEW c \in Client, AnswerSsl(c) PROVE Quiet
  BY <1>9, ZenonT(60) DEF AnswerSsl, Goto
<1>10. ASSUME NEW c \in Client, ReadStartup(c) PROVE Quiet
  BY <1>10, ZenonT(60) DEF ReadStartup, Goto
<1>11. ASSUME NEW c \in Client, Challenge(c) PROVE Quiet
  BY <1>11, ZenonT(60) DEF Challenge, Goto
<1>12. ASSUME NEW c \in Client, Password(c) PROVE Quiet
  BY <1>12 DEF Password, Goto
<1> QED
  BY <1>1, <1>2, <1>3, <1>4, <1>5, <1>6, <1>7, <1>8, <1>9, <1>10, <1>11, <1>12, Zenon
  DEF Main, Helper

\* A session's number is always one the store has room for: there are never
\* more sessions than connections.
LEMMA RoomForSession ==
    ASSUME IInv, NEW c \in Client, session[c] = 0
    PROVE  /\ lastId + 1 \in SessionId
           /\ Cardinality(Opened \cup {c}) = lastId + 1
<1>1. IsFiniteSet(Opened) /\ IsFiniteSet(Client)
  BY FS_Subset, ServerAssumption, Zenon DEF Opened
<1>2. c \notin Opened
  BY Zenon DEF Opened
<1>3. IsFiniteSet(Opened \cup {c}) /\ Cardinality(Opened \cup {c}) = lastId + 1
  BY <1>1, <1>2, FS_AddElement, Zenon DEF IInv, Numbered
<1>4. Opened \cup {c} \in SUBSET Client
  BY Zenon DEF Opened
<1>5. Cardinality(Opened \cup {c}) <= Cardinality(Client) /\ Cardinality(Client) \in Nat
  BY <1>1, <1>4, FS_Subset, FS_CardinalityType, Zenon
<1> QED
  BY <1>3, <1>5 DEF IInv, Types, SessionId

\* Every session a child is in is one of the store's.
LEMMA SessionStored ==
    ASSUME IInv, NEW c \in Client, session[c] # 0
    PROVE  session[c] \in SessionId
<1>1. IsFiniteSet(Client) /\ Opened \in SUBSET Client
  BY ServerAssumption, Zenon DEF Opened
<1>2. lastId <= Cardinality(Client) /\ Cardinality(Client) \in Nat
  BY <1>1, FS_Subset, FS_CardinalityType, Zenon DEF IInv, Numbered
<1> QED
  BY <1>2 DEF IInv, Types, Numbered, SessionId

-----------------------------------------------------------------------------
\* The increment of ^session gives a number no process has, and an empty node.
LEMMA NewSessionKeeps ==
    ASSUME IInv, NEW c \in Client, NewSession(c)
    PROVE  IInv'
<1>1. session[c] = 0 /\ script[c].login = "right" /\ child[c] = "incr"
  BY Zenon DEF IInv, Entered, NewSession, Before
<1>2. /\ lastId' = lastId + 1 /\ lastId \in Nat
      /\ session' = [session EXCEPT ![c] = lastId + 1]
      /\ todo' = [todo EXCEPT ![c] = Defaults]
      /\ child' = [child EXCEPT ![c] = "defaults"]
      /\ UNCHANGED <<conn, script, cur, variables, reported>>
  BY Zenon DEF IInv, Types, NewSession, Goto, parent
<1>3. lastId + 1 \in SessionId /\ Cardinality(Opened \cup {c}) = lastId + 1
  BY <1>1, RoomForSession, Zenon
<1>4. Types'
  BY <1>2, ServerAssumption DEF IInv, Types, Within, Value, SessionId
<1>5. Forked' /\ Entered'
  BY <1>1, <1>2 DEF IInv, Types, Forked, Entered, Before, Within
<1>6. Numbered'
  <2>1. Opened' = Opened \cup {c}
    BY <1>2 DEF IInv, Types, Opened
  <2> QED
    BY <1>2, <1>3, <2>1 DEF IInv, Types, Numbered, SessionId
<1>7. SessionsApart'
  BY <1>2 DEF IInv, Types, Numbered, SessionsApart
<1>8. Filled'
  <2> SUFFICES ASSUME NEW d \in Client PROVE FilledAt(d)'
    BY Zenon DEF Filled
  <2>1. CASE d # c
    <3>1. child'[d] = child[d] /\ todo'[d] = todo[d] /\ session'[d] = session[d]
      BY <1>2, <2>1, Zenon DEF IInv, Types
    <3> QED
      BY <1>2, <3>1, FilledKept, Zenon DEF IInv
  <2>2. CASE d = c
    <3>1. variables[lastId + 1] = [p \in Param |-> Unset]
      <4>1. lastId + 1 > lastId
        BY <1>2
      <4> QED
        BY <1>3, <4>1, Zenon DEF IInv, Numbered
    <3>2. session'[c] = lastId + 1 /\ variables' = variables
      BY <1>2, Zenon DEF IInv, Types
    <3>3. child'[c] = "defaults" /\ todo'[c] = Defaults
      BY <1>2, Zenon DEF IInv, Types
    <3>4. \A p \in Param : reported'[c][p] = Unset
      BY <1>1, <1>2, Zenon DEF IInv, Filled, FilledAt, Before
    <3> QED
      BY <1>1, <1>2, <2>2, <3>1, <3>2, <3>3, <3>4 DEF FilledAt, Default, Before
  <2> QED
    BY <2>1, <2>2, Zenon
<1> QED
  BY <1>4, <1>5, <1>6, <1>7, <1>8, Zenon DEF IInv

\* A variable set in one session leaves every other session's as they were.
LEMMA SetVariableKeeps ==
    ASSUME IInv, NEW c \in Client, CopyDefault(c) \/ SetParm(c)
    PROVE  IInv'
<1>1. PICK p \in todo[c], v \in {"default", c} :
          /\ SetVariable(c, p, v)
          /\ \/ child[c] = "defaults" /\ v = "default"
             \/ child[c] = "parms" /\ v = c
  BY Zenon DEF CopyDefault, SetParm
<1>2. /\ variables' = [variables EXCEPT ![session[c]][p] = v]
      /\ todo' = [todo EXCEPT ![c] = @ \ {p}]
      /\ UNCHANGED <<conn, script, cur, child, lastId, session, reported>>
  BY <1>1, Zenon DEF SetVariable, parent
<1>3. session[c] # 0 /\ session[c] \in SessionId /\ p \in Param
  BY <1>1, SessionStored, Zenon DEF IInv, Types, Entered, Within
<1>4. Types'
  BY <1>2, <1>3, Zenon DEF IInv, Types, Value, SessionId
<1>5. Forked' /\ Entered' /\ SessionsApart'
  BY <1>2, Zenon DEF IInv, Forked, Entered, SessionsApart
<1>6. Numbered'
  <2>1. Opened' = Opened
    BY <1>2, Zenon DEF Opened
  <2>2. \A i \in SessionId : i # session[c] => variables'[i] = variables[i]
    BY <1>2, <1>3, Zenon DEF IInv, Types
  <2>3. SessionId' = SessionId /\ ~(session[c] > lastId)
    BY DEF IInv, Types, Numbered, SessionId
  <2> QED
    BY <1>2, <2>1, <2>2, <2>3, Zenon DEF IInv, Numbered
<1>7. Filled'
  <2> SUFFICES ASSUME NEW d \in Client PROVE FilledAt(d)'
    BY Zenon DEF Filled
  <2>1. CASE d # c
    <3>1. child[d] \in Within => variables'[session[d]] = variables[session[d]]
      BY <1>2, <1>3, <2>1, SessionStored, Zenon DEF IInv, Types, Entered, SessionsApart
    <3>2. todo'[d] = todo[d]
      BY <1>2, <2>1, Zenon DEF IInv, Types
    <3> QED
      BY <1>2, <3>1, <3>2, FilledKept, Zenon DEF IInv
  <2>2. CASE d = c
    <3>1. variables'[session[c]] = [variables[session[c]] EXCEPT ![p] = v]
      BY <1>2, <1>3, Zenon DEF IInv, Types
    <3>2. variables[session[c]] \in [Param -> Value]
      BY <1>3, Zenon DEF IInv, Types
    <3>3. /\ child[c] = "defaults" => p \in Defaults
          /\ child[c] = "parms" => p \in script[c].params
      BY <1>1, Zenon DEF IInv, Filled, FilledAt
    <3>4. /\ todo'[c] = todo[c] \ {p}
          /\ \A q \in Param : variables'[session[c]][q] = IF q = p THEN v ELSE variables[session[c]][q]
      BY <1>2, <3>1, <3>2, Zenon DEF IInv, Types
    <3>5. FilledAt(c)
      BY Zenon DEF IInv, Filled
    <3>6. CASE child[c] = "defaults" /\ v = "default"
      BY <1>2, <2>2, <3>3, <3>4, <3>5, <3>6 DEF FilledAt, Default, Before
    <3>7. CASE child[c] = "parms" /\ v = c
      <4>1. /\ \A q \in Param : variables[session[c]][q] = IF q \in todo[c] THEN Default(q) ELSE Final(c, q)
            /\ todo[c] \subseteq script[c].params /\ \A q \in Param : reported[c][q] = Unset
        BY <3>5, <3>7, Zenon DEF FilledAt
      <4>2. \A q \in Param : variables'[session[c]][q] = IF q \in todo'[c] THEN Default(q) ELSE Final(c, q)
        BY <3>3, <3>4, <3>7, <4>1, Zenon DEF Final
      <4> QED
        BY <1>2, <2>2, <3>4, <3>7, <4>1, <4>2, Zenon DEF FilledAt, Final, Default, Before
    <3> QED
      BY <1>1, <2>2, <3>6, <3>7, Zenon
  <2> QED
    BY <2>1, <2>2, Zenon
<1> QED
  BY <1>4, <1>5, <1>6, <1>7, Zenon DEF IInv

\* A ParameterStatus says what the session holds.
LEMMA ReportKeeps ==
    ASSUME IInv, NEW c \in Client, Report(c)
    PROVE  IInv'
<1>1. PICK p \in todo[c] :
          /\ reported' = [reported EXCEPT ![c][p] = variables[session[c]][p]]
          /\ todo' = [todo EXCEPT ![c] = @ \ {p}]
  BY Zenon DEF Report
<1>2. /\ child' = child \/ child' = [child EXCEPT ![c] = "exited"]
      /\ child[c] = "report"
      /\ UNCHANGED <<conn, script, cur, lastId, session, variables>>
  BY Zenon DEF Report, parent
<1>3. p \in Param /\ session[c] \in SessionId
  BY <1>1, <1>2, SessionStored, Zenon DEF IInv, Types, Entered, Within
<1>4. variables[session[c]][p] \in Value /\ variables[session[c]][p] = Final(c, p)
  BY <1>2, <1>3 DEF IInv, Types, Filled, FilledAt
<1>5. Types'
  BY <1>1, <1>2, <1>3, <1>4, Zenon DEF IInv, Types, Value, SessionId
<1>6. Forked' /\ Entered' /\ SessionsApart'
  BY <1>2, ZenonT(60) DEF IInv, Types, Forked, Entered, SessionsApart, Before, Within
<1>7. Numbered'
  BY <1>2, Zenon DEF IInv, Numbered, Opened
<1>8. Filled'
  <2> SUFFICES ASSUME NEW d \in Client PROVE FilledAt(d)'
    BY Zenon DEF Filled
  <2>1. CASE d # c
    <3>1. child'[d] = child[d] /\ todo'[d] = todo[d] /\ reported'[d] = reported[d]
      BY <1>1, <1>2, <2>1, Zenon DEF IInv, Types
    <3> QED
      BY <1>2, <3>1, FilledKept, Zenon DEF IInv
  <2>2. CASE d = c
    <3>1. \A q \in Param : reported'[c][q] = IF q = p THEN Final(c, p) ELSE reported[c][q]
      BY <1>1, <1>3, <1>4, Zenon DEF IInv, Types
    <3>2. todo'[c] = todo[c] \ {p}
      BY <1>1, Zenon DEF IInv, Types
    <3>3. child'[c] \in {"report", "exited"}
      BY <1>2, Zenon DEF IInv, Types
    <3>4. FilledAt(c)
      BY Zenon DEF IInv, Filled
    <3> QED
      <4>1. \A q \in Param : /\ variables[session[c]][q] = Final(c, q)
                             /\ reported[c][q] = IF q \in todo[c] THEN Unset ELSE Final(c, q)
        BY <1>2, <3>4, Zenon DEF FilledAt
      <4>2. \A q \in Param : reported'[c][q] = IF q \in todo'[c] THEN Unset ELSE Final(c, q)
        BY <3>1, <3>2, <4>1, Zenon
      <4> QED
        BY <1>2, <2>2, <3>3, <4>1, <4>2, Zenon DEF FilledAt, Final, Default, Before
  <2> QED
    BY <2>1, <2>2, Zenon
<1> QED
  BY <1>5, <1>6, <1>7, <1>8, Zenon DEF IInv

\* Each loop starts where the one before it has left the variables.
LEMMA LoopDoneKeeps ==
    ASSUME IInv, NEW c \in Client, LoopDone(c)
    PROVE  IInv'
<1>1. /\ todo[c] = {}
      /\ UNCHANGED <<conn, script, cur, lastId, session, variables, reported>>
  BY Zenon DEF LoopDone, Goto, parent
<1>2. PICK t \in SUBSET Param, pc \in {"parms", "report", "loop"} :
          /\ todo' = [todo EXCEPT ![c] = t] /\ child' = [child EXCEPT ![c] = pc]
          /\ \/ child[c] = "defaults" /\ pc = "parms" /\ t = script[c].params
             \/ /\ child[c] = "parms" /\ pc = "report"
                /\ t = {p \in Param : variables[session[c]][p] # Unset}
             \/ child[c] = "report" /\ pc = "loop" /\ t = {}
  <2>1. script[c].params \in SUBSET Param
    BY Zenon DEF IInv, Types, Script
  <2>2. todo = [todo EXCEPT ![c] = {}]
    BY <1>1, Zenon DEF IInv, Types
  <2> QED
    BY <2>1, <2>2, Zenon DEF LoopDone, Goto
<1>3. Types'
  BY <1>1, <1>2, Zenon DEF IInv, Types, Within, Value, SessionId
<1>4. Forked' /\ Entered' /\ SessionsApart'
  BY <1>1, <1>2, Zenon DEF IInv, Types, Forked, Entered, SessionsApart, Before, Within
<1>5. Numbered'
  BY <1>1, Zenon DEF IInv, Numbered, Opened
<1>6. Filled'
  <2> SUFFICES ASSUME NEW d \in Client PROVE FilledAt(d)'
    BY Zenon DEF Filled
  <2>1. CASE d # c
    <3>1. child'[d] = child[d] /\ todo'[d] = todo[d] 
      BY <1>2, <2>1, Zenon DEF IInv, Types
    <3> QED
      BY <1>1, <3>1, FilledKept, Zenon DEF IInv
  <2>2. CASE d = c
    <3>1. child'[c] = pc /\ todo'[c] = t
      BY <1>2, Zenon DEF IInv, Types
    <3>2. FilledAt(c)
      BY Zenon DEF IInv, Filled
    <3>3. CASE child[c] = "defaults" /\ pc = "parms" /\ t = script[c].params
      BY <1>1, <2>2, <3>1, <3>2, <3>3, Zenon DEF FilledAt, Final, Default, Before
    <3>4. CASE child[c] = "parms" /\ pc = "report" /\ t = {p \in Param : variables[session[c]][p] # Unset}
      BY <1>1, <2>2, <3>1, <3>2, <3>4, Zenon DEF FilledAt, Final, Default, Before
    <3>5. CASE child[c] = "report" /\ pc = "loop" /\ t = {}
      BY <1>1, <2>2, <3>1, <3>2, <3>5, Zenon DEF FilledAt, Final, Default, Before
    <3> QED
      BY <1>2, <2>2, <3>3, <3>4, <3>5, Zenon
  <2> QED
    BY <2>1, <2>2, Zenon
<1> QED
  BY <1>3, <1>4, <1>5, <1>6, Zenon DEF IInv

-----------------------------------------------------------------------------
\* No step of any process breaks the invariant.
LEMMA Inductive == Spec => []IInv
<1>1. Init => IInv
  <2> SUFFICES ASSUME Init PROVE IInv
    BY Zenon
  <2>1. Types /\ Forked /\ Entered /\ SessionsApart /\ Filled
    BY Zenon DEF Init, Types, Forked, Entered, SessionsApart, Filled, FilledAt, Before, Within,
           Nothing, Script, Value
  <2>2. Opened = {}
    BY Zenon DEF Init, Opened
  <2>3. Numbered
    BY <2>2, FS_EmptySet DEF Init, Numbered
  <2> QED
    BY <2>1, <2>3, Zenon DEF IInv
<1>2. IInv /\ [Next]_vars => IInv'
  <2> SUFFICES ASSUME IInv, [Next]_vars PROVE IInv'
    BY Zenon
  <2>1. CASE UNCHANGED vars
    BY <2>1, QuietKeeps, Zenon DEF vars, parent, data, Quiet, IInv, Types, Forked
  <2>2. CASE Next
    BY <2>2, QuietKeeps, QuietActions, NewSessionKeeps, SetVariableKeeps, ReportKeeps,
       LoopDoneKeeps, Zenon DEF Next, Startup
  <2> QED
    BY <2>1, <2>2, Zenon
<1> QED
  BY <1>1, <1>2, PTL DEF Spec

\* Only a client whose password handle_password_message accepts ever has a
\* session, whatever the buffers of closed connections hold.
THEOREM SessionNeedsPassword == Spec => []OnlyAuthenticated
<1>1. IInv => OnlyAuthenticated
  BY Zenon DEF IInv, Types, Entered, OnlyAuthenticated, Script
<1> QED
  BY <1>1, Inductive, PTL

\* ydb_incr_s of ^session in rocto.c gives no two of any number of processes the
\* same session.
THEOREM SessionsNeverShared == Spec => []SessionsApart
<1>1. IInv => SessionsApart
  BY Zenon DEF IInv
<1> QED
  BY <1>1, Inductive, PTL

\* When a child of rocto.c enters its main loop, its session holds and its client
\* has been told the client's own parameters, and the defaults elsewhere.
THEOREM SessionVariablesOwn == Spec => []OwnVariables
<1>1. IInv => OwnVariables
  <2> SUFFICES ASSUME IInv, NEW c \in Client, child[c] = "loop" PROVE OwnVariables!(c)!2
    BY Zenon DEF OwnVariables
  <2>1. \A p \in Param : reported[c][p] = Final(c, p) /\ variables[session[c]][p] = Final(c, p)
    BY Zenon DEF IInv, Filled, FilledAt
  <2>2. session[c] \in SessionId
    BY SessionStored, Zenon DEF IInv, Entered, Within
  <2>3. reported[c] = variables[session[c]]
    BY <2>1, <2>2 DEF IInv, Types
  <2> QED
    BY <2>1, <2>3, Zenon DEF Final, Default
<1> QED
  BY <1>1, Inductive, PTL
=============================================================================
