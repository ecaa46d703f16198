---------------------------- MODULE RoctoServer ----------------------------
(***************************************************************************)
(* The rocto server: the listening process, its helper thread that waits   *)
(* for children, and one child per connection, from accept to the start    *)
(* of rocto_main_loop (rocto.c, rocto_helper_waitpid.c).  The main loop    *)
(* itself is the module RoctoSession; here a child in it just stays there. *)
(***************************************************************************)
EXTENDS Naturals, FiniteSets

CONSTANTS
    Client,
    Param,       \* names of session variables
    Defaults,    \* those with a value in ^octo("variables",...)
    Scripts,     \* what clients may send
    SslMode,     \* ssl_on and YDB_TLS_AVAILABLE: "off", "tls", "unavailable"
    FdLimit      \* bound: descriptors the listening process can hold open

\* What a client is going to send; nothing after a wrong message matters.
Script ==
    {m \in [ssl : BOOLEAN, startup : {"good", "bad"}, login : {"right", "refused"},
            params : SUBSET Param] :
        /\ m.startup = "bad" => m.login = "refused"
        /\ m.login = "refused" => m.params = {}}

ASSUME ServerAssumption ==
    /\ Defaults \subseteq Param
    /\ Scripts \subseteq Script
    /\ SslMode \in {"off", "tls", "unavailable"}
    /\ FdLimit \in Nat
    /\ IsFiniteSet(Client)

Nothing == [ssl |-> FALSE, startup |-> "bad", login |-> "refused", params |-> {}]

VARIABLES
    conn,        \* each client's connection
    script,      \* what it sends
    main,        \* the listening process
    cur,         \* the connections accepted and not forked for yet
    fds,         \* the connections, and a file, that the listening process holds open
    ending,      \* session_ending
    helper,      \* the helper thread
    child,       \* each connection's child process
    got,         \* what the child's buffer holds
    todo,        \* variables its current loop has still to visit
    lastId,      \* the node ^session
    session,     \* each child's session_id, 0 before it has one
    variables,   \* ^session(id,"variables",name)
    reported     \* the ParameterStatus messages sent

parent == <<main, cur, fds, ending, helper>>
data == <<got, todo, lastId, session, variables, reported>>
vars == <<conn, script, parent, child, data>>

Unset == "unset"
Value == Client \cup {"default", Unset}
SessionId == 1..Cardinality(Client)

Init ==
    /\ conn = [c \in Client |-> "none"]
    /\ script = [c \in Client |-> Nothing]
    /\ main = "accept" /\ cur = {} /\ ending = FALSE /\ helper = "wait"
    /\ fds \in SUBSET {"file"}
    /\ child = [c \in Client |-> "none"]
    /\ got = [c \in Client |-> "garbage"]
    /\ todo = [c \in Client |-> {}]
    /\ lastId = 0
    /\ session = [c \in Client |-> 0]
    /\ variables = [i \in SessionId |-> [p \in Param |-> Unset]]
    /\ reported = [c \in Client |-> [p \in Param |-> Unset]]

-----------------------------------------------------------------------------
(* Clients, and a signal for the server.                                   *)

Connect(c) ==
    /\ conn[c] = "none"
    /\ conn' = [conn EXCEPT ![c] = "pending"]
    /\ \E m \in Scripts : script' = [script EXCEPT ![c] = m]
    /\ UNCHANGED <<parent, child, data>>

Disconnect(c) ==
    /\ conn[c] \in {"pending", "open"}
    /\ conn' = [conn EXCEPT ![c] = "closed"]
    /\ UNCHANGED <<script, parent, child, data>>

\* handle_sigint.
Sigint ==
    /\ ~ending
    /\ ending' = TRUE
    /\ UNCHANGED <<conn, script, main, cur, fds, helper, child, data>>

-----------------------------------------------------------------------------
(* The listening process.                                                  *)

\* It does not close the descriptor after the fork, so it holds one per
\* connection; when there are no more accept fails, which is FATAL.
Accept(c) ==
    /\ main = "accept" /\ conn[c] \in {"pending", "closed"} /\ child[c] = "none"
    /\ c \notin fds
    /\ IF Cardinality(fds) < FdLimit
       THEN /\ conn' = [conn EXCEPT ![c] = IF @ = "pending" THEN "open" ELSE @]
            /\ fds' = fds \cup {c} /\ cur' = {c} /\ main' = "fork"
       ELSE /\ main' = "fatal"
            /\ UNCHANGED <<conn, fds, cur>>
    /\ UNCHANGED <<script, ending, helper, child, data>>

\* accept is interrupted by the signal.
Interrupted ==
    /\ main = "accept" /\ ending
    /\ main' = "exited"
    /\ UNCHANGED <<conn, script, cur, fds, ending, helper, child, data>>

\* Mutant: a fork that fails ends the loop.
ForkFailureEnds ==
    /\ main = "fork"
    /\ \E forked \in BOOLEAN :
           /\ child' = [c \in Client |-> IF c \in cur /\ forked THEN "first" ELSE child[c]]
           /\ main' = IF ending \/ ~forked THEN "exited" ELSE "accept"
    /\ cur' = {}
    /\ UNCHANGED <<conn, script, fds, ending, helper, data>>

\* If fork fails, it goes on to the next connection as it does after a fork.
Fork ==
    /\ main = "fork"
    /\ \E forked \in BOOLEAN :
           child' = [c \in Client |-> IF c \in cur /\ forked THEN "first" ELSE child[c]]
    /\ cur' = {}
    /\ main' = IF ending THEN "exited" ELSE "accept"
    /\ UNCHANGED <<conn, script, fds, ending, helper, data>>

-----------------------------------------------------------------------------
(* rocto_helper_waitpid.                                                   *)

Running == main \notin {"exited", "fatal"}

Reap(c) ==
    /\ Running /\ helper = "wait" /\ child[c] = "exited"
    /\ child' = [child EXCEPT ![c] = "reaped"]
    /\ helper' = IF ending THEN "stopped" ELSE "wait"
    /\ UNCHANGED <<conn, script, main, cur, fds, ending, data>>

\* Mutant: ECHILD ends the loop.
NoChildrenStops ==
    /\ Running /\ helper = "wait" /\ \A c \in Client : child[c] \in {"none", "reaped"}
    /\ helper' = "stopped"
    /\ UNCHANGED <<conn, script, main, cur, fds, ending, child, data>>

\* ECHILD: sleep, and look at session_ending again.
NoChildren ==
    /\ Running /\ helper = "wait" /\ \A c \in Client : child[c] \in {"none", "reaped"}
    /\ helper' = IF ending THEN "stopped" ELSE "wait"
    /\ UNCHANGED <<conn, script, main, cur, fds, ending, child, data>>

-----------------------------------------------------------------------------
(* A child, up to the main loop.  A read from a connection that the client *)
(* has closed may still find what was sent before.                         *)

Goto(c, pc) ==
    /\ child' = [child EXCEPT ![c] = pc]
    /\ UNCHANGED <<conn, script, parent>>

Gone(c) == conn[c] = "closed"

\* The result of read_bytes is not looked at: if it fails, the buffer holds what
\* it held before.
ReadBytes(c, sent) ==
    \/ got' = [got EXCEPT ![c] = sent]
    \/ Gone(c) /\ got' = got

ReadFirst(c) ==
    /\ child[c] = "first"
    /\ ReadBytes(c, IF script[c].ssl THEN "ssl" ELSE "startup")
    /\ Goto(c, "ssl")
    /\ UNCHANGED <<todo, lastId, session, variables, reported>>

\* read_ssl_request and the answer.  Uninitialised bytes may look like anything.
\* A connection whose handshake fails is still read from, without success.
AnswerSsl(c) ==
    /\ child[c] = "ssl"
    /\ \/ got[c] # "ssl" /\ Goto(c, "startup") /\ got' = got
       \/ /\ got[c] # "startup"
          /\ \/ SslMode # "unavailable" /\ ReadBytes(c, "startup") /\ Goto(c, "startup")
             \/ SslMode # "off" /\ got' = got /\ Goto(c, "startup")
             \/ SslMode = "tls" /\ got' = got /\ Goto(c, "exited")
    /\ UNCHANGED <<todo, lastId, session, variables, reported>>

ReadStartup(c) ==
    /\ child[c] = "startup"
    /\ \/ /\ got[c] = "garbage" \/ (got[c] = "startup" /\ script[c].startup = "good")
          /\ Goto(c, "challenge")
       \/ /\ got[c] # "startup" \/ script[c].startup = "bad" \/ Gone(c)
          /\ Goto(c, "exited")
    /\ UNCHANGED data

\* Send the salt; read the password message.
Challenge(c) ==
    /\ child[c] = "challenge"
    /\ Goto(c, "password") \/ (Gone(c) /\ Goto(c, "exited"))
    /\ UNCHANGED data

\* Mutant: the result of handle_password_message is not looked at.
PasswordIgnored(c) ==
    /\ child[c] = "password"
    /\ \/ got[c] = "startup" /\ Goto(c, "incr")
       \/ Gone(c) /\ Goto(c, "exited")
    /\ UNCHANGED data

\* handle_password_message: not md5, no such user, no password or another one.
Password(c) ==
    /\ child[c] = "password"
    /\ \/ got[c] = "startup" /\ Goto(c, IF script[c].login = "right" THEN "incr" ELSE "exited")
       \/ Gone(c) /\ Goto(c, "exited")
    /\ UNCHANGED data

\* Mutant: the node is read and not incremented.
NewSessionRead(c) ==
    /\ child[c] = "incr"
    /\ lastId' = IF lastId = 0 THEN 1 ELSE lastId
    /\ session' = [session EXCEPT ![c] = lastId']
    /\ todo' = [todo EXCEPT ![c] = Defaults]
    /\ Goto(c, "defaults")
    /\ UNCHANGED <<got, variables, reported>>

NewSession(c) ==
    /\ child[c] = "incr"
    /\ lastId' = lastId + 1
    /\ session' = [session EXCEPT ![c] = lastId']
    /\ todo' = [todo EXCEPT ![c] = Defaults]
    /\ Goto(c, "defaults")
    /\ UNCHANGED <<got, variables, reported>>

SetVariable(c, p, v) ==
    /\ variables' = [variables EXCEPT ![session[c]][p] = v]
    /\ todo' = [todo EXCEPT ![c] = @ \ {p}]
    /\ UNCHANGED <<conn, script, parent, child, got, lastId, session, reported>>

CopyDefault(c) ==
    /\ child[c] = "defaults"
    /\ \E p \in todo[c] : SetVariable(c, p, "default")

SetParm(c) ==
    /\ child[c] = "parms"
    /\ \E p \in todo[c] : SetVariable(c, p, c)

\* A ParameterStatus that cannot be sent ends the process.
Report(c) ==
    /\ child[c] = "report"
    /\ \E p \in todo[c] :
           /\ reported' = [reported EXCEPT ![c][p] = variables[session[c]][p]]
           /\ todo' = [todo EXCEPT ![c] = @ \ {p}]
    /\ UNCHANGED child \/ (Gone(c) /\ child' = [child EXCEPT ![c] = "exited"])
    /\ UNCHANGED <<conn, script, parent, got, lastId, session, variables>>

\* Mutant: the client's parameters first, then the defaults.
LoopDoneSwapped(c) ==
    /\ todo[c] = {}
    /\ \/ child[c] = "defaults" /\ Goto(c, "parms") /\ todo' = [todo EXCEPT ![c] = Defaults]
       \/ child[c] = "parms" /\ Goto(c, "report") /\ todo' = [todo EXCEPT ![c] = Param]
       \/ child[c] = "report" /\ Goto(c, "loop") /\ todo' = todo
    /\ UNCHANGED <<got, lastId, session, variables, reported>>

\* Each of the three loops over variables goes on to the next.
LoopDone(c) ==
    /\ todo[c] = {}
    /\ \/ child[c] = "defaults" /\ Goto(c, "parms")
          /\ todo' = [todo EXCEPT ![c] = script[c].params]
       \/ child[c] = "parms" /\ Goto(c, "report")
          /\ todo' = [todo EXCEPT ![c] = {p \in Param : variables[session[c]][p] # Unset}]
       \/ child[c] = "report" /\ Goto(c, "loop")
          /\ todo' = todo
    /\ UNCHANGED <<got, lastId, session, variables, reported>>

Active == {"first", "ssl", "startup", "challenge", "password", "incr",
           "defaults", "parms", "report", "loop"}

\* The main loop returns, or the process dies of a FATAL error or a signal.
Exit(c) ==
    /\ child[c] \in Active
    /\ Goto(c, "exited")
    /\ UNCHANGED data

-----------------------------------------------------------------------------
Startup(c) ==
    \/ ReadFirst(c) \/ AnswerSsl(c) \/ ReadStartup(c) \/ Challenge(c) \/ Password(c)
    \/ NewSession(c) \/ CopyDefault(c) \/ SetParm(c) \/ Report(c) \/ LoopDone(c)

Main == Fork \/ \E c \in Client : Accept(c)

Helper == NoChildren \/ \E c \in Client : Reap(c)

Next ==
    \/ Main \/ Helper \/ Interrupted \/ Sigint
    \/ \E c \in Client : Connect(c) \/ Disconnect(c) \/ Startup(c) \/ Exit(c)

Spec == Init /\ [][Next]_vars

\* The listening process and the helper thread run when they can.
FairSpec == Spec /\ WF_vars(Main) /\ WF_vars(Helper)

-----------------------------------------------------------------------------
\* A child gets as far as a session only for a client whose password
\* handle_password_message accepted, whatever a closed connection leaves in the
\* buffer that is parsed.
OnlyAuthenticated ==
    \A c \in Client : session[c] # 0 =>
        script[c].login = "right" /\ script[c].startup = "good"

\* Children that start at the same time never share a session: ydb_incr_s gives
\* each its own subscript of ^session.
SessionsApart ==
    \A c, d \in Client : c # d /\ session[c] # 0 => session[c] # session[d]

\* The client is told, and its session holds, its own parameters where it sent
\* one and the defaults elsewhere, whatever other sessions start meanwhile.
OwnVariables ==
    \A c \in Client : child[c] = "loop" =>
        /\ reported[c] = variables[session[c]]
        /\ \A p \in Param :
               reported[c][p] = IF p \in script[c].params THEN c
                                ELSE IF p \in Defaults THEN "default" ELSE Unset

\* tests/test_psql_connection: "verify that dead procs don't become zombies".
\* The helper thread waits for every child that has exited, also for one that
\* exits while others run or while the thread sleeps.
Reaped ==
    \A c \in Client :
        (child[c] = "exited") ~> (child[c] = "reaped" \/ ending \/ main = "fatal")

\* No connection keeps the listening process from accepting the next one, as
\* long as it has descriptors.
Accepted ==
    \A c \in Client :
        (conn[c] = "pending") ~> (conn[c] # "pending" \/ ending \/ main = "fatal")
=============================================================================
