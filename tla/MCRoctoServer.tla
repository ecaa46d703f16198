--------------------------- MODULE MCRoctoServer ---------------------------
(* Instances of RoctoServer.                                               *)
EXTENDS RoctoServer

CONSTANTS c1, c2, zone

Sends(ssl, startup, login, params) == [ssl |-> ssl, startup |-> startup, login |-> login, params |-> params]

\* With and without SSL and parameters; a wrong password; a wrong message.
SomeScripts ==
    {Sends(ssl, "good", "right", params) : ssl \in BOOLEAN, params \in SUBSET {zone}}
    \cup {Sends(FALSE, "good", "refused", {}), Sends(TRUE, "bad", "refused", {})}
=============================================================================
