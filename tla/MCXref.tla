------------------------------- MODULE MCXref -------------------------------
(* Instances of Xref for TLC *)
EXTENDS Xref, TLC

CONSTANTS p1, p2, a, b

\* Undisturbed; with empty values; two builders at once; and everything but
\* lock waits that run out
Disturbances == {{}, {"empty"}, {"empty", "expires"}, {"overlap", "death"}}
=============================================================================
