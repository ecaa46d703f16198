---------------------------- MODULE MCPlanCache ----------------------------
(* Instances of PlanCache for TLC *)
EXTENDS PlanCache, TLC

CONSTANTS p1, p2, p3, f1, f2, x1

\* Two plans use the cross reference, each with its own text of it; or one plan does
SharedXref == (f1 :> <<x1>>) @@ (f2 :> <<x1>>)
OneBad == (f1 :> <<x1>>) @@ (f2 :> <<>>)

Symmetry == Permutations(Proc)
=============================================================================
