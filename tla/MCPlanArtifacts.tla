--------------------------- MODULE MCPlanArtifacts ---------------------------
(* Three versions of a plan and two revisions at a time. *)
EXTENDS PlanArtifacts, TLC

CONSTANTS c1, c2, n1, n2, n3
MCSymmetry == Permutations({c1, c2}) \cup Permutations({n1, n2, n3})
=============================================================================
