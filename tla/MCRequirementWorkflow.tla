------------------------ MODULE MCRequirementWorkflow ------------------------
(* Requirements and cards are interchangeable. *)
EXTENDS RequirementWorkflow, TLC

Symmetry == Permutations(Requirements) \cup Permutations(Messages)
=============================================================================
