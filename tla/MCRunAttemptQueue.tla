-------------------------- MODULE MCRunAttemptQueue --------------------------
(* Two workers compete for three attempts under a lease of two ticks. *)
EXTENDS RunAttemptQueue, TLC

Symmetry == Permutations(Workers) \cup Permutations(Attempts)
=============================================================================
