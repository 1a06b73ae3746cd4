----------------------------- MODULE MCRecovery -----------------------------
(* Two recoveries of one attempt, an operator's command and one memory. *)
EXTENDS Recovery, TLC

CONSTANTS r1, r2, c1, c2, diag, ctrl, cmd, mem

MCFailures  == {[category |-> "permission", recoverable |-> FALSE],
                [category |-> "agent_process", recoverable |-> FALSE],
                [category |-> "timeout", recoverable |-> FALSE]}
MCSymmetry  == Permutations({r1, r2}) \cup Permutations({c1, c2})

MCDiagOf    == [r \in Recoveries |-> diag]
MCControlOf == [r \in Recoveries |-> ctrl]
MCMemoryOf  == [r \in Recoveries |-> mem]
=============================================================================
