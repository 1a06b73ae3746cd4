---------------------------- MODULE LeaseService ----------------------------
(***************************************************************************)
(* What a lease on a run attempt promises to the workers, without rows,    *)
(* times or queues: while one of them trusts its lease no other is granted *)
(* the attempt or ends it, and what has ended is not granted again.        *)
(* RunAttemptQueue implements it.                                          *)
(***************************************************************************)
CONSTANTS Attempts, Workers

VARIABLES
  trusted,  \* the pairs of a worker and an attempt it may work on
  over      \* the attempts that have ended

vars == <<trusted, over>>

Init == trusted = {} /\ over = {}

(* No other worker is at work on the attempt. *)
FreeFor(w, a) == a \notin over /\ \A v \in Workers \ {w} : <<v, a>> \notin trusted

Grant(w, a) ==
  /\ FreeFor(w, a)
  /\ trusted' = trusted \cup {<<w, a>>}
  /\ UNCHANGED over

End(w, a) ==
  /\ FreeFor(w, a)
  /\ trusted' = trusted \ {<<w, a>>}
  /\ over' = over \cup {a}

(* Leases expire or are given back, any number of them at a time. *)
Lapse ==
  /\ trusted' \in SUBSET trusted
  /\ UNCHANGED over

(* The workers die, and with them what they had not ended. *)
Interrupt ==
  /\ trusted' = {}
  /\ over' \in {over \cup died : died \in SUBSET Attempts}

Next ==
  \/ \E w \in Workers, a \in Attempts : Grant(w, a) \/ End(w, a)
  \/ Lapse
  \/ Interrupt

Spec == Init /\ [][Next]_vars
=============================================================================
