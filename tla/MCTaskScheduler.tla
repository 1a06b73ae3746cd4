--------------------------- MODULE MCTaskScheduler ---------------------------
(* A timer's run and a commanded one beside it, over a clock of two ticks. *)
EXTENDS TaskScheduler
=============================================================================
