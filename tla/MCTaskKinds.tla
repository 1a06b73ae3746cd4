----------------------------- MODULE MCTaskKinds -----------------------------
(* One issue and the run of the timer beside a forced one; one stock with one level,  *)
(* two chats in time zones a day apart, two runs and two commands at a time.          *)
EXTENDS TaskKinds, TLC

CONSTANTS i, timer, forced, x, l, a, b, w1, w2, c1, c2, nothing
=============================================================================
