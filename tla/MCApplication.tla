---------------------------- MODULE MCApplication ----------------------------
(* Two providers, two commands and two turns at a time, one session, and six legacy files. *)
EXTENDS Application, TLC

CONSTANTS a, b, s, r, seed, c1, c2, t1, t2, none, nosession, nourl, u, v, g
MCRowsOf ==
  [f \in {"dedup", "sessions", "providers", "tasks", "repositories", "chat_bindings"} |->
     CASE f = "sessions" -> {s} [] f = "providers" -> {a, b} [] f = "tasks" -> {r}
       [] f = "repositories" -> {1} [] f = "chat_bindings" -> {g} [] f = "dedup" -> {}]
MCSymmetry == Permutations({c1, c2}) \cup Permutations({t1, t2}) \cup Permutations({a, b}) \cup Permutations({u, v})
=============================================================================
