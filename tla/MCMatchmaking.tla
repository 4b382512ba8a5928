----------------------------- MODULE MCMatchmaking -----------------------------
(* Matchmaking on small sets of users, attempts and handlers. *)
EXTENDS Matchmaking, TLC

Users2 == 1 .. 2
Users3 == 1 .. 3

(* Attempts and handlers are interchangeable; users are not (lock order). *)
Symmetry == Permutations(Attempt) \cup Permutations(Handler)
================================================================================
