------------------------------- MODULE MCStanding -------------------------------
(* Standing on a few calls and one report. *)
EXTENDS Standing, TLC

(* Calls are interchangeable (for safety alone). *)
Symmetry == Permutations(Call)
================================================================================
