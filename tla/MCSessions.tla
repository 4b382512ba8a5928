------------------------------- MODULE MCSessions -------------------------------
(* Sessions on a few calls and one device signed in beforehand. *)
EXTENDS Sessions, TLC

(* Calls are interchangeable. *)
Symmetry == Permutations(Call)
================================================================================
