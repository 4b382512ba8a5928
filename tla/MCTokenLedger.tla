----------------------------- MODULE MCTokenLedger -----------------------------
(* TokenLedger on small sets of users and transactions. *)
EXTENDS TokenLedger, TLC

Amounts == 1 .. 2
Openings == {0, 2}

(* Users, transactions and replies are interchangeable. *)
Symmetry == Permutations(User) \cup Permutations(Tx) \cup Permutations(Reply)
================================================================================
