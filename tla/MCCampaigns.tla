------------------------------ MODULE MCCampaigns ------------------------------
(* Campaigns on small sets of users, claims and edits. *)
EXTENDS Campaigns, TLC

Amounts == 1 .. 2
Caps == 1 .. 2

(* Users, claims and edits are interchangeable. *)
Symmetry == Permutations(User) \cup Permutations(Claim) \cup Permutations(Edit)
================================================================================
