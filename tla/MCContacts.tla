------------------------------- MODULE MCContacts -------------------------------
(* Two users, and four calls they make of each other. *)
EXTENDS Contacts, TLC

CONSTANTS c1, c2, c3, c4

Ops == c1 :> {"remove"} @@ c2 :> {"remove", "block"}
       @@ c3 :> {"send", "answer"} @@ c4 :> {"send", "answer"}
================================================================================
