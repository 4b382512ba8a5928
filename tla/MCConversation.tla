---------------------------- MODULE MCConversation ----------------------------
(* Small instances of Conversation: users and matches are interchangeable. *)
EXTENDS Conversation, TLC

Symmetry == Permutations(User) \cup Permutations(Match)

================================================================================
