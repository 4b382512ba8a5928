---------------------------------- MODULE MCTab ----------------------------------
(* One tab with two calls at a time. *)
EXTENDS Tab
================================================================================
