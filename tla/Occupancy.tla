------------------------------- MODULE Occupancy -------------------------------
(***************************************************************************)
(* What matchmaking promises about conversations, with no Redis, no locks  *)
(* and no steps in between: two free users are put together in one step,   *)
(* under a conversation id that was never used, and a user later becomes   *)
(* free again.  A user is never moved from one conversation straight into  *)
(* another, and nobody is ever put into a conversation alone.              *)
(***************************************************************************)
CONSTANTS User, Match, None

VARIABLES place,   \* place[u]: the conversation u is in, or None
          spent    \* conversation ids that have been used

vars == <<place, spent>>

Init == /\ place = [u \in User |-> None]
        /\ spent = {}

Pair(m, u, v) ==
    /\ u # v
    /\ place[u] = None
    /\ place[v] = None
    /\ m \notin spent
    /\ place' = [place EXCEPT ![u] = m, ![v] = m]
    /\ spent' = spent \cup {m}

Vacate(u) ==
    /\ place[u] # None
    /\ place' = [place EXCEPT ![u] = None]
    /\ UNCHANGED spent

Next == \/ \E m \in Match, u, v \in User : Pair(m, u, v)
        \/ \E u \in User : Vacate(u)

Spec == Init /\ [][Next]_vars
================================================================================
