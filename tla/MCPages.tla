--------------------------------- MODULE MCPages ---------------------------------
(* The discover page or the settings page: one of them is open. Neither       *)
(* reads what the other writes.                                               *)
EXTENDS CallPanel, Settings, TLC

(* Each page's values are interchangeable. As only one page is open, a        *)
(* permutation of one page's values goes together with one of the other's.    *)
Moves(p) == \E x \in DOMAIN p : p[x] # x

Together(A, B) ==
    {r[1] @@ r[2] : r \in {s \in Permutations(A) \X Permutations(B) : Moves(s[1]) = Moves(s[2])}}

Symmetry == Together(Match, Slot) \cup Together(Track, Interest)

(* Bound: what is shown of calls at one time. What happens to a thing that is *)
(* shown does not depend on the others.                                       *)
MaxShown == 3

PagesInit == Init /\ FormInit /\ here # opened /\ (opened => browser = "ok" /\ several)

PagesNext ==
    \/ Next /\ Cardinality(shown') <= MaxShown /\ UNCHANGED formVars
    \/ FormNext /\ UNCHANGED vars

PagesSpec == PagesInit /\ [][PagesNext]_<<vars, formVars>>
================================================================================
