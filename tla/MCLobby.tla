-------------------------------- MODULE MCLobby --------------------------------
(* The lobby with two regions, a ladder of two stages and a few users. *)
EXTENDS Lobby

Users3 == 1..3
Users2 == 1..2
Everybody == [k \in {"gender", "language", "ageBracket"} |-> User]
Choosy    == [Everybody EXCEPT !["gender"] = User \ {3}]

Homes == [u \in User |-> IF u = 1 THEN "PT" ELSE IF u = 2 THEN "BR" ELSE Nowhere]
Moves == [Homes EXCEPT ![1] = "BR"]
Regions == [c \in Country |-> IF c = "PT" THEN "eu" ELSE "sa"]
Ladder == << [after |-> 0, drop |-> {}],
             [after |-> 1, drop |-> Constraint] >>

Profiles ==
    [u \in User |->
       [wants     |-> IF u = 1 THEN {"BR"} ELSE {},
        suits     |-> IF u = 2 THEN Choosy ELSE Everybody,
        interests |-> {"surf"},
        excluded  |-> {}]]

Owners == [t \in Tab |-> 1]
================================================================================
