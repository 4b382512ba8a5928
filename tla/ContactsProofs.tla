----------------------------- MODULE ContactsProofs -----------------------------
(* Theorems of Contacts, for any users and any number of calls at once.       *)
EXTENDS Contacts, TLAPS

(* A pending request is a row, of two people, and its sender has asked.       *)
RequestInv ==
    \A u, v \in User :
        /\ request[<<u, v>>].status = "PENDING" => u # v /\ request[<<u, v>>].id # None
        /\ u # v /\ request[<<u, v>>].id # None => u \in asked[{u, v}]

(* Nobody else's word counts for a pair. *)
AskedInv == \A p \in Pair : asked[p] \subseteq p

(* What the tables say of each other. *)
TablesOK ==
    /\ request \in [User \X User -> [id : Id, status : Status]]
    /\ connection \in [Pair -> Id]
    /\ rows \in 0..MaxRows
    /\ asked \in [Pair -> SUBSET User]

TablesInv == TablesOK /\ RequestInv /\ AskedInv /\ ConsentOfBoth /\ ConnectedHasRequest

(* A call is between two people. *)
CallsOK ==
    /\ call \in [Call -> [pc : Label, by : User \cup {None}, with : User \cup {None},
                          row : Id, barred : BOOLEAN]]
    /\ \A c \in Call : call[c].pc # "new" => Of(c) \in Pair

(* A call that is to accept a request has seen a row. *)
RowInv == \A c \in Call : call[c].pc \in {"meet", "wins", "accept"} => call[c].row # None

(* The labels of a call that no block has stopped yet. *)
Passed == {"existing", "reciprocal", "meet", "upsert", "accept"}

(* What bars a call is a block that stands, and a barred call stops short of  *)
(* every write that would bring the pair together.                            *)
BarredInv ==
    \A c \in Call : call[c].barred =>
        isBlockedBetween(call[c].by, call[c].with) /\ call[c].pc \notin Passed

CallsInv == CallsOK /\ RowInv /\ BarredInv

ContactsInv == TypeOK /\ TablesInv /\ CallsInv
--------------------------------------------------------------------------------
LEMMA InitInv == Init => ContactsInv
<1> SUFFICES ASSUME Init PROVE ContactsInv
  OBVIOUS
<1> PICK sent \in SUBSET Ways, friends \in SUBSET Pair :
      /\ \A p \in friends : \E w \in sent : {w[1], w[2]} = p
      /\ request = [w \in User \X User |->
                      IF w \notin sent THEN NoRow
                      ELSE [id |-> 0, status |-> IF {w[1], w[2]} \in friends
                                                THEN "ACCEPTED" ELSE "PENDING"]]
      /\ connection = [p \in Pair |-> IF p \in friends THEN 0 ELSE None]
      /\ asked = [p \in Pair |-> IF p \in friends THEN p
                                ELSE {u \in p : \E v \in p : <<u, v>> \in sent}]
  BY DEF Init
<1> USE NoneAssumption, BoundAssumption
<1>1. TablesOK
  <2>1. request \in [User \X User -> [id : Id, status : Status]]
    BY DEF NoRow, Id, Status
  <2>2. connection \in [Pair -> Id]
    BY DEF Id
  <2>3. asked \in [Pair -> SUBSET User]
    BY DEF Pair
  <2>4. rows \in 0..MaxRows
    BY DEF Init
  <2> QED
    BY <2>1, <2>2, <2>3, <2>4 DEF TablesOK
<1>7. CallsOK /\ \A c \in Call : call[c].pc = "new"
  BY DEF Init, Unmade, Label, Id, CallsOK
<1>8. TypeOK
  <2>1. blocks \subseteq User \X User /\ known \in [User -> (SUBSET User) \cup {None}]
        /\ join \in [User -> (SUBSET User) \cup {None}]
    BY DEF Init
  <2> QED
    BY <1>1, <1>7, <2>1 DEF TablesOK, CallsOK, TypeOK
<1>2. RequestInv
  <2> SUFFICES ASSUME NEW u \in User, NEW v \in User
               PROVE  /\ request[<<u, v>>].status = "PENDING" => u # v /\ request[<<u, v>>].id # None
                      /\ u # v /\ request[<<u, v>>].id # None => u \in asked[{u, v}]
    BY DEF RequestInv
  <2>1. CASE <<u, v>> \notin sent
    BY <2>1 DEF NoRow
  <2>2. CASE <<u, v>> \in sent
    <3>1. u # v /\ {u, v} \in Pair
      BY <2>2 DEF Ways, Pair
    <3>2. request[<<u, v>>].id = 0
      BY <2>2
    <3>3. u \in asked[{u, v}]
      BY <2>2, <3>1
    <3>4. request[<<u, v>>].id # None
      BY <3>2
    <3> QED
      BY <3>1, <3>3, <3>4
  <2> QED
    BY <2>1, <2>2
<1>3. AskedInv
  BY DEF AskedInv
<1>4. RowInv /\ BarredInv
  BY DEF RowInv, BarredInv, Init, Unmade
<1>5. ConsentOfBoth
  BY DEF ConsentOfBoth
<1>6. ConnectedHasRequest
  <2> SUFFICES ASSUME NEW p \in Pair, connection[p] # None
               PROVE  \E u, v \in p : u # v /\ request[<<u, v>>].id # None
    BY DEF ConnectedHasRequest
  <2>1. p \in friends
    OBVIOUS
  <2>2. PICK w \in sent : {w[1], w[2]} = p
    BY <2>1
  <2>3. w \in User \X User /\ w[1] # w[2] /\ request[w].id = 0
    BY DEF Ways
  <2>4. w = <<w[1], w[2]>> /\ w[1] \in p /\ w[2] \in p
    BY <2>2, <2>3
  <2>5. request[<<w[1], w[2]>>].id # None
    BY <2>3, <2>4
  <2> QED
    BY <2>3, <2>4, <2>5
<1> QED
  BY <1>1, <1>2, <1>3, <1>4, <1>5, <1>6, <1>7, <1>8 DEF ContactsInv, TablesInv, CallsInv



--------------------------------------------------------------------------------
(* A call that was made is between two people, whose pair it is about. *)
LEMMA CallPair ==
    ASSUME CallsOK, NEW c \in Call, call[c].pc # "new"
    PROVE  /\ call[c].by \in User /\ call[c].with \in User /\ call[c].by # call[c].with
           /\ Of(c) = {call[c].by, call[c].with} /\ Of(c) \in Pair
<1>1. Of(c) = {call[c].by, call[c].with} /\ Of(c) \in Pair
  BY DEF CallsOK, Of
<1>2. PICK q \in User \X User : q[1] # q[2] /\ {q[1], q[2]} = Of(c)
  BY <1>1 DEF Pair
<1> QED
  BY <1>1, <1>2

(* Beginning or failing, a call writes nothing. *)
LEMMA WritesNothing ==
    ASSUME NEW c \in Call, Start(c) \/ Fail(c)
    PROVE  UNCHANGED <<tables, rows, asked, lists>>
<1>1. ASSUME NEW u, NEW v, NEW pc, NEW row, Begin(c, u, v, pc, row)
      PROVE  UNCHANGED <<tables, rows, asked, lists>>
  BY <1>1 DEF Begin
<1>2. CASE Start(c)
  BY <1>1, <1>2 DEF Start, Send, Accept, Decline, Respond, Remove, Block, Unblock
<1>3. CASE Fail(c)
  BY <1>3 DEF Fail
<1> QED
  BY <1>2, <1>3

(* A call that begins. *)
LEMMA Begun ==
    ASSUME CallsInv, NEW c \in Call, NEW u \in User, NEW v \in User, u # v,
           NEW pc \in Label \ Passed, NEW row \in Id, pc \in {"meet", "wins"} => row # None,
           Begin(c, u, v, pc, row)
    PROVE  CallsInv'
<1> DEFINE new == [pc |-> pc, by |-> u, with |-> v, row |-> row,
                   barred |-> isBlockedBetween(u, v)]
<1>1. /\ call' = [call EXCEPT ![c] = new]
      /\ blocks' = blocks
  BY DEF Begin, tables
<1>2. new \in [pc : Label, by : User \cup {None}, with : User \cup {None},
               row : Id, barred : BOOLEAN]
  <2>1. isBlockedBetween(u, v) \in BOOLEAN
    BY DEF isBlockedBetween
  <2> QED
    BY <2>1
<1>3. call'[c] = new /\ \A d \in Call \ {c} : call'[d] = call[d]
  BY <1>1 DEF CallsInv, CallsOK
<1>4. {u, v} \in Pair
  <2>1. <<u, v>> \in User \X User /\ <<u, v>>[1] = u /\ <<u, v>>[2] = v
    OBVIOUS
  <2> QED
    BY <2>1 DEF Pair
<1>5. CallsOK'
  <2>1. call' \in [Call -> [pc : Label, by : User \cup {None}, with : User \cup {None},
                            row : Id, barred : BOOLEAN]]
    BY <1>1, <1>2 DEF CallsInv, CallsOK
  <2>2. ASSUME NEW d \in Call, call'[d].pc # "new" PROVE Of(d)' \in Pair
    <3>1. CASE d = c
      BY <1>3, <1>4, <3>1 DEF Of
    <3>2. CASE d # c
      BY <1>3, <2>2, <3>2 DEF Of, CallsInv, CallsOK
    <3> QED
      BY <3>1, <3>2
  <2> QED
    BY <2>1, <2>2 DEF CallsOK
<1>6. RowInv'
  BY <1>3 DEF CallsInv, RowInv, Passed
<1>7. BarredInv'
  <2> SUFFICES ASSUME NEW d \in Call, call'[d].barred
               PROVE  /\ isBlockedBetween(call[d].by, call[d].with)'
                      /\ call'[d].pc \notin Passed
    BY DEF BarredInv
  <2>1. CASE d = c
    <3>1. new.barred = isBlockedBetween(u, v)
      OBVIOUS
    <3>2. new.barred
      BY <1>3, <2>1
    <3>3. isBlockedBetween(u, v)
      BY <3>1, <3>2, Zenon
    <3>4. call'[d].by = u /\ call'[d].with = v /\ call'[d].pc = pc
      BY <1>3, <2>1
    <3> QED
      BY <1>1, <3>3, <3>4 DEF isBlockedBetween
  <2>2. CASE d # c
    BY <1>1, <1>3, <2>2 DEF isBlockedBetween, CallsInv, BarredInv
  <2> QED
    BY <2>1, <2>2
<1> QED
  BY <1>5, <1>6, <1>7 DEF CallsInv

(* A call that goes on, perhaps with another row, where no block is lifted. *)
LEMMA Moved ==
    ASSUME CallsInv, NEW c \in Call, call[c].pc # "new", NEW pc \in Label, NEW row \in Id,
           pc \in {"meet", "wins", "accept"} => row # None,
           pc \in Passed => ~call[c].barred,
           call' = [call EXCEPT ![c].pc = pc, ![c].row = row],
           blocks \subseteq blocks'
    PROVE  CallsInv'
<1> DEFINE new == [call[c] EXCEPT !.pc = pc, !.row = row]
<1>1. call'[c] = new /\ \A d \in Call \ {c} : call'[d] = call[d]
  BY DEF CallsInv, CallsOK
<1>2. /\ new.pc = pc /\ new.row = row
      /\ new.by = call[c].by /\ new.with = call[c].with /\ new.barred = call[c].barred
  BY DEF CallsInv, CallsOK
<1>3. CallsOK'
  <2>1. call' \in [Call -> [pc : Label, by : User \cup {None}, with : User \cup {None},
                            row : Id, barred : BOOLEAN]]
    BY DEF CallsInv, CallsOK
  <2>2. ASSUME NEW d \in Call, call'[d].pc # "new" PROVE Of(d)' \in Pair
    BY <1>1, <1>2, <2>2 DEF Of, CallsInv, CallsOK
  <2> QED
    BY <2>1, <2>2 DEF CallsOK
<1>4. RowInv'
  <2> SUFFICES ASSUME NEW d \in Call, call'[d].pc \in {"meet", "wins", "accept"}
               PROVE  call'[d].row # None
    BY DEF RowInv
  <2>1. CASE d = c
    BY <1>1, <1>2, <2>1
  <2>2. CASE d # c
    BY <1>1, <2>2 DEF CallsInv, RowInv
  <2> QED
    BY <2>1, <2>2
<1>5. BarredInv'
  <2> SUFFICES ASSUME NEW d \in Call, call'[d].barred
               PROVE  /\ isBlockedBetween(call[d].by, call[d].with)'
                      /\ call'[d].pc \notin Passed
    BY DEF BarredInv
  <2>1. call'[d].by = call[d].by /\ call'[d].with = call[d].with /\ call[d].barred
    BY <1>1, <1>2
  <2>2. isBlockedBetween(call[d].by, call[d].with)'
    BY <2>1 DEF isBlockedBetween, CallsInv, BarredInv
  <2>3. CASE d = c
    BY <1>1, <1>2, <2>1, <2>2, <2>3
  <2>4. CASE d # c
    BY <1>1, <2>1, <2>2, <2>4 DEF CallsInv, BarredInv
  <2> QED
    BY <2>3, <2>4
<1> QED
  BY <1>3, <1>4, <1>5 DEF CallsInv

(* The usual case: only the label changes. *)
LEMMA MovedOnly ==
    ASSUME CallsInv, NEW c \in Call, call[c].pc # "new", NEW pc \in Label,
           pc \in {"meet", "wins", "accept"} => call[c].row # None,
           pc \in Passed => ~call[c].barred,
           To(c, pc), blocks \subseteq blocks'
    PROVE  CallsInv'
<1>1. call[c].row \in Id
  BY DEF CallsInv, CallsOK
<1>2. call' = [call EXCEPT ![c].pc = pc, ![c].row = call[c].row]
  BY DEF To, CallsInv, CallsOK
<1> QED
  BY <1>1, <1>2, Moved

(* A block is lifted: the calls it barred no longer count as barred. *)
LEMMA Lifted ==
    ASSUME CallsInv, NEW c \in Call, BlockDelete(c)
    PROVE  CallsInv'
<1> DEFINE left == blocks \ {<<call[c].by, call[c].with>>}
           Free(d) == Of(d) = Of(c) /\ <<call[c].with, call[c].by>> \notin left
<1>1. /\ call[c].pc = "unblock" /\ blocks' = left
      /\ call' = [d \in Call |-> [call[d] EXCEPT !.pc = IF d = c THEN "drop" ELSE @,
                                                 !.barred = @ /\ ~Free(d)]]
  BY DEF BlockDelete, At
<1>2. \A d \in Call : /\ call'[d].pc = (IF d = c THEN "drop" ELSE call[d].pc)
                      /\ call'[d].by = call[d].by /\ call'[d].with = call[d].with
                      /\ call'[d].row = call[d].row
  BY <1>1 DEF CallsInv, CallsOK
<1>3. \A d \in Call : call'[d].barred = (call[d].barred /\ ~Free(d))
  BY <1>1 DEF CallsInv, CallsOK
<1>4. CallsOK'
  <2>1. ASSUME NEW d \in Call
        PROVE  call'[d] \in [pc : Label, by : User \cup {None}, with : User \cup {None},
                             row : Id, barred : BOOLEAN]
    <3>1. (call[d].barred /\ ~Free(d)) \in BOOLEAN
      OBVIOUS
    <3>2. (IF d = c THEN "drop" ELSE call[d].pc) \in Label
      BY DEF CallsInv, CallsOK, Label
    <3>3. call[d] \in [pc : Label, by : User \cup {None}, with : User \cup {None},
                       row : Id, barred : BOOLEAN]
      BY DEF CallsInv, CallsOK
    <3>4. call'[d] = [call[d] EXCEPT !.pc = IF d = c THEN "drop" ELSE @,
                                     !.barred = @ /\ ~Free(d)]
      BY <1>1
    <3> HIDE DEF Free
    <3> QED
      BY <3>1, <3>2, <3>3, <3>4
  <2>2. call' \in [Call -> [pc : Label, by : User \cup {None}, with : User \cup {None},
                            row : Id, barred : BOOLEAN]]
    BY <1>1, <2>1
  <2>3. ASSUME NEW d \in Call, call'[d].pc # "new" PROVE Of(d)' \in Pair
    <3>1. call[d].pc # "new"
      BY <1>1, <1>2, <2>3
    <3> QED
      BY <1>2, <3>1 DEF Of, CallsInv, CallsOK
  <2> QED
    BY <2>2, <2>3 DEF CallsOK
<1>5. RowInv'
  BY <1>2 DEF CallsInv, RowInv
<1>6. BarredInv'
  <2> SUFFICES ASSUME NEW d \in Call, call'[d].barred
               PROVE  /\ isBlockedBetween(call[d].by, call[d].with)'
                      /\ call'[d].pc \notin Passed
    BY DEF BarredInv
  <2>1. call[d].barred /\ ~Free(d)
    BY <1>3, Zenon
  <2>2. isBlockedBetween(call[d].by, call[d].with) /\ call[d].pc \notin Passed
    BY <2>1 DEF CallsInv, BarredInv
  <2>3. call'[d].pc \notin Passed
    BY <1>2, <2>2 DEF Passed
  <2>4. <<call[d].by, call[d].with>> \in left \/ <<call[d].with, call[d].by>> \in left
    <3>1. CASE Of(d) = Of(c)
      <4>1. <<call[c].with, call[c].by>> \in left
        BY <2>1, <3>1
      <4>2. \/ call[d].by = call[c].by /\ call[d].with = call[c].with
            \/ call[d].by = call[c].with /\ call[d].with = call[c].by
        BY <3>1, <2>2, <4>1 DEF Of, isBlockedBetween
      <4> QED
        BY <4>1, <4>2
    <3>2. CASE Of(d) # Of(c)
      <4>1. /\ <<call[d].by, call[d].with>> # <<call[c].by, call[c].with>>
            /\ <<call[d].with, call[d].by>> # <<call[c].by, call[c].with>>
        BY <3>2 DEF Of
      <4> QED
        BY <2>2, <4>1 DEF isBlockedBetween
    <3> QED
      BY <3>1, <3>2
  <2> QED
    BY <1>1, <1>2, <2>3, <2>4 DEF isBlockedBetween
<1> QED
  BY <1>4, <1>5, <1>6 DEF CallsInv

--------------------------------------------------------------------------------
(* The steps of a call keep what the invariant says of the calls. *)
LEMMA CallsStep ==
    ASSUME TypeOK, TablesInv, CallsInv, [Next]_vars
    PROVE  CallsInv'
<1> USE DEF At
<1>1. ASSUME NEW c \in Call, NEW u \in User, NEW v \in User, Send(c, u, v) PROVE CallsInv'
  BY <1>1, Begun DEF Send, Id, Label, Passed
<1>2. ASSUME NEW c \in Call, NEW u \in User, NEW v \in User, NEW pc \in {"wins", "decline"},
             Respond(c, u, v, pc)
      PROVE  CallsInv'
  <2>1. u # v /\ request[<<v, u>>].id # None /\ request[<<v, u>>].id \in Id
    BY <1>2 DEF Respond, TablesInv, TablesOK, RequestInv
  <2>2. pc \in Label \ Passed
    BY DEF Label, Passed
  <2> QED
    BY <1>2, <2>1, <2>2, Begun DEF Respond
<1>3. ASSUME NEW c \in Call, NEW u \in User, NEW v \in User, Remove(c, u, v) PROVE CallsInv'
  <2>1. {u, v} \in Pair
    <3>1. <<u, v>> \in User \X User /\ <<u, v>>[1] # <<u, v>>[2]
      BY <1>3 DEF Remove
    <3> QED
      BY <3>1 DEF Pair
  <2>2. connection[{u, v}] \in Id
    BY <2>1 DEF TablesInv, TablesOK
  <2> QED
    BY <1>3, <2>2, Begun DEF Remove, Label, Passed
<1>4. ASSUME NEW c \in Call, NEW u \in User, NEW v \in User, Block(c, u, v) \/ Unblock(c, u, v)
      PROVE  CallsInv'
  BY <1>4, Begun DEF Block, Unblock, Id, Label, Passed
<1>5. ASSUME NEW c \in Call, SendCheck(c) PROVE CallsInv'
  <2>1. CASE isBlockedBetween(call[c].by, call[c].with)
    BY <1>5, <2>1, MovedOnly DEF SendCheck, tables, Label, Passed
  <2>2. CASE ~isBlockedBetween(call[c].by, call[c].with)
    BY <1>5, <2>2, MovedOnly DEF SendCheck, tables, Label, Passed, CallsInv, BarredInv
  <2> QED
    BY <2>1, <2>2
<1>6. ASSUME NEW c \in Call, SendExisting(c) PROVE CallsInv'
  <2>1. ~call[c].barred /\ blocks' = blocks
    BY <1>6 DEF SendExisting, tables, CallsInv, BarredInv, Passed
  <2>2. PICK pc \in {"done", "reciprocal"} : To(c, pc)
    BY <1>6 DEF SendExisting
  <2> QED
    BY <1>6, <2>1, <2>2, MovedOnly DEF SendExisting, Label, Passed
<1>7. ASSUME NEW c \in Call, SendReciprocal(c) PROVE CallsInv'
  <2> DEFINE theirs == request[<<call[c].with, call[c].by>>]
             pc     == IF theirs.status = "PENDING" THEN "meet" ELSE "upsert"
  <2>1. ~call[c].barred /\ blocks' = blocks
    BY <1>7 DEF SendReciprocal, tables, CallsInv, BarredInv, Passed
  <2>2. call' = [call EXCEPT ![c].pc = pc, ![c].row = theirs.id]
    BY <1>7 DEF SendReciprocal
  <2>3. call[c].by \in User /\ call[c].with \in User
    BY <1>7, CallPair DEF SendReciprocal, CallsInv
  <2>4. theirs.id \in Id /\ (theirs.status = "PENDING" => theirs.id # None)
    BY <2>3 DEF TablesInv, TablesOK, RequestInv
  <2>5. pc \in Label /\ (pc = "meet" => theirs.id # None) /\ pc \notin {"wins", "accept"}
    BY <2>4 DEF Label
  <2>6. call[c].pc # "new"
    BY <1>7 DEF SendReciprocal
  <2> HIDE DEF theirs, pc
  <2> QED
    BY <2>1, <2>2, <2>4, <2>5, <2>6, Moved
<1>8. ASSUME NEW c \in Call, SendMeet(c) \/ SendUpsert(c) \/ RespondDecline(c)
                             \/ RespondAccept(c) \/ RemoveBoth(c)
      PROVE  CallsInv'
  <2>1. To(c, "done") /\ blocks' = blocks /\ call[c].pc # "new"
    BY <1>8 DEF SendMeet, SendUpsert, RespondDecline, RespondAccept, RemoveBoth
  <2> QED
    BY <2>1, MovedOnly DEF Label, Passed
<1>9. ASSUME NEW c \in Call, RespondCheck(c) PROVE CallsInv'
  <2>1. call[c].row # None /\ blocks' = blocks /\ call[c].pc # "new"
    BY <1>9 DEF RespondCheck, tables, CallsInv, RowInv
  <2>2. CASE isBlockedBetween(call[c].by, call[c].with)
    BY <1>9, <2>1, <2>2, MovedOnly DEF RespondCheck, Label, Passed
  <2>3. CASE ~isBlockedBetween(call[c].by, call[c].with)
    BY <1>9, <2>1, <2>3, MovedOnly DEF RespondCheck, Label, Passed, CallsInv, BarredInv
  <2> QED
    BY <2>2, <2>3
<1>10. ASSUME NEW c \in Call, BlockUpsert(c) PROVE CallsInv'
  BY <1>10, MovedOnly DEF BlockUpsert, Label, Passed
<1>11. ASSUME NEW c \in Call, BlockDelete(c) PROVE CallsInv'
  BY <1>11, Lifted
<1>12. ASSUME NEW c \in Call, invalidateBlockCache(c) PROVE CallsInv'
  BY <1>12, MovedOnly DEF invalidateBlockCache, tables, Label, Passed
<1>13. ASSUME NEW c \in Call, Fail(c) PROVE CallsInv'
  BY <1>13, MovedOnly DEF Fail, tables, Label, Passed
<1>14. CASE UNCHANGED <<call, blocks>>
  BY <1>14 DEF CallsInv, CallsOK, RowInv, BarredInv, Of, isBlockedBetween
<1>15. ASSUME NEW u \in User, Lists(u) PROVE CallsInv'
  BY <1>14, <1>15 DEF Lists, JoinRead, JoinCache, ExpireList, tables
<1>16. CASE UNCHANGED vars
  BY <1>14, <1>16 DEF vars, tables
<1>17. ASSUME NEW c \in Call, Start(c) PROVE CallsInv'
  BY <1>1, <1>2, <1>3, <1>4, <1>17 DEF Start, Accept, Decline
<1>18. ASSUME NEW c \in Call, Work(c) PROVE CallsInv'
  BY <1>5, <1>6, <1>7, <1>8, <1>9, <1>10, <1>11, <1>12, <1>18 DEF Work
<1> QED
  BY <1>13, <1>15, <1>16, <1>17, <1>18, JoinerAssumption DEF Next

--------------------------------------------------------------------------------
(* What a call that brings a pair together does: a request that is a row is   *)
(* accepted, and the pair connected, unless it is; or neither.                *)
Joins(c) ==
    \/ UNCHANGED <<request, connection, rows, asked>>
    \/ /\ request[<<call[c].with, call[c].by>>].id # None
       /\ request' = [request EXCEPT ![<<call[c].with, call[c].by>>].status = "ACCEPTED"]
       /\ \/ connection' = connection /\ rows' = rows
          \/ /\ rows < MaxRows /\ rows' = rows + 1
             /\ connection' = [connection EXCEPT ![Of(c)] = rows + 1]
       /\ Ask(c)

LEMMA JoinsOrNot ==
    ASSUME CallsInv, NEW c \in Call, SendMeet(c) \/ RespondAccept(c)
    PROVE  Joins(c)
<1>1. call[c].row # None
  BY DEF SendMeet, RespondAccept, At, CallsInv, RowInv
<1> QED
  BY <1>1 DEF SendMeet, RespondAccept, Joins

(* Most steps leave the tables as they are. *)
LEMMA Undisturbed ==
    ASSUME TablesInv, UNCHANGED <<request, connection, rows, asked>>
    PROVE  TablesInv'
<1>1. TablesOK'
  BY DEF TablesInv, TablesOK
<1>2. RequestInv'
  BY DEF TablesInv, RequestInv
<1>3. AskedInv' /\ ConsentOfBoth'
  BY DEF TablesInv, AskedInv, ConsentOfBoth
<1>4. ConnectedHasRequest'
  BY DEF TablesInv, ConnectedHasRequest
<1> QED
  BY <1>1, <1>2, <1>3, <1>4 DEF TablesInv

(* A pair that is brought together has both its words: the request's, which   *)
(* its sender gave, and the caller's.                                         *)
LEMMA JoinStep ==
    ASSUME TablesInv, CallsInv, NEW c \in Call, call[c].pc # "new", Joins(c)
    PROVE  TablesInv'
<1> DEFINE way == <<call[c].with, call[c].by>>
<1> USE NoneAssumption, BoundAssumption
<1>1. CASE UNCHANGED <<request, connection, rows, asked>>
  BY <1>1, Undisturbed
<1>2. CASE ~UNCHANGED <<request, connection, rows, asked>>
  <2>1. /\ request[way].id # None
        /\ request' = [request EXCEPT ![way].status = "ACCEPTED"]
        /\ \/ connection' = connection /\ rows' = rows
           \/ /\ rows < MaxRows /\ rows' = rows + 1
              /\ connection' = [connection EXCEPT ![Of(c)] = rows + 1]
        /\ asked' = [asked EXCEPT ![Of(c)] = @ \cup {call[c].by}]
    BY <1>2 DEF Joins, Ask
  <2>2. /\ call[c].by \in User /\ call[c].with \in User /\ call[c].by # call[c].with
        /\ Of(c) = {call[c].by, call[c].with} /\ Of(c) \in Pair /\ way \in User \X User
    BY CallPair DEF CallsInv
  <2>3. TablesOK'
    <3>1. request' \in [User \X User -> [id : Id, status : Status]]
      BY <2>1, <2>2 DEF TablesInv, TablesOK, Status
    <3>2. rows' \in 0..MaxRows
      BY <2>1 DEF TablesInv, TablesOK
    <3>3. connection' \in [Pair -> Id]
      <4>1. rows < MaxRows => rows + 1 \in Id
        BY DEF TablesInv, TablesOK, Id
      <4> QED
        BY <2>1, <2>2, <4>1 DEF TablesInv, TablesOK
    <3>4. asked' \in [Pair -> SUBSET User]
      BY <2>1, <2>2 DEF TablesInv, TablesOK
    <3> QED
      BY <3>1, <3>2, <3>3, <3>4 DEF TablesOK
  <2>4. \A w \in User \X User : /\ request'[w].id = request[w].id
                                /\ request'[w].status \in {request[w].status, "ACCEPTED"}
    <3>1. request \in [User \X User -> [id : Id, status : Status]]
      BY DEF TablesInv, TablesOK
    <3> HIDE DEF way
    <3> QED
      BY <2>1, <2>2, <3>1
  <2>5. \A p \in Pair : asked[p] \subseteq asked'[p]
    BY <2>1, <2>2 DEF TablesInv, TablesOK
  <2>6. RequestInv'
    <3> SUFFICES ASSUME NEW u \in User, NEW v \in User
                 PROVE  /\ request'[<<u, v>>].status = "PENDING"
                              => u # v /\ request'[<<u, v>>].id # None
                        /\ u # v /\ request'[<<u, v>>].id # None => u \in asked'[{u, v}]
      BY DEF RequestInv
    <3>1. request'[<<u, v>>].status = "PENDING" => u # v /\ request'[<<u, v>>].id # None
      BY <2>4 DEF TablesInv, RequestInv
    <3>2. ASSUME u # v, request'[<<u, v>>].id # None PROVE u \in asked'[{u, v}]
      <4>1. u \in asked[{u, v}]
        BY <2>4, <3>2 DEF TablesInv, RequestInv
      <4>2. {u, v} \in Pair
        <5>1. <<u, v>> \in User \X User /\ <<u, v>>[1] # <<u, v>>[2]
          BY <3>2
        <5> QED
          BY <5>1 DEF Pair
      <4> QED
        BY <2>5, <4>1, <4>2
    <3> QED
      BY <3>1, <3>2
  <2>7. AskedInv'
    <3> SUFFICES ASSUME NEW p \in Pair PROVE asked'[p] \subseteq p
      BY DEF AskedInv
    <3> QED
      BY <2>1, <2>2 DEF TablesInv, TablesOK, AskedInv
  <2>8. asked'[Of(c)] = Of(c)
    <3>1. call[c].with \in asked[Of(c)]
      <4>1. {call[c].with, call[c].by} = Of(c)
        BY <2>2
      <4> QED
        BY <2>1, <2>2, <4>1 DEF TablesInv, RequestInv
    <3>2. asked'[Of(c)] = asked[Of(c)] \cup {call[c].by}
      BY <2>1, <2>2 DEF TablesInv, TablesOK
    <3>3. asked[Of(c)] \subseteq Of(c)
      BY <2>2 DEF TablesInv, AskedInv
    <3> QED
      BY <2>2, <3>1, <3>2, <3>3
  <2>9. ConsentOfBoth'
    <3> SUFFICES ASSUME NEW p \in Pair, connection'[p] # None PROVE asked'[p] = p
      BY DEF ConsentOfBoth
    <3>1. CASE p = Of(c)
      BY <2>8, <3>1
    <3>2. CASE p # Of(c)
      BY <2>1, <2>2, <3>2 DEF TablesInv, TablesOK, ConsentOfBoth
    <3> QED
      BY <3>1, <3>2
  <2>10. ConnectedHasRequest'
    <3> SUFFICES ASSUME NEW p \in Pair, connection'[p] # None
                 PROVE  \E u, v \in p : u # v /\ request'[<<u, v>>].id # None
      BY DEF ConnectedHasRequest
    <3>1. CASE p = Of(c)
      BY <2>1, <2>2, <2>4, <3>1
    <3>2. CASE p # Of(c)
      <4>1. connection[p] # None
        BY <2>1, <2>2, <3>2 DEF TablesInv, TablesOK
      <4>2. PICK u \in p, v \in p : u # v /\ request[<<u, v>>].id # None
        BY <4>1 DEF TablesInv, ConnectedHasRequest
      <4>3. u \in User /\ v \in User
        BY <4>2 DEF Pair
      <4> QED
        BY <2>4, <4>2, <4>3
    <3> QED
      BY <3>1, <3>2
  <2> QED
    BY <2>3, <2>6, <2>7, <2>9, <2>10 DEF TablesInv
<1> QED
  BY <1>1, <1>2

(* Who sends a request has asked, whatever row it is kept in. *)
LEMMA UpsertStep ==
    ASSUME TablesInv, CallsInv, NEW c \in Call, SendUpsert(c)
    PROVE  TablesInv'
<1> DEFINE way == <<call[c].by, call[c].with>>
<1> USE NoneAssumption, BoundAssumption
<1>1. /\ call[c].by \in User /\ call[c].with \in User /\ call[c].by # call[c].with
      /\ Of(c) = {call[c].by, call[c].with} /\ Of(c) \in Pair /\ way \in User \X User
  BY CallPair DEF CallsInv, SendUpsert, At
<1>2. PICK row \in [id : Id, status : {"PENDING"}] :
        /\ row.id # None /\ request' = [request EXCEPT ![way] = row]
        /\ request[way].id # None => row.id = request[way].id
  <2>1. CASE request[way].id = None
    <3>1. rows + 1 \in Id /\ rows + 1 # None
      BY <2>1 DEF SendUpsert, TablesInv, TablesOK, Id
    <3> DEFINE new == [id |-> rows + 1, status |-> "PENDING"]
    <3>2. request' = [request EXCEPT ![way] = new]
      BY <2>1 DEF SendUpsert
    <3>3. new \in [id : Id, status : {"PENDING"}] /\ new.id = rows + 1
      BY <3>1
    <3> HIDE DEF new
    <3> QED
      BY <2>1, <3>1, <3>2, <3>3
  <2>2. CASE request[way].id # None
    <3>1. request[way] \in [id : Id, status : Status]
      BY <1>1 DEF TablesInv, TablesOK
    <3> DEFINE new == [id |-> request[way].id, status |-> "PENDING"]
    <3>2. request' = [request EXCEPT ![way] = new]
      BY <2>2, <3>1 DEF SendUpsert
    <3>3. new \in [id : Id, status : {"PENDING"}] /\ new.id = request[way].id
      BY <3>1
    <3> HIDE DEF new
    <3> QED
      BY <2>2, <3>2, <3>3
  <2> QED
    BY <2>1, <2>2
<1>3. /\ asked' = [asked EXCEPT ![Of(c)] = @ \cup {call[c].by}]
      /\ connection' = connection
  BY DEF SendUpsert, Ask
<1>4. TablesOK'
  <2>1. request' \in [User \X User -> [id : Id, status : Status]]
    BY <1>1, <1>2 DEF TablesInv, TablesOK, Status
  <2>2. rows' \in 0..MaxRows
    BY DEF SendUpsert, TablesInv, TablesOK
  <2>3. asked' \in [Pair -> SUBSET User]
    BY <1>1, <1>3 DEF TablesInv, TablesOK
  <2> QED
    BY <1>3, <2>1, <2>2, <2>3 DEF TablesInv, TablesOK
<1>5. /\ request'[way] = row
      /\ \A w \in User \X User : w # way => request'[w] = request[w]
  BY <1>1, <1>2 DEF TablesInv, TablesOK
<1>6. /\ asked'[Of(c)] = asked[Of(c)] \cup {call[c].by}
      /\ \A p \in Pair : asked[p] \subseteq asked'[p] /\ (p # Of(c) => asked'[p] = asked[p])
  BY <1>1, <1>3 DEF TablesInv, TablesOK
<1>7. RequestInv'
  <2> SUFFICES ASSUME NEW u \in User, NEW v \in User
               PROVE  /\ request'[<<u, v>>].status = "PENDING"
                            => u # v /\ request'[<<u, v>>].id # None
                      /\ u # v /\ request'[<<u, v>>].id # None => u \in asked'[{u, v}]
    BY DEF RequestInv
  <2>1. CASE <<u, v>> = way
    <3>1. u = call[c].by /\ v = call[c].with
      BY <2>1
    <3>2. {u, v} = Of(c)
      BY <1>1, <3>1
    <3> QED
      BY <1>1, <1>2, <1>5, <1>6, <2>1, <3>1, <3>2
  <2>2. CASE <<u, v>> # way
    <3>1. request'[<<u, v>>] = request[<<u, v>>]
      BY <1>5, <2>2
    <3>2. u # v => {u, v} \in Pair
      <4>1. <<u, v>> \in User \X User /\ <<u, v>>[1] = u /\ <<u, v>>[2] = v
        OBVIOUS
      <4> QED
        BY <4>1 DEF Pair
    <3> QED
      BY <1>6, <3>1, <3>2 DEF TablesInv, RequestInv
  <2> QED
    BY <2>1, <2>2
<1>8. AskedInv'
  <2> SUFFICES ASSUME NEW p \in Pair PROVE asked'[p] \subseteq p
    BY DEF AskedInv
  <2>1. asked[p] \subseteq p
    BY DEF TablesInv, AskedInv
  <2>2. CASE p = Of(c)
    BY <1>1, <1>6, <2>1, <2>2
  <2>3. CASE p # Of(c)
    BY <1>6, <2>1, <2>3
  <2> QED
    BY <2>2, <2>3
<1>9. ConsentOfBoth'
  <2> SUFFICES ASSUME NEW p \in Pair, connection'[p] # None PROVE asked'[p] = p
    BY DEF ConsentOfBoth
  <2>1. asked[p] = p
    BY <1>3 DEF TablesInv, ConsentOfBoth
  <2>2. p \subseteq asked'[p] /\ asked'[p] \subseteq p
    BY <1>6, <1>8, <2>1 DEF AskedInv
  <2> QED
    BY <2>2
<1>10. ConnectedHasRequest'
  <2> SUFFICES ASSUME NEW p \in Pair, connection'[p] # None
               PROVE  \E u, v \in p : u # v /\ request'[<<u, v>>].id # None
    BY DEF ConnectedHasRequest
  <2>1. PICK u \in p, v \in p : u # v /\ request[<<u, v>>].id # None
    BY <1>3 DEF TablesInv, ConnectedHasRequest
  <2>2. u \in User /\ v \in User
    BY DEF Pair
  <2>3. request'[<<u, v>>].id # None
    BY <1>2, <1>5, <2>1, <2>2
  <2> QED
    BY <2>1, <2>3
<1> QED
  BY <1>4, <1>7, <1>8, <1>9, <1>10 DEF TablesInv

(* A request that is declined was one, and stays a row. *)
LEMMA DeclineStep ==
    ASSUME TablesInv, CallsInv, NEW c \in Call, RespondDecline(c)
    PROVE  TablesInv'
<1> DEFINE way == <<call[c].with, call[c].by>>
<1>1. way \in User \X User
  BY CallPair DEF CallsInv, RespondDecline, At
<1>2. UNCHANGED <<connection, rows, asked>>
  BY DEF RespondDecline
<1>3. CASE request' = request
  BY <1>2, <1>3, Undisturbed
<1>4. CASE request' = [request EXCEPT ![way].status = "DECLINED"]
  <2>1. request \in [User \X User -> [id : Id, status : Status]]
    BY DEF TablesInv, TablesOK
  <2> HIDE DEF way
  <2>2. request' \in [User \X User -> [id : Id, status : Status]]
    BY <1>1, <1>4, <2>1 DEF Status
  <2>3. \A w \in User \X User : /\ request'[w].id = request[w].id
                                /\ request'[w].status \in {request[w].status, "DECLINED"}
    BY <1>1, <1>4, <2>1
  <2>4. TablesOK'
    BY <1>2, <2>2 DEF TablesInv, TablesOK
  <2>5. RequestInv'
    BY <1>2, <2>3 DEF TablesInv, RequestInv
  <2>6. AskedInv' /\ ConsentOfBoth'
    BY <1>2 DEF TablesInv, AskedInv, ConsentOfBoth
  <2>7. ConnectedHasRequest'
    <3> SUFFICES ASSUME NEW p \in Pair, connection'[p] # None
                 PROVE  \E u, v \in p : u # v /\ request'[<<u, v>>].id # None
      BY DEF ConnectedHasRequest
    <3>1. PICK u \in p, v \in p : u # v /\ request[<<u, v>>].id # None
      BY <1>2 DEF TablesInv, ConnectedHasRequest
    <3>2. u \in User /\ v \in User
      BY DEF Pair
    <3> QED
      BY <2>3, <3>1, <3>2
  <2> QED
    BY <2>4, <2>5, <2>6, <2>7 DEF TablesInv
<1> QED
  BY <1>3, <1>4 DEF RespondDecline

(* A removal takes the connection, the requests and both words, of one pair. *)
LEMMA RemoveStep ==
    ASSUME TablesInv, CallsInv, NEW c \in Call, RemoveBoth(c)
    PROVE  TablesInv'
<1> USE NoneAssumption
<1>1. /\ call[c].by \in User /\ call[c].with \in User /\ call[c].by # call[c].with
      /\ Of(c) = {call[c].by, call[c].with} /\ Of(c) \in Pair
  BY CallPair DEF CallsInv, RemoveBoth, At
<1>2. CASE UNCHANGED <<request, connection, rows, asked>>
  BY <1>2, Undisturbed
<1>3. CASE ~UNCHANGED <<request, connection, rows, asked>>
  <2>1. /\ connection' = [connection EXCEPT ![Of(c)] = None]
        /\ request' = [w \in User \X User |->
                         IF {w[1], w[2]} = Of(c) THEN NoRow ELSE request[w]]
        /\ asked' = [asked EXCEPT ![Of(c)] = {}]
        /\ rows' = rows
    BY <1>3 DEF RemoveBoth
  <2>2. \A u, v \in User : request'[<<u, v>>] = IF {u, v} = Of(c) THEN NoRow
                                                ELSE request[<<u, v>>]
    BY <2>1
  <2>3. /\ asked'[Of(c)] = {} /\ connection'[Of(c)] = None
        /\ \A p \in Pair \ {Of(c)} : asked'[p] = asked[p] /\ connection'[p] = connection[p]
    BY <1>1, <2>1 DEF TablesInv, TablesOK
  <2>4. TablesOK'
    <3>1. NoRow \in [id : Id, status : Status]
      BY DEF NoRow, Id, Status
    <3>2. request' \in [User \X User -> [id : Id, status : Status]]
      BY <2>1, <3>1 DEF TablesInv, TablesOK
    <3>3. connection' \in [Pair -> Id] /\ asked' \in [Pair -> SUBSET User]
      BY <2>1 DEF TablesInv, TablesOK, Id
    <3> QED
      BY <2>1, <3>2, <3>3 DEF TablesInv, TablesOK
  <2>5. RequestInv'
    <3> SUFFICES ASSUME NEW u \in User, NEW v \in User
                 PROVE  /\ request'[<<u, v>>].status = "PENDING"
                              => u # v /\ request'[<<u, v>>].id # None
                        /\ u # v /\ request'[<<u, v>>].id # None => u \in asked'[{u, v}]
      BY DEF RequestInv
    <3>1. CASE {u, v} = Of(c)
      BY <2>2, <3>1 DEF NoRow
    <3>2. CASE {u, v} # Of(c)
      <4>1. u # v => {u, v} \in Pair
        <5>1. <<u, v>> \in User \X User /\ <<u, v>>[1] = u /\ <<u, v>>[2] = v
          OBVIOUS
        <5> QED
          BY <5>1 DEF Pair
      <4>2. request'[<<u, v>>] = request[<<u, v>>]
        BY <2>2, <3>2
      <4> QED
        BY <2>3, <3>2, <4>1, <4>2 DEF TablesInv, RequestInv
    <3> QED
      BY <3>1, <3>2
  <2>6. AskedInv' /\ ConsentOfBoth'
    BY <2>3 DEF TablesInv, AskedInv, ConsentOfBoth
  <2>7. ConnectedHasRequest'
    <3> SUFFICES ASSUME NEW p \in Pair, connection'[p] # None
                 PROVE  \E u, v \in p : u # v /\ request'[<<u, v>>].id # None
      BY DEF ConnectedHasRequest
    <3>1. p # Of(c) /\ connection[p] # None
      BY <2>3
    <3>2. PICK u \in p, v \in p : u # v /\ request[<<u, v>>].id # None
      BY <3>1 DEF TablesInv, ConnectedHasRequest
    <3>3. u \in User /\ v \in User /\ {u, v} = p
      BY <3>2 DEF Pair
    <3> QED
      BY <2>2, <3>1, <3>2, <3>3
  <2> QED
    BY <2>4, <2>5, <2>6, <2>7 DEF TablesInv
<1> QED
  BY <1>2, <1>3

(* Every other step leaves the tables as they are. *)
LEMMA TablesStep ==
    ASSUME TablesInv, CallsInv, [Next]_vars
    PROVE  TablesInv'
<1>1. CASE UNCHANGED <<request, connection, rows, asked>>
  BY <1>1, Undisturbed
<1>2. ASSUME NEW c \in Call, Start(c) \/ Fail(c) PROVE TablesInv'
  BY <1>1, <1>2, WritesNothing DEF tables
<1>3. ASSUME NEW c \in Call, SendCheck(c) \/ SendExisting(c) \/ SendReciprocal(c)
                             \/ RespondCheck(c) \/ BlockUpsert(c) \/ BlockDelete(c)
                             \/ invalidateBlockCache(c)
      PROVE  TablesInv'
  BY <1>1, <1>3 DEF SendCheck, SendExisting, SendReciprocal, RespondCheck, BlockUpsert,
                    BlockDelete, invalidateBlockCache, tables
<1>4. ASSUME NEW c \in Call, SendMeet(c) \/ RespondAccept(c) PROVE TablesInv'
  <2>1. call[c].pc # "new"
    BY <1>4 DEF SendMeet, RespondAccept, At
  <2> QED
    BY <1>4, <2>1, JoinsOrNot, JoinStep
<1>5. ASSUME NEW c \in Call, Work(c) PROVE TablesInv'
  BY <1>3, <1>4, <1>5, UpsertStep, DeclineStep, RemoveStep DEF Work
<1>6. ASSUME NEW u \in User, Lists(u) PROVE TablesInv'
  BY <1>1, <1>6 DEF Lists, JoinRead, JoinCache, ExpireList, tables
<1>7. CASE UNCHANGED vars
  BY <1>1, <1>7 DEF vars, tables
<1> QED
  BY <1>2, <1>5, <1>6, <1>7, JoinerAssumption DEF Next

(* The tables of blocks, and the lists the realtime server keeps of them. *)
ListsOK ==
    /\ blocks \subseteq User \X User
    /\ known \in [User -> (SUBSET User) \cup {None}]
    /\ join \in [User -> (SUBSET User) \cup {None}]

LEMMA ListsStep ==
    ASSUME CallsInv, ListsOK, [Next]_vars
    PROVE  ListsOK'
<1> USE DEF ListsOK
<1>1. CASE UNCHANGED <<blocks, lists>>
  BY <1>1 DEF lists
<1>2. ASSUME NEW c \in Call, Start(c) \/ Fail(c) PROVE ListsOK'
  BY <1>1, <1>2, WritesNothing DEF tables
<1>3. ASSUME NEW c \in Call, SendCheck(c) \/ SendExisting(c) \/ SendReciprocal(c)
                             \/ SendMeet(c) \/ SendUpsert(c) \/ RespondCheck(c)
                             \/ RespondDecline(c) \/ RespondAccept(c) \/ RemoveBoth(c)
      PROVE  ListsOK'
  BY <1>1, <1>3 DEF SendCheck, SendExisting, SendReciprocal, SendMeet, SendUpsert, RespondCheck,
                    RespondDecline, RespondAccept, RemoveBoth, tables
<1>4. ASSUME NEW c \in Call, BlockUpsert(c) \/ BlockDelete(c) PROVE ListsOK'
  <2>1. call[c].by \in User /\ call[c].with \in User
    BY <1>4, CallPair DEF CallsInv, BlockUpsert, BlockDelete, At
  <2>2. blocks' \in {blocks \cup {<<call[c].by, call[c].with>>},
                    blocks \ {<<call[c].by, call[c].with>>}}
    BY <1>4 DEF BlockUpsert, BlockDelete
  <2>3. known' = known /\ join' = join
    BY <1>4 DEF BlockUpsert, BlockDelete, lists
  <2> QED
    BY <2>1, <2>2, <2>3
<1>5. ASSUME NEW c \in Call, invalidateBlockCache(c) PROVE ListsOK'
  BY <1>5 DEF invalidateBlockCache, tables
<1>6. ASSUME NEW c \in Call, Work(c) PROVE ListsOK'
  BY <1>3, <1>4, <1>5, <1>6 DEF Work
<1>7. ASSUME NEW u \in User, JoinRead(u) PROVE ListsOK'
  <2>1. getBlockedUserIds(u) \in SUBSET User
    BY DEF getBlockedUserIds
  <2> QED
    BY <1>7, <2>1 DEF JoinRead, tables
<1>8. ASSUME NEW u \in User, JoinCache(u) \/ ExpireList(u) PROVE ListsOK'
  BY <1>8 DEF JoinCache, ExpireList, tables
<1>9. CASE UNCHANGED vars
  BY <1>1, <1>9 DEF vars, tables
<1> QED
  BY <1>2, <1>6, <1>7, <1>8, <1>9, JoinerAssumption DEF Next, Lists

(* The types are those of the three parts. *)
LEMMA TypeParts == TypeOK <=> TablesOK /\ CallsOK /\ ListsOK
  BY DEF TypeOK, TablesOK, CallsOK, ListsOK

THEOREM ContactsInvariant == Spec => []ContactsInv
<1>1. ContactsInv /\ [Next]_vars => ContactsInv'
  <2> SUFFICES ASSUME ContactsInv, [Next]_vars PROVE ContactsInv'
    OBVIOUS
  <2>1. TablesInv' /\ CallsInv'
    BY TablesStep, CallsStep DEF ContactsInv
  <2>2. ListsOK'
    BY ListsStep, TypeParts DEF ContactsInv
  <2>3. TypeOK'
    BY <2>1, <2>2 DEF TypeOK, TablesOK, CallsOK, ListsOK, TablesInv, CallsInv
  <2> QED
    BY <2>1, <2>3 DEF ContactsInv
<1> QED
  BY <1>1, InitInv, PTL DEF Spec

--------------------------------------------------------------------------------
(* The tables and the calls have their types. *)
THEOREM TypeCorrect == Spec => []TypeOK
<1>1. ContactsInv => TypeOK
  BY DEF ContactsInv
<1> QED
  BY <1>1, ContactsInvariant, PTL

(* Any number of requests, answers and removals of a pair, in any order and    *)
(* failing anywhere, connects it only with the word of both since either last  *)
(* removed the other (acceptRequest, sendRequest, removeConnection).           *)
THEOREM ConnectedByConsent == Spec => []ConsentOfBoth
<1>1. ContactsInv => ConsentOfBoth
  BY DEF ContactsInv, TablesInv
<1> QED
  BY <1>1, ContactsInvariant, PTL

(* A block that stood when a call was made, and stands, keeps the call from    *)
(* connecting the pair and from asking for it.                                 *)
THEOREM BlockBars == Spec => []BlockWins
<1>1. ContactsInv => BlockWins
  BY DEF ContactsInv, CallsInv, BarredInv, Passed, BlockWins
<1> QED
  BY <1>1, ContactsInvariant, PTL

(* A connection and the request it came from go together.                      *)
THEOREM ConnectionKeepsRequest == Spec => []ConnectedHasRequest
<1>1. ContactsInv => ConnectedHasRequest
  BY DEF ContactsInv, TablesInv
<1> QED
  BY <1>1, ContactsInvariant, PTL

(* A connection made again is another row: a removal that was sent for the     *)
(* old one leaves it, and nothing but a removal ends a connection.             *)
THEOREM RemovalIsOfTheRowSeen == Spec => RemovesWhatItSaw
<1> DEFINE Removal(p) == \E c \in Call : At(c, "remove") /\ call[c].row = connection[p]
                                         /\ call'[c].pc = "done"
           Step == \A p \in Pair : connection[p] # None /\ connection'[p] = None => Removal(p)
<1>1. ContactsInv /\ [Next]_vars => [Step]_vars
  <2> SUFFICES ASSUME ContactsInv, [Next]_vars,
                      NEW p \in Pair, connection[p] # None, connection'[p] = None
               PROVE  Removal(p)
    OBVIOUS
  <2>1. connection' # connection
    OBVIOUS
  <2>2. PICK c \in Call : SendMeet(c) \/ RespondAccept(c) \/ RemoveBoth(c)
    <3>1. ASSUME NEW c \in Call PROVE ~Start(c) /\ ~Fail(c)
      BY <2>1, WritesNothing DEF tables
    <3>2. ASSUME NEW c \in Call, Work(c)
          PROVE  SendMeet(c) \/ RespondAccept(c) \/ RemoveBoth(c)
      BY <2>1, <3>2 DEF Work, SendCheck, SendExisting, SendReciprocal, SendUpsert, RespondCheck,
                        RespondDecline, BlockUpsert, BlockDelete, invalidateBlockCache, tables
    <3>3. ASSUME NEW u \in User PROVE ~Lists(u)
      BY <2>1 DEF Lists, JoinRead, JoinCache, ExpireList, tables
    <3>4. ~UNCHANGED vars
      BY <2>1 DEF vars, tables
    <3> QED
      BY <3>1, <3>2, <3>3, <3>4, JoinerAssumption DEF Next
  <2>3. connection \in [Pair -> Id]
    BY DEF ContactsInv, TablesInv, TablesOK
  <2>4. CASE SendMeet(c) \/ RespondAccept(c)
    <3>1. Joins(c)
      BY <2>4, JoinsOrNot DEF ContactsInv
    <3>2. rows + 1 # None
      BY NoneAssumption, BoundAssumption DEF ContactsInv, TablesInv, TablesOK
    <3>3. connection' = [connection EXCEPT ![Of(c)] = rows + 1]
      BY <2>1, <3>1 DEF Joins
    <3> QED
      BY <2>3, <3>2, <3>3
  <2>5. CASE RemoveBoth(c)
    <3>1. /\ connection' = [connection EXCEPT ![Of(c)] = None]
          /\ connection[Of(c)] = call[c].row
      BY <2>1, <2>5 DEF RemoveBoth
    <3>2. p = Of(c)
      BY <2>3, <3>1
    <3>3. call'[c].pc = "done" /\ At(c, "remove")
      BY <2>5 DEF RemoveBoth, To, ContactsInv, CallsInv, CallsOK
    <3> QED
      BY <3>1, <3>2, <3>3
  <2> QED
    BY <2>2, <2>4, <2>5
<1>2. RemovesWhatItSaw <=> [][Step]_vars
  BY DEF RemovesWhatItSaw
<1> QED
  BY <1>1, <1>2, ContactsInvariant, PTL DEF Spec
================================================================================
