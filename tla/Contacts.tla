-------------------------------- MODULE Contacts --------------------------------
(* Connections and blocks between users (connections.routes.ts,               *)
(* safety.routes.ts): the requests people send each other, their answers, the *)
(* removal of a connection, and blocks, over the three tables they share.     *)
(*                                                                           *)
(* Each statement, or transaction, is a step; API processes run calls at      *)
(* once, and a call may fail before any step. A row's id is kept while the    *)
(* row lives and never used again. What a request says, and the check that    *)
(* the target is active and accepts requests, is data.                        *)
EXTENDS Integers, FiniteSets

CONSTANTS
    User,
    Call,       \* HTTP calls; each is made once
    Op,         \* bound: what each may be
    Joiner,     \* bound: users who join the queue
    MaxRows,    \* bound: request and connection rows ever written
    None

ASSUME BoundAssumption == MaxRows \in Nat
ASSUME OpAssumption    == Op \in [Call -> SUBSET {"send", "answer", "remove", "block"}]
ASSUME JoinerAssumption == Joiner \subseteq User
ASSUME NoneAssumption  == None \notin Nat

VARIABLES
    request,      \* connection_requests: the row of a pair in order (from, to)
    connection,   \* connections: the row id of a pair
    blocks,       \* blocks: <<blocker, blocked>>
    call,         \* what each call has read, and where it is
    rows,         \* row ids used
    asked,        \* history: who sent or accepted since a pair was last parted
    known, join   \* the realtime server: cached block lists, joins that fill them

tables == <<request, connection, blocks>>
lists  == <<known, join>>
vars   == <<tables, call, rows, asked, lists>>

Pair == {{p[1], p[2]} : p \in {q \in User \X User : q[1] # q[2]}}

Status == {"PENDING", "ACCEPTED", "DECLINED"}
NoRow  == [id |-> None, status |-> "DECLINED"]
Unmade == [pc |-> "new", by |-> None, with |-> None, row |-> None, barred |-> FALSE]

Ways == {p \in User \X User : p[1] # p[2]}

(* Some have asked, and some of those are connected. *)
Init ==
    /\ \E sent \in SUBSET Ways, friends \in SUBSET Pair :
         /\ \A p \in friends : \E w \in sent : {w[1], w[2]} = p
         /\ request = [w \in User \X User |->
                         IF w \notin sent THEN NoRow
                         ELSE [id |-> 0, status |-> IF {w[1], w[2]} \in friends
                                                   THEN "ACCEPTED" ELSE "PENDING"]]
         /\ connection = [p \in Pair |-> IF p \in friends THEN 0 ELSE None]
         /\ asked = [p \in Pair |-> IF p \in friends THEN p
                                   ELSE {u \in p : \E v \in p : <<u, v>> \in sent}]
    /\ blocks = {}
    /\ call = [c \in Call |-> Unmade]
    /\ rows = 0
    /\ known = [u \in User |-> None] /\ join = [u \in User |-> None]

Of(c) == {call[c].by, call[c].with}

(* isBlockedBetween: blocks are directional and enforced both ways. *)
isBlockedBetween(u, v) == <<u, v>> \in blocks \/ <<v, u>> \in blocks

(* barred: the pair was blocked when the call was made, and has been since. *)
Begin(c, u, v, pc, row) ==
    /\ call[c].pc = "new"
    /\ call' = [call EXCEPT ![c] = [pc |-> pc, by |-> u, with |-> v, row |-> row,
                                    barred |-> isBlockedBetween(u, v)]]
    /\ UNCHANGED <<tables, rows, asked, lists>>

At(c, pc) == call[c].pc = pc
To(c, pc) == call' = [call EXCEPT ![c].pc = pc]

Ask(c) == asked' = [asked EXCEPT ![Of(c)] = @ \cup {call[c].by}]

--------------------------------------------------------------------------------
(* POST /connections/requests *)

Send(c, u, v) == u # v /\ Begin(c, u, v, "check", None)

SendCheck(c) ==
    /\ At(c, "check")
    /\ To(c, IF isBlockedBetween(call[c].by, call[c].with) THEN "done" ELSE "existing")
    /\ UNCHANGED <<tables, rows, asked, lists>>

SendExisting(c) ==
    /\ At(c, "existing")
    /\ To(c, IF connection[Of(c)] # None THEN "done" ELSE "reciprocal")
    /\ UNCHANGED <<tables, rows, asked, lists>>

(* They asked first: their request is accepted instead of queueing another. *)
SendReciprocal(c) ==
    LET theirs == request[<<call[c].with, call[c].by>>] IN
    /\ At(c, "reciprocal")
    /\ call' = [call EXCEPT ![c].pc = IF theirs.status = "PENDING" THEN "meet" ELSE "upsert",
                            ![c].row = theirs.id]
    /\ UNCHANGED <<tables, rows, asked, lists>>

(* Update the request by id, and create the connection: nothing is written if *)
(* the request is gone or the pair is connected.                              *)
SendMeet(c) ==
    LET way == <<call[c].with, call[c].by>> IN
    /\ At(c, "meet") /\ To(c, "done")
    /\ IF request[way].id = call[c].row /\ connection[Of(c)] = None
       THEN /\ rows < MaxRows /\ rows' = rows + 1
            /\ request' = [request EXCEPT ![way].status = "ACCEPTED"]
            /\ connection' = [connection EXCEPT ![Of(c)] = rows + 1]
            /\ Ask(c)
       ELSE UNCHANGED <<request, connection, rows, asked>>
    /\ UNCHANGED <<blocks, lists>>

(* Re-sending after an answer keeps the row and asks again. *)
SendUpsert(c) ==
    LET way == <<call[c].by, call[c].with>> IN
    /\ At(c, "upsert") /\ To(c, "done")
    /\ IF request[way].id = None
       THEN /\ rows < MaxRows /\ rows' = rows + 1
            /\ request' = [request EXCEPT ![way] = [id |-> rows + 1, status |-> "PENDING"]]
       ELSE /\ request' = [request EXCEPT ![way].status = "PENDING"]
            /\ UNCHANGED rows
    /\ Ask(c)
    /\ UNCHANGED <<connection, blocks, lists>>

--------------------------------------------------------------------------------
(* POST /connections/requests/respond *)

(* The request is found by its id: to this user, and pending. *)
Respond(c, u, v, pc) ==
    /\ request[<<v, u>>].status = "PENDING"
    /\ Begin(c, u, v, pc, request[<<v, u>>].id)

Accept(c, u, v)  == Respond(c, u, v, "wins")
Decline(c, u, v) == Respond(c, u, v, "decline")

(* Mutant of RespondCheck: only the block of who answers counts. *)
RespondCheckOwn(c) ==
    /\ At(c, "wins")
    /\ To(c, IF <<call[c].by, call[c].with>> \in blocks THEN "decline" ELSE "accept")
    /\ UNCHANGED <<tables, rows, asked, lists>>

(* A block placed between the request and the answer must win. *)
RespondCheck(c) ==
    /\ At(c, "wins")
    /\ To(c, IF isBlockedBetween(call[c].by, call[c].with) THEN "decline" ELSE "accept")
    /\ UNCHANGED <<tables, rows, asked, lists>>

RespondDecline(c) ==
    LET way == <<call[c].with, call[c].by>> IN
    /\ At(c, "decline") /\ To(c, "done")
    /\ request' = IF request[way].id = call[c].row
                  THEN [request EXCEPT ![way].status = "DECLINED"] ELSE request
    /\ UNCHANGED <<connection, blocks, rows, asked, lists>>

(* Mutant of RespondAccept: the request is found again by its pair. *)
RespondAcceptPair(c) ==
    LET way == <<call[c].with, call[c].by>> IN
    /\ At(c, "accept") /\ To(c, "done")
    /\ request' = [request EXCEPT ![way].status = "ACCEPTED"]
    /\ IF connection[Of(c)] = None
       THEN /\ rows < MaxRows /\ rows' = rows + 1
            /\ connection' = [connection EXCEPT ![Of(c)] = rows + 1]
       ELSE UNCHANGED <<connection, rows>>
    /\ Ask(c)
    /\ UNCHANGED <<blocks, lists>>

(* Update by id and upsert the connection, or neither. *)
RespondAccept(c) ==
    LET way == <<call[c].with, call[c].by>> IN
    /\ At(c, "accept") /\ To(c, "done")
    /\ IF request[way].id # call[c].row
       THEN UNCHANGED <<request, connection, rows, asked>>
       ELSE /\ request' = [request EXCEPT ![way].status = "ACCEPTED"]
            /\ IF connection[Of(c)] = None
               THEN /\ rows < MaxRows /\ rows' = rows + 1
                    /\ connection' = [connection EXCEPT ![Of(c)] = rows + 1]
               ELSE UNCHANGED <<connection, rows>>
            /\ Ask(c)
    /\ UNCHANGED <<blocks, lists>>

--------------------------------------------------------------------------------
(* DELETE /connections/:id *)

Remove(c, u, v) ==
    /\ u # v /\ connection[{u, v}] # None
    /\ Begin(c, u, v, "remove", connection[{u, v}])

(* Mutant of RemoveBoth: the connection is deleted by its pair. *)
RemoveBothPair(c) ==
    /\ At(c, "remove") /\ To(c, "done")
    /\ connection' = [connection EXCEPT ![Of(c)] = None]
    /\ request' = [p \in User \X User |->
                     IF {p[1], p[2]} = Of(c) THEN NoRow ELSE request[p]]
    /\ asked' = [asked EXCEPT ![Of(c)] = {}]
    /\ UNCHANGED <<blocks, rows, lists>>

(* The connection by its id, and the requests of this pair both ways. *)
RemoveBoth(c) ==
    /\ At(c, "remove") /\ To(c, "done")
    /\ IF connection[Of(c)] # call[c].row
       THEN UNCHANGED <<request, connection, asked>>
       ELSE /\ connection' = [connection EXCEPT ![Of(c)] = None]
            /\ request' = [p \in User \X User |->
                             IF {p[1], p[2]} = Of(c) THEN NoRow ELSE request[p]]
            /\ asked' = [asked EXCEPT ![Of(c)] = {}]
    /\ UNCHANGED <<blocks, rows, lists>>

--------------------------------------------------------------------------------
(* POST and DELETE /blocks: one statement, and then the cached lists of both *)
(* are dropped.                                                              *)

Block(c, u, v)   == u # v /\ Begin(c, u, v, "block", None)
Unblock(c, u, v) == u # v /\ Begin(c, u, v, "unblock", None)

BlockUpsert(c) ==
    /\ At(c, "block") /\ To(c, "drop")
    /\ blocks' = blocks \cup {<<call[c].by, call[c].with>>}
    /\ UNCHANGED <<request, connection, rows, asked, lists>>

BlockDelete(c) ==
    LET left == blocks \ {<<call[c].by, call[c].with>>}
        Free(d) == Of(d) = Of(c) /\ <<call[c].with, call[c].by>> \notin left
    IN  /\ At(c, "unblock")
        /\ blocks' = left
        /\ call' = [d \in Call |->
                      [call[d] EXCEPT !.pc = IF d = c THEN "drop" ELSE @,
                                      !.barred = @ /\ ~Free(d)]]
        /\ UNCHANGED <<request, connection, rows, asked, lists>>

invalidateBlockCache(c) ==
    /\ At(c, "drop") /\ To(c, "done")
    /\ known' = [u \in User |-> IF u \in Of(c) THEN None ELSE known[u]]
    /\ UNCHANGED <<tables, rows, asked, join>>

(* queue:join finds no cached list and reads the table, both ways. *)
getBlockedUserIds(u) == {v \in User : isBlockedBetween(u, v)}

JoinRead(u) ==
    /\ known[u] = None /\ join[u] = None
    /\ join' = [join EXCEPT ![u] = getBlockedUserIds(u)]
    /\ UNCHANGED <<tables, call, rows, asked, known>>

JoinCache(u) ==
    /\ join[u] # None
    /\ known' = [known EXCEPT ![u] = join[u]]
    /\ join' = [join EXCEPT ![u] = None]
    /\ UNCHANGED <<tables, call, rows, asked>>

(* Mutant of ExpireList: the list is cached for good. *)
ExpireListNever(u) == known[u] = None /\ UNCHANGED vars

(* The TTL of a cached list. A user joins from one tab at a time here, so a  *)
(* list is written only when there is none.                                  *)
ExpireList(u) ==
    /\ known[u] # None
    /\ known' = [known EXCEPT ![u] = None]
    /\ UNCHANGED <<tables, call, rows, asked, join>>

--------------------------------------------------------------------------------
(* A call fails before its next statement. *)
Fail(c) ==
    /\ call[c].pc \notin {"new", "done"}
    /\ To(c, "done")
    /\ UNCHANGED <<tables, rows, asked, lists>>

--------------------------------------------------------------------------------
Start(c) ==
    \E u, v \in User :
        \/ "send" \in Op[c] /\ Send(c, u, v)
        \/ "answer" \in Op[c] /\ (Accept(c, u, v) \/ Decline(c, u, v))
        \/ "remove" \in Op[c] /\ Remove(c, u, v)
        \/ "block" \in Op[c] /\ (Block(c, u, v) \/ Unblock(c, u, v))

Work(c) ==
    \/ SendCheck(c) \/ SendExisting(c) \/ SendReciprocal(c)
    \/ SendMeet(c) \/ SendUpsert(c)
    \/ RespondCheck(c) \/ RespondDecline(c) \/ RespondAccept(c)
    \/ RemoveBoth(c)
    \/ BlockUpsert(c) \/ BlockDelete(c) \/ invalidateBlockCache(c)

Lists(u) == JoinRead(u) \/ JoinCache(u) \/ ExpireList(u)

Next ==
    \/ \E c \in Call : Start(c) \/ Work(c) \/ Fail(c)
    \/ \E u \in Joiner : Lists(u)

Spec == Init /\ [][Next]_vars

(* A join that has read the blocks caches them; a TTL runs out. *)
FairSpec ==
    /\ Spec
    /\ \A u \in Joiner : WF_vars(JoinCache(u)) /\ WF_vars(ExpireList(u))

--------------------------------------------------------------------------------
Id == 0..MaxRows \cup {None}

Label == {"new", "check", "existing", "reciprocal", "meet", "upsert", "wins", "decline",
          "accept", "remove", "block", "unblock", "drop", "done"}

(* Types of the tables and of the calls. *)
TypeOK ==
    /\ request \in [User \X User -> [id : Id, status : Status]]
    /\ connection \in [Pair -> Id]
    /\ blocks \subseteq User \X User
    /\ call \in [Call -> [pc : Label, by : User \cup {None}, with : User \cup {None},
                          row : Id, barred : BOOLEAN]]
    /\ \A c \in Call : call[c].pc # "new" => Of(c) \in Pair
    /\ rows \in 0..MaxRows
    /\ asked \in [Pair -> SUBSET User]
    /\ known \in [User -> (SUBSET User) \cup {None}]
    /\ join \in [User -> (SUBSET User) \cup {None}]

(* Two people are connected only if both have said so, by a request or by an  *)
(* answer, since either of them last removed the other.                       *)
ConsentOfBoth == \A p \in Pair : connection[p] # None => asked[p] = p

(* A removal ends the connection its user was looking at, and none made since. *)
RemovesWhatItSaw ==
    [][\A p \in Pair :
         connection[p] # None /\ connection'[p] = None
         => \E c \in Call : At(c, "remove") /\ call[c].row = connection[p]
                            /\ call'[c].pc = "done"]_vars

(* A call made under a block, still in force, neither connects the pair nor   *)
(* leaves a request.                                                          *)
BlockWins ==
    \A c \in Call : call[c].barred => call[c].pc \notin {"meet", "upsert", "accept"}

(* A block that stands reaches the matchmaker: a list cached from an older     *)
(* read, or not dropped because the call failed, does not outlive its TTL.    *)
BlocksReachTheQueue ==
    \A u, v \in User :
        <>[]isBlockedBetween(u, v) => <>[](known[u] # None => v \in known[u])

(* A connection has the request it came from: removing it leaves nothing of   *)
(* the pair, and nothing else takes its request away.                         *)
ConnectedHasRequest ==
    \A p \in Pair : connection[p] # None =>
        \E u, v \in p : u # v /\ request[<<u, v>>].id # None

================================================================================
