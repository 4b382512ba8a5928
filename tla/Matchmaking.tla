------------------------------ MODULE Matchmaking ------------------------------
(***************************************************************************)
(* The realtime server's pairing protocol over Redis: the queue entries,   *)
(* the pairing locks, the occupancy keys and the live-match registry, and  *)
(* every server flow that writes them.                                     *)
(*                                                                         *)
(* A process is one asynchronous invocation.  An Attempt is one run of     *)
(* attemptMatch (matchmaker.tryMatch, then announceMatch); a Handler is    *)
(* one of the socket-event handlers running at the same time (queue:join,  *)
(* queue:leave, match:skip, match:end, disconnect) or a node's shutdown.   *)
(* They run on any node and interleave at every Redis or database command, *)
(* each command being atomic: one action each.                             *)
(*                                                                         *)
(* An attempt draws two random UUIDs, its lock token and its match id.     *)
(* Nobody else draws them again, so the attempt itself stands for both.    *)
(***************************************************************************)
EXTENDS Naturals, FiniteSets

CONSTANTS User,      \* account ids, totally ordered
          Attempt,   \* runs of attemptMatch = lock tokens = match ids
          Handler,   \* socket-event handler invocations
          None,      \* an absent Redis key
          Faults     \* the failures that may happen: a subset of FaultKinds

FaultKinds == {"crash", "throw", "lockTTL", "entryTTL", "occupancyTTL"}

ASSUME UserAssumption == User \subseteq Nat
ASSUME FaultsAssumption == Faults \subseteq FaultKinds
ASSUME NoneAssumption == None \notin User \cup Attempt \cup Handler

VARIABLES
    entry,     \* users whose queue-entry:{id} key exists
    lock,      \* match-lock:{id}: the token stored in it
    occ,       \* user-match:{id}: the match id stored in it
    registry,  \* match ids whose match:{id} hash exists
    row,       \* the Match row: "none", "open", or the handler that finalised it
    pc,        \* where each attempt is
    seeker,    \* tryMatch's seekerId
    partner,   \* tryMatch's partnerId
    won,       \* attempts whose two claims both succeeded
    fate,      \* "running", "crashed" (node died) or "threw" (a command failed)
    expired,   \* history: attempts that lost a lock to its 10 s TTL
    hpc,       \* where each handler is
    huser,     \* the handler's authenticated user
    hmatch,    \* the match the handler is closing
    hgone,     \* handlers that also remove the queue entry (disconnect)
    online     \* users with an open socket

redis    == <<entry, lock, occ, registry>>
attempts == <<pc, seeker, partner, won, fate, expired>>
handlers == <<hpc, huser, hmatch, hgone>>
vars     == <<redis, row, attempts, handlers, online>>

--------------------------------------------------------------------------------
Parts(m) == {seeker[m], partner[m]}

(* MUTANT of LockOrder: by role, not by id. *)
LockOrderByRole(m) == <<seeker[m], partner[m]>>

(* Locks are taken in ascending user-id order. *)
LockOrder(m) == IF seeker[m] < partner[m] THEN <<seeker[m], partner[m]>>
                                          ELSE <<partner[m], seeker[m]>>
First(m)  == LockOrder(m)[1]
Second(m) == LockOrder(m)[2]

(* MUTANT of CompareAndDel: a plain DEL, whoever holds the key now. *)
PlainDel(store, u, v) == [store EXCEPT ![u] = None]

(* SET key value EX ttl NX, and the compare-and-delete Lua script. *)
SetNX(store, u, v)       == IF store[u] = None THEN [store EXCEPT ![u] = v] ELSE store
CompareAndDel(store, u, v) == IF store[u] = v THEN [store EXCEPT ![u] = None] ELSE store

Init ==
    /\ entry \in SUBSET User
    /\ lock = [u \in User |-> None]
    /\ occ = [u \in User |-> None]
    /\ registry = {}
    /\ row = [m \in Attempt |-> "none"]
    /\ pc = [m \in Attempt |-> "idle"]
    /\ seeker = [m \in Attempt |-> None]
    /\ partner = [m \in Attempt |-> None]
    /\ won = {}
    /\ fate = [m \in Attempt |-> "running"]
    /\ expired = {}
    /\ hpc = [h \in Handler |-> "idle"]
    /\ huser = [h \in Handler |-> None]
    /\ hmatch = [h \in Handler |-> None]
    /\ hgone = {}
    /\ online = User

--------------------------------------------------------------------------------
(* tryMatch *)

At(m, label) == pc[m] = label /\ fate[m] # "crashed"
Goto(m, label) == pc' = [pc EXCEPT ![m] = label]

(* A tick or a queue:join calls attemptMatch for a user with a queue entry. *)
Start(m, u) ==
    /\ At(m, "idle")
    /\ u \in entry
    /\ seeker' = [seeker EXCEPT ![m] = u]
    /\ Goto(m, "free")
    /\ UNCHANGED <<redis, row, partner, won, fate, expired, handlers, online>>

(* The seeker may already be in a conversation: a stale tick. *)
SeekerFree(m) ==
    /\ At(m, "free")
    /\ Goto(m, IF occ[seeker[m]] = None THEN "select" ELSE "done")
    /\ UNCHANGED <<redis, row, seeker, partner, won, fate, expired, handlers, online>>

(* selectBestMatch picks somebody out of the candidates that have an entry; *)
(* which one is the selection policy's business, or nobody suits.           *)
Select(m) ==
    /\ At(m, "select")
    /\ \/ \E v \in entry \ {seeker[m]} :
              /\ partner' = [partner EXCEPT ![m] = v]
              /\ Goto(m, "lock1")
       \/ Goto(m, "done") /\ UNCHANGED partner
    /\ UNCHANGED <<redis, row, seeker, won, fate, expired, handlers, online>>

LockFirst(m) ==
    /\ At(m, "lock1")
    /\ lock' = SetNX(lock, First(m), m)
    /\ Goto(m, IF lock[First(m)] = None THEN "lock2" ELSE "done")
    /\ UNCHANGED <<entry, occ, registry, row, seeker, partner, won, fate, expired, handlers, online>>

LockSecond(m) ==
    /\ At(m, "lock2")
    /\ lock' = SetNX(lock, Second(m), m)
    /\ Goto(m, IF lock[Second(m)] = None THEN "queuedS" ELSE "undo")
    /\ UNCHANGED <<entry, occ, registry, row, seeker, partner, won, fate, expired, handlers, online>>

UndoFirst(m) ==
    /\ At(m, "undo")
    /\ lock' = CompareAndDel(lock, First(m), m)
    /\ Goto(m, "done")
    /\ UNCHANGED <<entry, occ, registry, row, seeker, partner, won, fate, expired, handlers, online>>

(* The four reads of the re-verification, in the order they are issued.    *)
(* Promise.all waits for all of them; the rest of a failed check changes   *)
(* nothing, so a failure goes straight to the release.                     *)
Verify(m) ==
    /\ \/ At(m, "queuedS") /\ Goto(m, IF seeker[m] \in entry THEN "queuedP" ELSE "unlock1")
       \/ At(m, "queuedP") /\ Goto(m, IF partner[m] \in entry THEN "busyS" ELSE "unlock1")
       \/ At(m, "busyS") /\ Goto(m, IF occ[seeker[m]] = None THEN "busyP" ELSE "unlock1")
       \/ At(m, "busyP") /\ Goto(m, IF occ[partner[m]] = None THEN "claimS" ELSE "unlock1")
    /\ UNCHANGED <<redis, row, seeker, partner, won, fate, expired, handlers, online>>

ClaimSeeker(m) ==
    /\ At(m, "claimS")
    /\ occ' = SetNX(occ, seeker[m], m)
    /\ Goto(m, IF occ[seeker[m]] = None THEN "claimP" ELSE "unlock1")
    /\ UNCHANGED <<entry, lock, registry, row, seeker, partner, won, fate, expired, handlers, online>>

(* MUTANT of ClaimPartner: SET without NX. *)
ClaimPartnerOverwriting(m) ==
    /\ At(m, "claimP")
    /\ occ' = [occ EXCEPT ![partner[m]] = m]
    /\ Goto(m, "leaveS")
    /\ won' = won \cup {m}
    /\ UNCHANGED <<entry, lock, registry, row, seeker, partner, fate, expired, handlers, online>>

(* The commit point. *)
ClaimPartner(m) ==
    /\ At(m, "claimP")
    /\ occ' = SetNX(occ, partner[m], m)
    /\ IF occ[partner[m]] = None
       THEN Goto(m, "leaveS") /\ won' = won \cup {m}
       ELSE Goto(m, "rollback") /\ UNCHANGED won
    /\ UNCHANGED <<entry, lock, registry, row, seeker, partner, fate, expired, handlers, online>>

(* MUTANT of Rollback: the seeker's claim is kept. *)
RollbackForgotten(m) ==
    /\ At(m, "rollback")
    /\ Goto(m, "unlock1")
    /\ UNCHANGED <<redis, row, seeker, partner, won, fate, expired, handlers, online>>

Rollback(m) ==
    /\ At(m, "rollback")
    /\ occ' = CompareAndDel(occ, seeker[m], m)
    /\ Goto(m, "unlock1")
    /\ UNCHANGED <<entry, lock, registry, row, seeker, partner, won, fate, expired, handlers, online>>

LeaveQueue(m) ==
    /\ \/ At(m, "leaveS") /\ entry' = entry \ {seeker[m]} /\ Goto(m, "leaveP")
       \/ At(m, "leaveP") /\ entry' = entry \ {partner[m]} /\ Goto(m, "persist")
    /\ UNCHANGED <<lock, occ, registry, row, seeker, partner, won, fate, expired, handlers, online>>

(* The Match row is written, or the write fails and the match goes on.     *)
(* (recordRecentPartner follows: it only steers the selection policy.)     *)
Persist(m) ==
    /\ At(m, "persist")
    /\ row' = [row EXCEPT ![m] = "open"] \/ UNCHANGED row
    /\ Goto(m, "unlock1")
    /\ UNCHANGED <<redis, seeker, partner, won, fate, expired, handlers, online>>

(* The finally block; then announceMatch, if tryMatch returned a result. *)
Unlock(m) ==
    /\ \/ /\ At(m, "unlock1")
          /\ lock' = CompareAndDel(lock, First(m), m)
          /\ Goto(m, "unlock2")
       \/ /\ At(m, "unlock2")
          /\ lock' = CompareAndDel(lock, Second(m), m)
          /\ Goto(m, IF m \in won /\ fate[m] = "running" THEN "save" ELSE "done")
    /\ UNCHANGED <<entry, occ, registry, row, seeker, partner, won, fate, expired, handlers, online>>

(* announceMatch registers the match; the emits it ends with carry no state. *)
SaveMatch(m) ==
    /\ At(m, "save")
    /\ registry' = registry \cup {m}
    /\ Goto(m, "done")
    /\ UNCHANGED <<entry, lock, occ, row, seeker, partner, won, fate, expired, handlers, online>>

--------------------------------------------------------------------------------
(* Failures of an attempt, and the TTLs that clean up after them *)

Locked == {"queuedS", "queuedP", "busyS", "busyP", "claimS", "claimP", "rollback",
           "leaveS", "leaveP", "persist"}

(* The node dies: the attempt takes no further step. *)
Crash(m) ==
    /\ "crash" \in Faults
    /\ pc[m] \notin {"idle", "done"}
    /\ fate[m] # "crashed"
    /\ fate' = [fate EXCEPT ![m] = "crashed"]
    /\ UNCHANGED <<redis, row, pc, seeker, partner, won, expired, handlers, online>>

(* A command rejects: inside the try block, finally still releases the     *)
(* locks; elsewhere the attempt ends where it is.                          *)
Throw(m) ==
    /\ "throw" \in Faults
    /\ pc[m] \notin {"idle", "done"}
    /\ fate[m] = "running"
    /\ fate' = [fate EXCEPT ![m] = "threw"]
    /\ Goto(m, IF pc[m] \in Locked THEN "unlock1" ELSE "done")
    /\ UNCHANGED <<redis, row, seeker, partner, won, expired, handlers, online>>

(* A lock lives 10 s, which a stalled attempt can outlast. *)
ExpireLock(u) ==
    /\ "lockTTL" \in Faults
    /\ lock[u] # None
    /\ expired' = expired \cup {lock[u]}
    /\ lock' = [lock EXCEPT ![u] = None]
    /\ UNCHANGED <<entry, occ, registry, row, pc, seeker, partner, won, fate, handlers, online>>

(* A queue entry lives 600 s. *)
ExpireEntry(u) ==
    /\ "entryTTL" \in Faults
    /\ u \in entry
    /\ entry' = entry \ {u}
    /\ UNCHANGED <<lock, occ, registry, row, attempts, handlers, online>>

(* An occupancy key lives an hour, which outlasts every running attempt:   *)
(* it runs out for a match whose attempt failed before registering it.     *)
ExpireOccupancy(u) ==
    /\ "occupancyTTL" \in Faults
    /\ occ[u] # None
    /\ fate[occ[u]] # "running"
    /\ occ[u] \notin registry
    /\ occ' = [occ EXCEPT ![u] = None]
    /\ UNCHANGED <<entry, lock, registry, row, attempts, handlers, online>>

--------------------------------------------------------------------------------
(* Socket events.  Any handler may also stop for good between two of its   *)
(* commands (a rejected promise, a dead node): no fairness is assumed.     *)

Goes(h, label) ==
    /\ hpc' = [hpc EXCEPT ![h] = label]
    /\ UNCHANGED <<huser, hmatch, hgone>>

Invoke(h, label, u, m) ==
    /\ hpc[h] = "idle"
    /\ hpc' = [hpc EXCEPT ![h] = label]
    /\ huser' = [huser EXCEPT ![h] = u]
    /\ hmatch' = [hmatch EXCEPT ![h] = m]

Finish(h) ==
    /\ hpc' = [hpc EXCEPT ![h] = "idle"]
    /\ huser' = [huser EXCEPT ![h] = None]
    /\ hmatch' = [hmatch EXCEPT ![h] = None]
    /\ hgone' = hgone \ {h}

Connect(u) ==
    /\ u \notin online
    /\ online' = online \cup {u}
    /\ UNCHANGED <<redis, row, attempts, handlers>>

(* queue:join refuses a user in a conversation ... *)
Join(h, u) ==
    /\ u \in online
    /\ occ[u] = None
    /\ Invoke(h, "joining", u, None)
    /\ UNCHANGED <<redis, row, attempts, hgone, online>>

(* ... and acknowledges one already queued ... *)
JoinCheck(h) ==
    /\ hpc[h] = "joining"
    /\ IF huser[h] \in entry THEN Finish(h) ELSE Goes(h, "enqueue")
    /\ UNCHANGED <<redis, row, attempts, online>>

(* ... then loads profile, blocks and recent partners before it writes.    *)
(* The attemptMatch it ends with is an Attempt: Start.                     *)
Enqueue(h) ==
    /\ hpc[h] = "enqueue"
    /\ entry' = entry \cup {huser[h]}
    /\ Finish(h)
    /\ UNCHANGED <<lock, occ, registry, row, attempts, online>>

(* queue:leave loads the profile, then removes the entry. *)
Leave(h, u) ==
    /\ u \in online
    /\ Invoke(h, "dequeue", u, None)
    /\ UNCHANGED <<redis, row, attempts, hgone, online>>

Dequeue(h) ==
    /\ hpc[h] = "dequeue"
    /\ entry' = entry \ {huser[h]}
    /\ Finish(h)
    /\ UNCHANGED <<lock, occ, registry, row, attempts, online>>

(* What match:skip and match:end require: resolvePeer finds the user in m. *)
InMatch(u, m) == m \in registry /\ u \in Parts(m)

(* user:block and user:report close the match the client names without     *)
(* that look-up: it was announced to the client and may be over by now.    *)
Announced(u, m) == m \in won /\ At(m, "done") /\ fate[m] = "running" /\ u \in Parts(m)

EndMatch(h, u, m) ==
    /\ u \in online
    /\ InMatch(u, m) \/ Announced(u, m)
    /\ Invoke(h, "teardown", u, m)
    /\ UNCHANGED <<redis, row, attempts, hgone, online>>

(* The match the user's occupancy key names, if any, is torn down; then    *)
(* their queue entry goes.                                                 *)
Depart(h, u) ==
    /\ u \in online
    /\ Invoke(h, IF occ[u] = None THEN "dequeue" ELSE "teardown", u, occ[u])
    /\ hgone' = hgone \cup {h}
    /\ UNCHANGED <<redis, row, attempts>>

(* The user's last socket closed. *)
Disconnect(h, u) == Depart(h, u) /\ online' = online \ {u}

(* A stopping node departs for each of its sockets; they close after that. *)
Shutdown(h, u) == Depart(h, u) /\ UNCHANGED online

--------------------------------------------------------------------------------
(* teardownMatch, shared by every handler that closes a match *)

AfterTeardown(h) == IF h \in hgone THEN Goes(h, "dequeue") ELSE Finish(h)

(* An unregistered match is not torn down: nothing is released. *)
Participants(h) ==
    /\ hpc[h] = "teardown"
    /\ IF hmatch[h] \in registry THEN Goes(h, "releaseA") ELSE AfterTeardown(h)
    /\ UNCHANGED <<redis, row, attempts, online>>

(* MUTANT of Release: only the seeker is freed. *)
ReleaseSeekerOnly(h) ==
    /\ \/ /\ hpc[h] = "releaseA"
          /\ occ' = CompareAndDel(occ, seeker[hmatch[h]], hmatch[h])
          /\ Goes(h, "releaseB")
       \/ /\ hpc[h] = "releaseB"
          /\ Goes(h, "rowRead")
          /\ UNCHANGED occ
    /\ UNCHANGED <<entry, lock, registry, row, attempts, online>>

(* matchmaker.endMatch releases both users, each only from this match. *)
Release(h) ==
    /\ \/ /\ hpc[h] = "releaseA"
          /\ occ' = CompareAndDel(occ, seeker[hmatch[h]], hmatch[h])
          /\ Goes(h, "releaseB")
       \/ /\ hpc[h] = "releaseB"
          /\ occ' = CompareAndDel(occ, partner[hmatch[h]], hmatch[h])
          /\ Goes(h, "rowRead")
    /\ UNCHANGED <<entry, lock, registry, row, attempts, online>>

(* A row that is missing or already finalised is left alone, and a         *)
(* database error is logged: the teardown goes on either way.              *)
RowRead(h) ==
    /\ hpc[h] = "rowRead"
    /\ \/ row[hmatch[h]] = "open" /\ Goes(h, "rowWrite")
       \/ Goes(h, "delete")
    /\ UNCHANGED <<redis, row, attempts, online>>

RowWrite(h) ==
    /\ hpc[h] = "rowWrite"
    /\ row' = [row EXCEPT ![hmatch[h]] = h] \/ UNCHANGED row
    /\ Goes(h, "delete")
    /\ UNCHANGED <<redis, attempts, online>>

DeleteMatch(h) ==
    /\ hpc[h] = "delete"
    /\ registry' = registry \ {hmatch[h]}
    /\ AfterTeardown(h)
    /\ UNCHANGED <<entry, lock, occ, row, attempts, online>>

--------------------------------------------------------------------------------
AttemptStep(m) ==
    \/ SeekerFree(m) \/ Select(m) \/ LockFirst(m) \/ LockSecond(m) \/ UndoFirst(m)
    \/ Verify(m) \/ ClaimSeeker(m) \/ ClaimPartner(m) \/ Rollback(m)
    \/ LeaveQueue(m) \/ Persist(m) \/ Unlock(m) \/ SaveMatch(m)

HandlerStep(h) ==
    \/ JoinCheck(h) \/ Enqueue(h) \/ Participants(h) \/ Release(h)
    \/ RowRead(h) \/ RowWrite(h) \/ DeleteMatch(h) \/ Dequeue(h)

HandlerEvent(h) ==
    \/ \E u \in User : Join(h, u) \/ Leave(h, u) \/ Disconnect(h, u) \/ Shutdown(h, u)
    \/ \E u \in User, m \in Attempt : EndMatch(h, u, m)

Expiry == \E u \in User : ExpireLock(u) \/ ExpireEntry(u) \/ ExpireOccupancy(u)

Next ==
    \/ \E m \in Attempt : (\E u \in User : Start(m, u)) \/ AttemptStep(m) \/ Crash(m) \/ Throw(m)
    \/ \E h \in Handler : HandlerEvent(h) \/ HandlerStep(h)
    \/ \E u \in User : Connect(u)
    \/ Expiry

Spec == Init /\ [][Next]_vars

(* A live process runs its attempts to the end, and a Redis TTL runs out. *)
FairSpec ==
    /\ Spec
    /\ \A m \in Attempt : WF_vars(AttemptStep(m))
    /\ \A u \in User : WF_vars(ExpireOccupancy(u))

(* The keys of a registered match live an hour from the moment they are    *)
(* written and nothing extends them: a conversation can outlast them.      *)
ExpireLiveMatch ==
    \/ /\ \E u \in User : /\ occ[u] \in registry
                         /\ occ' = [occ EXCEPT ![u] = None]
       /\ UNCHANGED <<entry, lock, registry, row, attempts, handlers, online>>
    \/ /\ \E m \in registry : registry' = registry \ {m}
       /\ UNCHANGED <<entry, lock, occ, row, attempts, handlers, online>>

LongCallSpec == Init /\ [][Next \/ ExpireLiveMatch]_vars

--------------------------------------------------------------------------------
(* Properties *)

AttemptLabels == {"idle", "free", "select", "lock1", "lock2", "undo", "unlock1", "unlock2",
                  "save", "done"} \cup Locked
ClosingLabels == {"releaseA", "releaseB", "rowRead", "rowWrite", "delete"}
HandlerLabels == {"idle", "joining", "enqueue", "teardown", "dequeue"} \cup ClosingLabels

(* Every variable has its type, and a handler that tears down has a match. *)
TypeOK ==
    /\ entry \subseteq User
    /\ lock \in [User -> Attempt \cup {None}]
    /\ occ \in [User -> Attempt \cup {None}]
    /\ registry \subseteq Attempt
    /\ row \in [Attempt -> {"none", "open"} \cup Handler]
    /\ pc \in [Attempt -> AttemptLabels]
    /\ seeker \in [Attempt -> User \cup {None}]
    /\ partner \in [Attempt -> User \cup {None}]
    /\ won \subseteq Attempt
    /\ fate \in [Attempt -> {"running", "crashed", "threw"}]
    /\ expired \subseteq Attempt
    /\ hpc \in [Handler -> HandlerLabels]
    /\ huser \in [Handler -> User \cup {None}]
    /\ hmatch \in [Handler -> Attempt \cup {None}]
    /\ hgone \subseteq Handler
    /\ online \subseteq User
    /\ \A h \in Handler : hpc[h] \in ClosingLabels \cup {"teardown"} => hmatch[h] # None

(* A teardown has started to release the users of m. *)
Closing(m) == \E h \in Handler : hmatch[h] = m /\ hpc[h] \in ClosingLabels

(* A live conversation: registered, so its frames are relayed, and nobody  *)
(* has begun to close it.                                                  *)
Open(m) == m \in registry /\ ~Closing(m)

(* One account is in at most one conversation: two live conversations      *)
(* never share a user, whatever locks ran out, nodes died or teardowns     *)
(* came late (MATCHMAKING.md, "Committing a pairing").                     *)
NoDoubleBooking ==
    \A m, n \in Attempt : Open(m) /\ Open(n) /\ m # n => Parts(m) \cap Parts(n) = {}

(* Two attempts that have both taken their locks over a common user: one   *)
(* of them lost its lock to the TTL.  A release that deleted another       *)
(* attempt's lock would let a third one in.                                *)
LockMutex ==
    \A m, n \in Attempt :
        /\ m # n
        /\ pc[m] \in Locked /\ pc[n] \in Locked
        /\ Parts(m) \cap Parts(n) # {}
        => m \in expired \/ n \in expired

(* The fixed order: two attempts never each hold the lock the other wants, *)
(* so two attempts at the same pair cannot both fail on each other.        *)
NoCrossedLocks ==
    \A m, n \in Attempt :
        pc[m] = "lock2" /\ pc[n] = "lock2" =>
            ~(lock[Second(m)] = n /\ lock[Second(n)] = m)

(* A registered match that is gone from the registry holds nobody: were    *)
(* the record deleted first, no later teardown could free its users.       *)
NobodyLeftBehind ==
    \A m \in Attempt, u \in User :
        pc[m] = "done" /\ fate[m] = "running" /\ m \notin registry => occ[u] # m

(* A user's occupancy changes only to free them, and only by a flow of the *)
(* very match they are in: its teardown, its rollback, or its TTL after    *)
(* it failed.  A late teardown of an old match never evicts them from a    *)
(* new one, and no claim overwrites another.                               *)
OccupancyKept ==
    [][\A u \in User :
          occ[u] # None /\ occ'[u] # occ[u] =>
              /\ occ'[u] = None
              /\ \/ Closing(occ[u])
                 \/ pc[occ[u]] = "rollback"
                 \/ fate[occ[u]] # "running"]_vars

(* A claim that never becomes a registered match does not wedge its user   *)
(* out of matchmaking: a rollback or, after a failure, the TTL frees them. *)
HalfMadeResolves ==
    \A m \in Attempt, u \in User :
        (occ[u] = m /\ m \notin registry) ~> (occ[u] # m \/ m \in registry)

(* The protocol implements Occupancy: a conversation begins when the       *)
(* second claim succeeds, for both users at once.                          *)
Abs == INSTANCE Occupancy WITH
           Match <- Attempt,
           place <- [u \in User |-> IF occ[u] \in won THEN occ[u] ELSE None],
           spent <- won
ImplementsOccupancy == Abs!Spec

--------------------------------------------------------------------------------
(* What comments and docs say and the code does not do *)

(* matchmaker.ts:126: both users leave the queue "before announcing, so a  *)
(* concurrent scan cannot still see them as available".                    *)
MatchedNotQueued == \A m \in Attempt : Open(m) => Parts(m) \cap entry = {}

(* server.ts:967: on the way out every match is released "so nobody is     *)
(* left occupied by a conversation that no longer exists".                 *)
DepartedIsFree ==
    \A u \in User :
        /\ u \notin online
        /\ \A h \in Handler : huser[h] # u
        /\ \A m \in Attempt : u \in Parts(m) => pc[m] = "done" /\ fate[m] = "running"
        => occ[u] = None

(* matchmaker.ts:224: a row is finalised "by whichever side got here       *)
(* first".                                                                 *)
FinalisedOnce == [][\A m \in Attempt : row[m] \in Handler => row'[m] = row[m]]_vars
================================================================================
