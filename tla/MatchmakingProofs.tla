--------------------------- MODULE MatchmakingProofs ---------------------------
(***************************************************************************)
(* Theorems of Matchmaking, for any sets of users, attempts and handlers   *)
(* and any of the faults; and of the presence that Lobby models, for any   *)
(* users and sockets.                                                      *)
(***************************************************************************)
EXTENDS Matchmaking, TLAPS

(* Where an attempt has chosen its partner. *)
Paired == {"lock1", "lock2", "undo", "unlock1", "unlock2", "save"} \cup Locked

(* Where an attempt with both claims still has to register its match. *)
Committing == {"leaveS", "leaveP", "persist", "unlock1", "unlock2", "save"}

(* Control of the attempts and handlers: what their positions tell. *)
AttemptInv ==
    \A m \in Attempt :
        /\ pc[m] # "idle" => seeker[m] \in User
        /\ pc[m] \in Paired \/ m \in won => partner[m] \in User /\ partner[m] # seeker[m]
        /\ m \in won => pc[m] \in Committing \cup {"done"}
        /\ pc[m] \in {"leaveS", "leaveP", "persist", "save"} => m \in won
        /\ fate[m] = "threw" => pc[m] \in {"unlock1", "unlock2", "done"}
        /\ m \in registry => m \in won /\ pc[m] = "done" /\ fate[m] = "running"

HandlerInv ==
    \A h \in Handler :
        /\ hpc[h] # "idle" => huser[h] \in User
        /\ hpc[h] \in ClosingLabels =>
              hmatch[h] \in won /\ pc[hmatch[h]] = "done" /\ fate[hmatch[h]] = "running"

ControlInv == TypeOK /\ AttemptInv /\ HandlerInv

(* Whose token a lock holds, and what an attempt holds while its TTLs last. *)
LockInv ==
    /\ \A u \in User, m \in Attempt : lock[u] = m =>
          \/ u = First(m) /\ pc[m] \in {"lock2", "undo", "unlock1"} \cup Locked
          \/ u = Second(m) /\ pc[m] \in {"unlock1", "unlock2"} \cup Locked
          \/ pc[m] = "done" /\ fate[m] = "threw"
    /\ \A m \in Attempt : m \notin expired =>
          /\ pc[m] \in {"lock2"} \cup Locked => lock[First(m)] = m
          /\ pc[m] \in Locked => lock[Second(m)] = m

(* Whose match id an occupancy key holds, and who holds whom. *)
OccInv ==
    /\ \A u \in User, m \in Attempt : occ[u] = m =>
          \/ u = partner[m] /\ m \in won
          \/ /\ u = seeker[m]
             /\ m \in won \/ pc[m] \in {"claimP", "rollback"} \/ fate[m] # "running"
    /\ \A m \in Attempt :
          /\ pc[m] = "claimP" /\ fate[m] = "running" => occ[seeker[m]] = m
          /\ /\ m \in won
             /\ \/ pc[m] \in Committing /\ fate[m] = "running"
                \/ Open(m)
             => occ[seeker[m]] = m /\ occ[partner[m]] = m

(* What a teardown has released, and what a finished one leaves behind. *)
ReleaseInv ==
    /\ \A h \in Handler :
          /\ hpc[h] \in ClosingLabels \ {"releaseA"} => occ[seeker[hmatch[h]]] # hmatch[h]
          /\ hpc[h] \in ClosingLabels \ {"releaseA", "releaseB"} => occ[partner[hmatch[h]]] # hmatch[h]
    /\ NobodyLeftBehind
--------------------------------------------------------------------------------
(* The actions of Next, by name: every step proof below splits on this.    *)
LEMMA NextCases ==
    ASSUME Next
    PROVE  \/ \E m \in Attempt :
                \/ \E u \in User : Start(m, u)
                \/ SeekerFree(m) \/ Select(m) \/ LockFirst(m) \/ LockSecond(m)
                \/ UndoFirst(m) \/ Verify(m) \/ ClaimSeeker(m) \/ ClaimPartner(m)
                \/ Rollback(m) \/ LeaveQueue(m) \/ Persist(m) \/ Unlock(m)
                \/ SaveMatch(m) \/ Crash(m) \/ Throw(m)
           \/ \E h \in Handler :
                \/ \E u \in User : Join(h, u) \/ Leave(h, u) \/ Disconnect(h, u) \/ Shutdown(h, u)
                \/ \E u \in User, m \in Attempt : EndMatch(h, u, m)
                \/ JoinCheck(h) \/ Enqueue(h) \/ Dequeue(h) \/ Participants(h)
                \/ Release(h) \/ RowRead(h) \/ RowWrite(h) \/ DeleteMatch(h)
           \/ \E u \in User : Connect(u) \/ ExpireLock(u) \/ ExpireEntry(u) \/ ExpireOccupancy(u)
  BY Zenon DEF Next, AttemptStep, HandlerStep, HandlerEvent, Expiry

LEMMA InitControl == Init => ControlInv
  BY NoneAssumption DEF Init, ControlInv, TypeOK, AttemptInv, HandlerInv, Paired, Locked,
     AttemptLabels, HandlerLabels, ClosingLabels

LEMMA ControlStep ==
    ASSUME ControlInv, [Next]_vars
    PROVE  ControlInv'
<1> USE NoneAssumption
    DEF ControlInv, TypeOK, AttemptInv, HandlerInv, Paired, Committing, Locked, AttemptLabels,
        HandlerLabels, ClosingLabels, redis, attempts, handlers, vars, At, Goto, Goes, Finish
<1>1. ASSUME NEW m \in Attempt, NEW u \in User, Start(m, u) PROVE ControlInv'
  BY <1>1 DEF Start
<1>2. ASSUME NEW m \in Attempt, SeekerFree(m) PROVE ControlInv'
  BY <1>2 DEF SeekerFree
<1>3. ASSUME NEW m \in Attempt, Select(m) PROVE ControlInv'
  BY <1>3 DEF Select
<1>4. ASSUME NEW m \in Attempt, LockFirst(m) PROVE ControlInv'
  <2>1. pc[m] = "lock1" /\ \E l \in {"lock2", "done"} : pc' = [pc EXCEPT ![m] = l]
    BY <1>4 DEF LockFirst
  <2>2. lock' \in [User -> Attempt \cup {None}]
    BY <1>4 DEF LockFirst, SetNX
  <2>3. UNCHANGED <<entry, occ, registry, row, seeker, partner, won, fate, expired, hpc, huser,
                    hmatch, hgone, online>>
    BY <1>4 DEF LockFirst
  <2>4. TypeOK'
    BY <2>1, <2>2, <2>3
  <2>5. AttemptInv'
    BY <2>1, <2>3
  <2>6. HandlerInv'
    BY <2>1, <2>3
  <2> QED
    BY <2>4, <2>5, <2>6
<1>5. ASSUME NEW m \in Attempt, LockSecond(m) PROVE ControlInv'
  <2>1. pc[m] = "lock2" /\ \E l \in {"queuedS", "undo"} : pc' = [pc EXCEPT ![m] = l]
    BY <1>5 DEF LockSecond
  <2>2. lock' \in [User -> Attempt \cup {None}]
    BY <1>5 DEF LockSecond, SetNX
  <2>3. UNCHANGED <<entry, occ, registry, row, seeker, partner, won, fate, expired, hpc, huser,
                    hmatch, hgone, online>>
    BY <1>5 DEF LockSecond
  <2>4. TypeOK'
    BY <2>1, <2>2, <2>3
  <2>5. AttemptInv'
    BY <2>1, <2>3
  <2>6. HandlerInv'
    BY <2>1, <2>3
  <2> QED
    BY <2>4, <2>5, <2>6
<1>6. ASSUME NEW m \in Attempt, UndoFirst(m) PROVE ControlInv'
  <2>1. pc[m] = "undo" /\ pc' = [pc EXCEPT ![m] = "done"]
    BY <1>6 DEF UndoFirst
  <2>2. lock' \in [User -> Attempt \cup {None}]
    BY <1>6 DEF UndoFirst, CompareAndDel
  <2>3. UNCHANGED <<entry, occ, registry, row, seeker, partner, won, fate, expired, hpc, huser,
                    hmatch, hgone, online>>
    BY <1>6 DEF UndoFirst
  <2>4. TypeOK'
    BY <2>1, <2>2, <2>3
  <2>5. AttemptInv'
    BY <2>1, <2>3
  <2>6. HandlerInv'
    BY <2>1, <2>3
  <2> QED
    BY <2>4, <2>5, <2>6
<1>7. ASSUME NEW m \in Attempt, Verify(m) PROVE ControlInv'
  BY <1>7 DEF Verify
<1>8. ASSUME NEW m \in Attempt, ClaimSeeker(m) PROVE ControlInv'
  BY <1>8 DEF ClaimSeeker, SetNX
<1>9. ASSUME NEW m \in Attempt, ClaimPartner(m) PROVE ControlInv'
  BY <1>9 DEF ClaimPartner, SetNX
<1>10. ASSUME NEW m \in Attempt, Rollback(m) PROVE ControlInv'
  BY <1>10 DEF Rollback, CompareAndDel
<1>11. ASSUME NEW m \in Attempt, LeaveQueue(m) PROVE ControlInv'
  BY <1>11 DEF LeaveQueue
<1>12. ASSUME NEW m \in Attempt, Persist(m) PROVE ControlInv'
  BY <1>12 DEF Persist
<1>13. ASSUME NEW m \in Attempt, Unlock(m) PROVE ControlInv'
  BY <1>13 DEF Unlock, CompareAndDel
<1>14. ASSUME NEW m \in Attempt, SaveMatch(m) PROVE ControlInv'
  BY <1>14 DEF SaveMatch
<1>15. ASSUME NEW m \in Attempt, Crash(m) PROVE ControlInv'
  BY <1>15 DEF Crash
<1>16. ASSUME NEW m \in Attempt, Throw(m) PROVE ControlInv'
  BY <1>16 DEF Throw
<1>17. ASSUME NEW h \in Handler, NEW u \in User, Join(h, u) PROVE ControlInv'
  BY <1>17 DEF Join, Invoke
<1>18. ASSUME NEW h \in Handler, NEW u \in User, Leave(h, u) PROVE ControlInv'
  BY <1>18 DEF Leave, Invoke
<1>19. ASSUME NEW h \in Handler, NEW u \in User, Disconnect(h, u) PROVE ControlInv'
  BY <1>19 DEF Disconnect, Invoke, Depart
<1>20. ASSUME NEW h \in Handler, NEW u \in User, Shutdown(h, u) PROVE ControlInv'
  BY <1>20 DEF Shutdown, Invoke, Depart
<1>21. ASSUME NEW h \in Handler, NEW u \in User, NEW m \in Attempt, EndMatch(h, u, m) PROVE ControlInv'
  BY <1>21 DEF EndMatch, Invoke
<1>22. ASSUME NEW h \in Handler, JoinCheck(h) PROVE ControlInv'
  BY <1>22 DEF JoinCheck
<1>23. ASSUME NEW h \in Handler, Enqueue(h) PROVE ControlInv'
  BY <1>23 DEF Enqueue
<1>24. ASSUME NEW h \in Handler, Dequeue(h) PROVE ControlInv'
  BY <1>24 DEF Dequeue
<1>25. ASSUME NEW h \in Handler, Participants(h) PROVE ControlInv'
  BY <1>25 DEF Participants, AfterTeardown
<1>26. ASSUME NEW h \in Handler, Release(h) PROVE ControlInv'
  BY <1>26 DEF Release, CompareAndDel
<1>27. ASSUME NEW h \in Handler, RowRead(h) PROVE ControlInv'
  BY <1>27 DEF RowRead
<1>28. ASSUME NEW h \in Handler, RowWrite(h) PROVE ControlInv'
  BY <1>28 DEF RowWrite
<1>29. ASSUME NEW h \in Handler, DeleteMatch(h) PROVE ControlInv'
  BY <1>29 DEF DeleteMatch, AfterTeardown
<1>30. ASSUME NEW u \in User, ExpireLock(u) PROVE ControlInv'
  BY <1>30 DEF ExpireLock
<1>31. ASSUME NEW u \in User, ExpireEntry(u) PROVE ControlInv'
  BY <1>31 DEF ExpireEntry
<1>32. ASSUME NEW u \in User, ExpireOccupancy(u) PROVE ControlInv'
  BY <1>32 DEF ExpireOccupancy
<1>33. ASSUME NEW u \in User, Connect(u) PROVE ControlInv'
  BY <1>33 DEF Connect
<1>34. CASE UNCHANGED vars
  BY <1>34
<1> QED
  BY NextCases, <1>1, <1>2, <1>3, <1>4, <1>5, <1>6, <1>7, <1>8, <1>9, <1>10, <1>11, <1>12, <1>13, <1>14, <1>15, <1>16, <1>17, <1>18, <1>19, <1>20, <1>21, <1>22, <1>23, <1>24, <1>25, <1>26, <1>27, <1>28, <1>29, <1>30, <1>31, <1>32, <1>33, <1>34

LEMMA ControlAlways == Spec => []ControlInv
  BY InitControl, ControlStep, PTL DEF Spec

(* Every variable keeps its type, and a handler that tears a match down    *)
(* has one (queue.repository.ts, matchmaker.ts, server.ts).                *)
THEOREM TypeCorrect == Spec => []TypeOK
<1>1. ControlInv => TypeOK
  BY DEF ControlInv
<1> QED
  BY <1>1, ControlAlways, PTL

--------------------------------------------------------------------------------
(* The two locks of an attempt are those of its two users, in id order. *)
LEMMA LockOrderFacts ==
    ASSUME ControlInv, NEW m \in Attempt, pc[m] \in Paired
    PROVE  /\ First(m) \in User /\ Second(m) \in User
           /\ First(m) < Second(m)
           /\ Parts(m) = {First(m), Second(m)}
<1>1. seeker[m] \in Nat /\ partner[m] \in Nat /\ seeker[m] # partner[m]
  BY UserAssumption DEF ControlInv, AttemptInv, Paired, Locked
<1>2. seeker[m] \in User /\ partner[m] \in User
  BY DEF ControlInv, AttemptInv, Paired, Locked
<1> QED
  BY <1>1, <1>2 DEF First, Second, LockOrder, Parts

LEMMA LockOrderUnchanged ==
    ASSUME NEW m, seeker'[m] = seeker[m], partner'[m] = partner[m]
    PROVE  First(m)' = First(m) /\ Second(m)' = Second(m)
  BY DEF First, Second, LockOrder

LEMMA InitLock == Init => LockInv
  BY NoneAssumption DEF Init, LockInv, Locked

LEMMA LockStep ==
    ASSUME ControlInv, LockInv, [Next]_vars
    PROVE  LockInv'
<1> USE NoneAssumption, LockOrderFacts, LockOrderUnchanged
    DEF LockInv, ControlInv, TypeOK, Paired, Locked, redis, attempts, vars, At, Goto
<1>1. CASE UNCHANGED <<lock, pc, seeker, partner, fate, expired>>
  BY <1>1
<1>2. ASSUME NEW m \in Attempt, NEW u \in User, Start(m, u) PROVE LockInv'
  BY <1>2 DEF Start, AttemptInv
<1>3. ASSUME NEW m \in Attempt, SeekerFree(m) PROVE LockInv'
  BY <1>3 DEF SeekerFree
<1>4. ASSUME NEW m \in Attempt, Select(m) PROVE LockInv'
  BY <1>4 DEF Select
<1>5. ASSUME NEW m \in Attempt, LockFirst(m) PROVE LockInv'
  BY <1>5 DEF LockFirst, SetNX
<1>6. ASSUME NEW m \in Attempt, LockSecond(m) PROVE LockInv'
  BY <1>6 DEF LockSecond, SetNX
<1>7. ASSUME NEW m \in Attempt, UndoFirst(m) PROVE LockInv'
  BY <1>7 DEF UndoFirst, CompareAndDel
<1>8. ASSUME NEW m \in Attempt, Verify(m) PROVE LockInv'
  BY <1>8 DEF Verify
<1>9. ASSUME NEW m \in Attempt, ClaimSeeker(m) PROVE LockInv'
  BY <1>9 DEF ClaimSeeker
<1>10. ASSUME NEW m \in Attempt, ClaimPartner(m) PROVE LockInv'
  BY <1>10 DEF ClaimPartner
<1>11. ASSUME NEW m \in Attempt, Rollback(m) PROVE LockInv'
  BY <1>11 DEF Rollback
<1>12. ASSUME NEW m \in Attempt, LeaveQueue(m) PROVE LockInv'
  BY <1>12 DEF LeaveQueue
<1>13. ASSUME NEW m \in Attempt, Persist(m) PROVE LockInv'
  BY <1>13 DEF Persist
<1>14. ASSUME NEW m \in Attempt, Unlock(m) PROVE LockInv'
  BY <1>14 DEF Unlock, CompareAndDel
<1>15. ASSUME NEW m \in Attempt, SaveMatch(m) PROVE LockInv'
  BY <1>15 DEF SaveMatch
<1>16. ASSUME NEW m \in Attempt, Throw(m) PROVE LockInv'
  BY <1>16 DEF Throw
<1>17. ASSUME NEW u \in User, ExpireLock(u) PROVE LockInv'
  BY <1>17 DEF ExpireLock
<1>18. ASSUME NEW m \in Attempt, Crash(m) PROVE LockInv'
  BY <1>18 DEF Crash
<1> QED
  BY NextCases, <1>1, <1>2, <1>3, <1>4, <1>5, <1>6, <1>7, <1>8, <1>9, <1>10, <1>11, <1>12, <1>13, <1>14, <1>15, <1>16, <1>17, <1>18
  DEF ExpireEntry, ExpireOccupancy, Connect, Join, JoinCheck, Enqueue, Leave, Dequeue,
      EndMatch, Disconnect, Shutdown, Depart, Participants, Release, RowRead, RowWrite, DeleteMatch

LEMMA LockAlways == Spec => []LockInv
  BY InitControl, ControlStep, InitLock, LockStep, PTL DEF Spec

(* acquirePairLocks and its token-checked release exclude two attempts     *)
(* over a common user, unless one of them lost a lock to the TTL.          *)
THEOREM LockMutexHolds == Spec => []LockMutex
<1>1. ControlInv /\ LockInv => LockMutex
  <2> SUFFICES ASSUME ControlInv, LockInv, NEW m \in Attempt, NEW n \in Attempt, m # n,
                      pc[m] \in Locked, pc[n] \in Locked, Parts(m) \cap Parts(n) # {},
                      m \notin expired, n \notin expired
               PROVE  FALSE
    BY DEF LockMutex
  <2>1. /\ Parts(m) = {First(m), Second(m)}
        /\ Parts(n) = {First(n), Second(n)}
    BY LockOrderFacts DEF Paired
  <2>2. lock[First(m)] = m /\ lock[Second(m)] = m /\ lock[First(n)] = n /\ lock[Second(n)] = n
    BY DEF LockInv
  <2> QED
    BY <2>1, <2>2
<1> QED
  BY <1>1, ControlAlways, LockAlways, PTL

(* The ascending order of acquirePairLocks: no two attempts hold each the  *)
(* lock the other wants.                                                   *)
THEOREM NoCrossedLocksHolds == Spec => []NoCrossedLocks
<1>1. ControlInv /\ LockInv => NoCrossedLocks
  <2> SUFFICES ASSUME ControlInv, LockInv, NEW m \in Attempt, NEW n \in Attempt,
                      pc[m] = "lock2", pc[n] = "lock2",
                      lock[Second(m)] = n, lock[Second(n)] = m
               PROVE  FALSE
    BY DEF NoCrossedLocks
  <2>1. /\ First(m) \in User /\ Second(m) \in User /\ First(m) < Second(m)
        /\ First(n) \in User /\ Second(n) \in User /\ First(n) < Second(n)
    BY LockOrderFacts DEF Paired
  <2>2. Second(m) = First(n) /\ Second(n) = First(m)
    BY <2>1 DEF LockInv, Locked
  <2> QED
    BY <2>1, <2>2, UserAssumption
<1> QED
  BY <1>1, ControlAlways, LockAlways, PTL

--------------------------------------------------------------------------------
LEMMA InitOcc == Init => OccInv
  BY NoneAssumption DEF Init, OccInv, Open

LEMMA OccStep ==
    ASSUME ControlInv, OccInv, [Next]_vars
    PROVE  OccInv'
<1> USE NoneAssumption
    DEF OccInv, ControlInv, TypeOK, AttemptInv, HandlerInv, Open, Closing, ClosingLabels,
        Paired, Committing, Locked, redis, attempts, handlers, vars, At, Goto, Goes, Finish
<1>1. CASE UNCHANGED <<occ, registry, pc, seeker, partner, won, fate, hpc, hmatch>>
  BY <1>1
<1>2. ASSUME NEW m \in Attempt, NEW u \in User, Start(m, u) PROVE OccInv'
  BY <1>2 DEF Start
<1>3. ASSUME NEW m \in Attempt, SeekerFree(m) PROVE OccInv'
  BY <1>3 DEF SeekerFree
<1>4. ASSUME NEW m \in Attempt, Select(m) PROVE OccInv'
  BY <1>4 DEF Select
<1>5. ASSUME NEW m \in Attempt, LockFirst(m) PROVE OccInv'
  BY <1>5 DEF LockFirst
<1>6. ASSUME NEW m \in Attempt, LockSecond(m) PROVE OccInv'
  BY <1>6 DEF LockSecond
<1>7. ASSUME NEW m \in Attempt, UndoFirst(m) PROVE OccInv'
  BY <1>7 DEF UndoFirst
<1>8. ASSUME NEW m \in Attempt, Verify(m) PROVE OccInv'
  BY <1>8 DEF Verify
<1>9. ASSUME NEW m \in Attempt, ClaimSeeker(m) PROVE OccInv'
  BY <1>9 DEF ClaimSeeker, SetNX
<1>10. ASSUME NEW m \in Attempt, ClaimPartner(m) PROVE OccInv'
  BY <1>10 DEF ClaimPartner, SetNX
<1>11. ASSUME NEW m \in Attempt, Rollback(m) PROVE OccInv'
  BY <1>11 DEF Rollback, CompareAndDel
<1>12. ASSUME NEW m \in Attempt, LeaveQueue(m) PROVE OccInv'
  BY <1>12 DEF LeaveQueue
<1>13. ASSUME NEW m \in Attempt, Persist(m) PROVE OccInv'
  BY <1>13 DEF Persist
<1>14. ASSUME NEW m \in Attempt, Unlock(m) PROVE OccInv'
  BY <1>14 DEF Unlock
<1>15. ASSUME NEW m \in Attempt, SaveMatch(m) PROVE OccInv'
  BY <1>15 DEF SaveMatch
<1>16. ASSUME NEW m \in Attempt, Crash(m) PROVE OccInv'
  BY <1>16 DEF Crash
<1>17. ASSUME NEW m \in Attempt, Throw(m) PROVE OccInv'
  BY <1>17 DEF Throw
<1>18. ASSUME NEW h \in Handler, NEW u \in User, Join(h, u) PROVE OccInv'
  BY <1>18 DEF Join, Invoke
<1>19. ASSUME NEW h \in Handler, NEW u \in User, Leave(h, u) PROVE OccInv'
  BY <1>19 DEF Leave, Invoke
<1>20. ASSUME NEW h \in Handler, NEW u \in User, Disconnect(h, u) PROVE OccInv'
  BY <1>20 DEF Disconnect, Invoke, Depart
<1>21. ASSUME NEW h \in Handler, NEW u \in User, Shutdown(h, u) PROVE OccInv'
  BY <1>21 DEF Shutdown, Invoke, Depart
<1>22. ASSUME NEW h \in Handler, NEW u \in User, NEW m \in Attempt, EndMatch(h, u, m) PROVE OccInv'
  BY <1>22 DEF EndMatch, Invoke
<1>23. ASSUME NEW h \in Handler, JoinCheck(h) PROVE OccInv'
  BY <1>23 DEF JoinCheck
<1>24. ASSUME NEW h \in Handler, Enqueue(h) PROVE OccInv'
  BY <1>24 DEF Enqueue
<1>25. ASSUME NEW h \in Handler, Dequeue(h) PROVE OccInv'
  BY <1>25 DEF Dequeue
<1>26. ASSUME NEW h \in Handler, Participants(h) PROVE OccInv'
  BY <1>26 DEF Participants, AfterTeardown
<1>27. ASSUME NEW h \in Handler, Release(h) PROVE OccInv'
  BY <1>27 DEF Release, CompareAndDel
<1>28. ASSUME NEW h \in Handler, RowRead(h) PROVE OccInv'
  BY <1>28 DEF RowRead
<1>29. ASSUME NEW h \in Handler, RowWrite(h) PROVE OccInv'
  BY <1>29 DEF RowWrite
<1>30. ASSUME NEW h \in Handler, DeleteMatch(h) PROVE OccInv'
  BY <1>30 DEF DeleteMatch, AfterTeardown
<1>31. ASSUME NEW u \in User, ExpireOccupancy(u) PROVE OccInv'
  BY <1>31 DEF ExpireOccupancy
<1> QED
  BY NextCases, <1>1, <1>2, <1>3, <1>4, <1>5, <1>6, <1>7, <1>8, <1>9, <1>10, <1>11, <1>12, <1>13, <1>14, <1>15, <1>16, <1>17, <1>18, <1>19, <1>20, <1>21, <1>22, <1>23, <1>24, <1>25, <1>26, <1>27, <1>28, <1>29, <1>30, <1>31
  DEF Connect, ExpireLock, ExpireEntry

LEMMA OccAlways == Spec => []OccInv
  BY InitControl, ControlStep, InitOcc, OccStep, PTL DEF Spec

(* One account is in at most one conversation: whichever locks expire and  *)
(* nodes die, two live conversations have no user in common.               *)
THEOREM NoDoubleBookingHolds == Spec => []NoDoubleBooking
<1>1. ControlInv /\ OccInv => NoDoubleBooking
  <2> SUFFICES ASSUME ControlInv, OccInv, NEW m \in Attempt, NEW n \in Attempt,
                      Open(m), Open(n), m # n
               PROVE  Parts(m) \cap Parts(n) = {}
    BY DEF NoDoubleBooking
  <2>1. \A u \in Parts(m) : occ[u] = m
    BY DEF OccInv, ControlInv, AttemptInv, Open, Parts
  <2>2. \A u \in Parts(n) : occ[u] = n
    BY DEF OccInv, ControlInv, AttemptInv, Open, Parts
  <2> QED
    BY <2>1, <2>2
<1> QED
  BY <1>1, ControlAlways, OccAlways, PTL

--------------------------------------------------------------------------------
LEMMA InitRelease == Init => ReleaseInv
  BY NoneAssumption DEF Init, ReleaseInv, NobodyLeftBehind, ClosingLabels

(* Once a match is registered no claim brings its id back, so what a       *)
(* teardown released stays released until the record is deleted.           *)
LEMMA ReleaseStep ==
    ASSUME ControlInv, OccInv, ReleaseInv, [Next]_vars
    PROVE  ReleaseInv'
<1> USE NoneAssumption
    DEF ReleaseInv, NobodyLeftBehind, OccInv, ControlInv, TypeOK, AttemptInv, HandlerInv,
        ClosingLabels, Paired, Committing, Locked, redis, attempts, handlers, vars, At, Goto,
        Goes, Finish
<1>1. CASE UNCHANGED <<occ, registry, pc, seeker, partner, won, fate, hpc, hmatch>>
  BY <1>1
<1>2. ASSUME NEW m \in Attempt, NEW u \in User, Start(m, u) PROVE ReleaseInv'
  BY <1>2 DEF Start
<1>3. ASSUME NEW m \in Attempt, SeekerFree(m) PROVE ReleaseInv'
  BY <1>3 DEF SeekerFree
<1>4. ASSUME NEW m \in Attempt, Select(m) PROVE ReleaseInv'
  BY <1>4 DEF Select
<1>5. ASSUME NEW m \in Attempt, LockFirst(m) PROVE ReleaseInv'
  BY <1>5 DEF LockFirst
<1>6. ASSUME NEW m \in Attempt, LockSecond(m) PROVE ReleaseInv'
  BY <1>6 DEF LockSecond
<1>7. ASSUME NEW m \in Attempt, UndoFirst(m) PROVE ReleaseInv'
  BY <1>7 DEF UndoFirst
<1>8. ASSUME NEW m \in Attempt, Verify(m) PROVE ReleaseInv'
  BY <1>8 DEF Verify
<1>9. ASSUME NEW m \in Attempt, ClaimSeeker(m) PROVE ReleaseInv'
  BY <1>9 DEF ClaimSeeker, SetNX
<1>10. ASSUME NEW m \in Attempt, ClaimPartner(m) PROVE ReleaseInv'
  BY <1>10 DEF ClaimPartner, SetNX
<1>11. ASSUME NEW m \in Attempt, Rollback(m) PROVE ReleaseInv'
  BY <1>11 DEF Rollback, CompareAndDel
<1>12. ASSUME NEW m \in Attempt, LeaveQueue(m) PROVE ReleaseInv'
  BY <1>12 DEF LeaveQueue
<1>13. ASSUME NEW m \in Attempt, Persist(m) PROVE ReleaseInv'
  BY <1>13 DEF Persist
<1>14. ASSUME NEW m \in Attempt, Unlock(m) PROVE ReleaseInv'
  BY <1>14 DEF Unlock
<1>15. ASSUME NEW m \in Attempt, SaveMatch(m) PROVE ReleaseInv'
  BY <1>15 DEF SaveMatch
<1>16. ASSUME NEW m \in Attempt, Crash(m) PROVE ReleaseInv'
  BY <1>16 DEF Crash
<1>17. ASSUME NEW m \in Attempt, Throw(m) PROVE ReleaseInv'
  BY <1>17 DEF Throw
<1>18. ASSUME NEW h \in Handler, NEW u \in User, Join(h, u) PROVE ReleaseInv'
  BY <1>18 DEF Join, Invoke
<1>19. ASSUME NEW h \in Handler, NEW u \in User, Leave(h, u) PROVE ReleaseInv'
  BY <1>19 DEF Leave, Invoke
<1>20. ASSUME NEW h \in Handler, NEW u \in User, Disconnect(h, u) PROVE ReleaseInv'
  BY <1>20 DEF Disconnect, Invoke, Depart
<1>21. ASSUME NEW h \in Handler, NEW u \in User, Shutdown(h, u) PROVE ReleaseInv'
  BY <1>21 DEF Shutdown, Invoke, Depart
<1>22. ASSUME NEW h \in Handler, NEW u \in User, NEW m \in Attempt, EndMatch(h, u, m) PROVE ReleaseInv'
  BY <1>22 DEF EndMatch, Invoke
<1>23. ASSUME NEW h \in Handler, JoinCheck(h) PROVE ReleaseInv'
  BY <1>23 DEF JoinCheck
<1>24. ASSUME NEW h \in Handler, Enqueue(h) PROVE ReleaseInv'
  BY <1>24 DEF Enqueue
<1>25. ASSUME NEW h \in Handler, Dequeue(h) PROVE ReleaseInv'
  BY <1>25 DEF Dequeue
<1>26. ASSUME NEW h \in Handler, Participants(h) PROVE ReleaseInv'
  BY <1>26 DEF Participants, AfterTeardown
<1>27. ASSUME NEW h \in Handler, Release(h) PROVE ReleaseInv'
  BY <1>27 DEF Release, CompareAndDel
<1>28. ASSUME NEW h \in Handler, RowRead(h) PROVE ReleaseInv'
  BY <1>28 DEF RowRead
<1>29. ASSUME NEW h \in Handler, RowWrite(h) PROVE ReleaseInv'
  BY <1>29 DEF RowWrite
<1>30. ASSUME NEW h \in Handler, DeleteMatch(h) PROVE ReleaseInv'
  BY <1>30 DEF DeleteMatch, AfterTeardown
<1>31. ASSUME NEW u \in User, ExpireOccupancy(u) PROVE ReleaseInv'
  BY <1>31 DEF ExpireOccupancy
<1> QED
  BY NextCases, <1>1, <1>2, <1>3, <1>4, <1>5, <1>6, <1>7, <1>8, <1>9, <1>10, <1>11, <1>12, <1>13, <1>14, <1>15, <1>16, <1>17, <1>18, <1>19, <1>20, <1>21, <1>22, <1>23, <1>24, <1>25, <1>26, <1>27, <1>28, <1>29, <1>30, <1>31
  DEF Connect, ExpireLock, ExpireEntry

(* The order of teardownMatch: a registered match leaves the registry only *)
(* after it released both its users.                                       *)
THEOREM NobodyLeftBehindHolds == Spec => []NobodyLeftBehind
<1>1. Spec => []ReleaseInv
  BY InitControl, ControlStep, InitOcc, OccStep, InitRelease, ReleaseStep, PTL DEF Spec
<1>2. ReleaseInv => NobodyLeftBehind
  BY DEF ReleaseInv
<1> QED
  BY <1>1, <1>2, PTL

--------------------------------------------------------------------------------
(* releaseMatch and claimForMatch: an occupancy key changes only to free   *)
(* its user, and only for the match it names.                              *)
THEOREM OccupancyKeptHolds == Spec => OccupancyKept
<1> DEFINE Kept == \A u \in User :
                      occ[u] # None /\ occ'[u] # occ[u] =>
                          /\ occ'[u] = None
                          /\ \/ Closing(occ[u])
                             \/ pc[occ[u]] = "rollback"
                             \/ fate[occ[u]] # "running"
<1>1. ASSUME ControlInv, [Next]_vars PROVE [Kept]_vars
  <2> SUFFICES ASSUME occ' # occ PROVE Kept
    BY DEF Kept
  <2> USE <1>1 DEF ControlInv, TypeOK, redis, attempts, handlers, vars
  <2>1. ASSUME NEW m \in Attempt, ClaimSeeker(m) \/ ClaimPartner(m) PROVE Kept
    BY <2>1 DEF ClaimSeeker, ClaimPartner, SetNX
  <2>2. ASSUME NEW m \in Attempt, Rollback(m) PROVE Kept
    BY <2>2 DEF Rollback, CompareAndDel, At
  <2>3. ASSUME NEW h \in Handler, Release(h) PROVE Kept
    BY <2>3 DEF Release, CompareAndDel, Closing, ClosingLabels
  <2>4. ASSUME NEW u \in User, ExpireOccupancy(u) PROVE Kept
    BY <2>4 DEF ExpireOccupancy
  <2> HIDE DEF Kept
  <2> QED
    BY NextCases, <2>1, <2>2, <2>3, <2>4
    DEF Start, SeekerFree, Select, LockFirst, LockSecond, UndoFirst, Verify, LeaveQueue, Persist,
        Unlock, SaveMatch, Crash, Throw, ExpireLock, ExpireEntry, Connect, Join, JoinCheck,
        Enqueue, Leave, Dequeue, EndMatch, Disconnect, Shutdown, Depart, Participants, RowRead,
        RowWrite, DeleteMatch
<1> QED
  BY <1>1, ControlAlways, PTL DEF Spec, OccupancyKept

--------------------------------------------------------------------------------
(* Every step of the protocol is a step of Occupancy or none: the second   *)
(* claim pairs two free users, a release or a TTL frees one.               *)
THEOREM Refinement == Spec => ImplementsOccupancy
<1>1. Init => Abs!Init
  BY NoneAssumption DEF Init, Abs!Init
<1>2. ASSUME ControlInv, OccInv, [Next]_vars PROVE [Abs!Next]_(Abs!vars)
  <2> USE <1>2, NoneAssumption
      DEF ControlInv, TypeOK, redis, attempts, handlers, vars, At, Goto
  <2>1. CASE UNCHANGED <<occ, won>>
    BY <2>1 DEF Abs!vars
  <2>2. ASSUME NEW m \in Attempt, ClaimSeeker(m) PROVE UNCHANGED Abs!vars
    BY <2>2 DEF ClaimSeeker, SetNX, Abs!vars, AttemptInv, Committing
  <2>3. ASSUME NEW m \in Attempt, ClaimPartner(m), m \in won',
               NEW u \in User, NEW v \in User, u = seeker[m], v = partner[m]
        PROVE  Abs!Pair(m, u, v)
    <3>1. /\ u # v /\ m \notin won /\ won' = won \cup {m}
          /\ occ[u] = m /\ occ[v] = None
          /\ occ' = [occ EXCEPT ![v] = m]
      BY <2>3 DEF ClaimPartner, SetNX, AttemptInv, OccInv, Paired, Committing, Locked
    <3>2. None \notin won
      OBVIOUS
    <3>3. [x \in User |-> IF occ[x] \in won THEN occ[x] ELSE None]' =
             [[x \in User |-> IF occ[x] \in won THEN occ[x] ELSE None] EXCEPT ![u] = m, ![v] = m]
      <4>1. ASSUME NEW x \in User, x # u, x # v
            PROVE  occ'[x] = occ[x] /\ (occ[x] \in won' <=> occ[x] \in won)
        BY <3>1, <4>1 DEF OccInv
      <4> QED
        BY <3>1, <4>1
    <3> QED
      BY <3>1, <3>2, <3>3 DEF Abs!Pair
  <2>4. ASSUME NEW m \in Attempt, ClaimPartner(m), m \notin won' PROVE UNCHANGED <<occ, won>>
    BY <2>4 DEF ClaimPartner, SetNX
  <2>5. ASSUME NEW m \in Attempt, Rollback(m) PROVE UNCHANGED Abs!vars
    BY <2>5 DEF Rollback, CompareAndDel, Abs!vars, AttemptInv, Committing
  <2>6. ASSUME NEW h \in Handler, Release(h), UNCHANGED occ PROVE UNCHANGED <<occ, won>>
    BY <2>6 DEF Release
  <2>7. ASSUME NEW h \in Handler, Release(h), occ' # occ PROVE \E u \in User : Abs!Vacate(u)
    <3>1. PICK u \in User : /\ occ[u] = hmatch[h]
                            /\ occ' = [occ EXCEPT ![u] = None]
                            /\ won' = won
      BY <2>7 DEF Release, CompareAndDel, AttemptInv, HandlerInv, ClosingLabels, Paired
    <3>2. hmatch[h] \in won /\ hmatch[h] # None /\ None \notin won
      BY <2>7 DEF Release, HandlerInv, ClosingLabels
    <3>3. [x \in User |-> IF occ[x] \in won THEN occ[x] ELSE None]' =
             [[x \in User |-> IF occ[x] \in won THEN occ[x] ELSE None] EXCEPT ![u] = None]
      BY <3>1, <3>2
    <3>4. Abs!Vacate(u)
      BY <3>1, <3>2, <3>3 DEF Abs!Vacate
    <3> QED
      BY <3>4, Zenon
  <2>8. ASSUME NEW u \in User, ExpireOccupancy(u)
        PROVE  Abs!Vacate(u) \/ UNCHANGED Abs!vars
    BY <2>8 DEF ExpireOccupancy, Abs!Vacate, Abs!vars
  <2>9. CASE Next
    <3>1. \/ \E m \in Attempt : ClaimSeeker(m) \/ ClaimPartner(m) \/ Rollback(m)
          \/ \E h \in Handler : Release(h)
          \/ \E u \in User : ExpireOccupancy(u)
          \/ UNCHANGED <<occ, won>>
      BY <2>9, NextCases
      DEF Start, SeekerFree, Select, LockFirst, LockSecond, UndoFirst, Verify, LeaveQueue, Persist,
          Unlock, SaveMatch, Crash, Throw, ExpireLock, ExpireEntry, Connect, Join, JoinCheck,
          Enqueue, Leave, Dequeue, EndMatch, Disconnect, Shutdown, Depart, Participants, RowRead,
          RowWrite, DeleteMatch
    <3>2. ASSUME NEW m \in Attempt, ClaimPartner(m), m \in won' PROVE Abs!Next
      <4>1. PICK u \in User, v \in User : u = seeker[m] /\ v = partner[m]
        BY <3>2 DEF ClaimPartner, AttemptInv, Paired, Locked
      <4>2. Abs!Pair(m, u, v)
        BY <3>2, <4>1, <2>3
      <4> QED
        BY <4>2, Zenon DEF Abs!Next
    <3> QED
      BY <3>1, <3>2, <2>1, <2>2, <2>4, <2>5, <2>6, <2>7, <2>8 DEF Abs!Next
  <2> QED
    BY <2>1, <2>9
<1> QED
  BY <1>1, <1>2, ControlAlways, OccAlways, PTL DEF Spec, ImplementsOccupancy, Abs!Spec

--------------------------------------------------------------------------------
CONSTANTS Country, Nowhere, Region, Global, RegionByCountry, Stages, Tab, Owner, Early,
          Home, Move, Profile, Met, Restless, MaxJoins

VARIABLES country, snapshot, zset, recent, open, sockets, present, req, bye, scan, joins, fresh

(* Presence and queue; the entries are snapshots here, and who is online is   *)
(* what Redis says.                                                           *)
L == INSTANCE Lobby WITH entry <- snapshot, online <- present

(* What Lobby assumes of its sockets.                                         *)
TabsOwned == Owner \in [Tab -> User] /\ Early \subseteq Tab

PresenceTypes ==
    /\ open \subseteq Tab /\ fresh \subseteq Tab
    /\ sockets \in [User -> SUBSET Tab]
    /\ bye \in [Tab -> {"idle", "scard", "clear", "leave"}]

(* What userSockets holds of a user is a socket of theirs that is connected,  *)
(* and who counts as online has one, or a handler that is to find out.        *)
SocketInv == \A u \in User : sockets[u] \subseteq open \cap L!TabsOf(u)

OnlineInv ==
    \A u \in present : \/ open \cap L!TabsOf(u) # {}
                       \/ \E t \in L!TabsOf(u) : bye[t] \in {"scard", "clear"}

PresenceInv ==
    /\ TabsOwned /\ PresenceTypes /\ SocketInv /\ OnlineInv

LEMMA PresenceStarts == TabsOwned /\ L!Init => PresenceInv
  BY DEF TabsOwned, L!Init, PresenceInv, PresenceTypes, SocketInv, OnlineInv, L!TabsOf

LEMMA PresenceKept == PresenceInv /\ UNCHANGED <<open, fresh, L!presence, bye>> => PresenceInv'
  BY DEF TabsOwned, PresenceInv, PresenceTypes, SocketInv, OnlineInv, L!TabsOf, L!presence

LEMMA PresenceSteps == PresenceInv /\ [L!Next]_(L!vars) => PresenceInv'
<1> SUFFICES ASSUME PresenceInv, [L!Next]_(L!vars) PROVE PresenceInv'
  OBVIOUS
<1> USE DEF TabsOwned, PresenceInv, PresenceTypes, SocketInv, OnlineInv, L!TabsOf, L!ByeTo
<1>1. ASSUME NEW t \in Tab, L!Connect(t)
      PROVE  PresenceInv'
  BY <1>1 DEF L!Connect, L!tasks
<1>2. ASSUME NEW t \in Tab, L!Disconnect(t)
      PROVE  PresenceInv'
  BY <1>2 DEF L!Disconnect
<1>3. ASSUME NEW t \in Tab, L!CountSockets(t)
      PROVE  PresenceInv'
  BY <1>3 DEF L!CountSockets, L!presence
<1>4. ASSUME NEW t \in Tab, L!ClearPresence(t)
      PROVE  PresenceInv'
  BY <1>4 DEF L!ClearPresence
<1>5. ASSUME NEW t \in Tab, L!ByeLeave(t)
      PROVE  PresenceInv'
  BY <1>5 DEF L!ByeLeave, L!presence
<1>6. ASSUME NEW u \in User,
             \/ L!JoinLoad(u) \/ L!LeaveLoad(u) \/ L!EditCountry(u) \/ L!ExpireEntry(u)
             \/ L!JoinWrite(u) \/ L!LeaveWrite(u)
      PROVE  PresenceInv'
  BY <1>6, PresenceKept
     DEF L!tasks, L!presence, L!JoinLoad, L!LeaveLoad, L!Request, L!EditCountry, L!ExpireEntry,
         L!JoinWrite, L!LeaveWrite
<1>7. ASSUME NEW u \in User, L!Tick(u)
      PROVE  PresenceInv'
  BY <1>7, PresenceKept DEF L!tasks, L!presence, L!Tick, L!ReadShards
<1>8. ASSUME NEW a \in Attempt, L!Scans(a)
      PROVE  PresenceInv'
  BY <1>8, PresenceKept DEF L!presence, L!Scans, L!ReadEntries, L!Prune, L!Choose
<1>9. CASE L!Second
  BY <1>9, PresenceKept DEF L!tasks, L!presence, L!Second
<1>10. CASE UNCHANGED L!vars
  BY <1>10, PresenceKept DEF L!tasks, L!presence, L!vars
<1> QED
  BY <1>1, <1>2, <1>3, <1>4, <1>5, <1>6, <1>7, <1>8, <1>9, <1>10 DEF L!Next, L!Handlers

(* Once the disconnect handlers have run, nobody counts as online without a   *)
(* socket, however the sockets came and went between SREM, SCARD and DEL      *)
(* (presence.ts: connect, disconnect).                                        *)
THEOREM OnlineAreThere == TabsOwned /\ L!Spec => []L!OnlineHasTab
<1>1. PresenceInv => L!OnlineHasTab
  BY DEF PresenceInv, OnlineInv, L!OnlineHasTab
<1> QED
  BY <1>1, PresenceStarts, PresenceSteps, PTL DEF L!Spec
================================================================================
