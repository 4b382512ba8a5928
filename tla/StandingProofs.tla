----------------------------- MODULE StandingProofs -----------------------------
(***************************************************************************)
(* Theorems of Standing, for any calls and any reports.                    *)
(***************************************************************************)
EXTENDS Standing, TLAPS

(* A report a moderator was told is theirs has left PENDING for good. *)
ClaimInv ==
    /\ OneClaim
    /\ \A c \in Call : At(c, {"claim"}, "done") =>
          target[c] \in Report /\ report[target[c]].status \notin {"none", "PENDING"}

StandingInv == TypeOK /\ RestrictionHasRow /\ SettledReports /\ ClaimInv /\ RestrictedIsEvicted
--------------------------------------------------------------------------------
LEMMA InitInv == Init => StandingInv
<1> SUFFICES ASSUME Init PROVE StandingInv
  OBVIOUS
<1>1. TypeOK
  BY DEF Init, TypeOK, Statuses, Operations
<1>2. RestrictionHasRow
  BY DEF Init, RestrictionHasRow
<1>3. SettledReports
  BY DEF Init, SettledReports
<1>4. ClaimInv
  BY DEF Init, ClaimInv, OneClaim, At
<1>5. RestrictedIsEvicted
  BY DEF Init, RestrictedIsEvicted, Restricted
<1> QED
  BY <1>1, <1>2, <1>3, <1>4, <1>5 DEF StandingInv

(* The types are preserved. *)
LEMMA TypeStep ==
    ASSUME TypeOK, [Next]_vars
    PROVE  TypeOK'
<1> USE DEF TypeOK, owner, rows, worker, call, Statuses, Operations
<1>1. ASSUME NEW r \in Report, File(r) PROVE TypeOK'
  BY <1>1 DEF File
<1>2. ASSUME NEW c \in Call, NEW r \in Report, Claim(c, r) PROVE TypeOK'
  BY <1>2 DEF Claim, Start
<1>3. ASSUME NEW c \in Call, NEW r \in Report, ResolveRead(c, r) PROVE TypeOK'
  BY <1>3 DEF ResolveRead, Start
<1>4. ASSUME NEW c \in Call, NEW type \in Sanctions, ResolveCommit(c, type) PROVE TypeOK'
  <2>0. target[c] \in Report
    BY <1>4 DEF ResolveCommit, At
  <2>1. log' \subseteq [by : Call, type : Sanctions \cup {"UNBAN"}]
    BY <1>4 DEF ResolveCommit, Sanction
  <2>2. status' \in Statuses /\ bans' \subseteq Call /\ latest' \in Call \cup {None} /\ open' \subseteq Call
    BY <1>4 DEF ResolveCommit, Sanction, Sanctions, Statuses
  <2> QED
    BY <1>4, <2>0, <2>1, <2>2 DEF ResolveCommit, Sanction, Goto, At
<1>5. ASSUME NEW c \in Call, NEW type \in Sanctions, DirectCommit(c, type) PROVE TypeOK'
  <2>1. log' \subseteq [by : Call, type : Sanctions \cup {"UNBAN"}]
    BY <1>5 DEF DirectCommit, Sanction
  <2>2. status' \in Statuses /\ bans' \subseteq Call /\ latest' \in Call \cup {None} /\ open' \subseteq Call
    BY <1>5 DEF DirectCommit, Sanction, Sanctions, Statuses
  <2> QED
    BY <1>5, <2>1, <2>2 DEF DirectCommit, Sanction, Goto, At
<1>6. ASSUME NEW c \in Call, DirectRead(c) PROVE TypeOK'
  BY <1>6 DEF DirectRead, Start
<1>7. ASSUME NEW c \in Call, Evict(c) PROVE TypeOK'
  <2>1. pc' \in {[pc EXCEPT ![c] = "done"], [pc EXCEPT ![c] = "unevicted"]}
    BY <1>7 DEF Evict, Goto
  <2>2. op' = op /\ present' \in BOOLEAN
    BY <1>7 DEF Evict, Goto
  <2>3. pc[c] = "evict"
    BY <1>7 DEF Evict, At
  <2>4. \A d \in Call : pc'[d] # "idle" => pc[d] # "idle"
    BY <2>1, <2>3
  <2>5. UNCHANGED <<status, owner, rows, report, worker, target, lifting, late>>
    BY <1>7 DEF Evict
  <2> QED
    BY <2>1, <2>2, <2>4, <2>5
<1>8. ASSUME NEW c \in Call, ReinstateRead(c) PROVE TypeOK'
  BY <1>8 DEF ReinstateRead, Start
<1>9. ASSUME NEW c \in Call, ReinstateLift(c) PROVE TypeOK'
  BY <1>9 DEF ReinstateLift, Goto, At
<1>10. ASSUME NEW c \in Call, ReinstateCommit(c) PROVE TypeOK'
  BY <1>10 DEF ReinstateCommit, Goto, At
<1>11. ASSUME NEW c \in Call, NEW o \in {"login", "refresh"}, 
             RestrictionRead(c, o)
      PROVE  TypeOK'
  BY <1>11 DEF RestrictionRead, Start
<1>12. ASSUME NEW c \in Call, ReadLatest(c) PROVE TypeOK'
  BY <1>12 DEF ReadLatest, Goto, At
<1>13. ASSUME NEW c \in Call, Restore(c) PROVE TypeOK'
  BY <1>13 DEF Restore, Goto, At
<1>14. ASSUME NEW c \in Call, SignIn(c) PROVE TypeOK'
  BY <1>14 DEF SignIn, Goto, At
<1>15. ASSUME NEW c \in Call, DeleteRead(c) PROVE TypeOK'
  BY <1>15 DEF DeleteRead, Start
<1>16. ASSUME NEW c \in Call, DeleteCommit(c) PROVE TypeOK'
  BY <1>16 DEF DeleteCommit, Goto, At
<1>17. ASSUME NEW c \in Call, ConnectRead(c) PROVE TypeOK'
  BY <1>17 DEF ConnectRead, Start
<1>18. ASSUME NEW c \in Call, ConnectWrite(c) PROVE TypeOK'
  BY <1>18 DEF ConnectWrite, Goto, At
<1>19. CASE Verify
  BY <1>19 DEF Verify
<1>20. CASE SweepRead
  BY <1>20 DEF SweepRead
<1>21. CASE SweepScan
  BY <1>21 DEF SweepScan
<1>22. CASE SweepWrite
  BY <1>22 DEF SweepWrite
<1>23. CASE EraseRead
  BY <1>23 DEF EraseRead
<1>24. CASE Erase
  BY <1>24 DEF Erase
<1>25. ASSUME NEW s \in open, SuspensionEnds(s) PROVE TypeOK'
  BY <1>25 DEF SuspensionEnds
<1>26. CASE GraceEnds
  BY <1>26 DEF GraceEnds
<1>27. CASE UNCHANGED vars
  BY <1>27 DEF vars
<1> QED
  BY <1>1, <1>2, <1>3, <1>4, <1>5, <1>6, <1>7, <1>8, <1>9, <1>10, <1>11,
     <1>12, <1>13, <1>14, <1>15, <1>16, <1>17, <1>18, <1>19, <1>20, <1>21,
     <1>22, <1>23, <1>24, <1>25, <1>26, <1>27 DEF Next, Warn, Restricting, Sanctions, ReportRoutes,
     UserRoutes, OwnRequests, Jobs

(* A restriction keeps its row. *)
LEMMA RowStep ==
    ASSUME TypeOK, RestrictionHasRow, [Next]_vars
    PROVE  RestrictionHasRow'
<1> USE NoneAssumption DEF RestrictionHasRow, owner, rows, worker, call
<1>1. ASSUME NEW r \in Report, File(r) PROVE RestrictionHasRow'
  BY <1>1 DEF File
<1>2. ASSUME NEW c \in Call, NEW r \in Report, Claim(c, r) PROVE RestrictionHasRow'
  BY <1>2 DEF Claim, Start
<1>3. ASSUME NEW c \in Call, NEW r \in Report, ResolveRead(c, r) PROVE RestrictionHasRow'
  BY <1>3 DEF ResolveRead, Start
<1>4. ASSUME NEW c \in Call, NEW type \in Sanctions, 
             ResolveCommit(c, type)
      PROVE  RestrictionHasRow'
  BY <1>4 DEF TypeOK, Sanctions, ResolveCommit, Goto, At, Sanction
<1>5. ASSUME NEW c \in Call, NEW type \in Sanctions, 
             DirectCommit(c, type)
      PROVE  RestrictionHasRow'
  BY <1>5 DEF TypeOK, Sanctions, DirectCommit, Goto, At, Sanction
<1>6. ASSUME NEW c \in Call, DirectRead(c) PROVE RestrictionHasRow'
  BY <1>6 DEF DirectRead, Start
<1>7. ASSUME NEW c \in Call, Evict(c) PROVE RestrictionHasRow'
  BY <1>7 DEF Evict, Goto, At
<1>8. ASSUME NEW c \in Call, ReinstateRead(c) PROVE RestrictionHasRow'
  BY <1>8 DEF ReinstateRead, Start
<1>9. ASSUME NEW c \in Call, ReinstateLift(c) PROVE RestrictionHasRow'
  BY <1>9 DEF ReinstateLift, Goto, At
<1>10. ASSUME NEW c \in Call, ReinstateCommit(c) PROVE RestrictionHasRow'
  BY <1>10 DEF Restricted, ReinstateCommit, Goto, At
<1>11. ASSUME NEW c \in Call, NEW o \in {"login", "refresh"}, 
             RestrictionRead(c, o)
      PROVE  RestrictionHasRow'
  BY <1>11 DEF RestrictionRead, Start
<1>12. ASSUME NEW c \in Call, ReadLatest(c) PROVE RestrictionHasRow'
  BY <1>12 DEF ReadLatest, Goto, At
<1>13. ASSUME NEW c \in Call, Restore(c) PROVE RestrictionHasRow'
  BY <1>13 DEF Restore, Goto, At
<1>14. ASSUME NEW c \in Call, SignIn(c) PROVE RestrictionHasRow'
  BY <1>14 DEF SignIn, Goto, At
<1>15. ASSUME NEW c \in Call, DeleteRead(c) PROVE RestrictionHasRow'
  BY <1>15 DEF DeleteRead, Start
<1>16. ASSUME NEW c \in Call, DeleteCommit(c) PROVE RestrictionHasRow'
  BY <1>16 DEF DeleteCommit, Goto, At
<1>17. ASSUME NEW c \in Call, ConnectRead(c) PROVE RestrictionHasRow'
  BY <1>17 DEF ConnectRead, Start
<1>18. ASSUME NEW c \in Call, ConnectWrite(c) PROVE RestrictionHasRow'
  BY <1>18 DEF ConnectWrite, Goto, At
<1>19. CASE Verify
  BY <1>19 DEF Verify
<1>20. CASE SweepRead
  BY <1>20 DEF SweepRead
<1>21. CASE SweepScan
  BY <1>21 DEF SweepScan
<1>22. CASE SweepWrite
  BY <1>22 DEF SweepWrite
<1>23. CASE EraseRead
  BY <1>23 DEF EraseRead
<1>24. CASE Erase
  BY <1>24 DEF Erase
<1>25. ASSUME NEW s \in open, SuspensionEnds(s) PROVE RestrictionHasRow'
  BY <1>25 DEF TypeOK, Sanctions, SuspensionEnds
<1>26. CASE GraceEnds
  BY <1>26 DEF GraceEnds
<1>27. CASE UNCHANGED vars
  BY <1>27 DEF vars
<1> QED
  BY <1>1, <1>2, <1>3, <1>4, <1>5, <1>6, <1>7, <1>8, <1>9, <1>10, <1>11,
     <1>12, <1>13, <1>14, <1>15, <1>16, <1>17, <1>18, <1>19, <1>20, <1>21,
     <1>22, <1>23, <1>24, <1>25, <1>26, <1>27 DEF Next, Warn, Restricting, Sanctions, ReportRoutes,
     UserRoutes, OwnRequests, Jobs

(* A report is settled together with its entry in the log, and the log only
grows. *)
LEMMA SettleStep ==
    ASSUME TypeOK, SettledReports, [Next]_vars
    PROVE  SettledReports'
<1> USE DEF owner, rows, worker, call
<1>1. ASSUME NEW r \in Report, File(r) PROVE SettledReports'
  BY <1>1 DEF TypeOK, SettledReports, File
<1>2. ASSUME NEW c \in Call, NEW r \in Report, Claim(c, r) PROVE SettledReports'
  BY <1>2 DEF TypeOK, SettledReports, Claim, Start
<1>3. ASSUME NEW c \in Call, NEW r \in Report, ResolveRead(c, r) PROVE SettledReports'
  BY <1>3 DEF SettledReports, ResolveRead, Start
<1>4. ASSUME NEW c \in Call, NEW type \in Sanctions, 
             ResolveCommit(c, type)
      PROVE  SettledReports'
  <2> DEFINE entry == [by |-> c, type |-> type]
  <2>1. entry \in log' /\ log \subseteq log'
    BY <1>4 DEF ResolveCommit, Sanction
  <2>2. target[c] \in Report
    BY <1>4 DEF ResolveCommit, At, TypeOK
  <2>3. /\ report'[target[c]].by = c
        /\ report'[target[c]].status = IF type = "DISMISS" THEN "DISMISSED" ELSE "ACTIONED"
        /\ \A r \in Report : r # target[c] => report'[r] = report[r]
    BY <1>4, <2>2 DEF ResolveCommit, TypeOK
  <2> QED
    BY <2>1, <2>2, <2>3 DEF Sanctions, SettledReports
<1>5. ASSUME NEW c \in Call, NEW type \in Sanctions, DirectCommit(c, type) PROVE SettledReports'
  <2>1. log \subseteq log' /\ report' = report
    BY <1>5 DEF DirectCommit, Sanction
  <2> QED
    BY <2>1 DEF SettledReports
<1>6. ASSUME NEW c \in Call, DirectRead(c) PROVE SettledReports'
  BY <1>6 DEF SettledReports, DirectRead, Start
<1>7. ASSUME NEW c \in Call, Evict(c) PROVE SettledReports'
  BY <1>7 DEF SettledReports, Evict, Goto, At
<1>8. ASSUME NEW c \in Call, ReinstateRead(c) PROVE SettledReports'
  BY <1>8 DEF SettledReports, ReinstateRead, Start
<1>9. ASSUME NEW c \in Call, ReinstateLift(c) PROVE SettledReports'
  BY <1>9 DEF SettledReports, ReinstateLift, Goto, At
<1>10. ASSUME NEW c \in Call, ReinstateCommit(c) PROVE SettledReports'
  <2>1. log \subseteq log' /\ report' = report
    BY <1>10 DEF ReinstateCommit, Sanction
  <2> QED
    BY <2>1 DEF SettledReports
<1>11. ASSUME NEW c \in Call, NEW o \in {"login", "refresh"}, 
             RestrictionRead(c, o)
      PROVE  SettledReports'
  BY <1>11 DEF SettledReports, RestrictionRead, Start
<1>12. ASSUME NEW c \in Call, ReadLatest(c) PROVE SettledReports'
  BY <1>12 DEF SettledReports, ReadLatest, Goto, At
<1>13. ASSUME NEW c \in Call, Restore(c) PROVE SettledReports'
  BY <1>13 DEF SettledReports, Restore, Goto, At
<1>14. ASSUME NEW c \in Call, SignIn(c) PROVE SettledReports'
  BY <1>14 DEF SettledReports, SignIn, Goto, At
<1>15. ASSUME NEW c \in Call, DeleteRead(c) PROVE SettledReports'
  BY <1>15 DEF SettledReports, DeleteRead, Start
<1>16. ASSUME NEW c \in Call, DeleteCommit(c) PROVE SettledReports'
  BY <1>16 DEF SettledReports, DeleteCommit, Goto, At
<1>17. ASSUME NEW c \in Call, ConnectRead(c) PROVE SettledReports'
  BY <1>17 DEF SettledReports, ConnectRead, Start
<1>18. ASSUME NEW c \in Call, ConnectWrite(c) PROVE SettledReports'
  BY <1>18 DEF SettledReports, ConnectWrite, Goto, At
<1>19. CASE Verify
  BY <1>19 DEF SettledReports, Verify
<1>20. CASE SweepRead
  BY <1>20 DEF SettledReports, SweepRead
<1>21. CASE SweepScan
  BY <1>21 DEF SettledReports, SweepScan
<1>22. CASE SweepWrite
  BY <1>22 DEF SettledReports, SweepWrite
<1>23. CASE EraseRead
  BY <1>23 DEF SettledReports, EraseRead
<1>24. CASE Erase
  BY <1>24 DEF SettledReports, Erase
<1>25. ASSUME NEW s \in open, SuspensionEnds(s) PROVE SettledReports'
  BY <1>25 DEF SettledReports, SuspensionEnds
<1>26. CASE GraceEnds
  BY <1>26 DEF SettledReports, GraceEnds
<1>27. CASE UNCHANGED vars
  BY <1>27 DEF vars, SettledReports
<1> QED
  BY <1>1, <1>2, <1>3, <1>4, <1>5, <1>6, <1>7, <1>8, <1>9, <1>10, <1>11,
     <1>12, <1>13, <1>14, <1>15, <1>16, <1>17, <1>18, <1>19, <1>20, <1>21,
     <1>22, <1>23, <1>24, <1>25, <1>26, <1>27 DEF Next, Warn, Restricting, Sanctions, ReportRoutes,
     UserRoutes, OwnRequests, Jobs

(* A report that was claimed is not pending again. *)
LEMMA ClaimStep ==
    ASSUME TypeOK, ClaimInv, [Next]_vars
    PROVE  ClaimInv'
<1> USE DEF owner, rows, worker, call
<1>1. ASSUME NEW r \in Report, File(r) PROVE ClaimInv'
  BY <1>1 DEF ClaimInv, OneClaim, At, TypeOK, File
<1>2. ASSUME NEW c \in Call, NEW r \in Report, Claim(c, r) PROVE ClaimInv'
  <2>1. CASE report[r].status = "PENDING"
    <3>1. \A d \in Call : d # c /\ At(d, {"claim"}, "done")'
                          => At(d, {"claim"}, "done") /\ target'[d] = target[d] /\ target[d] # r
      BY <1>2, <2>1 DEF Claim, Start, At, TypeOK, ClaimInv
    <3>2. target'[c] = r /\ report'[r].status = "UNDER_REVIEW"
      BY <1>2, <2>1 DEF Claim, TypeOK
    <3>3. \A x \in Report : x # r => report'[x] = report[x]
      BY <1>2, <2>1 DEF Claim, TypeOK
    <3> QED
      BY <3>1, <3>2, <3>3 DEF ClaimInv, OneClaim
  <2>2. CASE report[r].status # "PENDING"
    <3>1. report' = report /\ target' = target
          /\ \A d \in Call : At(d, {"claim"}, "done")' => At(d, {"claim"}, "done")
      BY <1>2, <2>2 DEF Claim, Start, At, TypeOK
    <3> QED
      BY <3>1 DEF ClaimInv, OneClaim
  <2> QED
    BY <2>1, <2>2
<1>3. ASSUME NEW c \in Call, NEW r \in Report, ResolveRead(c, r) PROVE ClaimInv'
  <2>1. \A d \in Call : At(d, {"claim"}, "done")' => At(d, {"claim"}, "done") /\ target'[d] = target[d]
    BY <1>3 DEF TypeOK, At, ResolveRead, Start
  <2>2. \A q \in Report : report[q].status \notin {"none", "PENDING"}
                      => report'[q].status \notin {"none", "PENDING"}
    BY <1>3 DEF TypeOK, ResolveRead, Start
  <2> QED
    BY <2>1, <2>2 DEF ClaimInv, OneClaim
<1>4. ASSUME NEW c \in Call, NEW type \in Sanctions, ResolveCommit(c, type) PROVE ClaimInv'
  <2>1. \A d \in Call : At(d, {"claim"}, "done")' => At(d, {"claim"}, "done") /\ target'[d] = target[d]
    BY <1>4 DEF TypeOK, At, Goto, ResolveCommit, Sanction
  <2>2. \A r \in Report : report[r].status \notin {"none", "PENDING"}
                      => report'[r].status \notin {"none", "PENDING"}
    BY <1>4 DEF TypeOK, ResolveCommit, Goto, At, Sanction
  <2> QED
    BY <2>1, <2>2 DEF ClaimInv, OneClaim
<1>5. ASSUME NEW c \in Call, NEW type \in Sanctions, DirectCommit(c, type) PROVE ClaimInv'
  <2>1. \A d \in Call : At(d, {"claim"}, "done")' => At(d, {"claim"}, "done") /\ target'[d] = target[d]
    BY <1>5 DEF TypeOK, At, DirectCommit, Goto, Sanction
  <2>2. \A r \in Report : report[r].status \notin {"none", "PENDING"}
                      => report'[r].status \notin {"none", "PENDING"}
    BY <1>5 DEF TypeOK, DirectCommit, Goto, At, Sanction
  <2> QED
    BY <2>1, <2>2 DEF ClaimInv, OneClaim
<1>6. ASSUME NEW c \in Call, DirectRead(c) PROVE ClaimInv'
  <2>1. \A d \in Call : At(d, {"claim"}, "done")' => At(d, {"claim"}, "done") /\ target'[d] = target[d]
    BY <1>6 DEF TypeOK, At, DirectRead, Start
  <2>2. \A r \in Report : report[r].status \notin {"none", "PENDING"}
                      => report'[r].status \notin {"none", "PENDING"}
    BY <1>6 DEF TypeOK, DirectRead, Start
  <2> QED
    BY <2>1, <2>2 DEF ClaimInv, OneClaim
<1>7. ASSUME NEW c \in Call, Evict(c) PROVE ClaimInv'
  <2>1. \A d \in Call : At(d, {"claim"}, "done")' => At(d, {"claim"}, "done") /\ target'[d] = target[d]
    BY <1>7 DEF TypeOK, At, Evict, Goto
  <2>2. \A r \in Report : report[r].status \notin {"none", "PENDING"}
                      => report'[r].status \notin {"none", "PENDING"}
    BY <1>7 DEF TypeOK, Evict, Goto, At
  <2> QED
    BY <2>1, <2>2 DEF ClaimInv, OneClaim
<1>8. ASSUME NEW c \in Call, ReinstateRead(c) PROVE ClaimInv'
  <2>1. \A d \in Call : At(d, {"claim"}, "done")' => At(d, {"claim"}, "done") /\ target'[d] = target[d]
    BY <1>8 DEF TypeOK, At, ReinstateRead, Start
  <2>2. \A r \in Report : report[r].status \notin {"none", "PENDING"}
                      => report'[r].status \notin {"none", "PENDING"}
    BY <1>8 DEF TypeOK, ReinstateRead, Start
  <2> QED
    BY <2>1, <2>2 DEF ClaimInv, OneClaim
<1>9. ASSUME NEW c \in Call, ReinstateLift(c) PROVE ClaimInv'
  <2>1. \A d \in Call : At(d, {"claim"}, "done")' => At(d, {"claim"}, "done") /\ target'[d] = target[d]
    BY <1>9 DEF TypeOK, At, Goto, ReinstateLift
  <2>2. \A r \in Report : report[r].status \notin {"none", "PENDING"}
                      => report'[r].status \notin {"none", "PENDING"}
    BY <1>9 DEF TypeOK, ReinstateLift, Goto, At
  <2> QED
    BY <2>1, <2>2 DEF ClaimInv, OneClaim
<1>10. ASSUME NEW c \in Call, ReinstateCommit(c) PROVE ClaimInv'
  <2>1. \A d \in Call : At(d, {"claim"}, "done")' => At(d, {"claim"}, "done") /\ target'[d] = target[d]
    BY <1>10 DEF TypeOK, At, Goto, ReinstateCommit
  <2>2. \A r \in Report : report[r].status \notin {"none", "PENDING"}
                      => report'[r].status \notin {"none", "PENDING"}
    BY <1>10 DEF TypeOK, ReinstateCommit, Goto, At
  <2> QED
    BY <2>1, <2>2 DEF ClaimInv, OneClaim
<1>11. ASSUME NEW c \in Call, NEW o \in {"login", "refresh"}, 
             RestrictionRead(c, o)
      PROVE  ClaimInv'
  <2>1. \A d \in Call : At(d, {"claim"}, "done")' => At(d, {"claim"}, "done") /\ target'[d] = target[d]
    BY <1>11 DEF TypeOK, At, RestrictionRead, Start
  <2>2. \A r \in Report : report[r].status \notin {"none", "PENDING"}
                      => report'[r].status \notin {"none", "PENDING"}
    BY <1>11 DEF TypeOK, RestrictionRead, Start
  <2> QED
    BY <2>1, <2>2 DEF ClaimInv, OneClaim
<1>12. ASSUME NEW c \in Call, ReadLatest(c) PROVE ClaimInv'
  <2>1. \A d \in Call : At(d, {"claim"}, "done")' => At(d, {"claim"}, "done") /\ target'[d] = target[d]
    BY <1>12 DEF TypeOK, At, Goto, ReadLatest
  <2>2. \A r \in Report : report[r].status \notin {"none", "PENDING"}
                      => report'[r].status \notin {"none", "PENDING"}
    BY <1>12 DEF TypeOK, ReadLatest, Goto, At
  <2> QED
    BY <2>1, <2>2 DEF ClaimInv, OneClaim
<1>13. ASSUME NEW c \in Call, Restore(c) PROVE ClaimInv'
  <2>1. \A d \in Call : At(d, {"claim"}, "done")' => At(d, {"claim"}, "done") /\ target'[d] = target[d]
    BY <1>13 DEF TypeOK, At, Goto, Restore
  <2>2. \A r \in Report : report[r].status \notin {"none", "PENDING"}
                      => report'[r].status \notin {"none", "PENDING"}
    BY <1>13 DEF TypeOK, Restore, Goto, At
  <2> QED
    BY <2>1, <2>2 DEF ClaimInv, OneClaim
<1>14. ASSUME NEW c \in Call, SignIn(c) PROVE ClaimInv'
  <2>1. \A d \in Call : At(d, {"claim"}, "done")' => At(d, {"claim"}, "done") /\ target'[d] = target[d]
    BY <1>14 DEF TypeOK, At, Goto, SignIn
  <2>2. \A r \in Report : report[r].status \notin {"none", "PENDING"}
                      => report'[r].status \notin {"none", "PENDING"}
    BY <1>14 DEF TypeOK, SignIn, Goto, At
  <2> QED
    BY <2>1, <2>2 DEF ClaimInv, OneClaim
<1>15. ASSUME NEW c \in Call, DeleteRead(c) PROVE ClaimInv'
  <2>1. \A d \in Call : At(d, {"claim"}, "done")' => At(d, {"claim"}, "done") /\ target'[d] = target[d]
    BY <1>15 DEF TypeOK, At, DeleteRead, Start
  <2>2. \A r \in Report : report[r].status \notin {"none", "PENDING"}
                      => report'[r].status \notin {"none", "PENDING"}
    BY <1>15 DEF TypeOK, DeleteRead, Start
  <2> QED
    BY <2>1, <2>2 DEF ClaimInv, OneClaim
<1>16. ASSUME NEW c \in Call, DeleteCommit(c) PROVE ClaimInv'
  <2>1. \A d \in Call : At(d, {"claim"}, "done")' => At(d, {"claim"}, "done") /\ target'[d] = target[d]
    BY <1>16 DEF TypeOK, At, DeleteCommit, Goto
  <2>2. \A r \in Report : report[r].status \notin {"none", "PENDING"}
                      => report'[r].status \notin {"none", "PENDING"}
    BY <1>16 DEF TypeOK, DeleteCommit, Goto, At
  <2> QED
    BY <2>1, <2>2 DEF ClaimInv, OneClaim
<1>17. ASSUME NEW c \in Call, ConnectRead(c) PROVE ClaimInv'
  <2>1. \A d \in Call : At(d, {"claim"}, "done")' => At(d, {"claim"}, "done") /\ target'[d] = target[d]
    BY <1>17 DEF TypeOK, At, ConnectRead, Start
  <2>2. \A r \in Report : report[r].status \notin {"none", "PENDING"}
                      => report'[r].status \notin {"none", "PENDING"}
    BY <1>17 DEF TypeOK, ConnectRead, Start
  <2> QED
    BY <2>1, <2>2 DEF ClaimInv, OneClaim
<1>18. ASSUME NEW c \in Call, ConnectWrite(c) PROVE ClaimInv'
  <2>1. \A d \in Call : At(d, {"claim"}, "done")' => At(d, {"claim"}, "done") /\ target'[d] = target[d]
    BY <1>18 DEF TypeOK, At, ConnectWrite, Goto
  <2>2. \A r \in Report : report[r].status \notin {"none", "PENDING"}
                      => report'[r].status \notin {"none", "PENDING"}
    BY <1>18 DEF TypeOK, ConnectWrite, Goto, At
  <2> QED
    BY <2>1, <2>2 DEF ClaimInv, OneClaim
<1>19. CASE Verify
  BY <1>19 DEF ClaimInv, OneClaim, At, TypeOK, Verify
<1>20. CASE SweepRead
  BY <1>20 DEF ClaimInv, OneClaim, At, TypeOK, SweepRead
<1>21. CASE SweepScan
  BY <1>21 DEF ClaimInv, OneClaim, At, TypeOK, SweepScan
<1>22. CASE SweepWrite
  BY <1>22 DEF ClaimInv, OneClaim, At, TypeOK, SweepWrite
<1>23. CASE EraseRead
  BY <1>23 DEF ClaimInv, OneClaim, At, TypeOK, EraseRead
<1>24. CASE Erase
  BY <1>24 DEF ClaimInv, OneClaim, At, TypeOK, Erase
<1>25. ASSUME NEW s \in open, SuspensionEnds(s) PROVE ClaimInv'
  BY <1>25 DEF ClaimInv, OneClaim, At, TypeOK, SuspensionEnds
<1>26. CASE GraceEnds
  BY <1>26 DEF ClaimInv, OneClaim, At, TypeOK, GraceEnds
<1>27. CASE UNCHANGED vars
  BY <1>27 DEF vars, ClaimInv, OneClaim, At
<1> QED
  BY <1>1, <1>2, <1>3, <1>4, <1>5, <1>6, <1>7, <1>8, <1>9, <1>10, <1>11,
     <1>12, <1>13, <1>14, <1>15, <1>16, <1>17, <1>18, <1>19, <1>20, <1>21,
     <1>22, <1>23, <1>24, <1>25, <1>26, <1>27 DEF Next, Warn, Restricting, Sanctions, ReportRoutes,
     UserRoutes, OwnRequests, Jobs

(* The keys of a restricted account are a restriction's to delete, or a late
connection's. *)
LEMMA EvictStep ==
    ASSUME TypeOK, RestrictedIsEvicted, [Next]_vars
    PROVE  RestrictedIsEvicted'
<1> USE DEF owner, rows, worker, call
<1>1. ASSUME NEW r \in Report, File(r) PROVE RestrictedIsEvicted'
  BY <1>1 DEF RestrictedIsEvicted, Restricted, At, TypeOK, File
<1>2. ASSUME NEW c \in Call, NEW r \in Report, Claim(c, r) PROVE RestrictedIsEvicted'
  <2>1. (status' \in Restricted => status \in Restricted) /\ present' = present /\ late' = late
    BY <1>2 DEF Claim
  <2>2. \A d \in Call : \A label \in {"evict", "unevicted"} :
          At(d, {"resolve", "direct"}, label) => At(d, {"resolve", "direct"}, label)'
    BY <1>2 DEF TypeOK, At, Claim, Start
  <2> QED
    BY <2>1, <2>2 DEF RestrictedIsEvicted
<1>3. ASSUME NEW c \in Call, NEW r \in Report, ResolveRead(c, r) PROVE RestrictedIsEvicted'
  <2>1. (status' \in Restricted => status \in Restricted) /\ present' = present /\ late' = late
    BY <1>3 DEF ResolveRead
  <2>2. \A d \in Call : \A label \in {"evict", "unevicted"} :
          At(d, {"resolve", "direct"}, label) => At(d, {"resolve", "direct"}, label)'
    BY <1>3 DEF TypeOK, At, ResolveRead, Start
  <2> QED
    BY <2>1, <2>2 DEF RestrictedIsEvicted
<1>4. ASSUME NEW c \in Call, NEW type \in Sanctions, 
             ResolveCommit(c, type)
      PROVE  RestrictedIsEvicted'
  <2>1. CASE type \in Restricting
    BY <1>4, <2>1 DEF RestrictedIsEvicted, TypeOK, ResolveCommit, Goto, At, Sanction
  <2>2. CASE type \notin Restricting
    <3>1. status' = status /\ present' = present /\ late' = late
      BY <1>4, <2>2 DEF Restricting, Sanctions, ResolveCommit, Sanction
    <3>2. \A d \in Call : \A label \in {"evict", "unevicted"} :
            At(d, {"resolve", "direct"}, label) => At(d, {"resolve", "direct"}, label)'
      BY <1>4 DEF TypeOK, ResolveCommit, Goto, At, Sanction
    <3> QED
      BY <3>1, <3>2 DEF RestrictedIsEvicted
  <2> QED
    BY <2>1, <2>2
<1>5. ASSUME NEW c \in Call, NEW type \in Sanctions, 
             DirectCommit(c, type)
      PROVE  RestrictedIsEvicted'
  <2>1. CASE type \in Restricting
    BY <1>5, <2>1 DEF RestrictedIsEvicted, TypeOK, DirectCommit, Goto, At, Sanction
  <2>2. CASE type \notin Restricting
    <3>1. status' = status /\ present' = present /\ late' = late
      BY <1>5, <2>2 DEF Restricting, Sanctions, DirectCommit, Sanction
    <3>2. \A d \in Call : \A label \in {"evict", "unevicted"} :
            At(d, {"resolve", "direct"}, label) => At(d, {"resolve", "direct"}, label)'
      BY <1>5 DEF TypeOK, DirectCommit, Goto, At, Sanction
    <3> QED
      BY <3>1, <3>2 DEF RestrictedIsEvicted
  <2> QED
    BY <2>1, <2>2
<1>6. ASSUME NEW c \in Call, DirectRead(c) PROVE RestrictedIsEvicted'
  <2>1. (status' \in Restricted => status \in Restricted) /\ present' = present /\ late' = late
    BY <1>6 DEF DirectRead
  <2>2. \A d \in Call : \A label \in {"evict", "unevicted"} :
          At(d, {"resolve", "direct"}, label) => At(d, {"resolve", "direct"}, label)'
    BY <1>6 DEF TypeOK, At, DirectRead, Start
  <2> QED
    BY <2>1, <2>2 DEF RestrictedIsEvicted
<1>7. ASSUME NEW c \in Call, Evict(c) PROVE RestrictedIsEvicted'
  <2>1. CASE present' = FALSE
    BY <2>1 DEF RestrictedIsEvicted
  <2>2. CASE Goto(c, "unevicted")
    BY <1>7, <2>2 DEF RestrictedIsEvicted, TypeOK, Evict, Goto, At
  <2> QED
    BY <1>7, <2>1, <2>2 DEF Evict
<1>8. ASSUME NEW c \in Call, ReinstateRead(c) PROVE RestrictedIsEvicted'
  <2>1. (status' \in Restricted => status \in Restricted) /\ present' = present /\ late' = late
    BY <1>8 DEF ReinstateRead
  <2>2. \A d \in Call : \A label \in {"evict", "unevicted"} :
          At(d, {"resolve", "direct"}, label) => At(d, {"resolve", "direct"}, label)'
    BY <1>8 DEF TypeOK, At, ReinstateRead, Start
  <2> QED
    BY <2>1, <2>2 DEF RestrictedIsEvicted
<1>9. ASSUME NEW c \in Call, ReinstateLift(c) PROVE RestrictedIsEvicted'
  <2>1. (status' \in Restricted => status \in Restricted) /\ present' = present /\ late' = late
    BY <1>9 DEF ReinstateLift
  <2>2. \A d \in Call : \A label \in {"evict", "unevicted"} :
          At(d, {"resolve", "direct"}, label) => At(d, {"resolve", "direct"}, label)'
    BY <1>9 DEF TypeOK, At, Goto, ReinstateLift
  <2> QED
    BY <2>1, <2>2 DEF RestrictedIsEvicted
<1>10. ASSUME NEW c \in Call, ReinstateCommit(c) PROVE RestrictedIsEvicted'
  <2>1. (status' \in Restricted => status \in Restricted) /\ present' = present /\ late' = late
    BY <1>10 DEF Restricted, ReinstateCommit
  <2>2. \A d \in Call : \A label \in {"evict", "unevicted"} :
          At(d, {"resolve", "direct"}, label) => At(d, {"resolve", "direct"}, label)'
    BY <1>10 DEF TypeOK, At, Goto, ReinstateCommit
  <2> QED
    BY <2>1, <2>2 DEF RestrictedIsEvicted
<1>11. ASSUME NEW c \in Call, NEW o \in {"login", "refresh"}, 
             RestrictionRead(c, o)
      PROVE  RestrictedIsEvicted'
  <2>1. (status' \in Restricted => status \in Restricted) /\ present' = present /\ late' = late
    BY <1>11 DEF RestrictionRead
  <2>2. \A d \in Call : \A label \in {"evict", "unevicted"} :
          At(d, {"resolve", "direct"}, label) => At(d, {"resolve", "direct"}, label)'
    BY <1>11 DEF TypeOK, At, RestrictionRead, Start
  <2> QED
    BY <2>1, <2>2 DEF RestrictedIsEvicted
<1>12. ASSUME NEW c \in Call, ReadLatest(c) PROVE RestrictedIsEvicted'
  <2>1. (status' \in Restricted => status \in Restricted) /\ present' = present /\ late' = late
    BY <1>12 DEF ReadLatest
  <2>2. \A d \in Call : \A label \in {"evict", "unevicted"} :
          At(d, {"resolve", "direct"}, label) => At(d, {"resolve", "direct"}, label)'
    BY <1>12 DEF TypeOK, At, Goto, ReadLatest
  <2> QED
    BY <2>1, <2>2 DEF RestrictedIsEvicted
<1>13. ASSUME NEW c \in Call, Restore(c) PROVE RestrictedIsEvicted'
  <2>1. (status' \in Restricted => status \in Restricted) /\ present' = present /\ late' = late
    BY <1>13 DEF Restricted, Restore
  <2>2. \A d \in Call : \A label \in {"evict", "unevicted"} :
          At(d, {"resolve", "direct"}, label) => At(d, {"resolve", "direct"}, label)'
    BY <1>13 DEF TypeOK, At, Goto, Restore
  <2> QED
    BY <2>1, <2>2 DEF RestrictedIsEvicted
<1>14. ASSUME NEW c \in Call, SignIn(c) PROVE RestrictedIsEvicted'
  <2>1. (status' \in Restricted => status \in Restricted) /\ present' = present /\ late' = late
    BY <1>14 DEF SignIn
  <2>2. \A d \in Call : \A label \in {"evict", "unevicted"} :
          At(d, {"resolve", "direct"}, label) => At(d, {"resolve", "direct"}, label)'
    BY <1>14 DEF TypeOK, At, Goto, SignIn
  <2> QED
    BY <2>1, <2>2 DEF RestrictedIsEvicted
<1>15. ASSUME NEW c \in Call, DeleteRead(c) PROVE RestrictedIsEvicted'
  <2>1. (status' \in Restricted => status \in Restricted) /\ present' = present /\ late' = late
    BY <1>15 DEF DeleteRead
  <2>2. \A d \in Call : \A label \in {"evict", "unevicted"} :
          At(d, {"resolve", "direct"}, label) => At(d, {"resolve", "direct"}, label)'
    BY <1>15 DEF TypeOK, At, DeleteRead, Start
  <2> QED
    BY <2>1, <2>2 DEF RestrictedIsEvicted
<1>16. ASSUME NEW c \in Call, DeleteCommit(c) PROVE RestrictedIsEvicted'
  <2>1. (status' \in Restricted => status \in Restricted) /\ present' = present /\ late' = late
    BY <1>16 DEF Restricted, DeleteCommit
  <2>2. \A d \in Call : \A label \in {"evict", "unevicted"} :
          At(d, {"resolve", "direct"}, label) => At(d, {"resolve", "direct"}, label)'
    BY <1>16 DEF TypeOK, At, DeleteCommit, Goto
  <2> QED
    BY <2>1, <2>2 DEF RestrictedIsEvicted
<1>17. ASSUME NEW c \in Call, ConnectRead(c) PROVE RestrictedIsEvicted'
  <2>1. (status' \in Restricted => status \in Restricted) /\ present' = present /\ late' = late
    BY <1>17 DEF ConnectRead
  <2>2. \A d \in Call : \A label \in {"evict", "unevicted"} :
          At(d, {"resolve", "direct"}, label) => At(d, {"resolve", "direct"}, label)'
    BY <1>17 DEF TypeOK, At, ConnectRead, Start
  <2> QED
    BY <2>1, <2>2 DEF RestrictedIsEvicted
<1>18. ASSUME NEW c \in Call, ConnectWrite(c) PROVE RestrictedIsEvicted'
  <2>1. CASE status \in Restricted
    BY <1>18, <2>1 DEF RestrictedIsEvicted, TypeOK, ConnectWrite
  <2>2. CASE status \notin Restricted
    BY <1>18, <2>2 DEF RestrictedIsEvicted, ConnectWrite
  <2> QED
    BY <2>1, <2>2
<1>19. CASE Verify
  BY <1>19 DEF RestrictedIsEvicted, Restricted, At, TypeOK, Verify
<1>20. CASE SweepRead
  BY <1>20 DEF RestrictedIsEvicted, Restricted, At, TypeOK, SweepRead
<1>21. CASE SweepScan
  BY <1>21 DEF RestrictedIsEvicted, Restricted, At, TypeOK, SweepScan
<1>22. CASE SweepWrite
  BY <1>22 DEF RestrictedIsEvicted, Restricted, At, TypeOK, SweepWrite
<1>23. CASE EraseRead
  BY <1>23 DEF RestrictedIsEvicted, Restricted, At, TypeOK, EraseRead
<1>24. CASE Erase
  BY <1>24 DEF RestrictedIsEvicted, Restricted, At, TypeOK, Erase
<1>25. ASSUME NEW s \in open, SuspensionEnds(s) PROVE RestrictedIsEvicted'
  BY <1>25 DEF RestrictedIsEvicted, Restricted, At, TypeOK, SuspensionEnds
<1>26. CASE GraceEnds
  BY <1>26 DEF RestrictedIsEvicted, Restricted, At, TypeOK, GraceEnds
<1>27. CASE UNCHANGED vars
  BY <1>27 DEF vars, RestrictedIsEvicted, At
<1> QED
  BY <1>1, <1>2, <1>3, <1>4, <1>5, <1>6, <1>7, <1>8, <1>9, <1>10, <1>11,
     <1>12, <1>13, <1>14, <1>15, <1>16, <1>17, <1>18, <1>19, <1>20, <1>21,
     <1>22, <1>23, <1>24, <1>25, <1>26, <1>27 DEF Next, Warn, Restricting, Sanctions, ReportRoutes,
     UserRoutes, OwnRequests, Jobs

LEMMA NextInv == StandingInv /\ [Next]_vars => StandingInv'
BY TypeStep, RowStep, SettleStep, ClaimStep, EvictStep DEF StandingInv

LEMMA Invariance == Spec => []StandingInv
<1>1. Init => StandingInv
  BY InitInv
<1>2. StandingInv /\ [Next]_vars => StandingInv'
  BY NextInv
<1> QED
  BY <1>1, <1>2, PTL DEF Spec
--------------------------------------------------------------------------------

(* The account, its rows and its calls keep their types (schema.prisma). *)
THEOREM StandingTypes == Spec => []TypeOK
<1>1. StandingInv => TypeOK
  BY DEF StandingInv, ClaimInv
<1> QED
  BY Invariance, <1>1, PTL

(* A banned account has an open ban and a suspended one a suspension,
   whatever sanctions and reinstatements overlap (reinstate, resolve). *)
THEOREM RestrictionHasRowHolds == Spec => []RestrictionHasRow
<1>1. StandingInv => RestrictionHasRow
  BY DEF StandingInv, ClaimInv
<1> QED
  BY Invariance, <1>1, PTL

(* A settled report has the sanction or the dismissal it names, from
   whoever settled it (resolve). *)
THEOREM SettledReportsHold == Spec => []SettledReports
<1>1. StandingInv => SettledReports
  BY DEF StandingInv, ClaimInv
<1> QED
  BY Invariance, <1>1, PTL

(* A report is claimed by one moderator (claim). *)
THEOREM OneClaimHolds == Spec => []OneClaim
<1>1. StandingInv => OneClaim
  BY DEF StandingInv, ClaimInv
<1> QED
  BY Invariance, <1>1, PTL

(* A restricted account holds a Redis key only before its eviction, after
   a failed one, or by a connection that had passed its checks (resolve). *)
THEOREM EvictionHolds == Spec => []RestrictedIsEvicted
<1>1. StandingInv => RestrictedIsEvicted
  BY DEF StandingInv, ClaimInv
<1> QED
  BY Invariance, <1>1, PTL

(* What may turn BANNED into ACTIVE. *)
BanStep == status = "BANNED" /\ status' = "ACTIVE" =>
    \E c \in Call : \/ At(c, {"reinstate"}, "commit")
                    \/ At(c, {"login", "refresh"}, "restore")

(* No other step does. *)
LEMMA BanLemma ==
    ASSUME TypeOK, [Next]_vars
    PROVE  BanStep
<1> USE DEF BanStep, owner, rows, worker, call
<1>1. ASSUME NEW r \in Report, File(r) PROVE BanStep
  BY <1>1 DEF File
<1>2. ASSUME NEW c \in Call, NEW r \in Report, Claim(c, r) PROVE BanStep
  BY <1>2 DEF Claim, Start
<1>3. ASSUME NEW c \in Call, NEW r \in Report, ResolveRead(c, r) PROVE BanStep
  BY <1>3 DEF ResolveRead, Start
<1>4. ASSUME NEW c \in Call, NEW type \in Sanctions, ResolveCommit(c, type) PROVE BanStep
  BY <1>4 DEF Sanctions, ResolveCommit, Goto, At, Sanction
<1>5. ASSUME NEW c \in Call, NEW type \in Sanctions, DirectCommit(c, type) PROVE BanStep
  BY <1>5 DEF Sanctions, DirectCommit, Goto, At, Sanction
<1>6. ASSUME NEW c \in Call, DirectRead(c) PROVE BanStep
  BY <1>6 DEF DirectRead, Start
<1>7. ASSUME NEW c \in Call, Evict(c) PROVE BanStep
  BY <1>7 DEF Evict, Goto, At
<1>8. ASSUME NEW c \in Call, ReinstateRead(c) PROVE BanStep
  BY <1>8 DEF ReinstateRead, Start
<1>9. ASSUME NEW c \in Call, ReinstateLift(c) PROVE BanStep
  BY <1>9 DEF ReinstateLift, Goto, At
<1>10. ASSUME NEW c \in Call, ReinstateCommit(c) PROVE BanStep
  BY <1>10 DEF At, ReinstateCommit, Goto, At
<1>11. ASSUME NEW c \in Call, NEW o \in {"login", "refresh"}, 
             RestrictionRead(c, o)
      PROVE  BanStep
  BY <1>11 DEF RestrictionRead, Start
<1>12. ASSUME NEW c \in Call, ReadLatest(c) PROVE BanStep
  BY <1>12 DEF ReadLatest, Goto, At
<1>13. ASSUME NEW c \in Call, Restore(c) PROVE BanStep
  BY <1>13 DEF At, Restore, Goto, At
<1>14. ASSUME NEW c \in Call, SignIn(c) PROVE BanStep
  BY <1>14 DEF SignIn, Goto, At
<1>15. ASSUME NEW c \in Call, DeleteRead(c) PROVE BanStep
  BY <1>15 DEF DeleteRead, Start
<1>16. ASSUME NEW c \in Call, DeleteCommit(c) PROVE BanStep
  BY <1>16 DEF DeleteCommit, Goto, At
<1>17. ASSUME NEW c \in Call, ConnectRead(c) PROVE BanStep
  BY <1>17 DEF ConnectRead, Start
<1>18. ASSUME NEW c \in Call, ConnectWrite(c) PROVE BanStep
  BY <1>18 DEF ConnectWrite, Goto, At
<1>19. CASE Verify
  BY <1>19 DEF Verify
<1>20. CASE SweepRead
  BY <1>20 DEF SweepRead
<1>21. CASE SweepScan
  BY <1>21 DEF SweepScan
<1>22. CASE SweepWrite
  BY <1>22 DEF SweepWrite
<1>23. CASE EraseRead
  BY <1>23 DEF EraseRead
<1>24. CASE Erase
  BY <1>24 DEF Erase
<1>25. ASSUME NEW s \in open, SuspensionEnds(s) PROVE BanStep
  BY <1>25 DEF SuspensionEnds
<1>26. CASE GraceEnds
  BY <1>26 DEF GraceEnds
<1>27. CASE UNCHANGED vars
  BY <1>27 DEF vars
<1> QED
  BY <1>1, <1>2, <1>3, <1>4, <1>5, <1>6, <1>7, <1>8, <1>9, <1>10, <1>11,
     <1>12, <1>13, <1>14, <1>15, <1>16, <1>17, <1>18, <1>19, <1>20, <1>21,
     <1>22, <1>23, <1>24, <1>25, <1>26, <1>27 DEF Next, Warn, Restricting, Sanctions, ReportRoutes,
     UserRoutes, OwnRequests, Jobs

(* A ban is undone by a reinstatement, or by a sign-in or a refresh that had
   found an expired suspension, and by nothing else: not by the worker's
   sweep, not by the verification link (expireSuspensions, verifyEmail). *)
THEOREM BanStandsHolds == Spec => BanStands
<1>1. StandingInv /\ [Next]_vars => [BanStep]_vars
  BY BanLemma DEF StandingInv
<1> QED
  BY Invariance, <1>1, PTL DEF Spec, BanStands, BanStep
================================================================================
