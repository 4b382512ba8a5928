-------------------------------- MODULE Standing --------------------------------
(***************************************************************************)
(* The standing of one account: verification, reports against it,          *)
(* sanctions and their end, the deletion its owner asks for, the keys that *)
(* keep it in Redis.  Moderators, the owner, the realtime server and the   *)
(* worker act at once, each reading before it writes.                      *)
(*                                                                         *)
(* A Call is one request; a Ban row, a SUSPENSION row and an entry of the  *)
(* moderation log are named after the call that wrote them, and each       *)
(* moderator makes one call.  A transaction is the step of its commit.     *)
(* The code creates permanent bans only, so the expiry of bans is dead.    *)
(***************************************************************************)
EXTENDS Naturals, FiniteSets

CONSTANTS Call, Report, None

ASSUME NoneAssumption == None \notin Call

Statuses    == {"PENDING_VERIFICATION", "ACTIVE", "SUSPENDED", "BANNED", "DEACTIVATED"}
Restricted  == {"SUSPENDED", "BANNED"}
Sanctions   == {"DISMISS", "WARN", "SUSPEND", "BAN"}
Restricting == {"SUSPEND", "BAN"}
Operations  == {"resolve", "claim", "direct", "reinstate", "login", "refresh",
                "delete", "connect"}

VARIABLES
    status, verified,   \* User.status, User.emailVerified
    requested,          \* User.deletionRequestedAt: "none", "pending" or "due"
    erased,             \* the User row is gone
    bans,               \* Ban rows that are not lifted
    latest,             \* the newest SUSPENSION row
    open,               \* SUSPENSION rows that have not expired
    log,                \* ModerationAction rows
    report,             \* Report rows
    present,            \* presence, occupancy or queue keys in Redis
    sweep, erasing,     \* the worker's two jobs
    pc, op,             \* where each call is, and which operation it runs
    target, lifting, late  \* what each call read: report, bans; a late connect

owner  == <<verified, requested, erased>>
rows   == <<bans, latest, open, log>>
worker == <<sweep, erasing>>
call   == <<pc, op, target, lifting, late>>
vars   == <<status, owner, rows, report, present, worker, call>>

(* A registered account, verified on the spot where the settings ask no    *)
(* verification.                                                           *)
Init ==
    /\ verified \in BOOLEAN
    /\ status = IF verified THEN "ACTIVE" ELSE "PENDING_VERIFICATION"
    /\ requested = "none" /\ erased = FALSE
    /\ bans = {} /\ latest = None /\ open = {} /\ log = {}
    /\ report = [r \in Report |-> [status |-> "none", by |-> None]]
    /\ present = FALSE
    /\ sweep = "idle" /\ erasing = FALSE
    /\ pc = [c \in Call |-> "idle"] /\ op = [c \in Call |-> "login"]
    /\ target = [c \in Call |-> None] /\ lifting = [c \in Call |-> {}]
    /\ late = [c \in Call |-> FALSE]

--------------------------------------------------------------------------------
At(c, ops, label) == op[c] \in ops /\ pc[c] = label

Goto(c, label) == pc' = [pc EXCEPT ![c] = label] /\ UNCHANGED op

Start(c, o, label) ==
    /\ pc[c] = "idle"
    /\ op' = [op EXCEPT ![c] = o]
    /\ pc' = [pc EXCEPT ![c] = label]

(* authenticate and revalidateSocket accept the account. *)
Usable == status \in {"PENDING_VERIFICATION", "ACTIVE"}

--------------------------------------------------------------------------------
(* Reports *)

File(r) ==
    /\ report[r].status = "none"
    /\ report' = [report EXCEPT ![r].status = "PENDING"]
    /\ UNCHANGED <<status, owner, rows, present, worker, call>>

(* One conditional update. *)
Claim(c, r) ==
    /\ report[r].status # "none"
    /\ IF report[r].status = "PENDING"
       THEN /\ Start(c, "claim", "done")
            /\ report' = [report EXCEPT ![r] = [status |-> "UNDER_REVIEW", by |-> c]]
            /\ target' = [target EXCEPT ![c] = r]
       ELSE Start(c, "claim", "failed") /\ UNCHANGED <<report, target>>
    /\ UNCHANGED <<status, owner, rows, present, worker, lifting, late>>

(* The target is an ordinary account and not the moderator's own. *)
Actionable == ~erased

ResolveRead(c, r) ==
    /\ report[r].status \in {"PENDING", "UNDER_REVIEW"}
    /\ Actionable
    /\ Start(c, "resolve", "commit")
    /\ target' = [target EXCEPT ![c] = r]
    /\ UNCHANGED <<status, owner, rows, report, present, worker, lifting, late>>

(* The rows of a sanction and the account's new status. *)
Sanction(c, type) ==
    /\ log' = log \cup {[by |-> c, type |-> type]}
    /\ CASE type = "SUSPEND" -> /\ status' = "SUSPENDED"
                                /\ latest' = c
                                /\ open' = open \cup {c}
                                /\ UNCHANGED bans
         [] type = "BAN" -> /\ status' = "BANNED"
                            /\ bans' = bans \cup {c}
                            /\ UNCHANGED <<latest, open>>
         [] OTHER -> UNCHANGED <<status, bans, latest, open>>
    /\ Goto(c, IF type \in Restricting THEN "evict" ELSE "done")

(* MUTANT of ResolveCommit: the report is settled in a transaction of its  *)
(* own, and the sanction may fail.                                         *)
ResolveCommitHalf(c, type) ==
    /\ At(c, {"resolve"}, "commit") /\ ~erased
    /\ report' = [report EXCEPT ![target[c]] =
                    [status |-> IF type = "DISMISS" THEN "DISMISSED" ELSE "ACTIONED",
                     by |-> c]]
    /\ Sanction(c, type) \/ (Goto(c, "failed") /\ UNCHANGED <<status, rows>>)
    /\ UNCHANGED <<owner, present, worker, target, lifting, late>>

(* One transaction, whatever has become of the report since it was read.   *)
ResolveCommit(c, type) ==
    /\ At(c, {"resolve"}, "commit") /\ ~erased
    /\ report' = [report EXCEPT ![target[c]] =
                    [status |-> IF type = "DISMISS" THEN "DISMISSED" ELSE "ACTIONED",
                     by |-> c]]
    /\ Sanction(c, type)
    /\ UNCHANGED <<owner, present, worker, target, lifting, late>>

--------------------------------------------------------------------------------
(* Direct sanctions and reinstatement *)

DirectRead(c) ==
    /\ Actionable
    /\ Start(c, "direct", "commit")
    /\ UNCHANGED <<status, owner, rows, report, present, worker, target, lifting, late>>

DirectCommit(c, type) ==
    /\ At(c, {"direct"}, "commit") /\ ~erased
    /\ Sanction(c, type)
    /\ UNCHANGED <<owner, report, present, worker, target, lifting, late>>

(* A warning is a row of the log. *)
Warn(c) == DirectCommit(c, "WARN")

(* MUTANT of Evict: a restriction leaves the Redis keys alone. *)
EvictNot(c) ==
    /\ At(c, {"resolve", "direct"}, "evict")
    /\ Goto(c, "done")
    /\ UNCHANGED <<status, owner, rows, report, present, worker, target, lifting, late>>

(* After the commit; a failure is logged and nothing repeats it. *)
Evict(c) ==
    /\ At(c, {"resolve", "direct"}, "evict")
    /\ \/ Goto(c, "done") /\ present' = FALSE
       \/ Goto(c, "unevicted") /\ UNCHANGED present
    /\ UNCHANGED <<status, owner, rows, report, worker, target, lifting, late>>

ReinstateRead(c) ==
    /\ status \in Restricted /\ ~erased
    /\ Start(c, "reinstate", "lift")
    /\ UNCHANGED <<status, owner, rows, report, present, worker, target, lifting, late>>

(* The transaction's first statement finds the bans open at its moment. *)
ReinstateLift(c) ==
    /\ At(c, {"reinstate"}, "lift") /\ ~erased
    /\ lifting' = [lifting EXCEPT ![c] = bans]
    /\ Goto(c, "commit")
    /\ UNCHANGED <<status, owner, rows, report, present, worker, target, late>>

(* The others see the status of theirs. *)
ReinstateCommit(c) ==
    /\ At(c, {"reinstate"}, "commit") /\ ~erased
    /\ bans' = bans \ lifting[c]
    /\ status' = IF status \in Restricted THEN "ACTIVE" ELSE status
    /\ log' = log \cup {[by |-> c, type |-> "UNBAN"]}
    /\ Goto(c, "done")
    /\ UNCHANGED <<owner, latest, open, report, present, worker, target, lifting, late>>

--------------------------------------------------------------------------------
(* The owner: verification, sign-in, deletion; and the realtime server *)

(* The link's token is read, then one transaction. *)
Verify ==
    /\ ~verified /\ ~erased
    /\ verified' = TRUE
    /\ status' = IF status = "PENDING_VERIFICATION" THEN "ACTIVE" ELSE status
    /\ UNCHANGED <<requested, erased, rows, report, present, worker, call>>

(* getActiveRestriction: the status, *)
RestrictionRead(c, o) ==
    /\ ~erased
    /\ Start(c, o, CASE status = "BANNED" -> "failed"
                     [] status = "SUSPENDED" -> "latest"
                     [] OTHER -> "signin")
    /\ UNCHANGED <<status, owner, rows, report, present, worker, target, lifting, late>>

(* then the newest suspension, *)
ReadLatest(c) ==
    /\ At(c, {"login", "refresh"}, "latest")
    /\ Goto(c, IF latest # None /\ latest \notin open THEN "restore" ELSE "failed")
    /\ UNCHANGED <<status, owner, rows, report, present, worker, target, lifting, late>>

(* then, if that has expired, an update by id alone. *)
Restore(c) ==
    /\ At(c, {"login", "refresh"}, "restore") /\ ~erased
    /\ status' = "ACTIVE"
    /\ Goto(c, "signin")
    /\ UNCHANGED <<owner, rows, report, present, worker, target, lifting, late>>

(* A sign-in cancels the deletion; the status stays what it is. *)
SignIn(c) ==
    /\ At(c, {"login", "refresh"}, "signin") /\ ~erased
    /\ requested' = IF op[c] = "login" THEN "none" ELSE requested
    /\ Goto(c, "done")
    /\ UNCHANGED <<status, verified, erased, rows, report, present, worker, target, lifting, late>>

DeleteRead(c) ==
    /\ Usable /\ ~erased
    /\ Start(c, "delete", "commit")
    /\ UNCHANGED <<status, owner, rows, report, present, worker, target, lifting, late>>

(* By id alone. *)
DeleteCommit(c) ==
    /\ At(c, {"delete"}, "commit") /\ ~erased
    /\ status' = "DEACTIVATED"
    /\ requested' = "pending"
    /\ Goto(c, "done")
    /\ UNCHANGED <<verified, erased, rows, report, present, worker, target, lifting, late>>

(* A handshake or queue:join: the account is read, then keys are written. *)
ConnectRead(c) ==
    /\ Usable /\ ~erased
    /\ Start(c, "connect", "write")
    /\ UNCHANGED <<status, owner, rows, report, present, worker, target, lifting, late>>

ConnectWrite(c) ==
    /\ At(c, {"connect"}, "write")
    /\ present' = TRUE
    /\ late' = [late EXCEPT ![c] = status \in Restricted]
    /\ Goto(c, "done")
    /\ UNCHANGED <<status, owner, rows, report, worker, target, lifting>>

--------------------------------------------------------------------------------
(* The worker, which runs one job at a time, and time *)

SweepRead ==
    /\ sweep = "idle" /\ ~erasing
    /\ status = "SUSPENDED" /\ ~erased
    /\ sweep' = "scan"
    /\ UNCHANGED <<status, owner, rows, report, present, erasing, call>>

(* MUTANT of SweepScan: a suspension keeps the account even when expired. *)
SweepScanAny ==
    /\ sweep = "scan"
    /\ sweep' = IF latest = None THEN "write" ELSE "idle"
    /\ UNCHANGED <<status, owner, rows, report, present, erasing, call>>

SweepScan ==
    /\ sweep = "scan"
    /\ sweep' = IF open = {} THEN "write" ELSE "idle"
    /\ UNCHANGED <<status, owner, rows, report, present, erasing, call>>

(* MUTANT of SweepWrite: the update names the account alone. *)
SweepWriteById ==
    /\ sweep = "write"
    /\ status' = "ACTIVE"
    /\ sweep' = "idle"
    /\ UNCHANGED <<owner, rows, report, present, erasing, call>>

SweepWrite ==
    /\ sweep = "write"
    /\ status' = IF status = "SUSPENDED" THEN "ACTIVE" ELSE status
    /\ sweep' = "idle"
    /\ UNCHANGED <<owner, rows, report, present, erasing, call>>

EraseRead ==
    /\ sweep = "idle" /\ ~erasing
    /\ requested = "due" /\ ~erased
    /\ erasing' = TRUE
    /\ UNCHANGED <<status, owner, rows, report, present, sweep, call>>

(* By id alone; a failure leaves the account to the next run. *)
Erase ==
    /\ erasing
    /\ erasing' = FALSE
    /\ erased' = TRUE \/ UNCHANGED erased
    /\ UNCHANGED <<status, verified, requested, rows, report, present, sweep, call>>

SuspensionEnds(s) ==
    /\ open' = open \ {s}
    /\ UNCHANGED <<status, owner, bans, latest, log, report, present, worker, call>>

GraceEnds ==
    /\ requested = "pending"
    /\ requested' = "due"
    /\ UNCHANGED <<status, verified, erased, rows, report, present, worker, call>>

--------------------------------------------------------------------------------
ReportRoutes(c) ==
    \/ \E r \in Report : Claim(c, r) \/ ResolveRead(c, r)
    \/ \E type \in Sanctions : ResolveCommit(c, type)

UserRoutes(c) ==
    \/ DirectRead(c) \/ Warn(c) \/ \E type \in Restricting : DirectCommit(c, type)
    \/ Evict(c)
    \/ ReinstateRead(c) \/ ReinstateLift(c) \/ ReinstateCommit(c)

OwnRequests(c) ==
    \/ \E o \in {"login", "refresh"} : RestrictionRead(c, o)
    \/ ReadLatest(c) \/ Restore(c) \/ SignIn(c)
    \/ DeleteRead(c) \/ DeleteCommit(c) \/ ConnectRead(c) \/ ConnectWrite(c)

Jobs == SweepRead \/ SweepScan \/ SweepWrite \/ EraseRead \/ Erase

Next ==
    \/ \E r \in Report : File(r)
    \/ \E c \in Call : ReportRoutes(c) \/ UserRoutes(c) \/ OwnRequests(c)
    \/ Verify
    \/ Jobs
    \/ \E s \in open : SuspensionEnds(s)
    \/ GraceEnds

(* A job the schedule has queued runs as soon as the worker is free, even  *)
(* if another keeps coming back; and suspensions run out.                  *)
Fairness ==
    /\ SF_vars(SweepRead)
    /\ WF_vars(SweepScan) /\ WF_vars(SweepWrite) /\ WF_vars(Erase)
    /\ WF_vars(\E s \in open : SuspensionEnds(s))

Spec == Init /\ [][Next]_vars
FairSpec == Spec /\ Fairness

--------------------------------------------------------------------------------
(* Properties *)

(* Types of the account, its rows and the calls (schema.prisma). *)
TypeOK ==
    /\ status \in Statuses /\ verified \in BOOLEAN
    /\ requested \in {"none", "pending", "due"} /\ erased \in BOOLEAN
    /\ bans \subseteq Call /\ latest \in Call \cup {None} /\ open \subseteq Call
    /\ log \subseteq [by : Call, type : Sanctions \cup {"UNBAN"}]
    /\ report \in [Report -> [status : {"none", "PENDING", "UNDER_REVIEW", "ACTIONED",
                                        "DISMISSED"},
                              by : Call \cup {None}]]
    /\ present \in BOOLEAN /\ sweep \in {"idle", "scan", "write"} /\ erasing \in BOOLEAN
    /\ pc \in [Call -> {"idle", "commit", "evict", "unevicted", "lift", "latest", "restore",
                        "signin", "write", "done", "failed"}]
    /\ op \in [Call -> Operations]
    /\ target \in [Call -> Report \cup {None}]
    /\ \A c \in Call : op[c] = "resolve" /\ pc[c] # "idle" => target[c] \in Report
    /\ lifting \in [Call -> SUBSET Call] /\ late \in [Call -> BOOLEAN]

(* A restricted account has the row that explains its restriction and that *)
(* can end it: a ban that is open, a suspension (getActiveRestriction,     *)
(* reinstate), whatever reinstatements and sanctions overlap.              *)
RestrictionHasRow ==
    /\ status = "BANNED" => bans # {}
    /\ status = "SUSPENDED" => latest # None

(* A report that is settled has, from whoever settled it, the sanction or  *)
(* the dismissal it names (resolve: one transaction), even when two        *)
(* moderators settle it.                                                   *)
SettledReports ==
    \A r \in Report :
        /\ report[r].status = "ACTIONED" =>
             \E a \in log : a.by = report[r].by /\ a.type \in {"WARN", "SUSPEND", "BAN"}
        /\ report[r].status = "DISMISSED" =>
             \E a \in log : a.by = report[r].by /\ a.type = "DISMISS"

(* No two moderators are both told that a report is theirs (claim). *)
OneClaim ==
    \A c, d \in Call :
        /\ At(c, {"claim"}, "done") /\ At(d, {"claim"}, "done")
        /\ target[c] = target[d]
        => c = d

(* A restricted account holds no Redis key, but for a restriction whose    *)
(* eviction is to come or has failed, or a connection that had read the    *)
(* account before (resolve, resolveDirect: "immediate").                   *)
RestrictedIsEvicted ==
    status \in Restricted /\ present =>
        \/ \E c \in Call : At(c, {"resolve", "direct"}, "evict")
                           \/ At(c, {"resolve", "direct"}, "unevicted")
        \/ \E c \in Call : late[c]

(* A ban becomes ACTIVE only by a reinstatement, or by a sign-in or a      *)
(* refresh that found an expired suspension before the ban: neither the    *)
(* worker's sweep nor the verification link undoes it (expireSuspensions,  *)
(* verifyEmail).                                                           *)
BanStands ==
    [][status = "BANNED" /\ status' = "ACTIVE" =>
         \E c \in Call : \/ At(c, {"reinstate"}, "commit")
                         \/ At(c, {"login", "refresh"}, "restore")]_vars

(* A suspension ends, even if its owner never signs in (the worker's       *)
(* sweep).                                                                 *)
SuspensionOver == status = "SUSPENDED" ~> status # "SUSPENDED" \/ erased

(* The owner of an account scheduled for deletion cancels it by signing in *)
(* again (auth.routes.ts:367): no account is deactivated once the deletion *)
(* is cancelled.  Not an invariant: nothing restores the status.           *)
CancelRestores == status = "DEACTIVATED" => requested # "none"
================================================================================
