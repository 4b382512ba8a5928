-------------------------------- MODULE Sessions --------------------------------
(***************************************************************************)
(* The credentials of one account: its password, its token generation, its *)
(* sessions (refresh tokens), the access tokens in circulation and the     *)
(* Redis denylist, under concurrent sign-ins, refreshes, sign-outs,        *)
(* password changes, resets, a deletion request and a moderation action.   *)
(*                                                                         *)
(* A Call is one request.  Every statement or transaction is a step of its *)
(* own, so a call holds what it read earlier; a call that stops for good   *)
(* (a lost database, a dead node) is one that takes no further step: there *)
(* is no fairness.  A call signs in as the session named after it.         *)
(***************************************************************************)
EXTENDS Integers, FiniteSets

CONSTANTS Call,
          Device,  \* sessions opened before the first call
          None

ASSUME CallAssumption == Call \cap Device = {}
ASSUME NoneAssumption == None \notin Call \cup Device

Session == Call \cup Device
Operations == {"login", "refresh", "logout", "logoutAll", "forgot", "reset",
               "change", "delete", "restrict"}

(* The operations that raise the token generation when they end sessions. *)
Kicking == {"logoutAll", "reset", "change", "restrict"}

VARIABLES
    gen,       \* User.tokenGeneration
    epoch,     \* how often the password was changed or reset
    password,  \* the epoch whose password the stored hash verifies
    weak,      \* the hash was produced under weaker parameters
    status,    \* User.status: "ok", "restricted" or "deactivated"
    session,   \* the Session rows
    tokens,    \* access tokens that have not expired
    denied,    \* Redis revoked-session keys
    link,      \* password-reset tokens, named after the call that made them
    pc, op,    \* where each call is, and which operation it runs
    held       \* what each call holds from its reads

account == <<gen, epoch, password, weak, status>>
stores  == <<session, tokens, denied, link>>
vars    == <<account, stores, pc, op, held>>

Row   == [state : {"none", "live", "revoked", "gone"}, token : Session \cup {None},
          by : Call \cup {None}, epoch : Nat, late : BOOLEAN]
Token == [sid : Session, gen : Nat, split : BOOLEAN]
Hold  == [sid : Session \cup {None}, token : Session \cup {None}, gen : Nat,
          epoch : Nat, password : Nat, weak : BOOLEAN, split : BOOLEAN,
          link : Call \cup {None}]

NoRow   == [state |-> "none", token |-> None, by |-> None, epoch |-> 0, late |-> FALSE]
Nothing == [sid |-> None, token |-> None, gen |-> 0, epoch |-> 0, password |-> 0,
            weak |-> FALSE, split |-> FALSE, link |-> None]

Init ==
    /\ gen = 0 /\ epoch = 0 /\ password = 0
    /\ weak \in BOOLEAN
    /\ status = "ok"
    /\ session = [s \in Session |->
                    IF s \in Device THEN [NoRow EXCEPT !.state = "live", !.token = s]
                                    ELSE NoRow]
    /\ tokens = {[sid |-> d, gen |-> 0, split |-> FALSE] : d \in Device}
    /\ denied = {}
    /\ link = [c \in Call |-> "none"]
    /\ pc = [c \in Call |-> "idle"]
    /\ op = [c \in Call |-> "login"]
    /\ held = [c \in Call |-> Nothing]

--------------------------------------------------------------------------------
(* Helpers *)

Live(s) == session[s].state = "live"

At(c, o, label) == op[c] = o /\ pc[c] = label

Start(c, o, label) ==
    /\ pc[c] = "idle"
    /\ op' = [op EXCEPT ![c] = o]
    /\ pc' = [pc EXCEPT ![c] = label]

Goto(c, label) == pc' = [pc EXCEPT ![c] = label] /\ UNCHANGED op

(* authenticate, and the same checks on a socket's handshake: signature    *)
(* and expiry, the denylist, the generation, the account's status.  The    *)
(* generation only grows, so the two reads act as one.                     *)
Accepted(t) ==
    /\ t \in tokens
    /\ t.sid \notin denied
    /\ t.gen = gen
    /\ status = "ok"

(* An authenticated route starts: the session is the token's. *)
Authenticated(c, o, label, t) ==
    /\ Accepted(t)
    /\ Start(c, o, label)
    /\ held' = [held EXCEPT ![c].sid = t.sid]

Revoked(row, c) == [row EXCEPT !.state = "revoked", !.by = c]

(* updateMany over the sessions whose revokedAt is null, but for keep. *)
Revoke(c, keep) ==
    [s \in Session |-> IF Live(s) /\ s # keep THEN Revoked(session[s], c)
                                              ELSE session[s]]

(* issueAccessToken: the generation is the one the call read. *)
Mint(s, c) == tokens' = tokens \cup {[sid |-> s, gen |-> held[c].gen,
                                      split |-> held[c].split]}

--------------------------------------------------------------------------------
(* Sign-in *)

(* The account is read and the password verified against what was read. *)
LoginRead(c) ==
    /\ Start(c, "login", "restriction")
    /\ held' = [held EXCEPT ![c].gen = gen, ![c].epoch = epoch,
                            ![c].password = password, ![c].weak = weak]
    /\ UNCHANGED <<account, stores>>

LoginCheck(c) ==
    /\ At(c, "login", "restriction")
    /\ Goto(c, IF status = "restricted" THEN "failed" ELSE "rehash")
    /\ UNCHANGED <<account, stores, held>>

(* A hash under weaker parameters is upgraded, whatever the row holds now. *)
Rehash(c) ==
    /\ At(c, "login", "rehash")
    /\ IF held[c].weak THEN password' = held[c].password /\ weak' = FALSE
                       ELSE UNCHANGED <<password, weak>>
    /\ Goto(c, "create")
    /\ UNCHANGED <<gen, epoch, status, stores, held>>

IssueSession(c) ==
    /\ At(c, "login", "create")
    /\ session' = [session EXCEPT ![c] =
                     [state |-> "live", token |-> c, by |-> None,
                      epoch |-> held[c].epoch, late |-> held[c].epoch # epoch]]
    /\ Mint(c, c)
    /\ Goto(c, "done")
    /\ UNCHANGED <<account, denied, link, held>>

--------------------------------------------------------------------------------
(* Refresh *)

(* The session is looked up by the hash of the token presented: only the   *)
(* stored one is found.                                                    *)
RefreshRead(c, s) ==
    /\ session[s].state \in {"live", "revoked"}
    /\ Start(c, "refresh", IF Live(s) THEN "user" ELSE "revokeAll")
    /\ held' = [held EXCEPT ![c].sid = s, ![c].token = session[s].token]
    /\ UNCHANGED <<account, stores>>

(* The nested select of the user is a query of its own. *)
RefreshUser(c) ==
    /\ At(c, "refresh", "user")
    /\ held' = [held EXCEPT ![c].gen = gen, ![c].split = session[held[c].sid].state # "live"]
    /\ Goto(c, "restriction")
    /\ UNCHANGED <<account, stores>>

RefreshCheck(c) ==
    /\ At(c, "refresh", "restriction")
    /\ Goto(c, IF status = "restricted" THEN "revokeAll" ELSE "rotate")
    /\ UNCHANGED <<account, stores, held>>

(* MUTANT of Rotate: the access token takes the generation of the moment. *)
RotateFresh(c) ==
    LET s == held[c].sid IN
    /\ At(c, "refresh", "rotate")
    /\ session' = [session EXCEPT ![s].token = c]
    /\ tokens' = tokens \cup {[sid |-> s, gen |-> gen, split |-> held[c].split]}
    /\ Goto(c, "done")
    /\ UNCHANGED <<account, denied, link, held>>

(* By id alone: neither the old hash nor revokedAt is compared. *)
Rotate(c) ==
    LET s == held[c].sid IN
    /\ At(c, "refresh", "rotate")
    /\ IF session[s].state = "gone"
       THEN Goto(c, "failed") /\ UNCHANGED <<session, tokens>>
       ELSE /\ session' = [session EXCEPT ![s].token = c]
            /\ Mint(s, c)
            /\ Goto(c, "done")
    /\ UNCHANGED <<account, denied, link, held>>

(* Reuse of a revoked session, or a restricted account. *)
RefreshRevokeAll(c) ==
    /\ At(c, "refresh", "revokeAll")
    /\ session' = Revoke(c, None)
    /\ Goto(c, "failed")
    /\ UNCHANGED <<account, tokens, denied, link, held>>

--------------------------------------------------------------------------------
(* Sign-out *)

LogoutStart(c, t) ==
    Authenticated(c, "logout", "revoke", t) /\ UNCHANGED <<account, stores>>

(* By id alone; a failed update is swallowed. *)
LogoutRevoke(c) ==
    LET s == held[c].sid IN
    /\ At(c, "logout", "revoke")
    /\ \/ /\ session[s].state # "gone"
          /\ session' = [session EXCEPT ![s] = Revoked(session[s], c)]
       \/ UNCHANGED session
    /\ Goto(c, "deny")
    /\ UNCHANGED <<account, tokens, denied, link, held>>

(* MUTANT of LogoutDeny: the access token is left to expire. *)
LogoutDenyNot(c) ==
    /\ At(c, "logout", "deny")
    /\ Goto(c, "done")
    /\ UNCHANGED <<account, stores, held>>

LogoutDeny(c) ==
    /\ At(c, "logout", "deny")
    /\ denied' = denied \cup {held[c].sid}
    /\ Goto(c, "done")
    /\ UNCHANGED <<account, session, tokens, link, held>>

LogoutAllStart(c, t) ==
    Authenticated(c, "logoutAll", "revoke", t) /\ UNCHANGED <<account, stores>>

LogoutAllRevoke(c) ==
    /\ At(c, "logoutAll", "revoke")
    /\ session' = Revoke(c, None)
    /\ Goto(c, "bump")
    /\ UNCHANGED <<account, tokens, denied, link, held>>

LogoutAllBump(c) ==
    /\ At(c, "logoutAll", "bump")
    /\ gen' = gen + 1
    /\ Goto(c, "done")
    /\ UNCHANGED <<epoch, password, weak, status, stores, held>>

--------------------------------------------------------------------------------
(* Passwords *)

(* The new hash and the raised generation, in one transaction with the     *)
(* sessions.                                                               *)
SetPassword ==
    /\ epoch' = epoch + 1
    /\ password' = epoch + 1
    /\ weak' = FALSE
    /\ gen' = gen + 1
    /\ UNCHANGED status

(* createPasswordResetToken: earlier links are consumed, a new one made. *)
Forgot(c) ==
    /\ Start(c, "forgot", "done")
    /\ link' = [l \in Call |-> IF l = c THEN "live"
                               ELSE IF link[l] = "live" THEN "spent" ELSE link[l]]
    /\ UNCHANGED <<account, session, tokens, denied, held>>

ResetRead(c, l) ==
    /\ link[l] = "live"
    /\ Start(c, "reset", "commit")
    /\ held' = [held EXCEPT ![c].link = l]
    /\ UNCHANGED <<account, stores>>

(* MUTANT of ResetCommit: the sessions are left alone. *)
ResetCommitKeeps(c) ==
    /\ At(c, "reset", "commit")
    /\ SetPassword
    /\ link' = [link EXCEPT ![held[c].link] = "spent"]
    /\ Goto(c, "done")
    /\ UNCHANGED <<session, tokens, denied, held>>

(* The link is consumed by id, whether or not it still was live. *)
ResetCommit(c) ==
    /\ At(c, "reset", "commit")
    /\ SetPassword
    /\ link' = [link EXCEPT ![held[c].link] = "spent"]
    /\ session' = Revoke(c, None)
    /\ Goto(c, "done")
    /\ UNCHANGED <<tokens, denied, held>>

Knowing(row) == [row EXCEPT !.epoch = epoch + 1, !.late = FALSE]

(* The current password is verified against the hash read here. *)
ChangeStart(c, t) ==
    Authenticated(c, "change", "commit", t) /\ UNCHANGED <<account, stores>>

(* Every other session ends; the one that changed the password knows it.   *)
ChangeCommit(c) ==
    LET s == held[c].sid IN
    /\ At(c, "change", "commit")
    /\ SetPassword
    /\ session' = [Revoke(c, s) EXCEPT ![s] = Knowing(session[s])]
    /\ Goto(c, "done")
    /\ UNCHANGED <<tokens, denied, link, held>>

--------------------------------------------------------------------------------
(* The account: deletion request, moderation, expiries *)

DeleteStart(c, t) ==
    Authenticated(c, "delete", "commit", t) /\ UNCHANGED <<account, stores>>

DeleteCommit(c) ==
    /\ At(c, "delete", "commit")
    /\ status' = "deactivated"
    /\ session' = Revoke(c, None)
    /\ Goto(c, "done")
    /\ UNCHANGED <<gen, epoch, password, weak, tokens, denied, link, held>>

(* The transaction of a suspension or a ban (moderation.service.ts). *)
Restrict(c) ==
    /\ Start(c, "restrict", "done")
    /\ status' = "restricted"
    /\ gen' = gen + 1
    /\ session' = Revoke(c, None)
    /\ UNCHANGED <<epoch, password, weak, tokens, denied, link, held>>

Reinstate ==
    /\ status = "restricted"
    /\ status' = "ok"
    /\ UNCHANGED <<gen, epoch, password, weak, stores, pc, op, held>>

ExpireToken(t) ==
    /\ tokens' = tokens \ {t}
    /\ UNCHANGED <<account, session, denied, link, pc, op, held>>

(* A refresh of s past the read of its session. *)
Refreshing(c, s) ==
    /\ op[c] = "refresh"
    /\ pc[c] \in {"user", "restriction", "rotate"}
    /\ held[c].sid = s

(* The key outlives by 45 minutes every access token that existed when it  *)
(* was written: a request is taken to last less than that.                 *)
ExpireDenied(s) ==
    /\ s \in denied
    /\ \A t \in tokens : t.sid # s
    /\ \A c \in Call : ~Refreshing(c, s)
    /\ denied' = denied \ {s}
    /\ UNCHANGED <<account, session, tokens, link, pc, op, held>>

(* A session that expired is deleted: by the refresh that finds it so, or  *)
(* by the worker.                                                          *)
ExpireSession(s) ==
    /\ session[s].state \in {"live", "revoked"}
    /\ session' = [session EXCEPT ![s].state = "gone"]
    /\ UNCHANGED <<account, tokens, denied, link, pc, op, held>>

--------------------------------------------------------------------------------
(* The routes of sign-in, refresh and sign-out. *)
SessionRequest(c) ==
    \/ LoginRead(c) \/ LoginCheck(c) \/ Rehash(c) \/ IssueSession(c)
    \/ \E s \in Session : RefreshRead(c, s)
    \/ RefreshUser(c) \/ RefreshCheck(c) \/ Rotate(c) \/ RefreshRevokeAll(c)
    \/ \E t \in tokens : LogoutStart(c, t) \/ LogoutAllStart(c, t)
    \/ LogoutRevoke(c) \/ LogoutDeny(c) \/ LogoutAllRevoke(c) \/ LogoutAllBump(c)

(* The routes of the password and of the account's deletion. *)
PasswordRequest(c) ==
    \/ \E t \in tokens : ChangeStart(c, t) \/ DeleteStart(c, t)
    \/ Forgot(c) \/ (\E l \in Call : ResetRead(c, l)) \/ ResetCommit(c)
    \/ ChangeCommit(c) \/ DeleteCommit(c)

Next ==
    \/ \E c \in Call : SessionRequest(c) \/ PasswordRequest(c) \/ Restrict(c)
    \/ Reinstate
    \/ \E t \in tokens : ExpireToken(t)
    \/ \E s \in Session : ExpireDenied(s) \/ ExpireSession(s)

Spec == Init /\ [][Next]_vars

--------------------------------------------------------------------------------
(* Properties *)

(* Types of the rows, the tokens, the Redis keys and the calls (Session,   *)
(* User and VerificationToken of schema.prisma).                           *)
TypeOK ==
    /\ gen \in Nat /\ epoch \in Nat /\ password \in Nat /\ weak \in BOOLEAN
    /\ status \in {"ok", "restricted", "deactivated"}
    /\ session \in [Session -> Row]
    /\ tokens \subseteq Token
    /\ denied \subseteq Session
    /\ link \in [Call -> {"none", "live", "spent"}]
    /\ pc \in [Call -> {"idle", "restriction", "rehash", "create", "user", "rotate",
                        "revokeAll", "revoke", "deny", "bump", "commit", "done",
                        "failed"}]
    /\ op \in [Call -> Operations]
    /\ held \in [Call -> Hold]

(* The session was ended by one of these operations, which ran to its end. *)
EndedBy(s, ops) ==
    \E c \in Call :
        /\ session[s].state = "revoked" /\ session[s].by = c
        /\ op[c] \in ops /\ pc[c] = "done"

(* Once a sign-out everywhere, a reset, a password change or a moderation  *)
(* action has ended a session, no access token of that session is accepted *)
(* again (auth.plugin.ts, socket-auth.ts), whatever refresh was under way, *)
(* except one whose refresh read the session before the end and the user   *)
(* after it.                                                               *)
KickedOut ==
    \A t \in tokens : Accepted(t) /\ EndedBy(t.sid, Kicking) => t.split

(* A session its owner signed out of serves no request again, not even     *)
(* with the token of a refresh that was under way (auth.routes.ts logout,  *)
(* REDIS_TTL.revokedSession).                                              *)
SignedOut ==
    \A t \in tokens : Accepted(t) => ~EndedBy(t.sid, {"logout"})

(* Every live session was opened with the password of the moment, unless   *)
(* its sign-in had verified the previous one before the change committed   *)
(* (resetPassword, changePassword against login).                          *)
OpenedWithCurrentPassword ==
    \A s \in Session : Live(s) => session[s].epoch = epoch \/ session[s].late

(* A reset holds: the password that verifies is the last one set.  Not an  *)
(* invariant: the rehash of a sign-in under way writes the old one back.   *)
ResetSticks == password = epoch
================================================================================
