----------------------------------- MODULE Tab -----------------------------------
(* One browser tab of the web or the admin application: the API client        *)
(* (api-client.ts), the session provider on it, and a page that lists rows    *)
(* and acts on them. The server is its sessions, their rotating refresh       *)
(* cookie, and how many acts it has carried out.                              *)
(*                                                                           *)
(* A call is sent, served and answered in steps of their own, and may be lost *)
(* at any of them. What an `await` continues with is one step with the answer *)
(* it waited for. What calls carry, forms and texts are data.                 *)
EXTENDS Integers

CONSTANTS
    Slot,       \* bound: calls of the tab at one time
    Row,        \* rows of the page
    MaxLogins,  \* bound: sign-ins
    MaxActs,    \* bound: acts sent
    None

ASSUME BoundAssumption == MaxLogins \in Nat /\ MaxActs \in Nat
ASSUME NoneAssumption  == None \notin Nat

VARIABLES
    app, staff, status,             \* the provider; staff: sessions of moderators
    token, ref, cookie, call,       \* the client: access token, refresh in flight, calls
    live, spent, logins,            \* the server: sessions, those whose cookie was used
    page, loaded, shown, busy, dialog, version, sent,    \* the page, and acts served and sent
    lost, ended, mixed              \* history: an answer was lost or a sign-out refused;
                                    \* sessions signed out of; page calls overlapped or failed

provider == <<app, staff, status>>
client   == <<token, ref, cookie>>
server   == <<live, spent, logins>>
screen   == <<page, loaded, shown, busy, dialog, version, sent>>
history  == <<lost, ended, mixed>>
vars     == <<provider, client, call, server, screen, history>>

Session == 0..MaxLogins

Dialogs == {"review"}
Page    == [web |-> {"connections", "blocked", "tokens", "profile"},
            admin |-> {"campaigns", "review"}]

Acting == {"act", "load", "reload"}
Free   == [job |-> "none", pc |-> "free", by |-> None, item |-> None, again |-> FALSE, out |-> "none"]
NoRef  == [pc |-> "none", by |-> None, ok |-> FALSE]

InitWith(open) ==
    /\ app \in {"web", "admin"} /\ staff \in IF app = "web" THEN {{}} ELSE {{}, Session}
    /\ page \in IF open THEN Page[app] ELSE {"blank"}
    /\ loaded = FALSE /\ shown = None /\ busy = None /\ dialog = None
    /\ version = 0 /\ sent = 0 /\ spent = {}
    /\ lost = FALSE /\ ended = {} /\ mixed = FALSE

(* A tab opens: the boot effect refreshes from whatever cookie there is. *)
(* (Bound: with a page that calls nothing.)                              *)
Boot ==
    /\ InitWith(FALSE)
    /\ status = "loading" /\ logins = 0
    /\ token = [of |-> None, fresh |-> FALSE]
    /\ cookie \in {0, None} /\ live \in SUBSET ({cookie} \cap Session)
    /\ ref = [pc |-> "sent", by |-> cookie, ok |-> FALSE]
    /\ call = [s \in Slot |-> IF s # CHOOSE t \in Slot : TRUE THEN Free
                              ELSE [Free EXCEPT !.job = "boot", !.pc = "await"]]

(* A page opens in a tab that is signed in. (Bound: for the last time.) *)
PageOpens ==
    /\ InitWith(TRUE) /\ (app = "admin" => staff = Session)
    /\ status = "authenticated" /\ logins = MaxLogins
    /\ token = [of |-> 0, fresh |-> TRUE] /\ cookie = 0 /\ live = {0}
    /\ ref = NoRef /\ call = [s \in Slot |-> Free]

Init == Boot \/ PageOpens

--------------------------------------------------------------------------------
(* The API client. *)

(* The call goes with the access token there is. *)
Made(job, item) ==
    [job |-> job, pc |-> "sent", by |-> IF token.fresh THEN token.of ELSE None,
     item |-> item, again |-> FALSE, out |-> "none"]

request(s, job, item) ==
    /\ call[s].pc = "free"
    /\ call' = [call EXCEPT ![s] = Made(job, item)]

(* Mutant of refresh: each caller sends its own. *)
refreshEach == ref' = [pc |-> "sent", by |-> cookie, ok |-> FALSE]

(* Concurrent callers share the refresh in flight. *)
refresh ==
    ref' = IF ref.pc # "none" THEN ref ELSE [pc |-> "sent", by |-> cookie, ok |-> FALSE]

ServeRefresh ==
    /\ ref.pc = "sent"
    /\ ref' = [ref EXCEPT !.pc = "served", !.ok = ref.by \in live \ spent]
    /\ spent' = IF ref.by \in live THEN spent \cup {ref.by} ELSE spent
    /\ UNCHANGED <<provider, token, cookie, call, live, logins, screen, history>>

(* Mutant of Wake: the refresh answers its first caller only. *)
WakeOne(pc) ==
    call' = [s \in Slot |-> IF call[s].pc = "await" /\ s = CHOOSE t \in Slot : call[t].pc = "await"
                            THEN [call[s] EXCEPT !.pc = pc] ELSE call[s]]

(* Every call that waits goes on, or fails with it. *)
Wake(pc) == call' = [s \in Slot |-> IF call[s].pc = "await" THEN [call[s] EXCEPT !.pc = pc]
                                                            ELSE call[s]]

(* The answer sets the next cookie and the token, or clears both. *)
Refreshed ==
    /\ ref.pc = "served" /\ ref' = NoRef
    /\ token' = [of |-> IF ref.ok THEN ref.by ELSE None, fresh |-> ref.ok]
    /\ cookie' = IF ref.ok THEN ref.by ELSE IF ref.by = None THEN cookie ELSE None
    /\ spent' = IF ref.ok THEN spent \ {ref.by} ELSE spent
    /\ Wake(IF ref.ok THEN "resume" ELSE "failed")
    /\ UNCHANGED <<provider, live, logins, screen, history>>

RefreshLost ==
    /\ ~lost /\ ref.pc # "none" /\ ref' = NoRef
    /\ token' = [of |-> None, fresh |-> FALSE]
    /\ Wake("failed")
    /\ lost' = TRUE
    /\ UNCHANGED <<provider, cookie, server, screen, ended, mixed>>

(* A 401 is refreshed and retried, once. *)
Unauthorised(s) ==
    /\ call[s].pc = "served" /\ call[s].out = "unauthorised" /\ ~call[s].again
    /\ call' = [call EXCEPT ![s].pc = "await"]
    /\ refresh
    /\ UNCHANGED <<provider, token, cookie, server, screen, history>>

(* Mutant of Resend: the retry goes without the refreshed token. *)
ResendBare(s) ==
    /\ call[s].pc = "resume" /\ call[s].job # "boot"
    /\ call' = [call EXCEPT ![s].pc = "sent", ![s].by = None, ![s].again = TRUE]
    /\ UNCHANGED <<provider, client, server, screen, history>>

Resend(s) ==
    /\ call[s].pc = "resume" /\ call[s].job # "boot"
    /\ call' = [call EXCEPT ![s] = [Made(call[s].job, call[s].item) EXCEPT !.again = TRUE]]
    /\ UNCHANGED <<provider, client, server, screen, history>>

(* (Bound: one answer is lost.) *)
CallLost(s) ==
    /\ ~lost /\ call[s].pc \in {"sent", "served"}
    /\ call' = [call EXCEPT ![s].pc = "failed"]
    /\ lost' = TRUE
    /\ UNCHANGED <<provider, client, server, screen, ended, mixed>>

(* How a call of `job` ends: its answer is in, and is not to be retried. *)
Ends(s, job, ok) ==
    /\ call[s].job = job
    /\ IF ok THEN call[s].pc = "served" /\ call[s].out = "ok"
       ELSE \/ call[s].pc = "failed"
            \/ call[s].pc = "served" /\ call[s].out = "refused"
            \/ call[s].pc = "served" /\ call[s].out = "unauthorised" /\ call[s].again

Done(s)        == call' = [call EXCEPT ![s] = Free]
Next1(s, made) == call' = [call EXCEPT ![s] = made]

(* The token lives fifteen minutes, which no refresh takes, nor its callers. *)
Expire ==
    /\ token.fresh /\ ref.pc = "none" /\ \A s \in Slot : call[s].pc # "resume"
    /\ token' = [token EXCEPT !.fresh = FALSE]
    /\ UNCHANGED <<provider, ref, cookie, call, server, screen, history>>

--------------------------------------------------------------------------------
(* The server *)

ServeLogin(s) ==
    /\ call[s].pc = "sent" /\ call[s].job = "login"
    /\ \/ /\ call' = [call EXCEPT ![s].pc = "served", ![s].out = "refused"]
          /\ UNCHANGED server
       \/ /\ logins' = logins + 1 /\ live' = live \cup {logins + 1}
          /\ call' = [call EXCEPT ![s].pc = "served", ![s].out = "ok", ![s].by = logins + 1]
          /\ UNCHANGED spent
    /\ UNCHANGED <<provider, client, screen, history>>

(* An authenticated call: refused without a live token; it may be refused for *)
(* reasons of its own. `item` takes the version a list was read at.           *)
ServeCall(s) ==
    LET c   == call[s]
        Out(out) == [c EXCEPT !.pc = "served", !.out = out]
    IN  /\ c.pc = "sent" /\ c.job # "login"
        /\ \/ /\ c.by \notin live
              /\ call' = [call EXCEPT ![s] = Out("unauthorised")]
              /\ UNCHANGED <<live, version>>
           \/ /\ c.by \in live
              /\ call' = [call EXCEPT ![s] = Out("refused")]
              /\ UNCHANGED <<live, version>>
           \/ /\ c.by \in live
              /\ version' = IF c.job = "act" THEN version + 1 ELSE version
              /\ call' = [call EXCEPT ![s] = [Out("ok") EXCEPT !.item =
                            IF c.job \in Acting THEN version' ELSE @]]
              /\ live' = IF c.job \in {"logout", "eject"} THEN live \ {c.by} ELSE live
        /\ UNCHANGED <<provider, client, spent, logins, page, loaded, shown, busy, dialog,
                       sent, history>>

--------------------------------------------------------------------------------
(* The session provider *)

PageCall(s) == call[s].job \in Acting

(* Call s ends with the session, and with the page: its calls go on, heard by *)
(* nobody.                                                                   *)
Bounce(s, to) ==
    /\ status' = to
    /\ call' = [t \in Slot |-> IF t = s THEN Free
                              ELSE IF PageCall(t) THEN [call[t] EXCEPT !.job = "gone"] ELSE call[t]]
    /\ loaded' = FALSE /\ shown' = None /\ busy' = None /\ dialog' = None
    /\ mixed' = (mixed \/ \E t \in Slot : PageCall(t))

Gone(s) ==
    /\ \E ok \in BOOLEAN : Ends(s, "gone", ok)
    /\ Done(s)
    /\ UNCHANGED <<provider, client, server, screen, history>>

BootRefreshed(s) ==
    /\ call[s].job = "boot"
    /\ \/ call[s].pc = "failed" /\ Bounce(s, "unauthenticated")
       \/ /\ call[s].pc = "resume" /\ Next1(s, Made("me", None))
          /\ UNCHANGED <<status, loaded, shown, busy, dialog, mixed>>
    /\ UNCHANGED <<app, staff, client, server, page, version, sent, lost, ended>>

loadUser(s) ==
    /\ \/ /\ Ends(s, "me", TRUE)
          /\ IF app = "admin" /\ call[s].by \notin staff
             THEN Bounce(s, "forbidden")
             ELSE /\ status' = "authenticated" /\ Done(s)
                  /\ UNCHANGED <<loaded, shown, busy, dialog, mixed>>
       \/ Ends(s, "me", FALSE) /\ Bounce(s, "unauthenticated")
    /\ UNCHANGED <<app, staff, client, server, page, version, sent, lost, ended>>

(* The sign-in form, one submission at a time. A sign-out it overtakes no      *)
(* longer answers for a session.                                             *)
SignIn(s) ==
    /\ status \in {"loading", "unauthenticated"} /\ logins < MaxLogins
    /\ call[s].pc = "free" /\ \A t \in Slot : call[t].job \notin {"login", "eject"}
    /\ call' = [t \in Slot |-> IF t = s THEN Made("login", None)
                              ELSE IF call[t].job = "logout" THEN [call[t] EXCEPT !.item = None]
                              ELSE call[t]]
    /\ UNCHANGED <<provider, client, server, screen, history>>

(* Mutant of SignedIn: the new token does not replace the old one. *)
SignedInStale(s) ==
    /\ \/ Ends(s, "login", TRUE) /\ cookie' = call[s].by /\ status' = "authenticated"
       \/ Ends(s, "login", FALSE) /\ UNCHANGED <<cookie, status>>
    /\ Done(s)
    /\ UNCHANGED <<app, staff, token, ref, server, screen, history>>

(* The admin panel drops the token of who is no moderator, and signs them out *)
(* with a call that then carries none.                                        *)
SignedIn(s) ==
    LET by == call[s].by
        Intruder == app = "admin" /\ by \notin staff
        Alone == ref.pc = "none" /\ \A t \in Slot : call[t].job # "logout"
    IN  /\ \/ /\ Ends(s, "login", TRUE)
              /\ cookie' = by
              /\ IF Intruder
                 THEN /\ token' = [of |-> None, fresh |-> FALSE]
                      /\ Next1(s, [Made("eject", IF Alone THEN by ELSE None) EXCEPT !.by = None])
                      /\ UNCHANGED status
                 ELSE /\ token' = [of |-> by, fresh |-> TRUE]
                      /\ status' = "authenticated"
                      /\ Done(s)
           \/ Ends(s, "login", FALSE) /\ Done(s) /\ UNCHANGED <<cookie, token, status>>
        /\ UNCHANGED <<app, staff, ref, server, screen, history>>

Closed(s, ok) ==
    /\ cookie' = IF ok THEN None ELSE cookie
    /\ lost' = (lost \/ call[s].out = "refused")
    /\ ended' = IF lost' THEN ended ELSE ended \cup {call[s].item}

Ejected(s) ==
    \E ok \in BOOLEAN :
        /\ Ends(s, "eject", ok) /\ Done(s)
        /\ Closed(s, ok)
        /\ status' = "forbidden"
        /\ UNCHANGED <<app, staff, token, ref, server, screen, mixed>>

(* The button is on no page with the sign-in form. (Bound: one press at a time.) *)
SignOut(s) ==
    /\ status \in {"authenticated", "forbidden"}
    /\ \A t \in Slot : call[t].job \notin {"login", "eject", "logout"}
    /\ request(s, "logout", token.of)
    /\ UNCHANGED <<provider, client, server, screen, history>>

(* Local state is cleared whatever the answer. *)
SignedOut(s) ==
    \E ok \in BOOLEAN :
        /\ Ends(s, "logout", ok)
        /\ Closed(s, ok)
        /\ token' = [of |-> None, fresh |-> FALSE]
        /\ Bounce(s, "unauthenticated")
        /\ UNCHANGED <<app, staff, ref, server, page, version, sent>>

(* Every ten minutes, and before the socket connects. *)
KeepFresh ==
    /\ status = "authenticated" /\ ref.pc = "none"
    /\ refresh
    /\ UNCHANGED <<provider, token, cookie, call, server, screen, history>>

--------------------------------------------------------------------------------
(* The page *)

Mixing      == mixed' = (mixed \/ \E s \in Slot : PageCall(s))
Failing(ok) == mixed' = (mixed \/ ~ok)

(* The list is loaded when the session is there. *)
load(s) ==
    /\ status = "authenticated" /\ page # "blank" /\ ~loaded /\ loaded' = TRUE
    /\ request(s, "load", None)
    /\ Mixing
    /\ UNCHANGED <<provider, client, server, page, shown, busy, dialog, version, sent,
                   lost, ended>>

Loaded(s) ==
    \E ok \in BOOLEAN :
        /\ Ends(s, "load", ok) /\ Done(s)
        /\ shown' = IF ok THEN call[s].item ELSE shown
        /\ Failing(ok)
        /\ UNCHANGED <<provider, client, server, page, loaded, busy, dialog, version, sent,
                       lost, ended>>

(* (Bound: MaxActs of them.) *)
Act(s, row) ==
    /\ status = "authenticated" /\ shown # None /\ sent < MaxActs /\ sent' = sent + 1
    /\ request(s, "act", row)
    /\ Mixing
    /\ UNCHANGED <<provider, client, server, page, loaded, shown, version, lost, ended>>

Listed == \A s \in Slot : call[s].job \notin {"load", "reload"}

(* A row's buttons are off while it is busy, and not there while a list that  *)
(* hides its rows loads; the packages are all off; nothing marks a blocked     *)
(* user's row. A dialog's are its own.                                        *)
Connection(row) == page = "connections" /\ busy # row
Campaign(row)   == page = "campaigns" /\ busy # row /\ Listed
Package         == page = "tokens" /\ busy = None
SettingsTab(row) == page = "profile" /\ busy # row
Unblock         == page = "blocked" /\ Listed

Press(s, row) ==
    /\ \/ (Connection(row) \/ Campaign(row) \/ Package \/ SettingsTab(row)) /\ busy' = row
       \/ Unblock /\ UNCHANGED busy
    /\ Act(s, row) /\ UNCHANGED dialog

Open(row) ==
    /\ page \in Dialogs /\ shown # None /\ dialog = None
    /\ dialog' = row /\ busy' = None
    /\ UNCHANGED <<provider, client, call, server, page, loaded, shown, version, sent, history>>

(* Cancel is off while the dialog submits; the Escape key is not. *)
Escape ==
    /\ dialog # None /\ dialog' = None /\ busy' = None
    /\ UNCHANGED <<provider, client, call, server, page, loaded, shown, version, sent, history>>

Submit(s) ==
    /\ dialog # None /\ busy = None
    /\ busy' = s
    /\ Act(s, dialog) /\ UNCHANGED dialog

(* Mutant of Acted: the list is not read again. *)
ActedOnly(s) ==
    /\ Ends(s, "act", TRUE)
    /\ Done(s) /\ busy' = None /\ dialog' = None
    /\ UNCHANGED <<provider, client, server, page, loaded, shown, version, sent, history>>

(* What was done is then shown by reading the list again, under the row's    *)
(* mark or with the dialog closed; a saved tab shows the answer; a package    *)
(* leads to the payment page.                                                *)
Refetch(s) == Next1(s, Made("reload", None)) /\ UNCHANGED shown

respond(s)    == page = "connections" /\ Refetch(s) /\ UNCHANGED <<page, busy, dialog>>
setStatus(s)  == page = "campaigns" /\ Refetch(s) /\ UNCHANGED <<page, busy, dialog>>
unblock(s)    == page = "blocked" /\ Refetch(s) /\ UNCHANGED <<page, busy, dialog>>
onResolved(s) == page \in Dialogs /\ Refetch(s) /\ busy' = None /\ dialog' = None /\ UNCHANGED page
save(s)       == page = "profile" /\ Done(s) /\ shown' = call[s].item /\ busy' = None
                 /\ UNCHANGED <<page, dialog>>
buy(s)        == page = "tokens" /\ Done(s) /\ page' = "checkout"
                 /\ UNCHANGED <<shown, busy, dialog>>

Acted(s) ==
    /\ Ends(s, "act", TRUE)
    /\ \/ respond(s) \/ setStatus(s) \/ unblock(s)
       \/ onResolved(s) \/ save(s) \/ buy(s)
    /\ UNCHANGED <<provider, client, server, loaded, version, sent, history>>

(* Only the dialog that sent it hears of a failure. *)
ActFailed(s) ==
    /\ Ends(s, "act", FALSE) /\ Done(s)
    /\ busy' = IF page \in Dialogs /\ busy # s THEN busy ELSE None
    /\ Failing(FALSE)
    /\ UNCHANGED <<provider, client, server, page, loaded, shown, dialog, version, sent, lost, ended>>

Reloaded(s) ==
    \E ok \in BOOLEAN :
        /\ Ends(s, "reload", ok) /\ Done(s)
        /\ shown' = IF ok THEN call[s].item ELSE shown
        /\ busy' = IF page \in Dialogs THEN busy ELSE None
        /\ Failing(ok)
        /\ UNCHANGED <<provider, client, server, page, loaded, dialog, version, sent, lost, ended>>

--------------------------------------------------------------------------------
Answers(s) ==
    \/ ServeLogin(s) \/ ServeCall(s) \/ Unauthorised(s) \/ Resend(s)
    \/ BootRefreshed(s) \/ loadUser(s) \/ SignedIn(s) \/ Ejected(s) \/ SignedOut(s)
    \/ Gone(s) \/ Loaded(s) \/ Acted(s) \/ ActFailed(s) \/ Reloaded(s)

Presses(s) == SignIn(s) \/ SignOut(s) \/ load(s) \/ Submit(s) \/ \E r \in Row : Press(s, r)

Next ==
    \/ ServeRefresh \/ Refreshed \/ RefreshLost \/ Expire \/ KeepFresh
    \/ \E s \in Slot : Answers(s) \/ Presses(s) \/ CallLost(s)
    \/ \E r \in Row : Open(r)
    \/ Escape

Spec == Init /\ [][Next]_vars

(* A call is answered or given up by the browser, and its handler runs. *)
FairSpec ==
    /\ Spec
    /\ WF_vars(ServeRefresh) /\ WF_vars(Refreshed)
    /\ \A s \in Slot : WF_vars(Answers(s))

--------------------------------------------------------------------------------
(* Types of the tab's state. *)
TypeOK ==
    /\ status \in {"loading", "authenticated", "unauthenticated", "forbidden"}
    /\ token \in [of : Session \cup {None}, fresh : BOOLEAN]
    /\ cookie \in Session \cup {None}
    /\ spent \subseteq Session /\ live \subseteq Session
    /\ dialog # None => page \in Dialogs
    /\ busy \in Row \cup Slot \cup {None}
    /\ shown \in 0..version \cup {None}

(* A tab does not spend its own refresh cookie twice: a refresh never leaves  *)
(* with a cookie that an earlier one of this tab has used, unless its answer   *)
(* was lost.                                                                  *)
NeverSpent == ref.pc = "sent" /\ ~lost => ref.by \notin spent

(* A token that works and the cookie are of one session, so that signing out *)
(* by the one ends the other.                                                *)
OneSession == token.of \in live /\ ~lost => cookie = token.of

(* Whoever has signed out, or was signed out of the admin panel, has no        *)
(* session left behind, however stale the token was when they did.             *)
SignedOutForGood == ended \cap live = {}

(* However its session ends, no call waits for ever: not on a refresh that    *)
(* another call began, and not by being retried again and again.              *)
CallsEnd == \A s \in Slot : []<>(call[s].pc = "free")

(* A page whose calls did not overlap and did not fail shows, once it is      *)
(* quiet, the effect of all it has done.                                      *)
ShowsItsActs ==
    (shown # None /\ page # "checkout" /\ ~mixed /\ \A s \in Slot : ~PageCall(s)) => shown = version

================================================================================
