-------------------------------- MODULE TabProofs --------------------------------
(* Theorems of Tab, for any number of calls at once, sign-ins, rows and acts. *)
EXTENDS Tab, TLAPS

--------------------------------------------------------------------------------
(* The inductive invariant *)

Jobs == {"none", "boot", "me", "login", "eject", "logout", "gone"} \cup Acting
Pcs  == {"free", "sent", "served", "await", "resume", "failed"}
Outs == {"none", "ok", "refused", "unauthorised"}

(* The sessions there have been. *)
Known == 0..logins

CallRecord == [job : Jobs, pc : Pcs, by : Session \cup {None},
               item : Row \cup Nat \cup {None}, again : BOOLEAN, out : Outs]

(* A call, when k sign-ins have been and the rows are at version v. *)
GoodCall(c, k, v) ==
    /\ c \in CallRecord
    /\ c.job = "none" <=> c.pc = "free"
    /\ c.by \in (0..k) \cup {None}
    /\ c.job \in {"logout", "eject"} => c.item \in (0..k) \cup {None}
    /\ c.job \in Acting /\ c.pc = "served" /\ c.out = "ok" => c.item \in 0..v
    /\ c.job = "login" => /\ c.pc \in {"sent", "served", "failed"}
                          /\ c.pc = "sent" => k < MaxLogins
                          /\ c.pc = "served" => c.out \in {"ok", "refused"}

(* Types of what TypeOK leaves out. *)
CallsOK ==
    /\ call \in [Slot -> CallRecord]
    /\ \A s \in Slot : GoodCall(call[s], logins, version)

RestOK ==
    /\ ref \in [pc : {"none", "sent", "served"}, by : Session \cup {None}, ok : BOOLEAN]
    /\ version \in Nat /\ dialog \in Row \cup {None}
    /\ lost \in BOOLEAN /\ mixed \in BOOLEAN

(* Every session that is named has been signed in. *)
KnownInv ==
    /\ logins \in Session /\ live \subseteq Known /\ ended \subseteq Known \cup {None}
    /\ token.of \in Known \cup {None} /\ cookie \in Known \cup {None}
    /\ ref.by \in Known \cup {None}

(* One sign-in at a time, or the sign-out that follows it. *)
LoginInv ==
    \A s, t \in Slot : call[s].job \in {"login", "eject"} /\ call[t].job \in {"login", "eject"}
                       => s = t

TypesInv == TypeOK /\ CallsOK /\ RestOK /\ KnownInv /\ LoginInv

(* A cookie is spent only between a refresh that succeeded and its answer. *)
SpentInv == ~lost => spent \subseteq IF ref.pc = "served" /\ ref.ok THEN {ref.by} ELSE {}

(* A refresh of a session that lives succeeds. *)
RefreshInv == ~lost /\ ref.pc = "served" /\ ref.by \in live => ref.ok

(* A refresh that is under way for a stale token is for the token's session. *)
StaleInv ==
    ~lost /\ token.of \in live /\ ~token.fresh /\ ref.pc # "none" => ref.by = token.of

(* Nothing the tab holds is of a session other than b. *)
Only(b) ==
    /\ token.of \in {b, None} /\ cookie \in {b, None}
    /\ ref.pc # "none" => ref.by \in {b, None}

(* From the answer of its refresh on, whoever is signed out of the admin panel *)
(* holds nothing but the session that ends.                                    *)
EjectInv ==
    \A s \in Slot : ~lost /\ call[s].job = "eject" =>
        /\ call[s].pc = "resume" => \E b \in Known : Only(b)
        /\ call[s].pc \in {"sent", "served"} /\ call[s].by # None => Only(call[s].by)
        /\ call[s].pc = "served" /\ call[s].out = "ok" => call[s].by \notin live \cup {None}

(* A call that is to end session b has b's token, or will be given it. *)
Ending(s, b) ==
    \/ call[s].pc = "sent" /\ call[s].by = b
    \/ call[s].pc = "served" /\ call[s].out = "refused"
    \/ /\ cookie = b /\ token.of \in {b, None} /\ (ref.pc # "none" => ref.by = b)
       /\ \/ call[s].pc = "sent" /\ call[s].by = None /\ ~call[s].again
          \/ call[s].pc = "served" /\ call[s].out = "unauthorised" /\ ~call[s].again
          \/ call[s].pc = "await" /\ ref.pc # "none"
          \/ call[s].pc = "resume" /\ token.of = b /\ token.fresh

Signing == {"login", "logout", "eject"}

ClosingInv ==
    \A s \in Slot : ~lost /\ call[s].job \in {"logout", "eject"} /\ call[s].item \in live =>
        /\ \A t \in Slot \ {s} : call[t].job \notin Signing
        /\ Ending(s, call[s].item)

(* While its calls neither overlap nor fail, a page knows the version it has   *)
(* made: what it shows, or what the answer it is to show was read at.          *)
ShowsInv ==
    ~mixed =>
        /\ \A s \in Slot : call[s].job # "gone"
        /\ \A s, t \in Slot : PageCall(s) /\ PageCall(t) => s = t
        /\ \A s \in Slot : PageCall(s) /\ call[s].pc = "served" /\ call[s].out = "ok"
                           => call[s].item = version

SessionInv ==
    /\ SpentInv /\ RefreshInv /\ StaleInv /\ OneSession
    /\ EjectInv /\ ClosingInv /\ SignedOutForGood

TabInv == TypesInv /\ SessionInv /\ ShowsInv /\ ShowsItsActs

--------------------------------------------------------------------------------
(* What a call may become *)

LEMMA GoodFree ==
    ASSUME NEW k \in Nat, NEW v \in Nat
    PROVE  GoodCall(Free, k, v)
<1>1. Free \in CallRecord
  BY DEF Free, CallRecord, Jobs, Pcs, Outs
<1> QED
  BY <1>1 DEF GoodCall, Free, Acting

LEMMA GoodMade ==
    ASSUME NEW k \in Session, NEW v \in Nat,
           NEW job \in {"me", "login", "eject", "logout", "gone"} \cup Acting,
           NEW by \in (0..k) \cup {None}, NEW item \in Row \cup Nat \cup {None},
           job \in {"logout", "eject"} => item \in (0..k) \cup {None},
           job = "login" => k < MaxLogins,
           NEW d, d = [job |-> job, pc |-> "sent", by |-> by, item |-> item,
                       again |-> FALSE, out |-> "none"]
    PROVE  /\ GoodCall(d, k, v) /\ ~d.again
           /\ d.job = job /\ d.pc = "sent" /\ d.by = by /\ d.item = item /\ d.out = "none"
<1>1. by \in Session \cup {None}
  BY BoundAssumption DEF Session
<1>2. d \in CallRecord
  BY <1>1 DEF CallRecord, Jobs, Pcs, Outs
<1>3. /\ d.job = job /\ d.pc = "sent" /\ d.by = by /\ d.item = item /\ d.out = "none"
      /\ d.again = FALSE
  OBVIOUS
<1>4. ~d.again
  BY <1>3, Zenon
<1> QED
  BY <1>2, <1>3, <1>4 DEF GoodCall, Acting

(* A call that is overtaken, waits, goes on or fails. *)
LEMMA GoodPc ==
    ASSUME NEW k \in Nat, NEW v \in Nat, NEW c, GoodCall(c, k, v), c.pc # "free",
           NEW pc \in {"await", "resume", "failed"}, c.job = "login" => pc = "failed",
           NEW d, d = [c EXCEPT !.pc = pc]
    PROVE  /\ GoodCall(d, k, v) /\ d.pc = pc
           /\ d.job = c.job /\ d.by = c.by /\ d.item = c.item
           /\ d.again = c.again /\ d.out = c.out
<1>1. d \in CallRecord
  BY DEF GoodCall, CallRecord, Pcs
<1> QED
  BY <1>1 DEF GoodCall, CallRecord

(* A call that is made again. *)
LEMMA GoodAgain ==
    ASSUME NEW k \in Nat, NEW v \in Nat, NEW c, GoodCall(c, k, v),
           NEW d, d = [c EXCEPT !.again = TRUE]
    PROVE  /\ GoodCall(d, k, v)
           /\ d.job = c.job /\ d.pc = c.pc /\ d.by = c.by /\ d.item = c.item /\ d.out = c.out
<1>1. d \in CallRecord
  BY DEF GoodCall, CallRecord
<1> QED
  BY <1>1 DEF GoodCall, CallRecord

(* A call that is made without a token. *)
LEMMA GoodBare ==
    ASSUME NEW k \in Nat, NEW v \in Nat, NEW c, GoodCall(c, k, v),
           NEW d, d = [c EXCEPT !.by = None]
    PROVE  /\ GoodCall(d, k, v) /\ d.by = None
           /\ d.job = c.job /\ d.pc = c.pc /\ d.item = c.item /\ d.again = c.again /\ d.out = c.out
<1>1. d \in CallRecord
  BY DEF GoodCall, CallRecord
<1> QED
  BY <1>1 DEF GoodCall, CallRecord

LEMMA GoodGrows ==
    ASSUME NEW c, NEW k \in Nat, NEW v \in Nat, GoodCall(c, k, v),
           NEW l \in Nat, NEW w \in Nat, k <= l, v <= w, c.job = "login" => k = l
    PROVE  GoodCall(c, l, w)
BY DEF GoodCall

--------------------------------------------------------------------------------
(* What leaves each part of the invariant alone *)

(* One call changes. *)
LEMMA OneCall ==
    ASSUME TypesInv, NEW s \in Slot, call' = [call EXCEPT ![s] = call'[s]],
           GoodCall(call'[s], logins', version'),
           logins' \in Nat, logins <= logins', version' \in Nat, version <= version',
           \A t \in Slot \ {s} : call[t].job = "login" => logins' = logins,
           call'[s].job \in {"login", "eject"} =>
              \/ call[s].job \in {"login", "eject"}
              \/ \A t \in Slot : call[t].job \notin {"login", "eject"}
    PROVE  /\ CallsOK' /\ LoginInv'
           /\ \A t \in Slot \ {s} : call'[t] = call[t]
<1>1. /\ call \in [Slot -> CallRecord] /\ logins \in Nat /\ version \in Nat
      /\ \A t \in Slot : GoodCall(call[t], logins, version)
  BY BoundAssumption DEF TypesInv, CallsOK, RestOK, KnownInv, Session
<1>2. \A t \in Slot \ {s} : call'[t] = call[t]
  BY <1>1
<1>3. call'[s] \in CallRecord
  BY DEF GoodCall
<1>4. call' \in [Slot -> CallRecord]
  BY <1>1, <1>3
<1>5. ASSUME NEW t \in Slot PROVE GoodCall(call'[t], logins', version')
  <2>1. CASE t = s
    BY <2>1
  <2>2. CASE t # s
    BY <1>1, <1>2, <2>2, GoodGrows
  <2> QED
    BY <2>1, <2>2
<1>6. LoginInv'
  <2> SUFFICES ASSUME NEW t \in Slot, NEW u \in Slot,
                      call'[t].job \in {"login", "eject"}, call'[u].job \in {"login", "eject"}
               PROVE  t = u
    BY DEF LoginInv
  <2> QED
    BY <1>2 DEF LoginInv, TypesInv
<1> QED
  BY <1>2, <1>4, <1>5, <1>6 DEF CallsOK

LEMMA OneCallOnly ==
    ASSUME TypesInv, NEW s \in Slot, call' = [call EXCEPT ![s] = call'[s]],
           UNCHANGED <<logins, version>>, GoodCall(call'[s], logins, version),
           call'[s].job \in {"login", "eject"} => call[s].job \in {"login", "eject"}
    PROVE  /\ CallsOK' /\ LoginInv'
           /\ \A t \in Slot \ {s} : call'[t] = call[t]
<1>1. logins \in Nat /\ version \in Nat
  BY BoundAssumption DEF TypesInv, RestOK, KnownInv, Session
<1> QED
  BY <1>1, OneCall

(* Calls wait, go on or fail where they are, or are no longer the page's. *)
LEMMA ManyCalls ==
    ASSUME TypesInv, UNCHANGED <<logins, version>>, call' \in [Slot -> CallRecord],
           \A t \in Slot : GoodCall(call'[t], logins, version),
           \A t \in Slot : call'[t].job \in {"login", "eject"} => call[t].job \in {"login", "eject"}
    PROVE  CallsOK' /\ LoginInv'
BY DEF TypesInv, CallsOK, LoginInv

(* A request goes with the token there is. *)
LEMMA MadeOK ==
    ASSUME TypesInv, NEW v \in Nat,
           NEW job \in {"me", "login", "eject", "logout", "gone"} \cup Acting,
           NEW item \in Row \cup Nat \cup {None},
           job \in {"logout", "eject"} => item \in Known \cup {None},
           job = "login" => logins < MaxLogins
    PROVE  /\ GoodCall(Made(job, item), logins, v) /\ ~Made(job, item).again
           /\ Made(job, item).job = job /\ Made(job, item).pc = "sent"
           /\ Made(job, item).item = item /\ Made(job, item).out = "none"
           /\ Made(job, item).by = IF token.fresh THEN token.of ELSE None
<1> DEFINE by == IF token.fresh THEN token.of ELSE None
<1>1. by \in (0..logins) \cup {None} /\ logins \in Session
  BY DEF TypesInv, KnownInv, Known
<1>2. Made(job, item) = [job |-> job, pc |-> "sent", by |-> by, item |-> item,
                         again |-> FALSE, out |-> "none"]
  BY Zenon DEF Made
<1> HIDE DEF by
<1>3. /\ GoodCall(Made(job, item), logins, v) /\ ~Made(job, item).again
      /\ Made(job, item).job = job /\ Made(job, item).pc = "sent"
      /\ Made(job, item).item = item /\ Made(job, item).out = "none"
      /\ Made(job, item).by = by
  BY <1>1, <1>2, GoodMade DEF Known
<1> USE DEF by
<1> QED
  BY <1>3

(* The sessions, while signing in and out stands still. *)
LEMMA SessionKept ==
    ASSUME SessionInv, UNCHANGED <<client, live, spent, logins, lost, ended>>,
           \A t \in Slot : call'[t] # call[t] => call[t].job \notin Signing /\ call'[t].job \notin Signing
    PROVE  SessionInv'
<1> USE DEF client
<1>1. SpentInv' /\ RefreshInv' /\ StaleInv' /\ OneSession' /\ SignedOutForGood'
  BY DEF SessionInv, SpentInv, RefreshInv, StaleInv, OneSession, SignedOutForGood
<1>2. \A b : Only(b)' <=> Only(b)
  BY DEF Only
<1>3. EjectInv'
  BY <1>2 DEF SessionInv, EjectInv, Signing, Known
<1>4. ClosingInv'
  <2> SUFFICES ASSUME NEW t \in Slot, ~lost, call'[t].job \in {"logout", "eject"}, call'[t].item \in live
               PROVE  /\ \A u \in Slot \ {t} : call'[u].job \notin Signing
                      /\ Ending(t, call[t].item)' /\ call'[t] = call[t]
    BY DEF ClosingInv
  <2>1. call'[t] = call[t]
    BY DEF Signing
  <2>2. (\A u \in Slot \ {t} : call[u].job \notin Signing) /\ Ending(t, call[t].item)
    BY <2>1 DEF SessionInv, ClosingInv
  <2> QED
    BY <2>1, <2>2 DEF Ending
<1> QED
  BY <1>1, <1>3, <1>4 DEF SessionInv

(* Once an answer is lost, or a sign-out refused, no more is promised. *)
LEMMA SessionLost ==
    ASSUME SignedOutForGood, lost', UNCHANGED <<live, ended>>
    PROVE  SessionInv'
BY DEF SessionInv, SpentInv, RefreshInv, StaleInv, OneSession, EjectInv, ClosingInv, SignedOutForGood

(* The page, while none of its calls starts, is answered or ends. *)
LEMMA PageKept ==
    ASSUME ShowsInv, ShowsItsActs, UNCHANGED <<page, shown, version, mixed>>,
           \A t \in Slot :
              \/ call'[t] = call[t]
              \/ call'[t].job = call[t].job /\ call'[t].pc # "served"
              \/ call[t].job \notin Acting /\ call'[t].job \notin Acting \cup {"gone"}
    PROVE  ShowsInv' /\ ShowsItsActs'
<1>1. ASSUME NEW t \in Slot PROVE PageCall(t)' <=> PageCall(t)
  BY DEF PageCall
<1>2. ShowsInv'
  BY <1>1 DEF ShowsInv, PageCall, Acting
<1>3. ShowsItsActs'
  BY <1>1 DEF ShowsItsActs
<1> QED
  BY <1>2, <1>3

(* A session is a number. *)
LEMMA KnownNotNone ==
    ASSUME KnownInv
    PROVE  /\ Known \subseteq Session /\ logins \in Nat /\ 0 \in Known
           /\ None \notin Known /\ None \notin live
<1>1. logins \in 0..MaxLogins
  BY DEF KnownInv, Session
<1>2. Known \subseteq Nat /\ Known \subseteq 0..MaxLogins /\ 0 \in Known
  BY <1>1, BoundAssumption DEF Known
<1>3. None \notin Known
  BY <1>2, NoneAssumption
<1>4. live \subseteq Known
  BY DEF KnownInv
<1>5. None \notin live
  BY <1>3, <1>4
<1>6. Known \subseteq Session
  BY <1>2 DEF Session
<1> QED
  BY <1>1, <1>2, <1>3, <1>5, <1>6, BoundAssumption

--------------------------------------------------------------------------------
(* The client's steps *)

LEMMA ServeRefreshKeeps ==
    ASSUME TabInv, ServeRefresh
    PROVE  TabInv'
<1> USE BoundAssumption, NoneAssumption DEF provider, server, screen, history, Session
<1>1. /\ ref.pc = "sent" /\ ref' = [pc |-> "served", by |-> ref.by, ok |-> ref.by \in live \ spent]
      /\ spent' = IF ref.by \in live THEN spent \cup {ref.by} ELSE spent
      /\ UNCHANGED <<provider, token, cookie, call, live, logins, screen, history>>
  BY DEF ServeRefresh, TabInv, TypesInv, RestOK
<1>2. ref' \in [pc : {"none", "sent", "served"}, by : Session \cup {None}, ok : BOOLEAN]
  <2>1. (ref.by \in live \ spent) \in BOOLEAN
    OBVIOUS
  <2> QED
    BY <1>1, <2>1 DEF TabInv, TypesInv, RestOK
<1>3. /\ ref'.pc = "served" /\ ref'.by = ref.by
      /\ ref'.ok <=> ref.by \in live \ spent
  BY <1>1, Zenon
<1>4. TypesInv'
  <2>1. TypeOK'
    BY <1>1 DEF TabInv, TypesInv, TypeOK
  <2>2. CallsOK' /\ LoginInv'
    BY <1>1 DEF TabInv, TypesInv, CallsOK, LoginInv
  <2>3. RestOK' /\ KnownInv'
    BY <1>1, <1>2, <1>3 DEF TabInv, TypesInv, RestOK, KnownInv, Known
  <2> QED
    BY <2>1, <2>2, <2>3 DEF TypesInv
<1>5. SpentInv' /\ RefreshInv' /\ StaleInv'
  <2>1. ~lost => spent = {}
    BY <1>1 DEF TabInv, SessionInv, SpentInv
  <2>2. ~lost => (ref'.ok <=> ref.by \in live)
    BY <1>3, <2>1
  <2>3. SpentInv'
    BY <1>1, <1>3, <2>1, <2>2 DEF SpentInv
  <2>4. RefreshInv'
    BY <1>1, <1>3, <2>2 DEF RefreshInv
  <2>5. StaleInv'
    BY <1>1, <1>3 DEF TabInv, SessionInv, StaleInv
  <2> QED
    BY <2>3, <2>4, <2>5
<1>6. OneSession' /\ SignedOutForGood'
  BY <1>1 DEF TabInv, SessionInv, OneSession, SignedOutForGood
<1>7. EjectInv'
  <2>1. \A b : Only(b)' <=> Only(b)
    BY <1>1, <1>3 DEF Only
  <2> QED
    BY <1>1, <2>1 DEF TabInv, SessionInv, EjectInv, Known
<1>8. ClosingInv'
  <2>1. \A s \in Slot, b \in live : Ending(s, b) => Ending(s, b)'
    BY <1>1, <1>3 DEF Ending
  <2> QED
    BY <1>1, <2>1 DEF TabInv, SessionInv, ClosingInv
<1>9. ShowsInv' /\ ShowsItsActs'
  BY <1>1, PageKept DEF TabInv
<1> QED
  BY <1>4, <1>5, <1>6, <1>7, <1>8, <1>9 DEF TabInv, SessionInv

(* Every call that waits is woken. *)
LEMMA Woken ==
    ASSUME TypesInv, NEW pc \in {"resume", "failed"}, Wake(pc), UNCHANGED <<logins, version>>
    PROVE  /\ CallsOK' /\ LoginInv'
           /\ \A t \in Slot : call[t].pc # "await" => call'[t] = call[t]
           /\ \A t \in Slot : call[t].pc = "await" =>
                /\ call'[t].pc = pc /\ call'[t].job = call[t].job /\ call'[t].by = call[t].by
                /\ call'[t].item = call[t].item
<1>1. /\ call \in [Slot -> CallRecord] /\ logins \in Nat /\ version \in Nat
      /\ \A t \in Slot : GoodCall(call[t], logins, version)
  BY BoundAssumption DEF TypesInv, CallsOK, RestOK, KnownInv, Session
<1>2. call' = [s \in Slot |-> IF call[s].pc = "await" THEN [call[s] EXCEPT !.pc = pc] ELSE call[s]]
  BY DEF Wake
<1>3. ASSUME NEW t \in Slot, call[t].pc = "await"
      PROVE  /\ GoodCall(call'[t], logins, version) /\ call'[t].pc = pc
             /\ call'[t].job = call[t].job /\ call'[t].by = call[t].by
             /\ call'[t].item = call[t].item
  <2>1. call'[t] = [call[t] EXCEPT !.pc = pc]
    BY <1>2, <1>3
  <2>2. call[t].pc # "free" /\ call[t].job # "login"
    BY <1>1, <1>3 DEF GoodCall
  <2> QED
    BY <1>1, <1>3, <2>1, <2>2, GoodPc
<1>4. ASSUME NEW t \in Slot, call[t].pc # "await"
      PROVE  GoodCall(call'[t], logins, version) /\ call'[t] = call[t]
  BY <1>1, <1>2, <1>4
<1>5. call' \in [Slot -> CallRecord]
  BY <1>2, <1>3, <1>4 DEF GoodCall
<1>6. CallsOK' /\ LoginInv'
  BY <1>3, <1>4, <1>5, ManyCalls
<1> QED
  BY <1>3, <1>4, <1>6

LEMMA RefreshedKeeps ==
    ASSUME TabInv, Refreshed
    PROVE  TabInv'
<1> USE BoundAssumption, NoneAssumption DEF provider, server, screen, history, Session
<1>1. /\ ref.pc = "served" /\ ref' = NoRef
      /\ cookie' = IF ref.ok THEN ref.by ELSE IF ref.by = None THEN cookie ELSE None
      /\ spent' = IF ref.ok THEN spent \ {ref.by} ELSE spent
      /\ UNCHANGED <<provider, live, logins, screen, history>>
  BY DEF Refreshed
<1>2. /\ token' \in [of : Session \cup {None}, fresh : BOOLEAN]
      /\ token'.of = IF ref.ok THEN ref.by ELSE None
      /\ token'.fresh <=> ref.ok
  <2>1. token' = [of |-> IF ref.ok THEN ref.by ELSE None, fresh |-> ref.ok]
    BY DEF Refreshed
  <2>2. ref.ok \in BOOLEAN /\ (IF ref.ok THEN ref.by ELSE None) \in Session \cup {None}
    BY DEF TabInv, TypesInv, RestOK
  <2>3. token' \in [of : Session \cup {None}, fresh : BOOLEAN]
    BY <2>1, <2>2
  <2>4. token'.fresh <=> ref.ok
    BY <2>1, Zenon
  <2> QED
    BY <2>1, <2>3, <2>4
<1>3. PICK pc \in {"resume", "failed"} : /\ Wake(pc)
                                        /\ (ref.ok => pc = "resume")
                                        /\ (~ref.ok => pc = "failed")
  BY DEF Refreshed
<1>4. /\ CallsOK' /\ LoginInv'
      /\ \A t \in Slot : call[t].pc # "await" => call'[t] = call[t]
      /\ \A t \in Slot : call[t].pc = "await" =>
           /\ call'[t].pc = pc /\ call'[t].job = call[t].job /\ call'[t].by = call[t].by
           /\ call'[t].item = call[t].item
  BY <1>1, <1>3, Woken DEF TabInv
<1>5. TypesInv'
  <2>1. TypeOK'
    BY <1>1, <1>2 DEF TabInv, TypesInv, TypeOK, RestOK
  <2>2. RestOK' /\ KnownInv'
    BY <1>1, <1>2 DEF TabInv, TypesInv, RestOK, KnownInv, Known, NoRef
  <2> QED
    BY <1>4, <2>1, <2>2 DEF TypesInv
<1>6. SpentInv' /\ RefreshInv' /\ StaleInv' /\ OneSession' /\ SignedOutForGood'
  <2>1. ref'.pc = "none"
    BY <1>1 DEF NoRef
  <2>2. ~lost => spent' = {}
    BY <1>1 DEF TabInv, SessionInv, SpentInv
  <2>3. None \notin live
    BY KnownNotNone DEF TabInv, TypesInv, KnownInv
  <2> QED
    BY <1>1, <1>2, <2>1, <2>2, <2>3 DEF TabInv, SessionInv, SpentInv, RefreshInv, StaleInv,
       OneSession, SignedOutForGood
<1>8. EjectInv'
  <2> SUFFICES ASSUME NEW s \in Slot, ~lost, call'[s].job = "eject"
               PROVE  /\ call'[s].pc = "resume" => \E b \in Known : Only(b)'
                      /\ call'[s].pc \in {"sent", "served"} /\ call'[s].by # None => Only(call[s].by)'
                      /\ call'[s].pc = "served" /\ call'[s].out = "ok" => call'[s].by \notin live \cup {None}
    BY <1>1 DEF EjectInv, Known
  <2>1. CASE call[s].pc = "await"
    <3>1. PICK b \in Known : token'.of \in {b, None} /\ (ref.ok => cookie' \in {b, None})
      <4>1. 0 \in Known /\ ref.by \in Known \cup {None}
        BY DEF TabInv, TypesInv, KnownInv, Known
      <4> QED
        BY <1>1, <1>2, <4>1
    <3>2. ref.ok => Only(b)'
      BY <1>1, <3>1 DEF Only, NoRef
    <3> QED
      BY <1>3, <1>4, <2>1, <3>2
  <2>2. CASE call[s].pc # "await"
    <3>1. call'[s] = call[s]
      BY <1>4, <2>2
    <3>2. ASSUME NEW b, Only(b) PROVE Only(b)'
      BY <1>1, <1>2, <3>2 DEF Only, NoRef
    <3>3. Only(call[s].by) => Only(call[s].by)'
      BY <1>1, <1>2, <3>1 DEF Only, NoRef
    <3> QED
      BY <3>1, <3>2, <3>3 DEF TabInv, SessionInv, EjectInv
  <2> QED
    BY <2>1, <2>2
<1>9. ClosingInv'
  <2> SUFFICES ASSUME NEW s \in Slot, ~lost, call'[s].job \in {"logout", "eject"},
                      call'[s].item \in live
               PROVE  /\ \A t \in Slot \ {s} : call'[t].job \notin Signing
                      /\ Ending(s, call[s].item)' /\ call'[s].item = call[s].item
    BY <1>1 DEF ClosingInv
  <2>1. \A t \in Slot : call'[t].job = call[t].job /\ call'[t].item = call[t].item
    BY <1>4
  <2>2. (\A t \in Slot \ {s} : call[t].job \notin Signing) /\ Ending(s, call[s].item)
    BY <2>1 DEF TabInv, SessionInv, ClosingInv
  <2>3. ref.by = call[s].item => ref.ok
    BY <1>1, <2>1 DEF TabInv, SessionInv, RefreshInv
  <2>4. Ending(s, call[s].item)'
    BY <1>1, <1>2, <1>3, <1>4, <2>2, <2>3 DEF Ending, NoRef
  <2> QED
    BY <2>1, <2>2, <2>4
<1>10. ShowsInv' /\ ShowsItsActs'
  <2>1. \A t \in Slot : \/ call'[t] = call[t]
                      \/ (call'[t].job = call[t].job /\ call'[t].pc # "served")
    BY <1>3, <1>4
  <2> QED
    BY <1>1, <2>1, PageKept DEF TabInv
<1> QED
  BY <1>5, <1>6, <1>8, <1>9, <1>10 DEF TabInv, SessionInv

LEMMA RefreshLostKeeps ==
    ASSUME TabInv, RefreshLost
    PROVE  TabInv'
<1> USE BoundAssumption, NoneAssumption DEF provider, server, screen, Session
<1>1. /\ ref' = NoRef /\ token' = [of |-> None, fresh |-> FALSE]
      /\ lost' = TRUE /\ Wake("failed")
      /\ UNCHANGED <<provider, cookie, server, screen, ended, mixed>>
  BY DEF RefreshLost
<1>2. /\ CallsOK' /\ LoginInv'
      /\ \A t \in Slot : \/ call'[t] = call[t]
                         \/ (call'[t].job = call[t].job /\ call'[t].pc # "served")
  BY <1>1, Woken DEF TabInv
<1>3. TypesInv'
  <2>1. TypeOK' /\ RestOK' /\ KnownInv'
    BY <1>1 DEF TabInv, TypesInv, TypeOK, RestOK, KnownInv, Known, NoRef
  <2> QED
    BY <1>2, <2>1 DEF TypesInv
<1>4. SessionInv'
  BY <1>1, SessionLost DEF TabInv, SessionInv
<1>5. ShowsInv' /\ ShowsItsActs'
  BY <1>1, <1>2, PageKept DEF TabInv
<1> QED
  BY <1>3, <1>4, <1>5 DEF TabInv

LEMMA ExpireKeeps ==
    ASSUME TabInv, Expire
    PROVE  TabInv'
<1> USE DEF provider, server, screen, history
<1>1. /\ ref.pc = "none" /\ \A s \in Slot : call[s].pc # "resume"
      /\ token' = [token EXCEPT !.fresh = FALSE]
      /\ UNCHANGED <<provider, ref, cookie, call, server, screen, history>>
  BY DEF Expire
<1>2. token' \in [of : Session \cup {None}, fresh : BOOLEAN] /\ token'.of = token.of
  BY <1>1 DEF TabInv, TypesInv, TypeOK
<1>3. TypesInv'
  BY <1>1, <1>2 DEF TabInv, TypesInv, TypeOK, CallsOK, RestOK, KnownInv, Known, LoginInv
<1>4. SessionInv'
  <2>1. SpentInv' /\ RefreshInv' /\ StaleInv' /\ OneSession' /\ SignedOutForGood'
    BY <1>1, <1>2 DEF TabInv, SessionInv, SpentInv, RefreshInv, StaleInv, OneSession, SignedOutForGood
  <2>2. EjectInv'
    BY <1>1, <1>2 DEF TabInv, SessionInv, EjectInv, Only, Known
  <2>3. ClosingInv'
    BY <1>1, <1>2 DEF TabInv, SessionInv, ClosingInv, Ending
  <2> QED
    BY <2>1, <2>2, <2>3 DEF SessionInv
<1>5. ShowsInv' /\ ShowsItsActs'
  BY <1>1, PageKept DEF TabInv
<1> QED
  BY <1>3, <1>4, <1>5 DEF TabInv

(* A refresh begins with the cookie there is, or joins the one in flight. *)
LEMMA Refreshing ==
    ASSUME TabInv, refresh, UNCHANGED <<token, cookie, live, spent, logins, lost, ended>>
    PROVE  /\ ref' \in [pc : {"none", "sent", "served"}, by : Session \cup {None}, ok : BOOLEAN]
           /\ ref'.pc # "none" /\ ref'.by \in Known \cup {None}
           /\ ref'.by = IF ref.pc # "none" THEN ref.by ELSE cookie
           /\ SpentInv' /\ RefreshInv' /\ StaleInv' /\ OneSession' /\ SignedOutForGood'
<1>1. CASE ref.pc # "none"
  <2>1. ref' = ref
    BY <1>1 DEF refresh
  <2> QED
    BY <1>1, <2>1 DEF TabInv, TypesInv, RestOK, KnownInv, SessionInv, SpentInv, RefreshInv,
       StaleInv, OneSession, SignedOutForGood
<1>2. CASE ref.pc = "none"
  <2>1. ref' = [pc |-> "sent", by |-> cookie, ok |-> FALSE]
    BY <1>2 DEF refresh
  <2>2. ref'.pc = "sent" /\ ref'.by = cookie
    BY <2>1
  <2>3. cookie \in Known \cup {None} /\ cookie \in Session \cup {None}
    BY DEF TabInv, TypesInv, TypeOK, KnownInv
  <2>4. ref' \in [pc : {"none", "sent", "served"}, by : Session \cup {None}, ok : BOOLEAN]
    BY <2>1, <2>3
  <2>5. SpentInv' /\ RefreshInv' /\ StaleInv' /\ OneSession' /\ SignedOutForGood'
    BY <1>2, <2>2 DEF TabInv, SessionInv, SpentInv, RefreshInv, StaleInv, OneSession, SignedOutForGood
  <2> QED
    BY <1>2, <2>2, <2>3, <2>4, <2>5
<1> QED
  BY <1>1, <1>2

LEMMA KeepFreshKeeps ==
    ASSUME TabInv, KeepFresh
    PROVE  TabInv'
<1> USE DEF provider, server, screen, history
<1>1. /\ ref.pc = "none" /\ refresh
      /\ UNCHANGED <<provider, token, cookie, call, server, screen, history>>
  BY DEF KeepFresh
<1>2. /\ ref' \in [pc : {"none", "sent", "served"}, by : Session \cup {None}, ok : BOOLEAN]
      /\ ref'.pc # "none" /\ ref'.by \in Known \cup {None} /\ ref'.by = cookie
      /\ SpentInv' /\ RefreshInv' /\ StaleInv' /\ OneSession' /\ SignedOutForGood'
  BY <1>1, Refreshing
<1>3. TypesInv'
  BY <1>1, <1>2 DEF TabInv, TypesInv, TypeOK, CallsOK, RestOK, KnownInv, Known, LoginInv
<1>4. EjectInv'
  BY <1>1, <1>2 DEF TabInv, SessionInv, EjectInv, Only, Known
<1>5. ClosingInv'
  BY <1>1, <1>2 DEF TabInv, SessionInv, ClosingInv, Ending
<1>6. ShowsInv' /\ ShowsItsActs'
  BY <1>1, PageKept DEF TabInv
<1> QED
  BY <1>2, <1>3, <1>4, <1>5, <1>6 DEF TabInv, SessionInv

LEMMA UnauthorisedKeeps ==
    ASSUME TabInv, NEW s \in Slot, Unauthorised(s)
    PROVE  TabInv'
<1> USE DEF provider, server, screen, history
<1>1. /\ call[s].pc = "served" /\ call[s].out = "unauthorised" /\ ~call[s].again
      /\ call' = [call EXCEPT ![s].pc = "await"] /\ refresh
      /\ UNCHANGED <<provider, token, cookie, server, screen, history>>
  BY DEF Unauthorised
<1>2. /\ call \in [Slot -> CallRecord] /\ logins \in Nat /\ version \in Nat
      /\ GoodCall(call[s], logins, version)
  BY KnownNotNone DEF TabInv, TypesInv, CallsOK, RestOK
<1>3. call'[s] = [call[s] EXCEPT !.pc = "await"] /\ call' = [call EXCEPT ![s] = call'[s]]
  BY <1>1, <1>2
<1>4. /\ GoodCall(call'[s], logins, version) /\ call'[s].pc = "await"
      /\ call'[s].job = call[s].job /\ call'[s].by = call[s].by /\ call'[s].item = call[s].item
  <2>1. call[s].job # "login"
    BY <1>1, <1>2 DEF GoodCall
  <2> QED
    BY <1>1, <1>2, <1>3, <2>1, GoodPc
<1>5. /\ CallsOK' /\ LoginInv'
      /\ \A t \in Slot \ {s} : call'[t] = call[t]
  BY <1>1, <1>3, <1>4, OneCallOnly DEF TabInv
<1>6. /\ ref' \in [pc : {"none", "sent", "served"}, by : Session \cup {None}, ok : BOOLEAN]
      /\ ref'.pc # "none" /\ ref'.by \in Known \cup {None}
      /\ ref'.by = IF ref.pc # "none" THEN ref.by ELSE cookie
      /\ SpentInv' /\ RefreshInv' /\ StaleInv' /\ OneSession' /\ SignedOutForGood'
  BY <1>1, Refreshing
<1>7. TypesInv'
  BY <1>1, <1>5, <1>6 DEF TabInv, TypesInv, TypeOK, RestOK, KnownInv, Known
<1>8. EjectInv'
  <2>1. \A b : Only(b) => Only(b)'
    BY <1>1, <1>6 DEF Only
  <2> SUFFICES ASSUME NEW t \in Slot, ~lost, call'[t].job = "eject"
               PROVE  /\ call'[t].pc = "resume" => \E b \in Known : Only(b)'
                      /\ call'[t].pc \in {"sent", "served"} /\ call'[t].by # None => Only(call[t].by)'
                      /\ call'[t].pc = "served" /\ call'[t].out = "ok" => call'[t].by \notin live \cup {None}
    BY <1>1 DEF EjectInv, Known
  <2>2. CASE t = s
    BY <1>4, <2>2
  <2>3. CASE t # s
    <3>1. call'[t] = call[t]
      BY <1>5, <2>3
    <3>2. Only(call[t].by) => Only(call[t].by)'
      BY <1>1, <1>6, <3>1 DEF Only
    <3> QED
      BY <2>1, <3>1, <3>2 DEF TabInv, SessionInv, EjectInv
  <2> QED
    BY <2>2, <2>3
<1>9. ClosingInv'
  <2> SUFFICES ASSUME NEW t \in Slot, ~lost, call'[t].job \in {"logout", "eject"},
                      call'[t].item \in live
               PROVE  /\ \A u \in Slot \ {t} : call'[u].job \notin Signing
                      /\ Ending(t, call[t].item)' /\ call'[t].item = call[t].item
    BY <1>1 DEF ClosingInv
  <2>1. \A u \in Slot : call'[u].job = call[u].job /\ call'[u].item = call[u].item
    BY <1>4, <1>5
  <2>2. (\A u \in Slot \ {t} : call[u].job \notin Signing) /\ Ending(t, call[t].item)
    BY <2>1 DEF TabInv, SessionInv, ClosingInv
  <2>3. Ending(t, call[t].item)'
    BY <1>1, <1>4, <1>5, <1>6, <2>1, <2>2 DEF Ending
  <2> QED
    BY <2>1, <2>2, <2>3
<1>10. ShowsInv' /\ ShowsItsActs'
  BY <1>1, <1>4, <1>5, PageKept DEF TabInv
<1> QED
  BY <1>6, <1>7, <1>8, <1>9, <1>10 DEF TabInv, SessionInv

LEMMA ResendKeeps ==
    ASSUME TabInv, NEW s \in Slot, Resend(s)
    PROVE  TabInv'
<1> USE BoundAssumption, NoneAssumption DEF provider, client, server, screen, history
<1> DEFINE by == IF token.fresh THEN token.of ELSE None
<1>1. /\ call[s].pc = "resume" /\ call[s].job # "boot"
      /\ call' = [call EXCEPT ![s] = [Made(call[s].job, call[s].item) EXCEPT !.again = TRUE]]
      /\ UNCHANGED <<provider, client, server, screen, history>>
  BY DEF Resend
<1>2. /\ call \in [Slot -> CallRecord] /\ logins \in Nat /\ version \in Nat
      /\ GoodCall(call[s], logins, version)
  BY KnownNotNone DEF TabInv, TypesInv, CallsOK, RestOK
<1>3. call'[s] = [Made(call[s].job, call[s].item) EXCEPT !.again = TRUE]
  BY <1>1, <1>2
<1>4. call' = [call EXCEPT ![s] = call'[s]]
  BY <1>1, <1>3
<1>5. /\ call[s].job \in {"me", "eject", "logout", "gone"} \cup Acting
      /\ call[s].item \in Row \cup Nat \cup {None}
      /\ call[s].job \in {"logout", "eject"} => call[s].item \in Known \cup {None}
  BY <1>1, <1>2 DEF GoodCall, CallRecord, Jobs, Known
<1>6. /\ GoodCall(Made(call[s].job, call[s].item), logins, version)
      /\ Made(call[s].job, call[s].item).job = call[s].job
      /\ Made(call[s].job, call[s].item).pc = "sent"
      /\ Made(call[s].job, call[s].item).item = call[s].item
      /\ Made(call[s].job, call[s].item).out = "none"
      /\ Made(call[s].job, call[s].item).by = by
  BY <1>2, <1>5, MadeOK DEF TabInv, Acting
<1> HIDE DEF by
<1>7. /\ GoodCall(call'[s], logins, version)
      /\ call'[s].job = call[s].job /\ call'[s].item = call[s].item /\ call'[s].by = by
      /\ call'[s].pc = "sent" /\ call'[s].out = "none"
  BY <1>2, <1>3, <1>6, GoodAgain
<1> USE DEF by
<1>8. /\ CallsOK' /\ LoginInv'
      /\ \A t \in Slot \ {s} : call'[t] = call[t]
  BY <1>1, <1>4, <1>7, OneCallOnly DEF TabInv
<1>9. TypesInv'
  BY <1>1, <1>8 DEF TabInv, TypesInv, TypeOK, RestOK, KnownInv, Known
<1>10. SpentInv' /\ RefreshInv' /\ StaleInv' /\ OneSession' /\ SignedOutForGood'
  BY <1>1 DEF TabInv, SessionInv, SpentInv, RefreshInv, StaleInv, OneSession, SignedOutForGood
<1>11. EjectInv'
  <2> SUFFICES ASSUME NEW t \in Slot, ~lost, call'[t].job = "eject"
               PROVE  /\ call'[t].pc = "resume" => \E b \in Known : Only(b)'
                      /\ call'[t].pc \in {"sent", "served"} /\ call'[t].by # None => Only(call[t].by)'
                      /\ call'[t].pc = "served" /\ call'[t].out = "ok" => call'[t].by \notin live \cup {None}
    BY <1>1 DEF EjectInv, Known
  <2>1. CASE t = s
    <3>1. PICK b \in Known : Only(b)
      BY <1>1, <1>7, <2>1 DEF TabInv, SessionInv, EjectInv
    <3>2. by \in {b, None}
      BY <3>1 DEF Only
    <3>3. by # None => Only(by)
      BY <3>1, <3>2
    <3> QED
      BY <1>1, <1>7, <2>1, <3>3 DEF Only
  <2>2. CASE t # s
    BY <1>1, <1>8, <2>2 DEF TabInv, SessionInv, EjectInv, Only
  <2> QED
    BY <2>1, <2>2
<1>12. ClosingInv'
  <2> SUFFICES ASSUME NEW t \in Slot, ~lost, call'[t].job \in {"logout", "eject"},
                      call'[t].item \in live
               PROVE  /\ \A u \in Slot \ {t} : call'[u].job \notin Signing
                      /\ Ending(t, call[t].item)' /\ call'[t].item = call[t].item
    BY <1>1 DEF ClosingInv
  <2>1. \A u \in Slot : call'[u].job = call[u].job /\ call'[u].item = call[u].item
    BY <1>7, <1>8
  <2>2. (\A u \in Slot \ {t} : call[u].job \notin Signing) /\ Ending(t, call[t].item)
    BY <2>1 DEF TabInv, SessionInv, ClosingInv
  <2>3. Ending(t, call[t].item)'
    BY <1>1, <1>7, <1>8, <2>1, <2>2 DEF Ending
  <2> QED
    BY <2>1, <2>2, <2>3
<1>13. ShowsInv' /\ ShowsItsActs'
  BY <1>1, <1>7, <1>8, PageKept DEF TabInv
<1> QED
  BY <1>9, <1>10, <1>11, <1>12, <1>13 DEF TabInv, SessionInv

(* Whose request or answer is lost on the way, it fails. *)
LEMMA CallLostKeeps ==
    ASSUME TabInv, NEW s \in Slot, CallLost(s)
    PROVE  TabInv'
<1> USE DEF provider, client, server, screen
<1>1. /\ call[s].pc \in {"sent", "served"} /\ call' = [call EXCEPT ![s].pc = "failed"]
      /\ lost' = TRUE
      /\ UNCHANGED <<provider, client, server, screen, ended, mixed>>
  BY DEF CallLost
<1>2. /\ call \in [Slot -> CallRecord] /\ logins \in Nat /\ version \in Nat
      /\ GoodCall(call[s], logins, version)
  BY KnownNotNone DEF TabInv, TypesInv, CallsOK, RestOK
<1>3. call'[s] = [call[s] EXCEPT !.pc = "failed"] /\ call' = [call EXCEPT ![s] = call'[s]]
  BY <1>1, <1>2
<1>4. /\ GoodCall(call'[s], logins, version) /\ call'[s].pc = "failed"
      /\ call'[s].job = call[s].job
  BY <1>1, <1>2, <1>3, GoodPc
<1>5. /\ CallsOK' /\ LoginInv'
      /\ \A t \in Slot \ {s} : call'[t] = call[t]
  BY <1>1, <1>3, <1>4, OneCallOnly DEF TabInv
<1>6. TypesInv'
  BY <1>1, <1>5 DEF TabInv, TypesInv, TypeOK, RestOK, KnownInv, Known
<1>7. SessionInv'
  BY <1>1, SessionLost DEF TabInv, SessionInv
<1>8. ShowsInv' /\ ShowsItsActs'
  BY <1>1, <1>4, <1>5, PageKept DEF TabInv
<1> QED
  BY <1>6, <1>7, <1>8 DEF TabInv

--------------------------------------------------------------------------------
(* The server's steps *)

LEMMA ServeLoginKeeps ==
    ASSUME TabInv, NEW s \in Slot, ServeLogin(s)
    PROVE  TabInv'
<1> USE BoundAssumption, NoneAssumption DEF provider, client, screen, history
<1>1. /\ call[s].pc = "sent" /\ call[s].job = "login"
      /\ UNCHANGED <<provider, client, spent, screen, history>>
  BY DEF ServeLogin, server
<1>2. /\ call \in [Slot -> CallRecord] /\ logins \in Nat /\ version \in Nat
      /\ GoodCall(call[s], logins, version) /\ logins < MaxLogins
      /\ live \subseteq Known /\ ended \subseteq Known \cup {None} /\ None \notin Known
  BY <1>1, KnownNotNone DEF TabInv, TypesInv, CallsOK, RestOK, KnownInv, GoodCall
<1>3. PICK k \in {logins, logins + 1}, out \in {"ok", "refused"} :
         /\ logins' = k
         /\ live' = live \cup (IF k = logins THEN {} ELSE {k})
         /\ call'[s].job = "login" /\ call'[s].pc = "served" /\ call'[s].out = out
         /\ GoodCall(call'[s], k, version)
         /\ call' = [call EXCEPT ![s] = call'[s]]
  <2>1. CASE call' = [call EXCEPT ![s].pc = "served", ![s].out = "refused"] /\ UNCHANGED server
    <3>1. call'[s] = [call[s] EXCEPT !.pc = "served", !.out = "refused"]
      BY <1>2, <2>1
    <3>2. /\ call'[s] \in CallRecord /\ call'[s].job = "login" /\ call'[s].pc = "served"
          /\ call'[s].out = "refused" /\ call'[s].by = call[s].by
      BY <1>1, <1>2, <3>1 DEF GoodCall, CallRecord, Pcs, Outs
    <3>3. GoodCall(call'[s], logins, version)
      BY <1>2, <3>2 DEF GoodCall, Acting
    <3> QED
      BY <1>2, <2>1, <3>1, <3>2, <3>3 DEF server
  <2>2. CASE /\ logins' = logins + 1 /\ live' = live \cup {logins + 1}
             /\ call' = [call EXCEPT ![s].pc = "served", ![s].out = "ok", ![s].by = logins + 1]
    <3>1. call'[s] = [call[s] EXCEPT !.pc = "served", !.out = "ok", !.by = logins + 1]
      BY <1>2, <2>2
    <3>2. logins + 1 \in Session
      BY <1>2 DEF Session
    <3>3. /\ call'[s] \in CallRecord /\ call'[s].job = "login" /\ call'[s].pc = "served"
          /\ call'[s].out = "ok" /\ call'[s].by = logins + 1
      BY <1>1, <1>2, <3>1, <3>2 DEF GoodCall, CallRecord, Pcs, Outs
    <3>4. GoodCall(call'[s], logins + 1, version)
      BY <1>2, <3>3 DEF GoodCall, Acting
    <3>5. call' = [call EXCEPT ![s] = call'[s]]
      BY <2>2, <3>1
    <3>6. logins + 1 # logins
      BY <1>2
    <3> WITNESS logins + 1 \in {logins, logins + 1}, "ok" \in {"ok", "refused"}
    <3> QED
      BY <2>2, <3>3, <3>4, <3>5, <3>6
  <2> QED
    BY <2>1, <2>2 DEF ServeLogin
<1>4. /\ k \in Nat /\ logins <= k /\ k \in Session
      /\ \A b \in Known : b \in live' <=> b \in live
      /\ live' \subseteq Known' /\ Known \subseteq Known'
      /\ None \notin live' /\ ended \cap live' = ended \cap live
  <2>1. k \in Nat /\ logins <= k /\ k \in Session /\ (k # logins => k = logins + 1)
    BY <1>2, <1>3 DEF Session
  <2>2. Known \subseteq Known' /\ k \in Known' /\ (k # logins => k \notin Known)
    BY <1>2, <1>3, <2>1 DEF Known
  <2>3. k # None
    BY <2>1
  <2>4. \A b : b \in live' <=> b \in live \/ (k # logins /\ b = k)
    BY <1>3
  <2> QED
    BY <1>2, <2>1, <2>2, <2>3, <2>4
<1>5. /\ CallsOK' /\ LoginInv'
      /\ \A t \in Slot \ {s} : call'[t] = call[t]
  <2>1. \A t \in Slot \ {s} : call[t].job # "login"
    BY <1>1 DEF TabInv, TypesInv, LoginInv
  <2>2. UNCHANGED version
    BY <1>1
  <2> QED
    BY <1>1, <1>2, <1>3, <1>4, <2>1, <2>2, OneCall DEF TabInv
<1>6. TypesInv'
  <2>1. TypeOK' /\ RestOK' /\ KnownInv'
    BY <1>1, <1>3, <1>4 DEF TabInv, TypesInv, TypeOK, RestOK, KnownInv, Known, Session
  <2> QED
    BY <1>5, <2>1 DEF TypesInv
<1>7. /\ token.of \in Known \cup {None} /\ ref.by \in Known \cup {None}
      /\ \A t \in Slot : /\ call[t].by \in Known \cup {None}
                         /\ call[t].job \in {"logout", "eject"} => call[t].item \in Known \cup {None}
  BY DEF TabInv, TypesInv, KnownInv, CallsOK, GoodCall, Known
<1>8. SpentInv' /\ RefreshInv' /\ StaleInv' /\ OneSession' /\ SignedOutForGood'
  BY <1>1, <1>4, <1>7 DEF TabInv, SessionInv, SpentInv, RefreshInv, StaleInv, OneSession, SignedOutForGood
<1>9. EjectInv'
  <2>1. Only(0)' <=> Only(0)
    BY <1>1 DEF Only
  <2> SUFFICES ASSUME NEW t \in Slot, ~lost, call'[t].job = "eject"
               PROVE  /\ call'[t].pc = "resume" => \E b \in Known' : Only(b)'
                      /\ call'[t].pc \in {"sent", "served"} /\ call'[t].by # None => Only(call[t].by)'
                      /\ call'[t].pc = "served" /\ call'[t].out = "ok" => call'[t].by \notin live' \cup {None}
                      /\ call'[t] = call[t]
    BY <1>1 DEF EjectInv
  <2>2. call'[t] = call[t]
    BY <1>3, <1>5
  <2>3. \A b : Only(b) => Only(b)'
    BY <1>1 DEF Only
  <2>4. Only(call[t].by) => Only(call[t].by)'
    BY <1>1, <2>2 DEF Only
  <2> QED
    BY <1>4, <1>7, <2>2, <2>3, <2>4 DEF TabInv, SessionInv, EjectInv
<1>10. ClosingInv'
  <2> SUFFICES ASSUME NEW t \in Slot, ~lost, call'[t].job \in {"logout", "eject"},
                      call'[t].item \in live'
               PROVE  FALSE
    BY <1>1 DEF ClosingInv
  <2>1. t # s /\ call'[t] = call[t]
    BY <1>3, <1>5
  <2>2. call[t].item \in live
    BY <1>4, <1>7, <2>1
  <2> QED
    BY <1>1, <2>1, <2>2 DEF TabInv, SessionInv, ClosingInv, Signing
<1>11. ShowsInv' /\ ShowsItsActs'
  BY <1>1, <1>3, <1>5, PageKept DEF TabInv, Acting
<1> QED
  BY <1>6, <1>8, <1>9, <1>10, <1>11 DEF TabInv, SessionInv

(* A served call has its answer, and its effect on sessions or rows. *)
LEMMA Served ==
    ASSUME TabInv, NEW s \in Slot, ServeCall(s)
    PROVE  /\ call[s].pc = "sent" /\ call[s].job # "login"
           /\ call' = [call EXCEPT ![s] = call'[s]]
           /\ GoodCall(call'[s], logins, version')
           /\ call'[s].pc = "served" /\ call'[s].job = call[s].job /\ call'[s].by = call[s].by
           /\ call'[s].again = call[s].again
           /\ call'[s].out \in {"ok", "refused", "unauthorised"}
           /\ call'[s].out = "unauthorised" => call[s].by \notin live
           /\ call'[s].out # "unauthorised" => call[s].by \in live
           /\ call[s].job \notin Acting => call'[s].item = call[s].item
           /\ call[s].job \in Acting /\ call'[s].out = "ok" => call'[s].item = version'
           /\ version' \in {version, version + 1}
           /\ version' # version => call[s].job = "act" /\ call'[s].out = "ok"
           /\ live' = IF call[s].job \in {"logout", "eject"} /\ call'[s].out = "ok"
                      THEN live \ {call[s].by} ELSE live
           /\ UNCHANGED <<provider, client, spent, logins, page, loaded, shown, busy, dialog, sent, history>>
<1> DEFINE Out(out) == [call[s] EXCEPT !.pc = "served", !.out = out]
<1>1. /\ call \in [Slot -> CallRecord] /\ logins \in Nat /\ version \in Nat
      /\ GoodCall(call[s], logins, version)
  BY KnownNotNone DEF TabInv, TypesInv, CallsOK, RestOK
<1>2. /\ call[s].pc = "sent" /\ call[s].job # "login"
      /\ UNCHANGED <<provider, client, spent, logins, page, loaded, shown, busy, dialog, sent, history>>
  BY DEF ServeCall
<1>3. ASSUME NEW out \in {"ok", "refused", "unauthorised"}
      PROVE  /\ Out(out) \in CallRecord /\ Out(out).job = call[s].job /\ Out(out).pc = "served"
             /\ Out(out).by = call[s].by /\ Out(out).item = call[s].item
             /\ Out(out).again = call[s].again /\ Out(out).out = out
  BY <1>1 DEF GoodCall, CallRecord, Pcs, Outs
<1>4. ASSUME NEW out \in {"refused", "unauthorised"}
      PROVE  GoodCall(Out(out), logins, version)
  BY <1>1, <1>2, <1>3 DEF GoodCall
<1>5. CASE /\ call' = [call EXCEPT ![s] = Out("unauthorised")] /\ call[s].by \notin live
           /\ UNCHANGED <<live, version>>
  <2>1. call'[s] = Out("unauthorised") /\ call' = [call EXCEPT ![s] = call'[s]]
    BY <1>1, <1>5
  <2> HIDE DEF Out
  <2> QED
    BY <1>1, <1>2, <1>3, <1>4, <1>5, <2>1
<1>6. CASE /\ call' = [call EXCEPT ![s] = Out("refused")] /\ call[s].by \in live
           /\ UNCHANGED <<live, version>>
  <2>1. call'[s] = Out("refused") /\ call' = [call EXCEPT ![s] = call'[s]]
    BY <1>1, <1>6
  <2> HIDE DEF Out
  <2> QED
    BY <1>1, <1>2, <1>3, <1>4, <1>6, <2>1
<1>7. CASE /\ call[s].by \in live
           /\ version' = IF call[s].job = "act" THEN version + 1 ELSE version
           /\ call' = [call EXCEPT ![s] = [Out("ok") EXCEPT !.item =
                         IF call[s].job \in Acting THEN version' ELSE @]]
           /\ live' = IF call[s].job \in {"logout", "eject"} THEN live \ {call[s].by} ELSE live
  <2>1. call'[s] = [Out("ok") EXCEPT !.item = IF call[s].job \in Acting THEN version' ELSE @]
    BY <1>1, <1>7
  <2>2. call' = [call EXCEPT ![s] = call'[s]]
    BY <1>7, <2>1
  <2>3. version' \in Nat /\ version' \in {version, version + 1}
    BY <1>1, <1>7
  <2> HIDE DEF Out
  <2>4. /\ call'[s] \in CallRecord /\ call'[s].job = call[s].job /\ call'[s].pc = "served"
        /\ call'[s].by = call[s].by /\ call'[s].again = call[s].again /\ call'[s].out = "ok"
        /\ call'[s].item = IF call[s].job \in Acting THEN version' ELSE call[s].item
    BY <1>3, <2>1, <2>3 DEF CallRecord
  <2>5. GoodCall(call'[s], logins, version')
    BY <1>1, <1>2, <2>3, <2>4 DEF GoodCall, Acting
  <2> QED
    BY <1>1, <1>2, <1>7, <2>2, <2>3, <2>4, <2>5
<1> QED
  BY <1>5, <1>6, <1>7 DEF ServeCall

LEMMA ServeCallKeeps ==
    ASSUME TabInv, NEW s \in Slot, ServeCall(s)
    PROVE  TabInv'
<1> USE BoundAssumption, NoneAssumption DEF provider, client, history
<1>1. /\ call[s].pc = "sent" /\ call[s].job # "login"
      /\ call' = [call EXCEPT ![s] = call'[s]]
      /\ GoodCall(call'[s], logins, version')
      /\ call'[s].pc = "served" /\ call'[s].job = call[s].job /\ call'[s].by = call[s].by
      /\ call'[s].out \in {"ok", "refused", "unauthorised"}
      /\ call'[s].out = "unauthorised" => call[s].by \notin live
      /\ call'[s].out # "unauthorised" => call[s].by \in live
      /\ call[s].job \notin Acting => call'[s].item = call[s].item
      /\ call[s].job \in Acting /\ call'[s].out = "ok" => call'[s].item = version'
      /\ version' \in {version, version + 1}
      /\ version' # version => call[s].job = "act" /\ call'[s].out = "ok"
      /\ live' = IF call[s].job \in {"logout", "eject"} /\ call'[s].out = "ok"
                 THEN live \ {call[s].by} ELSE live
      /\ UNCHANGED <<provider, client, spent, logins, page, loaded, shown, busy, dialog, sent, history>>
  BY Served
<1>2. call'[s].again = call[s].again
  BY Served
<1>3. /\ version \in Nat /\ logins \in Nat /\ version' \in Nat /\ version <= version'
      /\ live' \subseteq live
  BY <1>1, KnownNotNone DEF TabInv, TypesInv, RestOK
<1>4. /\ CallsOK' /\ LoginInv'
      /\ \A t \in Slot \ {s} : call'[t] = call[t]
  BY <1>1, <1>3, OneCall DEF TabInv
<1>5. TypesInv'
  <2>1. TypeOK'
    <3>1. shown \in 0..version \cup {None}
      BY DEF TabInv, TypesInv, TypeOK
    <3>2. shown' \in 0..version' \cup {None}
      BY <1>1, <1>3, <3>1
    <3> QED
      BY <1>1, <1>3, <3>2 DEF TabInv, TypesInv, TypeOK
  <2>2. RestOK' /\ KnownInv'
    BY <1>1, <1>3 DEF TabInv, TypesInv, RestOK, KnownInv, Known
  <2> QED
    BY <1>4, <2>1, <2>2 DEF TypesInv
<1>6. SpentInv' /\ RefreshInv' /\ StaleInv' /\ OneSession' /\ SignedOutForGood'
  BY <1>1, <1>3 DEF TabInv, SessionInv, SpentInv, RefreshInv, StaleInv, OneSession, SignedOutForGood
<1>7. EjectInv'
  <2> SUFFICES ASSUME NEW t \in Slot, ~lost, call'[t].job = "eject"
               PROVE  /\ call'[t].pc = "resume" => \E b \in Known : Only(b)'
                      /\ call'[t].pc \in {"sent", "served"} /\ call'[t].by # None => Only(call[t].by)'
                      /\ call'[t].pc = "served" /\ call'[t].out = "ok" => call'[t].by \notin live' \cup {None}
                      /\ call'[t].by = call[t].by
    BY <1>1 DEF EjectInv, Known
  <2>1. call'[t].by = call[t].by /\ call'[t].job = call[t].job
    BY <1>1, <1>4
  <2>2. \A b : Only(b) => Only(b)'
    BY <1>1 DEF Only
  <2>3. Only(call[t].by) => Only(call[t].by)'
    BY <1>1, <2>1 DEF Only
  <2>4. CASE t = s
    <3>1. None \notin live
      BY KnownNotNone DEF TabInv, TypesInv
    <3> QED
      BY <1>1, <2>1, <2>3, <2>4, <3>1 DEF TabInv, SessionInv, EjectInv
  <2>5. CASE t # s
    BY <1>3, <1>4, <2>1, <2>2, <2>3, <2>5 DEF TabInv, SessionInv, EjectInv
  <2> QED
    BY <2>4, <2>5
<1>8. ClosingInv'
  <2> SUFFICES ASSUME NEW t \in Slot, ~lost, call'[t].job \in {"logout", "eject"},
                      call'[t].item \in live'
               PROVE  /\ \A u \in Slot \ {t} : call'[u].job \notin Signing
                      /\ Ending(t, call[t].item)' /\ call'[t].item = call[t].item
    BY <1>1 DEF ClosingInv
  <2>1. /\ \A u \in Slot : call'[u].job = call[u].job
        /\ call'[t].item = call[t].item /\ call[t].item \in live
    BY <1>1, <1>3, <1>4 DEF Acting
  <2>2. (\A u \in Slot \ {t} : call[u].job \notin Signing) /\ Ending(t, call[t].item)
    BY <1>1, <2>1 DEF TabInv, SessionInv, ClosingInv
  <2>3. CASE t = s
    <3>1. None \notin live
      BY KnownNotNone DEF TabInv, TypesInv
    <3>2. call'[t].out # "ok"
      BY <1>1, <2>1, <2>2, <2>3, <3>1 DEF Ending
    <3>3. CASE call'[t].out = "refused"
      BY <1>1, <2>1, <2>2, <2>3, <3>3 DEF Ending
    <3>4. CASE call'[t].out = "unauthorised"
      <4>1. call[t].by # call[t].item
        BY <1>1, <2>1, <2>3, <3>4
      <4> QED
        BY <1>1, <1>2, <2>1, <2>2, <2>3, <3>4, <4>1 DEF Ending
    <3> QED
      BY <1>1, <2>1, <2>2, <2>3, <3>2, <3>3, <3>4
  <2>4. CASE t # s
    BY <1>1, <1>4, <2>1, <2>2, <2>4 DEF Ending
  <2> QED
    BY <2>3, <2>4
<1>9. ASSUME NEW t \in Slot PROVE PageCall(t)' <=> PageCall(t)
  BY <1>1, <1>4 DEF PageCall
<1>10. ShowsInv'
  <2> SUFFICES ASSUME ~mixed
               PROVE  /\ \A t \in Slot : call'[t].job # "gone"
                      /\ \A t, u \in Slot : PageCall(t)' /\ PageCall(u)' => t = u
                      /\ \A t \in Slot : PageCall(t)' /\ call'[t].pc = "served" /\ call'[t].out = "ok"
                                         => call'[t].item = version'
    BY <1>1 DEF ShowsInv
  <2>1. \A t \in Slot : call'[t].job # "gone"
    BY <1>1, <1>4 DEF TabInv, ShowsInv
  <2>2. \A t, u \in Slot : PageCall(t)' /\ PageCall(u)' => t = u
    BY <1>9 DEF TabInv, ShowsInv
  <2>3. ASSUME NEW t \in Slot, PageCall(t)', call'[t].pc = "served", call'[t].out = "ok"
        PROVE  call'[t].item = version'
    <3>1. CASE t = s
      BY <1>1, <2>3, <3>1 DEF PageCall
    <3>2. CASE t # s
      <4>1. ~PageCall(s) /\ PageCall(t)
        BY <1>9, <2>3, <3>2 DEF TabInv, ShowsInv
      <4>2. version' = version
        BY <1>1, <4>1 DEF PageCall, Acting
      <4> QED
        BY <1>4, <2>3, <3>2, <4>1, <4>2 DEF TabInv, ShowsInv
    <3> QED
      BY <3>1, <3>2
  <2> QED
    BY <2>1, <2>2, <2>3
<1>11. ShowsItsActs'
  <2>1. version' # version => PageCall(s)
    BY <1>1 DEF PageCall, Acting
  <2> QED
    BY <1>1, <1>9, <2>1 DEF TabInv, ShowsItsActs
<1> QED
  BY <1>5, <1>6, <1>7, <1>8, <1>10, <1>11 DEF TabInv, SessionInv

--------------------------------------------------------------------------------
(* The provider's steps *)

(* A call ends and another may take its place; the sessions do not move. *)
LEMMA Freed ==
    ASSUME TabInv, NEW s \in Slot, Done(s), UNCHANGED <<logins, version>>
    PROVE  /\ CallsOK' /\ LoginInv' /\ call'[s] = Free
           /\ \A t \in Slot \ {s} : call'[t] = call[t]
<1>1. /\ call \in [Slot -> CallRecord] /\ logins \in Nat /\ version \in Nat
  BY KnownNotNone DEF TabInv, TypesInv, CallsOK, RestOK
<1>2. call'[s] = Free /\ call' = [call EXCEPT ![s] = call'[s]]
  BY <1>1 DEF Done
<1>3. GoodCall(call'[s], logins, version)
  BY <1>1, <1>2, GoodFree
<1>4. call'[s].job = "none"
  BY <1>2 DEF Free
<1> QED
  BY <1>2, <1>3, <1>4, OneCallOnly DEF TabInv

(* The session ends, and the page with it. *)
LEMMA Bounced ==
    ASSUME TabInv, NEW s \in Slot, NEW to, Bounce(s, to), UNCHANGED <<logins, version>>
    PROVE  /\ CallsOK' /\ LoginInv' /\ call'[s] = Free
           /\ \A t \in Slot \ {s} : PageCall(t) => call'[t].job = "gone"
           /\ \A t \in Slot \ {s} : ~PageCall(t) => call'[t] = call[t]
           /\ status' = to /\ shown' = None /\ busy' = None /\ dialog' = None
           /\ mixed' \in BOOLEAN
           /\ ShowsInv' /\ ShowsItsActs'
<1>1. /\ call \in [Slot -> CallRecord] /\ logins \in Nat /\ version \in Nat
      /\ \A t \in Slot : GoodCall(call[t], logins, version)
  BY KnownNotNone DEF TabInv, TypesInv, CallsOK, RestOK
<1>2. call' = [t \in Slot |-> IF t = s THEN Free
                             ELSE IF PageCall(t) THEN [call[t] EXCEPT !.job = "gone"] ELSE call[t]]
  BY DEF Bounce
<1>3. call'[s] = Free /\ GoodCall(call'[s], logins, version) /\ call'[s].job = "none"
  BY <1>1, <1>2, GoodFree DEF Free
<1>4. ASSUME NEW t \in Slot \ {s}, PageCall(t)
      PROVE  call'[t].job = "gone" /\ GoodCall(call'[t], logins, version)
  <2>1. call'[t] = [call[t] EXCEPT !.job = "gone"]
    BY <1>2, <1>4
  <2>2. /\ call'[t] \in CallRecord /\ call'[t].job = "gone" /\ call'[t].pc = call[t].pc
        /\ call'[t].by = call[t].by
    BY <1>1, <2>1 DEF CallRecord, Jobs
  <2>3. call[t].pc # "free"
    BY <1>1, <1>4 DEF GoodCall, PageCall, Acting
  <2> QED
    BY <1>1, <2>2, <2>3 DEF GoodCall, Acting
<1>5. ASSUME NEW t \in Slot \ {s}, ~PageCall(t)
      PROVE  call'[t] = call[t] /\ GoodCall(call'[t], logins, version)
  BY <1>1, <1>2, <1>5
<1>6. call' \in [Slot -> CallRecord]
  BY <1>2, <1>3, <1>4, <1>5 DEF GoodCall
<1>7. CallsOK' /\ LoginInv'
  BY <1>3, <1>4, <1>5, <1>6, ManyCalls DEF TabInv
<1>8. mixed' = (mixed \/ \E t \in Slot : PageCall(t))
  BY DEF Bounce
<1>9. mixed' <=> mixed \/ \E t \in Slot : PageCall(t)
  BY <1>8, Zenon
<1>10. mixed' \in BOOLEAN
  BY <1>8, Zenon
<1>11. ShowsInv'
  <2>1. ~mixed' => \A t \in Slot : call'[t].job \notin Acting \cup {"gone"}
    BY <1>3, <1>5, <1>9 DEF TabInv, ShowsInv, PageCall, Acting
  <2> QED
    BY <2>1 DEF ShowsInv, PageCall
<1>12. status' = to /\ shown' = None /\ busy' = None /\ dialog' = None
  BY DEF Bounce
<1> QED
  BY <1>3, <1>4, <1>5, <1>7, <1>10, <1>11, <1>12 DEF ShowsItsActs

LEMMA GoneKeeps ==
    ASSUME TabInv, NEW s \in Slot, Gone(s)
    PROVE  TabInv'
<1> USE DEF provider, client, server, screen, history
<1>1. /\ call[s].job = "gone" /\ Done(s)
      /\ UNCHANGED <<provider, client, server, screen, history>>
  BY DEF Gone, Ends
<1>2. /\ CallsOK' /\ LoginInv' /\ call'[s] = Free
      /\ \A t \in Slot \ {s} : call'[t] = call[t]
  BY <1>1, Freed
<1>3. TypesInv'
  BY <1>1, <1>2 DEF TabInv, TypesInv, TypeOK, RestOK, KnownInv, Known
<1>4. SessionInv'
  BY <1>1, <1>2, SessionKept DEF TabInv, Signing, Free
<1>5. ShowsInv' /\ ShowsItsActs'
  BY <1>1, <1>2, PageKept DEF TabInv, Acting, Free
<1> QED
  BY <1>3, <1>4, <1>5 DEF TabInv

(* A step that ends the session of a boot or of a look-up of the user. *)
LEMMA BouncedOut ==
    ASSUME TabInv, NEW s \in Slot, call[s].job \in {"boot", "me"},
           NEW to \in {"unauthenticated", "forbidden"}, Bounce(s, to),
           UNCHANGED <<app, staff, client, server, page, version, sent, lost, ended>>
    PROVE  TabInv'
<1> USE DEF client, server
<1>1. UNCHANGED <<logins, version>>
  OBVIOUS
<1>2. /\ CallsOK' /\ LoginInv' /\ call'[s] = Free
      /\ \A t \in Slot \ {s} : PageCall(t) => call'[t].job = "gone"
      /\ \A t \in Slot \ {s} : ~PageCall(t) => call'[t] = call[t]
      /\ status' = to /\ shown' = None /\ busy' = None /\ dialog' = None
      /\ mixed' \in BOOLEAN /\ ShowsInv' /\ ShowsItsActs'
  BY <1>1, Bounced
<1>3. TypesInv'
  BY <1>2 DEF TabInv, TypesInv, TypeOK, RestOK, KnownInv, Known
<1>4. SessionInv'
  <2>1. ASSUME NEW t \in Slot, call'[t] # call[t]
        PROVE  call[t].job \notin Signing /\ call'[t].job \notin Signing
    BY <1>2, <2>1 DEF PageCall, Acting, Signing, Free
  <2> QED
    BY <2>1, SessionKept DEF TabInv
<1> QED
  BY <1>2, <1>3, <1>4 DEF TabInv

LEMMA BootRefreshedKeeps ==
    ASSUME TabInv, NEW s \in Slot, BootRefreshed(s)
    PROVE  TabInv'
<1>1. CASE call[s].pc = "failed" /\ Bounce(s, "unauthenticated")
  BY <1>1, BouncedOut DEF BootRefreshed
<1>2. CASE /\ call[s].pc = "resume" /\ Next1(s, Made("me", None))
           /\ UNCHANGED <<status, loaded, shown, busy, dialog, mixed>>
  <2> USE DEF client, server
  <2>1. /\ call[s].job = "boot"
        /\ UNCHANGED <<app, staff, client, server, page, version, sent, lost, ended>>
    BY DEF BootRefreshed
  <2>2. call \in [Slot -> CallRecord] /\ version \in Nat
    BY DEF TabInv, TypesInv, CallsOK, RestOK
  <2>3. call'[s] = Made("me", None) /\ call' = [call EXCEPT ![s] = call'[s]]
    BY <1>2, <2>2 DEF Next1
  <2>4. /\ GoodCall(call'[s], logins, version) /\ call'[s].job = "me"
    BY <2>2, <2>3, MadeOK DEF TabInv
  <2>5. /\ CallsOK' /\ LoginInv'
        /\ \A t \in Slot \ {s} : call'[t] = call[t]
    BY <2>1, <2>3, <2>4, OneCallOnly DEF TabInv
  <2>6. TypesInv'
    BY <1>2, <2>1, <2>5 DEF TabInv, TypesInv, TypeOK, RestOK, KnownInv, Known
  <2>7. SessionInv'
    BY <2>1, <2>4, <2>5, SessionKept DEF TabInv, Signing
  <2>8. ShowsInv' /\ ShowsItsActs'
    BY <1>2, <2>1, <2>4, <2>5, PageKept DEF TabInv, Acting
  <2> QED
    BY <2>6, <2>7, <2>8 DEF TabInv
<1> QED
  BY <1>1, <1>2 DEF BootRefreshed

LEMMA loadUserKeeps ==
    ASSUME TabInv, NEW s \in Slot, loadUser(s)
    PROVE  TabInv'
<1>1. /\ call[s].job = "me"
      /\ UNCHANGED <<app, staff, client, server, page, version, sent, lost, ended>>
  BY DEF loadUser, Ends
<1>2. CASE \E to \in {"unauthenticated", "forbidden"} : Bounce(s, to)
  BY <1>1, <1>2, BouncedOut
<1>3. CASE /\ status' = "authenticated" /\ Done(s)
           /\ UNCHANGED <<loaded, shown, busy, dialog, mixed>>
  <2> USE DEF client, server
  <2>1. /\ CallsOK' /\ LoginInv' /\ call'[s] = Free
        /\ \A t \in Slot \ {s} : call'[t] = call[t]
    BY <1>1, <1>3, Freed
  <2>2. TypesInv'
    BY <1>1, <1>3, <2>1 DEF TabInv, TypesInv, TypeOK, RestOK, KnownInv, Known
  <2>3. SessionInv'
    BY <1>1, <2>1, SessionKept DEF TabInv, Signing, Free
  <2>4. ShowsInv' /\ ShowsItsActs'
    BY <1>1, <1>3, <2>1, PageKept DEF TabInv, Acting, Free
  <2> QED
    BY <2>2, <2>3, <2>4 DEF TabInv
<1> QED
  BY <1>2, <1>3 DEF loadUser

LEMMA SignInKeeps ==
    ASSUME TabInv, NEW s \in Slot, SignIn(s)
    PROVE  TabInv'
<1> USE DEF provider, client, server, screen, history
<1>1. /\ logins < MaxLogins /\ call[s].pc = "free"
      /\ \A t \in Slot : call[t].job \notin {"login", "eject"}
      /\ call' = [t \in Slot |-> IF t = s THEN Made("login", None)
                                ELSE IF call[t].job = "logout" THEN [call[t] EXCEPT !.item = None]
                                ELSE call[t]]
      /\ UNCHANGED <<provider, client, server, screen, history>>
  BY DEF SignIn
<1>2. /\ call \in [Slot -> CallRecord] /\ logins \in Nat /\ version \in Nat
      /\ \A t \in Slot : GoodCall(call[t], logins, version)
      /\ None \notin live /\ call[s].job = "none"
  BY <1>1, KnownNotNone DEF TabInv, TypesInv, CallsOK, RestOK, GoodCall
<1>3. call'[s].job = "login" /\ GoodCall(call'[s], logins, version)
  <2>1. call'[s] = Made("login", None)
    BY <1>1
  <2> QED
    BY <1>1, <1>2, <2>1, MadeOK DEF TabInv
<1>4. ASSUME NEW t \in Slot \ {s}, call[t].job = "logout"
      PROVE  call'[t].job = "logout" /\ call'[t].item = None /\ GoodCall(call'[t], logins, version)
  <2>1. call'[t] = [call[t] EXCEPT !.item = None]
    BY <1>1, <1>4
  <2>2. /\ call'[t] \in CallRecord /\ call'[t].job = "logout" /\ call'[t].pc = call[t].pc
        /\ call'[t].by = call[t].by /\ call'[t].item = None
    BY <1>2, <1>4, <2>1 DEF CallRecord
  <2> QED
    BY <1>2, <1>4, <2>2 DEF GoodCall, Acting
<1>5. ASSUME NEW t \in Slot \ {s}, call[t].job # "logout"
      PROVE  call'[t] = call[t] /\ GoodCall(call'[t], logins, version)
  BY <1>1, <1>2, <1>5
<1>6. CallsOK' /\ LoginInv'
  <2>1. call' \in [Slot -> CallRecord]
    BY <1>1, <1>3, <1>4, <1>5 DEF GoodCall
  <2>2. CallsOK'
    BY <1>1, <1>3, <1>4, <1>5, <2>1 DEF CallsOK
  <2>3. \A t \in Slot : call'[t].job \in {"login", "eject"} => t = s
    BY <1>1, <1>4, <1>5
  <2> QED
    BY <2>2, <2>3 DEF LoginInv
<1>7. TypesInv'
  BY <1>1, <1>6 DEF TabInv, TypesInv, TypeOK, RestOK, KnownInv, Known
<1>8. SpentInv' /\ RefreshInv' /\ StaleInv' /\ OneSession' /\ SignedOutForGood'
  BY <1>1 DEF TabInv, SessionInv, SpentInv, RefreshInv, StaleInv, OneSession, SignedOutForGood
<1>9. EjectInv' /\ ClosingInv'
  <2>1. \A t \in Slot : /\ call'[t].job # "eject"
                        /\ call'[t].job = "logout" => call'[t].item = None
    BY <1>1, <1>3, <1>4, <1>5
  <2>2. EjectInv'
    BY <2>1 DEF EjectInv
  <2>3. ClosingInv'
    BY <1>1, <1>2, <2>1 DEF ClosingInv
  <2> QED
    BY <2>2, <2>3
<1>10. ShowsInv' /\ ShowsItsActs'
  BY <1>1, <1>2, <1>3, <1>4, <1>5, PageKept DEF TabInv, Acting
<1> QED
  BY <1>7, <1>8, <1>9, <1>10 DEF TabInv, SessionInv

LEMMA SignOutKeeps ==
    ASSUME TabInv, NEW s \in Slot, SignOut(s)
    PROVE  TabInv'
<1> USE DEF provider, client, server, screen, history
<1>1. /\ \A t \in Slot : call[t].job \notin Signing
      /\ call[s].pc = "free" /\ call' = [call EXCEPT ![s] = Made("logout", token.of)]
      /\ UNCHANGED <<provider, client, server, screen, history>>
  BY DEF SignOut, request, Signing
<1>2. /\ call \in [Slot -> CallRecord] /\ version \in Nat /\ logins \in Nat
      /\ token.of \in Known \cup {None} /\ Known \subseteq Nat
      /\ call[s].job = "none" /\ None \notin live
  BY <1>1, KnownNotNone DEF TabInv, TypesInv, CallsOK, RestOK, GoodCall, KnownInv, Known
<1>3. call'[s] = Made("logout", token.of) /\ call' = [call EXCEPT ![s] = call'[s]]
  BY <1>1, <1>2
<1>4. /\ GoodCall(call'[s], logins, version) /\ call'[s].job = "logout" /\ call'[s].pc = "sent"
      /\ ~call'[s].again /\ call'[s].item = token.of
      /\ call'[s].by = IF token.fresh THEN token.of ELSE None
  <2>1. token.of \in Row \cup Nat \cup {None}
    BY <1>2
  <2>2. /\ GoodCall(Made("logout", token.of), logins, version)
        /\ ~Made("logout", token.of).again
        /\ Made("logout", token.of).job = "logout" /\ Made("logout", token.of).pc = "sent"
        /\ Made("logout", token.of).item = token.of
        /\ Made("logout", token.of).by = IF token.fresh THEN token.of ELSE None
    BY <1>2, <2>1, MadeOK DEF TabInv
  <2> QED
    BY <1>3, <2>2
<1>5. /\ CallsOK' /\ LoginInv'
      /\ \A t \in Slot \ {s} : call'[t] = call[t]
  BY <1>1, <1>3, <1>4, OneCallOnly DEF TabInv
<1>6. TypesInv'
  BY <1>1, <1>5 DEF TabInv, TypesInv, TypeOK, RestOK, KnownInv, Known
<1>7. SpentInv' /\ RefreshInv' /\ StaleInv' /\ OneSession' /\ SignedOutForGood'
  BY <1>1 DEF TabInv, SessionInv, SpentInv, RefreshInv, StaleInv, OneSession, SignedOutForGood
<1>8. EjectInv'
  BY <1>1, <1>4, <1>5 DEF EjectInv, Signing
<1>9. ClosingInv'
  <2> SUFFICES ASSUME NEW t \in Slot, ~lost, call'[t].job \in {"logout", "eject"},
                      call'[t].item \in live
               PROVE  /\ \A u \in Slot \ {t} : call'[u].job \notin Signing
                      /\ Ending(t, token.of)' /\ call'[t].item = token.of
    BY <1>1 DEF ClosingInv
  <2>1. t = s
    BY <1>1, <1>5 DEF Signing
  <2>2. cookie = token.of
    BY <1>4, <2>1 DEF TabInv, SessionInv, OneSession
  <2>3. ~token.fresh /\ ref.pc # "none" => ref.by = token.of
    BY <1>4, <2>1 DEF TabInv, SessionInv, StaleInv
  <2>4. Ending(t, token.of)'
    BY <1>1, <1>4, <2>1, <2>2, <2>3 DEF Ending
  <2> QED
    BY <1>1, <1>4, <1>5, <2>1, <2>4
<1>10. ShowsInv' /\ ShowsItsActs'
  BY <1>1, <1>2, <1>4, <1>5, PageKept DEF TabInv, Acting
<1> QED
  BY <1>6, <1>7, <1>8, <1>9, <1>10 DEF TabInv, SessionInv

(* How the call that ended a session is answered. *)
LEMMA ClosedOK ==
    ASSUME TabInv, NEW s \in Slot, NEW ok \in BOOLEAN, call[s].job \in {"logout", "eject"},
           Ends(s, call[s].job, ok), Closed(s, ok), UNCHANGED live
    PROVE  /\ cookie' \in {cookie, None} /\ lost' \in BOOLEAN
           /\ ok => cookie' = None
           /\ call[s].pc # "free"
           /\ ok => call[s].pc = "served" /\ call[s].out = "ok"
           /\ ended' \subseteq ended \cup {call[s].item}
           /\ lost' = FALSE => lost = FALSE
           /\ SignedOutForGood'
<1>1. /\ cookie' = IF ok THEN None ELSE cookie
      /\ lost' = (lost \/ call[s].out = "refused")
      /\ ended' = IF lost' THEN ended ELSE ended \cup {call[s].item}
  BY DEF Closed
<1>2. lost' \in BOOLEAN /\ (lost' <=> lost \/ call[s].out = "refused")
  BY <1>1, Zenon
<1>3. /\ ok => call[s].pc = "served" /\ call[s].out = "ok"
      /\ ~ok => \/ call[s].pc = "failed"
                \/ call[s].pc = "served" /\ call[s].out = "refused"
                \/ call[s].pc = "served" /\ call[s].out = "unauthorised" /\ call[s].again
  BY DEF Ends
<1>4. SignedOutForGood'
  <2>1. CASE lost'
    BY <1>1, <2>1 DEF TabInv, SessionInv, SignedOutForGood
  <2>2. CASE ~lost'
    <3>1. ~Ending(s, call[s].item)
      BY <1>2, <1>3, <2>2 DEF Ending
    <3>2. call[s].item \notin live
      BY <1>2, <2>2, <3>1 DEF TabInv, SessionInv, ClosingInv
    <3> QED
      BY <1>1, <2>2, <3>2 DEF TabInv, SessionInv, SignedOutForGood
  <2> QED
    BY <2>1, <2>2
<1> QED
  BY <1>1, <1>2, <1>3, <1>4

LEMMA EjectedKeeps ==
    ASSUME TabInv, NEW s \in Slot, Ejected(s)
    PROVE  TabInv'
<1>1. PICK ok \in BOOLEAN :
         /\ Ends(s, "eject", ok) /\ Done(s) /\ Closed(s, ok) /\ status' = "forbidden"
         /\ UNCHANGED <<app, staff, token, ref, server, screen, mixed>>
  BY DEF Ejected
<1> USE DEF server, screen
<1>2. call[s].job = "eject"
  BY <1>1 DEF Ends
<1>3. /\ cookie' \in {cookie, None} /\ lost' \in BOOLEAN
      /\ ok => cookie' = None
      /\ ok => call[s].pc = "served" /\ call[s].out = "ok"
      /\ ended' \subseteq ended \cup {call[s].item}
      /\ lost' = FALSE => lost = FALSE
      /\ SignedOutForGood'
  BY <1>1, <1>2, ClosedOK
<1>4. /\ CallsOK' /\ LoginInv' /\ call'[s] = Free
      /\ \A t \in Slot \ {s} : call'[t] = call[t]
  BY <1>1, Freed
<1>5. TypesInv'
  <2>1. call[s].item \in Known \cup {None}
    BY <1>2 DEF TabInv, TypesInv, CallsOK, GoodCall, Known
  <2>2. TypeOK' /\ RestOK' /\ KnownInv'
    BY <1>1, <1>3, <2>1 DEF TabInv, TypesInv, TypeOK, RestOK, KnownInv, Known
  <2> QED
    BY <1>4, <2>2 DEF TypesInv
<1>6. SessionInv'
  <2>1. CASE lost'
    BY <1>3, <2>1 DEF SessionInv, SpentInv, RefreshInv, StaleInv, OneSession, EjectInv, ClosingInv
  <2>2. CASE ~lost'
    <3>1. ~lost
      BY <1>3, <2>2
    <3>2. SpentInv' /\ RefreshInv' /\ StaleInv'
      BY <1>1, <3>1 DEF TabInv, SessionInv, SpentInv, RefreshInv, StaleInv
    <3>3. OneSession'
      <4>1. CASE ok
        <5>1. Only(call[s].by) /\ call[s].by \notin live /\ None \notin live
          BY <1>2, <1>3, <3>1, <4>1, KnownNotNone DEF TabInv, TypesInv, SessionInv, EjectInv
        <5> QED
          BY <1>1, <5>1 DEF OneSession, Only
      <4>2. CASE ~ok
        <5>1. cookie' = cookie
          BY <1>1, <4>2 DEF Closed
        <5> QED
          BY <1>1, <3>1, <5>1 DEF TabInv, SessionInv, OneSession
      <4> QED
        BY <4>1, <4>2
    <3>4. \A t \in Slot : call'[t].job # "eject"
      BY <1>2, <1>4 DEF TabInv, TypesInv, LoginInv, Free
    <3>5. EjectInv'
      BY <3>4 DEF EjectInv
    <3>6. ClosingInv'
      BY <1>1, <1>2, <1>4, <3>1, <3>4 DEF TabInv, SessionInv, ClosingInv, Signing, Free
    <3> QED
      BY <1>3, <3>2, <3>3, <3>5, <3>6 DEF SessionInv
  <2> QED
    BY <2>1, <2>2
<1>7. ShowsInv' /\ ShowsItsActs'
  BY <1>1, <1>2, <1>4, PageKept DEF TabInv, Acting, Free
<1> QED
  BY <1>5, <1>6, <1>7 DEF TabInv

LEMMA SignedOutKeeps ==
    ASSUME TabInv, NEW s \in Slot, SignedOut(s)
    PROVE  TabInv'
<1>1. PICK ok \in BOOLEAN :
         /\ Ends(s, "logout", ok) /\ Closed(s, ok)
         /\ token' = [of |-> None, fresh |-> FALSE] /\ Bounce(s, "unauthenticated")
         /\ UNCHANGED <<app, staff, ref, server, page, version, sent>>
  BY DEF SignedOut
<1> USE DEF server
<1>2. call[s].job = "logout"
  BY <1>1 DEF Ends
<1>3. /\ cookie' \in {cookie, None} /\ lost' \in BOOLEAN
      /\ ended' \subseteq ended \cup {call[s].item}
      /\ lost' = FALSE => lost = FALSE
      /\ SignedOutForGood'
  BY <1>1, <1>2, ClosedOK
<1>4. /\ CallsOK' /\ LoginInv' /\ call'[s] = Free
      /\ \A t \in Slot \ {s} : PageCall(t) => call'[t].job = "gone"
      /\ \A t \in Slot \ {s} : ~PageCall(t) => call'[t] = call[t]
      /\ status' = "unauthenticated" /\ shown' = None /\ busy' = None /\ dialog' = None
      /\ mixed' \in BOOLEAN /\ ShowsInv' /\ ShowsItsActs'
  BY <1>1, Bounced
<1>5. TypesInv'
  <2>1. call[s].item \in Known \cup {None}
    BY <1>2 DEF TabInv, TypesInv, CallsOK, GoodCall, Known
  <2>2. token' \in [of : Session \cup {None}, fresh : BOOLEAN] /\ token'.of = None
    BY <1>1
  <2>3. TypeOK' /\ RestOK' /\ KnownInv'
    BY <1>1, <1>3, <1>4, <2>1, <2>2 DEF TabInv, TypesInv, TypeOK, RestOK, KnownInv, Known
  <2> QED
    BY <1>4, <2>3 DEF TypesInv
<1>6. SessionInv'
  <2>1. CASE lost'
    BY <1>3, <2>1 DEF SessionInv, SpentInv, RefreshInv, StaleInv, OneSession, EjectInv, ClosingInv
  <2>2. CASE ~lost'
    <3>1. ~lost /\ None \notin live /\ token'.of = None
      BY <1>1, <1>3, <2>2, KnownNotNone DEF TabInv, TypesInv
    <3>2. SpentInv' /\ RefreshInv' /\ StaleInv' /\ OneSession'
      BY <1>1, <3>1 DEF TabInv, SessionInv, SpentInv, RefreshInv, StaleInv, OneSession
    <3>3. \A t \in Slot : call'[t].job \in Signing => t # s /\ call'[t] = call[t]
      BY <1>4 DEF Signing, Free
    <3>4. EjectInv'
      BY <1>1, <1>3, <3>1, <3>3 DEF TabInv, SessionInv, EjectInv, Only, Known, Signing
    <3>5. ClosingInv'
      BY <1>1, <1>2, <3>1, <3>3 DEF TabInv, SessionInv, ClosingInv, Signing
    <3> QED
      BY <1>3, <3>2, <3>4, <3>5 DEF SessionInv
  <2> QED
    BY <2>1, <2>2
<1> QED
  BY <1>4, <1>5, <1>6 DEF TabInv

LEMMA SignedInKeeps ==
    ASSUME TabInv, NEW s \in Slot, SignedIn(s)
    PROVE  TabInv'
<1> USE DEF provider, server, screen, history
<1> DEFINE Alone == ref.pc = "none" /\ \A t \in Slot : call[t].job # "logout"
           b == call[s].by
<1>1. /\ call[s].job = "login" /\ call[s].pc # "free"
      /\ UNCHANGED <<app, staff, ref, server, screen, history>>
  BY DEF SignedIn, Ends
<1>2. /\ call \in [Slot -> CallRecord] /\ version \in Nat /\ logins \in Nat
      /\ b \in Known \cup {None} /\ Known \subseteq Nat /\ Known \subseteq Session
      /\ None \notin live /\ live \subseteq Known
  BY KnownNotNone DEF TabInv, TypesInv, CallsOK, RestOK, GoodCall, KnownInv, Known
<1>3. \A t \in Slot \ {s} : call[t].job \notin {"login", "eject"}
  BY <1>1 DEF TabInv, TypesInv, LoginInv
<1>4. \A t \in Slot : call[t].job = "logout" => lost \/ call[t].item \notin live
  BY <1>1 DEF TabInv, SessionInv, ClosingInv, Signing
<1>5. CASE Ends(s, "login", FALSE) /\ Done(s) /\ UNCHANGED <<cookie, token, status>>
  <2>1. /\ CallsOK' /\ LoginInv' /\ call'[s] = Free
        /\ \A t \in Slot \ {s} : call'[t] = call[t]
    BY <1>1, <1>5, Freed
  <2>2. TypesInv'
    BY <1>1, <1>5, <2>1 DEF TabInv, TypesInv, TypeOK, RestOK, KnownInv, Known
  <2>3. SpentInv' /\ RefreshInv' /\ StaleInv' /\ OneSession' /\ SignedOutForGood'
    BY <1>1, <1>5 DEF TabInv, SessionInv, SpentInv, RefreshInv, StaleInv, OneSession, SignedOutForGood
  <2>4. EjectInv'
    BY <1>1, <1>3, <2>1 DEF EjectInv, Free
  <2>5. ClosingInv'
    BY <1>1, <1>3, <1>4, <2>1 DEF ClosingInv, Free
  <2>6. ShowsInv' /\ ShowsItsActs'
    BY <1>1, <2>1, PageKept DEF TabInv, Acting, Free
  <2> QED
    BY <2>2, <2>3, <2>4, <2>5, <2>6 DEF TabInv, SessionInv
<1>6. CASE /\ cookie' = b /\ token' = [of |-> b, fresh |-> TRUE] /\ status' = "authenticated"
           /\ Done(s)
  <2>1. /\ CallsOK' /\ LoginInv' /\ call'[s] = Free
        /\ \A t \in Slot \ {s} : call'[t] = call[t]
    BY <1>1, <1>6, Freed
  <2>2. /\ token' \in [of : Session \cup {None}, fresh : BOOLEAN] /\ token'.of = b
    BY <1>2, <1>6
  <2>3. token'.fresh
    BY <1>6, Zenon
  <2>4. TypesInv'
    BY <1>1, <1>2, <1>6, <2>1, <2>2 DEF TabInv, TypesInv, TypeOK, RestOK, KnownInv, Known
  <2>5. SpentInv' /\ RefreshInv' /\ StaleInv' /\ OneSession' /\ SignedOutForGood'
    BY <1>1, <1>6, <2>2, <2>3 DEF TabInv, SessionInv, SpentInv, RefreshInv, StaleInv, OneSession,
       SignedOutForGood
  <2>6. EjectInv'
    BY <1>1, <1>3, <2>1 DEF EjectInv, Free
  <2>7. ClosingInv'
    BY <1>1, <1>3, <1>4, <2>1 DEF ClosingInv, Free
  <2>8. ShowsInv' /\ ShowsItsActs'
    BY <1>1, <2>1, PageKept DEF TabInv, Acting, Free
  <2> QED
    BY <2>4, <2>5, <2>6, <2>7, <2>8 DEF TabInv, SessionInv
<1>7. CASE /\ cookie' = b /\ token' = [of |-> None, fresh |-> FALSE] /\ UNCHANGED status
           /\ Next1(s, [Made("eject", IF Alone THEN b ELSE None) EXCEPT !.by = None])
  <2> DEFINE item == IF Alone THEN b ELSE None
  <2>1. /\ call'[s] = [Made("eject", item) EXCEPT !.by = None]
        /\ call' = [call EXCEPT ![s] = call'[s]]
    BY <1>2, <1>7 DEF Next1
  <2>2. item \in Row \cup Nat \cup {None} /\ item \in Known \cup {None}
    BY <1>2
  <2>3. item # None => Alone /\ item = b
    OBVIOUS
  <2> HIDE DEF item
  <2>4. /\ GoodCall(Made("eject", item), logins, version) /\ ~Made("eject", item).again
        /\ Made("eject", item).job = "eject" /\ Made("eject", item).pc = "sent"
        /\ Made("eject", item).item = item
    BY <1>2, <2>2, MadeOK DEF TabInv
  <2>5. /\ GoodCall(call'[s], logins, version) /\ call'[s].by = None
        /\ call'[s].job = "eject" /\ call'[s].pc = "sent" /\ call'[s].item = item
        /\ call'[s].again = Made("eject", item).again
    BY <1>2, <2>1, <2>4, GoodBare
  <2>6. ~call'[s].again
    BY <2>4, <2>5
  <2>7. /\ CallsOK' /\ LoginInv'
        /\ \A t \in Slot \ {s} : call'[t] = call[t]
    BY <1>1, <2>1, <2>5, OneCallOnly DEF TabInv
  <2>8. token' \in [of : Session \cup {None}, fresh : BOOLEAN] /\ token'.of = None
    BY <1>7
  <2>9. TypesInv'
    BY <1>1, <1>2, <1>7, <2>7, <2>8 DEF TabInv, TypesInv, TypeOK, RestOK, KnownInv, Known
  <2>10. SpentInv' /\ RefreshInv' /\ StaleInv' /\ OneSession' /\ SignedOutForGood'
    BY <1>1, <1>2, <2>8 DEF TabInv, SessionInv, SpentInv, RefreshInv, StaleInv, OneSession,
       SignedOutForGood
  <2>11. EjectInv'
    BY <1>1, <1>3, <2>5, <2>7 DEF EjectInv
  <2>12. ClosingInv'
    <3> SUFFICES ASSUME NEW t \in Slot, ~lost, call'[t].job \in {"logout", "eject"},
                        call'[t].item \in live
                 PROVE  /\ \A u \in Slot \ {t} : call'[u].job \notin Signing
                        /\ Ending(t, cookie)' /\ call'[t].item = cookie'
      BY <1>1 DEF ClosingInv
    <3>1. t = s
      BY <1>1, <1>3, <1>4, <2>7
    <3>2. item = b /\ ref.pc = "none" /\ \A u \in Slot : call[u].job # "logout"
      BY <1>1, <1>2, <2>3, <2>5, <3>1
    <3>3. \A u \in Slot \ {t} : call'[u].job \notin Signing
      BY <1>3, <2>7, <3>1, <3>2 DEF Signing
    <3>4. Ending(t, cookie)'
      BY <1>1, <1>7, <2>5, <2>6, <2>8, <3>1, <3>2 DEF Ending
    <3> QED
      BY <1>7, <2>5, <3>1, <3>2, <3>3, <3>4
  <2>13. ShowsInv' /\ ShowsItsActs'
    BY <1>1, <2>5, <2>7, PageKept DEF TabInv, Acting
  <2> QED
    BY <2>9, <2>10, <2>11, <2>12, <2>13 DEF TabInv, SessionInv
<1> QED
  BY <1>5, <1>6, <1>7 DEF SignedIn

--------------------------------------------------------------------------------
(* The page's steps *)

(* One call of the page changes: the sessions do not. *)
LEMMA PageStep ==
    ASSUME TabInv, NEW s \in Slot, call' = [call EXCEPT ![s] = call'[s]],
           call[s].job \in Acting \cup {"none"}, call'[s].job \in Acting \cup {"none"},
           GoodCall(call'[s], logins, version),
           UNCHANGED <<provider, client, server, version, lost, ended>>,
           dialog' # None => page' \in Dialogs, dialog' \in Row \cup {None},
           busy' \in Row \cup Slot \cup {None}, shown' \in 0..version \cup {None},
           mixed' \in BOOLEAN
    PROVE  /\ TypesInv' /\ SessionInv'
           /\ \A t \in Slot \ {s} : call'[t] = call[t]
<1> USE DEF provider, client, server
<1>1. /\ CallsOK' /\ LoginInv'
      /\ \A t \in Slot \ {s} : call'[t] = call[t]
  BY OneCallOnly DEF TabInv, Acting
<1>2. TypesInv'
  BY <1>1 DEF TabInv, TypesInv, TypeOK, RestOK, KnownInv, Known
<1>3. SessionInv'
  BY <1>1, SessionKept DEF TabInv, Acting, Signing
<1> QED
  BY <1>1, <1>2, <1>3

(* Types a page's step starts from. *)
LEMMA PageTypes ==
    ASSUME TabInv
    PROVE  /\ dialog # None => page \in Dialogs
           /\ dialog \in Row \cup {None} /\ busy \in Row \cup Slot \cup {None}
           /\ shown \in 0..version \cup {None} /\ mixed \in BOOLEAN /\ version \in Nat
           /\ call \in [Slot -> CallRecord] /\ logins \in Nat
           /\ \A t \in Slot : GoodCall(call[t], logins, version)
BY KnownNotNone DEF TabInv, TypesInv, TypeOK, RestOK, CallsOK

(* A call of the page begins: whether others are under way is remembered. *)
LEMMA Begun ==
    ASSUME TabInv, NEW s \in Slot, NEW job \in Acting, NEW item \in Row \cup Nat \cup {None},
           request(s, job, item), Mixing,
           UNCHANGED <<provider, client, server, version, lost, ended, page, shown>>,
           dialog' # None => page' \in Dialogs, dialog' \in Row \cup {None},
           busy' \in Row \cup Slot \cup {None}
    PROVE  TabInv'
<1>1. /\ call[s].pc = "free" /\ call' = [call EXCEPT ![s] = Made(job, item)]
      /\ mixed' = (mixed \/ \E t \in Slot : PageCall(t))
  BY DEF request, Mixing
<1>2. mixed' \in BOOLEAN /\ (mixed' <=> mixed \/ \E t \in Slot : PageCall(t))
  BY <1>1, Zenon
<1>3. call'[s] = Made(job, item) /\ call' = [call EXCEPT ![s] = call'[s]]
  BY <1>1, PageTypes
<1>4. call[s].job = "none"
  BY <1>1, PageTypes DEF GoodCall
<1>5. /\ GoodCall(call'[s], logins, version) /\ call'[s].job = job /\ call'[s].pc = "sent"
  <2>1. job \in {"me", "login", "eject", "logout", "gone"} \cup Acting /\ job \notin {"login", "logout", "eject"}
    BY DEF Acting
  <2> QED
    BY <1>3, <2>1, PageTypes, MadeOK DEF TabInv
<1>6. shown' \in 0..version \cup {None}
  BY PageTypes
<1>7. /\ TypesInv' /\ SessionInv'
      /\ \A t \in Slot \ {s} : call'[t] = call[t]
  BY <1>2, <1>3, <1>4, <1>5, <1>6, PageStep
<1>8. PageCall(s)'
  BY <1>5 DEF PageCall
<1>9. ShowsInv'
  <2> SUFFICES ASSUME ~mixed' PROVE ShowsInv'
    BY DEF ShowsInv
  <2>1. ~mixed /\ \A t \in Slot : call[t].job \notin Acting \cup {"gone"}
    BY <1>2 DEF TabInv, ShowsInv, PageCall
  <2>2. \A t \in Slot : call'[t].job \in Acting \cup {"gone"} => t = s
    BY <1>7, <2>1
  <2> QED
    BY <1>5, <2>2 DEF ShowsInv, PageCall, Acting
<1>10. ShowsItsActs'
  BY <1>8 DEF ShowsItsActs
<1> QED
  BY <1>7, <1>9, <1>10 DEF TabInv

LEMMA loadKeeps ==
    ASSUME TabInv, NEW s \in Slot, load(s)
    PROVE  TabInv'
<1>1. /\ request(s, "load", None) /\ Mixing
      /\ UNCHANGED <<provider, client, server, page, shown, busy, dialog, version, sent, lost, ended>>
  BY DEF load
<1> QED
  BY <1>1, Begun, PageTypes DEF Acting

LEMMA PressKeeps ==
    ASSUME TabInv, NEW s \in Slot, NEW r \in Row, Press(s, r)
    PROVE  TabInv'
<1>1. /\ request(s, "act", r) /\ Mixing
      /\ UNCHANGED <<provider, client, server, page, shown, version, lost, ended, dialog>>
      /\ busy' \in {busy, r}
  BY DEF Press, Act
<1> QED
  BY <1>1, Begun, PageTypes DEF Acting

LEMMA SubmitKeeps ==
    ASSUME TabInv, NEW s \in Slot, Submit(s)
    PROVE  TabInv'
<1>1. /\ request(s, "act", dialog) /\ Mixing
      /\ UNCHANGED <<provider, client, server, page, shown, version, lost, ended, dialog>>
      /\ busy' = s
  BY DEF Submit, Act
<1> QED
  BY <1>1, Begun, PageTypes DEF Acting

(* No call changes. *)
LEMMA DialogKeeps ==
    ASSUME TabInv, Escape \/ \E r \in Row : Open(r)
    PROVE  TabInv'
<1> USE DEF provider, client, server, history
<1>1. /\ dialog' \in Row \cup {None} /\ (dialog' # None => page \in Dialogs) /\ busy' = None
      /\ UNCHANGED <<provider, client, call, server, page, loaded, shown, version, sent, history>>
  BY DEF Escape, Open
<1>2. TypesInv'
  BY <1>1 DEF TabInv, TypesInv, TypeOK, CallsOK, RestOK, KnownInv, Known, LoginInv
<1>3. SessionInv'
  BY <1>1, SessionKept DEF TabInv
<1>4. ShowsInv' /\ ShowsItsActs'
  BY <1>1, PageKept DEF TabInv
<1> QED
  BY <1>2, <1>3, <1>4 DEF TabInv

(* A call of the page ends. What was read is what it shows. *)
LEMMA Ended ==
    ASSUME TabInv, NEW s \in Slot, PageCall(s), NEW ok \in BOOLEAN, Ends(s, call[s].job, ok),
           Done(s), UNCHANGED <<provider, client, server, version, lost, ended>>,
           dialog' # None => page' \in Dialogs, dialog' \in Row \cup {None},
           busy' \in Row \cup Slot \cup {None},
           page' = page \/ page' = "checkout",
           ok => /\ mixed' = mixed
                 /\ shown' = call[s].item \/ (page' = "checkout" /\ shown' = shown),
           ~ok => shown' = shown /\ mixed' = TRUE
    PROVE  TabInv'
<1>1. /\ call'[s] = Free /\ call' = [call EXCEPT ![s] = call'[s]]
  BY PageTypes DEF Done
<1>2. GoodCall(call'[s], logins, version)
  BY <1>1, PageTypes, GoodFree
<1>3. call'[s].job = "none" /\ call[s].job \in Acting
  BY <1>1 DEF Free, PageCall
<1>4. ok => call[s].pc = "served" /\ call[s].out = "ok"
  BY DEF Ends
<1>5. shown' \in 0..version \cup {None} /\ mixed' \in BOOLEAN
  <2>1. ok => call[s].item \in 0..version
    BY <1>3, <1>4, PageTypes DEF GoodCall
  <2> QED
    BY <2>1, PageTypes
<1>6. /\ TypesInv' /\ SessionInv'
      /\ \A t \in Slot \ {s} : call'[t] = call[t]
  BY <1>1, <1>2, <1>3, <1>5, PageStep
<1>7. CASE ~ok
  BY <1>6, <1>7 DEF TabInv, ShowsInv, ShowsItsActs
<1>8. CASE ok
  <2>1. ShowsInv'
    BY <1>3, <1>6, <1>8 DEF TabInv, ShowsInv, PageCall, Acting
  <2>2. ~mixed => call[s].item = version
    BY <1>4, <1>8 DEF TabInv, ShowsInv
  <2>3. ShowsItsActs'
    BY <1>8, <2>2 DEF ShowsItsActs
  <2> QED
    BY <1>6, <2>1, <2>3 DEF TabInv
<1> QED
  BY <1>7, <1>8

(* What was done is read again: the page still has one call, if it had. *)
LEMMA Refetched ==
    ASSUME TabInv, NEW s \in Slot, call[s].job = "act", Refetch(s),
           UNCHANGED <<provider, client, server, version, history, page>>,
           dialog' # None => page' \in Dialogs, dialog' \in Row \cup {None},
           busy' \in Row \cup Slot \cup {None}
    PROVE  TabInv'
<1> USE DEF history
<1>1. call'[s] = Made("reload", None) /\ call' = [call EXCEPT ![s] = call'[s]] /\ shown' = shown
  BY PageTypes DEF Refetch, Next1
<1>2. /\ GoodCall(call'[s], logins, version) /\ call'[s].job = "reload" /\ call'[s].pc = "sent"
  BY <1>1, PageTypes, MadeOK DEF TabInv, Acting
<1>3. shown' \in 0..version \cup {None} /\ mixed' \in BOOLEAN
  BY <1>1, PageTypes
<1>4. /\ TypesInv' /\ SessionInv'
      /\ \A t \in Slot \ {s} : call'[t] = call[t]
  BY <1>1, <1>2, <1>3, PageStep DEF Acting
<1>5. ShowsInv'
  BY <1>2, <1>4 DEF TabInv, ShowsInv, PageCall, Acting
<1>6. ShowsItsActs'
  BY <1>2 DEF ShowsItsActs, PageCall, Acting
<1> QED
  BY <1>4, <1>5, <1>6 DEF TabInv

LEMMA ActedKeeps ==
    ASSUME TabInv, NEW s \in Slot, Acted(s)
    PROVE  TabInv'
<1>1. /\ Ends(s, "act", TRUE) /\ call[s].job = "act"
      /\ UNCHANGED <<provider, client, server, loaded, version, sent, history>>
  BY DEF Acted, Ends
<1>2. CASE respond(s) \/ setStatus(s) \/ unblock(s)
  BY <1>1, <1>2, Refetched, PageTypes DEF respond, setStatus, unblock
<1>3. CASE onResolved(s)
  BY <1>1, <1>3, Refetched, PageTypes DEF onResolved
<1>4. CASE save(s)
  <2>1. /\ Done(s) /\ shown' = call[s].item /\ busy' = None /\ UNCHANGED <<page, dialog>>
    BY <1>4 DEF save
  <2>2. PageCall(s) /\ Ends(s, call[s].job, TRUE)
    BY <1>1 DEF PageCall, Acting
  <2>3. UNCHANGED <<lost, ended, mixed>>
    BY <1>1 DEF history
  <2> QED
    BY <1>1, <2>1, <2>2, <2>3, Ended, PageTypes
<1>5. CASE buy(s)
  <2>1. /\ Done(s) /\ page = "tokens" /\ page' = "checkout" /\ UNCHANGED <<shown, busy, dialog>>
    BY <1>5 DEF buy
  <2>2. PageCall(s) /\ Ends(s, call[s].job, TRUE)
    BY <1>1 DEF PageCall, Acting
  <2>3. UNCHANGED <<lost, ended, mixed>>
    BY <1>1 DEF history
  <2>4. dialog' = None
    BY <2>1, PageTypes DEF Dialogs
  <2> QED
    BY <1>1, <2>1, <2>2, <2>3, <2>4, Ended, PageTypes
<1> QED
  BY <1>2, <1>3, <1>4, <1>5 DEF Acted

LEMMA AnswerKeeps ==
    ASSUME TabInv, NEW s \in Slot, Loaded(s) \/ Reloaded(s) \/ ActFailed(s)
    PROVE  TabInv'
<1>1. PICK ok \in BOOLEAN, job \in Acting :
         /\ Ends(s, job, ok) /\ Done(s) /\ Failing(ok)
         /\ ok => shown' = call[s].item
         /\ ~ok => shown' = shown
         /\ busy' \in {busy, None}
         /\ UNCHANGED <<provider, client, server, page, dialog, version, lost, ended>>
  <2>1. CASE Loaded(s)
    BY <2>1 DEF Loaded, Acting
  <2>2. CASE Reloaded(s)
    BY <2>2 DEF Reloaded, Acting
  <2>3. CASE ActFailed(s)
    BY <2>3 DEF ActFailed, Acting
  <2> QED
    BY <2>1, <2>2, <2>3
<1>2. mixed' = (mixed \/ ~ok)
  BY <1>1 DEF Failing
<1>3. (ok => mixed' = mixed) /\ (~ok => mixed' = TRUE)
  BY <1>2, PageTypes, Zenon
<1>4. PageCall(s) /\ Ends(s, call[s].job, ok)
  BY <1>1 DEF PageCall, Ends
<1> QED
  BY <1>1, <1>3, <1>4, Ended, PageTypes

--------------------------------------------------------------------------------
(* The theorems *)

LEMMA InitInv ==
    ASSUME Init
    PROVE  TabInv
<1> USE BoundAssumption, NoneAssumption DEF Session
<1>1. \E open \in BOOLEAN : InitWith(open)
  BY DEF Init, Boot, PageOpens
<1>2. /\ shown = None /\ busy = None /\ dialog = None /\ version = 0 /\ sent = 0 /\ spent = {}
      /\ lost = FALSE /\ ended = {} /\ mixed = FALSE
  BY <1>1 DEF InitWith
<1>3. /\ status \in {"loading", "authenticated"} /\ logins \in Session
      /\ token \in [of : Session \cup {None}, fresh : BOOLEAN] /\ token.of \in {0, None}
      /\ cookie \in {0, None} /\ live \subseteq {0} /\ (token.of = 0 => cookie = 0)
      /\ ref \in [pc : {"none", "sent"}, by : Session \cup {None}, ok : BOOLEAN]
      /\ ref.by \in {0, None} /\ (token.of = 0 => ref.pc = "none")
  <2>1. CASE Boot
    BY <2>1 DEF Boot
  <2>2. CASE PageOpens
    BY <2>2 DEF PageOpens, NoRef
  <2> QED
    BY <2>1, <2>2 DEF Init
<1>4. 0 \in Known /\ logins \in Nat
  BY <1>3 DEF Known
<1>5. /\ call \in [Slot -> CallRecord]
      /\ \A s \in Slot : /\ GoodCall(call[s], logins, version)
                         /\ call[s].job \in {"none", "boot"}
  <2>1. ASSUME NEW s \in Slot, call[s] = Free
        PROVE  GoodCall(call[s], logins, version) /\ call[s].job = "none"
    <3>1. Free.job = "none"
      BY DEF Free
    <3> QED
      BY <1>2, <1>4, <2>1, <3>1, GoodFree
  <2>2. ASSUME NEW s \in Slot, call[s] = [Free EXCEPT !.job = "boot", !.pc = "await"]
        PROVE  GoodCall(call[s], logins, version) /\ call[s].job = "boot"
    <3>1. Free \in CallRecord
      BY DEF Free, CallRecord, Jobs, Pcs, Outs
    <3>2. /\ call[s] \in CallRecord /\ call[s].job = "boot" /\ call[s].pc = "await"
          /\ call[s].by = Free.by
      BY <2>2, <3>1 DEF CallRecord, Jobs, Pcs
    <3>3. Free.by = None
      BY DEF Free
    <3> QED
      BY <3>2, <3>3 DEF GoodCall, Acting
  <2>3. CASE Boot
    <3>1. call = [s \in Slot |-> IF s # CHOOSE t \in Slot : TRUE THEN Free
                                ELSE [Free EXCEPT !.job = "boot", !.pc = "await"]]
      BY <2>3 DEF Boot
    <3>2. \A s \in Slot : call[s] = Free \/ call[s] = [Free EXCEPT !.job = "boot", !.pc = "await"]
      BY <3>1
    <3>3. \A s \in Slot : /\ GoodCall(call[s], logins, version)
                          /\ call[s].job \in {"none", "boot"}
      BY <2>1, <2>2, <3>2
    <3> QED
      BY <3>1, <3>3 DEF GoodCall
  <2>4. CASE PageOpens
    <3>1. call = [s \in Slot |-> Free]
      BY <2>4 DEF PageOpens
    <3> QED
      BY <2>1, <3>1 DEF GoodCall
  <2> QED
    BY <2>3, <2>4 DEF Init
<1>6. TypesInv
  <2>1. CallsOK /\ LoginInv
    BY <1>5 DEF CallsOK, LoginInv
  <2>2. TypeOK
    <3>1. 0 \in Session
      OBVIOUS
    <3>2. /\ cookie \in Session \cup {None} /\ spent \subseteq Session /\ live \subseteq Session
          /\ shown \in 0..version \cup {None}
      BY <1>2, <1>3, <3>1
    <3> QED
      BY <1>2, <1>3, <3>2 DEF TypeOK
  <2>3. RestOK
    <3>1. ref \in [pc : {"none", "sent", "served"}, by : Session \cup {None}, ok : BOOLEAN]
      BY <1>3
    <3> QED
      BY <1>2, <3>1 DEF RestOK
  <2>4. KnownInv
    BY <1>2, <1>3, <1>4 DEF KnownInv
  <2> QED
    BY <2>1, <2>2, <2>3, <2>4 DEF TypesInv
<1>7. SessionInv
  <2>1. SpentInv /\ RefreshInv /\ StaleInv /\ OneSession /\ SignedOutForGood
    BY <1>2, <1>3 DEF SpentInv, RefreshInv, StaleInv, OneSession, SignedOutForGood
  <2>2. EjectInv /\ ClosingInv
    BY <1>5 DEF EjectInv, ClosingInv
  <2> QED
    BY <2>1, <2>2 DEF SessionInv
<1>8. ShowsInv /\ ShowsItsActs
  BY <1>2, <1>5 DEF ShowsInv, ShowsItsActs, PageCall, Acting
<1> QED
  BY <1>6, <1>7, <1>8 DEF TabInv

LEMMA NextInv ==
    ASSUME TabInv, [Next]_vars
    PROVE  TabInv'
<1>1. CASE ServeRefresh \/ Refreshed \/ RefreshLost \/ Expire \/ KeepFresh
  BY <1>1, ServeRefreshKeeps, RefreshedKeeps, RefreshLostKeeps, ExpireKeeps, KeepFreshKeeps
<1>2. ASSUME NEW s \in Slot, Answers(s)
      PROVE  TabInv'
  BY <1>2, ServeLoginKeeps, ServeCallKeeps, UnauthorisedKeeps, ResendKeeps, BootRefreshedKeeps,
     loadUserKeeps, SignedInKeeps, EjectedKeeps, SignedOutKeeps, GoneKeeps, ActedKeeps, AnswerKeeps
     DEF Answers
<1>3. ASSUME NEW s \in Slot, Presses(s)
      PROVE  TabInv'
  BY <1>3, SignInKeeps, SignOutKeeps, loadKeeps, SubmitKeeps, PressKeeps DEF Presses
<1>4. ASSUME NEW s \in Slot, CallLost(s)
      PROVE  TabInv'
  BY <1>4, CallLostKeeps
<1>5. CASE Escape \/ \E r \in Row : Open(r)
  BY <1>5, DialogKeeps
<1>6. CASE UNCHANGED vars
  <2> USE <1>6 DEF vars, provider, client, server, screen, history
  <2>1. TypesInv'
    BY DEF TabInv, TypesInv, TypeOK, CallsOK, RestOK, KnownInv, Known, LoginInv
  <2>2. SessionInv'
    BY SessionKept DEF TabInv
  <2>3. ShowsInv' /\ ShowsItsActs'
    BY PageKept DEF TabInv
  <2> QED
    BY <2>1, <2>2, <2>3 DEF TabInv
<1> QED
  BY <1>1, <1>2, <1>3, <1>4, <1>5, <1>6 DEF Next

(* The inductive invariant of a tab: the types, what its session rests on, and *)
(* what its page knows of the rows.                                           *)
THEOREM TabInvariant == Spec => []TabInv
<1>1. Init => TabInv
  BY InitInv
<1>2. TabInv /\ [Next]_vars => TabInv'
  BY NextInv
<1> QED
  BY <1>1, <1>2, PTL DEF Spec

(* Types, in every state of a tab. *)
THEOREM TypeCorrect == Spec => []TypeOK
<1>1. TabInv => TypeOK
  BY DEF TabInv, TypesInv
<1> QED
  BY <1>1, TabInvariant, PTL

(* However many calls meet a 401 at once, and whoever else asks for a refresh,  *)
(* a tab does not spend its own cookie twice (refresh is shared).              *)
THEOREM CookieSpentOnce == Spec => []NeverSpent
<1>1. TabInv => NeverSpent
  BY DEF TabInv, SessionInv, SpentInv, NeverSpent
<1> QED
  BY <1>1, TabInvariant, PTL

(* A token that works and the cookie are of one session. *)
THEOREM TokenAndCookie == Spec => []OneSession
<1>1. TabInv => OneSession
  BY DEF TabInv, SessionInv
<1> QED
  BY <1>1, TabInvariant, PTL

(* Signing out, or being signed out of the admin panel, ends the session for   *)
(* good, whatever refresh was under way and however stale the token was.       *)
THEOREM SignedOutStays == Spec => []SignedOutForGood
<1>1. TabInv => SignedOutForGood
  BY DEF TabInv, SessionInv
<1> QED
  BY <1>1, TabInvariant, PTL

(* A page whose calls did not overlap and did not fail shows what it has done. *)
THEOREM PageShowsItsActs == Spec => []ShowsItsActs
<1>1. TabInv => ShowsItsActs
  BY DEF TabInv
<1> QED
  BY <1>1, TabInvariant, PTL

================================================================================
