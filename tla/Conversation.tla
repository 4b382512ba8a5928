------------------------------ MODULE Conversation ------------------------------
(* The conversation between the browsers and the realtime server: the page's *)
(* session machine (session-machine.ts), the hook that drives it             *)
(* (use-conversation.ts), the WebRTC connection, and the server's handlers   *)
(* (server.ts), between which events and requests take their time.           *)
(*                                                                           *)
(* The registry of live matches is the atomic one that Matchmaking           *)
(* implements; a handler ends a match in one step and sends its events in a  *)
(* later one, after the awaits in between.                                   *)
EXTENDS Naturals, Sequences

CONSTANTS
    User, Match,
    None,
    FaultKinds,   \* the faults of a run, see Fault
    Offered,      \* the buttons a run lets the users press
    MaxFaults,    \* bound: faults in a behaviour
    MaxPresses    \* bound: buttons pressed in a behaviour

ASSUME NoneAssumption == None \notin Match /\ None \notin User
ASSUME BoundsAssumption == MaxFaults \in Nat /\ MaxPresses \in Nat

VARIABLES
    client,    \* what each page and hook hold
    up,        \* the socket of each page is connected
    gone,      \* users whose disconnect the server has yet to handle
    outbox,    \* requests emitted and not yet handled
    inbox,     \* events that reached the page's socket, in order
    wire,      \* events a handler emits after its last await, by user
    queue,     \* users with a queue entry
    pair,      \* the two users of each match, the one who offers first
    live,      \* matches in the registry
    presses, faults

page   == <<client, presses>>
net    == <<up, gone>>
server == <<queue, pair, live>>
vars   == <<page, net, outbox, inbox, wire, server, faults>>

SessionState == {"IDLE", "REQUESTING_PERMISSIONS", "READY", "QUEUED", "MATCH_FOUND",
                 "SIGNALING", "CONNECTING", "CONNECTED", "PARTNER_LEFT", "SKIPPING",
                 "RECONNECTING", "ERROR"}

TRANSITIONS ==
    [s \in SessionState |->
       CASE s = "IDLE"                   -> {"REQUESTING_PERMISSIONS", "READY"}
         [] s = "REQUESTING_PERMISSIONS" -> {"READY"}
         [] s = "READY"                  -> {"QUEUED", "REQUESTING_PERMISSIONS"}
         [] s = "QUEUED"                 -> {"MATCH_FOUND", "READY"}
         [] s = "MATCH_FOUND"            -> {"SIGNALING", "QUEUED", "READY"}
         [] s = "SIGNALING"              -> {"CONNECTING", "PARTNER_LEFT", "SKIPPING",
                                             "QUEUED", "READY"}
         [] s = "CONNECTING"             -> {"CONNECTED", "RECONNECTING", "PARTNER_LEFT",
                                             "SKIPPING", "QUEUED", "READY"}
         [] s = "CONNECTED"              -> {"SKIPPING", "PARTNER_LEFT", "RECONNECTING",
                                             "READY"}
         [] s = "RECONNECTING"           -> {"CONNECTED", "PARTNER_LEFT", "QUEUED", "READY"}
         [] s = "ERROR"                  -> {"READY", "REQUESTING_PERMISSIONS"}
         [] OTHER                        -> {"QUEUED", "READY"}]

canTransition(from, to) ==
    from = to \/ to \in {"ERROR", "IDLE"} \/ to \in TRANSITIONS[from]

(* The page's inCall: the states that offer Next, Block and Report. *)
inCall == {"SIGNALING", "CONNECTING", "CONNECTED", "RECONNECTING"}

(* What the hook's refs hold. `remote` is the match whose description was    *)
(* given to the peer connection, `link` its connectionState, `held` whether  *)
(* candidates wait in pendingCandidatesRef, `timers` those that are armed,   *)
(* `jobs` the handlers that await the peer connection they began with.       *)
Fresh == [state |-> "IDLE", matchId |-> None, remote |-> None, link |-> "new",
          held |-> FALSE, timers |-> {}, jobs |-> {},
          stream |-> FALSE, starting |-> "no", mediaError |-> FALSE, confirmed |-> FALSE]

Event(kind, m, flag)   == [kind |-> kind, match |-> m, flag |-> flag]
Request(kind, m, flag) == [kind |-> kind, match |-> m, flag |-> flag]
Job(kind, peer, m)     == [kind |-> kind, peer |-> peer, match |-> m]

(* Everybody is searching. A page is fresh again after it was left.          *)
Init ==
    /\ queue = User
    /\ client = [u \in User |-> IF u \in queue
                               THEN [Fresh EXCEPT !.state = "QUEUED", !.stream = TRUE,
                                                  !.confirmed = TRUE]
                               ELSE Fresh]
    /\ up = [u \in User |-> TRUE] /\ gone = {}
    /\ outbox = [u \in User |-> {}] /\ inbox = [u \in User |-> <<>>]
    /\ wire = {}
    /\ live = {} /\ pair = [m \in Match |-> <<None, None>>]
    /\ presses = 0 /\ faults = 0

--------------------------------------------------------------------------------
(* The hook's helpers, as functions of what it holds *)

(* transitionTo: an illegal move is skipped. *)
transitionTo(c, to) == IF canTransition(c.state, to) THEN [c EXCEPT !.state = to] ELSE c

closePeer(c) == [c EXCEPT !.matchId = None, !.remote = None, !.link = "new",
                          !.held = FALSE, !.timers = {}]

endMatchLocally(c) == transitionTo(closePeer(c), "PARTNER_LEFT")

(* skip(requeue), for a client that is in a match. *)
Skipped(c, requeue) ==
    transitionTo(closePeer(transitionTo(c, "SKIPPING")), IF requeue THEN "QUEUED" ELSE "READY")

Becomes(u, c) == client' = [client EXCEPT ![u] = c]

Emit(u, r) == outbox' = [outbox EXCEPT ![u] = @ \cup {r}]

Skip(u, c) ==
    IF c.matchId = None
    THEN Becomes(u, c) /\ UNCHANGED outbox
    ELSE Becomes(u, Skipped(c, TRUE)) /\ Emit(u, Request("skip", c.matchId, TRUE))

Fault(kind) == kind \in FaultKinds /\ faults < MaxFaults /\ faults' = faults + 1

--------------------------------------------------------------------------------
(* The buttons of the page *)

Pressed(button) ==
    /\ button \in Offered
    /\ presses < MaxPresses
    /\ presses' = presses + 1

Press(button) == Pressed(button) /\ UNCHANGED <<net, inbox, wire, server, faults>>

joinQueue(u, c) ==
    IF c.stream /\ canTransition(c.state, "QUEUED")
    THEN Becomes(u, [c EXCEPT !.state = "QUEUED"]) /\ Emit(u, Request("join", None, TRUE))
    ELSE Becomes(u, c) /\ UNCHANGED outbox

(* `then` says whether the caller joins the queue once the camera is there. *)
startMedia(c, then) == [transitionTo(c, "REQUESTING_PERMISSIONS")
                          EXCEPT !.starting = then, !.mediaError = FALSE]

(* Start: a live stream joins at once, otherwise the camera is asked for. *)
PressStart(u) ==
    LET c == client[u] IN
    /\ Press("Start")
    /\ c.state \in {"IDLE", "READY"} /\ ~c.mediaError
    /\ IF c.stream THEN joinQueue(u, c)
       ELSE Becomes(u, startMedia(c, "join")) /\ UNCHANGED outbox

(* Try again after a camera failure, or after a lost server: joinQueue has   *)
(* no legal move out of ERROR.                                               *)
PressTryAgain(u) ==
    LET c == client[u] IN
    /\ Press("TryAgain")
    /\ c.state = "ERROR"
    /\ IF c.mediaError
       THEN Becomes(u, startMedia(c, "stay")) /\ UNCHANGED outbox
       ELSE joinQueue(u, c)

PressFindSomeone(u) ==
    Press("FindSomeone") /\ client[u].state = "PARTNER_LEFT" /\ joinQueue(u, client[u])

PressCancel(u) ==
    /\ Press("Cancel")
    /\ client[u].state = "QUEUED"
    /\ Becomes(u, transitionTo([client[u] EXCEPT !.confirmed = FALSE], "READY"))
    /\ Emit(u, Request("leave", None, TRUE))

PressNext(u) == Press("Next") /\ client[u].state \in inCall /\ Skip(u, client[u])

(* End call, Leave while searching, Stop after the partner left: only a      *)
(* client in a match tells the server.                                       *)
PressEnd(u) ==
    LET c == client[u] IN
    /\ Press("End")
    /\ c.state \in inCall \cup {"QUEUED", "PARTNER_LEFT"}
    /\ Becomes(u, transitionTo(closePeer(c), "READY"))
    /\ IF c.matchId = None THEN UNCHANGED outbox ELSE Emit(u, Request("end", c.matchId, FALSE))

(* Block and Report need a partner on screen. *)
PressBlock(u) ==
    LET c == client[u] IN
    /\ Press("Block")
    /\ c.state \in inCall /\ c.matchId # None
    /\ Becomes(u, transitionTo(closePeer(c), "READY"))
    /\ Emit(u, Request("block", c.matchId, FALSE))

(* requestUserMedia answers. *)
MediaGranted(u) ==
    LET c == transitionTo([client[u] EXCEPT !.starting = "no", !.stream = TRUE], "READY") IN
    /\ client[u].starting # "no"
    /\ IF client[u].starting = "join"
       THEN joinQueue(u, c)
       ELSE Becomes(u, c) /\ UNCHANGED outbox
    /\ UNCHANGED <<presses, net, inbox, wire, server, faults>>

MediaDenied(u) ==
    /\ client[u].starting # "no"
    /\ Fault("denied")
    /\ Becomes(u, transitionTo([client[u] EXCEPT !.starting = "no", !.mediaError = TRUE],
                               "ERROR"))
    /\ UNCHANGED <<presses, net, outbox, inbox, wire, server>>

--------------------------------------------------------------------------------
(* Events of the server, handled in the order they reached the page *)

On(u, kind) ==
    /\ inbox[u] # <<>> /\ Head(inbox[u]).kind = kind
    /\ inbox' = [inbox EXCEPT ![u] = Tail(@)]
    /\ UNCHANGED <<presses, net, wire, server, faults>>

(* Mutant of OnMatchFound: only the side that offers arms its deadline. *)
OnMatchFoundUntimed(u) ==
    LET c == client[u]
        e == Head(inbox[u])
    IN  /\ On(u, "match:found")
        /\ IF canTransition(c.state, "MATCH_FOUND")
           THEN Becomes(u, [c EXCEPT !.state = "SIGNALING", !.matchId = e.match,
                                     !.remote = None, !.link = "new",
                                     !.timers = IF e.flag THEN @ \cup {"negotiation"} ELSE @,
                                     !.jobs = IF e.flag THEN @ \cup {Job("initiate", e.match, e.match)}
                                              ELSE @])
           ELSE Becomes(u, c)
        /\ UNCHANGED outbox

(* handleMatchFound, up to its first await: the connection is a new one. *)
OnMatchFound(u) ==
    LET c == client[u]
        e == Head(inbox[u])
    IN  /\ On(u, "match:found")
        /\ IF canTransition(c.state, "MATCH_FOUND")
           THEN Becomes(u, [c EXCEPT !.state = "SIGNALING", !.matchId = e.match,
                                     !.remote = None, !.link = "new",
                                     !.timers = @ \cup {"negotiation"},
                                     !.jobs = IF e.flag THEN @ \cup {Job("initiate", e.match, e.match)}
                                              ELSE @])
           ELSE Becomes(u, c)
        /\ UNCHANGED outbox

(* Mutant of OnDescription: any match's description is taken. *)
OnDescriptionOfAny(u, kind) ==
    LET c == client[u]
        e == Head(inbox[u])
    IN  /\ On(u, kind)
        /\ IF c.matchId # None
           THEN Becomes(u, [c EXCEPT !.jobs = @ \cup {Job(kind, c.matchId, e.match)}])
           ELSE Becomes(u, c)
        /\ UNCHANGED outbox

(* An offer or an answer starts a handler on the current peer connection;    *)
(* one of another match is ignored.                                          *)
OnDescription(u, kind) ==
    LET c == client[u]
        e == Head(inbox[u])
    IN  /\ On(u, kind)
        /\ IF c.matchId # None /\ e.match = c.matchId
           THEN Becomes(u, [c EXCEPT !.jobs = @ \cup {Job(kind, c.matchId, e.match)}])
           ELSE Becomes(u, c)
        /\ UNCHANGED outbox

(* A candidate is given to the connection, or kept until its description. *)
OnIce(u) ==
    LET c == client[u] IN
    /\ On(u, "webrtc:ice")
    /\ Becomes(u, [c EXCEPT !.held = @ \/ (Head(inbox[u]).match = c.matchId /\ c.remote = None)])
    /\ UNCHANGED outbox

OnPartnerLeft(u) ==
    /\ On(u, "match:partner-left")
    /\ Becomes(u, endMatchLocally(client[u]))
    /\ UNCHANGED outbox

OnEnded(u) ==
    /\ On(u, "match:ended")
    /\ Becomes(u, transitionTo(closePeer(client[u]),
                               IF Head(inbox[u]).flag THEN "QUEUED" ELSE "READY"))
    /\ UNCHANGED outbox

(* queue:joined and queue:waiting confirm, queue:left withdraws. *)
OnQueue(u) ==
    /\ On(u, "queue")
    /\ Becomes(u, [client[u] EXCEPT !.confirmed = Head(inbox[u]).flag])
    /\ UNCHANGED outbox

OnRestricted(u) ==
    /\ On(u, "account:restricted")
    /\ Becomes(u, transitionTo(closePeer(client[u]), "ERROR"))
    /\ UNCHANGED outbox

--------------------------------------------------------------------------------
(* The WebRTC connection of each page *)

(* A handler resumes while the peer connection it began with is current. *)
Resume(u, j) ==
    /\ j \in client[u].jobs
    /\ client[u].matchId = j.peer
    /\ UNCHANGED <<presses, net, inbox, wire, server, faults>>

Without(c, j) == [c EXCEPT !.jobs = @ \ {j}]

OfferMade(u, j) ==
    /\ j.kind = "initiate" /\ Resume(u, j)
    /\ Becomes(u, transitionTo(Without(client[u], j), "CONNECTING"))
    /\ Emit(u, Request("webrtc:offer", j.match, FALSE))

(* setRemoteDescription, then the candidates that waited for it. *)
Described(c, m) == [c EXCEPT !.remote = m, !.held = FALSE]

AnswerMade(u, j) ==
    /\ j.kind = "webrtc:offer" /\ Resume(u, j)
    /\ Becomes(u, transitionTo(Described(Without(client[u], j), j.match), "CONNECTING"))
    /\ Emit(u, Request("webrtc:answer", j.match, FALSE))

AnswerTaken(u, j) ==
    /\ j.kind = "webrtc:answer" /\ Resume(u, j)
    /\ Becomes(u, Described(Without(client[u], j), j.match))
    /\ UNCHANGED outbox

(* A handler whose connection was closed never resumes, or is rejected; one  *)
(* whose connection is open may be rejected too. The rejection skips the     *)
(* match of the moment.                                                      *)
JobDropped(u, j) ==
    /\ j \in client[u].jobs /\ client[u].matchId # j.peer
    /\ Becomes(u, Without(client[u], j))
    /\ UNCHANGED <<presses, net, outbox, inbox, wire, server, faults>>

JobRejected(u, j) ==
    /\ j \in client[u].jobs
    /\ Fault("rejected")
    /\ Skip(u, Without(client[u], j))
    /\ UNCHANGED <<presses, net, inbox, wire, server>>

Other(u, m) == IF pair[m][1] = u THEN pair[m][2] ELSE pair[m][1]

(* Both ends of the match are on it, and each has the other's description. *)
Reachable(u) ==
    LET m == client[u].matchId IN
    /\ m # None /\ client[u].remote = m
    /\ client[Other(u, m)].matchId = m /\ client[Other(u, m)].remote = m

Link(u, c) ==
    /\ Becomes(u, c)
    /\ UNCHANGED <<presses, net, outbox, inbox, wire, server>>

Connected(u) ==
    /\ Reachable(u) /\ client[u].link # "connected"
    /\ Link(u, transitionTo([client[u] EXCEPT !.link = "connected", !.timers = {}], "CONNECTED"))
    /\ UNCHANGED faults

(* connectionState "disconnected": a fault of the network, or the other end  *)
(* has closed. A second one overwrites the timer's handle.                   *)
Disconnected(u) ==
    LET c == [client[u] EXCEPT !.link = "disconnected"] IN
    /\ client[u].link = "connected"
    /\ IF Reachable(u) THEN Fault("ice") ELSE UNCHANGED faults
    /\ Link(u, IF canTransition(c.state, "RECONNECTING")
               THEN [c EXCEPT !.state = "RECONNECTING", !.timers = @ \cup {"reconnect"}]
               ELSE c)

(* connectionState "failed". *)
Failed(u) ==
    /\ client[u].matchId # None /\ client[u].link # "connected"
    /\ IF client[u].link = "disconnected" /\ ~Reachable(u) THEN UNCHANGED faults ELSE Fault("ice")
    /\ Link(u, endMatchLocally(client[u]))

(* Mutant of NegotiationTimeout: only a page that is still signalling skips. *)
NegotiationTimeoutEarly(u) ==
    LET c == [client[u] EXCEPT !.timers = @ \ {"negotiation"}] IN
    /\ "negotiation" \in client[u].timers
    /\ IF c.state = "SIGNALING" THEN Skip(u, c) ELSE Becomes(u, c) /\ UNCHANGED outbox
    /\ UNCHANGED <<presses, net, inbox, wire, server, faults>>

NegotiationTimeout(u) ==
    LET c == [client[u] EXCEPT !.timers = @ \ {"negotiation"}] IN
    /\ "negotiation" \in client[u].timers
    /\ IF c.state = "CONNECTED" THEN Becomes(u, c) /\ UNCHANGED outbox ELSE Skip(u, c)
    /\ UNCHANGED <<presses, net, inbox, wire, server, faults>>

ReconnectTimeout(u) ==
    LET c == [client[u] EXCEPT !.timers = @ \ {"reconnect"}] IN
    /\ "reconnect" \in client[u].timers
    /\ Link(u, IF c.link = "connected" THEN c ELSE endMatchLocally(c))
    /\ UNCHANGED faults

--------------------------------------------------------------------------------
(* The socket *)

(* The connection drops: what was on its way to the page is lost, and what   *)
(* the page sent is lost or already with the server.                         *)
Drop(u) ==
    /\ up[u] /\ Fault("drop")
    /\ up' = [up EXCEPT ![u] = FALSE] /\ gone' = gone \cup {u}
    /\ Becomes(u, [client[u] EXCEPT !.confirmed = FALSE])
    /\ inbox' = [inbox EXCEPT ![u] = <<>>]
    /\ outbox' \in {outbox, [outbox EXCEPT ![u] = {}]}
    /\ UNCHANGED <<presses, wire, server>>

Reconnect(u) ==
    /\ ~up[u]
    /\ up' = [up EXCEPT ![u] = TRUE]
    /\ UNCHANGED <<page, gone, outbox, inbox, wire, server, faults>>

(* Five connection attempts failed. *)
ConnectErrors(u) ==
    /\ ~up[u] /\ Fault("unreachable")
    /\ Becomes(u, transitionTo([client[u] EXCEPT !.confirmed = FALSE], "ERROR"))
    /\ UNCHANGED <<presses, net, outbox, inbox, wire, server>>

(* The page is left or reloaded: the hook closes what it holds. *)
PressLeave(u) ==
    /\ Pressed("Leave")
    /\ client[u] # Fresh
    /\ Becomes(u, Fresh)
    /\ up' = [up EXCEPT ![u] = FALSE] /\ gone' = IF up[u] THEN gone \cup {u} ELSE gone
    /\ inbox' = [inbox EXCEPT ![u] = <<>>]
    /\ UNCHANGED outbox
    /\ UNCHANGED <<wire, server, faults>>

--------------------------------------------------------------------------------
(* The server *)

InMatch(u, m) == m \in live /\ u \in {pair[m][1], pair[m][2]}

Silent == [u \in User |-> <<>>]

(* A handler takes a request of a connected socket. *)
Serve(u, r) ==
    /\ up[u] /\ r \in outbox[u]
    /\ outbox' = [outbox EXCEPT ![u] = @ \ {r}]
    /\ UNCHANGED <<page, net, pair>>

Send(u, e) == inbox' = IF up[u] THEN [inbox EXCEPT ![u] = Append(@, e)] ELSE inbox

(* queue:join. *)
ServeJoin(u) ==
    LET busy == u \in queue \/ \E m \in live : InMatch(u, m) IN
    /\ Serve(u, Request("join", None, TRUE))
    /\ IF busy
       THEN UNCHANGED <<queue, inbox>>
       ELSE queue' = queue \cup {u} /\ Send(u, Event("queue", None, TRUE))
    /\ UNCHANGED <<live, wire, faults>>

JoinRefused(u) ==
    /\ Fault("restricted")
    /\ Serve(u, Request("join", None, TRUE))
    /\ Send(u, Event("account:restricted", None, TRUE))
    /\ UNCHANGED <<queue, live, wire>>

ServeLeave(u) ==
    /\ Serve(u, Request("leave", None, TRUE))
    /\ queue' = queue \ {u} /\ Send(u, Event("queue", None, FALSE))
    /\ UNCHANGED <<live, wire, faults>>

(* teardownMatch: the match leaves the registry; later its peer is told, and *)
(* the actor what the handler has for it.                                    *)
Teardown(u, m, own) ==
    [Silent EXCEPT ![Other(u, m)] = <<Event("match:partner-left", m, FALSE)>>, ![u] = own]

EndMatch(u, m, own) ==
    /\ live' = live \ {m}
    /\ wire' = wire \cup {Teardown(u, m, own)}
    /\ UNCHANGED <<inbox, queue, faults>>

(* match:skip; the cooldown refuses it, and so does a match that has ended. *)
ServeSkip(u, m) ==
    /\ Serve(u, Request("skip", m, TRUE))
    /\ IF InMatch(u, m)
       THEN EndMatch(u, m, <<Event("match:ended", m, TRUE), Event("queue", None, TRUE)>>)
       ELSE UNCHANGED <<inbox, queue, live, wire, faults>>

SkipRefused(u, m) ==
    /\ Fault("cooldown")
    /\ Serve(u, Request("skip", m, TRUE))
    /\ UNCHANGED <<inbox, queue, live, wire>>

ServeEnd(u, m) ==
    /\ Serve(u, Request("end", m, FALSE))
    /\ IF InMatch(u, m)
       THEN EndMatch(u, m, <<Event("match:ended", m, FALSE)>>)
       ELSE UNCHANGED <<inbox, queue, live, wire, faults>>

(* user:block and user:report answer match:ended whether or not the match    *)
(* was still there.                                                          *)
ServeBlock(u, m) ==
    LET own == Event("match:ended", m, FALSE) IN
    /\ Serve(u, Request("block", m, FALSE))
    /\ IF InMatch(u, m)
       THEN EndMatch(u, m, <<own>>)
       ELSE Send(u, own) /\ UNCHANGED <<queue, live, wire, faults>>

(* The relay of offers and answers: the other user is resolved from the      *)
(* registry, and sent the frame later. The candidates found for a            *)
(* description arrive before it or after it.                                 *)
Relay(u, m, kind) ==
    LET description == Event(kind, m, FALSE)
        candidates  == Event("webrtc:ice", m, FALSE)
    IN  /\ Serve(u, Request(kind, m, FALSE))
        /\ IF InMatch(u, m)
           THEN \E events \in {<<description, candidates>>, <<candidates, description>>} :
                    wire' = wire \cup {[Silent EXCEPT ![Other(u, m)] = events]}
           ELSE UNCHANGED wire
        /\ UNCHANGED <<inbox, queue, live, faults>>

(* disconnect: only the user's last socket leaves the queue and the match. *)
ServeDisconnect(u) ==
    LET theirs == {m \in live : InMatch(u, m)} IN
    /\ u \in gone
    /\ gone' = gone \ {u}
    /\ IF up[u]
       THEN UNCHANGED <<queue, live, wire>>
       ELSE /\ queue' = queue \ {u}
            /\ live' = live \ theirs
            /\ wire' = wire \cup {Teardown(u, m, <<>>) : m \in theirs}
    /\ UNCHANGED <<page, up, outbox, inbox, pair, faults>>

(* A pairing of two queued users, by queue:join or by the tick. *)
Pair(u, v, m) ==
    /\ u \in queue /\ v \in queue /\ u # v
    /\ pair[m] = <<None, None>>
    /\ pair' = [pair EXCEPT ![m] = <<u, v>>]
    /\ live' = live \cup {m}
    /\ queue' = queue \ {u, v}
    /\ inbox' = [w \in User |->
                   IF up[w] /\ w \in {u, v} THEN Append(inbox[w], Event("match:found", m, w = u))
                   ELSE inbox[w]]
    /\ UNCHANGED <<page, net, outbox, wire, faults>>

(* queue:waiting, each second to the users who wait. *)
Tick(u) ==
    /\ u \in queue /\ up[u] /\ inbox[u] = <<>> /\ ~client[u].confirmed
    /\ Send(u, Event("queue", None, TRUE))
    /\ UNCHANGED <<page, net, outbox, wire, server, faults>>

(* What a handler emits reaches the sockets that are connected. *)
Deliver(events) ==
    /\ events \in wire
    /\ wire' = wire \ {events}
    /\ inbox' = [u \in User |-> IF up[u] THEN inbox[u] \o events[u] ELSE inbox[u]]
    /\ UNCHANGED <<page, net, outbox, server, faults>>

--------------------------------------------------------------------------------
Buttons(u) ==
    \/ PressStart(u) \/ PressTryAgain(u) \/ PressFindSomeone(u) \/ PressCancel(u)
    \/ PressNext(u) \/ PressEnd(u) \/ PressBlock(u) \/ PressLeave(u)

Media(u) == MediaGranted(u) \/ MediaDenied(u)

Events(u) ==
    \/ OnMatchFound(u) \/ OnDescription(u, "webrtc:offer") \/ OnDescription(u, "webrtc:answer")
    \/ OnIce(u) \/ OnPartnerLeft(u) \/ OnEnded(u) \/ OnQueue(u) \/ OnRestricted(u)

Handlers(u) ==
    \E j \in client[u].jobs :
        \/ OfferMade(u, j) \/ AnswerMade(u, j) \/ AnswerTaken(u, j)
        \/ JobDropped(u, j) \/ JobRejected(u, j)

Network(u) ==
    \/ Connected(u) \/ Disconnected(u) \/ Failed(u)
    \/ Drop(u) \/ Reconnect(u) \/ ConnectErrors(u)

Timers(u) == NegotiationTimeout(u) \/ ReconnectTimeout(u)

Serving(u) ==
    \/ ServeJoin(u) \/ JoinRefused(u) \/ ServeLeave(u) \/ ServeDisconnect(u) \/ Tick(u)
    \/ \E m \in Match : ServeSkip(u, m) \/ SkipRefused(u, m) \/ ServeEnd(u, m) \/ ServeBlock(u, m)
    \/ \E m \in Match, kind \in {"webrtc:offer", "webrtc:answer"} : Relay(u, m, kind)
    \/ \E v \in User, m \in Match : Pair(u, v, m)

Next ==
    \/ \E u \in User : Buttons(u) \/ Media(u) \/ Events(u) \/ Handlers(u) \/ Network(u)
                        \/ Timers(u) \/ Serving(u)
    \/ \E events \in wire : Deliver(events)

Spec == Init /\ [][Next]_vars

(* A page handles the events that have reached it, an armed timer fires, and *)
(* a connection whose other end is closed is found to have failed. The server *)
(* and a handler that awaits may stop for good; nobody has to press anything. *)
FairSpec ==
    /\ Spec
    /\ \A u \in User :
        /\ WF_vars(Events(u)) /\ WF_vars(Timers(u))
        /\ WF_vars(~Reachable(u) /\ (Disconnected(u) \/ Failed(u)))

--------------------------------------------------------------------------------
EventKind == {"match:found", "webrtc:offer", "webrtc:answer", "webrtc:ice", "match:partner-left",
              "match:ended", "queue", "account:restricted"}
RequestKind == {"join", "leave", "skip", "end", "block", "webrtc:offer", "webrtc:answer"}
JobKind == {"initiate", "webrtc:offer", "webrtc:answer"}

MaybeMatch == Match \cup {None}
EventSet   == [kind : EventKind, match : MaybeMatch, flag : BOOLEAN]
RequestSet == [kind : RequestKind, match : MaybeMatch, flag : BOOLEAN]
JobSet     == [kind : JobKind, peer : Match, match : Match]
Client == [state : SessionState, matchId : MaybeMatch, remote : MaybeMatch,
           link : {"new", "connected", "disconnected"}, held : BOOLEAN,
           timers : SUBSET {"negotiation", "reconnect"}, jobs : SUBSET JobSet,
           stream : BOOLEAN, starting : {"no", "join", "stay"}, mediaError : BOOLEAN,
           confirmed : BOOLEAN]

(* What the parts hold; no page waits in a state that its session machine    *)
(* only passes through.                                                      *)
TypeOK ==
    /\ client \in [User -> Client]
    /\ up \in [User -> BOOLEAN] /\ gone \subseteq User
    /\ outbox \in [User -> SUBSET RequestSet]
    /\ inbox \in [User -> Seq(EventSet)]
    /\ wire \subseteq [User -> Seq(EventSet)]
    /\ queue \subseteq User /\ live \subseteq Match
    /\ pair \in [Match -> (User \X User) \cup {<<None, None>>}]
    /\ presses \in 0..MaxPresses /\ faults \in 0..MaxFaults
    /\ \A u \in User : client[u].state \notin {"MATCH_FOUND", "SKIPPING"}

(* No peer connection is ever given the description of another match, and no *)
(* candidate is left waiting behind a description that has arrived.          *)
SignalsOfThisMatch ==
    \A u \in User :
        /\ client[u].remote \in {None, client[u].matchId}
        /\ client[u].held => client[u].remote = None /\ client[u].matchId # None

(* A page that found a match leaves "connecting" and "reconnecting" by       *)
(* itself, whatever is lost on the way.                                      *)
SpinnersEnd ==
    \A u \in User : []<>(client[u].state \notin {"SIGNALING", "CONNECTING", "RECONNECTING"})

(* Nobody is left in a conversation the other one is not in: the page finds  *)
(* out by an event, the connection or a timer.                               *)
Alone(u) ==
    \E m \in Match : /\ client[u].matchId = m
                     /\ pair[m] # <<None, None>> /\ client[Other(u, m)].matchId # m

GhostNoticed == \A u \in User : []<>~Alone(u)

(* Once every message has been handled, a page that says the server has it   *)
(* in the queue is in the queue.                                             *)
Quiet(u) ==
    /\ up[u] /\ gone = {} /\ outbox[u] = {} /\ inbox[u] = <<>> /\ wire = {}
    /\ client[u].jobs = {}

ConfirmedIsQueued ==
    \A u \in User : /\ client[u].state = "QUEUED" /\ client[u].confirmed /\ Quiet(u)
                    => u \in queue

================================================================================
