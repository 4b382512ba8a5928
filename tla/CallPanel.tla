-------------------------------- MODULE CallPanel --------------------------------
(* What the discover page holds beside its session machine: the camera, its *)
(* switch-over and the controls (use-conversation.ts, media.ts), and what   *)
(* belongs to one call: messages, tips, an offer of time, the connection    *)
(* request, the dialogs (discover/page.tsx, tips.tsx).  The browser, the    *)
(* server and the API answer late, in a later call or after the page.       *)
EXTENDS Naturals

CONSTANTS
    Match,   \* the calls of the page, one after the other
    Track,   \* bound: the camera tracks the browser opens
    None

ASSUME NoneAssumption == None \notin Match /\ None \notin Track

MediaErrorKind == {"PERMISSION_DENIED", "NO_DEVICE", "DEVICE_BUSY", "INSECURE_CONTEXT",
                   "UNSUPPORTED", "OVERCONSTRAINED", "UNKNOWN"}

MEDIA_ERROR_RETRYABLE == MediaErrorKind \ {"INSECURE_CONTEXT", "UNSUPPORTED"}

(* What an attempt of getUserMedia ends in, by the error's name. *)
classify == MediaErrorKind \ {"INSECURE_CONTEXT", "UNSUPPORTED"}

(* What a control bar can put on the screen that belongs to one call. *)
Kinds   == {"message", "tip", "offer", "sent", "quality"}
Dialogs == {"report", "block", "tip"}

VARIABLES
    browser,     \* "ok", or why it has no camera to give
    several,     \* canSwitchCamera: it has more than one
    here,        \* the page is open
    asking,      \* startMedia awaits the browser
    mediaError,  \* why the last attempt failed
    stream,      \* the camera track of the local stream
    live,        \* tracks that are not stopped
    enabled,     \* tracks that are not muted
    cameraOn,    \* cameraEnabled, as the button shows it
    slider,      \* the track whose zoom range is shown
    switching,   \* the switch-over under way
    hasty,       \* history: the camera button was pressed during a swap
    stray,       \* history: tracks a failed swap or a closed page lost
    matchId,     \* the call on screen
    sending,     \* the track of its connection's video sender
    met,         \* calls so far
    shown,       \* what is shown of a call: kind, call, whether it came too late
    connect,     \* the connection request's button
    requests,    \* the calls whose connection request is on its way
    dialog       \* the dialog that is open

camera == <<stream, live, enabled, cameraOn, slider, switching, hasty, stray>>
media  == <<browser, several, asking, mediaError>>
items  == <<shown, connect, requests, dialog>>
call   == <<matchId, sending, met>>
vars   == <<here, media, camera, call, items>>

Still == [at |-> "no", new |-> None, peer |-> None]

(* The page opens, or is not there; the browser stays what it is. *)
Init ==
    /\ browser \in {"ok", "INSECURE_CONTEXT", "UNSUPPORTED"}
    /\ several \in BOOLEAN
    /\ here \in BOOLEAN /\ asking = FALSE /\ mediaError = None
    /\ stream = None /\ live = {} /\ enabled = {}
    /\ cameraOn = TRUE /\ slider = None /\ switching = Still
    /\ hasty = FALSE /\ stray = {}
    /\ matchId = None /\ sending = None /\ met = {}
    /\ shown = {} /\ connect = "idle" /\ requests = {}
    /\ dialog = None

--------------------------------------------------------------------------------
(* The camera's start *)

(* Start and Try again, while there is no stream. *)
startMedia ==
    /\ here /\ ~asking /\ stream = None
    /\ mediaError \in MEDIA_ERROR_RETRYABLE \cup {None}
    /\ asking' = TRUE /\ mediaError' = None
    /\ UNCHANGED <<here, browser, several, camera, call, items>>

(* getUserMedia opens a camera that is in use nowhere else on the page. *)
Opens(t) == browser = "ok" /\ t \notin live \cup stray /\ t # stream

(* The range of a camera's zoom, or None where it reports none. *)
ZoomCapability(t) == {None, t}

(* The stream goes to the hook's ref even if the page was closed meanwhile. *)
Granted(t) ==
    /\ asking /\ Opens(t)
    /\ asking' = FALSE
    /\ live' = live \cup {t} /\ enabled' = enabled \cup {t}
    /\ IF here
       THEN /\ stream' = t /\ cameraOn' = TRUE
            /\ slider' \in ZoomCapability(t)
            /\ UNCHANGED stray
       ELSE stray' = stray \cup {t} /\ UNCHANGED <<stream, cameraOn, slider>>
    /\ UNCHANGED <<here, browser, several, mediaError, switching, hasty, call, items>>

(* requestUserMedia's failures: the browser's own, or those of its attempts,  *)
(* the second of which follows an OVERCONSTRAINED first.                      *)
requestUserMedia == IF browser = "ok" THEN classify ELSE {browser}

Refused ==
    /\ asking
    /\ asking' = FALSE
    /\ mediaError' \in requestUserMedia
    /\ UNCHANGED <<here, browser, several, camera, call, items>>

--------------------------------------------------------------------------------
(* The controls of the camera *)

(* The buttons are enabled once there is a stream. *)
HasStream == here /\ stream # None

toggleCamera ==
    /\ HasStream
    /\ cameraOn' = (stream \notin enabled)
    /\ enabled' = IF stream \in enabled THEN enabled \ {stream} ELSE enabled \cup {stream}
    /\ hasty' = (switching.at = "swap")
    /\ UNCHANGED <<here, media, stream, live, slider, switching, stray, call, items>>

switchCamera ==
    /\ HasStream /\ several /\ switching.at = "no"
    /\ switching' = [Still EXCEPT !.at = "open"]
    /\ UNCHANGED <<here, media, stream, live, enabled, cameraOn, slider, hasty, stray,
                   call, items>>

(* MUTANT of Swapped: the old track is left running. *)
SwappedOnly(t) ==
    /\ stream' = t
    /\ live' = live \cup {t}
    /\ slider' \in ZoomCapability(t)
    /\ sending' = IF matchId = None THEN None ELSE t
    /\ switching' = Still
    /\ UNCHANGED <<cameraOn, hasty, stray>>

(* The new track takes the old one's place, in the sender and the stream. *)
Swapped(t) ==
    /\ stream' = t
    /\ live' = (live \cup {t}) \ {stream}
    /\ slider' \in ZoomCapability(t)
    /\ sending' = IF matchId = None THEN None ELSE t
    /\ switching' = Still
    /\ UNCHANGED <<cameraOn, hasty, stray>>

(* MUTANT of Carried: the new camera starts as cameras do. *)
CarriedNot(t) == enabled \cup {t}

(* The mute state goes over to the new track. *)
Carried(t) == IF stream \in enabled THEN enabled \cup {t} ELSE enabled \ {t}

(* getOppositeCameraTrack answers: a call's sender is given the track first,  *)
(* and a closed page's camera stays on.                                       *)
OtherCamera(t) ==
    /\ switching.at = "open" /\ Opens(t)
    /\ enabled' = Carried(t)
    /\ CASE ~here -> /\ live' = live \cup {t} /\ stray' = stray \cup {t}
                     /\ switching' = Still
                     /\ UNCHANGED <<stream, cameraOn, slider, hasty, sending>>
         [] here /\ matchId = None -> Swapped(t)
         [] OTHER -> /\ switching' = [at |-> "swap", new |-> t, peer |-> matchId]
                     /\ live' = live \cup {t}
                     /\ UNCHANGED <<stream, cameraOn, slider, hasty, stray, sending>>
    /\ UNCHANGED <<here, media, matchId, met, items>>

(* MUTANT of NoOtherCamera: the old track is stopped before the new one came. *)
NoOtherCameraStopped ==
    /\ switching.at = "open"
    /\ switching' = Still
    /\ live' = live \ {stream}
    /\ UNCHANGED <<here, media, stream, enabled, cameraOn, slider, hasty, stray,
                   call, items>>

(* It throws: the old camera stays. *)
NoOtherCamera ==
    /\ switching.at = "open"
    /\ switching' = Still
    /\ UNCHANGED <<here, media, stream, live, enabled, cameraOn, slider, hasty, stray,
                   call, items>>

(* replaceTrack resolves while the connection it began with is open, *)
Replaced ==
    /\ switching.at = "swap" /\ switching.peer = matchId
    /\ Swapped(switching.new)
    /\ UNCHANGED <<here, media, enabled, matchId, met, items>>

(* is rejected, and nothing stops the new track, *)
NotReplaced ==
    /\ switching.at = "swap"
    /\ switching' = Still
    /\ stray' = stray \cup {switching.new}
    /\ UNCHANGED <<here, media, stream, live, enabled, cameraOn, slider, hasty, call, items>>

(* or, if the connection has closed, never settles: no action of the module. *)

--------------------------------------------------------------------------------
(* A call *)

(* handleMatchFound: the connection is given the stream's track, and the      *)
(* request's button is reset.                                                 *)
Found(m) ==
    /\ here /\ stream # None /\ matchId = None
    /\ m \notin met
    /\ matchId' = m /\ met' = met \cup {m}
    /\ sending' = stream
    /\ shown' = {i \in shown : i.kind \notin {"message", "sent"}}
    /\ connect' = "idle"
    /\ UNCHANGED <<here, media, camera, requests, dialog>>

(* MUTANT of closePeer: the offer stays for the next call. *)
closePeerButOffer ==
    /\ matchId' = None /\ sending' = None
    /\ shown' = {i \in shown : i.kind = "offer"}
    /\ connect' = IF matchId = None THEN connect ELSE "idle"
    /\ UNCHANGED <<met, requests>>

(* closePeer, and the effect on the call's id. *)
closePeer ==
    /\ matchId' = None /\ sending' = None
    /\ shown' = IF matchId = None THEN {i \in shown : i.kind = "sent"} ELSE {}
    /\ connect' = IF matchId = None THEN connect ELSE "idle"
    /\ UNCHANGED <<met, requests>>

(* Next, End, the partner's leaving, a deadline, a restriction. *)
Closed ==
    /\ here /\ matchId # None
    /\ closePeer
    /\ UNCHANGED <<here, media, camera, dialog>>

(* The page is left: the connection closed, the stream stopped. *)
Leave ==
    /\ here
    /\ here' = FALSE
    /\ closePeer
    /\ live' = live \ {stream} /\ stream' = None
    /\ dialog' = None
    /\ UNCHANGED <<media, enabled, cameraOn, slider, switching, hasty, stray>>

--------------------------------------------------------------------------------
(* What belongs to a call *)

Item(kind, m) == [kind |-> kind, call |-> m, late |-> m # matchId]

Shows(i) == shown' = shown \cup {i}

(* A message of the chat: the page asks nothing of its call. *)
ChatMessage(m) ==
    /\ here /\ m \in met
    /\ Shows(Item("message", m))
    /\ UNCHANGED <<here, media, camera, call, connect, requests, dialog>>

(* A tip, which may carry an offer; a new offer takes the place of the last. *)
TipReceived(m, offer) ==
    /\ here /\ m \in met
    /\ shown' = IF offer
                THEN {i \in shown : i.kind # "offer"} \cup {Item("tip", m), Item("offer", m)}
                ELSE shown \cup {Item("tip", m)}
    /\ UNCHANGED <<here, media, camera, call, connect, requests, dialog>>

(* Statistics of a connection, asked for while it was up: the badge takes   *)
(* them, and the row of the call that is on the screen by then.             *)
Sampled(m) ==
    /\ here /\ m \in met
    /\ shown' = {i \in shown : i.kind # "quality"} \cup {Item("quality", m)}
    /\ UNCHANGED <<here, media, camera, call, connect, requests, dialog>>

(* The prompt of the offer. *)
Prompted == here /\ \E i \in shown : i.kind = "offer"

(* Accept, Decline, or the server's word that the offer is resolved. *)
respondToOffer ==
    /\ Prompted
    /\ shown' = {i \in shown : i.kind # "offer"}
    /\ UNCHANGED <<here, media, camera, call, connect, requests, dialog>>

requestConnection ==
    /\ here /\ matchId # None /\ connect = "idle"
    /\ connect' = "sending"
    /\ requests' = requests \cup {matchId}
    /\ UNCHANGED <<here, media, camera, call, shown, dialog>>

(* The API's answer is for the button, whatever the call. *)
ConnectAnswered(m, ok) ==
    /\ m \in requests
    /\ requests' = requests \ {m}
    /\ IF here
       THEN /\ connect' = IF ok THEN "sent" ELSE "idle"
            /\ IF ok THEN Shows(Item("sent", m))
                     ELSE shown' = {i \in shown : i.kind # "sent"}
       ELSE UNCHANGED <<shown, connect>>
    /\ UNCHANGED <<here, media, camera, call, dialog>>

(* The buttons need a partner; a dialog covers them, and shows while there   *)
(* is a partner, this one or the next.                                       *)
OpenDialog(d) ==
    /\ here /\ matchId # None /\ dialog = None
    /\ dialog' = d
    /\ UNCHANGED <<here, media, camera, call, shown, connect, requests>>

Visible(d) == here /\ matchId # None /\ dialog = d

Cancel(d) ==
    /\ Visible(d)
    /\ dialog' = None
    /\ UNCHANGED <<here, media, camera, call, shown, connect, requests>>

(* Block and Report end the call with the partner that is on the screen. *)
blockPartner ==
    /\ Visible("block")
    /\ dialog' = None
    /\ closePeer
    /\ UNCHANGED <<here, media, camera>>

reportPartner ==
    /\ Visible("report")
    /\ dialog' = None
    /\ closePeer
    /\ UNCHANGED <<here, media, camera>>

(* The tip itself is TokenLedger's, and whether there is the balance for it. *)
SendTip ==
    /\ Visible("tip")
    /\ dialog' = None
    /\ UNCHANGED <<here, media, camera, call, shown, connect, requests>>

--------------------------------------------------------------------------------
Camera ==
    \/ startMedia \/ Refused
    \/ \E t \in Track : Granted(t) \/ OtherCamera(t)
    \/ toggleCamera \/ switchCamera \/ NoOtherCamera \/ Replaced \/ NotReplaced

OfACall ==
    \/ \E m \in Match : ChatMessage(m) \/ \E o \in BOOLEAN : TipReceived(m, o)
    \/ (\E m \in Match : Sampled(m))
    \/ respondToOffer \/ requestConnection
    \/ \E m \in Match, ok \in BOOLEAN : ConnectAnswered(m, ok)
    \/ \E d \in Dialogs : OpenDialog(d) \/ Cancel(d)
    \/ blockPartner \/ reportPartner \/ SendTip

Next == Camera \/ OfACall \/ (\E m \in Match : Found(m)) \/ Closed \/ Leave

Spec == Init /\ [][Next]_vars

--------------------------------------------------------------------------------
(* Properties *)

(* Types of the page's state and refs. *)
TypeOK ==
    /\ browser \in {"ok", "INSECURE_CONTEXT", "UNSUPPORTED"}
    /\ several \in BOOLEAN /\ here \in BOOLEAN /\ asking \in BOOLEAN
    /\ mediaError \in MediaErrorKind \cup {None}
    /\ stream \in Track \cup {None} /\ live \subseteq Track /\ enabled \subseteq Track
    /\ cameraOn \in BOOLEAN /\ slider \in Track \cup {None}
    /\ switching \in [at : {"no", "open", "swap"}, new : Track \cup {None},
                      peer : Match \cup {None}]
    /\ hasty \in BOOLEAN /\ stray \subseteq Track
    /\ matchId \in Match \cup {None} /\ sending \in Track \cup {None} /\ met \subseteq Match
    /\ shown \subseteq [kind : Kinds, call : Match, late : BOOLEAN]
    /\ connect \in {"idle", "sending", "sent"} /\ requests \subseteq Match
    /\ dialog \in Dialogs \cup {None}

(* A connection sends the stream's camera and that camera runs, whatever     *)
(* switch-over failed, was overtaken by the call's end or is under way       *)
(* (switchCamera: the old track is stopped only after the swap), and the     *)
(* zoom slider is of that camera.                                            *)
SendsLiveCamera ==
    /\ matchId # None => sending = stream /\ sending \in live
    /\ here => stream \in live \cup {None} /\ slider \in {stream, None}

(* A camera shown as off sends no picture, after any switch-over             *)
(* (switchCamera: "or an off camera silently turns itself back on"), unless  *)
(* the last press came during a swap.                                        *)
OffIsOff == matchId # None /\ ~cameraOn => sending \notin enabled \/ hasty

(* No camera runs but the stream's, the one a switch-over is putting in its  *)
(* place, and those that a rejected swap or a page closed while it asked     *)
(* left on (switchCamera, startMedia, the unmount's clean-up).               *)
NoStrayCamera == live \subseteq {stream, switching.new} \cup stray

(* What is on the screen is of the call on the screen, but for what arrived  *)
(* after its call had ended (closePeer: an unanswered offer, messages, tips; *)
(* the request's button).                                                    *)
ThisCallOnly == \A i \in shown : i.call = matchId \/ i.late
================================================================================
