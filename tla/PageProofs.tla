------------------------------- MODULE PageProofs -------------------------------
(* Theorems of the two pages, each for any bounds: what the discover page's   *)
(* control bar holds (CallPanel), its conversation with the server            *)
(* (Conversation, as C), and what the settings page shows and saves           *)
(* (Settings).                                                                *)
EXTENDS CallPanel, Settings, Sequences, FiniteSetTheorems, TLAPS

(* A call needs the page and its stream; the stream's camera runs, and the    *)
(* browser is asked for one only while there is none.                         *)
StreamInv ==
    /\ stream # None => here /\ ~asking /\ stream \in live
    /\ matchId # None => stream # None /\ sending = stream
    /\ here => slider \in {stream, None}

(* A switch-over needs the stream it replaces. Its track is the only thing it *)
(* holds: it runs beside the old one, which still has its place.              *)
SwitchInv ==
    /\ here /\ switching.at # "no" => stream # None
    /\ switching.at # "swap" => switching.new = None
    /\ switching.at = "swap" => /\ switching.peer # None
                                /\ switching.new \in live /\ switching.new # stream

(* The button shows the stream's mute state, and so it is for the track that  *)
(* takes over, but for a press in between.                                    *)
MuteInv ==
    /\ stream # None /\ ~cameraOn => stream \notin enabled \/ hasty
    /\ switching.at = "swap" /\ stream # None /\ ~cameraOn
         => switching.new \notin enabled \/ hasty

PanelInv == TypeOK /\ StreamInv /\ SwitchInv /\ MuteInv /\ NoStrayCamera /\ ThisCallOnly
--------------------------------------------------------------------------------
LEMMA InitInv == Init => PanelInv
<1> SUFFICES ASSUME Init PROVE PanelInv
  OBVIOUS
<1>1. TypeOK
  BY DEF Init, TypeOK, Still
<1>2. StreamInv /\ SwitchInv /\ MuteInv
  BY DEF Init, StreamInv, SwitchInv, MuteInv, Still
<1>3. NoStrayCamera /\ ThisCallOnly
  BY DEF Init, NoStrayCamera, ThisCallOnly
<1> QED
  BY <1>1, <1>2, <1>3 DEF PanelInv

(* What is put on the screen says of which call it is, and whether it is late. *)
LEMMA ItemShape ==
    ASSUME NEW kind \in Kinds, NEW m \in Match
    PROVE  /\ Item(kind, m) \in [kind : Kinds, call : Match, late : BOOLEAN]
           /\ Item(kind, m).kind = kind /\ Item(kind, m).call = m
           /\ Item(kind, m).call = matchId \/ Item(kind, m).late
<1>1. Item(kind, m).kind = kind /\ Item(kind, m).call = m /\ Item(kind, m).late = (m # matchId)
  BY DEF Item
<1>2. (m # matchId) \in BOOLEAN
  OBVIOUS
<1>3. Item(kind, m) \in [kind : Kinds, call : Match, late : BOOLEAN]
  BY <1>2 DEF Item
<1>4. m = matchId \/ Item(kind, m).late
  BY <1>1, Zenon
<1> QED
  BY <1>1, <1>3, <1>4

(* The types are preserved. *)
LEMMA TypeStep ==
    ASSUME TypeOK, SwitchInv, [Next]_vars
    PROVE  TypeOK'
<1> USE NoneAssumption DEF TypeOK, SwitchInv, camera, media, items, call, Still
<1>1. ASSUME startMedia PROVE TypeOK'
  BY <1>1 DEF startMedia
<1>2. ASSUME Refused PROVE TypeOK'
  <2>1. mediaError' \in MediaErrorKind
    <3>1. CASE browser = "ok"
      BY <1>2, <3>1 DEF Refused, requestUserMedia, classify
    <3>2. CASE browser # "ok"
      BY <1>2, <3>2 DEF Refused, requestUserMedia, MediaErrorKind
    <3> QED
      BY <3>1, <3>2
  <2>2. asking' \in BOOLEAN
    BY <1>2, Zenon DEF Refused
  <2> QED
    BY <1>2, <2>1, <2>2 DEF Refused
<1>3. ASSUME NEW t \in Track, Granted(t) PROVE TypeOK'
  <2>1. stream' \in Track \cup {None} /\ slider' \in Track \cup {None}
    BY <1>3 DEF Granted, ZoomCapability
  <2>2. cameraOn' \in BOOLEAN /\ stray' \subseteq Track
    BY <1>3 DEF Granted
  <2>3. asking' \in BOOLEAN
    BY <1>3, Zenon DEF Granted
  <2> QED
    BY <1>3, <2>1, <2>2, <2>3 DEF Granted
<1>4. ASSUME NEW t \in Track, OtherCamera(t) PROVE TypeOK'
  BY <1>4 DEF OtherCamera, Opens, Swapped, Carried, ZoomCapability
<1>5. ASSUME toggleCamera PROVE TypeOK'
  BY <1>5 DEF toggleCamera, HasStream
<1>6. ASSUME switchCamera PROVE TypeOK'
  BY <1>6 DEF switchCamera, HasStream
<1>7. ASSUME NoOtherCamera PROVE TypeOK'
  BY <1>7 DEF NoOtherCamera
<1>8. ASSUME Replaced PROVE TypeOK'
  BY <1>8 DEF Replaced, Swapped, ZoomCapability
<1>9. ASSUME NotReplaced PROVE TypeOK'
  BY <1>9 DEF NotReplaced
<1>10. ASSUME NEW m \in Match, ChatMessage(m) PROVE TypeOK'
  BY <1>10, ItemShape DEF ChatMessage, Kinds, Shows
<1>11. ASSUME NEW m \in Match, NEW o \in BOOLEAN, TipReceived(m, o) PROVE TypeOK'
  BY <1>11, ItemShape DEF TipReceived, Kinds
<1>12. ASSUME NEW m \in Match, Sampled(m) PROVE TypeOK'
  BY <1>12, ItemShape DEF Sampled, Kinds
<1>13. ASSUME respondToOffer PROVE TypeOK'
  BY <1>13 DEF respondToOffer, Prompted
<1>14. ASSUME requestConnection PROVE TypeOK'
  BY <1>14 DEF requestConnection
<1>15. ASSUME NEW m \in Match, NEW ok \in BOOLEAN, ConnectAnswered(m, ok) PROVE TypeOK'
  BY <1>15, ItemShape DEF ConnectAnswered, Kinds, Shows
<1>16. ASSUME NEW d \in Dialogs, OpenDialog(d) PROVE TypeOK'
  BY <1>16 DEF OpenDialog
<1>17. ASSUME NEW d \in Dialogs, Cancel(d) PROVE TypeOK'
  BY <1>17 DEF Cancel, Visible
<1>18. ASSUME blockPartner PROVE TypeOK'
  BY <1>18 DEF blockPartner, Visible, closePeer
<1>19. ASSUME reportPartner PROVE TypeOK'
  BY <1>19 DEF reportPartner, Visible, closePeer
<1>20. ASSUME SendTip PROVE TypeOK'
  BY <1>20 DEF SendTip, Visible
<1>21. ASSUME NEW m \in Match, Found(m) PROVE TypeOK'
  BY <1>21 DEF Found
<1>22. ASSUME Closed PROVE TypeOK'
  BY <1>22 DEF Closed, closePeer
<1>23. ASSUME Leave PROVE TypeOK'
  <2>1. live' \subseteq Track /\ stream' = None /\ here' = FALSE /\ dialog' = None
    BY <1>23 DEF Leave
  <2>2. shown' \subseteq shown /\ connect' \in {"idle", connect}
    BY <1>23 DEF Leave, closePeer
  <2>3. matchId' = None /\ sending' = None /\ UNCHANGED <<met, requests>>
    BY <1>23 DEF Leave, closePeer
  <2>4. UNCHANGED <<browser, several, asking, mediaError, enabled, cameraOn, slider, switching,
                    hasty, stray>>
    BY <1>23 DEF Leave
  <2>5. /\ shown' \subseteq [kind : Kinds, call : Match, late : BOOLEAN]
        /\ connect' \in {"idle", "sending", "sent"}
    BY <2>2
  <2>6. live' \subseteq Track /\ stream' \in Track \cup {None} /\ dialog' \in Dialogs \cup {None}
    BY <2>1
  <2> QED
    BY <2>1, <2>3, <2>4, <2>5, <2>6
<1>24. CASE UNCHANGED vars
  BY <1>24 DEF vars
<1> QED
  BY <1>1, <1>2, <1>3, <1>4, <1>5, <1>6, <1>7, <1>8, <1>9, <1>10, <1>11,
     <1>12, <1>13, <1>14, <1>15, <1>16, <1>17, <1>18, <1>19, <1>20, <1>21,
     <1>22, <1>23, <1>24 DEF Next, Camera, OfACall

(* The stream's camera and the sender that has it, whatever becomes of them. *)
LEMMA StreamStep ==
    ASSUME TypeOK, StreamInv, SwitchInv, [Next]_vars
    PROVE  (StreamInv /\ SwitchInv)'
<1> USE NoneAssumption DEF TypeOK, StreamInv, SwitchInv, camera, media, items, call, Still
<1>1. ASSUME startMedia PROVE (StreamInv /\ SwitchInv)'
  BY <1>1 DEF startMedia
<1>2. ASSUME Refused PROVE (StreamInv /\ SwitchInv)'
  BY <1>2 DEF Refused, requestUserMedia, classify
<1>3. ASSUME NEW t \in Track, Granted(t) PROVE (StreamInv /\ SwitchInv)'
  BY <1>3 DEF Granted, Opens, ZoomCapability
<1>4. ASSUME NEW t \in Track, OtherCamera(t) PROVE (StreamInv /\ SwitchInv)'
  BY <1>4 DEF OtherCamera, Opens, Swapped, Carried, ZoomCapability
<1>5. ASSUME toggleCamera PROVE (StreamInv /\ SwitchInv)'
  BY <1>5 DEF toggleCamera, HasStream
<1>6. ASSUME switchCamera PROVE (StreamInv /\ SwitchInv)'
  BY <1>6 DEF switchCamera, HasStream
<1>7. ASSUME NoOtherCamera PROVE (StreamInv /\ SwitchInv)'
  BY <1>7 DEF NoOtherCamera
<1>8. ASSUME Replaced PROVE (StreamInv /\ SwitchInv)'
  BY <1>8 DEF Replaced, Swapped, ZoomCapability
<1>9. ASSUME NotReplaced PROVE (StreamInv /\ SwitchInv)'
  BY <1>9 DEF NotReplaced
<1>10. ASSUME NEW m \in Match, ChatMessage(m) PROVE (StreamInv /\ SwitchInv)'
  BY <1>10 DEF ChatMessage, Shows, Item
<1>11. ASSUME NEW m \in Match, NEW o \in BOOLEAN, TipReceived(m, o) PROVE (StreamInv /\ SwitchInv)'
  BY <1>11 DEF TipReceived, Item
<1>12. ASSUME NEW m \in Match, Sampled(m) PROVE (StreamInv /\ SwitchInv)'
  BY <1>12 DEF Sampled, Item
<1>13. ASSUME respondToOffer PROVE (StreamInv /\ SwitchInv)'
  BY <1>13 DEF respondToOffer, Prompted
<1>14. ASSUME requestConnection PROVE (StreamInv /\ SwitchInv)'
  BY <1>14 DEF requestConnection
<1>15. ASSUME NEW m \in Match, NEW ok \in BOOLEAN, ConnectAnswered(m, ok) PROVE (StreamInv /\ SwitchInv)'
  BY <1>15 DEF ConnectAnswered, Shows, Item
<1>16. ASSUME NEW d \in Dialogs, OpenDialog(d) PROVE (StreamInv /\ SwitchInv)'
  BY <1>16 DEF OpenDialog
<1>17. ASSUME NEW d \in Dialogs, Cancel(d) PROVE (StreamInv /\ SwitchInv)'
  BY <1>17 DEF Cancel, Visible
<1>18. ASSUME blockPartner PROVE (StreamInv /\ SwitchInv)'
  BY <1>18 DEF blockPartner, Visible, closePeer
<1>19. ASSUME reportPartner PROVE (StreamInv /\ SwitchInv)'
  BY <1>19 DEF reportPartner, Visible, closePeer
<1>20. ASSUME SendTip PROVE (StreamInv /\ SwitchInv)'
  BY <1>20 DEF SendTip, Visible
<1>21. ASSUME NEW m \in Match, Found(m) PROVE (StreamInv /\ SwitchInv)'
  BY <1>21 DEF Found
<1>22. ASSUME Closed PROVE (StreamInv /\ SwitchInv)'
  BY <1>22 DEF Closed, closePeer
<1>23. ASSUME Leave PROVE (StreamInv /\ SwitchInv)'
  BY <1>23 DEF Leave, closePeer
<1>24. CASE UNCHANGED vars
  BY <1>24 DEF vars
<1> QED
  BY <1>1, <1>2, <1>3, <1>4, <1>5, <1>6, <1>7, <1>8, <1>9, <1>10, <1>11,
     <1>12, <1>13, <1>14, <1>15, <1>16, <1>17, <1>18, <1>19, <1>20, <1>21,
     <1>22, <1>23, <1>24 DEF Next, Camera, OfACall

(* The mute state goes with the stream's camera. *)
LEMMA MuteStep ==
    ASSUME TypeOK, StreamInv, SwitchInv, MuteInv, [Next]_vars
    PROVE  MuteInv'
<1> USE NoneAssumption DEF TypeOK, StreamInv, SwitchInv, MuteInv, camera, media, items, call, Still
<1>1. ASSUME startMedia PROVE MuteInv'
  BY <1>1 DEF startMedia
<1>2. ASSUME Refused PROVE MuteInv'
  BY <1>2 DEF Refused, requestUserMedia, classify
<1>3. ASSUME NEW t \in Track, Granted(t) PROVE MuteInv'
  BY <1>3 DEF Granted, Opens, ZoomCapability
<1>4. ASSUME NEW t \in Track, OtherCamera(t) PROVE MuteInv'
  BY <1>4 DEF OtherCamera, Opens, Swapped, Carried, ZoomCapability
<1>5. ASSUME toggleCamera PROVE MuteInv'
  BY <1>5 DEF toggleCamera, HasStream
<1>6. ASSUME switchCamera PROVE MuteInv'
  BY <1>6 DEF switchCamera, HasStream
<1>7. ASSUME NoOtherCamera PROVE MuteInv'
  BY <1>7 DEF NoOtherCamera
<1>8. ASSUME Replaced PROVE MuteInv'
  BY <1>8 DEF Replaced, Swapped, ZoomCapability
<1>9. ASSUME NotReplaced PROVE MuteInv'
  BY <1>9 DEF NotReplaced
<1>10. ASSUME NEW m \in Match, ChatMessage(m) PROVE MuteInv'
  BY <1>10 DEF ChatMessage, Shows, Item
<1>11. ASSUME NEW m \in Match, NEW o \in BOOLEAN, TipReceived(m, o) PROVE MuteInv'
  BY <1>11 DEF TipReceived, Item
<1>12. ASSUME NEW m \in Match, Sampled(m) PROVE MuteInv'
  BY <1>12 DEF Sampled, Item
<1>13. ASSUME respondToOffer PROVE MuteInv'
  BY <1>13 DEF respondToOffer, Prompted
<1>14. ASSUME requestConnection PROVE MuteInv'
  BY <1>14 DEF requestConnection
<1>15. ASSUME NEW m \in Match, NEW ok \in BOOLEAN, ConnectAnswered(m, ok) PROVE MuteInv'
  BY <1>15 DEF ConnectAnswered, Shows, Item
<1>16. ASSUME NEW d \in Dialogs, OpenDialog(d) PROVE MuteInv'
  BY <1>16 DEF OpenDialog
<1>17. ASSUME NEW d \in Dialogs, Cancel(d) PROVE MuteInv'
  BY <1>17 DEF Cancel, Visible
<1>18. ASSUME blockPartner PROVE MuteInv'
  BY <1>18 DEF blockPartner, Visible, closePeer
<1>19. ASSUME reportPartner PROVE MuteInv'
  BY <1>19 DEF reportPartner, Visible, closePeer
<1>20. ASSUME SendTip PROVE MuteInv'
  BY <1>20 DEF SendTip, Visible
<1>21. ASSUME NEW m \in Match, Found(m) PROVE MuteInv'
  BY <1>21 DEF Found
<1>22. ASSUME Closed PROVE MuteInv'
  BY <1>22 DEF Closed, closePeer
<1>23. ASSUME Leave PROVE MuteInv'
  BY <1>23 DEF Leave, closePeer
<1>24. CASE UNCHANGED vars
  BY <1>24 DEF vars
<1> QED
  BY <1>1, <1>2, <1>3, <1>4, <1>5, <1>6, <1>7, <1>8, <1>9, <1>10, <1>11,
     <1>12, <1>13, <1>14, <1>15, <1>16, <1>17, <1>18, <1>19, <1>20, <1>21,
     <1>22, <1>23, <1>24 DEF Next, Camera, OfACall

(* No camera is lost but those the code loses. *)
LEMMA StrayStep ==
    ASSUME TypeOK, StreamInv, SwitchInv, NoStrayCamera, [Next]_vars
    PROVE  NoStrayCamera'
<1> USE NoneAssumption DEF TypeOK, StreamInv, SwitchInv, NoStrayCamera, camera, media, items, call, Still
<1>1. ASSUME startMedia PROVE NoStrayCamera'
  BY <1>1 DEF startMedia
<1>2. ASSUME Refused PROVE NoStrayCamera'
  BY <1>2 DEF Refused, requestUserMedia, classify
<1>3. ASSUME NEW t \in Track, Granted(t) PROVE NoStrayCamera'
  BY <1>3 DEF Granted, Opens, ZoomCapability
<1>4. ASSUME NEW t \in Track, OtherCamera(t) PROVE NoStrayCamera'
  BY <1>4 DEF OtherCamera, Opens, Swapped, Carried, ZoomCapability
<1>5. ASSUME toggleCamera PROVE NoStrayCamera'
  BY <1>5 DEF toggleCamera, HasStream
<1>6. ASSUME switchCamera PROVE NoStrayCamera'
  BY <1>6 DEF switchCamera, HasStream
<1>7. ASSUME NoOtherCamera PROVE NoStrayCamera'
  BY <1>7 DEF NoOtherCamera
<1>8. ASSUME Replaced PROVE NoStrayCamera'
  BY <1>8 DEF Replaced, Swapped, ZoomCapability
<1>9. ASSUME NotReplaced PROVE NoStrayCamera'
  BY <1>9 DEF NotReplaced
<1>10. ASSUME NEW m \in Match, ChatMessage(m) PROVE NoStrayCamera'
  BY <1>10 DEF ChatMessage, Shows, Item
<1>11. ASSUME NEW m \in Match, NEW o \in BOOLEAN, TipReceived(m, o) PROVE NoStrayCamera'
  BY <1>11 DEF TipReceived, Item
<1>12. ASSUME NEW m \in Match, Sampled(m) PROVE NoStrayCamera'
  BY <1>12 DEF Sampled, Item
<1>13. ASSUME respondToOffer PROVE NoStrayCamera'
  BY <1>13 DEF respondToOffer, Prompted
<1>14. ASSUME requestConnection PROVE NoStrayCamera'
  BY <1>14 DEF requestConnection
<1>15. ASSUME NEW m \in Match, NEW ok \in BOOLEAN, ConnectAnswered(m, ok) PROVE NoStrayCamera'
  BY <1>15 DEF ConnectAnswered, Shows, Item
<1>16. ASSUME NEW d \in Dialogs, OpenDialog(d) PROVE NoStrayCamera'
  BY <1>16 DEF OpenDialog
<1>17. ASSUME NEW d \in Dialogs, Cancel(d) PROVE NoStrayCamera'
  BY <1>17 DEF Cancel, Visible
<1>18. ASSUME blockPartner PROVE NoStrayCamera'
  BY <1>18 DEF blockPartner, Visible, closePeer
<1>19. ASSUME reportPartner PROVE NoStrayCamera'
  BY <1>19 DEF reportPartner, Visible, closePeer
<1>20. ASSUME SendTip PROVE NoStrayCamera'
  BY <1>20 DEF SendTip, Visible
<1>21. ASSUME NEW m \in Match, Found(m) PROVE NoStrayCamera'
  BY <1>21 DEF Found
<1>22. ASSUME Closed PROVE NoStrayCamera'
  BY <1>22 DEF Closed, closePeer
<1>23. ASSUME Leave PROVE NoStrayCamera'
  BY <1>23 DEF Leave, closePeer
<1>24. CASE UNCHANGED vars
  BY <1>24 DEF vars
<1> QED
  BY <1>1, <1>2, <1>3, <1>4, <1>5, <1>6, <1>7, <1>8, <1>9, <1>10, <1>11,
     <1>12, <1>13, <1>14, <1>15, <1>16, <1>17, <1>18, <1>19, <1>20, <1>21,
     <1>22, <1>23, <1>24 DEF Next, Camera, OfACall

(* What is shown of a call goes with it, or came late. *)
LEMMA ShownStep ==
    ASSUME TypeOK, ThisCallOnly, [Next]_vars
    PROVE  ThisCallOnly'
<1> USE NoneAssumption DEF TypeOK, ThisCallOnly, camera, media, items, call, Still
<1>1. ASSUME startMedia PROVE ThisCallOnly'
  BY <1>1 DEF startMedia
<1>2. ASSUME Refused PROVE ThisCallOnly'
  BY <1>2 DEF Refused, requestUserMedia, classify
<1>3. ASSUME NEW t \in Track, Granted(t) PROVE ThisCallOnly'
  BY <1>3 DEF Granted, Opens, ZoomCapability
<1>4. ASSUME NEW t \in Track, OtherCamera(t) PROVE ThisCallOnly'
  BY <1>4 DEF OtherCamera, Opens, Swapped, Carried, ZoomCapability
<1>5. ASSUME toggleCamera PROVE ThisCallOnly'
  BY <1>5 DEF toggleCamera, HasStream
<1>6. ASSUME switchCamera PROVE ThisCallOnly'
  BY <1>6 DEF switchCamera, HasStream
<1>7. ASSUME NoOtherCamera PROVE ThisCallOnly'
  BY <1>7 DEF NoOtherCamera
<1>8. ASSUME Replaced PROVE ThisCallOnly'
  BY <1>8 DEF Replaced, Swapped, ZoomCapability
<1>9. ASSUME NotReplaced PROVE ThisCallOnly'
  BY <1>9 DEF NotReplaced
<1>10. ASSUME NEW m \in Match, ChatMessage(m) PROVE ThisCallOnly'
  BY <1>10, ItemShape DEF ChatMessage, Kinds, Shows
<1>11. ASSUME NEW m \in Match, NEW o \in BOOLEAN, TipReceived(m, o) PROVE ThisCallOnly'
  BY <1>11, ItemShape DEF TipReceived, Kinds
<1>12. ASSUME NEW m \in Match, Sampled(m) PROVE ThisCallOnly'
  BY <1>12, ItemShape DEF Sampled, Kinds
<1>13. ASSUME respondToOffer PROVE ThisCallOnly'
  BY <1>13 DEF respondToOffer, Prompted
<1>14. ASSUME requestConnection PROVE ThisCallOnly'
  BY <1>14 DEF requestConnection
<1>15. ASSUME NEW m \in Match, NEW ok \in BOOLEAN, ConnectAnswered(m, ok) PROVE ThisCallOnly'
  BY <1>15, ItemShape DEF ConnectAnswered, Kinds, Shows
<1>16. ASSUME NEW d \in Dialogs, OpenDialog(d) PROVE ThisCallOnly'
  BY <1>16 DEF OpenDialog
<1>17. ASSUME NEW d \in Dialogs, Cancel(d) PROVE ThisCallOnly'
  BY <1>17 DEF Cancel, Visible
<1>18. ASSUME blockPartner PROVE ThisCallOnly'
  BY <1>18 DEF blockPartner, Visible, closePeer
<1>19. ASSUME reportPartner PROVE ThisCallOnly'
  BY <1>19 DEF reportPartner, Visible, closePeer
<1>20. ASSUME SendTip PROVE ThisCallOnly'
  BY <1>20 DEF SendTip, Visible
<1>21. ASSUME NEW m \in Match, Found(m) PROVE ThisCallOnly'
  BY <1>21 DEF Found
<1>22. ASSUME Closed PROVE ThisCallOnly'
  BY <1>22 DEF Closed, closePeer
<1>23. ASSUME Leave PROVE ThisCallOnly'
  BY <1>23 DEF Leave, closePeer
<1>24. CASE UNCHANGED vars
  BY <1>24 DEF vars
<1> QED
  BY <1>1, <1>2, <1>3, <1>4, <1>5, <1>6, <1>7, <1>8, <1>9, <1>10, <1>11,
     <1>12, <1>13, <1>14, <1>15, <1>16, <1>17, <1>18, <1>19, <1>20, <1>21,
     <1>22, <1>23, <1>24 DEF Next, Camera, OfACall

THEOREM PanelInvariant == Spec => []PanelInv
<1>1. PanelInv /\ [Next]_vars => PanelInv'
  BY TypeStep, StreamStep, MuteStep, StrayStep, ShownStep DEF PanelInv
<1> QED
  BY <1>1, InitInv, PTL DEF Spec

--------------------------------------------------------------------------------
(* The page's state has its types. *)
THEOREM TypeCorrect == Spec => []TypeOK
<1>1. PanelInv => TypeOK
  BY DEF PanelInv
<1> QED
  BY <1>1, PanelInvariant, PTL

(* Whatever switch-over is under way, failed or was overtaken by the call's   *)
(* end, a connection sends a camera that runs: the stream's.                  *)
THEOREM SendsTheStream == Spec => []SendsLiveCamera
<1>1. PanelInv => SendsLiveCamera
  BY NoneAssumption DEF PanelInv, StreamInv, SendsLiveCamera
<1> QED
  BY <1>1, PanelInvariant, PTL

(* An off camera stays off over any number of switch-overs and calls, unless  *)
(* the button was last pressed during a swap.                                 *)
THEOREM OffStaysOff == Spec => []OffIsOff
<1>1. PanelInv => OffIsOff
  BY DEF PanelInv, StreamInv, MuteInv, OffIsOff
<1> QED
  BY <1>1, PanelInvariant, PTL

(* However many cameras are opened, the page loses none of them but where a   *)
(* swap is rejected or the page was closed while it asked.                    *)
THEOREM CamerasAccounted == Spec => []NoStrayCamera
<1>1. PanelInv => NoStrayCamera
  BY DEF PanelInv
<1> QED
  BY <1>1, PanelInvariant, PTL

(* Nothing of an earlier call is on the screen, unless it arrived after it.   *)
THEOREM ShowsThisCall == Spec => []ThisCallOnly
<1>1. PanelInv => ThisCallOnly
  BY DEF PanelInv
<1> QED
  BY <1>1, PanelInvariant, PTL

--------------------------------------------------------------------------------
CONSTANTS User, FaultKinds, Offered, MaxFaults, MaxPresses

VARIABLES client, up, gone, outbox, inbox, wire, queue, pair, matches, presses, faults

(* The conversation of the pages with the server; its registry of matches is  *)
(* not the panel's set of cameras.                                            *)
C == INSTANCE Conversation WITH live <- matches

(* What Conversation assumes of its bounds.                                   *)
Bounds == MaxFaults \in Nat /\ MaxPresses \in Nat

(* A page whose connection has been given no description but of its match,    *)
(* and whose handlers each began with the connection of the match they serve. *)
GoodClient(c) ==
    /\ c \in C!Client
    /\ c.state \notin {"MATCH_FOUND", "SKIPPING"}
    /\ \A j \in c.jobs : j.peer = j.match
    /\ c.remote \in {None, c.matchId}
    /\ c.held => c.remote = None /\ c.matchId # None

ClientInv ==
    /\ client \in [User -> C!Client]
    /\ \A u \in User : GoodClient(client[u])

(* What announces a match, or a candidate, says of which.                     *)
Message == {e \in C!EventSet : e.kind \in {"match:found", "webrtc:ice"} => e.match \in Match}

EventInv ==
    /\ inbox \in [User -> Seq(Message)]
    /\ wire \subseteq [User -> Seq(Message)]

OutboxInv == outbox \in [User -> SUBSET C!RequestSet]

RestInv ==
    /\ up \in [User -> BOOLEAN] /\ gone \subseteq User
    /\ queue \subseteq User /\ matches \subseteq Match
    /\ pair \in [Match -> (User \X User) \cup {<<None, None>>}]
    /\ MaxPresses \in Nat /\ MaxFaults \in Nat
    /\ presses \in 0..MaxPresses /\ faults \in 0..MaxFaults

ConversationInv == ClientInv /\ EventInv /\ OutboxInv /\ RestInv

--------------------------------------------------------------------------------
(* What the hook's helpers make of a page *)

LEMMA Moves ==
    ASSUME NEW c, GoodClient(c), NEW to \in C!SessionState \ {"MATCH_FOUND", "SKIPPING"}
    PROVE  /\ GoodClient(C!transitionTo(c, to))
           /\ C!transitionTo(c, to).matchId = c.matchId
<1> DEFINE d == [c EXCEPT !.state = to]
<1>1. /\ d \in C!Client /\ d.state = to /\ d.jobs = c.jobs /\ d.remote = c.remote
      /\ d.matchId = c.matchId /\ d.held = c.held
  BY DEF GoodClient, C!Client
<1>2. GoodClient(d)
  BY <1>1, Zenon DEF GoodClient
<1> QED
  BY <1>1, <1>2 DEF C!transitionTo

LEMMA ClosesPeer ==
    ASSUME NEW c, GoodClient(c)
    PROVE  GoodClient(C!closePeer(c))
<1> DEFINE d == C!closePeer(c)
<1>1. /\ d \in C!Client /\ d.state = c.state /\ d.jobs = c.jobs /\ d.remote = None
      /\ d.matchId = None /\ d.held = FALSE
  BY DEF C!closePeer, GoodClient, C!Client, C!MaybeMatch
<1> HIDE DEF d
<1>2. GoodClient(d)
  BY <1>1, Zenon DEF GoodClient
<1> QED
  BY <1>2 DEF d

LEMMA Skips ==
    ASSUME NEW c, GoodClient(c)
    PROVE  GoodClient(C!Skipped(c, TRUE))
<1> DEFINE s == [c EXCEPT !.state = "SKIPPING"]
           p == C!closePeer(s)
           q == [p EXCEPT !.state = "QUEUED"]
<1>1. s \in C!Client /\ s.jobs = c.jobs
  BY DEF GoodClient, C!Client, C!SessionState
<1>2. /\ p \in C!Client /\ p.state = s.state /\ p.jobs = c.jobs /\ p.remote = None
      /\ p.matchId = None /\ p.held = FALSE
  BY <1>1 DEF C!closePeer, C!Client, C!MaybeMatch
<1>3. p.state = "SKIPPING"
  BY <1>2 DEF GoodClient, C!Client
<1>4. "QUEUED" \in C!TRANSITIONS["SKIPPING"]
  BY DEF C!TRANSITIONS, C!SessionState
<1>5. C!transitionTo(p, "QUEUED") = q
  BY <1>3, <1>4 DEF C!transitionTo, C!canTransition
<1>6. /\ q \in C!Client /\ q.state = "QUEUED" /\ q.jobs = c.jobs /\ q.remote = None
      /\ q.matchId = None /\ q.held = FALSE
  BY <1>2 DEF C!Client, C!SessionState
<1> HIDE DEF q
<1>7. GoodClient(q)
  BY <1>6, Zenon DEF GoodClient
<1>8. CASE C!transitionTo(c, "SKIPPING") = s
  BY <1>5, <1>7, <1>8 DEF C!Skipped
<1>9. CASE C!transitionTo(c, "SKIPPING") = c
  BY <1>9, ClosesPeer, Moves DEF C!Skipped, C!SessionState
<1> QED
  BY <1>8, <1>9 DEF C!transitionTo

(* A page that changes nothing of its call.                                   *)
LEMMA Otherwise ==
    ASSUME NEW c, GoodClient(c), NEW d \in C!Client,
           d.state = c.state, d.jobs \subseteq c.jobs, d.remote = c.remote,
           d.matchId = c.matchId, d.held = c.held
    PROVE  GoodClient(d)
  BY Zenon DEF GoodClient

LEMMA Left ==
    ASSUME NEW c, GoodClient(c), NEW j
    PROVE  GoodClient(C!Without(c, j)) /\ C!Without(c, j).matchId = c.matchId
<1> DEFINE d == C!Without(c, j)
<1>1. /\ d \in C!Client /\ d.state = c.state /\ d.jobs \subseteq c.jobs /\ d.remote = c.remote
      /\ d.matchId = c.matchId /\ d.held = c.held
  BY DEF C!Without, GoodClient, C!Client
<1> QED
  BY <1>1, Otherwise

LEMMA Describes ==
    ASSUME NEW c, GoodClient(c), NEW m \in Match, c.matchId = m
    PROVE  GoodClient(C!Described(c, m))
<1> DEFINE d == C!Described(c, m)
<1>1. /\ d \in C!Client /\ d.state = c.state /\ d.jobs = c.jobs /\ d.remote = m
      /\ d.matchId = m /\ d.held = FALSE
  BY DEF C!Described, GoodClient, C!Client, C!MaybeMatch
<1> HIDE DEF d
<1>2. GoodClient(d)
  BY <1>1, Zenon DEF GoodClient
<1> QED
  BY <1>2 DEF d

LEMMA Starts ==
    ASSUME NEW c, GoodClient(c), NEW then \in {"join", "stay"}
    PROVE  GoodClient(C!startMedia(c, then))
<1> DEFINE t == C!transitionTo(c, "REQUESTING_PERMISSIONS")
           d == [t EXCEPT !.starting = then, !.mediaError = FALSE]
<1>1. GoodClient(t)
  BY Moves DEF C!SessionState
<1> HIDE DEF t
<1>2. /\ d \in C!Client /\ d.state = t.state /\ d.jobs \subseteq t.jobs /\ d.remote = t.remote
      /\ d.matchId = t.matchId /\ d.held = t.held
  BY <1>1 DEF GoodClient, C!Client
<1>3. GoodClient(d)
  BY <1>1, <1>2, Otherwise
<1> QED
  BY <1>3 DEF C!startMedia, t

LEMMA StartsFresh == GoodClient(C!Fresh)
<1>1. /\ C!Fresh \in C!Client /\ C!Fresh.state = "IDLE" /\ C!Fresh.jobs = {}
      /\ C!Fresh.remote = None
      /\ C!Fresh.matchId = None /\ C!Fresh.held = FALSE
  BY DEF C!Fresh, C!Client, C!MaybeMatch, C!SessionState
<1> QED
  BY <1>1, Zenon DEF GoodClient

--------------------------------------------------------------------------------
(* What a step makes of the pages, the requests and the events                *)

LEMMA Turns ==
    ASSUME ClientInv, NEW u \in User, NEW c, GoodClient(c), C!Becomes(u, c)
    PROVE  ClientInv'
<1>1. /\ client' \in [User -> C!Client]
      /\ \A v \in User : client'[v] = IF v = u THEN c ELSE client[v]
  BY DEF ClientInv, C!Becomes, GoodClient
<1> QED
  BY <1>1 DEF ClientInv

LEMMA Emits ==
    ASSUME OutboxInv, NEW u \in User, NEW r \in C!RequestSet, C!Emit(u, r)
    PROVE  OutboxInv'
  BY DEF OutboxInv, C!Emit

LEMMA SkipTurns ==
    ASSUME ClientInv, OutboxInv, NEW u \in User, NEW c, GoodClient(c), C!Skip(u, c)
    PROVE  ClientInv' /\ OutboxInv'
<1>1. CASE c.matchId = None
  BY <1>1, Turns DEF C!Skip, OutboxInv
<1>2. CASE c.matchId # None
  <2>1. C!Request("skip", c.matchId, TRUE) \in C!RequestSet
    BY DEF C!Request, C!RequestSet, C!RequestKind, GoodClient, C!Client
  <2> QED
    BY <1>2, <2>1, Turns, Emits, Skips DEF C!Skip
<1> QED
  BY <1>1, <1>2

LEMMA JoinTurns ==
    ASSUME ClientInv, OutboxInv, NEW u \in User, NEW c, GoodClient(c), C!joinQueue(u, c)
    PROVE  ClientInv' /\ OutboxInv'
<1>1. CASE c.stream /\ C!canTransition(c.state, "QUEUED")
  <2>1. C!Request("join", None, TRUE) \in C!RequestSet
    BY DEF C!Request, C!RequestSet, C!RequestKind, C!MaybeMatch
  <2>2. GoodClient([c EXCEPT !.state = "QUEUED"])
    BY <1>1, Moves DEF C!transitionTo, C!SessionState
  <2>3. C!Becomes(u, [c EXCEPT !.state = "QUEUED"]) /\ C!Emit(u, C!Request("join", None, TRUE))
    BY <1>1 DEF C!joinQueue
  <2> QED
    BY <2>1, <2>2, <2>3, Turns, Emits
<1>2. CASE ~(c.stream /\ C!canTransition(c.state, "QUEUED"))
  <2>1. C!Becomes(u, c) /\ UNCHANGED outbox
    BY <1>2 DEF C!joinQueue
  <2> QED
    BY <2>1, Turns DEF OutboxInv
<1> QED
  BY <1>1, <1>2

LEMMA Takes ==
    ASSUME EventInv, NEW u \in User, NEW kind, C!On(u, kind)
    PROVE  EventInv' /\ Head(inbox[u]) \in Message /\ Head(inbox[u]).kind = kind
<1>1. inbox[u] \in Seq(Message) /\ inbox[u] # <<>>
  BY DEF EventInv, C!On
<1>2. Head(inbox[u]) \in Message /\ Tail(inbox[u]) \in Seq(Message)
  BY <1>1
<1>3. inbox' = [inbox EXCEPT ![u] = Tail(@)] /\ wire' = wire /\ Head(inbox[u]).kind = kind
  BY DEF C!On
<1> QED
  BY <1>2, <1>3 DEF EventInv

LEMMA Sends ==
    ASSUME EventInv, NEW u \in User, NEW e \in Message, C!Send(u, e)
    PROVE  inbox' \in [User -> Seq(Message)]
<1>1. Append(inbox[u], e) \in Seq(Message)
  BY DEF EventInv
<1>2. CASE up[u]
  <2>1. inbox' = [inbox EXCEPT ![u] = Append(@, e)]
    BY <1>2 DEF C!Send
  <2> QED
    BY <1>1, <2>1 DEF EventInv
<1>3. CASE ~up[u]
  BY <1>3 DEF EventInv, C!Send
<1> QED
  BY <1>2, <1>3

LEMMA Rows ==
    ASSUME NEW S, NEW e \in S
    PROVE  /\ <<e>> \in Seq(S)
           /\ \A f \in S : <<e, f>> \in Seq(S)
           /\ \A s \in Seq(S) : Append(s, e) \in Seq(S)
  OBVIOUS

(* An event of another kind may be of no match.                               *)
LEMMA Announces ==
    ASSUME NEW kind \in C!EventKind, NEW m \in C!MaybeMatch, NEW flag \in BOOLEAN,
           kind \in {"match:found", "webrtc:ice"} => m \in Match
    PROVE  C!Event(kind, m, flag) \in Message
  BY DEF C!Event, Message, C!EventSet

--------------------------------------------------------------------------------
(* Initially                                                                  *)

LEMMA ConversationStarts == Bounds /\ C!Init => ConversationInv
<1> SUFFICES ASSUME Bounds, C!Init PROVE ConversationInv
  OBVIOUS
<1>1. ClientInv
  <2> DEFINE d == [C!Fresh EXCEPT !.state = "QUEUED", !.stream = TRUE, !.confirmed = TRUE]
  <2>1. /\ d \in C!Client /\ d.state = "QUEUED" /\ d.jobs = {} /\ d.remote = None
        /\ d.matchId = None /\ d.held = FALSE
    BY DEF C!Fresh, C!Client, C!MaybeMatch, C!SessionState
  <2> HIDE DEF d
  <2>2. GoodClient(d)
    BY <2>1, Zenon DEF GoodClient
  <2>3. client = [u \in User |-> d]
    BY DEF C!Init, d
  <2> QED
    BY <2>1, <2>2, <2>3 DEF ClientInv
<1>2. EventInv
  <2>1. <<>> \in Seq(Message)
    OBVIOUS
  <2> QED
    BY <2>1 DEF C!Init, EventInv
<1>3. OutboxInv /\ RestInv
  BY DEF C!Init, OutboxInv, RestInv, Bounds
<1> QED
  BY <1>1, <1>2, <1>3 DEF ConversationInv

--------------------------------------------------------------------------------
(* The page's own steps *)

LEMMA ButtonStep ==
    ASSUME ConversationInv, NEW u \in User, C!Buttons(u)
    PROVE  ConversationInv'
<1> DEFINE c == client[u]
<1>1. ClientInv /\ EventInv /\ OutboxInv /\ RestInv /\ GoodClient(c)
  BY DEF ConversationInv, ClientInv
<1>2. ASSUME NEW button, C!Press(button)
      PROVE  EventInv' /\ RestInv'
  BY <1>1, <1>2 DEF C!Press, C!Pressed, EventInv, RestInv, C!net, C!server
<1>3. c.matchId # None => c.matchId \in Match
  BY <1>1 DEF GoodClient, C!Client, C!MaybeMatch
<1>4. CASE C!PressStart(u)
  <2>1. EventInv' /\ RestInv'
    BY <1>2, <1>4 DEF C!PressStart
  <2>2. CASE C!joinQueue(u, c)
    BY <1>1, <2>1, <2>2, JoinTurns DEF ConversationInv
  <2>3. CASE C!Becomes(u, C!startMedia(c, "join")) /\ UNCHANGED outbox
    BY <1>1, <2>1, <2>3, Starts, Turns DEF ConversationInv, OutboxInv
  <2> QED
    BY <1>4, <2>2, <2>3 DEF C!PressStart
<1>5. CASE C!PressTryAgain(u)
  <2>1. EventInv' /\ RestInv'
    BY <1>2, <1>5 DEF C!PressTryAgain
  <2>2. CASE C!joinQueue(u, c)
    BY <1>1, <2>1, <2>2, JoinTurns DEF ConversationInv
  <2>3. CASE C!Becomes(u, C!startMedia(c, "stay")) /\ UNCHANGED outbox
    BY <1>1, <2>1, <2>3, Starts, Turns DEF ConversationInv, OutboxInv
  <2> QED
    BY <1>5, <2>2, <2>3 DEF C!PressTryAgain
<1>6. CASE C!PressFindSomeone(u)
  <2>1. EventInv' /\ RestInv' /\ C!joinQueue(u, c)
    BY <1>2, <1>6 DEF C!PressFindSomeone
  <2> QED
    BY <1>1, <2>1, JoinTurns DEF ConversationInv
<1>7. CASE C!PressCancel(u)
  <2> DEFINE d == [c EXCEPT !.confirmed = FALSE]
  <2>1. GoodClient(d)
    <3>1. /\ d \in C!Client /\ d.state = c.state /\ d.jobs \subseteq c.jobs
          /\ d.remote = c.remote /\ d.matchId = c.matchId /\ d.held = c.held
      BY <1>1 DEF GoodClient, C!Client
    <3> QED
      BY <1>1, <3>1, Otherwise
  <2> HIDE DEF d
  <2>2. GoodClient(C!transitionTo(d, "READY"))
    BY <2>1, Moves DEF C!SessionState
  <2>3. C!Request("leave", None, TRUE) \in C!RequestSet
    BY DEF C!Request, C!RequestSet, C!RequestKind, C!MaybeMatch
  <2>4. EventInv' /\ RestInv'
    BY <1>2, <1>7 DEF C!PressCancel
  <2>5. C!Becomes(u, C!transitionTo(d, "READY")) /\ C!Emit(u, C!Request("leave", None, TRUE))
    BY <1>7 DEF C!PressCancel, d
  <2> QED
    BY <1>1, <2>2, <2>3, <2>4, <2>5, Turns, Emits DEF ConversationInv
<1>8. CASE C!PressNext(u)
  <2>1. EventInv' /\ RestInv' /\ C!Skip(u, c)
    BY <1>2, <1>8 DEF C!PressNext
  <2> QED
    BY <1>1, <2>1, SkipTurns DEF ConversationInv
<1>9. GoodClient(C!transitionTo(C!closePeer(c), "READY"))
  BY <1>1, ClosesPeer, Moves DEF C!SessionState
<1>10. CASE C!PressEnd(u)
  <2>1. EventInv' /\ RestInv'
    BY <1>2, <1>10 DEF C!PressEnd
  <2>2. ClientInv'
    BY <1>1, <1>9, <1>10, Turns DEF C!PressEnd
  <2>3. OutboxInv'
    <3>1. CASE c.matchId = None
      BY <1>1, <1>10, <3>1 DEF C!PressEnd, OutboxInv
    <3>2. CASE c.matchId # None
      <4>1. C!Request("end", c.matchId, FALSE) \in C!RequestSet
        BY <1>3, <3>2 DEF C!Request, C!RequestSet, C!RequestKind, C!MaybeMatch
      <4> QED
        BY <1>1, <1>10, <3>2, <4>1, Emits DEF C!PressEnd
    <3> QED
      BY <3>1, <3>2
  <2> QED
    BY <2>1, <2>2, <2>3 DEF ConversationInv
<1>11. CASE C!PressBlock(u)
  <2>1. EventInv' /\ RestInv'
    BY <1>2, <1>11 DEF C!PressBlock
  <2>2. C!Request("block", c.matchId, FALSE) \in C!RequestSet
    BY <1>3, <1>11 DEF C!PressBlock, C!Request, C!RequestSet, C!RequestKind, C!MaybeMatch
  <2> QED
    BY <1>1, <1>9, <1>11, <2>1, <2>2, Turns, Emits DEF C!PressBlock, ConversationInv
<1>12. CASE C!PressLeave(u)
  <2>1. ClientInv' /\ OutboxInv'
    BY <1>1, <1>12, StartsFresh, Turns DEF C!PressLeave, OutboxInv
  <2>2. EventInv'
    <3>1. <<>> \in Seq(Message)
      OBVIOUS
    <3> QED
      BY <1>1, <1>12, <3>1 DEF C!PressLeave, EventInv
  <2>3. RestInv'
    BY <1>1, <1>12 DEF C!PressLeave, C!Pressed, RestInv, C!server
  <2> QED
    BY <2>1, <2>2, <2>3 DEF ConversationInv
<1> QED
  BY <1>4, <1>5, <1>6, <1>7, <1>8, <1>10, <1>11, <1>12 DEF C!Buttons

LEMMA MediaStep ==
    ASSUME ConversationInv, NEW u \in User, C!Media(u)
    PROVE  ConversationInv'
<1> DEFINE c == client[u]
<1>1. ClientInv /\ EventInv /\ OutboxInv /\ RestInv /\ GoodClient(c)
  BY DEF ConversationInv, ClientInv
<1>2. CASE C!MediaGranted(u)
  <2> DEFINE d == [c EXCEPT !.starting = "no", !.stream = TRUE]
             r == C!transitionTo(d, "READY")
  <2>1. /\ d \in C!Client /\ d.state = c.state /\ d.jobs \subseteq c.jobs
        /\ d.remote = c.remote /\ d.matchId = c.matchId /\ d.held = c.held
    BY <1>1 DEF GoodClient, C!Client
  <2>2. GoodClient(d)
    BY <1>1, <2>1, Otherwise
  <2> HIDE DEF d
  <2>3. GoodClient(r)
    BY <2>2, Moves DEF C!SessionState
  <2> HIDE DEF r
  <2>4. C!joinQueue(u, r) \/ (C!Becomes(u, r) /\ UNCHANGED outbox)
    BY <1>2 DEF C!MediaGranted, r, d
  <2>5. ClientInv' /\ OutboxInv'
    BY <1>1, <2>3, <2>4, JoinTurns, Turns DEF OutboxInv
  <2>6. EventInv' /\ RestInv'
    BY <1>1, <1>2 DEF C!MediaGranted, EventInv, RestInv, C!net, C!server
  <2> QED
    BY <2>5, <2>6 DEF ConversationInv
<1>3. CASE C!MediaDenied(u)
  <2> DEFINE d == [c EXCEPT !.starting = "no", !.mediaError = TRUE]
  <2>1. /\ d \in C!Client /\ d.state = c.state /\ d.jobs \subseteq c.jobs
        /\ d.remote = c.remote /\ d.matchId = c.matchId /\ d.held = c.held
    BY <1>1 DEF GoodClient, C!Client
  <2>2. GoodClient(d)
    BY <1>1, <2>1, Otherwise
  <2> HIDE DEF d
  <2>3. GoodClient(C!transitionTo(d, "ERROR"))
    BY <2>2, Moves DEF C!SessionState
  <2>4. C!Becomes(u, C!transitionTo(d, "ERROR")) /\ UNCHANGED outbox
    BY <1>3 DEF C!MediaDenied, d
  <2>5. ClientInv' /\ OutboxInv'
    BY <1>1, <2>3, <2>4, Turns DEF OutboxInv
  <2>6. EventInv' /\ RestInv'
    BY <1>1, <1>3 DEF C!MediaDenied, C!Fault, EventInv, RestInv, C!net, C!server
  <2> QED
    BY <2>5, <2>6 DEF ConversationInv
<1> QED
  BY <1>2, <1>3 DEF C!Media

LEMMA TimerStep ==
    ASSUME ConversationInv, NEW u \in User, C!Timers(u)
    PROVE  ConversationInv'
<1> DEFINE c == client[u]
           d(t) == [c EXCEPT !.timers = @ \ {t}]
<1>1. ClientInv /\ EventInv /\ OutboxInv /\ RestInv /\ GoodClient(c)
  BY DEF ConversationInv, ClientInv
<1>2. ASSUME NEW t
      PROVE  GoodClient(d(t))
  <2>1. /\ d(t) \in C!Client /\ d(t).state = c.state /\ d(t).jobs \subseteq c.jobs
        /\ d(t).remote = c.remote /\ d(t).matchId = c.matchId /\ d(t).held = c.held
    BY <1>1 DEF GoodClient, C!Client
  <2> QED
    BY <1>1, <2>1, Otherwise
<1>3. EventInv' /\ RestInv'
  BY <1>1 DEF C!Timers, C!NegotiationTimeout, C!ReconnectTimeout, C!Link, EventInv, RestInv,
              C!net, C!server
<1>4. CASE C!NegotiationTimeout(u)
  <2>1. (C!Becomes(u, d("negotiation")) /\ UNCHANGED outbox) \/ C!Skip(u, d("negotiation"))
    BY <1>4 DEF C!NegotiationTimeout
  <2> HIDE DEF d
  <2>2. ClientInv' /\ OutboxInv'
    BY <1>1, <1>2, <2>1, Turns, SkipTurns DEF OutboxInv
  <2> QED
    BY <1>3, <2>2 DEF ConversationInv
<1>5. CASE C!ReconnectTimeout(u)
  <2>1. \/ C!Link(u, d("reconnect"))
        \/ C!Link(u, C!endMatchLocally(d("reconnect")))
    BY <1>5 DEF C!ReconnectTimeout
  <2> HIDE DEF d
  <2>2. GoodClient(C!endMatchLocally(d("reconnect")))
    BY <1>2, ClosesPeer, Moves DEF C!endMatchLocally, C!SessionState
  <2>3. ClientInv' /\ OutboxInv'
    BY <1>1, <1>2, <2>1, <2>2, Turns DEF C!Link, OutboxInv
  <2> QED
    BY <1>3, <2>3 DEF ConversationInv
<1> QED
  BY <1>4, <1>5 DEF C!Timers

--------------------------------------------------------------------------------
(* Events, handlers that resume, and the network                              *)

LEMMA EventStep ==
    ASSUME ConversationInv, NEW u \in User, C!Events(u)
    PROVE  ConversationInv'
<1> DEFINE c == client[u]
           e == Head(inbox[u])
<1>1. ClientInv /\ EventInv /\ OutboxInv /\ RestInv /\ GoodClient(c)
  BY DEF ConversationInv, ClientInv
<1>2. PICK kind : C!On(u, kind)
  BY DEF C!Events, C!OnMatchFound, C!OnDescription, C!OnIce, C!OnPartnerLeft, C!OnEnded,
         C!OnQueue,
         C!OnRestricted
<1>3. EventInv' /\ e \in Message /\ e.kind = kind
  BY <1>1, <1>2, Takes
<1>4. RestInv'
  BY <1>1, <1>2 DEF C!On, RestInv, C!net, C!server
<1>5. OutboxInv'
  BY <1>1 DEF C!Events, C!OnMatchFound, C!OnDescription, C!OnIce, C!OnPartnerLeft, C!OnEnded,
              C!OnQueue,
              C!OnRestricted, OutboxInv
<1>6. e.match \in C!MaybeMatch /\ e.flag \in BOOLEAN /\ c.matchId \in C!MaybeMatch
  BY <1>1, <1>3 DEF Message, C!EventSet, GoodClient, C!Client
<1>7. ASSUME NEW d, GoodClient(d), C!Becomes(u, d)
      PROVE  ConversationInv'
  BY <1>1, <1>3, <1>4, <1>5, <1>7, Turns DEF ConversationInv
<1> HIDE DEF e
<1>8. CASE C!OnMatchFound(u)
  <2> DEFINE d == [c EXCEPT !.state = "SIGNALING", !.matchId = e.match,
                            !.remote = None, !.link = "new",
                            !.timers = @ \cup {"negotiation"},
                            !.jobs = IF e.flag THEN @ \cup {C!Job("initiate", e.match, e.match)}
                                     ELSE @]
  <2>1. e.match \in Match /\ e.match # None
    <3>1. e.kind = "match:found"
      BY <1>8 DEF C!OnMatchFound, C!On, e
    <3> QED
      BY <1>3, <3>1, NoneAssumption DEF Message
  <2>2. C!Job("initiate", e.match, e.match) \in C!JobSet
    BY <2>1 DEF C!Job, C!JobSet, C!JobKind
  <2>3. /\ d \in C!Client /\ d.state = "SIGNALING" /\ d.remote = None
        /\ d.matchId = e.match /\ d.held = c.held
    BY <1>1, <2>1, <2>2 DEF GoodClient, C!Client, C!MaybeMatch, C!SessionState
  <2>4. \A j \in d.jobs : j.peer = j.match
    BY <1>1 DEF GoodClient, C!Client, C!Job
  <2> HIDE DEF d
  <2>5. GoodClient(d)
    BY <2>1, <2>3, <2>4, Zenon DEF GoodClient
  <2>6. C!Becomes(u, d) \/ C!Becomes(u, c)
    BY <1>8 DEF C!OnMatchFound, d, e
  <2> QED
    BY <1>1, <1>7, <2>5, <2>6
<1>9. ASSUME NEW k \in {"webrtc:offer", "webrtc:answer"}, C!OnDescription(u, k)
      PROVE  ConversationInv'
  <2> DEFINE d == [c EXCEPT !.jobs = @ \cup {C!Job(k, c.matchId, e.match)}]
  <2>1. CASE c.matchId # None /\ e.match = c.matchId
    <3>1. C!Job(k, c.matchId, e.match) \in C!JobSet
      BY <1>6, <2>1 DEF C!Job, C!JobSet, C!JobKind, C!MaybeMatch
    <3>2. /\ d \in C!Client /\ d.state = c.state /\ d.remote = c.remote
          /\ d.matchId = c.matchId /\ d.held = c.held
      BY <1>1, <3>1 DEF GoodClient, C!Client
    <3>3. \A j \in d.jobs : j.peer = j.match
      BY <1>1, <2>1 DEF GoodClient, C!Client, C!Job
    <3>4. C!Becomes(u, d)
      BY <1>9, <2>1 DEF C!OnDescription, e
    <3> HIDE DEF d
    <3>5. GoodClient(d)
      BY <1>1, <3>2, <3>3, Zenon DEF GoodClient
    <3> QED
      BY <1>7, <3>4, <3>5
  <2>2. CASE ~(c.matchId # None /\ e.match = c.matchId)
    <3>1. C!Becomes(u, c)
      BY <1>9, <2>2 DEF C!OnDescription, e
    <3> QED
      BY <1>1, <1>7, <3>1
  <2> QED
    BY <2>1, <2>2
<1>10. CASE C!OnIce(u)
  <2> DEFINE h == c.held \/ (e.match = c.matchId /\ c.remote = None)
             d == [c EXCEPT !.held = h]
  <2>1. e.match \in Match /\ e.match # None
    <3>1. e.kind = "webrtc:ice"
      BY <1>10 DEF C!OnIce, C!On, e
    <3> QED
      BY <1>3, <3>1, NoneAssumption DEF Message
  <2>2. h \in BOOLEAN
    BY <1>1 DEF GoodClient, C!Client
  <2>3. h => c.remote = None /\ c.matchId # None
    BY <1>1, <2>1, Zenon DEF GoodClient
  <2>4. C!Becomes(u, d)
    BY <1>10 DEF C!OnIce, e
  <2> HIDE DEF h
  <2>5. /\ d \in C!Client /\ d.state = c.state /\ d.jobs = c.jobs /\ d.remote = c.remote
        /\ d.matchId = c.matchId /\ d.held = h
    BY <1>1, <2>2 DEF GoodClient, C!Client
  <2> HIDE DEF d
  <2>6. GoodClient(d)
    BY <1>1, <2>3, <2>5, Zenon DEF GoodClient
  <2> QED
    BY <1>7, <2>4, <2>6
<1>11. CASE C!OnPartnerLeft(u)
  <2>1. GoodClient(C!endMatchLocally(c))
    BY <1>1, ClosesPeer, Moves DEF C!endMatchLocally, C!SessionState
  <2>2. C!Becomes(u, C!endMatchLocally(c))
    BY <1>11 DEF C!OnPartnerLeft
  <2> QED
    BY <1>7, <2>1, <2>2
<1>12. ASSUME NEW to \in {"QUEUED", "READY", "ERROR"},
              C!Becomes(u, C!transitionTo(C!closePeer(c), to))
       PROVE  ConversationInv'
  <2>1. GoodClient(C!transitionTo(C!closePeer(c), to))
    BY <1>1, ClosesPeer, Moves DEF C!SessionState
  <2> QED
    BY <1>7, <1>12, <2>1
<1>13. CASE C!OnEnded(u)
  BY <1>12, <1>13 DEF C!OnEnded
<1>14. CASE C!OnQueue(u)
  <2> DEFINE d == [c EXCEPT !.confirmed = e.flag]
  <2>1. /\ d \in C!Client /\ d.state = c.state /\ d.jobs \subseteq c.jobs
        /\ d.remote = c.remote /\ d.matchId = c.matchId /\ d.held = c.held
    BY <1>1, <1>6 DEF GoodClient, C!Client
  <2>2. GoodClient(d)
    BY <1>1, <2>1, Otherwise
  <2>3. C!Becomes(u, d)
    BY <1>14 DEF C!OnQueue, e
  <2> QED
    BY <1>7, <2>2, <2>3
<1>15. CASE C!OnRestricted(u)
  BY <1>12, <1>15 DEF C!OnRestricted
<1> QED
  BY <1>8, <1>9, <1>10, <1>11, <1>13, <1>14, <1>15 DEF C!Events

LEMMA HandlerStep ==
    ASSUME ConversationInv, NEW u \in User, C!Handlers(u)
    PROVE  ConversationInv'
<1> DEFINE c == client[u]
<1>1. ClientInv /\ EventInv /\ OutboxInv /\ RestInv /\ GoodClient(c)
  BY DEF ConversationInv, ClientInv
<1>2. PICK j \in c.jobs : \/ C!OfferMade(u, j) \/ C!AnswerMade(u, j) \/ C!AnswerTaken(u, j)
                          \/ C!JobDropped(u, j) \/ C!JobRejected(u, j)
  BY DEF C!Handlers
<1> DEFINE d == C!Without(c, j)
<1>3. j.match \in Match /\ j.peer = j.match
  BY <1>1 DEF GoodClient, C!Client, C!JobSet
<1>4. GoodClient(d) /\ d.matchId = c.matchId
  BY <1>1, Left
<1> HIDE DEF d
<1>5. EventInv' /\ RestInv'
  <2>1. /\ UNCHANGED <<presses, C!net, inbox, wire, C!server>>
        /\ UNCHANGED faults \/ C!Fault("rejected")
    BY <1>2 DEF C!OfferMade, C!AnswerMade, C!AnswerTaken, C!Resume, C!JobDropped, C!JobRejected
  <2> QED
    BY <1>1, <2>1 DEF C!Fault, EventInv, RestInv, C!net, C!server
<1>6. ASSUME NEW k \in {"webrtc:offer", "webrtc:answer"}
      PROVE  C!Request(k, j.match, FALSE) \in C!RequestSet
  BY <1>3 DEF C!Request, C!RequestSet, C!RequestKind, C!MaybeMatch
<1>7. CASE C!OfferMade(u, j)
  <2>1. GoodClient(C!transitionTo(d, "CONNECTING"))
    BY <1>4, Moves DEF C!SessionState
  <2>2. /\ C!Becomes(u, C!transitionTo(d, "CONNECTING"))
        /\ C!Emit(u, C!Request("webrtc:offer", j.match, FALSE))
    BY <1>7 DEF C!OfferMade, d
  <2> QED
    BY <1>1, <1>5, <1>6, <2>1, <2>2, Turns, Emits DEF ConversationInv
<1>8. ASSUME C!Resume(u, j)
      PROVE  GoodClient(C!Described(d, j.match))
  BY <1>3, <1>4, <1>8, Describes DEF C!Resume
<1>9. CASE C!AnswerMade(u, j)
  <2> DEFINE a == C!Described(d, j.match)
  <2>1. GoodClient(a)
    BY <1>8, <1>9 DEF C!AnswerMade
  <2>2. /\ C!Becomes(u, C!transitionTo(a, "CONNECTING"))
        /\ C!Emit(u, C!Request("webrtc:answer", j.match, FALSE))
    BY <1>9 DEF C!AnswerMade, d
  <2> HIDE DEF a
  <2>3. GoodClient(C!transitionTo(a, "CONNECTING"))
    BY <2>1, Moves DEF C!SessionState
  <2> QED
    BY <1>1, <1>5, <1>6, <2>2, <2>3, Turns, Emits DEF ConversationInv
<1>10. CASE C!AnswerTaken(u, j)
  <2>1. /\ GoodClient(C!Described(d, j.match))
        /\ C!Becomes(u, C!Described(d, j.match))
        /\ UNCHANGED outbox
    BY <1>8, <1>10 DEF C!AnswerTaken, d
  <2> QED
    BY <1>1, <1>5, <2>1, Turns DEF ConversationInv, OutboxInv
<1>11. CASE C!JobDropped(u, j)
  <2>1. C!Becomes(u, d) /\ UNCHANGED outbox
    BY <1>11 DEF C!JobDropped, d
  <2> QED
    BY <1>1, <1>4, <1>5, <2>1, Turns DEF ConversationInv, OutboxInv
<1>12. CASE C!JobRejected(u, j)
  <2>1. C!Skip(u, d)
    BY <1>12 DEF C!JobRejected, d
  <2> QED
    BY <1>1, <1>4, <1>5, <2>1, SkipTurns DEF ConversationInv
<1> QED
  BY <1>2, <1>7, <1>9, <1>10, <1>11, <1>12

LEMMA NetworkStep ==
    ASSUME ConversationInv, NEW u \in User, C!Network(u)
    PROVE  ConversationInv'
<1> DEFINE c == client[u]
<1>1. ClientInv /\ EventInv /\ OutboxInv /\ RestInv /\ GoodClient(c)
  BY DEF ConversationInv, ClientInv
<1>2. ASSUME NEW d, GoodClient(d), C!Link(u, d), UNCHANGED faults \/ C!Fault("ice")
      PROVE  ConversationInv'
  <2>1. ClientInv' /\ OutboxInv'
    BY <1>1, <1>2, Turns DEF C!Link, OutboxInv
  <2>2. EventInv' /\ RestInv'
    BY <1>1, <1>2 DEF C!Link, C!Fault, EventInv, RestInv, C!net, C!server
  <2> QED
    BY <2>1, <2>2 DEF ConversationInv
<1>3. CASE C!Connected(u)
  <2> DEFINE d == [c EXCEPT !.link = "connected", !.timers = {}]
  <2>1. /\ d \in C!Client /\ d.state = c.state /\ d.jobs \subseteq c.jobs
        /\ d.remote = c.remote /\ d.matchId = c.matchId /\ d.held = c.held
    BY <1>1 DEF GoodClient, C!Client
  <2>2. GoodClient(d)
    BY <1>1, <2>1, Otherwise
  <2>3. C!Link(u, C!transitionTo(d, "CONNECTED")) /\ UNCHANGED faults
    BY <1>3 DEF C!Connected
  <2> HIDE DEF d
  <2>4. GoodClient(C!transitionTo(d, "CONNECTED"))
    BY <2>2, Moves DEF C!SessionState
  <2> QED
    BY <1>2, <2>3, <2>4
<1>4. CASE C!Disconnected(u)
  <2> DEFINE d == [c EXCEPT !.link = "disconnected"]
             r == [d EXCEPT !.state = "RECONNECTING"]
             t == [d EXCEPT !.state = "RECONNECTING", !.timers = @ \cup {"reconnect"}]
  <2>1. /\ d \in C!Client /\ d.state = c.state /\ d.jobs \subseteq c.jobs
        /\ d.remote = c.remote /\ d.matchId = c.matchId /\ d.held = c.held
    BY <1>1 DEF GoodClient, C!Client
  <2>2. GoodClient(d)
    BY <1>1, <2>1, Otherwise
  <2>3. /\ C!Link(u, IF C!canTransition(d.state, "RECONNECTING") THEN t ELSE d)
        /\ UNCHANGED faults \/ C!Fault("ice")
    BY <1>1, <1>4, <2>1 DEF C!Disconnected
  <2> HIDE DEF d
  <2>4. CASE C!canTransition(d.state, "RECONNECTING")
    <3>1. C!transitionTo(d, "RECONNECTING") = r
      BY <2>4 DEF C!transitionTo
    <3>2. GoodClient(r)
      BY <2>2, <3>1, Moves DEF C!SessionState
    <3>3. /\ t \in C!Client /\ t.state = r.state /\ t.jobs \subseteq r.jobs
          /\ t.remote = r.remote /\ t.matchId = r.matchId /\ t.held = r.held
      BY <2>2 DEF GoodClient, C!Client, C!SessionState
    <3>4. GoodClient(t)
      BY <3>2, <3>3, Otherwise
    <3> QED
      BY <1>2, <2>3, <2>4, <3>4
  <2>5. CASE ~C!canTransition(d.state, "RECONNECTING")
    BY <1>2, <2>2, <2>3, <2>5
  <2> QED
    BY <2>4, <2>5
<1>5. CASE C!Failed(u)
  <2>1. GoodClient(C!endMatchLocally(c))
    BY <1>1, ClosesPeer, Moves DEF C!endMatchLocally, C!SessionState
  <2>2. C!Link(u, C!endMatchLocally(c)) /\ (UNCHANGED faults \/ C!Fault("ice"))
    BY <1>5 DEF C!Failed
  <2> QED
    BY <1>2, <2>1, <2>2
<1> DEFINE n == [c EXCEPT !.confirmed = FALSE]
<1>6. GoodClient(n)
  <2>1. /\ n \in C!Client /\ n.state = c.state /\ n.jobs \subseteq c.jobs
        /\ n.remote = c.remote /\ n.matchId = c.matchId /\ n.held = c.held
    BY <1>1 DEF GoodClient, C!Client
  <2> QED
    BY <1>1, <2>1, Otherwise
<1>7. CASE C!Drop(u)
  <2>1. ClientInv'
    BY <1>1, <1>6, <1>7, Turns DEF C!Drop
  <2>2. EventInv'
    <3>1. <<>> \in Seq(Message)
      OBVIOUS
    <3> QED
      BY <1>1, <1>7, <3>1 DEF C!Drop, EventInv
  <2>3. OutboxInv'
    BY <1>1, <1>7 DEF C!Drop, OutboxInv
  <2>4. RestInv'
    BY <1>1, <1>7 DEF C!Drop, C!Fault, RestInv, C!server
  <2> QED
    BY <2>1, <2>2, <2>3, <2>4 DEF ConversationInv
<1>8. CASE C!Reconnect(u)
  BY <1>1, <1>8 DEF C!Reconnect, ConversationInv, ClientInv, EventInv, OutboxInv, RestInv,
                    C!page, C!server
<1>9. CASE C!ConnectErrors(u)
  <2>1. GoodClient(C!transitionTo(n, "ERROR")) /\ C!Becomes(u, C!transitionTo(n, "ERROR"))
    <3>1. C!Becomes(u, C!transitionTo(n, "ERROR"))
      BY <1>9 DEF C!ConnectErrors
    <3> HIDE DEF n
    <3> QED
      BY <1>6, <3>1, Moves DEF C!SessionState
  <2>2. EventInv' /\ OutboxInv' /\ RestInv'
    BY <1>1, <1>9 DEF C!ConnectErrors, C!Fault, EventInv, OutboxInv, RestInv, C!net, C!server
  <2> QED
    BY <1>1, <2>1, <2>2, Turns DEF ConversationInv
<1> QED
  BY <1>3, <1>4, <1>5, <1>7, <1>8, <1>9 DEF C!Network

--------------------------------------------------------------------------------
(* The server                                                                 *)

LEMMA Serves ==
    ASSUME ConversationInv, NEW u \in User, NEW r, C!Serve(u, r)
    PROVE  /\ ClientInv' /\ OutboxInv'
           /\ up' = up /\ gone' = gone /\ pair' = pair /\ presses' = presses
  BY DEF ConversationInv, ClientInv, OutboxInv, C!Serve, C!page, C!net

(* The frames of a handler: to the other user, and to the actor.              *)
LEMMA Frames ==
    ASSUME NEW v, NEW events \in Seq(Message)
    PROVE  /\ [C!Silent EXCEPT ![v] = events] \in [User -> Seq(Message)]
           /\ \A w, own \in Seq(Message) :
                 [C!Silent EXCEPT ![v] = events, ![w] = own] \in [User -> Seq(Message)]
<1>1. C!Silent \in [User -> Seq(Message)]
  <2>1. <<>> \in Seq(Message)
    OBVIOUS
  <2> QED
    BY <2>1 DEF C!Silent
<1> HIDE DEF C!Silent
<1>2. [C!Silent EXCEPT ![v] = events] \in [User -> Seq(Message)]
  BY <1>1
<1> QED
  BY <1>2

LEMMA Tells ==
    ASSUME NEW u, NEW m \in Match, NEW own \in Seq(Message)
    PROVE  C!Teardown(u, m, own) \in [User -> Seq(Message)]
<1>1. C!Event("match:partner-left", m, FALSE) \in Message
  BY Announces DEF C!EventKind, C!MaybeMatch
<1>2. <<C!Event("match:partner-left", m, FALSE)>> \in Seq(Message)
  BY <1>1, Rows, Zenon
<1> QED
  BY <1>2, Frames DEF C!Teardown

LEMMA Ends ==
    ASSUME ConversationInv, NEW u \in User, NEW m \in Match, NEW r, C!Serve(u, r),
           NEW own \in Seq(Message), C!EndMatch(u, m, own)
    PROVE  ConversationInv'
<1>1. C!Teardown(u, m, own) \in [User -> Seq(Message)]
  BY Tells
<1>2. EventInv'
  BY <1>1 DEF C!EndMatch, EventInv, ConversationInv
<1>3. RestInv'
  BY Serves DEF C!EndMatch, RestInv, ConversationInv
<1> QED
  BY <1>2, <1>3, Serves DEF ConversationInv

LEMMA ServingStep ==
    ASSUME ConversationInv, NEW u \in User, C!Serving(u)
    PROVE  ConversationInv'
<1>1. ClientInv /\ EventInv /\ OutboxInv /\ RestInv
  BY DEF ConversationInv
<1>2. ASSUME NEW r, C!Serve(u, r), queue' \subseteq User, UNCHANGED matches,
             UNCHANGED <<inbox, wire>> \/ \E e \in Message : C!Send(u, e) /\ UNCHANGED wire,
             UNCHANGED faults \/ \E kind : C!Fault(kind)
      PROVE  ConversationInv'
  <2>1. EventInv'
    BY <1>1, <1>2, Sends DEF EventInv
  <2>2. RestInv'
    BY <1>1, <1>2, Serves DEF C!Fault, RestInv
  <2> QED
    BY <1>2, <2>1, <2>2, Serves DEF ConversationInv
<1>3. ASSUME NEW flag \in BOOLEAN, NEW kind \in {"queue", "account:restricted"}
      PROVE  C!Event(kind, None, flag) \in Message
  BY Announces DEF C!EventKind, C!MaybeMatch
<1>4. CASE C!ServeJoin(u)
  <2>1. /\ C!Serve(u, C!Request("join", None, TRUE)) /\ UNCHANGED matches /\ UNCHANGED faults
        /\ queue' \subseteq User
    BY <1>1, <1>4 DEF C!ServeJoin, RestInv
  <2>2. UNCHANGED <<inbox, wire>> \/ \E e \in Message : C!Send(u, e) /\ UNCHANGED wire
    BY <1>3, <1>4 DEF C!ServeJoin
  <2> QED
    BY <1>2, <2>1, <2>2
<1>5. CASE C!JoinRefused(u)
  <2>1. /\ C!Serve(u, C!Request("join", None, TRUE)) /\ UNCHANGED matches /\ C!Fault("restricted")
        /\ queue' \subseteq User
    BY <1>1, <1>5 DEF C!JoinRefused, RestInv
  <2>2. \E e \in Message : C!Send(u, e) /\ UNCHANGED wire
    BY <1>3, <1>5 DEF C!JoinRefused
  <2> QED
    BY <1>2, <2>1, <2>2
<1>6. CASE C!ServeLeave(u)
  <2>1. /\ C!Serve(u, C!Request("leave", None, TRUE)) /\ UNCHANGED matches /\ UNCHANGED faults
        /\ queue' \subseteq User
    BY <1>1, <1>6 DEF C!ServeLeave, RestInv
  <2>2. \E e \in Message : C!Send(u, e) /\ UNCHANGED wire
    BY <1>3, <1>6 DEF C!ServeLeave
  <2> QED
    BY <1>2, <2>1, <2>2
<1>7. CASE C!ServeDisconnect(u)
  <2>1. ClientInv' /\ OutboxInv'
    BY <1>1, <1>7 DEF C!ServeDisconnect, ClientInv, OutboxInv, C!page
  <2>2. RestInv'
    BY <1>1, <1>7 DEF C!ServeDisconnect, RestInv, C!page
  <2>3. EventInv'
    <3>1. <<>> \in Seq(Message)
      OBVIOUS
    <3>2. \A m \in matches : C!Teardown(u, m, <<>>) \in [User -> Seq(Message)]
      BY <1>1, <3>1, Tells DEF RestInv
    <3>3. wire' \subseteq [User -> Seq(Message)] /\ inbox' = inbox
      BY <1>1, <1>7, <3>2 DEF C!ServeDisconnect, EventInv
    <3> QED
      BY <1>1, <3>3 DEF EventInv
  <2> QED
    BY <2>1, <2>2, <2>3 DEF ConversationInv
<1>8. CASE C!Tick(u)
  <2>1. EventInv'
    BY <1>1, <1>3, <1>8, Sends DEF C!Tick, EventInv
  <2>2. ClientInv' /\ OutboxInv' /\ RestInv'
    BY <1>1, <1>8 DEF C!Tick, ClientInv, OutboxInv, RestInv, C!page, C!net, C!server
  <2> QED
    BY <2>1, <2>2 DEF ConversationInv
<1>9. ASSUME NEW m \in Match, NEW flag \in BOOLEAN
      PROVE  C!Event("match:ended", m, flag) \in Message
  BY Announces DEF C!EventKind, C!MaybeMatch
<1>10. ASSUME NEW m \in Match, C!ServeSkip(u, m)
       PROVE  ConversationInv'
  <2> DEFINE own == <<C!Event("match:ended", m, TRUE), C!Event("queue", None, TRUE)>>
  <2>1. own \in Seq(Message)
    BY <1>3, <1>9, Rows, Zenon
  <2> HIDE DEF own
  <2>2. C!Serve(u, C!Request("skip", m, TRUE))
    BY <1>10 DEF C!ServeSkip
  <2>3. C!EndMatch(u, m, own) \/ UNCHANGED <<inbox, queue, matches, wire, faults>>
    BY <1>10 DEF C!ServeSkip, own
  <2>4. CASE C!EndMatch(u, m, own)
    BY <2>1, <2>2, <2>4, Ends
  <2>5. CASE UNCHANGED <<inbox, queue, matches, wire, faults>>
    BY <1>1, <1>2, <2>2, <2>5 DEF RestInv
  <2> QED
    BY <2>3, <2>4, <2>5
<1>11. ASSUME NEW m \in Match, C!SkipRefused(u, m)
       PROVE  ConversationInv'
  BY <1>1, <1>2, <1>11 DEF C!SkipRefused, RestInv
<1>12. ASSUME NEW m \in Match
       PROVE  <<C!Event("match:ended", m, FALSE)>> \in Seq(Message)
  BY <1>9, Rows, Zenon
<1>13. ASSUME NEW m \in Match, C!ServeEnd(u, m)
       PROVE  ConversationInv'
  <2>1. C!Serve(u, C!Request("end", m, FALSE))
    BY <1>13 DEF C!ServeEnd
  <2>2. CASE C!EndMatch(u, m, <<C!Event("match:ended", m, FALSE)>>)
    BY <1>12, <2>1, <2>2, Ends
  <2>3. CASE UNCHANGED <<inbox, queue, matches, wire, faults>>
    BY <1>1, <1>2, <2>1, <2>3 DEF RestInv
  <2> QED
    BY <1>13, <2>2, <2>3 DEF C!ServeEnd
<1>14. ASSUME NEW m \in Match, C!ServeBlock(u, m)
       PROVE  ConversationInv'
  <2>1. C!Serve(u, C!Request("block", m, FALSE))
    BY <1>14 DEF C!ServeBlock
  <2>2. CASE C!EndMatch(u, m, <<C!Event("match:ended", m, FALSE)>>)
    BY <1>12, <2>1, <2>2, Ends
  <2>3. CASE /\ C!Send(u, C!Event("match:ended", m, FALSE))
             /\ UNCHANGED <<queue, matches, wire, faults>>
    <3>1. queue' \subseteq User
      BY <1>1, <2>3 DEF RestInv
    <3> QED
      BY <1>2, <1>9, <2>1, <2>3, <3>1
  <2> QED
    BY <1>14, <2>2, <2>3 DEF C!ServeBlock
<1>15. ASSUME NEW m \in Match, NEW kind \in {"webrtc:offer", "webrtc:answer"}, C!Relay(u, m, kind)
       PROVE  ConversationInv'
  <2> DEFINE description == C!Event(kind, m, FALSE)
             candidates  == C!Event("webrtc:ice", m, FALSE)
  <2>1. description \in Message /\ candidates \in Message
    BY Announces DEF C!EventKind, C!MaybeMatch
  <2> HIDE DEF description, candidates
  <2>2. /\ <<description, candidates>> \in Seq(Message)
        /\ <<candidates, description>> \in Seq(Message)
    BY <2>1
  <2>3. \/ UNCHANGED wire
        \/ \E events \in Seq(Message) :
              wire' = wire \cup {[C!Silent EXCEPT ![C!Other(u, m)] = events]}
    BY <1>15, <2>2 DEF C!Relay, description, candidates
  <2>4. C!Serve(u, C!Request(kind, m, FALSE)) /\ UNCHANGED <<inbox, queue, matches, faults>>
    BY <1>15 DEF C!Relay
  <2>5. EventInv'
    BY <1>1, <2>3, <2>4, Frames DEF EventInv
  <2>6. RestInv'
    BY <1>1, <2>4, Serves DEF RestInv
  <2> QED
    BY <2>4, <2>5, <2>6, Serves DEF ConversationInv
<1>16. ASSUME NEW v \in User, NEW m \in Match, C!Pair(u, v, m)
       PROVE  ConversationInv'
  <2>1. EventInv'
    <3>1. \A w \in User : C!Event("match:found", m, w = u) \in Message
      BY Announces DEF C!EventKind, C!MaybeMatch
    <3>2. \A w \in User : inbox[w] \in Seq(Message)
      BY <1>1 DEF EventInv
    <3>3. \A w \in User : Append(inbox[w], C!Event("match:found", m, w = u)) \in Seq(Message)
      BY <3>1, <3>2, Rows, Zenon
    <3> QED
      BY <1>1, <1>16, <3>3 DEF C!Pair, EventInv
  <2>2. ClientInv' /\ OutboxInv' /\ RestInv'
    BY <1>1, <1>16 DEF C!Pair, ClientInv, OutboxInv, RestInv, C!page, C!net
  <2> QED
    BY <2>1, <2>2 DEF ConversationInv
<1> QED
  BY <1>4, <1>5, <1>6, <1>7, <1>8, <1>10, <1>11, <1>13, <1>14, <1>15, <1>16 DEF C!Serving

LEMMA DeliverStep ==
    ASSUME ConversationInv, NEW events \in wire, C!Deliver(events)
    PROVE  ConversationInv'
<1>1. ClientInv /\ EventInv /\ OutboxInv /\ RestInv
  BY DEF ConversationInv
<1>2. events \in [User -> Seq(Message)]
  BY <1>1 DEF EventInv
<1>3. \A u \in User : inbox[u] \o events[u] \in Seq(Message)
  BY <1>1, <1>2 DEF EventInv
<1>4. EventInv'
  BY <1>1, <1>3 DEF C!Deliver, EventInv
<1>5. ClientInv' /\ OutboxInv' /\ RestInv'
  BY <1>1 DEF C!Deliver, ClientInv, OutboxInv, RestInv, C!page, C!net, C!server
<1> QED
  BY <1>4, <1>5 DEF ConversationInv

LEMMA ConversationSteps == ConversationInv /\ [C!Next]_(C!vars) => ConversationInv'
<1> SUFFICES ASSUME ConversationInv, [C!Next]_(C!vars) PROVE ConversationInv'
  OBVIOUS
<1>1. CASE UNCHANGED C!vars
  BY <1>1 DEF ConversationInv, ClientInv, EventInv, OutboxInv, RestInv, C!vars, C!page, C!net,
              C!server
<1>2. CASE C!Next
  BY <1>2, ButtonStep, MediaStep, EventStep, HandlerStep, NetworkStep, TimerStep, ServingStep,
     DeliverStep DEF C!Next
<1> QED
  BY <1>1, <1>2

--------------------------------------------------------------------------------
(* The inductive invariant of the conversation, for any users, any matches,   *)
(* any faults and any buttons (use-conversation.ts, server.ts).               *)
THEOREM ConversationInvariant == Bounds /\ C!Spec => []ConversationInv
  BY ConversationStarts, ConversationSteps, PTL DEF C!Spec

(* What the pages, the sockets and the server of a conversation hold: no page *)
(* waits in a state its machine only passes through (session-machine.ts).     *)
THEOREM ConversationTypes == Bounds /\ C!Spec => []C!TypeOK
<1>1. ConversationInv => C!TypeOK
  <2> SUFFICES ASSUME ConversationInv PROVE C!TypeOK
    OBVIOUS
  <2>1. ClientInv /\ EventInv /\ OutboxInv /\ RestInv
    BY DEF ConversationInv
  <2>2. \A s \in Seq(Message) : s \in Seq(C!EventSet)
    BY DEF Message
  <2>3. inbox \in [User -> Seq(C!EventSet)] /\ wire \subseteq [User -> Seq(C!EventSet)]
    BY <2>1, <2>2 DEF EventInv
  <2> QED
    BY <2>1, <2>3 DEF ClientInv, GoodClient, OutboxInv, RestInv, C!TypeOK
<1> QED
  BY <1>1, ConversationInvariant, PTL

(* No peer connection is given the description of another match, and no       *)
(* candidate waits behind a description that has arrived                      *)
(* (use-conversation.ts: the handlers of webrtc:offer, answer and ice).       *)
THEOREM SignalsKept == Bounds /\ C!Spec => []C!SignalsOfThisMatch
<1>1. ConversationInv => C!SignalsOfThisMatch
  BY DEF ConversationInv, ClientInv, GoodClient, C!SignalsOfThisMatch
<1> QED
  BY <1>1, ConversationInvariant, PTL

--------------------------------------------------------------------------------
(* The settings page.                                                         *)

(* What a call is at says which call it is. *)
CallsSorted ==
    \A s \in Slot :
        /\ calls[s].pc = "free" <=> calls[s].job = "none"
        /\ InTx(s) \/ calls[s].pc \in {"patched", "put"} => calls[s].job = "profile"
        /\ calls[s].pc = "stored" => calls[s].job \in Saves

(* A transaction that met no other has seen, and deletes, all there is. *)
Replacing ==
    \A s \in Slot : InTx(s) =>
        /\ Cardinality(calls[s].body.interests) <= MAX_INTERESTS_PER_USER
        /\ sole => /\ calls[s].seen = account.interests
                   /\ calls[s].pc # "deleting" => calls[s].gone = account.interests
                   /\ \A t \in Slot : InTx(t) => t = s

(* What a call that runs alone has written is what it was sent with, *)
Written(s) ==
    /\ InTx(s) => sole
    /\ InTx(s) \/ calls[s].pc = "patched" \/ calls[s].pc = "put" =>
          account.profile = calls[s].body.profile
    /\ calls[s].pc = "stored" =>
          Agree(Fields(calls[s].job), calls[s].body, account)
    /\ calls[s].pc = "answered" => calls[s].body = account

(* and who waits for it still shows that. *)
Awaited(s) ==
    /\ calls[s].job = "load" => ~there
    /\ calls[s].job \in Saves /\ calls[s].of = "form" =>
          /\ calls[s].job = tab
          /\ Agree(Fields(tab) \ touched, form, calls[s].body)
    /\ calls[s].job \in Saves /\ calls[s].of = "page" => stale
    /\ Heard(s) \/ ~there \/ error

Alone ==
    ~overlap => \A s \in Slot : Saving(s) =>
        /\ Written(s) /\ Awaited(s)
        /\ \A t \in Slot : Saving(t) => t = s

SettingsInv ==
    FormTypes /\ CallsSorted /\ Replacing /\ Alone /\ InterestsWithinLimit /\ ShowsStored

--------------------------------------------------------------------------------
LEMMA CallShapes ==
    /\ Unset \in Settings /\ Idle \in Call
    /\ \A job \in Saves \cup {"load", "delete"} :
          [Idle EXCEPT !.job = job, !.pc = "sent"] \in Call
    /\ form \in Settings => \A job \in Saves : Sent(job) \in Call
<1>1. Unset \in Settings
  BY DEF Unset, Settings
<1>2. Idle \in Call
  BY <1>1 DEF Idle, Call
<1> QED
  BY <1>1, <1>2 DEF Call, Sent, Saves, Idle

LEMMA CallTurns ==
    ASSUME NEW c \in Call
    PROVE  /\ \A pc \in {"patched", "put", "deleting", "deleted", "inserted", "stored",
                         "answered", "refused"} : [c EXCEPT !.pc = pc] \in Call
           /\ \A of \in {"page", "left", "nobody"} : [c EXCEPT !.of = of] \in Call
           /\ \A set \in SUBSET Interest : /\ [c EXCEPT !.seen = set] \in Call
                                          /\ [c EXCEPT !.gone = set] \in Call
           /\ \A b \in Settings : [c EXCEPT !.body = b] \in Call
  BY DEF Call

LEMMA CallParts ==
    ASSUME NEW c \in Call
    PROVE  /\ c.body \in Settings /\ c.seen \in SUBSET Interest /\ c.gone \in SUBSET Interest
           /\ c.body.profile \in Detail \cup {"unset"}
           /\ c.body.interests \in SUBSET Interest /\ c.body.countries \in SUBSET Country
  BY DEF Call, Settings

LEMMA SettingsTurns ==
    ASSUME NEW a \in Settings
    PROVE  /\ a.interests \in SUBSET Interest /\ a.countries \in SUBSET Country
           /\ \A v \in Detail \cup {"unset"} : [a EXCEPT !.profile = v] \in Settings
           /\ \A set \in SUBSET Interest : [a EXCEPT !.interests = set] \in Settings
           /\ \A set \in SUBSET Country : [a EXCEPT !.countries = set] \in Settings
  BY DEF Settings

LEMMA Toggling ==
    ASSUME NEW X, NEW x \in X, NEW set \in SUBSET X, NEW limit
    PROVE  Toggled(set, x, limit) \in SUBSET X
  BY DEF Toggled

LEMMA InFlightTruth == InFlight \in BOOLEAN
  BY Zenon DEF InFlight

(* One call changed. *)
LEMMA Answered ==
    ASSUME calls \in [Slot -> Call], NEW s \in Slot, NEW c \in Call,
           calls' = [calls EXCEPT ![s] = c]
    PROVE  calls' \in [Slot -> Call]
  OBVIOUS

LEMMA OrphansCalls == calls \in [Slot -> Call] => Orphaned \in [Slot -> Call]
<1> SUFFICES ASSUME calls \in [Slot -> Call], NEW s \in Slot
             PROVE  (IF Heard(s) /\ calls[s].job # "none"
                     THEN [calls[s] EXCEPT !.of = "left"] ELSE calls[s]) \in Call
  BY DEF Orphaned
<1> QED
  BY CallTurns

LEMMA TypesStart == FormInit => FormTypes
<1> SUFFICES ASSUME FormInit PROVE FormTypes
  OBVIOUS
<1>1. calls \in [Slot -> Call]
  BY CallShapes DEF FormInit
<1>2. account \in Settings /\ copy \in Settings /\ form \in Settings
  BY CallShapes DEF FormInit
<1>3. edits \in 0..MaxEdits /\ saves \in 0..MaxSaves
  BY SettingsBounds DEF FormInit
<1>4. /\ closed \in BOOLEAN /\ opened \in BOOLEAN /\ there \in BOOLEAN /\ error \in BOOLEAN
      /\ sole \in BOOLEAN /\ raced \in BOOLEAN /\ overlap \in BOOLEAN /\ stale \in BOOLEAN
  BY DEF FormInit
<1>5. tab \in TABS /\ closing \subseteq {"confirming", "typed", "scheduled"}
      /\ touched \subseteq {"profile", "interests", "countries"}
  BY DEF FormInit, TABS
<1> QED
  BY <1>1, <1>2, <1>3, <1>4, <1>5 DEF FormTypes

LEMMA TypesStep == FormTypes /\ [FormNext]_formVars => FormTypes'
<1> SUFFICES ASSUME FormTypes, [FormNext]_formVars PROVE FormTypes'
  OBVIOUS
<1> USE DEF FormTypes
<1>0. calls \in [Slot -> Call]
  OBVIOUS
<1>1. ASSUME UNCHANGED formVars PROVE FormTypes'
  BY <1>1 DEF formVars, rows, open, typing, stored
<1>2. CASE leaveSettings
  <2>1. calls' \in [Slot -> Call]
    BY <1>2, OrphansCalls DEF leaveSettings
  <2> QED
    BY <1>2, <2>1, CallShapes DEF leaveSettings, Unmounts, Mounts, rows, stored, TABS
<1>3. CASE Typing
  <2>1. ASSUME NEW t \in TABS, setTab(t) PROVE FormTypes'
    <3>1. \A s \in Slot : (IF calls[s].of = "form" /\ calls[s].job # "none"
                           THEN [calls[s] EXCEPT !.of = "page"] ELSE calls[s]) \in Call
      BY CallTurns
    <3>2. calls' \in [Slot -> Call]
      BY <2>1, <3>1 DEF setTab
    <3> QED
      BY <2>1, <3>2, InFlightTruth DEF setTab, Mounts, rows, stored, TABS
  <2>2. ASSUME NEW f \in {"profile", "interests", "countries"}, NEW now \in Settings,
               Edits(f, now)
        PROVE  FormTypes'
    BY <2>2, SettingsBounds DEF Edits, rows, open, stored
  <2>3. ASSUME NEW v \in Detail, editProfile(v) PROVE FormTypes'
    <3>1. [form EXCEPT !.profile = v] \in Settings
      BY SettingsTurns
    <3> QED
      BY <2>3, <2>2, <3>1 DEF editProfile
  <2>4. ASSUME NEW i \in Interest, toggleInterest(i) PROVE FormTypes'
    <3>1. Toggled(form.interests, i, MAX_INTERESTS_PER_USER) \in SUBSET Interest
      BY SettingsTurns, Toggling
    <3>2. [form EXCEPT !.interests = Toggled(form.interests, i, MAX_INTERESTS_PER_USER)]
             \in Settings
      BY <3>1, SettingsTurns
    <3> QED
      BY <2>4, <2>2, <3>2 DEF toggleInterest
  <2>5. ASSUME NEW c \in Country, toggleCountry(c) PROVE FormTypes'
    <3>1. Toggled(form.countries, c, PREFERRED_COUNTRY_LIMIT) \in SUBSET Country
      BY SettingsTurns, Toggling
    <3>2. [form EXCEPT !.countries = Toggled(form.countries, c, PREFERRED_COUNTRY_LIMIT)]
             \in Settings
      BY <3>1, SettingsTurns
    <3> QED
      BY <2>5, <2>2, <3>2 DEF toggleCountry
  <2>6. CASE setConfirming \/ setConfirmation \/ cancelDeletion
    BY <2>6 DEF setConfirming, setConfirmation, cancelDeletion, Dialog, rows, typing, stored
  <2> QED
    BY <1>3, <2>1, <2>3, <2>4, <2>5, <2>6 DEF Typing
<1>4. ASSUME NEW s \in Slot, OnPage(s) PROVE FormTypes'
  <2>0. calls[s] \in Call /\ calls[s].body \in Settings
    BY <1>0, CallParts
  <2>1. CASE Loaded(s)
    <3>1. calls' \in [Slot -> Call]
      BY <2>1, CallShapes DEF Loaded, Done
    <3>2. (\E t \in Slot \ {s} : Saving(t)) \in BOOLEAN
      BY Zenon
    <3>3. stale' \in BOOLEAN
      BY <2>1, <3>2 DEF Loaded
    <3> QED
      BY <2>0, <2>1, <3>1, <3>3 DEF Loaded, Mounts, rows, stored
  <2>2. CASE Saved(s)
    <3>1. calls' \in [Slot -> Call]
      BY <2>2, CallShapes DEF Saved, Done
    <3> QED
      BY <2>0, <2>2, <3>1 DEF Saved, rows, typing, stored
  <2>3. CASE Unheard(s)
    <3>1. calls' \in [Slot -> Call]
      BY <2>3, CallShapes DEF Unheard, Done
    <3> QED
      BY <2>3, <3>1 DEF Unheard, rows, open, typing, stored
  <2>4. CASE LanguageSwitcher(s)
    <3>1. calls' \in [Slot -> Call]
      BY <2>4, OrphansCalls, CallShapes DEF LanguageSwitcher
    <3>2. overlap' \in BOOLEAN
      BY <2>4, InFlightTruth DEF LanguageSwitcher
    <3>3. edits' \in 0..MaxEdits /\ saves' \in 0..MaxSaves
      BY <2>4, SettingsBounds DEF LanguageSwitcher
    <3> QED
      BY <2>4, <3>1, <3>2, <3>3, CallShapes
         DEF LanguageSwitcher, Unmounts, Mounts, rows, stored, TABS
  <2>5. CASE Save(s)
    <3>1. Sent(tab) \in Call
      BY <2>5, CallShapes DEF Save
    <3>2. calls' \in [Slot -> Call]
      BY <2>5, <3>1 DEF Save
    <3>3. overlap' \in BOOLEAN
      BY <2>5, InFlightTruth DEF Save
    <3>4. edits' \in 0..MaxEdits /\ saves' \in 0..MaxSaves
      BY <2>5, SettingsBounds DEF Save
    <3> QED
      BY <2>5, <3>2, <3>3, <3>4 DEF Save, rows, open, stored
  <2>6. CASE thenInterests(s)
    <3>1. calls' = [calls EXCEPT ![s] = [calls[s] EXCEPT !.pc = "put"]]
      BY <2>6 DEF thenInterests
    <3>2. calls' \in [Slot -> Call]
      BY <2>0, <3>1, CallTurns, Answered
    <3> QED
      BY <2>6, <3>2 DEF thenInterests, rows, open, typing, stored
  <2>7. CASE Fails(s)
    <3>1. \/ calls' = [calls EXCEPT ![s] = Idle]
          \/ calls' = [calls EXCEPT ![s] = [calls[s] EXCEPT !.of = "nobody"]]
      BY <2>7 DEF Fails, Done
    <3>2. calls' \in [Slot -> Call]
      BY <2>0, <3>1, CallShapes, CallTurns, Answered
    <3> QED
      BY <2>7, <3>2 DEF Fails, rows, open, typing, stored
  <2>8. CASE deleteAccount(s)
    <3>1. [Idle EXCEPT !.job = "delete", !.pc = "sent"] \in Call
      BY CallShapes
    <3>2. calls' \in [Slot -> Call]
      BY <2>8, <3>1 DEF deleteAccount
    <3> QED
      BY <2>8, <3>2 DEF deleteAccount, rows, open, typing, stored
  <2>9. CASE Scheduled(s)
    <3>1. calls' \in [Slot -> Call]
      BY <2>9, CallShapes DEF Scheduled, Done
    <3> QED
      BY <2>9, <3>1 DEF Scheduled, rows, typing, stored
  <2> QED
    BY <1>4, <2>1, <2>2, <2>3, <2>4, <2>5, <2>6, <2>7, <2>8, <2>9 DEF OnPage
<1>5. ASSUME NEW s \in Slot, OnServer(s) PROVE FormTypes'
  <2>0. /\ calls[s] \in Call
        /\ \A pc \in {"patched", "put", "deleting", "deleted", "inserted", "stored",
                      "answered", "refused"} : At(s, pc) \in Call
    BY <1>0, CallTurns DEF At
  <2>1. CASE loadProfile(s)
    <3>1. [At(s, "answered") EXCEPT !.body = account] \in Call
      BY <2>0, CallTurns
    <3>2. calls' \in [Slot -> Call]
      BY <2>1, <3>1, Answered DEF loadProfile, Answers
    <3> QED
      BY <2>1, <3>2 DEF loadProfile, rows, open, typing, stored
  <2>2. CASE Refuses(s)
    <3>1. calls' \in [Slot -> Call]
      BY <2>0, <2>2, Answered DEF Refuses, Answers
    <3> QED
      BY <2>2, <3>1 DEF Refuses, rows, open, typing, stored
  <2>3. CASE PatchPrivacy(s)
    <3>1. \E pc \in {"stored", "refused"} : calls' = [calls EXCEPT ![s] = At(s, pc)]
      BY <2>3 DEF PatchPrivacy, Answers
    <3>2. calls' \in [Slot -> Call]
      BY <2>0, <3>1, Answered
    <3> QED
      BY <2>3, <3>2 DEF PatchPrivacy, rows, open, typing, stored
  <2>4. CASE requestDeletion(s)
    <3>1. calls' \in [Slot -> Call]
      BY <2>0, <2>4, Answered DEF requestDeletion, Answers
    <3> QED
      BY <2>4, <3>1 DEF requestDeletion, open, typing, stored
  <2>5. CASE PutInterests(s)
    <3>1. [At(s, "deleting") EXCEPT !.seen = account.interests] \in Call
      BY <2>0, CallTurns, SettingsTurns
    <3>2. calls' \in [Slot -> Call]
      BY <2>5, <3>1, Answered DEF PutInterests, Answers
    <3>3. (~\E t \in Slot : InTx(t)) \in BOOLEAN
      BY Zenon
    <3>4. sole' \in BOOLEAN
      BY <2>5, <3>3 DEF PutInterests
    <3> QED
      BY <2>5, <3>2, <3>4 DEF PutInterests, rows, open, typing
  <2>6. CASE Deleted(s)
    <3>1. calls[s].seen \cap account.interests \in SUBSET Interest
      BY <2>0, CallParts
    <3>2. [At(s, "deleted") EXCEPT !.gone = calls[s].seen \cap account.interests] \in Call
      BY <2>0, <3>1, CallTurns
    <3>3. calls' \in [Slot -> Call]
      BY <2>6, <3>2, Answered DEF Deleted, Answers
    <3> QED
      BY <2>6, <3>3 DEF Deleted, rows, open, typing, stored
  <2>7. CASE Inserted(s)
    <3>1. \E pc \in {"inserted", "refused"} : calls' = [calls EXCEPT ![s] = At(s, pc)]
      BY <2>7 DEF Inserted, Answers
    <3>2. calls' \in [Slot -> Call]
      BY <2>0, <3>1, Answered
    <3> QED
      BY <2>7, <3>2 DEF Inserted, rows, open, typing, stored
  <2>8. CASE PatchProfile(s)
    <3>1. calls' \in [Slot -> Call]
      BY <2>0, <2>8, Answered DEF PatchProfile, Answers
    <3>2. account' \in Settings
      BY <2>0, <2>8, CallParts, SettingsTurns DEF PatchProfile
    <3> QED
      BY <2>8, <3>1, <3>2 DEF PatchProfile, open, typing, stored
  <2>9. CASE PatchPreferences(s)
    <3>1. calls' \in [Slot -> Call]
      BY <2>0, <2>9, Answered DEF PatchPreferences, Answers
    <3>2. account' \in Settings
      BY <2>0, <2>9, CallParts, SettingsTurns DEF PatchPreferences
    <3> QED
      BY <2>9, <3>1, <3>2 DEF PatchPreferences, open, typing, stored
  <2>10. CASE CommitInterests(s)
    <3>1. calls' \in [Slot -> Call]
      BY <2>0, <2>10, Answered DEF CommitInterests, Answers
    <3>2. (account.interests \ calls[s].gone) \cup calls[s].body.interests \in SUBSET Interest
      BY <2>0, CallParts, SettingsTurns
    <3>3. account' \in Settings
      BY <2>10, <3>2, SettingsTurns DEF CommitInterests
    <3> QED
      BY <2>10, <3>1, <3>3 DEF CommitInterests, open, typing
  <2> QED
    BY <1>5, <2>1, <2>2, <2>3, <2>4, <2>5, <2>6, <2>7, <2>8, <2>9, <2>10 DEF OnServer
<1> QED
  BY <1>1, <1>2, <1>3, <1>4, <1>5 DEF FormNext


(* A step of one call, by what it makes of it. *)
Becomes(s, job, pc, of, body, seen, removed) ==
    /\ calls'[s].job = job /\ calls'[s].pc = pc /\ calls'[s].of = of
    /\ calls'[s].body = body /\ calls'[s].seen = seen /\ calls'[s].gone = removed
    /\ \A t \in Slot \ {s} : calls'[t] = calls[t]

LEMMA CallFields ==
    ASSUME FormTypes, NEW s \in Slot, NEW pc, NEW x
    PROVE  LET c == calls[s]
               d == [c EXCEPT !.pc = pc]
           IN  /\ calls' = [calls EXCEPT ![s] = Idle] =>
                     Becomes(s, "none", "free", "form", Unset, {}, {})
               /\ calls' = [calls EXCEPT ![s] = d] =>
                     Becomes(s, c.job, pc, c.of, c.body, c.seen, c.gone)
               /\ calls' = [calls EXCEPT ![s] = [c EXCEPT !.of = x]] =>
                     Becomes(s, c.job, c.pc, x, c.body, c.seen, c.gone)
               /\ calls' = [calls EXCEPT ![s] = [d EXCEPT !.body = x]] =>
                     Becomes(s, c.job, pc, c.of, x, c.seen, c.gone)
               /\ calls' = [calls EXCEPT ![s] = [d EXCEPT !.seen = x]] =>
                     Becomes(s, c.job, pc, c.of, c.body, x, c.gone)
               /\ calls' = [calls EXCEPT ![s] = [d EXCEPT !.gone = x]] =>
                     Becomes(s, c.job, pc, c.of, c.body, c.seen, x)
<1> USE DEF FormTypes, Becomes
<1>0. calls[s] \in Call
  OBVIOUS
<1>1. calls' = [calls EXCEPT ![s] = Idle] =>
         Becomes(s, "none", "free", "form", Unset, {}, {})
  BY DEF Idle
<1>2. calls' = [calls EXCEPT ![s] = [calls[s] EXCEPT !.pc = pc]] =>
         Becomes(s, calls[s].job, pc, calls[s].of, calls[s].body, calls[s].seen, calls[s].gone)
  BY <1>0 DEF Call
<1>3. calls' = [calls EXCEPT ![s] = [calls[s] EXCEPT !.of = x]] =>
         Becomes(s, calls[s].job, calls[s].pc, x, calls[s].body, calls[s].seen, calls[s].gone)
  BY <1>0 DEF Call
<1>4. calls' = [calls EXCEPT ![s] = [[calls[s] EXCEPT !.pc = pc] EXCEPT !.body = x]] =>
         Becomes(s, calls[s].job, pc, calls[s].of, x, calls[s].seen, calls[s].gone)
  BY <1>0 DEF Call
<1>5. calls' = [calls EXCEPT ![s] = [[calls[s] EXCEPT !.pc = pc] EXCEPT !.seen = x]] =>
         Becomes(s, calls[s].job, pc, calls[s].of, calls[s].body, x, calls[s].gone)
  BY <1>0 DEF Call
<1>6. calls' = [calls EXCEPT ![s] = [[calls[s] EXCEPT !.pc = pc] EXCEPT !.gone = x]] =>
         Becomes(s, calls[s].job, pc, calls[s].of, calls[s].body, calls[s].seen, x)
  BY <1>0 DEF Call
<1> QED
  BY <1>1, <1>2, <1>3, <1>4, <1>5, <1>6

Freed(s)   == Becomes(s, "none", "free", "form", Unset, {}, {})
Goes(s, pc) == Becomes(s, calls[s].job, pc, calls[s].of, calls[s].body,
                       calls[s].seen, calls[s].gone)
Begun(s, job, body) == Becomes(s, job, "sent", "form", body, {}, {})

(* What each action makes of its call. *)
LEMMA PageMoves ==
    ASSUME FormTypes, NEW s \in Slot
    PROVE  /\ Loaded(s) \/ Saved(s) \/ Unheard(s) \/ Scheduled(s) => Freed(s)
           /\ Save(s) => Begun(s, tab, form)
           /\ deleteAccount(s) => Begun(s, "delete", Unset)
           /\ thenInterests(s) => Goes(s, "put")
           /\ Fails(s) => \/ Freed(s)
                          \/ Becomes(s, calls[s].job, calls[s].pc, "nobody", calls[s].body,
                                     calls[s].seen, calls[s].gone)
<1>1. Loaded(s) \/ Saved(s) \/ Unheard(s) \/ Scheduled(s) => Freed(s)
  BY CallFields DEF Loaded, Saved, Unheard, Scheduled, Done, Freed
<1>2. Save(s) => Begun(s, tab, form)
  BY DEF Save, Sent, Begun, Becomes, FormTypes, Idle
<1>3. deleteAccount(s) => Begun(s, "delete", Unset)
  BY DEF deleteAccount, Begun, Becomes, FormTypes, Idle
<1>4. thenInterests(s) => Goes(s, "put")
  <2> SUFFICES ASSUME thenInterests(s) PROVE Goes(s, "put")
    OBVIOUS
  <2>1. calls' = [calls EXCEPT ![s] = [calls[s] EXCEPT !.pc = "put"]]
    BY DEF thenInterests
  <2> QED
    BY <2>1, CallFields DEF Goes
<1>5. Fails(s) => \/ Freed(s)
                  \/ Becomes(s, calls[s].job, calls[s].pc, "nobody", calls[s].body,
                             calls[s].seen, calls[s].gone)
  <2> SUFFICES ASSUME Fails(s)
               PROVE  \/ Freed(s)
                      \/ Becomes(s, calls[s].job, calls[s].pc, "nobody", calls[s].body,
                                 calls[s].seen, calls[s].gone)
    OBVIOUS
  <2>1. \/ calls' = [calls EXCEPT ![s] = Idle]
        \/ calls' = [calls EXCEPT ![s] = [calls[s] EXCEPT !.of = "nobody"]]
    BY DEF Fails, Done
  <2> QED
    BY <2>1, CallFields DEF Freed
<1> QED
  BY <1>1, <1>2, <1>3, <1>4, <1>5

LEMMA ServerMoves ==
    ASSUME FormTypes, NEW s \in Slot
    PROVE  /\ loadProfile(s) => Becomes(s, calls[s].job, "answered", calls[s].of, account,
                                        calls[s].seen, calls[s].gone)
           /\ Refuses(s) => Goes(s, "refused")
           /\ PatchProfile(s) => Goes(s, "patched")
           /\ PutInterests(s) => Becomes(s, calls[s].job, "deleting", calls[s].of, calls[s].body,
                                         account.interests, calls[s].gone)
           /\ Deleted(s) => Becomes(s, calls[s].job, "deleted", calls[s].of, calls[s].body,
                                    calls[s].seen, calls[s].seen \cap account.interests)
           /\ Inserted(s) => Goes(s, "inserted") \/ Goes(s, "refused")
           /\ CommitInterests(s) \/ PatchPreferences(s) => Goes(s, "stored")
           /\ PatchPrivacy(s) => Goes(s, "stored") \/ Goes(s, "refused")
           /\ requestDeletion(s) => Goes(s, "answered")
<1>1. loadProfile(s) => Becomes(s, calls[s].job, "answered", calls[s].of, account,
                                calls[s].seen, calls[s].gone)
  BY CallFields DEF loadProfile, Answers, At
<1>2. Refuses(s) => Goes(s, "refused")
  BY CallFields DEF Refuses, Answers, At, Goes
<1>3. PatchProfile(s) => Goes(s, "patched")
  BY CallFields DEF PatchProfile, Answers, At, Goes
<1>4. PutInterests(s) => Becomes(s, calls[s].job, "deleting", calls[s].of, calls[s].body,
                                 account.interests, calls[s].gone)
  BY CallFields DEF PutInterests, Answers, At
<1>5. Deleted(s) => Becomes(s, calls[s].job, "deleted", calls[s].of, calls[s].body,
                            calls[s].seen, calls[s].seen \cap account.interests)
  BY CallFields DEF Deleted, Answers, At
<1>6. Inserted(s) => Goes(s, "inserted") \/ Goes(s, "refused")
  <2> SUFFICES ASSUME Inserted(s) PROVE Goes(s, "inserted") \/ Goes(s, "refused")
    OBVIOUS
  <2>1. \/ calls' = [calls EXCEPT ![s] = [calls[s] EXCEPT !.pc = "inserted"]]
        \/ calls' = [calls EXCEPT ![s] = [calls[s] EXCEPT !.pc = "refused"]]
    BY DEF Inserted, Answers, At
  <2> QED
    BY <2>1, CallFields DEF Goes
<1>7. CommitInterests(s) \/ PatchPreferences(s) => Goes(s, "stored")
  BY CallFields DEF CommitInterests, PatchPreferences, Answers, At, Goes
<1>8. PatchPrivacy(s) => Goes(s, "stored") \/ Goes(s, "refused")
  <2> SUFFICES ASSUME PatchPrivacy(s) PROVE Goes(s, "stored") \/ Goes(s, "refused")
    OBVIOUS
  <2>1. \/ calls' = [calls EXCEPT ![s] = [calls[s] EXCEPT !.pc = "stored"]]
        \/ calls' = [calls EXCEPT ![s] = [calls[s] EXCEPT !.pc = "refused"]]
    BY DEF PatchPrivacy, Answers, At
  <2> QED
    BY <2>1, CallFields DEF Goes
<1>9. requestDeletion(s) => Goes(s, "answered")
  BY CallFields DEF requestDeletion, Answers, At, Goes
<1> QED
  BY <1>1, <1>2, <1>3, <1>4, <1>5, <1>6, <1>7, <1>8, <1>9

(* Another tab, or a page that is left, changes who waits and nothing else. *)
Detaches(from, to) ==
    \A s \in Slot :
        /\ calls'[s].job = calls[s].job /\ calls'[s].pc = calls[s].pc
        /\ calls'[s].body = calls[s].body
        /\ calls'[s].seen = calls[s].seen /\ calls'[s].gone = calls[s].gone
        /\ calls'[s].of = IF calls[s].of \in from /\ calls[s].job # "none"
                          THEN to ELSE calls[s].of

LEMMA OrphanFields ==
    ASSUME FormTypes, NEW s \in Slot
    PROVE  /\ Orphaned[s].job = calls[s].job /\ Orphaned[s].pc = calls[s].pc
           /\ Orphaned[s].body = calls[s].body
           /\ Orphaned[s].seen = calls[s].seen /\ Orphaned[s].gone = calls[s].gone
           /\ Orphaned[s].of = IF Heard(s) /\ calls[s].job # "none" THEN "left" ELSE calls[s].of
<1>1. calls[s] \in Call
  BY DEF FormTypes
<1>2. Orphaned[s] = IF Heard(s) /\ calls[s].job # "none"
                    THEN [calls[s] EXCEPT !.of = "left"] ELSE calls[s]
  BY DEF Orphaned
<1>3. CASE Heard(s) /\ calls[s].job # "none"
  BY <1>1, <1>2, <1>3 DEF Call
<1>4. CASE ~(Heard(s) /\ calls[s].job # "none")
  BY <1>2, <1>4
<1> QED
  BY <1>3, <1>4

LEMMA Detaching ==
    ASSUME FormTypes
    PROVE  /\ leaveSettings => Detaches({"form", "page"}, "left")
           /\ \A t \in TABS : setTab(t) => Detaches({"form"}, "page")
<1>1. leaveSettings => Detaches({"form", "page"}, "left")
  BY OrphanFields DEF leaveSettings, Detaches, Heard
<1>2. ASSUME NEW t \in TABS, setTab(t) PROVE Detaches({"form"}, "page")
  <2> SUFFICES ASSUME NEW s \in Slot
               PROVE  /\ calls'[s].job = calls[s].job /\ calls'[s].pc = calls[s].pc
                      /\ calls'[s].body = calls[s].body
                      /\ calls'[s].seen = calls[s].seen /\ calls'[s].gone = calls[s].gone
                      /\ calls'[s].of = IF calls[s].of \in {"form"} /\ calls[s].job # "none"
                                        THEN "page" ELSE calls[s].of
    BY DEF Detaches
  <2>1. calls[s] \in Call
    BY DEF FormTypes
  <2>2. calls'[s] = IF calls[s].of = "form" /\ calls[s].job # "none"
                    THEN [calls[s] EXCEPT !.of = "page"] ELSE calls[s]
    BY <1>2 DEF setTab
  <2>3. CASE calls[s].of = "form" /\ calls[s].job # "none"
    BY <2>1, <2>2, <2>3 DEF Call
  <2>4. CASE ~(calls[s].of = "form" /\ calls[s].job # "none")
    BY <2>2, <2>4
  <2> QED
    BY <2>3, <2>4
<1> QED
  BY <1>1, <1>2

LEMMA Switching ==
    ASSUME FormTypes, NEW s \in Slot, LanguageSwitcher(s)
    PROVE  /\ calls'[s].job = "load" /\ calls'[s].pc = "sent" /\ calls'[s].of = "form"
           /\ \A t \in Slot \ {s} :
                 /\ calls'[t].job = calls[t].job /\ calls'[t].pc = calls[t].pc
                 /\ calls'[t].body = calls[t].body
                 /\ calls'[t].seen = calls[t].seen /\ calls'[t].gone = calls[t].gone
<1>1. calls' = [Orphaned EXCEPT ![s] = [Idle EXCEPT !.job = "load", !.pc = "sent"]]
  BY DEF LanguageSwitcher
<1>2. calls'[s] = [Idle EXCEPT !.job = "load", !.pc = "sent"]
  BY <1>1, OrphansCalls DEF FormTypes
<1>3. \A t \in Slot \ {s} : calls'[t] = Orphaned[t]
  BY <1>1, OrphansCalls DEF FormTypes
<1> QED
  BY <1>2, <1>3, OrphanFields DEF Idle


LEMMA SortedStep ==
    ASSUME FormTypes, CallsSorted, [FormNext]_formVars
    PROVE  CallsSorted'
<1> USE DEF CallsSorted, InTx
<1>1. CASE UNCHANGED formVars
  BY <1>1 DEF formVars
<1>2. CASE leaveSettings
  BY <1>2, Detaching DEF Detaches
<1>3. ASSUME NEW t \in TABS, setTab(t) PROVE CallsSorted'
  BY <1>3, Detaching DEF Detaches
<1>4. ASSUME UNCHANGED calls PROVE CallsSorted'
  BY <1>4
<1>5. CASE Typing
  BY <1>3, <1>4, <1>5
     DEF Typing, editProfile, toggleInterest, toggleCountry, Edits, setConfirming,
         setConfirmation, cancelDeletion, Dialog
<1>6. ASSUME NEW s \in Slot, OnPage(s) PROVE CallsSorted'
  <2>1. CASE LanguageSwitcher(s)
    BY <2>1, Switching
  <2>2. CASE Loaded(s) \/ Saved(s) \/ Unheard(s) \/ Scheduled(s)
    BY <2>2, PageMoves DEF Freed, Becomes
  <2>3. CASE Save(s) \/ deleteAccount(s)
    BY <2>3, PageMoves DEF Save, deleteAccount, Begun, Becomes, Saves
  <2>4. CASE thenInterests(s)
    BY <2>4, PageMoves DEF thenInterests, Goes, Becomes
  <2>5. CASE Fails(s)
    BY <2>5, PageMoves DEF Freed, Becomes
  <2> QED
    BY <1>6, <2>1, <2>2, <2>3, <2>4, <2>5 DEF OnPage
<1>7. ASSUME NEW s \in Slot, OnServer(s) PROVE CallsSorted'
  <2>1. CASE loadProfile(s)
    BY <2>1, ServerMoves DEF loadProfile, Serving, Becomes
  <2>2. CASE Refuses(s)
    BY <2>2, ServerMoves DEF Refuses, Goes, Becomes
  <2>3. CASE PatchProfile(s)
    BY <2>3, ServerMoves DEF PatchProfile, Serving, Goes, Becomes
  <2>9. CASE requestDeletion(s)
    BY <2>9, ServerMoves DEF requestDeletion, Serving, Goes, Becomes
  <2>7. CASE PatchPreferences(s)
    BY <2>7, ServerMoves DEF PatchPreferences, Serving, Goes, Becomes, Saves
  <2>8. CASE PatchPrivacy(s)
    BY <2>8, ServerMoves DEF PatchPrivacy, Serving, Goes, Becomes, Saves
  <2>4. CASE PutInterests(s) \/ Deleted(s)
    BY <2>4, ServerMoves DEF PutInterests, Deleted, Becomes
  <2>5. CASE Inserted(s)
    BY <2>5, ServerMoves DEF Inserted, Goes, Becomes
  <2>6. CASE CommitInterests(s)
    BY <2>6, ServerMoves DEF CommitInterests, Goes, Becomes, Saves
  <2> QED
    BY <1>7, <2>1, <2>2, <2>3, <2>4, <2>5, <2>6, <2>7, <2>8, <2>9 DEF OnServer
<1> QED
  BY <1>1, <1>2, <1>5, <1>6, <1>7 DEF FormNext

(* A step after which no more transactions are open, on the same interests. *)
LEMMA NoNewTx ==
    ASSUME Replacing, sole' = sole, account'.interests = account.interests,
           \A t \in Slot : InTx(t)' =>
              /\ InTx(t) /\ calls'[t].body = calls[t].body
              /\ calls'[t].seen = calls[t].seen /\ calls'[t].gone = calls[t].gone
              /\ calls'[t].pc = "deleting" <=> calls[t].pc = "deleting"
    PROVE  Replacing'
  BY DEF Replacing

LEMMA ReplacingStep ==
    ASSUME FormTypes, CallsSorted, Replacing, InterestsWithinLimit, [FormNext]_formVars
    PROVE  Replacing' /\ InterestsWithinLimit'
<1> DEFINE Quiet == UNCHANGED <<account, sole, raced>>
<1>0. ASSUME Quiet,
             \A t \in Slot : InTx(t)' =>
                /\ InTx(t) /\ calls'[t].body = calls[t].body
                /\ calls'[t].seen = calls[t].seen /\ calls'[t].gone = calls[t].gone
                /\ calls'[t].pc = "deleting" <=> calls[t].pc = "deleting"
      PROVE  Replacing' /\ InterestsWithinLimit'
  BY <1>0, NoNewTx DEF InterestsWithinLimit
<1>1. CASE UNCHANGED formVars
  BY <1>0, <1>1 DEF formVars, rows, stored, InTx
<1>2. CASE leaveSettings
  BY <1>0, <1>2, Detaching DEF leaveSettings, rows, stored, Detaches, InTx
<1>3. ASSUME NEW t \in TABS, setTab(t) PROVE Replacing' /\ InterestsWithinLimit'
  BY <1>0, <1>3, Detaching DEF setTab, rows, stored, Detaches, InTx
<1>4. ASSUME UNCHANGED calls, Quiet PROVE Replacing' /\ InterestsWithinLimit'
  BY <1>0, <1>4 DEF InTx
<1>5. CASE Typing
  BY <1>3, <1>4, <1>5
     DEF Typing, editProfile, toggleInterest, toggleCountry, Edits, setConfirming,
         setConfirmation, cancelDeletion, Dialog, rows, stored
<1>6. ASSUME NEW s \in Slot, OnPage(s) PROVE Replacing' /\ InterestsWithinLimit'
  <2>0. Quiet
    BY <1>6 DEF OnPage, LanguageSwitcher, Loaded, Saved, Unheard, Scheduled, Save,
                deleteAccount, thenInterests, Fails, rows, stored
  <2>1. CASE LanguageSwitcher(s)
    BY <1>0, <2>0, <2>1, Switching DEF InTx
  <2>2. CASE Loaded(s) \/ Saved(s) \/ Unheard(s) \/ Scheduled(s)
    BY <1>0, <2>0, <2>2, PageMoves DEF Freed, Becomes, InTx
  <2>3. CASE Save(s) \/ deleteAccount(s)
    BY <1>0, <2>0, <2>3, PageMoves DEF Begun, Becomes, InTx
  <2>4. CASE thenInterests(s)
    BY <1>0, <2>0, <2>4, PageMoves DEF Goes, Becomes, InTx
  <2>5. CASE Fails(s)
    BY <1>0, <2>0, <2>5, PageMoves DEF Freed, Becomes, InTx
  <2> QED
    BY <1>6, <2>1, <2>2, <2>3, <2>4, <2>5 DEF OnPage
<1>7. ASSUME NEW s \in Slot, OnServer(s) PROVE Replacing' /\ InterestsWithinLimit'
  <2>1. CASE loadProfile(s)
    BY <1>0, <2>1, ServerMoves DEF loadProfile, rows, stored, Becomes, InTx
  <2>2. CASE Refuses(s) \/ PatchPrivacy(s) \/ requestDeletion(s)
    BY <1>0, <2>2, ServerMoves
       DEF Refuses, PatchPrivacy, requestDeletion, rows, stored, Goes, Becomes, InTx
  <2>3. CASE PatchProfile(s) \/ PatchPreferences(s)
    <3>1. account'.interests = account.interests
      BY <2>3 DEF PatchProfile, PatchPreferences, FormTypes, Settings
    <3>2. UNCHANGED <<sole, raced>>
      BY <2>3 DEF PatchProfile, PatchPreferences, stored
    <3>3. Replacing'
      BY <2>3, <3>1, <3>2, ServerMoves, NoNewTx DEF Goes, Becomes, InTx
    <3> QED
      BY <3>1, <3>2, <3>3 DEF InterestsWithinLimit
  <2>4. CASE PutInterests(s)
    <3>1. Becomes(s, calls[s].job, "deleting", calls[s].of, calls[s].body,
                  account.interests, calls[s].gone)
      BY <2>4, ServerMoves
    <3>2. /\ UNCHANGED <<account, raced>>
          /\ Cardinality(calls[s].body.interests) <= MAX_INTERESTS_PER_USER
          /\ sole' = ~\E t \in Slot : InTx(t)
      BY <2>4 DEF PutInterests, rows
    <3>3. \A t \in Slot : InTx(t)' => t = s \/ InTx(t)
      BY <3>1 DEF Becomes, InTx
    <3> QED
      BY <3>1, <3>2, <3>3 DEF Replacing, InterestsWithinLimit, Becomes, InTx
  <2>5. CASE Deleted(s)
    <3>1. Becomes(s, calls[s].job, "deleted", calls[s].of, calls[s].body,
                  calls[s].seen, calls[s].seen \cap account.interests)
      BY <2>5, ServerMoves
    <3>2. calls[s].pc = "deleting" /\ Quiet
      BY <2>5 DEF Deleted, rows, stored
    <3> QED
      BY <3>1, <3>2 DEF Replacing, InterestsWithinLimit, Becomes, InTx
  <2>6. CASE Inserted(s)
    <3>1. Goes(s, "inserted") \/ Goes(s, "refused")
      BY <2>6, ServerMoves
    <3>2. calls[s].pc = "deleted" /\ Quiet
      BY <2>6 DEF Inserted, rows, stored
    <3> QED
      BY <1>0, <3>1, <3>2 DEF Goes, Becomes, InTx
  <2>7. CASE CommitInterests(s)
    <3>1. Goes(s, "stored")
      BY <2>7, ServerMoves
    <3>2. /\ calls[s].pc = "inserted" /\ raced' = ~sole /\ sole' = sole
          /\ account'.interests = (account.interests \ calls[s].gone)
                                     \cup calls[s].body.interests
      BY <2>7 DEF CommitInterests, FormTypes, Settings
    <3>3. CASE sole
      <4>1. account'.interests = calls[s].body.interests
        BY <3>2, <3>3 DEF Replacing, InTx
      <4>2. \A t \in Slot : ~InTx(t)'
        BY <3>1, <3>2, <3>3 DEF Replacing, Goes, Becomes, InTx
      <4> QED
        BY <3>2, <4>1, <4>2 DEF Replacing, InterestsWithinLimit, InTx
    <3>4. CASE ~sole
      <4>1. \A t \in Slot : InTx(t)' => InTx(t) /\ calls'[t] = calls[t]
        BY <3>1 DEF Goes, Becomes, InTx
      <4> QED
        BY <3>2, <3>4, <4>1 DEF Replacing, InterestsWithinLimit
    <3> QED
      BY <3>3, <3>4
  <2> QED
    BY <1>7, <2>1, <2>2, <2>3, <2>4, <2>5, <2>6, <2>7 DEF OnServer
<1> QED
  BY <1>1, <1>2, <1>5, <1>6, <1>7 DEF FormNext


(* The one load or save there is. *)
Single(s) == Written(s) /\ Awaited(s) /\ \A t \in Slot : Saving(t) => t = s

(* A step of the call itself, which the page has not lost. *)
LEMMA Advances ==
    ASSUME NEW s \in Slot, Alone, ~overlap, Saving(s), NEW pc, NEW body, NEW seen, NEW removed,
           Becomes(s, calls[s].job, pc, calls[s].of, body, seen, removed),
           UNCHANGED <<there, error, tab, form, touched, stale>>,
           Written(s)',
           calls[s].job \in Saves /\ calls[s].of = "form" => body = calls[s].body \/
               Agree(Fields(calls[s].job), calls[s].body, body)
    PROVE  Alone'
<1>1. Single(s)
  BY DEF Alone, Single
<1>2. \A t \in Slot : Saving(t)' => t = s
  BY <1>1 DEF Single, Saving, Becomes
<1>3. Awaited(s)'
  BY <1>1 DEF Single, Awaited, Becomes, Heard, Agree
<1> QED
  BY <1>2, <1>3 DEF Alone

(* A step that no load or save takes. *)
LEMMA Undisturbed ==
    ASSUME Alone,
           \A t \in Slot : Saving(t)' => Saving(t) /\ calls'[t] = calls[t],
           UNCHANGED <<account, sole, overlap, there, error, tab, form, touched, stale>>
    PROVE  Alone'
<1> SUFFICES ASSUME ~overlap', NEW t \in Slot, Saving(t)'
             PROVE  Written(t)' /\ Awaited(t)' /\ \A u \in Slot : Saving(u)' => u = t
  BY DEF Alone
<1>1. Single(t)
  BY DEF Alone, Single
<1>2. Written(t)'
  BY <1>1 DEF Single, Written, InTx
<1>3. Awaited(t)'
  BY <1>1 DEF Single, Awaited, Heard
<1> QED
  BY <1>1, <1>2, <1>3 DEF Single

(* Nothing is under way any more. *)
LEMMA Ended ==
    ASSUME \A t \in Slot : ~Saving(t)'
    PROVE  Alone'
  BY DEF Alone

LEMMA FieldsOfTabs ==
    /\ Fields("profile") = {"profile", "interests"}
    /\ Fields("matching") = {"countries"} /\ Fields("privacy") = {}
  BY DEF Fields

LEMMA AloneOnPage ==
    ASSUME FormTypes, CallsSorted, Alone, NEW s \in Slot, OnPage(s)
    PROVE  Alone'
<1>1. CASE LanguageSwitcher(s)
  <2> SUFFICES ASSUME ~overlap', NEW t \in Slot, Saving(t)'
               PROVE  Written(t)' /\ Awaited(t)' /\ \A u \in Slot : Saving(u)' => u = t
    BY DEF Alone
  <2>1. \A u \in Slot : ~Saving(u)
    BY <1>1 DEF LanguageSwitcher, InFlight
  <2>2. \A u \in Slot : Saving(u)' => u = s
    BY <1>1, <2>1, Switching DEF Saving
  <2>3. calls'[s].job = "load" /\ calls'[s].pc = "sent" /\ calls'[s].of = "form"
    BY <1>1, Switching
  <2>4. there' = FALSE
    BY <1>1 DEF LanguageSwitcher, Unmounts
  <2> QED
    BY <2>2, <2>3, <2>4 DEF Written, Awaited, InTx, Heard, Saves
<1>2. CASE Save(s)
  <2> SUFFICES ASSUME ~overlap', NEW t \in Slot, Saving(t)'
               PROVE  Written(t)' /\ Awaited(t)' /\ \A u \in Slot : Saving(u)' => u = t
    BY DEF Alone
  <2>0. Begun(s, tab, form)
    BY <1>2, PageMoves
  <2>1. \A u \in Slot : ~Saving(u)
    BY <1>2 DEF Save, InFlight
  <2>2. \A u \in Slot : Saving(u)' => u = s
    BY <2>0, <2>1 DEF Saving, Begun, Becomes
  <2>3. /\ calls'[s].job = tab' /\ calls'[s].pc = "sent" /\ calls'[s].of = "form"
        /\ calls'[s].body = form' /\ tab' \in Saves
    BY <1>2, <2>0 DEF Save, open, Begun, Becomes
  <2>4. Written(s)'
    BY <2>3 DEF Written, InTx
  <2>5. Awaited(s)'
    BY <2>3 DEF Awaited, Heard, Agree, Saves
  <2> QED
    BY <2>2, <2>4, <2>5
<1>3. CASE Loaded(s) \/ Saved(s)
  <2>1. Freed(s) /\ Saving(s) /\ overlap' = overlap
    BY <1>3, PageMoves DEF Loaded, Saved, Saving
  <2>2. ~overlap => \A t \in Slot : ~Saving(t)'
    BY <2>1 DEF Alone, Freed, Becomes, Saving, Saves
  <2> QED
    BY <2>1, <2>2 DEF Alone
<1>4. CASE Unheard(s)
  <2>1. \A t \in Slot : Saving(t)' => Saving(t) /\ calls'[t] = calls[t]
    BY <1>4, PageMoves DEF Freed, Becomes, Saving, Saves
  <2> QED
    BY <1>4, <2>1, Undisturbed DEF Unheard, rows, open, typing, stored
<1>5. CASE Scheduled(s)
  <2>1. \A t \in Slot : Saving(t)' => Saving(t) /\ calls'[t] = calls[t]
    BY <1>5, PageMoves DEF Freed, Becomes, Saving, Saves
  <2> QED
    BY <1>5, <2>1, Undisturbed DEF Scheduled, rows, typing, stored
<1>6. CASE deleteAccount(s)
  <2>1. \A t \in Slot : Saving(t)' => Saving(t) /\ calls'[t] = calls[t]
    BY <1>6, PageMoves DEF Begun, Becomes, Saving, Saves
  <2> QED
    BY <1>6, <2>1, Undisturbed DEF deleteAccount, rows, open, typing, stored
<1>7. CASE thenInterests(s)
  <2>1. Goes(s, "put") /\ calls[s].pc = "patched" /\ Saving(s)
    BY <1>7, PageMoves DEF thenInterests, CallsSorted, Saving, Saves
  <2>2. UNCHANGED <<account, sole, overlap, there, error, tab, form, touched, stale>>
    BY <1>7 DEF thenInterests, rows, open, typing, stored
  <2>3. CASE ~overlap
    <3>1. Written(s)'
      BY <2>1, <2>2, <2>3 DEF Alone, Written, Goes, Becomes, InTx
    <3> QED
      BY <2>1, <2>2, <2>3, <3>1, Advances DEF Goes
  <2> QED
    BY <2>2, <2>3 DEF Alone
<1>8. CASE Fails(s)
  <2>1. /\ Saving(s) /\ error' = TRUE
        /\ UNCHANGED <<account, sole, overlap, there, tab, form, touched, stale>>
    BY <1>8 DEF Fails, Saving, rows, open, typing, stored
  <2> SUFFICES ASSUME ~overlap', NEW t \in Slot, Saving(t)'
               PROVE  Written(t)' /\ Awaited(t)' /\ \A u \in Slot : Saving(u)' => u = t
    BY DEF Alone
  <2>2. Single(s)
    BY <2>1 DEF Alone, Single
  <2>3. CASE Freed(s)
    BY <2>2, <2>3 DEF Freed, Becomes, Saving, Saves, Single
  <2>4. CASE Becomes(s, calls[s].job, calls[s].pc, "nobody", calls[s].body,
                     calls[s].seen, calls[s].gone)
    <3>1. t = s /\ \A u \in Slot : Saving(u)' => u = s
      BY <2>2, <2>4 DEF Becomes, Saving, Single
    <3>2. Written(s)'
      BY <2>1, <2>2, <2>4 DEF Single, Written, InTx, Becomes
    <3>3. Awaited(s)'
      BY <2>1, <2>2, <2>4 DEF Single, Awaited, Becomes
    <3> QED
      BY <3>1, <3>2, <3>3
  <2> QED
    BY <1>8, <2>3, <2>4, PageMoves
<1> QED
  BY <1>1, <1>2, <1>3, <1>4, <1>5, <1>6, <1>7, <1>8 DEF OnPage

LEMMA AloneOnServer ==
    ASSUME FormTypes, CallsSorted, Replacing, Alone, NEW s \in Slot, OnServer(s)
    PROVE  Alone'
<1>0. UNCHANGED <<overlap, there, error, tab, form, touched, stale>>
  BY DEF OnServer, loadProfile, Refuses, PatchProfile, PutInterests, Deleted, Inserted,
         CommitInterests, PatchPrivacy, PatchPreferences, requestDeletion, open, typing
<1> SUFFICES ASSUME ~overlap PROVE Alone'
  BY <1>0 DEF Alone
<1>1. CASE loadProfile(s)
  <2>1. /\ calls[s].pc = "stored" \/ calls[s].job = "load"
        /\ account' = account
        /\ Becomes(s, calls[s].job, "answered", calls[s].of, account,
                   calls[s].seen, calls[s].gone)
    BY <1>1, ServerMoves DEF loadProfile, Serving, rows
  <2>2. Saving(s)
    BY <2>1 DEF Saving, CallsSorted, Saves
  <2>3. Written(s)'
    BY <2>1 DEF Written, InTx, Becomes
  <2>4. Single(s)
    BY <2>2 DEF Alone, Single
  <2>5. calls[s].job \in Saves => Agree(Fields(calls[s].job), calls[s].body, account)
    BY <2>1, <2>4 DEF Single, Written, Saves
  <2> QED
    BY <1>0, <2>1, <2>2, <2>3, <2>5, Advances
<1>2. CASE Refuses(s)
  <2>1. Goes(s, "refused") /\ UNCHANGED <<account, sole>>
    BY <1>2, ServerMoves DEF Refuses, rows, stored
  <2>2. CASE Saving(s)
    <3>1. Written(s)'
      BY <2>1 DEF Written, InTx, Goes, Becomes
    <3> QED
      BY <1>0, <2>1, <2>2, <3>1, Advances DEF Goes
  <2>3. CASE ~Saving(s)
    <3>1. \A t \in Slot : Saving(t)' => Saving(t) /\ calls'[t] = calls[t]
      BY <2>1, <2>3 DEF Saving, Goes, Becomes
    <3> QED
      BY <1>0, <2>1, <3>1, Undisturbed
  <2> QED
    BY <2>2, <2>3
<1>3. CASE PatchProfile(s)
  <2>1. /\ Goes(s, "patched") /\ Saving(s)
        /\ account'.profile = calls[s].body.profile
    BY <1>3, ServerMoves DEF PatchProfile, Serving, Saving, Saves, FormTypes, Settings
  <2>2. Written(s)'
    BY <2>1 DEF Written, InTx, Goes, Becomes
  <2> QED
    BY <1>0, <2>1, <2>2, Advances DEF Goes
<1>4. CASE PutInterests(s)
  <2>1. /\ Saving(s) /\ calls[s].pc = "put" /\ account' = account
        /\ sole' = ~\E t \in Slot : InTx(t)
        /\ Becomes(s, calls[s].job, "deleting", calls[s].of, calls[s].body,
                   account.interests, calls[s].gone)
    BY <1>4, ServerMoves DEF PutInterests, Saving, Saves, CallsSorted, rows
  <2>2. Single(s)
    BY <2>1 DEF Alone, Single
  <2>3. \A t \in Slot : ~InTx(t)
    BY <2>1, <2>2 DEF Single, CallsSorted, Saving, Saves, InTx
  <2>4. Written(s)'
    BY <2>1, <2>2, <2>3 DEF Single, Written, Becomes, InTx
  <2> QED
    BY <1>0, <2>1, <2>4, Advances
<1>5. CASE Deleted(s)
  <2>1. /\ Saving(s) /\ calls[s].pc = "deleting" /\ UNCHANGED <<account, sole>>
        /\ Becomes(s, calls[s].job, "deleted", calls[s].of, calls[s].body,
                   calls[s].seen, calls[s].seen \cap account.interests)
    BY <1>5, ServerMoves DEF Deleted, Saving, Saves, CallsSorted, InTx, rows, stored
  <2>2. Single(s)
    BY <2>1 DEF Alone, Single
  <2>3. Written(s)'
    BY <2>1, <2>2 DEF Single, Written, Becomes, InTx
  <2> QED
    BY <1>0, <2>1, <2>3, Advances
<1>6. CASE Inserted(s)
  <2>1. /\ Saving(s) /\ calls[s].pc = "deleted" /\ UNCHANGED <<account, sole>>
        /\ Goes(s, "inserted") \/ Goes(s, "refused")
    BY <1>6, ServerMoves DEF Inserted, Saving, Saves, CallsSorted, InTx, rows, stored
  <2>2. Single(s)
    BY <2>1 DEF Alone, Single
  <2>3. Written(s)'
    BY <2>1, <2>2 DEF Single, Written, Goes, Becomes, InTx
  <2> QED
    BY <1>0, <2>1, <2>3, Advances DEF Goes
<1>7. CASE CommitInterests(s)
  <2>1. /\ Saving(s) /\ calls[s].pc = "inserted" /\ calls[s].job = "profile"
        /\ Goes(s, "stored")
        /\ account'.profile = account.profile
        /\ account'.interests = (account.interests \ calls[s].gone)
                                   \cup calls[s].body.interests
    BY <1>7, ServerMoves
       DEF CommitInterests, Saving, Saves, CallsSorted, InTx, FormTypes, Settings
  <2>2. Single(s)
    BY <2>1 DEF Alone, Single
  <2>3. calls[s].gone = account.interests
    BY <2>1, <2>2 DEF Single, Written, Replacing, InTx
  <2>4. Agree(Fields("profile"), calls[s].body, account')
    BY <2>1, <2>2, <2>3, FieldsOfTabs DEF Single, Written, InTx, Agree
  <2>5. Written(s)'
    BY <2>1, <2>4 DEF Written, Goes, Becomes, InTx
  <2> QED
    BY <1>0, <2>1, <2>5, Advances DEF Goes
<1>8. CASE PatchPrivacy(s)
  <2>1. /\ Saving(s) /\ calls[s].job = "privacy" /\ UNCHANGED <<account, sole>>
        /\ Goes(s, "stored") \/ Goes(s, "refused")
    BY <1>8, ServerMoves DEF PatchPrivacy, Serving, Saving, Saves, rows, stored
  <2>2. Agree(Fields("privacy"), calls[s].body, account')
    BY FieldsOfTabs DEF Agree
  <2>3. Written(s)'
    BY <2>1, <2>2 DEF Written, Goes, Becomes, InTx
  <2> QED
    BY <1>0, <2>1, <2>3, Advances DEF Goes
<1>9. CASE PatchPreferences(s)
  <2>1. /\ Saving(s) /\ calls[s].job = "matching" /\ Goes(s, "stored")
        /\ account'.countries = calls[s].body.countries
    BY <1>9, ServerMoves DEF PatchPreferences, Serving, Saving, Saves, FormTypes, Settings
  <2>2. Agree(Fields("matching"), calls[s].body, account')
    BY <2>1, FieldsOfTabs DEF Agree
  <2>3. Written(s)'
    BY <2>1, <2>2 DEF Written, Goes, Becomes, InTx
  <2> QED
    BY <1>0, <2>1, <2>3, Advances DEF Goes
<1>10. CASE requestDeletion(s)
  <2>1. \A t \in Slot : Saving(t)' => Saving(t) /\ calls'[t] = calls[t]
    BY <1>10, ServerMoves DEF requestDeletion, Serving, Goes, Becomes, Saving, Saves
  <2>2. UNCHANGED <<account, sole>>
    BY <1>10 DEF requestDeletion, stored
  <2> QED
    BY <1>0, <2>1, <2>2, Undisturbed
<1> QED
  BY <1>1, <1>2, <1>3, <1>4, <1>5, <1>6, <1>7, <1>8, <1>9, <1>10 DEF OnServer


LEMMA AloneStep ==
    ASSUME FormTypes, CallsSorted, Replacing, Alone, [FormNext]_formVars
    PROVE  Alone'
<1>0. ASSUME UNCHANGED <<calls, account, sole, overlap, there, error, tab, form, touched, stale>>
      PROVE  Alone'
  BY <1>0, Undisturbed DEF Saving
<1>1. CASE UNCHANGED formVars
  BY <1>0, <1>1 DEF formVars, rows, open, typing, stored
<1>2. CASE leaveSettings
  <2>1. /\ Detaches({"form", "page"}, "left") /\ there' = FALSE
        /\ UNCHANGED <<account, sole, overlap>>
    BY <1>2, Detaching DEF leaveSettings, Unmounts, rows, stored
  <2> SUFFICES ASSUME ~overlap', NEW t \in Slot, Saving(t)'
               PROVE  Written(t)' /\ Awaited(t)' /\ \A u \in Slot : Saving(u)' => u = t
    BY DEF Alone
  <2>2. Single(t)
    BY <2>1 DEF Alone, Single, Saving, Detaches
  <2>3. Written(t)'
    BY <2>1, <2>2 DEF Single, Written, InTx, Detaches
  <2>4. calls'[t].of \notin {"form", "page"}
    BY <2>1 DEF Detaches, Saving, Saves
  <2>5. Awaited(t)'
    BY <2>1, <2>4 DEF Awaited
  <2>6. \A u \in Slot : Saving(u)' => u = t
    BY <2>1, <2>2 DEF Single, Saving, Detaches
  <2> QED
    BY <2>3, <2>5, <2>6
<1>3. ASSUME NEW to \in TABS, setTab(to) PROVE Alone'
  <2>1. /\ Detaches({"form"}, "page") /\ there /\ stale' = InFlight
        /\ UNCHANGED <<account, sole, overlap, there, error>>
    BY <1>3, Detaching DEF setTab, rows, stored
  <2> SUFFICES ASSUME ~overlap', NEW t \in Slot, Saving(t)'
               PROVE  Written(t)' /\ Awaited(t)' /\ \A u \in Slot : Saving(u)' => u = t
    BY DEF Alone
  <2>2. Single(t) /\ Saving(t)
    BY <2>1 DEF Alone, Single, Saving, Detaches
  <2>3. Written(t)'
    BY <2>1, <2>2 DEF Single, Written, InTx, Detaches
  <2>4. stale' /\ calls[t].job # "load" /\ calls'[t].of # "form"
    BY <2>1, <2>2 DEF InFlight, Single, Awaited, Detaches, Saving, Saves
  <2>5. Heard(t) => Heard(t)'
    BY <2>1 DEF Heard, Detaches
  <2>6. Awaited(t)'
    BY <2>1, <2>2, <2>4, <2>5 DEF Single, Awaited, Detaches
  <2>7. \A u \in Slot : Saving(u)' => u = t
    BY <2>1, <2>2 DEF Single, Saving, Detaches
  <2> QED
    BY <2>3, <2>6, <2>7
<1>4. ASSUME NEW f, NEW now, Edits(f, now), Agree(Fields(tab) \ {f}, now, form)
      PROVE  Alone'
  <2>1. /\ touched' = touched \cup {f} /\ form' = now
        /\ UNCHANGED <<calls, account, sole, overlap, there, error, tab, stale>>
    BY <1>4 DEF Edits, rows, open, stored
  <2> SUFFICES ASSUME ~overlap', NEW t \in Slot, Saving(t)'
               PROVE  Written(t)' /\ Awaited(t)' /\ \A u \in Slot : Saving(u)' => u = t
    BY DEF Alone
  <2>2. Single(t)
    BY <2>1 DEF Alone, Single, Saving
  <2>3. Written(t)'
    BY <2>1, <2>2 DEF Single, Written, InTx
  <2>4. Awaited(t)'
    BY <1>4, <2>1, <2>2 DEF Single, Awaited, Heard, Agree
  <2>5. \A u \in Slot : Saving(u)' => u = t
    BY <2>1, <2>2 DEF Single, Saving
  <2> QED
    BY <2>3, <2>4, <2>5
<1>5. ASSUME NEW v \in Detail, editProfile(v) PROVE Alone'
  BY <1>4, <1>5, FieldsOfTabs DEF editProfile, Agree, FormTypes, Settings
<1>6. ASSUME NEW i \in Interest, toggleInterest(i) PROVE Alone'
  BY <1>4, <1>6, FieldsOfTabs DEF toggleInterest, Agree, FormTypes, Settings
<1>7. ASSUME NEW c \in Country, toggleCountry(c) PROVE Alone'
  BY <1>4, <1>7, FieldsOfTabs DEF toggleCountry, Agree, FormTypes, Settings
<1>8. CASE setConfirming \/ setConfirmation \/ cancelDeletion
  BY <1>0, <1>8
     DEF setConfirming, setConfirmation, cancelDeletion, Dialog, rows, typing, stored
<1>9. CASE Typing
  BY <1>3, <1>5, <1>6, <1>7, <1>8, <1>9 DEF Typing
<1> QED
  BY <1>1, <1>2, <1>9, AloneOnPage, AloneOnServer DEF FormNext

LEMMA ShowsStep ==
    ASSUME FormTypes, CallsSorted, Alone, ShowsStored, [FormNext]_formVars
    PROVE  ShowsStored'
<1>0. ASSUME UNCHANGED <<account, there, copy, error, overlap, tab, form, touched, stale>>,
             \A t \in Slot : calls'[t].job = calls[t].job \/ ~Saving(t)
      PROVE  ShowsStored'
  BY <1>0 DEF ShowsStored, InFlight, Saving
<1>1. CASE UNCHANGED formVars
  BY <1>0, <1>1 DEF formVars, rows, open, typing, stored
<1>2. CASE leaveSettings
  BY <1>2 DEF leaveSettings, Unmounts, ShowsStored
<1>3. ASSUME NEW to \in TABS, setTab(to) PROVE ShowsStored'
  <2>1. /\ Detaches({"form"}, "page") /\ stale' = InFlight /\ form' = copy
        /\ UNCHANGED <<account, copy, overlap, there, error>>
    BY <1>3, Detaching DEF setTab, Mounts, rows, stored
  <2>2. InFlight' => InFlight
    BY <2>1 DEF InFlight, Saving, Detaches
  <2>3. InFlight => InFlight'
    BY <2>1 DEF InFlight, Saving, Detaches
  <2> QED
    BY <2>1, <2>2, <2>3 DEF ShowsStored, Agree
<1>4. ASSUME NEW f, NEW now, Edits(f, now), Agree(Fields(tab) \ {f}, now, form)
      PROVE  ShowsStored'
  <2>1. /\ touched' = touched \cup {f} /\ form' = now
        /\ UNCHANGED <<calls, account, copy, overlap, there, error, tab, stale>>
    BY <1>4 DEF Edits, rows, open, stored
  <2> QED
    BY <1>4, <2>1 DEF ShowsStored, InFlight, Saving, Agree
<1>5. ASSUME NEW v \in Detail, editProfile(v) PROVE ShowsStored'
  BY <1>4, <1>5, FieldsOfTabs DEF editProfile, Agree, FormTypes, Settings
<1>6. ASSUME NEW i \in Interest, toggleInterest(i) PROVE ShowsStored'
  BY <1>4, <1>6, FieldsOfTabs DEF toggleInterest, Agree, FormTypes, Settings
<1>7. ASSUME NEW c \in Country, toggleCountry(c) PROVE ShowsStored'
  BY <1>4, <1>7, FieldsOfTabs DEF toggleCountry, Agree, FormTypes, Settings
<1>8. CASE setConfirming \/ setConfirmation \/ cancelDeletion
  BY <1>0, <1>8
     DEF setConfirming, setConfirmation, cancelDeletion, Dialog, rows, typing, stored
<1>9. CASE Typing
  BY <1>3, <1>5, <1>6, <1>7, <1>8, <1>9 DEF Typing
<1>10. ASSUME NEW s \in Slot, OnPage(s) PROVE ShowsStored'
  <2>1. CASE LanguageSwitcher(s)
    BY <2>1 DEF LanguageSwitcher, Unmounts, ShowsStored
  <2>2. CASE Save(s) \/ thenInterests(s)
    <3>1. Saving(s)'
      BY <2>2, PageMoves
         DEF Save, thenInterests, CallsSorted, Begun, Goes, Becomes, Saving, Saves
    <3> QED
      BY <3>1 DEF ShowsStored, InFlight
  <2>3. CASE Fails(s)
    BY <2>3 DEF Fails, ShowsStored
  <2>4. CASE Loaded(s)
    <3>1. /\ Saving(s) /\ calls[s].pc = "answered"
          /\ copy' = calls[s].body /\ form' = calls[s].body
          /\ UNCHANGED <<account, overlap>>
      BY <2>4 DEF Loaded, Saving, Mounts, rows
    <3>2. ~overlap => calls[s].body = account
      BY <3>1 DEF Alone, Written
    <3> QED
      BY <3>1, <3>2 DEF ShowsStored, Agree
  <2>5. CASE Saved(s)
    <3>1. /\ Saving(s) /\ Heard(s) /\ calls[s].pc = "answered" /\ calls[s].job \in Saves
          /\ copy' = calls[s].body
          /\ UNCHANGED <<account, overlap, there, error, tab, form, touched, stale>>
      BY <2>5 DEF Saved, Saving, rows, typing
    <3>2. ~overlap => Single(s)
      BY <3>1 DEF Alone, Single
    <3>3. ~overlap => calls[s].body = account
      BY <3>1, <3>2 DEF Single, Written
    <3>4. ~overlap => stale \/ Agree(Fields(tab) \ touched, form, account)
      BY <3>1, <3>2, <3>3 DEF Single, Awaited, Heard
    <3> QED
      BY <3>1, <3>3, <3>4 DEF ShowsStored
  <2>6. CASE Unheard(s)
    <3>1. CASE Saving(s)
      <4>1. ~overlap => ~there \/ error
        BY <2>6, <3>1 DEF Alone, Awaited, Unheard
      <4> QED
        BY <2>6, <4>1 DEF Unheard, ShowsStored, open
    <3>2. CASE ~Saving(s)
      <4>1. \A t \in Slot : calls'[t].job = calls[t].job \/ ~Saving(t)
        BY <2>6, <3>2, PageMoves DEF Freed, Becomes
      <4> QED
        BY <1>0, <2>6, <4>1 DEF Unheard, rows, open, typing, stored
    <3> QED
      BY <3>1, <3>2
  <2>7. CASE Scheduled(s)
    <3>1. \A t \in Slot : calls'[t].job = calls[t].job \/ ~Saving(t)
      BY <2>7, PageMoves DEF Freed, Becomes, Scheduled, Saving, Saves
    <3> QED
      BY <1>0, <2>7, <3>1 DEF Scheduled, rows, typing, stored
  <2>8. CASE deleteAccount(s)
    <3>1. \A t \in Slot : calls'[t].job = calls[t].job \/ ~Saving(t)
      BY <2>8, PageMoves DEF Begun, Becomes, deleteAccount, CallsSorted, Saving, Saves
    <3> QED
      BY <1>0, <2>8, <3>1 DEF deleteAccount, rows, open, typing, stored
  <2> QED
    BY <1>10, <2>1, <2>2, <2>3, <2>4, <2>5, <2>6, <2>7, <2>8 DEF OnPage
<1>11. ASSUME NEW s \in Slot, OnServer(s) PROVE ShowsStored'
  <2>1. CASE Refuses(s) \/ requestDeletion(s)
    <3>1. \A t \in Slot : calls'[t].job = calls[t].job
      BY <2>1, ServerMoves DEF Goes, Becomes
    <3> QED
      BY <1>0, <2>1, <3>1 DEF Refuses, requestDeletion, rows, open, typing, stored
  <2>2. CASE Saving(s)'
    BY <2>2 DEF ShowsStored, InFlight
  <2>3. CASE loadProfile(s)
    <3>1. Saving(s)'
      BY <2>3, ServerMoves DEF loadProfile, Serving, CallsSorted, Becomes, Saving, Saves
    <3> QED
      BY <2>2, <3>1
  <2>4. CASE PatchProfile(s) \/ PatchPreferences(s) \/ PatchPrivacy(s)
    <3>1. calls[s].job \in Saves /\ calls'[s].job = calls[s].job
      BY <2>4, ServerMoves
         DEF PatchProfile, PatchPreferences, PatchPrivacy, Serving, Goes, Becomes, Saves
    <3> QED
      BY <2>2, <3>1 DEF Saving
  <2>5. CASE PutInterests(s) \/ Deleted(s) \/ Inserted(s) \/ CommitInterests(s)
    <3>1. calls[s].job \in Saves /\ calls'[s].job = calls[s].job
      BY <2>5, ServerMoves
         DEF PutInterests, Deleted, Inserted, CommitInterests, CallsSorted, InTx,
             Goes, Becomes, Saves
    <3> QED
      BY <2>2, <3>1 DEF Saving
  <2> QED
    BY <1>11, <2>1, <2>3, <2>4, <2>5 DEF OnServer
<1> QED
  BY <1>1, <1>2, <1>9, <1>10, <1>11 DEF FormNext

--------------------------------------------------------------------------------
LEMMA SettingsStart == FormInit => SettingsInv
<1> SUFFICES ASSUME FormInit PROVE SettingsInv
  OBVIOUS
<1>1. FormTypes
  BY TypesStart
<1>2. PICK s \in Slot :
         calls = [t \in Slot |-> IF opened /\ t = s
                                 THEN [Idle EXCEPT !.job = "load", !.pc = "sent"] ELSE Idle]
  BY DEF FormInit
<1>3. \A t \in Slot : /\ calls[t].of = "form"
                      /\ \/ calls[t].job = "none" /\ calls[t].pc = "free"
                         \/ calls[t].job = "load" /\ calls[t].pc = "sent" /\ t = s
  BY <1>2 DEF Idle
<1>4. CallsSorted /\ Replacing
  BY <1>3 DEF CallsSorted, Replacing, InTx
<1>5. there = FALSE /\ account.interests = {}
  BY DEF FormInit, Unset
<1>6. Alone
  BY <1>3, <1>5 DEF Alone, Saving, Saves, Written, Awaited, InTx, Heard
<1>7. InterestsWithinLimit
  BY <1>5, FS_EmptySet, LimitAssumption DEF InterestsWithinLimit
<1> QED
  BY <1>1, <1>4, <1>5, <1>6, <1>7 DEF SettingsInv, ShowsStored

(* Every state of the page, its calls and the user's rows satisfies SettingsInv. *)
THEOREM SettingsInvariant == FormSpec => []SettingsInv
<1>1. SettingsInv /\ [FormNext]_formVars => SettingsInv'
  BY TypesStep, SortedStep, ReplacingStep, AloneStep, ShowsStep DEF SettingsInv
<1> QED
  BY SettingsStart, <1>1, PTL DEF FormSpec

(* The types of the settings page's state and of the account's.               *)
THEOREM FormTypesCorrect == FormSpec => []FormTypes
  BY SettingsInvariant, PTL DEF SettingsInv

(* Whatever tabs are switched, pages left and calls lost: replacements of the *)
(* interests whose transactions do not meet leave no more of them than the    *)
(* limit (PUT interests of profile.routes.ts).                                *)
THEOREM InterestsBounded == FormSpec => []InterestsWithinLimit
  BY SettingsInvariant, PTL DEF SettingsInv

(* A page at rest without an error shows what is stored, unless its last load *)
(* or save overlapped another (SettingsPage's load and save, and the answers  *)
(* of the routes, read after the write).                                      *)
THEOREM PageShowsStored == FormSpec => []ShowsStored
  BY SettingsInvariant, PTL DEF SettingsInv
================================================================================
