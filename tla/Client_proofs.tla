---------------------------- MODULE Client_proofs ----------------------------
(***************************************************************************)
(* Proofs about the whole client: the ping timers, and the pictures in the *)
(* window.  What the window shows is ordered because the frames are        *)
(* decoded in order, so the second part rests on the invariant of the      *)
(* refinement (DeliveryInv, RtpHandler_proofs).                            *)
(***************************************************************************)
EXTENDS Client, RtpHandler_proofs

(* However the user, the timers and the datagrams interleave, no more than *)
(* the timer of MainWindow's constructor and that of the first press of    *)
(* the button send pings.                                                  *)
THEOREM PingTimers == ClientSpec => []TwoPingTimers
<1>1. ClientInit => TwoPingTimers
  BY DEF ClientInit, TwoPingTimers
<1>2. TwoPingTimers /\ [ClientNext]_clientVars => TwoPingTimers'
  <2> SUFFICES ASSUME TwoPingTimers, [ClientNext]_clientVars PROVE TwoPingTimers'
    OBVIOUS
  <2>1. CASE UNCHANGED << timers, m_kPlayState >>
    BY <2>1 DEF TwoPingTimers
  <2>2. ASSUME NEW checked \in BOOLEAN, on_pushButton_toggled(checked)
        PROVE  TwoPingTimers'
    <3>1. CASE checked /\ m_kPlayState = "RPS_IDLE"
      <4>1. timers = 1 /\ timers' = timers + 1 /\ m_kPlayState' = "RPS_RUNNING"
        BY <2>2, <3>1 DEF TwoPingTimers, on_pushButton_toggled
      <4> QED
        BY <4>1 DEF TwoPingTimers
    <3>2. CASE ~(checked /\ m_kPlayState = "RPS_IDLE")
      <4>1. timers' = timers /\ m_kPlayState # "RPS_IDLE" /\ m_kPlayState' # "RPS_IDLE"
        BY <2>2, <3>2 DEF on_pushButton_toggled
      <4> QED
        BY <4>1 DEF TwoPingTimers
    <3> QED
      BY <3>1, <3>2
  <2>3. CASE MyPing \/ PeerSends \/ readPendingDatagrams \/ paintEvent
             \/ UNCHANGED clientVars
    BY <2>1, <2>3 DEF MyPing, PeerSends, readPendingDatagrams, paintEvent,
                      playVars, clientVars
  <2> QED
    BY <2>2, <2>3 DEF ClientNext
<1> QED
  BY <1>1, <1>2, PTL DEF ClientSpec


-----------------------------------------------------------------------------
(* The pictures: the last one emitted is of a frame decoded, so that the   *)
(* next one is newer; and nothing in the window is newer than it.          *)

IsPicture(pic, frames) == \E j \in DOMAIN frames : frames[j].ts = pic

PicturesDecoded ==
  /\ IsList(shown)
  /\ shown # << >> => IsPicture(LastPicture, decoded)

WindowInv ==
  /\ m_Image \in Nat /\ m_Image <= LastPicture
  /\ screen \in Nat /\ screen <= LastPicture

ClientInv ==
  /\ DeliveryInv /\ PicturesDecoded /\ WindowInv
  /\ PauseFreezes /\ ScreenUpToDate

(* One datagram emits nothing, or one picture newer than all before.       *)
EmitsNewer(before, pics, after, pics2) ==
  /\ IsList(pics2)
  /\ pics2 # << >> => IsPicture(IF pics2 = << >> THEN 0 ELSE pics2[Len(pics2)], after)
  /\ \/ pics2 = pics
     \/ /\ pics2 # << >> /\ pics2[Len(pics2)] \in Nat
        /\ pics2[Len(pics2)] >= (IF pics = << >> THEN 0 ELSE pics[Len(pics)])

LEMMA MediaIsList ==
  ASSUME NEW frames \in Seq(Media)
  PROVE  /\ IsList(frames) /\ Len(frames) \in Nat /\ DOMAIN frames = 1 .. Len(frames)
         /\ \A j \in DOMAIN frames : frames[j].ts \in Nat
<1>1. Len(frames) \in Nat /\ DOMAIN frames = 1 .. Len(frames)
      /\ frames \in [1 .. Len(frames) -> Media]
  BY LenProperties
<1>2. frames = [i \in 1 .. Len(frames) |-> frames[i]]
  BY <1>1, Zenon
<1>3. IsList(frames)
  BY <1>1, <1>2, Zenon DEF IsList
<1>4. \A j \in DOMAIN frames : frames[j].ts \in Nat
  BY <1>1 DEF Media
<1> QED
  BY <1>1, <1>3, <1>4

LEMMA ShowsEmits ==
  ASSUME NEW stream, NEW frames \in Seq(Media), NEW more \in Seq(Media),
         more = frames \/ DeliversNext(stream, frames, more),
         NEW pics, IsList(pics),
         pics # << >> => IsPicture(IF pics = << >> THEN 0 ELSE pics[Len(pics)], frames),
         NEW pics2, Shows(frames, pics, more, pics2)
  PROVE  EmitsNewer(frames, pics, more, pics2)
<1>1. /\ DOMAIN frames = 1 .. Len(frames) /\ Len(frames) \in Nat
      /\ \A j \in DOMAIN frames : frames[j].ts \in Nat
      /\ DOMAIN more = 1 .. Len(more) /\ Len(more) \in Nat
      /\ \A j \in DOMAIN more : more[j].ts \in Nat
  BY MediaIsList
<1>2. \A j \in DOMAIN frames : j \in DOMAIN more /\ more[j] = frames[j]
  <2>1. CASE more = frames
    BY <2>1
  <2>2. ASSUME NEW f, more = Append(frames, f)
        PROVE  \A j \in DOMAIN frames : j \in DOMAIN more /\ more[j] = frames[j]
    <3>1. IsList(frames)
      BY MediaIsList
    <3>2. Longer(frames, f, more)
      BY <2>2, <3>1, AppendIsList
    <3> QED
      BY <1>1, <3>2 DEF Longer
  <2> QED
    BY <2>1, <2>2 DEF DeliversNext
<1>3. CASE pics2 = pics
  <2>1. pics # << >> => IsPicture(IF pics = << >> THEN 0 ELSE pics[Len(pics)], more)
    BY <1>2 DEF IsPicture
  <2> QED
    BY <1>3, <2>1, Zenon DEF EmitsNewer
<1>4. CASE pics2 # pics
  <2>1. PICK j \in DOMAIN more :
          /\ j > Len(frames) /\ pics2[Len(pics2)] = more[j].ts
          /\ Len(pics2) \in Nat \ {0}
    BY <1>4 DEF Shows
  <2>2. PICK pic : pic = pics2[Len(pics2)]
    OBVIOUS
  <2>3. pics2 # << >>
    <3>1. PICK none : none = << >>
      OBVIOUS
    <3>2. Len(none) = 0
      BY <3>1
    <3> QED
      BY <2>1, <3>1, <3>2
  <2>4. pic \in Nat /\ IsPicture(pic, more)
    BY <1>1, <2>1, <2>2 DEF IsPicture
  <2>5. \A k \in DOMAIN frames : frames[k].ts < pic
    <3>1. j \notin DOMAIN frames
      BY <1>1, <2>1
    <3>2. more # frames
      BY <2>1, <3>1
    <3>3. PICK t \in 1 .. LatestTs(stream) :
            /\ \A i \in DOMAIN frames : frames[i].ts < t
            /\ \E f : more = Append(frames, f) /\ Built(f, t, UnitsOf(stream)[t])
      BY <3>2 DEF DeliversNext
    <3>4. PICK f : more = Append(frames, f) /\ Built(f, t, UnitsOf(stream)[t])
      BY <3>3
    <3>5. f.ts = t
      BY <3>4 DEF Built
    <3>6. j = Len(more) /\ more[j] = f
      <4>1. IsList(frames)
        BY MediaIsList
      <4>2. Longer(frames, f, more)
        BY <3>4, <4>1, AppendIsList
      <4> QED
        BY <1>1, <2>1, <4>2 DEF Longer
    <3> QED
      BY <2>1, <2>2, <3>3, <3>5, <3>6
  <2>6. PICK old : old = IF pics = << >> THEN 0 ELSE pics[Len(pics)]
    OBVIOUS
  <2>7. pic >= old
    <3>1. CASE pics = << >>
      BY <2>4, <2>6, <3>1
    <3>2. CASE pics # << >>
      <4>1. IsPicture(old, frames)
        BY <2>6, <3>2
      <4>2. PICK k \in DOMAIN frames : frames[k].ts = old
        BY <4>1 DEF IsPicture
      <4> QED
        BY <1>1, <2>4, <2>5, <4>2
    <3> QED
      BY <3>1, <3>2
  <2>8. IsList(pics2)
    BY DEF Shows
  <2> QED
    BY <2>2, <2>3, <2>4, <2>6, <2>7, <2>8, Zenon DEF EmitsNewer
<1> QED
  BY <1>3, <1>4

(* The conclusions of DeliveryInv that the pictures need. *)
LEMMA DecodedMedia ==
  ASSUME DeliveryInv
  PROVE  decoded \in Seq(Media)
BY DEF DeliveryInv, DecodedPopped

LEMMA ReceiveEmits ==
  ASSUME FirstSeqAheadOfZero, ShapesFit, PayloadsFit, FirstCycle, DeliveryInv,
         DeliveryInv', PicturesDecoded,
         NEW s \in Ssrcs, NEW i \in DOMAIN sent[s],
         InReach(s, sent[s][i]), Receive(s, sent[s][i])
  PROVE  EmitsNewer(decoded, shown, decoded', shown')
<1>1. PICK frames, more, pics, pics2, stream :
        /\ frames = decoded /\ more = decoded' /\ pics = shown /\ pics2 = shown'
        /\ stream = sent[VideoSsrc]
  BY Zenon
<1>2. decoded \in Seq(Media) /\ decoded' \in Seq(Media)
  <2>1. decoded' \in Seq(Media)
    BY Zenon DEF DeliveryInv, DecodedPopped
  <2> QED
    BY <2>1, DecodedMedia
<1>3. IsList(decoded) /\ IsList(shown)
  BY <1>2, MediaIsList DEF PicturesDecoded
<1>4. more = frames \/ DeliversNext(stream, frames, more)
  BY <1>1, ReceiveDelivers
<1>5. pics # << >> => IsPicture(IF pics = << >> THEN 0 ELSE pics[Len(pics)], frames)
  BY <1>1 DEF PicturesDecoded, LastPicture, Last
<1>6. Shows(frames, pics, more, pics2)
  <2>1. CASE Quiet(s)
    <3>1. more = frames /\ pics2 = pics
      BY <1>1, <2>1 DEF Quiet
    <3>2. IsList(frames) /\ IsList(pics) /\ Len(frames) \in Nat
      BY <1>1, <1>2, <1>3, MediaIsList
    <3>3. Len(more) >= Len(frames) /\ IsList(more) /\ IsList(pics2)
      BY <3>1, <3>2
    <3> QED
      BY <3>1, <3>3, Zenon DEF Shows
  <2>2. CASE s = VideoSsrc /\ DumpsSome(i)
    <3>1. PICK a, n, m, b, u, w : Dumps(stream, u, w, a, n, m, b)
      BY <1>1, <2>2, Zenon DEF DumpsSome
    <3>2. Shows(decoded, shown, decoded', shown')
      BY <1>3, <3>1, Zenon DEF Dumps
    <3> QED
      BY <1>1, <3>2, Zenon
  <2>3. OneFrameInv
    BY DEF DeliveryInv
  <2> QED
    BY <2>1, <2>2, <2>3, ReceiveDumps
<1>7. frames \in Seq(Media) /\ more \in Seq(Media) /\ IsList(pics)
  BY <1>1, <1>2, <1>3
<1>8. EmitsNewer(frames, pics, more, pics2)
  BY <1>4, <1>5, <1>6, <1>7, ShowsEmits
<1> QED
  BY <1>1, <1>8, Zenon

(* The lossless network is a network. *)
LEMMA InOrderInReach ==
  ASSUME TypeOK, Reach # 0, ReceiveInOrder
  PROVE  \E s \in Ssrcs : \E i \in DOMAIN sent[s] :
           InReach(s, sent[s][i]) /\ Receive(s, sent[s][i])
<1>1. PICK s \in Ssrcs : \E i \in DOMAIN sent[s] :
        sent[s][i].id = newest[s] + 1 /\ Receive(s, sent[s][i])
  BY DEF ReceiveInOrder
<1>2. PICK i \in DOMAIN sent[s] :
        sent[s][i].id = newest[s] + 1 /\ Receive(s, sent[s][i])
  BY <1>1
<1>3. newest[s] \in Int /\ Reach \in Nat
  BY HandlerAssumption DEF TypeOK
<1>4. InReach(s, sent[s][i])
  BY <1>2, <1>3 DEF InReach
<1> QED
  BY <1>2, <1>4

LEMMA ClientStepIsStep ==
  ASSUME TypeOK, Reach # 0, [ClientNext]_clientVars
  PROVE  [Next]_vars
<1>1. CASE PeerSends
  BY <1>1 DEF PeerSends, Next
<1>2. CASE readPendingDatagrams
  <2>1. ReceiveInOrder
    BY <1>2 DEF readPendingDatagrams
  <2>2. ReceiveAny
    BY <2>1, InOrderInReach DEF ReceiveAny
  <2> QED
    BY <2>2 DEF Next
<1>3. CASE MyPing \/ paintEvent \/ UNCHANGED clientVars
  BY <1>3 DEF MyPing, paintEvent, clientVars
<1>4. CASE \E checked \in BOOLEAN : on_pushButton_toggled(checked)
  BY <1>4 DEF on_pushButton_toggled
<1> QED
  BY <1>1, <1>2, <1>3, <1>4 DEF ClientNext

LEMMA LastPictureIs ==
  ASSUME DeliveryInv, PicturesDecoded
  PROVE  LastPicture \in Nat
<1>1. CASE shown = << >>
  BY <1>1 DEF LastPicture
<1>2. CASE shown # << >>
  <2>1. PICK j \in DOMAIN decoded : decoded[j].ts = LastPicture
    BY <1>2 DEF PicturesDecoded, IsPicture
  <2> QED
    BY <2>1, DecodedMedia, MediaIsList
<1> QED
  BY <1>1, <1>2

LEMMA InitClient == ClientInit => ClientInv
<1> SUFFICES ASSUME ClientInit PROVE ClientInv
  OBVIOUS
<1>1. Init /\ m_Image = 0 /\ screen = 0 /\ pausedAt = 0 /\ m_kPlayState = "RPS_IDLE"
  BY DEF ClientInit
<1>2. DeliveryInv
  BY <1>1, InitDelivers
<1>3. shown = << >> /\ LastPicture = 0
  BY <1>1 DEF Init, LastPicture
<1>4. PicturesDecoded
  <2>1. shown \in Seq(Nat) /\ Len(shown) = 0
    BY <1>3
  <2>2. shown = [i \in 1 .. 0 |-> shown[i]]
    BY <1>3
  <2> QED
    BY <1>3, <2>2 DEF PicturesDecoded, IsList
<1>5. WindowInv /\ PauseFreezes /\ ScreenUpToDate
  BY <1>1, <1>3 DEF WindowInv, PauseFreezes, ScreenUpToDate
<1> QED
  BY <1>2, <1>4, <1>5 DEF ClientInv

(* The window: it takes the picture of a datagram, unless it is paused. *)
LEMMA WindowTakes ==
  ASSUME FirstSeqAheadOfZero, ShapesFit, PayloadsFit, FirstCycle, Reach # 0,
         ClientInv, DeliveryInv', readPendingDatagrams
  PROVE  PicturesDecoded' /\ WindowInv' /\ PauseFreezes' /\ ScreenUpToDate'
<1>1. /\ DeliveryInv /\ PicturesDecoded /\ WindowInv /\ PauseFreezes /\ ScreenUpToDate
      /\ TypeOK
  BY DEF ClientInv, DeliveryInv, OneFrameInv, PoppedInv, ExactInv
<1>2. EmitsNewer(decoded, shown, decoded', shown')
  <2>1. ReceiveInOrder
    BY DEF readPendingDatagrams
  <2> QED
    BY <1>1, <2>1, InOrderInReach, ReceiveEmits
<1>3. PicturesDecoded'
  <2>1. IsList(shown') /\ (shown' # << >> => IsPicture(LastPicture', decoded'))
    BY <1>2 DEF EmitsNewer, LastPicture, Last
  <2> QED
    BY <2>1, Zenon DEF PicturesDecoded
<1>4. LastPicture \in Nat /\ LastPicture' \in Nat
  <2>1. LastPicture' \in Nat
    <3>1. LastPicture' = IF shown' = << >> THEN 0 ELSE shown'[Len(shown')]
      BY DEF LastPicture, Last
    <3>2. PICK pic : pic = LastPicture'
      OBVIOUS
    <3>3. shown' # << >> => IsPicture(pic, decoded')
      BY <1>3, <3>2, Zenon DEF PicturesDecoded
    <3>4. decoded' \in Seq(Media)
      BY Zenon DEF DeliveryInv, DecodedPopped
    <3>5. CASE shown' = << >>
      BY <3>1, <3>5
    <3>6. CASE shown' # << >>
      BY <3>2, <3>3, <3>4, <3>6, MediaIsList DEF IsPicture
    <3> QED
      BY <3>5, <3>6
  <2> QED
    BY <1>1, <2>1, LastPictureIs
<1>5. LastPicture' >= LastPicture /\ (shown' # shown => LastPicture' = Last(shown'))
  <2>1. CASE shown' = shown
    <3>1. LastPicture' = LastPicture
      BY <2>1 DEF LastPicture
    <3> QED
      BY <1>4, <2>1, <3>1
  <2>2. CASE shown' # shown
    BY <1>2, <2>2 DEF EmitsNewer, LastPicture, Last
  <2> QED
    BY <2>1, <2>2
<1>6. UNCHANGED << m_kPlayState, pausedAt >>
  BY DEF readPendingDatagrams, playVars
<1>7. CASE UNCHANGED pictureVars /\ (m_kPlayState = "RPS_IDLE" => shown' = shown)
  <2>1. m_Image' = m_Image /\ screen' = screen /\ dirty' = dirty
    BY <1>7 DEF pictureVars
  <2>2. m_kPlayState = "RPS_IDLE" => LastPicture' = LastPicture
    BY <1>7 DEF LastPicture
  <2> QED
    BY <1>1, <1>3, <1>4, <1>5, <1>6, <2>1, <2>2
       DEF WindowInv, PauseFreezes, ScreenUpToDate
<1>8. CASE /\ shown' # shown /\ m_kPlayState # "RPS_PAUSE"
           /\ m_Image' = Last(shown') /\ dirty' = TRUE /\ screen' = screen
  BY <1>1, <1>3, <1>4, <1>5, <1>6, <1>8 DEF WindowInv, PauseFreezes, ScreenUpToDate
<1>9. \/ UNCHANGED pictureVars /\ (m_kPlayState = "RPS_IDLE" => shown' = shown)
      \/ /\ shown' # shown /\ m_kPlayState # "RPS_PAUSE"
         /\ m_Image' = Last(shown') /\ dirty' = TRUE /\ screen' = screen
  BY DEF readPendingDatagrams, slotGetOneFrame
<1> QED
  BY <1>7, <1>8, <1>9

LEMMA ClientNextKeeps ==
  ASSUME FirstSeqAheadOfZero, ShapesFit, PayloadsFit, Reach # 0
  PROVE  ClientInv /\ FirstCycle /\ [ClientNext]_clientVars => ClientInv'
<1> SUFFICES ASSUME ClientInv, FirstCycle, [ClientNext]_clientVars PROVE ClientInv'
  OBVIOUS
<1>1. /\ DeliveryInv /\ PicturesDecoded /\ WindowInv /\ PauseFreezes /\ ScreenUpToDate
      /\ TypeOK
  BY DEF ClientInv, DeliveryInv, OneFrameInv, PoppedInv, ExactInv
<1>2. DeliveryInv'
  <2>1. [Next]_vars
    BY <1>1, ClientStepIsStep
  <2> QED
    BY <1>1, <2>1, NextDelivers
<1>3. LastPicture \in Nat
  BY <1>1, LastPictureIs
<1>4. ASSUME shown' = shown, decoded' = decoded
      PROVE  PicturesDecoded' /\ LastPicture' = LastPicture
  <2>1. LastPicture' = LastPicture
    BY <1>4 DEF LastPicture
  <2> QED
    BY <1>1, <1>4, <2>1, Zenon DEF PicturesDecoded
<1>5. CASE UNCHANGED << shown, decoded, m_Image, screen, dirty, m_kPlayState, pausedAt >>
  <2>1. PicturesDecoded' /\ LastPicture' = LastPicture
    BY <1>4, <1>5
  <2>2. WindowInv' /\ PauseFreezes' /\ ScreenUpToDate'
    BY <1>1, <1>5, <2>1 DEF WindowInv, PauseFreezes, ScreenUpToDate
  <2> QED
    BY <1>2, <2>1, <2>2, Zenon DEF ClientInv
<1>6. CASE readPendingDatagrams
  BY <1>2, <1>6, WindowTakes, Zenon DEF ClientInv
<1>7. CASE paintEvent
  <2>1. PicturesDecoded' /\ LastPicture' = LastPicture
    BY <1>4, <1>7 DEF paintEvent, vars, handlerVars
  <2>2. /\ screen' = m_Image /\ m_Image' = m_Image /\ dirty' = FALSE
        /\ m_kPlayState' = m_kPlayState /\ pausedAt' = pausedAt
    BY <1>7 DEF paintEvent, playVars
  <2>3. WindowInv' /\ PauseFreezes' /\ ScreenUpToDate'
    BY <1>1, <2>1, <2>2 DEF WindowInv, PauseFreezes, ScreenUpToDate
  <2> QED
    BY <1>2, <2>1, <2>3, Zenon DEF ClientInv
<1>8. ASSUME NEW checked \in BOOLEAN, on_pushButton_toggled(checked) PROVE ClientInv'
  <2>1. PicturesDecoded' /\ LastPicture' = LastPicture
    BY <1>4, <1>8 DEF on_pushButton_toggled, vars, handlerVars
  <2>2. /\ m_Image' = m_Image /\ screen' = screen /\ dirty' = dirty
        /\ m_kPlayState' # "RPS_IDLE"
        /\ m_kPlayState' = "RPS_PAUSE" => pausedAt' = LastPicture
    BY <1>8 DEF on_pushButton_toggled, pictureVars
  <2>3. WindowInv' /\ PauseFreezes' /\ ScreenUpToDate'
    BY <1>1, <2>1, <2>2 DEF WindowInv, PauseFreezes, ScreenUpToDate
  <2> QED
    BY <1>2, <2>1, <2>3, Zenon DEF ClientInv
<1>9. CASE MyPing \/ PeerSends \/ UNCHANGED clientVars
  <2>1. UNCHANGED << shown, decoded, m_Image, screen, dirty, m_kPlayState, pausedAt >>
    BY <1>9 DEF MyPing, PeerSends, SendFrame, SendAudio, clientVars, vars, handlerVars,
                pictureVars, playVars
  <2> QED
    BY <1>5, <2>1
<1> QED
  BY <1>6, <1>7, <1>8, <1>9 DEF ClientNext

(* Over the first cycle of the sequence numbers a paused window shows      *)
(* nothing that was emitted after the pause: not by a repaint that was     *)
(* pending when the button was pressed, and not by the frames that go on   *)
(* being decoded.                                                          *)
THEOREM PauseHolds ==
  ASSUME FirstSeqAheadOfZero, ShapesFit, PayloadsFit, Reach # 0
  PROVE  ClientSpec /\ []FirstCycle => []PauseFreezes
<1>1. ClientInv => PauseFreezes
  BY DEF ClientInv
<1> QED
  BY <1>1, InitClient, ClientNextKeeps, PTL DEF ClientSpec

(* A window that has nothing to repaint shows its image, and that is the   *)
(* last picture emitted as long as the user has not touched the button.    *)
THEOREM WindowFollows ==
  ASSUME FirstSeqAheadOfZero, ShapesFit, PayloadsFit, Reach # 0
  PROVE  ClientSpec /\ []FirstCycle => []ScreenUpToDate
<1>1. ClientInv => ScreenUpToDate
  BY DEF ClientInv
<1> QED
  BY <1>1, InitClient, ClientNextKeeps, PTL DEF ClientSpec

=============================================================================
