------------------------------- MODULE Client -------------------------------
(***************************************************************************)
(* The whole client: the receive path of RtpHandler between the sender of  *)
(* the pings (VideoPlayer::startPlay, UdpServer) and the window            *)
(* (mainwindow.cpp).  Everything runs in the thread of the Qt event loop:  *)
(* UdpServer and VideoPlayer are QThreads, but no work is done in theirs.  *)
(* sig_GetOneFrame is therefore delivered by a direct call, in the step of *)
(* the datagram that completes the frame; timers, the button and repaints  *)
(* are events of their own.                                                *)
(*                                                                         *)
(* A picture is the timestamp of its frame; 0 stands for none.             *)
(***************************************************************************)
EXTENDS RtpHandler

VARIABLES
  timers,       \* the ping timers startPlay has started
  pinged,       \* a ping was sent: UdpServer exists, the peer knows us
  m_kPlayState,
  m_Image,
  dirty,        \* update() was called, the window is not painted yet
  screen,       \* the picture in the window
  pausedAt      \* the last picture emitted when PAUSE was entered (history)

pictureVars == << m_Image, dirty, screen >>
playVars == << timers, pinged, m_kPlayState, pausedAt >>
clientVars == << vars, pictureVars, playVars >>

LastPicture == IF shown = << >> THEN 0 ELSE Last(shown)

(* The constructor of MainWindow already starts to play. *)
ClientInit ==
  /\ Init
  /\ timers = 1
  /\ pinged = FALSE
  /\ m_kPlayState = "RPS_IDLE"
  /\ m_Image = 0 /\ dirty = FALSE /\ screen = 0
  /\ pausedAt = 0

(* A timer fires: MyPing makes the socket if need be and sends a ping. *)
MyPing ==
  /\ timers > 0
  /\ pinged' = TRUE
  /\ UNCHANGED << vars, pictureVars, timers, m_kPlayState, pausedAt >>

(* The peer streams to the address a ping came from. *)
PeerSends ==
  /\ pinged
  /\ SendFrame \/ SendAudio
  /\ UNCHANGED << pictureVars, playVars >>

(* Mutants: a picture is taken in any state, or only in RUNNING; the       *)
(* window is not told to paint it.                                         *)
slotGetOneFrameAlways(img) == m_Image' = img /\ dirty' = TRUE /\ UNCHANGED screen
slotGetOneFrameRunning(img) ==
  IF m_kPlayState # "RPS_RUNNING" THEN UNCHANGED pictureVars
  ELSE m_Image' = img /\ dirty' = TRUE /\ UNCHANGED screen
slotGetOneFrameUnpainted(img) ==
  IF m_kPlayState = "RPS_PAUSE" THEN UNCHANGED pictureVars
  ELSE m_Image' = img /\ UNCHANGED << dirty, screen >>

slotGetOneFrame(img) ==
  IF m_kPlayState = "RPS_PAUSE" THEN UNCHANGED pictureVars
  ELSE m_Image' = img /\ dirty' = TRUE /\ UNCHANGED screen

(* A datagram, with the picture it may complete. *)
readPendingDatagrams ==
  /\ pinged
  /\ ReceiveInOrder
  /\ IF shown' = shown THEN UNCHANGED pictureVars ELSE slotGetOneFrame(Last(shown'))
  /\ UNCHANGED playVars

paintEvent ==
  /\ dirty
  /\ screen' = m_Image
  /\ dirty' = FALSE
  /\ UNCHANGED << vars, playVars, m_Image >>

(* Mutant: the state before the first frame is IDLE again after a pause. *)
on_pushButton_toggledIdle(checked) ==
  /\ checked <=> m_kPlayState # "RPS_RUNNING"
  /\ m_kPlayState' = IF checked THEN "RPS_RUNNING" ELSE "RPS_IDLE"
  /\ timers' = IF checked /\ m_kPlayState = "RPS_IDLE" THEN timers + 1 ELSE timers
  /\ timers' < 4
  /\ pausedAt' = IF checked THEN 0 ELSE LastPicture
  /\ UNCHANGED << vars, pictureVars, pinged >>

(* The button: pressed for the first time it starts to play once more, and *)
(* with it a second timer.  It is checked in RUNNING only.                 *)
on_pushButton_toggled(checked) ==
  /\ checked <=> m_kPlayState # "RPS_RUNNING"
  /\ m_kPlayState' = IF checked THEN "RPS_RUNNING" ELSE "RPS_PAUSE"
  /\ timers' = IF checked /\ m_kPlayState = "RPS_IDLE" THEN timers + 1 ELSE timers
  /\ pausedAt' = IF checked THEN 0 ELSE LastPicture
  /\ UNCHANGED << vars, pictureVars, pinged >>

ClientNext ==
  \/ MyPing \/ PeerSends \/ readPendingDatagrams \/ paintEvent
  \/ \E checked \in BOOLEAN : on_pushButton_toggled(checked)

(* The event loop reads a pending datagram and paints a dirty window. *)
ClientSpec ==
  /\ ClientInit /\ [][ClientNext]_clientVars
  /\ WF_newest(TakeDatagram) /\ WF_clientVars(paintEvent)

-----------------------------------------------------------------------------
(* However often the user pauses and plays, no more than two timers send   *)
(* pings: the one of the constructor and the one of the first press.       *)
TwoPingTimers == timers = 1 + IF m_kPlayState = "RPS_IDLE" THEN 0 ELSE 1

(* A paused window shows nothing that was emitted after the pause, also    *)
(* when a repaint was pending, or frames were emitted, meanwhile.          *)
PauseFreezes ==
  m_kPlayState = "RPS_PAUSE" => m_Image <= pausedAt /\ screen <= pausedAt

(* A window with no repaint pending shows the image it holds, and that is  *)
(* the last one emitted unless the user has paused since.                  *)
ScreenUpToDate ==
  /\ ~dirty => screen = m_Image
  /\ m_kPlayState = "RPS_IDLE" => m_Image = LastPicture

(* On a lossless network every frame on its way, or a later one, comes to  *)
(* the screen, if the user does not pause meanwhile.                       *)
EveryFrameShown ==
  \A ts \in 1 .. MaxVideoFrames :
    (LastTs(VideoSsrc) >= ts /\ LastPicture < ts)
      ~> (screen >= ts \/ m_kPlayState = "RPS_PAUSE")

=============================================================================
