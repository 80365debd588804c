----------------------------- MODULE Connections ----------------------------
(***************************************************************************)
(* The life of the connections of several clients: PCManager, the packets  *)
(* a PeerConnection handles, and RtcpHandler::HandleRtcpPacket             *)
(* (rtp/rtcp/rtcp_handler.cc), which hands the feedback of one client to   *)
(* its peer.  What calls these functions (a server's loop, its signalling, *)
(* its timer) is not in this repository: the actions below call them from  *)
(* one thread, and the timer cleans up at least once every CleanPeriod.    *)
(* Neither is what moves stateMachine_ to GOT_RTP: the action GotRtp does  *)
(* it at any time to any connection that has received a packet, of video   *)
(* or not.                                                                 *)
(*                                                                         *)
(* A client's video SSRC is its number.  A packet of feedback is a         *)
(* sequence of parts, each of a kind; "truncated" is a last part whose     *)
(* length field goes beyond the datagram.                                  *)
(***************************************************************************)
EXTENDS PCManager, Sequences

CONSTANTS
  Start,         \* the clock of a server that starts is far from zero
  MaxTime,       \* bound on the clock
  CleanPeriod,   \* the longest time between two clean-ups
  Compounds      \* the packets of feedback the clients send

Kinds == {"NACK", "TCC", "PLI", "SLI", "FIR", "RPSI", "REMB", "other", "truncated"}

ASSUME ConnectionsAssumption ==
  /\ Start \in Nat /\ MaxTime \in Nat /\ CleanPeriod \in Nat
  /\ Start > kPCDeadTimeoutMs
  /\ Compounds \subseteq Seq(Kinds)

ASSUME TruncatedIsLast ==
  \A parts \in Compounds : \A i \in DOMAIN parts : parts[i] = "truncated" => i = Len(parts)

VARIABLES
  now,          \* g_now_ms
  client2PC,    \* PCManager::client2PC_
  lastClean,    \* when the timer cleaned up last
  heardAt,      \* when each client was heard of last (0: never)
  withVideo,    \* who has sent video and not been silent past the time-out since
  forwarded,    \* the feedback just handed to a peer: a set of at most one
  failed        \* the peer on which an assert has ended the process, if any

vars == << now, client2PC, lastClean, heardAt, withVideo, forwarded, failed >>

Init ==
  /\ now = Start
  /\ client2PC = [c \in {} |-> PeerConnection(Start)]
  /\ lastClean = Start
  /\ heardAt = [c \in Clients |-> 0]
  /\ withVideo = {}
  /\ forwarded = {}
  /\ failed = {}

HeardWithin(a, t) == heardAt[a] + kPCDeadTimeoutMs >= t

Tick ==
  /\ now < MaxTime
  /\ now - lastClean < CleanPeriod
  /\ now' = now + 1
  /\ withVideo' = {c \in withVideo : HeardWithin(c, now + 1)}
  /\ forwarded' = {}
  /\ UNCHANGED << client2PC, lastClean, heardAt, failed >>

Clean ==
  /\ client2PC' = CleanTimeoutPeerConnection(client2PC, now)
  /\ lastClean' = now
  /\ forwarded' = {}
  /\ UNCHANGED << now, heardAt, withVideo, failed >>

(* Signalling: a connection is made for every candidate address. *)
GotCandidate(a) ==
  /\ client2PC' = GetPeerConnection(client2PC, a, now)
  /\ forwarded' = {}
  /\ UNCHANGED << now, lastClean, heardAt, withVideo, failed >>

(* Outside the repository: a connection that has received a packet gets    *)
(* its media.                                                              *)
GotRtp(a) ==
  /\ a \in DOMAIN client2PC
  /\ client2PC[a].lastActiveTimeMs > 0 /\ client2PC[a].stateMachine # "GOT_RTP"
  /\ client2PC' = [client2PC EXCEPT ![a].stateMachine = "GOT_RTP"]
  /\ forwarded' = {}
  /\ UNCHANGED << now, lastClean, heardAt, withVideo, failed >>

-----------------------------------------------------------------------------
(* HandlePacket(pcs, a): every packet of a client, of whatever type, keeps *)
(* its connection alive.                                                   *)
HandlePacket(pcs, a) == [pcs EXCEPT ![a].lastActiveTimeMs = now]

Connected(a) == HandlePacket(GetPeerConnection(client2PC, a, now), a)

Heard(a) == heardAt' = [heardAt EXCEPT ![a] = now]

(* A packet of the client's video, not of its FEC. *)
Video(a) ==
  /\ client2PC' = [Connected(a) EXCEPT ![a].upVideoSSRC = a]
  /\ Heard(a)
  /\ withVideo' = withVideo \cup {a}
  /\ forwarded' = {}
  /\ UNCHANGED << now, lastClean, failed >>

(* Audio, FEC, and what is not RTP at all. *)
OtherPacket(a) ==
  /\ client2PC' = Connected(a)
  /\ Heard(a)
  /\ forwarded' = {}
  /\ UNCHANGED << now, lastClean, withVideo, failed >>

-----------------------------------------------------------------------------
(* The parts the loop of HandleRtcpPacket reaches: it leaves the loop at a *)
(* truncated part and the function at a NACK.                              *)
Reached(parts) ==
  {i \in DOMAIN parts : \A j \in 1 .. i : parts[j] # "truncated" /\ (j < i => parts[j] # "NACK")}

KeyframeRequests == {"PLI", "SLI", "FIR"}

(* Mutant: only the first part is looked at. *)
RewrittenFirst(parts) == Reached(parts) \cap {1}

(* The parts whose media SSRC is replaced by the peer's. *)
Rewritten(parts) == {i \in Reached(parts) : parts[i] \in KeyframeRequests}

HandleRtcpPacket(a, parts) ==
  LET pcs == Connected(a)
      peer == FindPeerPC(pcs, a)
      noVideo == {p \in peer : pcs[p].upVideoSSRC = 0 /\ Rewritten(parts) # {}}
      answered == \E i \in Reached(parts) : parts[i] = "NACK"
  IN  /\ client2PC' = pcs
      /\ Heard(a)
      /\ failed' = noVideo
      /\ forwarded' =
           IF noVideo # {} \/ answered THEN {}
           ELSE {[from |-> a, to |-> p, parts |-> parts,
                  media |-> [i \in Rewritten(parts) |-> pcs[p].upVideoSSRC]] : p \in peer}
      /\ UNCHANGED << now, lastClean, withVideo >>

Packet(a) ==
  Video(a) \/ OtherPacket(a) \/ \E parts \in Compounds : HandleRtcpPacket(a, parts)

Next ==
  /\ failed = {}
  /\ Tick \/ Clean \/ \E a \in Clients : GotCandidate(a) \/ GotRtp(a) \/ Packet(a)

Spec == Init /\ [][Next]_vars

(* The timer keeps cleaning. *)
FairSpec == Spec /\ WF_vars(failed = {} /\ Tick) /\ WF_vars(failed = {} /\ Clean)

-----------------------------------------------------------------------------
(* Types. *)
TypeOK ==
  /\ now \in Nat /\ lastClean \in Nat
  /\ DOMAIN client2PC \subseteq Clients
  /\ \A c \in DOMAIN client2PC :
       client2PC[c] \in [stateMachine : {"GOT_CANDIDATE", "GOT_RTP"}, initTimeMs : Nat,
                         lastActiveTimeMs : Nat, upVideoSSRC : {0, c}]
  /\ heardAt \in [Clients -> Nat]
  /\ withVideo \subseteq Clients /\ failed \subseteq Clients

(* The assert of HandleRtcpPacket on the peer's video SSRC never fails on  *)
(* a client that has sent video and not been silent for longer than the    *)
(* time-out since: no order of signalling, packets and clean-ups loses the *)
(* SSRC its connection has noted.  On another client it can fail: the      *)
(* peer is chosen by its state, and the state does not say that video has  *)
(* come.                                                                   *)
AssertHoldsWithVideo == failed \cap withVideo = {}

(* A client heard of less than the timeout ago keeps its connection, and   *)
(* with it the streams it received: no order of signalling, packets and    *)
(* clean-ups makes a new one for it.                                       *)
Recent(a) == heardAt[a] > 0 /\ HeardWithin(a, now)

ActiveConnectionKept ==
  [][\A a \in Clients :
       Recent(a) /\ Recent(a)' =>
         /\ a \in DOMAIN client2PC /\ a \in DOMAIN client2PC'
         /\ client2PC'[a].initTimeMs = client2PC[a].initTimeMs
         /\ client2PC[a].upVideoSSRC # 0 => client2PC'[a].upVideoSSRC # 0]_vars

(* Feedback is handed to another client that is still there: one heard of  *)
(* at most the timeout and one period of the clean-up ago.                 *)
FeedbackReachesLivePeer ==
  \A f \in forwarded :
    /\ f.to # f.from
    /\ now - heardAt[f.to] <= kPCDeadTimeoutMs + CleanPeriod

(* In the packet handed on, every request for a key frame, wherever it     *)
(* stands in the compound, names the video of the client it goes to.       *)
RequestsNameTheirSource ==
  \A f \in forwarded : \A i \in DOMAIN f.parts :
    f.parts[i] \in KeyframeRequests => i \in DOMAIN f.media /\ f.media[i] = f.to

(* Two clients that have media are each other's peer as long as no third   *)
(* one has; a client without media that waits for the same peer, or a      *)
(* connection made only for a candidate address, does not come between.    *)
WithMedia == {c \in DOMAIN client2PC : client2PC[c].stateMachine = "GOT_RTP"}

PeersOfEachOther ==
  \A a, b \in WithMedia :
    a # b /\ WithMedia = {a, b} => FindPeerPC(client2PC, a) = {b} /\ FindPeerPC(client2PC, b) = {a}

(* A client that has gone silent does not keep its connection. *)
SilentConnectionRemoved ==
  \A a \in Clients :
    (heardAt[a] > 0 /\ ~HeardWithin(a, now))
      ~> (a \notin DOMAIN client2PC \/ Recent(a) \/ failed # {})

=============================================================================
