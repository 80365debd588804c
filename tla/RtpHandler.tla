----------------------------- MODULE RtpHandler -----------------------------
(***************************************************************************)
(* The receive path of the client, from a datagram to the picture:         *)
(* RtpHandler::HandleRtpPacket and DumpPacket (rtp/rtp_handler.cc) over    *)
(* the receiver, the unpacketizer and the decoder, driven by a network     *)
(* that loses, duplicates and reorders the peer's packets.                 *)
(*                                                                         *)
(* Everything runs in the Qt event loop's only thread, so one datagram is  *)
(* one step.                                                               *)
(***************************************************************************)
EXTENDS RtpReceiver, H264Unpacketizer, MediaSender

CONSTANTS
  VideoSsrc, AudioSsrc,  \* kDownlinkVideoSsrc and the audio SSRC
  NoSsrc,                \* upAudioSSRC, upVideoSSRC before the first packet
  FrameShapes,           \* the frames the encoder may produce
  StartPos,              \* first sequence number of every stream
  Reach,                 \* how far a datagram may be from the newest received
  MaxVideoFrames,        \* bound: frames sent
  MaxAudioPackets,       \* bound: audio packets sent
  DecoderMayFail         \* FFmpeg may report errors

Ssrcs == {VideoSsrc, AudioSsrc}

ASSUME HandlerAssumption ==
  /\ VideoSsrc # AudioSsrc
  /\ NoSsrc \notin Ssrcs
  /\ \A shape \in FrameShapes : IsFrameShape(shape)
  /\ Reach \in Nat /\ Reach < HalfSeq
  /\ StartPos \in SeqNumbers
  /\ MaxVideoFrames \in Nat /\ MaxAudioPackets \in Nat
  /\ DecoderMayFail \in BOOLEAN

VARIABLES
  sent,          \* sent[ssrc]: the packets of the stream so far
  newest,        \* newest[ssrc]: newest place received, before the first
                 \* packet the place before StartPos (history)
  ssrcInfoMap,   \* ssrcInfoMap_, one SSRCInfo per SSRC seen
  upAudioSSRC, upVideoSSRC,
  firstRtpVideoTs,
  decoder,       \* "null", "ready", or "broken" when InitDecoder failed
  decoded,       \* the frames handed to the decoder (history)
  shown,         \* the timestamps of the pictures emitted (history)
  aborted        \* the assert that ended the process, or NoAbort

handlerVars == << ssrcInfoMap, upAudioSSRC, upVideoSSRC, firstRtpVideoTs,
                  decoder, decoded, shown, aborted >>
vars == << sent, newest, handlerVars >>

NewSSRCInfo ==
  [biggestSeq |-> 0, biggestCycle |-> 0,
   rcv |-> NewReceiver, unp |-> NewUnpacketizer]

Init ==
  /\ sent = [s \in Ssrcs |-> << >>]
  /\ newest = [s \in Ssrcs |-> StartPos - 1]
  /\ ssrcInfoMap = << >>
  /\ upAudioSSRC = NoSsrc /\ upVideoSSRC = NoSsrc
  /\ firstRtpVideoTs = 0
  /\ decoder = "null"
  /\ decoded = << >> /\ shown = << >>
  /\ aborted = NoAbort

-----------------------------------------------------------------------------
(* The peer. *)

LastTs(s) == IF sent[s] = << >> THEN 0 ELSE Last(sent[s]).ts
NextPos(s) == StartPos + Len(sent[s])

SendFrame ==
  /\ LastTs(VideoSsrc) < MaxVideoFrames
  /\ \E shape \in FrameShapes :
       sent' = [sent EXCEPT ![VideoSsrc] =
                  @ \o FramePackets(shape, NextPos(VideoSsrc),
                                    LastTs(VideoSsrc) + 1)]
  /\ UNCHANGED << newest, handlerVars >>

SendAudio ==
  /\ LastTs(AudioSsrc) < MaxAudioPackets
  /\ sent' = [sent EXCEPT ![AudioSsrc] =
                @ \o << MediaPacket(NextPos(AudioSsrc),
                                    LastTs(AudioSsrc) + 1, FALSE, NoPayload) >>]
  /\ UNCHANGED << newest, handlerVars >>

-----------------------------------------------------------------------------
(* What CodecDecoder::InitDecoder and Decode (FFmpeg) may report. *)
DecoderOutcomes == IF DecoderMayFail THEN BOOLEAN ELSE {TRUE}

(* DumpPacket.  d holds what the calls of one HandleRtpPacket change; once *)
(* a call returns an error the rest of the group is not dumped.            *)

Decode(d, media, initOk, decodeOk) ==
  LET dec == IF d.decoder # "null" THEN d.decoder
             ELSE IF initOk THEN "ready" ELSE "broken"
  IN  IF d.decoder = "null" /\ ~initOk
      THEN [d EXCEPT !.decoder = dec, !.ret = -2]
      ELSE IF dec = "broken" THEN [d EXCEPT !.ret = -3]
      ELSE [d EXCEPT !.decoder = dec,
                     !.decoded = Append(@, media),
                     !.shown   = IF decodeOk THEN Append(@, media.ts) ELSE @,
                     !.ret     = IF decodeOk THEN 0 ELSE -3]

DumpVideo(d, p, initOk, decodeOk) ==
  LET r == Unpacketize(d.unp, p)
      e == [d EXCEPT !.unp = r.unp, !.ret = r.ret, !.abort = r.abort,
                     !.firstTs = IF @ = 0 THEN p.ts ELSE @]
  IN  IF r.abort # NoAbort \/ r.ret # 0 \/ r.media = << >> THEN e
      ELSE IF Len(r.media) # 1 THEN [e EXCEPT !.abort = "media.size() == 1"]
      ELSE Decode(e, r.media[1], initOk, decodeOk)

DumpAll(d, s, packets, initOk, decodeOk) ==
  FoldLeft(LAMBDA e, p :
             IF s # VideoSsrc \/ e.ret # 0 \/ e.abort # NoAbort THEN e
             ELSE DumpVideo(e, p, initOk, decodeOk),
           d, packets)

-----------------------------------------------------------------------------
(* HandleRtpPacket for packet p of SSRC s. *)

Info(s) == IF s \in DOMAIN ssrcInfoMap THEN ssrcInfoMap[s] ELSE NewSSRCInfo

UnwrapFor(s, p) == Unwrap(Info(s).biggestSeq, Info(s).biggestCycle, p.seq)

GetPowerSeq(s, p) == PowerSeq(UnwrapFor(s, p).itemCycle, p.seq)

(* Mutant: the check against lastPoppedPowerSeq_ is missing. *)
IgnoredNever(s, p) == FALSE

Ignored(s, p) == GetPowerSeq(s, p) < Info(s).rcv.lastPopped

StoreInfo(s, p, rcv, unp) ==
  ssrcInfoMap' = Put(ssrcInfoMap, s,
                     [biggestSeq   |-> UnwrapFor(s, p).biggestSeq,
                      biggestCycle |-> UnwrapFor(s, p).biggestCycle,
                      rcv |-> rcv, unp |-> unp])

(* Mutant: every packet sets upVideoSSRC. *)
NoteSsrcAlways(s, p) ==
  /\ upAudioSSRC' = IF s = AudioSsrc THEN s ELSE upAudioSSRC
  /\ upVideoSSRC' = s

NoteSsrc(s, p) ==
  /\ upAudioSSRC' = IF s = AudioSsrc THEN s ELSE upAudioSSRC
  /\ upVideoSSRC' = IF s = VideoSsrc /\ ~p.fec THEN s ELSE upVideoSSRC

IgnoreStale(s, p) ==
  /\ Ignored(s, p)
  /\ StoreInfo(s, p, Info(s).rcv, Info(s).unp)
  /\ UNCHANGED << firstRtpVideoTs, decoder, decoded, shown, aborted >>

PushAndDump(s, p) ==
  /\ ~Ignored(s, p)
  /\ LET popped == PushAndPop(Info(s).rcv, p, GetPowerSeq(s, p))
         before == [unp |-> Info(s).unp, firstTs |-> firstRtpVideoTs,
                    decoder |-> decoder, decoded |-> decoded, shown |-> shown,
                    ret |-> 0, abort |-> popped.abort]
     IN  \E initOk, decodeOk \in DecoderOutcomes :
           LET after == DumpAll(before, s, popped.out, initOk, decodeOk)
           IN  /\ StoreInfo(s, p, popped.rcv, after.unp)
               /\ firstRtpVideoTs' = after.firstTs
               /\ decoder' = after.decoder
               /\ decoded' = after.decoded
               /\ shown' = after.shown
               /\ aborted' = after.abort

HandleRtpPacket(s, p) ==
  /\ aborted = NoAbort
  /\ NoteSsrc(s, p)
  /\ IgnoreStale(s, p) \/ PushAndDump(s, p)

-----------------------------------------------------------------------------
(* The network delivers any packet within reach, in any order, any number  *)
(* of times or never.                                                      *)

Receive(s, p) ==
  /\ newest' = [newest EXCEPT ![s] = IF p.id > @ THEN p.id ELSE @]
  /\ HandleRtpPacket(s, p)
  /\ UNCHANGED sent

InReach(s, p) == newest[s] - Reach <= p.id /\ p.id <= newest[s] + Reach

ReceiveAny ==
  \E s \in Ssrcs : \E i \in DOMAIN sent[s] :
    InReach(s, sent[s][i]) /\ Receive(s, sent[s][i])

Next == SendFrame \/ SendAudio \/ ReceiveAny

Spec == Init /\ [][Next]_vars

(* A network that neither loses nor reorders. *)
ReceiveInOrder ==
  \E s \in Ssrcs : \E i \in DOMAIN sent[s] :
    sent[s][i].id = newest[s] + 1 /\ Receive(s, sent[s][i])

LosslessNext == SendFrame \/ SendAudio \/ ReceiveInOrder

(* The fairness of the event loop: while a datagram is pending (and the    *)
(* process alive) readPendingDatagrams takes it off the socket.  The       *)
(* action is what ReceiveInOrder does to newest.                           *)
TakeDatagram ==
  /\ aborted = NoAbort
  /\ \E s \in Ssrcs : \E i \in DOMAIN sent[s] :
       /\ sent[s][i].id = newest[s] + 1
       /\ newest' = [newest EXCEPT ![s] = @ + 1]

-----------------------------------------------------------------------------
(* What was sent and received, in terms of the properties below. *)

Units(packets) ==
  FoldLeft(LAMBDA units, p :
             units \o [i \in DOMAIN p.payload.nalus |->
                         << p.payload.nalus[i], p.id >>],
           << >>, packets)

FrameData(ts) ==
  LET stream == sent[VideoSsrc]
  IN  InOrder(stream, {i \in DOMAIN stream : stream[i].ts = ts /\ ~stream[i].fec})

FrameUnits == [ts \in 1 .. LastTs(VideoSsrc) |-> Units(FrameData(ts))]

(* The units of a decoded frame without the parameter sets put in front.   *)
OwnUnits(media) ==
  IF media.bIFrame THEN SubSeq(media.rawData, 3, Len(media.rawData))
                   ELSE media.rawData

(* What the extension of sequence numbers takes for granted of a stream:   *)
(* its first packet received is ahead of the initial biggestSeq, 0.        *)
FirstSeqAheadOfZero == StartPos - 1 + Reach <= HalfSeq

Streams == {s \in Ssrcs : s \in DOMAIN ssrcInfoMap}

-----------------------------------------------------------------------------
(* Type invariant of what one datagram changes directly.  (decoder and the *)
(* histories are the results of DumpAll's fold over a popped group.)       *)
TypeOK ==
  /\ sent \in [Ssrcs -> Seq(Packets)]
  /\ newest \in [Ssrcs -> Nat \cup {-1}]
  /\ DOMAIN ssrcInfoMap \subseteq Ssrcs
  /\ \A s \in Streams :
       /\ ssrcInfoMap[s].biggestSeq \in SeqNumbers
       /\ ssrcInfoMap[s].biggestCycle \in Nat
       /\ DOMAIN ssrcInfoMap[s].rcv.jitter \subseteq Nat
       /\ \A k \in DOMAIN ssrcInfoMap[s].rcv.jitter :
            ssrcInfoMap[s].rcv.jitter[k] \in Packets
       /\ ssrcInfoMap[s].rcv.lastPopped \in SeqNumbers \cup {-1}
  /\ upAudioSSRC \in {AudioSsrc, NoSsrc}
  /\ upVideoSSRC \in {VideoSsrc, NoSsrc}

(* As long as no packet is further than half the number space from the     *)
(* newest one, HandleRtpPacket extends every 16-bit number to the packet's *)
(* true place in the stream, over any number of wrap-arounds: the newest   *)
(* number is right, and so is the key of everything in the jitter buffer.  *)
UnwrapExact ==
  \A s \in Streams :
    LET info == ssrcInfoMap[s]
    IN  /\ PowerSeq(info.biggestCycle, info.biggestSeq) = newest[s]
        /\ \A k \in DOMAIN info.rcv.jitter : info.rcv.jitter[k].id = k

(* DumpPacket's assert(media.size() == 1) rests on the FEC packets, which  *)
(* use up sequence numbers the unpacketizer never sees: the gap before     *)
(* each group clears what an earlier group left.                           *)
AtMostOneFrame ==
  \A s \in Streams : Len(ssrcInfoMap[s].unp.frames) <= 1

(* What the receiver has popped is gone for good: nothing at or below      *)
(* lastPoppedPowerSeq_ is ever in the jitter buffer again.                 *)
JitterAfterPopped ==
  \A s \in Streams :
    \A k \in DOMAIN ssrcInfoMap[s].rcv.jitter :
      k > ssrcInfoMap[s].rcv.lastPopped

(* No assert of the receive path fails, whatever the network loses,        *)
(* repeats or reorders.                                                    *)
NoAssertFails == aborted = NoAbort

(* The position up to which the receiver has popped never moves back.      *)
NeverPopsBack ==
  [][\A s \in Streams :
       ssrcInfoMap'[s].rcv.lastPopped >= ssrcInfoMap[s].rcv.lastPopped]_vars

(* The receive path implements FrameDelivery: what the decoder is given is *)
(* a subsequence of the frames sent, each with exactly its own NAL units.  *)
FD == INSTANCE FrameDelivery
        WITH produced <- FrameUnits,
             delivered <- [i \in DOMAIN decoded |->
                             << decoded[i].ts, OwnUnits(decoded[i]) >>]

DeliversFrames == FD!Spec

(* A frame whose data packets have all arrived when its last FEC packet    *)
(* does is handed to the decoder, its other FEC packets being redundant.   *)
DataOf(ts) == Range(FrameData(ts))

PopsFrame(ts) ==
  /\ VideoSsrc \in Streams
  /\ ssrcInfoMap[VideoSsrc].rcv.lastTs # ts
  /\ ssrcInfoMap'[VideoSsrc].rcv.lastTs = ts

CompleteDataDelivered ==
  [][\A ts \in 1 .. LastTs(VideoSsrc) :
       /\ PopsFrame(ts)
       /\ DataOf(ts) \subseteq Range(ssrcInfoMap[VideoSsrc].rcv.jitter)
       => \E i \in DOMAIN decoded' : decoded'[i].ts = ts]_vars

(* The decoder can start at every key frame it is handed: before an IDR    *)
(* slice stand an SPS and a PPS in the same frame, whether the peer sent   *)
(* them in it or in an earlier one ("add SPS, PPS before I frame",         *)
(* rtp_to_h264.cc:109).  Only of a frame that opens with one of the three; *)
(* behind supplemental information the code adds none.                     *)
IdrCarriesParams ==
  \A i \in DOMAIN decoded : \A n \in DOMAIN decoded[i].rawData :
    /\ decoded[i].rawData[n][1] = "idr"
    /\ decoded[i].rawData[1][1] \in {"idr", "sps", "pps"}
    => {"sps", "pps"} \subseteq {decoded[i].rawData[m][1] : m \in 1 .. n - 1}

(* An honest packet is never older than the first cycle, however late it   *)
(* is ("should not reach here unless hacker attacks us",                   *)
(* rtp_handler.cc:605-607), if the first one is AheadOf 0.                 *)
NothingBeforeFirstCycle ==
  \A s \in Streams : \A i \in DOMAIN sent[s] :
    LET p == sent[s][i]
    IN  InReach(s, p) /\ p.seq > Info(s).biggestSeq
        /\ ~AheadOf(p.seq, Info(s).biggestSeq) => Info(s).biggestCycle > 0

(* The single asserts that the findings are about.                         *)
NeverBehindExpectedSeq == aborted # SeqBehind
ProtectedRangeNotEmpty == aborted # "dataLenBegin < dataLenEnd"

(* On a network that loses and reorders nothing, every frame sent reaches  *)
(* the decoder.                                                            *)
EveryFrameDecoded ==
  \A ts \in 1 .. MaxVideoFrames :
    (LastTs(VideoSsrc) >= ts) ~> (\E i \in DOMAIN decoded : decoded[i].ts = ts)

=============================================================================
