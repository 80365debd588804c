------------------------- MODULE RtpDepacketizerVp8 -------------------------
(***************************************************************************)
(* RtpDepacketizerVp8::VideoUnPackVp8RtpStm (pack_unpack/rtp_to_vp8.cc):   *)
(* VP8 frames put together from the packets the receiver pops, which come  *)
(* in order, each once, but with gaps.                                     *)
(*                                                                         *)
(* A payload is one unit of raw data, the id of its packet: its true place *)
(* in the stream, which the code does not see.                             *)
(***************************************************************************)
EXTENDS SeqNum, Sequences, SequencesExt, Functions

CONSTANTS
  VP8RawDataLen,   \* VP8_RAW_DATA_LEN, in payloads
  FrameLengths,    \* of the frames the encoder may produce, in packets
  Fillers,         \* what may be sent between two frames
  Reach,           \* how far a packet may be behind the one before it
  MaxFrames,       \* bound: frames sent
  MaxFillers,      \* bound: fillers sent
  DecoderMayFail   \* FFmpeg may report errors or give no picture

(* Fillers: a probe of nothing but padding, a VP8 descriptor without a     *)
(* payload, a key frame's first packet too short for the frame header.     *)
FillerKinds == {"padding", "empty", "short"}

ASSUME Vp8Assumption ==
  /\ VP8RawDataLen \in Nat
  /\ FrameLengths \subseteq Nat \ {0}
  /\ Fillers \subseteq FillerKinds
  /\ Reach \in Nat /\ Reach < SeqSpan
  /\ MaxFrames \in Nat /\ MaxFillers \in Nat
  /\ DecoderMayFail \in BOOLEAN

VARIABLES
  sent,           \* the stream so far
  taken,          \* the places handed to the depacketizer (history)
  newest,         \* the last of them, 0 before the first (history)
  PackSeqNo,      \* last number accepted, or NoSeq (0xFFFFFFFF)
  RequestKeyFrame,
  is_key_frame,
  sized,          \* Width_ and Height_ are set
  Vp8RawData,     \* m_Vp8RawData up to m_RawDataLen
  decoder,        \* "null", "ready", or "broken" when InitDecoder failed
  decoded,        \* the raw data of every picture (history)
  aborted         \* an assert has ended the process

vp8Vars == << PackSeqNo, RequestKeyFrame, is_key_frame, sized, Vp8RawData,
              decoder, decoded, aborted >>
vars == << sent, taken, newest, vp8Vars >>

NoSeq == -1

Packets ==
  [id : Nat, seq : SeqNumbers, kind : {"data"} \cup FillerKinds,
   first : BOOLEAN, key : BOOLEAN, marker : BOOLEAN, frame : Nat]

Init ==
  /\ sent = << >> /\ taken = {} /\ newest = 0
  /\ PackSeqNo = NoSeq /\ RequestKeyFrame = TRUE
  /\ is_key_frame = FALSE /\ sized = FALSE
  /\ Vp8RawData = << >>
  /\ decoder = "null" /\ decoded = << >>
  /\ aborted = FALSE

-----------------------------------------------------------------------------
(* The peer. *)

FramesSent == IF sent = << >> THEN 0 ELSE Last(sent).frame

FramePackets(n, isKey) ==
  [i \in 1 .. n |->
     [id |-> Len(sent) + i, seq |-> (Len(sent) + i) % SeqSpan,
      kind |-> "data", first |-> i = 1, key |-> isKey, marker |-> i = n,
      frame |-> FramesSent + 1]]

SendFrame ==
  /\ FramesSent < MaxFrames
  /\ \E n \in FrameLengths, isKey \in BOOLEAN :
       sent' = sent \o FramePackets(n, isKey)
  /\ UNCHANGED << taken, newest, vp8Vars >>

FillersSent == Cardinality({i \in DOMAIN sent : sent[i].kind # "data"})

SendFiller ==
  /\ FillersSent < MaxFillers
  /\ \E k \in Fillers :
       sent' = Append(sent,
                 [id |-> Len(sent) + 1, seq |-> (Len(sent) + 1) % SeqSpan,
                  kind |-> k, first |-> k = "short", key |-> k = "short",
                  marker |-> FALSE, frame |-> FramesSent])
  /\ UNCHANGED << taken, newest, vp8Vars >>

-----------------------------------------------------------------------------
(* VideoUnPackVp8RtpStm, return by return. *)

Padding(p) ==
  /\ p.kind = "padding"
  /\ PackSeqNo' = p.seq
  /\ UNCHANGED << RequestKeyFrame, is_key_frame, sized, Vp8RawData, decoder,
                  decoded, aborted >>

EmptyPayload(p) ==
  /\ p.kind = "empty"
  /\ UNCHANGED << PackSeqNo, RequestKeyFrame, is_key_frame, sized, Vp8RawData,
                  decoder, decoded, aborted >>

ShortKeyFrame(p) ==
  /\ p.kind = "short"
  /\ is_key_frame' = TRUE
  /\ UNCHANGED << PackSeqNo, RequestKeyFrame, sized, Vp8RawData, decoder,
                  decoded, aborted >>

(* The P bit is read at the beginning of the first partition only.         *)
StartsKeyFrame(p) == p.kind = "data" /\ p.first /\ p.key

KeySeen(p) == is_key_frame \/ StartsKeyFrame(p)

(* Mutant: any frame will do after a loss. *)
WaitsForKeyNever(p) == FALSE

WaitsForKey(p) == RequestKeyFrame /\ ~KeySeen(p)

AwaitKeyFrame(p) ==
  /\ p.kind = "data" /\ WaitsForKey(p)
  /\ UNCHANGED << PackSeqNo, RequestKeyFrame, is_key_frame, sized, Vp8RawData,
                  decoder, decoded, aborted >>

(* A key frame that was asked for resets PackSeqNo: no loss is counted.    *)
LostPktCnt(p) ==
  IF RequestKeyFrame \/ PackSeqNo = NoSeq
  THEN 0
  ELSE (p.seq - PackSeqNo - 1 + SeqSpan) % SeqSpan

(* Mutants: the raw data of the broken frame is kept; no key frame is      *)
(* waited for.                                                             *)
DropFrameKeepsData(p) ==
  /\ RequestKeyFrame' = TRUE /\ is_key_frame' = FALSE
  /\ UNCHANGED Vp8RawData

DropFrameGoesOn(p) ==
  /\ Vp8RawData' = << >> /\ is_key_frame' = FALSE
  /\ UNCHANGED RequestKeyFrame

DropFrame(p) ==
  /\ RequestKeyFrame' = TRUE /\ is_key_frame' = FALSE
  /\ Vp8RawData' = << >>

LosePackets(p) ==
  /\ p.kind = "data" /\ ~WaitsForKey(p) /\ LostPktCnt(p) > 0
  /\ sized' = (sized \/ StartsKeyFrame(p))
  /\ DropFrame(p)
  /\ UNCHANGED << PackSeqNo, decoder, decoded, aborted >>

Abort ==
  /\ aborted' = TRUE
  /\ UNCHANGED << PackSeqNo, RequestKeyFrame, is_key_frame, sized, Vp8RawData,
                  decoder, decoded >>

(* What the rest of the function does with any packet that fits.           *)
Accepted(p) ==
  /\ PackSeqNo' = p.seq
  /\ RequestKeyFrame' = FALSE
  /\ sized' = (sized \/ StartsKeyFrame(p))

MiddleOfFrame(p) ==
  /\ ~p.marker
  /\ Accepted(p)
  /\ is_key_frame' = KeySeen(p)
  /\ Vp8RawData' = Append(Vp8RawData, p.id)
  /\ UNCHANGED << decoder, decoded, aborted >>

(* The frame cannot be decoded: InitDecoder fails, or Decode gives no      *)
(* picture (always so after a failed InitDecoder).                         *)
DecodeFails(p) ==
  /\ DecoderMayFail
  /\ decoder' \in IF decoder = "null" THEN {"ready", "broken"} ELSE {decoder}
  /\ is_key_frame' = KeySeen(p)
  /\ Vp8RawData' = Append(Vp8RawData, p.id)
  /\ UNCHANGED decoded

(* Mutant: the raw data is not cleared after a frame. *)
DecodesKeepsData(p) ==
  /\ decoder # "broken" /\ decoder' = "ready"
  /\ decoded' = Append(decoded, Append(Vp8RawData, p.id))
  /\ Vp8RawData' = Append(Vp8RawData, p.id) /\ is_key_frame' = FALSE

Decodes(p) ==
  /\ decoder # "broken" /\ decoder' = "ready"
  /\ decoded' = Append(decoded, Append(Vp8RawData, p.id))
  /\ Vp8RawData' = << >> /\ is_key_frame' = FALSE

EndOfFrame(p) ==
  /\ p.marker
  /\ Accepted(p)
  /\ Decodes(p) \/ DecodeFails(p)
  /\ UNCHANGED aborted

(* assert(!"too big shit") and assert(Width_ != 0 && Height_ != 0). *)
TooBig == Len(Vp8RawData) + 1 > VP8RawDataLen

Unsized(p) ==
  p.marker /\ decoder = "null" /\ ~sized /\ ~StartsKeyFrame(p)

Accept(p) ==
  /\ p.kind = "data" /\ ~WaitsForKey(p) /\ LostPktCnt(p) <= 0
  /\ IF TooBig \/ Unsized(p) THEN Abort ELSE MiddleOfFrame(p) \/ EndOfFrame(p)

VideoUnPackVp8RtpStm(p) ==
  \/ Padding(p)
  \/ EmptyPayload(p)
  \/ ShortKeyFrame(p)
  \/ AwaitKeyFrame(p)
  \/ LosePackets(p)
  \/ Accept(p)

-----------------------------------------------------------------------------
(* The receiver pops packets in order; some are never popped. *)

Pop ==
  /\ ~aborted
  /\ \E i \in newest + 1 .. newest + Reach :
       /\ i \in DOMAIN sent
       /\ taken' = taken \cup {i} /\ newest' = i
       /\ VideoUnPackVp8RtpStm(sent[i])
  /\ UNCHANGED sent

Next == SendFrame \/ SendFiller \/ Pop

Spec == Init /\ [][Next]_vars

-----------------------------------------------------------------------------
(* Type invariant. *)
TypeOK ==
  /\ sent \in Seq(Packets) /\ \A i \in DOMAIN sent : sent[i].id = i
  /\ taken \subseteq DOMAIN sent /\ newest \in {0} \cup taken
  /\ PackSeqNo \in SeqNumbers \cup {NoSeq}
  /\ RequestKeyFrame \in BOOLEAN /\ is_key_frame \in BOOLEAN /\ sized \in BOOLEAN
  /\ Vp8RawData \in Seq(taken)
  /\ decoder \in {"null", "ready", "broken"}
  /\ decoded \in Seq(Seq(taken))
  /\ aborted \in BOOLEAN

(* One packet after another, as far as the code can tell: padding takes    *)
(* over PackSeqNo unchecked and hides what was lost before it.             *)
Follows(a, b) == a < b /\ (b = a + 1 \/ sent[b - 1].kind = "padding")

(* The raw data of a frame and of every picture is a run of packets; the   *)
(* only loss that goes unnoticed is one in front of a padding packet.      *)
RawDataIsRun ==
  \A d \in Range(decoded) \cup {Vp8RawData} :
    \A i \in 1 .. Len(d) - 1 : Follows(d[i], d[i + 1])

(* After a loss nothing is decoded up to the next key frame: the raw data  *)
(* of a picture starts a key frame or follows the previous picture's.  And *)
(* none of it has been decoded before.                                     *)
ContinuesPicture(n, d) ==
  IF d = << >> THEN TRUE
  ELSE IF n = 0 THEN StartsKeyFrame(sent[d[1]])
  ELSE LET last == Last(decoded[n])
       IN  last < d[1] /\ (StartsKeyFrame(sent[d[1]]) \/ Follows(last, d[1]))

ReferencesDecoded ==
  /\ ContinuesPicture(Len(decoded), Vp8RawData)
  /\ \A n \in DOMAIN decoded : ContinuesPicture(n - 1, decoded[n])

(* What is decoded starts where a frame starts: the remains of a frame     *)
(* whose beginning was lost are never put in front of the next one.        *)
StartsAtFrame ==
  \A d \in Range(decoded) \cup {Vp8RawData} : d # << >> => sent[d[1]].first

(* No loss, no harm: with a decoder that does not fail, a frame that       *)
(* arrives whole right behind an accepted packet (or first of all) is      *)
(* decoded, if it is a key frame or the frame before it was decoded.       *)
PacketsOf(f) == {i \in DOMAIN sent : sent[i].frame = f /\ sent[i].kind = "data"}

ArrivesWhole(f) ==
  /\ PacketsOf(f) \subseteq taken
  /\ \E a \in PacketsOf(f) :
       /\ sent[a].first
       /\ \/ \A j \in taken : j >= a
          \/ a - 1 \in taken /\ sent[a - 1].kind \in {"data", "padding"}

IsDecoded(f) == \E d \in Range(decoded) : PacketsOf(f) \subseteq Range(d)

WholeFramesDecoded ==
  \A f \in 1 .. FramesSent :
    /\ ArrivesWhole(f)
    /\ \/ \E i \in PacketsOf(f) : StartsKeyFrame(sent[i])
       \/ f > 1 /\ IsDecoded(f - 1)
    => IsDecoded(f)

(* Neither assert of the function fails: the size of the picture is known  *)
(* before the decoder is created, and the raw data never outgrows its      *)
(* buffer.                                                                 *)
NoAssertFails == ~aborted

=============================================================================
