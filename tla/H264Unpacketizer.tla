-------------------------- MODULE H264Unpacketizer --------------------------
(***************************************************************************)
(* H264Unpacketizer of rtp/pack_unpack/rtp_to_h264.cc: it turns the RTP    *)
(* packets of one SSRC, in the order the receiver delivers them, into      *)
(* frames of NAL units for the decoder.                                    *)
(*                                                                         *)
(* A payload is the record                                                 *)
(*   kind   "single", "stapA", "badStapA" (its length fields overrun the   *)
(*          packet), "fuA" or "padding"                                    *)
(*   nalus  the types of the NAL units inside (none in an FU-A too short   *)
(*          for its header)                                                *)
(*   start  the start bit of an FU-A header                                *)
(* The bytes of a NAL unit are abstracted to <<type, id of its packet>>,   *)
(* so that rawData is a sequence of such units and a parameter set is the  *)
(* id of the packet that carried it.                                       *)
(***************************************************************************)
EXTENDS SeqNum, Sequences, SequencesExt

NoParam == -1   \* an empty sps or pps string

NewUnpacketizer ==
  [started |-> FALSE, expect |-> 0, frames |-> << >>,
   sps |-> NoParam, pps |-> NoParam]

(* What a parse step leaves: the unpacketizer and its return code. *)
Parsed(u, ret) == [unp |-> u, ret |-> ret]

-----------------------------------------------------------------------------
(* FrameBuffer *)

HasFrameOf(u, ts) == u.frames # << >> /\ Last(u.frames).ts = ts

PushNewFrame(u, ts) ==
  [u EXCEPT !.frames =
     Append(@, [ts |-> ts, rawData |-> << >>, bIFrame |-> FALSE])]

FrameFor(u, ts) == IF HasFrameOf(u, ts) THEN u ELSE PushNewFrame(u, ts)

AppendRaw(u, units) ==
  [u EXCEPT !.frames[Len(u.frames)].rawData = @ \o units]

(* IDR needs both parameter sets: -2 and -3 are the code's return values. *)
MissingParam(u) ==
  CASE u.sps = NoParam -> -2
    [] u.sps # NoParam /\ u.pps = NoParam -> -3
    [] OTHER -> 0

(* Mutant: the picture parameter set is left out. *)
AddParamsSps(u) ==
  [AppendRaw(u, << <<"sps", u.sps>> >>) EXCEPT !.frames[Len(u.frames)].bIFrame = TRUE]

AddParams(u) ==
  [AppendRaw(u, << <<"sps", u.sps>>, <<"pps", u.pps>> >>)
     EXCEPT !.frames[Len(u.frames)].bIFrame = TRUE]

-----------------------------------------------------------------------------
(* A STAP-A or a single NAL unit, one unit after the other; a unit in      *)
(* error leaves the ones before it in the frame.                           *)

(* A parameter set too long for the buffer is refused. *)
UpdataSps_(u, type, id) ==
  IF type = "longSps" THEN Parsed(u, -1) ELSE Parsed([u EXCEPT !.sps = id], 0)

UpdataPps_(u, type, id) ==
  IF type = "longPps" THEN Parsed(u, -1) ELSE Parsed([u EXCEPT !.pps = id], 0)

UpdateIdr(u) ==
  IF MissingParam(u) # 0 THEN Parsed(u, MissingParam(u))
  ELSE Parsed(IF Last(u.frames).rawData = << >> THEN AddParams(u) ELSE u, 0)

ParseNalu(u, type, id) ==
  LET st == CASE type = "empty" -> Parsed(u, -3)
              [] type \in {"sps", "longSps"} -> UpdataSps_(u, type, id)
              [] type \in {"pps", "longPps"} -> UpdataPps_(u, type, id)
              [] type = "idr" -> UpdateIdr(u)
              [] type \in {"stapA", "fuA"} -> Parsed(u, -4)
              [] OTHER -> Parsed(u, 0)
  IN  IF st.ret # 0 THEN st
      ELSE Parsed(AppendRaw(st.unp, << <<type, id>> >>), 0)

ParseStapAStartOffsets_(p) == IF p.payload.kind = "badStapA" THEN -1 ELSE 0

ParseStapAOrSingleNalu_(u, p) ==
  IF ParseStapAStartOffsets_(p) # 0 THEN Parsed(u, ParseStapAStartOffsets_(p))
  ELSE FoldLeft(LAMBDA st, type : IF st.ret # 0 THEN st
                                  ELSE ParseNalu(st.unp, type, p.id),
                Parsed(FrameFor(u, p.ts), 0),
                p.payload.nalus)

(* A fragment of an FU-A.  Only a first fragment opens a frame, and only   *)
(* an opened frame gets the parameter sets.                                *)
ParseFuaNalu_(u, p) ==
  LET type == p.payload.nalus[1]
      unit == << <<type, p.id>> >>
      v    == FrameFor(u, p.ts)
  IN  IF p.payload.nalus = << >> THEN Parsed(u, -1)
      ELSE IF p.payload.start /\ ~HasFrameOf(u, p.ts) /\ type = "idr"
      THEN IF MissingParam(u) # 0 THEN Parsed(v, MissingParam(u))
           ELSE Parsed(AppendRaw(AddParams(v), unit), 0)
      ELSE IF p.payload.start THEN Parsed(AppendRaw(v, unit), 0)
      ELSE IF u.frames = << >> THEN Parsed(u, -4)
      ELSE Parsed(AppendRaw(u, unit), 0)

-----------------------------------------------------------------------------
(* Unpacketize.  The sequence number must not be behind the expected one;  *)
(* a gap drops the frames under construction.                              *)

SeqBehind == "should not use assert"

(* Mutant: numbers behind the expected one are let through. *)
NotBehindUnchecked(u, seq) == TRUE

NotBehind(u, seq) == ~u.started \/ ~AheadOf(u.expect, seq)

(* Mutant: a gap does not drop the frames under construction. *)
ResyncKeepsFrames(u, seq) ==
  [u EXCEPT !.started = TRUE, !.expect = (seq + 1) % SeqSpan]

Resync(u, seq) ==
  [u EXCEPT !.started = TRUE,
            !.expect  = (seq + 1) % SeqSpan,
            !.frames  = IF u.started /\ u.expect # seq THEN << >> ELSE @]

Unpacked(parsed, media, abort) ==
  [unp |-> parsed.unp, ret |-> parsed.ret, media |-> media, abort |-> abort]

Unpacketize(u, p) ==
  IF ~NotBehind(u, p.seq) THEN Unpacked(Parsed(u, 0), << >>, SeqBehind)
  ELSE LET v == Resync(u, p.seq)
           parsed == CASE p.payload.kind = "padding" -> Parsed(v, 0)
                       [] p.payload.kind = "fuA" -> ParseFuaNalu_(v, p)
                       [] OTHER -> ParseStapAOrSingleNalu_(v, p)
       IN  IF parsed.ret = 0 /\ p.payload.kind # "padding" /\ p.marker
           THEN Unpacked([parsed EXCEPT !.unp.frames = << >>],
                         parsed.unp.frames, "none")
           ELSE Unpacked(parsed, << >>, "none")

=============================================================================
