---------------------------- MODULE MCRtpHandler ----------------------------
(* Instances of RtpHandler for TLC: the frames the encoder may produce.    *)
EXTENDS RtpHandler

Single(type) == [kind |-> "single", nalus |-> << type >>, start |-> FALSE]
StapA(types) == [kind |-> "stapA", nalus |-> types, start |-> FALSE]
FuA(type, start) == [kind |-> "fuA", nalus |-> << type >>, start |-> start]

(* A key frame with its parameter sets in a STAP-A packet of their own.    *)
KeyFrame ==
  [data |-> << StapA(<< "sps", "pps" >>), Single("idr") >>, fecNum |-> 1]

(* A key frame in two fragments that relies on parameter sets sent before. *)
BareKeyFrame == [data |-> << FuA("idr", TRUE), FuA("idr", FALSE) >>, fecNum |-> 1]

(* A delta frame of a single packet, with two FEC packets.                 *)
DeltaFrame == [data |-> << Single("slice") >>, fecNum |-> 2]

AllShapes == {KeyFrame, BareKeyFrame, DeltaFrame}
KeyAndDelta == {KeyFrame, DeltaFrame}
OnlyDelta == {DeltaFrame}
=============================================================================
