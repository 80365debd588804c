------------------------------- MODULE SeqNum -------------------------------
(***************************************************************************)
(* RTP sequence-number arithmetic (rtp/rtp_parser.h) and the extension of  *)
(* the 16-bit sequence number to a 64-bit "power sequence" that            *)
(* RtpHandler::HandleRtpPacket computes for every packet.                  *)
(*                                                                         *)
(* The code's modulus is 2^16; here it is 2 * HalfSeq, so that TLC can     *)
(* wrap around with a handful of packets.  HalfSeq is maxDist of           *)
(* AheadOrAt (numeric_limits<T>::max() / 2 + 1).                           *)
(***************************************************************************)
EXTENDS Integers

CONSTANT HalfSeq

ASSUME HalfSeqAssumption == HalfSeq \in Nat \ {0}

SeqSpan == 2 * HalfSeq

SeqNumbers == 0 .. SeqSpan - 1

(* "b - a" in the unsigned arithmetic of the sequence-number type. *)
ForwardDiff(a, b) == IF b >= a THEN b - a ELSE b - a + SeqSpan

(* The subtraction in the guard is carried out in int (the operands are    *)
(* promoted), so at distance exactly HalfSeq only the numerically larger   *)
(* number is ahead.                                                        *)
AheadOrAt(a, b) ==
  IF a - b = HalfSeq THEN b < a ELSE ForwardDiff(b, a) < HalfSeq

AheadOf(a, b) == a # b /\ AheadOrAt(a, b)

PowerSeq(cycle, seq) == cycle * SeqSpan + seq

-----------------------------------------------------------------------------
(* The extension of HandleRtpPacket.  (biggestSeq, biggestCycle) is the    *)
(* newest number received on the SSRC; the result holds their new values   *)
(* and the cycle the packet is filed under.                                *)

Unwrapped(biggestSeq, biggestCycle, itemCycle) ==
  [biggestSeq |-> biggestSeq, biggestCycle |-> biggestCycle,
   itemCycle |-> itemCycle]

(* Mutant: the cycle is not counted when the number rolls over. *)
UnwrapUncounted(biggestSeq, biggestCycle, itemSeq) ==
  Unwrapped(IF AheadOf(itemSeq, biggestSeq) THEN itemSeq ELSE biggestSeq,
            biggestCycle, biggestCycle)

Unwrap(biggestSeq, biggestCycle, itemSeq) ==
  IF AheadOf(itemSeq, biggestSeq)
  THEN LET cycle == IF itemSeq > biggestSeq THEN biggestCycle
                                            ELSE biggestCycle + 1
       IN  Unwrapped(itemSeq, cycle, cycle)
  ELSE Unwrapped(biggestSeq, biggestCycle,
                 IF itemSeq > biggestSeq
                 THEN IF biggestCycle <= 0 THEN 0 ELSE biggestCycle - 1
                 ELSE biggestCycle)

=============================================================================
