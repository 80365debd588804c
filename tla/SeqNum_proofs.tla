--------------------------- MODULE SeqNum_proofs ----------------------------
(***************************************************************************)
(* Facts about the sequence-number arithmetic, for every size of the       *)
(* number space.                                                           *)
(***************************************************************************)
EXTENDS SeqNum, TLAPS

(* AheadOf decides between any two different numbers, one way only: also   *)
(* for numbers half the space apart, where the plain distance test of      *)
(* rtp_parser.h would say neither.                                         *)
THEOREM AheadOfDecides ==
  \A a, b \in SeqNumbers : a # b => (AheadOf(a, b) <=> ~AheadOf(b, a))
BY HalfSeqAssumption
   DEF SeqNumbers, SeqSpan, AheadOf, AheadOrAt, ForwardDiff

(* A multiple of the number space grows with its factor. *)
LEMMA SpanTimes ==
  ASSUME NEW c \in Int, NEW d \in Int, c <= d
  PROVE  c * SeqSpan <= d * SeqSpan
BY HalfSeqAssumption, Z3 DEF SeqSpan

LEMMA SpanPlus ==
  ASSUME NEW c \in Int, NEW k \in Int
  PROVE  (c + k) * SeqSpan = c * SeqSpan + k * SeqSpan
BY HalfSeqAssumption, Z3 DEF SeqSpan

(* Division with remainder by the number space. *)
LEMMA PlaceSplits ==
  ASSUME NEW p \in Nat
  PROVE  /\ p % SeqSpan \in SeqNumbers
         /\ p \div SeqSpan \in Nat
         /\ p = PowerSeq(p \div SeqSpan, p % SeqSpan)
<1>1. SeqSpan \in Nat \ {0}
  BY HalfSeqAssumption DEF SeqSpan
<1>2. QED BY <1>1, Z3 DEF SeqNumbers, PowerSeq

(* A packet less than half the number space from the newest one is filed   *)
(* under its true place, and the newest place is kept.                     *)
LEMMA UnwrapNear ==
  ASSUME NEW b \in SeqNumbers, NEW c \in Nat, NEW p \in Nat,
         PowerSeq(c, b) - HalfSeq < p, p < PowerSeq(c, b) + HalfSeq
  PROVE  LET u == Unwrap(b, c, p % SeqSpan)
             n == PowerSeq(c, b)
         IN  /\ u.biggestSeq \in SeqNumbers
             /\ u.biggestCycle \in Nat
             /\ u.itemCycle \in Nat
             /\ PowerSeq(u.biggestCycle, u.biggestSeq) = IF p > n THEN p ELSE n
             /\ PowerSeq(u.itemCycle, p % SeqSpan) = p
<1> DEFINE t == p % SeqSpan
           d == p \div SeqSpan
           u == Unwrap(b, c, t)
<1>1. t \in SeqNumbers /\ d \in Nat /\ p = PowerSeq(d, t)
  BY PlaceSplits
<1>2. d = c \/ d = c + 1 \/ d = c - 1
  <2>1. CASE d >= c + 2
    <3>1. (c + 2) * SeqSpan <= d * SeqSpan
      BY <2>1, <1>1, SpanTimes
    <3>2. (c + 2) * SeqSpan = c * SeqSpan + 2 * SeqSpan
      BY SpanPlus
    <3>3. QED
      BY <3>1, <3>2, <1>1, HalfSeqAssumption DEF PowerSeq, SeqNumbers, SeqSpan
  <2>2. CASE d + 2 <= c
    <3>1. (d + 2) * SeqSpan <= c * SeqSpan
      BY <2>2, <1>1, SpanTimes
    <3>2. (d + 2) * SeqSpan = d * SeqSpan + 2 * SeqSpan
      BY <1>1, SpanPlus
    <3>3. QED
      BY <3>1, <3>2, <1>1, HalfSeqAssumption DEF PowerSeq, SeqNumbers, SeqSpan
  <2>3. QED BY <2>1, <2>2, <1>1
<1>3. /\ (c + 1) * SeqSpan = c * SeqSpan + SeqSpan
      /\ (c - 1) * SeqSpan = c * SeqSpan - SeqSpan
      /\ c * SeqSpan \in Nat
  BY HalfSeqAssumption, Z3 DEF SeqSpan
<1> HIDE DEF t, d
<1>4. CASE d = c
  BY <1>1, <1>3, <1>4, HalfSeqAssumption
     DEF PowerSeq, SeqNumbers, SeqSpan, Unwrap, Unwrapped, AheadOf, AheadOrAt,
         ForwardDiff
<1>5. CASE d = c + 1
  BY <1>1, <1>3, <1>5, HalfSeqAssumption
     DEF PowerSeq, SeqNumbers, SeqSpan, Unwrap, Unwrapped, AheadOf, AheadOrAt,
         ForwardDiff
<1>6. CASE d = c - 1
  BY <1>1, <1>3, <1>6, HalfSeqAssumption
     DEF PowerSeq, SeqNumbers, SeqSpan, Unwrap, Unwrapped, AheadOf, AheadOrAt,
         ForwardDiff
<1>7. QED BY <1>2, <1>4, <1>5, <1>6 DEF t

(* The first packet of a stream is filed under its true place if that is   *)
(* in the lower half of the number space.                                  *)
LEMMA UnwrapFirst ==
  ASSUME NEW p \in Nat, p <= HalfSeq
  PROVE  LET u == Unwrap(0, 0, p % SeqSpan)
         IN  /\ u.biggestSeq \in SeqNumbers
             /\ u.biggestCycle \in Nat
             /\ u.itemCycle \in Nat
             /\ PowerSeq(u.biggestCycle, u.biggestSeq) = p
             /\ PowerSeq(u.itemCycle, p % SeqSpan) = p
<1>1. p % SeqSpan = p
  BY HalfSeqAssumption, Z3 DEF SeqSpan
<1>2. /\ Unwrap(0, 0, p).biggestSeq = p
      /\ Unwrap(0, 0, p).biggestCycle = 0
      /\ Unwrap(0, 0, p).itemCycle = 0
  BY HalfSeqAssumption
     DEF Unwrap, Unwrapped, AheadOf, AheadOrAt, ForwardDiff, SeqSpan
<1>3. 0 * SeqSpan = 0
  BY HalfSeqAssumption DEF SeqSpan
<1>4. QED
  BY <1>1, <1>2, <1>3, HalfSeqAssumption DEF PowerSeq, SeqNumbers, SeqSpan
=============================================================================
