--------------------------- MODULE Retransmission ---------------------------
(***************************************************************************)
(* Retransmission on request: RtpSender, the creation of a NACK by one     *)
(* peer and its handling (RtcpHandler::HandleNack, SendReqNackPkt) by the  *)
(* other, with a network that loses media, requests and answers and that   *)
(* delays and repeats requests.                                            *)
(*                                                                         *)
(* lost is what the receiver lacks and still asks for; a request carries,  *)
(* for the properties, the packets that were meant by its numbers.         *)
(***************************************************************************)
EXTENDS RtpSender, Nack

CONSTANTS
  StartPos,     \* the number of the first packet
  MaxPower,     \* the last number the sender may use
  MaxGap,       \* numbers of dropped uplink frames the sender may skip
  NackWindow,   \* how far back the receiver asks
  Reach,        \* the oldest number a delivered request may ask for
  Paced         \* whether the pacer (Dequeue) keeps up with Enqueue

ASSUME RetransmissionAssumption ==
  /\ StartPos \in 1 .. SeqSpan - 1
  /\ MaxPower \in Nat /\ MaxGap \in Nat
  /\ NackWindow \in Nat /\ Reach \in Nat
  /\ Reach < SeqSpan
  /\ (kSendQueueSaveLen - 1) * (MaxGap + 1) < HalfSeq
  /\ Paced \in BOOLEAN

VARIABLES
  snd,      \* the RtpSender and the SSRCInfo it belongs to
  newest,   \* the last number sent
  lost,     \* what the receiver asks for
  nacks,    \* requests in flight (at most one at a time)
  asked,    \* the request just answered: what it meant
  resent    \* the packets just sent in answer to it

vars == << snd, newest, lost, nacks, asked, resent >>

Init ==
  /\ snd = NewSender
  /\ newest = StartPos - 1
  /\ lost = {}
  /\ nacks = {}
  /\ asked = {}
  /\ resent = {}

Quiet == asked' = {} /\ resent' = {}

InWindow(S, top) == {x \in S : x > top - NackWindow}

(* The pacer has sent enough for the next packet not to push out one that  *)
(* is unsent, nor the last one sent.                                       *)
KeepsUp == Paced => Cardinality(Unsent(snd)) + 1 < kSendQueueSaveLen

Send(p, arrives) ==
  /\ KeepsUp
  /\ p <= MaxPower
  /\ snd' = Enqueue(snd, p)
  /\ newest' = p
  /\ lost' = InWindow(lost \cup (newest + 1 .. IF arrives THEN p - 1 ELSE p), p)
  /\ Quiet
  /\ UNCHANGED nacks

SendNext == \E p \in newest + 1 .. newest + 1 + MaxGap, arrives \in BOOLEAN : Send(p, arrives)

Pace ==
  /\ Paced
  /\ Unsent(snd) # {}
  /\ snd' = Dequeue(snd)
  /\ Quiet
  /\ UNCHANGED << newest, lost, nacks >>

(* The receiver asks for some of what it lacks.  A request that does not   *)
(* fit a packet is not sent.                                               *)
CreateNackReportSend(lostSeqs) ==
  LET blocks == NackBlocks({x % SeqSpan : x \in lostSeqs})
  IN  /\ nacks = {}
      /\ Serializes(blocks)
      /\ nacks' = {[blocks |-> blocks, wanted |-> lostSeqs]}
      /\ Quiet
      /\ UNCHANGED << snd, newest, lost >>

Ask == \E lostSeqs \in (SUBSET lost) \ {{}} : CreateNackReportSend(lostSeqs)

LoseRequest == /\ nacks # {}
               /\ nacks' = {}
               /\ Quiet
               /\ UNCHANGED << snd, newest, lost >>

-----------------------------------------------------------------------------
(* SendReqNackPkt: the cycle of a requested number is decided from the     *)
(* newest number sent.  A number ahead of it is passed over, as is one of  *)
(* the cycle before the first.                                             *)

(* Mutants: the cycle is always the newest one; only numbers of the newest *)
(* cycle are answered.                                                     *)
ItemCycleNewest(itemSeq) == snd.biggestCycle
AnswerableSameCycle(itemSeq) == itemSeq <= snd.biggestSeq

Answerable(itemSeq) ==
  \/ itemSeq = snd.biggestSeq
  \/ /\ ~AheadOf(itemSeq, snd.biggestSeq)
     /\ itemSeq > snd.biggestSeq => snd.biggestCycle > 0

ItemCycle(itemSeq) ==
  IF itemSeq > snd.biggestSeq THEN snd.biggestCycle - 1 ELSE snd.biggestCycle

SendReqNackPkt(seqVect) ==
  UNION {GetSeqPacket(snd, PowerSeq(ItemCycle(s), s)) :
           s \in {t \in seqVect : Answerable(t)}}

(* The request reaches the sender (and may stay in the network, to come    *)
(* again); some of the answers reach the receiver.                         *)
HandleNack(m, again, arriving) ==
  /\ \A x \in m.wanted : newest - x <= Reach
  /\ asked' = m.wanted
  /\ resent' = SendReqNackPkt(SeqVect(m.blocks))
  /\ lost' = lost \ (resent' \cap arriving)
  /\ nacks' = IF again THEN nacks ELSE nacks \ {m}
  /\ UNCHANGED << snd, newest >>

Answer == \E m \in nacks, again \in BOOLEAN, arriving \in SUBSET (lost \cap snd.sendQueue) :
            HandleNack(m, again, arriving)

Next == SendNext \/ Pace \/ Ask \/ LoseRequest \/ Answer

Spec == Init /\ [][Next]_vars

(* A receiver that keeps asking for everything it lacks, and a network     *)
(* that does not keep a request for ever nor lose every request for        *)
(* everything or every answer to it.                                       *)
RequestGone == nacks' = {} /\ (LoseRequest \/ Answer)
AskForAll == lost # {} /\ CreateNackReportSend(lost)
AnswerAll == \E m \in nacks : m.wanted = lost /\ HandleNack(m, FALSE, lost)

FairSpec ==
  Spec /\ WF_vars(RequestGone) /\ SF_vars(AskForAll) /\ SF_vars(AnswerAll)

-----------------------------------------------------------------------------
(* Types of the sender, the receiver's list and the answers. *)
TypeOK ==
  /\ snd.sendQueue \subseteq Nat
  /\ snd.saveLast \in Nat \cup {End}
  /\ snd.biggestCycle \in Nat
  /\ snd.biggestSeq \in SeqNumbers
  /\ newest \in Nat
  /\ lost \subseteq Nat
  /\ asked \subseteq Nat
  /\ resent \subseteq Nat

(* The queue never grows over its cap, the packet just sent is in it, and  *)
(* what it holds is that packet and the ones sent just before it: no older *)
(* than the numbers skipped between them allow.                            *)
Behind(k) == Cardinality({j \in snd.sendQueue : j > k})

QueueHoldsNewest ==
  /\ Cardinality(snd.sendQueue) <= kSendQueueSaveLen
  /\ newest >= StartPos => newest \in snd.sendQueue
  /\ \A k \in snd.sendQueue :
       k <= newest /\ newest - k <= Behind(k) * (MaxGap + 1)

(* What is sent in answer to a request is what the request meant, and all  *)
(* of that the queue still holds, although a request carries 16-bit        *)
(* numbers only and was made when the stream was up to Reach packets       *)
(* behind: any delay of less than a whole cycle.                           *)
AnswersWhatWasAsked == resent = asked \cap snd.sendQueue

(* The blocks of a request stand for exactly the numbers asked for, also   *)
(* when these are on both sides of a wrap-around, and whether the set<int> *)
(* given to CreateNackReportSend holds 16-bit numbers or extended ones.    *)
BlocksExact ==
  \A m \in nacks :
    LET numbers == {x % SeqSpan : x \in m.wanted}
    IN  SeqVect(m.blocks) = numbers /\ SeqVect(NackBlocks(m.wanted)) = numbers

(* The iterator Dequeue goes on from points into the queue, or to its end  *)
(* before anything was dequeued; nothing unsent has been dropped.  This    *)
(* rests on a pacer that keeps up, because Enqueue erases without looking  *)
(* at saveLast_.                                                           *)
CursorInQueue ==
  Paced => /\ snd.saveLast \in snd.sendQueue \cup {End}
           /\ snd.saveLast = End => Cardinality(snd.sendQueue) < kSendQueueSaveLen

(* What the receiver lacks and the sender still has is repaired, or falls  *)
(* out of the queue or the window first.                                   *)
EveryLossRepaired ==
  \A x \in StartPos .. MaxPower :
    (x \in lost \cap snd.sendQueue) ~> (x \notin lost \/ x \notin snd.sendQueue)

=============================================================================
