----------------------------- MODULE RtpSender ------------------------------
(***************************************************************************)
(* RtpSender (transport/sender/sender.cc): the packets sent last, kept for *)
(* retransmission.  A packet is its power sequence number, the key of      *)
(* sendQueue_; a map is the set of its keys.  The sender is a record that  *)
(* also holds what Enqueue writes into the SSRCInfo it belongs to.         *)
(***************************************************************************)
EXTENDS SeqNum, FiniteSets, FiniteSetsExt

CONSTANT kSendQueueSaveLen

ASSUME SenderAssumption == kSendQueueSaveLen \in Nat \ {0}

(* sendQueue_.end(), also the iterator a new sender starts with. *)
End == -1

NewSender ==
  [sendQueue |-> {}, saveLast |-> End, biggestCycle |-> 0, biggestSeq |-> 0]

Oldest(q) == CHOOSE k \in q : \A j \in q : k <= j
Newest(q) == CHOOSE k \in q : \A j \in q : j <= k

(* Mutants: the newest packet is dropped; one is dropped too early.        *)
DropNewest(q) == IF Cardinality(q) > kSendQueueSaveLen THEN q \ {Newest(q)} ELSE q
DropEarly(q) == IF Cardinality(q) >= kSendQueueSaveLen THEN q \ {Oldest(q)} ELSE q

DropOldest(q) == IF Cardinality(q) > kSendQueueSaveLen THEN q \ {Oldest(q)} ELSE q

(* Mutant: the number is taken over with its cycle. *)
EnqueueUnsplit(snd, k) ==
  LET q == snd.sendQueue \cup {k}
  IN  [snd EXCEPT !.sendQueue = DropOldest(q), !.biggestSeq = Newest(q)]

(* Emplace the packet, take over the last key, drop the first packet if    *)
(* the queue has grown over its cap.  saveLast is not looked at.           *)
Enqueue(snd, k) ==
  LET q == snd.sendQueue \cup {k}
  IN  [sendQueue |-> DropOldest(q),
       saveLast |-> snd.saveLast,
       biggestCycle |-> Newest(q) \div SeqSpan,
       biggestSeq |-> Newest(q) % SeqSpan]

GetSeqPacket(snd, k) == snd.sendQueue \cap {k}

(* What is behind saveLast in the queue. *)
Unsent(snd) == {k \in snd.sendQueue : snd.saveLast = End \/ k > snd.saveLast}

NewestOf(q) == {k \in q : Cardinality({j \in q : j > k}) < kSendQueueSaveLen}

(* The loop moves saveLast over everything behind it and erases from the   *)
(* front while the queue is over its cap.  With an iterator whose element  *)
(* Enqueue has erased the code is undefined; see CursorInQueue.            *)
Dequeue(snd) ==
  IF Unsent(snd) = {} THEN snd
  ELSE [snd EXCEPT !.saveLast = Newest(snd.sendQueue),
                   !.sendQueue = NewestOf(@)]

=============================================================================
