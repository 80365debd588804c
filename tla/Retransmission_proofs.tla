----------------------- MODULE Retransmission_proofs ------------------------
(***************************************************************************)
(* Theorems about Retransmission, for every size of the number space, cap  *)
(* of the queue, gap between packets, delay of a request below one cycle   *)
(* and number of wrap-arounds.                                             *)
(*                                                                         *)
(* Everything rests on what the sender's record is: the queue holds the    *)
(* newest packet and the ones just before it, and the SSRCInfo knows the   *)
(* newest packet's number and cycle.                                       *)
(***************************************************************************)
EXTENDS Retransmission, SeqNum_proofs, FiniteSetTheorems, LeastNumber

LEMMA Sizes ==
  /\ StartPos \in Nat \ {0} /\ MaxGap \in Nat /\ kSendQueueSaveLen \in Nat \ {0}
  /\ SeqSpan \in Nat \ {0} /\ NackWindow \in Nat
BY HalfSeqAssumption, SenderAssumption, RetransmissionAssumption DEF SeqSpan

Above(q, k) == {j \in q : j > k}

(* The fields of a sender whose newest packet is n. *)
SenderTypes(s, n) ==
  s \in [sendQueue : SUBSET (StartPos .. n), saveLast : Nat \cup {End},
         biggestCycle : Nat, biggestSeq : SeqNumbers]

IsQueue(q, n) ==
  /\ q \subseteq StartPos .. n
  /\ IsFiniteSet(q) /\ Cardinality(q) <= kSendQueueSaveLen
  /\ n >= StartPos => n \in q
  /\ \A k \in q : n - k <= Cardinality(Above(q, k)) * (MaxGap + 1)

IsSender(s, n) ==
  /\ SenderTypes(s, n)
  /\ IsQueue(s.sendQueue, n)
  /\ n >= StartPos => PowerSeq(s.biggestCycle, s.biggestSeq) = n

RequestInv ==
  /\ newest \in Nat /\ newest >= StartPos - 1
  /\ lost \subseteq StartPos .. newest
  /\ \A m \in nacks : m.wanted \subseteq StartPos .. newest
  /\ asked \subseteq Nat /\ resent \subseteq Nat

Inv == IsSender(snd, newest) /\ RequestInv

-----------------------------------------------------------------------------
(* Sets of numbers.                                                        *)

LEMMA OldestIs ==
  ASSUME NEW q, q \subseteq Nat, q # {}
  PROVE  Oldest(q) \in q /\ \A y \in q : Oldest(q) <= y
BY LeastExists DEF Oldest

LEMMA NewestIs ==
  ASSUME NEW q, q \subseteq Nat, NEW n \in q, \A y \in q : y <= n
  PROVE  Newest(q) = n
<1>2. \E m \in q : \A y \in q : y <= m
  OBVIOUS
<1>1. Newest(q) \in q /\ \A y \in q : y <= Newest(q)
  BY <1>2, Zenon DEF Newest
<1>3. PICK m : m = Newest(q)
  OBVIOUS
<1>4. m \in Nat /\ n \in Nat /\ n <= m /\ m <= n
  BY <1>1, <1>3
<1> QED
  BY <1>3, <1>4

-----------------------------------------------------------------------------
(* The queue. *)

LEMMA QueueGrows ==
  ASSUME NEW n \in Nat, n >= StartPos - 1, NEW q, IsQueue(q, n),
         NEW p \in n + 1 .. n + 1 + MaxGap
  PROVE  LET r == q \cup {p}
         IN  /\ r \subseteq StartPos .. p /\ p \in r
             /\ IsFiniteSet(r) /\ Cardinality(r) = Cardinality(q) + 1
             /\ Cardinality(q) \in Nat
             /\ \A k \in r : p - k <= Cardinality(Above(r, k)) * (MaxGap + 1)
<1> DEFINE r == q \cup {p}
<1>1. IsFiniteSet(q) /\ q \subseteq StartPos .. n /\ p \notin q
  BY Sizes DEF IsQueue
<1>2. r \subseteq StartPos .. p /\ p \in r
  BY <1>1, Sizes
<1>3. IsFiniteSet(r) /\ Cardinality(r) = Cardinality(q) + 1 /\ Cardinality(q) \in Nat
  BY <1>1, FS_AddElement, FS_CardinalityType
<1>4. ASSUME NEW k \in r
      PROVE  p - k <= Cardinality(Above(r, k)) * (MaxGap + 1)
  <2>1. CASE k = p
    <3>0. \A j \in r : ~(j > k)
      BY <1>1, <2>1, Sizes
    <3>1. Above(r, k) = {}
      BY <3>0 DEF Above
    <3>2. Cardinality(Above(r, k)) = 0
      BY <3>1, FS_EmptySet
    <3> QED
      BY <2>1, <3>2, Sizes
  <2>2. CASE k # p
    <3>1. k \in q /\ k \in StartPos .. n
      BY <1>1, <2>2
    <3>2. Above(q, k) \subseteq q /\ p \notin Above(q, k)
      BY <1>1, Sizes DEF Above
    <3>3. IsFiniteSet(Above(q, k)) /\ Cardinality(Above(q, k)) \in Nat
      BY <1>1, <3>2, FS_Subset, FS_CardinalityType
    <3>4. Above(r, k) = Above(q, k) \cup {p}
      BY <1>1, <3>1, Sizes DEF Above
    <3>5. Cardinality(Above(r, k)) = Cardinality(Above(q, k)) + 1
      BY <3>2, <3>3, <3>4, FS_AddElement
    <3>6. n - k <= Cardinality(Above(q, k)) * (MaxGap + 1)
      BY <3>1 DEF IsQueue
    <3>7. (Cardinality(Above(q, k)) + 1) * (MaxGap + 1) =
             Cardinality(Above(q, k)) * (MaxGap + 1) + (MaxGap + 1)
      BY <3>3, Sizes, Z3
    <3>8. Cardinality(Above(q, k)) * (MaxGap + 1) \in Nat
      BY <3>3, Sizes, Z3
    <3> QED
      BY <3>1, <3>5, <3>6, <3>7, <3>8, Sizes
  <2> QED
    BY <2>1, <2>2
<1> QED
  BY <1>2, <1>3, <1>4

LEMMA QueueEnqueue ==
  ASSUME NEW n \in Nat, n >= StartPos - 1, NEW q, IsQueue(q, n),
         NEW p \in n + 1 .. n + 1 + MaxGap
  PROVE  IsQueue(DropOldest(q \cup {p}), p)
<1>0. PICK r : r = q \cup {p}
  OBVIOUS
<1>1. /\ r \subseteq StartPos .. p /\ p \in r
      /\ IsFiniteSet(r) /\ Cardinality(r) = Cardinality(q) + 1
      /\ Cardinality(q) \in Nat
      /\ \A k \in r : p - k <= Cardinality(Above(r, k)) * (MaxGap + 1)
  BY <1>0, QueueGrows
<1>2. Cardinality(q) <= kSendQueueSaveLen
  BY DEF IsQueue
<1>3. CASE Cardinality(r) <= kSendQueueSaveLen
  <2>1. DropOldest(r) = r
    BY <1>1, <1>3, Sizes DEF DropOldest
  <2> QED
    BY <1>0, <1>1, <1>3, <2>1, Sizes DEF IsQueue
<1>4. CASE Cardinality(r) > kSendQueueSaveLen
  <2>1. PICK o : o = Oldest(r)
    OBVIOUS
  <2>2. DropOldest(r) = r \ {o}
    BY <1>4, <2>1 DEF DropOldest
  <2>3. o \in r /\ \A y \in r : o <= y
    <3>1. r \subseteq Nat /\ r # {}
      BY <1>1, Sizes
    <3> QED
      BY <2>1, <3>1, OldestIs
  <2>4. IsFiniteSet(r \ {o}) /\ Cardinality(r \ {o}) = Cardinality(r) - 1
    BY <1>1, <2>3, FS_RemoveElement
  <2>5. o # p
    <3>1. SUFFICES ASSUME o = p PROVE FALSE
      OBVIOUS
    <3>4. \A y \in r : y = p
      BY <1>1, <2>3, <3>1, Sizes
    <3>2. r = {p}
      BY <1>1, <3>4
    <3>3. Cardinality(r) = 1
      BY <3>2, FS_Singleton
    <3> QED
      BY <1>4, <3>3, Sizes
  <2>6. ASSUME NEW k \in r \ {o}
        PROVE  p - k <= Cardinality(Above(r \ {o}, k)) * (MaxGap + 1)
    <3>0. ~(o > k)
      BY <1>1, <2>3, Sizes
    <3>1. Above(r \ {o}, k) = Above(r, k)
      BY <3>0 DEF Above
    <3> QED
      BY <1>1, <3>1
  <2>8. p \in r \ {o} /\ r \ {o} \subseteq StartPos .. p
    BY <1>1, <2>5
  <2>9. Cardinality(r \ {o}) <= kSendQueueSaveLen
    BY <1>1, <1>2, <2>4, Sizes
  <2>7. IsQueue(r \ {o}, p)
    BY <2>8, <2>9, <1>2, <2>4, <2>5, <2>6 DEF IsQueue
  <2> QED
    BY <1>0, <2>2, <2>7
<1> QED
  BY <1>1, <1>3, <1>4, Sizes

LEMMA QueueDequeue ==
  ASSUME NEW n \in Nat, NEW q, IsQueue(q, n)
  PROVE  NewestOf(q) = q
<1>1. IsFiniteSet(q) /\ Cardinality(q) <= kSendQueueSaveLen /\ q \subseteq StartPos .. n
  BY DEF IsQueue
<1>2. ASSUME NEW k \in q
      PROVE  Cardinality({j \in q : j > k}) < kSendQueueSaveLen
  <2>1. PICK above : above = {j \in q : j > k}
    OBVIOUS
  <2>2. IsFiniteSet(q \ {k}) /\ Cardinality(q \ {k}) = Cardinality(q) - 1
    BY <1>1, FS_RemoveElement
  <2>3. above \subseteq q \ {k}
    BY <1>1, <2>1, Sizes
  <2>4. Cardinality(above) <= Cardinality(q \ {k}) /\ Cardinality(above) \in Nat
    BY <2>2, <2>3, FS_Subset, FS_CardinalityType
  <2>5. Cardinality(q) \in Nat
    BY <1>1, FS_CardinalityType
  <2> QED
    BY <1>1, <2>1, <2>2, <2>4, <2>5, Sizes
<1> QED
  BY <1>2 DEF NewestOf

-----------------------------------------------------------------------------
(* The sender.                                                             *)

LEMMA EnqueueKeeps ==
  ASSUME NEW n \in Nat, n >= StartPos - 1, NEW s, IsSender(s, n),
         NEW p \in n + 1 .. n + 1 + MaxGap
  PROVE  IsSender(Enqueue(s, p), p)
<1>0. PICK q : q = s.sendQueue
  OBVIOUS
<1>1. IsQueue(q, n) /\ s.saveLast \in Nat \cup {End}
  BY <1>0 DEF IsSender, SenderTypes
<1>2. IsQueue(DropOldest(q \cup {p}), p)
  BY <1>1, QueueEnqueue
<1>3. Newest(q \cup {p}) = p
  <2>1. q \subseteq StartPos .. n
    BY <1>1 DEF IsQueue
  <2>2. q \cup {p} \subseteq Nat /\ \A y \in q \cup {p} : y <= p
    BY <2>1, Sizes
  <2> QED
    BY <2>2, NewestIs
<1>4. p \in Nat
  BY Sizes
<1>5. /\ p % SeqSpan \in SeqNumbers /\ p \div SeqSpan \in Nat
      /\ p = PowerSeq(p \div SeqSpan, p % SeqSpan)
  BY <1>4, PlaceSplits
<1>6. Enqueue(s, p) =
        [sendQueue |-> DropOldest(q \cup {p}), saveLast |-> s.saveLast,
         biggestCycle |-> p \div SeqSpan, biggestSeq |-> p % SeqSpan]
  BY <1>0, <1>3 DEF Enqueue
<1>7. DropOldest(q \cup {p}) \in SUBSET (StartPos .. p)
  BY <1>2 DEF IsQueue
<1>8. SenderTypes(Enqueue(s, p), p)
  <2>1. PICK r, v, c, b : /\ r = DropOldest(q \cup {p}) /\ v = s.saveLast
                          /\ c = p \div SeqSpan /\ b = p % SeqSpan
    OBVIOUS
  <2>2. /\ r \in SUBSET (StartPos .. p) /\ v \in Nat \cup {End}
        /\ c \in Nat /\ b \in SeqNumbers
    BY <1>1, <1>5, <1>7, <2>1
  <2>3. Enqueue(s, p) = [sendQueue |-> r, saveLast |-> v, biggestCycle |-> c, biggestSeq |-> b]
    BY <1>6, <2>1
  <2> QED
    BY <2>2, <2>3 DEF SenderTypes
<1> QED
  BY <1>2, <1>5, <1>6, <1>8 DEF IsSender

LEMMA DequeueKeeps ==
  ASSUME NEW n \in Nat, NEW s, IsSender(s, n)
  PROVE  IsSender(Dequeue(s), n)
<1>1. CASE Unsent(s) = {}
  BY <1>1 DEF Dequeue
<1>2. CASE Unsent(s) # {}
  <2>1. IsQueue(s.sendQueue, n) /\ SenderTypes(s, n)
    BY DEF IsSender
  <2>2. s.sendQueue \subseteq StartPos .. n /\ s.sendQueue # {}
    BY <1>2, <2>1 DEF IsQueue, Unsent
  <2>3. n \in s.sendQueue
    BY <2>1, <2>2, Sizes DEF IsQueue
  <2>4. Newest(s.sendQueue) = n
    <3>1. s.sendQueue \subseteq Nat /\ \A y \in s.sendQueue : y <= n
      BY <2>2, Sizes
    <3> QED
      BY <2>3, <3>1, NewestIs
  <2>5. NewestOf(s.sendQueue) = s.sendQueue
    BY <2>1, QueueDequeue
  <2>6. Dequeue(s) = [s EXCEPT !.saveLast = n]
    BY <1>2, <2>1, <2>4, <2>5 DEF Dequeue, SenderTypes
  <2> QED
    BY <2>1, <2>6 DEF IsSender, SenderTypes
<1> QED
  BY <1>1, <1>2

(* A 16-bit number of a packet sent less than a cycle ago is extended to   *)
(* that packet's own number, and one sent less than half a cycle ago is    *)
(* answered.                                                               *)
LEMMA ItemIsFound ==
  ASSUME NEW n \in Nat, IsSender(snd, n), NEW x \in StartPos .. n, n - x < SeqSpan
  PROVE  /\ PowerSeq(ItemCycle(x % SeqSpan), x % SeqSpan) = x
         /\ n - x < HalfSeq => Answerable(x % SeqSpan)
<1>0. PICK b, c, t, d : /\ b = snd.biggestSeq /\ c = snd.biggestCycle
                        /\ t = x % SeqSpan /\ d = x \div SeqSpan
  OBVIOUS
<1>1. b \in SeqNumbers /\ c \in Nat
  BY <1>0 DEF IsSender, SenderTypes
<1>2. n = PowerSeq(c, b)
  BY <1>0, Sizes DEF IsSender
<1>8. x \in Nat /\ x <= n
  BY Sizes
<1>9. /\ x % SeqSpan \in SeqNumbers /\ x \div SeqSpan \in Nat
      /\ x = PowerSeq(x \div SeqSpan, x % SeqSpan)
  BY <1>8, PlaceSplits
<1>3. t \in SeqNumbers /\ d \in Nat /\ x = PowerSeq(d, t) /\ x \in Nat /\ x <= n
  BY <1>0, <1>8, <1>9
<1>4. d = c \/ d = c - 1
  <2>1. CASE d >= c + 1
    <3>1. (c + 1) * SeqSpan <= d * SeqSpan
      BY <2>1, <1>1, <1>3, SpanTimes
    <3>2. (c + 1) * SeqSpan = c * SeqSpan + 1 * SeqSpan
      BY <1>1, SpanPlus
    <3> QED
      BY <3>1, <3>2, <1>1, <1>2, <1>3, HalfSeqAssumption DEF PowerSeq, SeqNumbers, SeqSpan
  <2>2. CASE d + 2 <= c
    <3>1. (d + 2) * SeqSpan <= c * SeqSpan
      BY <2>2, <1>1, <1>3, SpanTimes
    <3>2. (d + 2) * SeqSpan = d * SeqSpan + 2 * SeqSpan
      BY <1>3, SpanPlus
    <3> QED
      BY <3>1, <3>2, <1>1, <1>2, <1>3, HalfSeqAssumption DEF PowerSeq, SeqNumbers, SeqSpan
  <2> QED
    BY <2>1, <2>2, <1>1, <1>3
<1>5. (c - 1) * SeqSpan = c * SeqSpan - SeqSpan /\ c * SeqSpan \in Nat
  BY <1>1, HalfSeqAssumption, Z3 DEF SeqSpan
<1>6. CASE d = c
  <2>1. t <= b /\ n - x = b - t
    BY <1>1, <1>2, <1>3, <1>5, <1>6, HalfSeqAssumption DEF PowerSeq, SeqNumbers, SeqSpan
  <2>2. ItemCycle(t) = d
    BY <1>0, <1>1, <1>3, <1>6, <2>1, HalfSeqAssumption DEF ItemCycle, SeqNumbers, SeqSpan
  <2>3. n - x < HalfSeq => t = b \/ ~AheadOf(t, b)
    BY <1>1, <1>3, <2>1, HalfSeqAssumption
       DEF AheadOf, AheadOrAt, ForwardDiff, SeqNumbers, SeqSpan
  <2>4. ~(t > b)
    BY <1>1, <1>3, <2>1, HalfSeqAssumption DEF SeqNumbers, SeqSpan
  <2> QED
    BY <1>0, <1>3, <2>2, <2>3, <2>4 DEF Answerable
<1>7. CASE d = c - 1
  <2>1. t > b /\ n - x = SeqSpan + b - t /\ c > 0
    BY <1>1, <1>2, <1>3, <1>5, <1>7, HalfSeqAssumption DEF PowerSeq, SeqNumbers, SeqSpan
  <2>2. ItemCycle(t) = d
    BY <1>0, <1>7, <2>1 DEF ItemCycle
  <2>3. n - x < HalfSeq => ~AheadOf(t, b)
    BY <1>1, <1>3, <2>1, HalfSeqAssumption
       DEF AheadOf, AheadOrAt, ForwardDiff, SeqNumbers, SeqSpan
  <2> QED
    BY <1>0, <1>3, <2>1, <2>2, <2>3 DEF Answerable
<1> QED
  BY <1>4, <1>6, <1>7

(* What the queue holds is less than half a cycle old. *)
LEMMA QueueIsYoung ==
  ASSUME NEW n \in Nat, NEW q, IsQueue(q, n), NEW x \in q
  PROVE  n - x < HalfSeq
<1>1. IsFiniteSet(q) /\ Cardinality(q) <= kSendQueueSaveLen /\ q \subseteq StartPos .. n
  BY DEF IsQueue
<1>2. n - x <= Cardinality(Above(q, x)) * (MaxGap + 1)
  BY DEF IsQueue
<1>3. IsFiniteSet(q \ {x}) /\ Cardinality(q \ {x}) = Cardinality(q) - 1
  BY <1>1, FS_RemoveElement
<1>4. Above(q, x) \subseteq q \ {x}
  BY <1>1, Sizes DEF Above
<1>5. Cardinality(Above(q, x)) <= Cardinality(q \ {x})
  BY <1>3, <1>4, FS_Subset
<1>6. Cardinality(Above(q, x)) \in Nat /\ Cardinality(q) \in Nat
  BY <1>1, <1>3, <1>4, FS_Subset, FS_CardinalityType
<1>7. Cardinality(Above(q, x)) <= kSendQueueSaveLen - 1
  BY <1>1, <1>3, <1>5, <1>6, Sizes
<1>8. PICK a \in Nat : a = Cardinality(Above(q, x))
  BY <1>6
<1>9. a * (MaxGap + 1) <= (kSendQueueSaveLen - 1) * (MaxGap + 1)
  BY <1>7, <1>8, Sizes, Z3
<1>10. (kSendQueueSaveLen - 1) * (MaxGap + 1) < HalfSeq
  BY RetransmissionAssumption
<1>11. a * (MaxGap + 1) \in Nat /\ (kSendQueueSaveLen - 1) * (MaxGap + 1) \in Nat
  BY <1>8, Sizes, Z3
<1>12. n - x \in Int
  BY <1>1, Sizes
<1> QED
  BY <1>2, <1>8, <1>9, <1>10, <1>11, <1>12, HalfSeqAssumption

-----------------------------------------------------------------------------
(* The system.                                                             *)

LEMMA InvInit == Init => Inv
<1> SUFFICES ASSUME Init PROVE Inv
  OBVIOUS
<1>1. newest = StartPos - 1 /\ newest \in Nat /\ ~(newest >= StartPos)
  BY Sizes DEF Init
<1>2. snd = NewSender
  BY DEF Init
<1>3. SenderTypes(snd, newest)
  BY <1>2, Sizes DEF NewSender, SenderTypes, SeqNumbers
<1>4. IsQueue({}, newest)
  BY <1>1, FS_EmptySet, Sizes DEF IsQueue
<1>5. IsSender(snd, newest)
  BY <1>1, <1>2, <1>3, <1>4 DEF IsSender, NewSender
<1>6. RequestInv
  BY <1>1 DEF Init, RequestInv
<1> QED
  BY <1>5, <1>6 DEF Inv

LEMMA SendKeeps ==
  ASSUME Inv, NEW p \in newest + 1 .. newest + 1 + MaxGap, NEW arrives \in BOOLEAN,
         Send(p, arrives)
  PROVE  Inv'
<1>1. newest \in Nat /\ newest >= StartPos - 1 /\ IsSender(snd, newest)
  BY DEF Inv, RequestInv
<1>2. PICK n, s : n = newest /\ s = snd
  OBVIOUS
<1>3. IsSender(Enqueue(s, p), p)
  BY <1>1, <1>2, EnqueueKeeps
<1>4. snd' = Enqueue(s, p) /\ newest' = p
  BY <1>2 DEF Send
<1>5. p \in Nat /\ p >= StartPos - 1 /\ newest < p
  BY <1>1, Sizes
<1>6. lost' \subseteq lost \cup (newest + 1 .. p)
  <2>1. lost' = InWindow(lost \cup (newest + 1 .. IF arrives THEN p - 1 ELSE p), p)
    BY DEF Send
  <2>2. (newest + 1 .. IF arrives THEN p - 1 ELSE p) \subseteq newest + 1 .. p
    BY <1>1, <1>5
  <2> QED
    BY <2>1, <2>2 DEF InWindow
<1>7. lost \subseteq StartPos .. newest
  BY DEF Inv, RequestInv
<1>8. lost' \subseteq StartPos .. p
  BY <1>1, <1>5, <1>6, <1>7, Sizes
<1>9. \A m \in nacks' : m.wanted \subseteq StartPos .. p
  <2>1. nacks' = nacks
    BY DEF Send
  <2>2. \A m \in nacks : m.wanted \subseteq StartPos .. newest
    BY DEF Inv, RequestInv
  <2>3. StartPos .. newest \subseteq StartPos .. p
    BY <1>1, <1>5, Sizes
  <2> QED
    BY <2>1, <2>2, <2>3
<1>10. asked' = {} /\ resent' = {}
  BY DEF Send, Quiet
<1> QED
  BY <1>3, <1>4, <1>5, <1>8, <1>9, <1>10 DEF Inv, RequestInv

LEMMA InvStep == Inv /\ [Next]_vars => Inv'
<1> SUFFICES ASSUME Inv, [Next]_vars PROVE Inv'
  OBVIOUS
<1>0. /\ IsSender(snd, newest) /\ newest \in Nat /\ newest >= StartPos - 1
      /\ lost \subseteq StartPos .. newest
      /\ \A m \in nacks : m.wanted \subseteq StartPos .. newest
      /\ asked \subseteq Nat /\ resent \subseteq Nat
  BY DEF Inv, RequestInv
<1>1. CASE SendNext
  BY <1>1, SendKeeps DEF SendNext
<1>2. CASE Pace
  <2>1. snd' = Dequeue(snd) /\ UNCHANGED << newest, lost, nacks >>
    BY <1>2 DEF Pace
  <2>2. asked' = {} /\ resent' = {}
    BY <1>2 DEF Pace, Quiet
  <2>3. PICK n, s : n = newest /\ s = snd
    OBVIOUS
  <2>4. IsSender(Dequeue(s), n)
    BY <1>0, <2>3, DequeueKeeps
  <2> QED
    BY <1>0, <2>1, <2>2, <2>3, <2>4 DEF Inv, RequestInv
<1>3. CASE Ask
  <2>1. PICK lostSeqs \in (SUBSET lost) \ {{}} : CreateNackReportSend(lostSeqs)
    BY <1>3 DEF Ask
  <2>2. \A m \in nacks' : m.wanted = lostSeqs
    BY <2>1 DEF CreateNackReportSend
  <2>3. /\ UNCHANGED << snd, newest, lost >>
        /\ asked' = {} /\ resent' = {}
    BY <2>1 DEF CreateNackReportSend, Quiet
  <2> QED
    BY <1>0, <2>1, <2>2, <2>3 DEF Inv, RequestInv
<1>4. CASE LoseRequest
  <2>1. /\ UNCHANGED << snd, newest, lost >> /\ nacks' = {}
        /\ asked' = {} /\ resent' = {}
    BY <1>4 DEF LoseRequest, Quiet
  <2> QED
    BY <1>0, <2>1 DEF Inv, RequestInv
<1>5. CASE Answer
  <2>1. PICK m \in nacks, again \in BOOLEAN, arriving \in SUBSET (lost \cap snd.sendQueue) :
          HandleNack(m, again, arriving)
    BY <1>5 DEF Answer
  <2>2. UNCHANGED << snd, newest >> /\ lost' \subseteq lost /\ nacks' \subseteq nacks
    BY <2>1 DEF HandleNack
  <2>3. asked' \subseteq StartPos .. newest
    BY <1>0, <2>1 DEF HandleNack
  <2>4. resent' \subseteq snd.sendQueue
    BY <2>1 DEF HandleNack, SendReqNackPkt, GetSeqPacket
  <2>5. snd.sendQueue \subseteq StartPos .. newest
    BY <1>0 DEF IsSender, IsQueue
  <2>6. StartPos .. newest \subseteq Nat
    BY Sizes
  <2>7. asked' \subseteq Nat /\ resent' \subseteq Nat
    BY <2>3, <2>4, <2>5, <2>6
  <2> QED
    BY <1>0, <2>2, <2>7 DEF Inv, RequestInv
<1>6. CASE UNCHANGED vars
  BY <1>0, <1>6 DEF vars, Inv, RequestInv
<1> QED
  BY <1>1, <1>2, <1>3, <1>4, <1>5, <1>6 DEF Next

LEMMA InvReached == Spec => []Inv
<1> QED
  BY InvInit, InvStep, PTL DEF Spec

(* The sender's record, the receiver's list and the answers keep their     *)
(* types.                                                                  *)
THEOREM TypeCorrect == Spec => []TypeOK
<1>1. Inv => TypeOK
  <2> SUFFICES ASSUME Inv PROVE TypeOK
    OBVIOUS
  <2>1. StartPos .. newest \subseteq Nat
    BY Sizes
  <2>2. snd.sendQueue \subseteq StartPos .. newest
    BY DEF Inv, IsSender, IsQueue
  <2>3. /\ snd.saveLast \in Nat \cup {End} /\ snd.biggestCycle \in Nat
        /\ snd.biggestSeq \in SeqNumbers
    BY DEF Inv, IsSender, SenderTypes
  <2>4. /\ newest \in Nat /\ lost \subseteq StartPos .. newest
        /\ asked \subseteq Nat /\ resent \subseteq Nat
    BY DEF Inv, RequestInv
  <2> QED
    BY <2>1, <2>2, <2>3, <2>4 DEF TypeOK
<1> QED
  BY <1>1, InvReached, PTL

(* The queue stays within its cap, holds the packet sent last and nothing  *)
(* older than the gaps between the packets behind it allow.                *)
THEOREM QueueNewest == Spec => []QueueHoldsNewest
<1>1. Inv => QueueHoldsNewest
  <2> SUFFICES ASSUME Inv PROVE QueueHoldsNewest
    OBVIOUS
  <2>1. IsQueue(snd.sendQueue, newest)
    BY DEF Inv, IsSender
  <2>2. \A k \in snd.sendQueue : k <= newest
    <3>1. newest \in Nat /\ snd.sendQueue \subseteq StartPos .. newest
      BY <2>1 DEF Inv, RequestInv, IsQueue
    <3> QED
      BY <3>1
  <2>3. \A k \in snd.sendQueue : Behind(k) = Cardinality(Above(snd.sendQueue, k))
    BY DEF Behind, Above
  <2> QED
    BY <2>1, <2>2, <2>3 DEF QueueHoldsNewest, IsQueue
<1> QED
  BY <1>1, InvReached, PTL

-----------------------------------------------------------------------------
(* The blocks of a request.  NackBlocks is recursive over the numbers      *)
(* still to be put into blocks; a block leaves fewer of them.              *)

(* One round: what the recursion is for the numbers rest, given its        *)
(* values f for the sets that are smaller.                                 *)
Left(rest) == rest \ (Fitting(rest, Min(rest)) \cup {Min(rest)})

Round(f, rest) ==
  IF rest = {} THEN << >> ELSE << Block(rest, Min(rest)) >> \o f[Left(rest)]

Blocks == [pid : SeqNumbers, blp : SUBSET Int]

Residues(q) == {x % SeqSpan : x \in q}

LEMMA MinIs ==
  ASSUME NEW q, q \subseteq Nat, q # {}
  PROVE  Min(q) \in q
<1>1. \E x \in q : \A y \in q : x <= y
  BY LeastExists
<1> QED
  BY <1>1 DEF Min

LEMMA LeftIsSmaller ==
  ASSUME NEW q, q \subseteq Nat, q # {}, IsFiniteSet(q)
  PROVE  /\ Left(q) \subseteq q /\ IsFiniteSet(Left(q))
         /\ Cardinality(Left(q)) \in Nat /\ Cardinality(q) \in Nat
         /\ Cardinality(Left(q)) <= Cardinality(q) - 1
<1> DEFINE r == Left(q)
           s == q \ {Min(q)}
<1>1. Min(q) \in q
  BY MinIs
<1>2. IsFiniteSet(s) /\ Cardinality(s) = Cardinality(q) - 1 /\ Cardinality(q) \in Nat
  BY <1>1, FS_RemoveElement, FS_CardinalityType
<1>3. r \subseteq s
  BY DEF Left
<1> HIDE DEF r, s
<1>4. IsFiniteSet(r) /\ Cardinality(r) <= Cardinality(s) /\ Cardinality(r) \in Nat
  BY <1>2, <1>3, FS_Subset, FS_CardinalityType
<1> QED
  BY <1>2, <1>4 DEF r, Left

(* Subsets of at most k numbers, and the recursion as far as these go. *)
UpTo(q, k) == {r \in SUBSET q : Cardinality(r) <= k}

Solves(f, q, k) == f = [r \in UpTo(q, k) |-> Round(f, r)]

LEMMA LargerSolution ==
  ASSUME NEW q, q \subseteq Nat, IsFiniteSet(q), NEW k \in Nat, NEW f, Solves(f, q, k)
  PROVE  \E g : Solves(g, q, k + 1)
<1> DEFINE g == [r \in UpTo(q, k + 1) |-> Round(f, r)]
<1>1. ASSUME NEW r \in UpTo(q, k + 1) PROVE Round(f, r) = Round(g, r)
  <2>1. CASE r = {}
    BY <2>1 DEF Round
  <2>2. CASE r # {}
    <3>1. r \subseteq Nat /\ IsFiniteSet(r) /\ Cardinality(r) <= k + 1
      BY FS_Subset DEF UpTo
    <3>2. /\ Left(r) \subseteq r /\ Cardinality(Left(r)) \in Nat /\ Cardinality(r) \in Nat
          /\ Cardinality(Left(r)) <= Cardinality(r) - 1
      BY <2>2, <3>1, LeftIsSmaller
    <3>6. Left(r) \in SUBSET q
      BY <3>2 DEF UpTo
    <3>7. Cardinality(Left(r)) <= k /\ Cardinality(Left(r)) <= k + 1
      BY <3>1, <3>2
    <3>3. Left(r) \in UpTo(q, k) /\ Left(r) \in UpTo(q, k + 1)
      BY <3>6, <3>7 DEF UpTo
    <3>4. f[Left(r)] = Round(f, Left(r))
      BY <3>3 DEF Solves
    <3>5. g[Left(r)] = Round(f, Left(r))
      BY <3>3
    <3> QED
      BY <2>2, <3>4, <3>5, Zenon DEF Round
  <2> QED
    BY <2>1, <2>2
<1>2. g = [r \in UpTo(q, k + 1) |-> Round(g, r)]
  BY <1>1
<1> QED
  BY <1>2, Zenon DEF Solves

LEMMA SolutionExists ==
  ASSUME NEW q, q \subseteq Nat, IsFiniteSet(q), NEW k \in Nat
  PROVE  \E f : Solves(f, q, k)
<1> DEFINE bad == {n \in Nat : ~ \E f : Solves(f, q, n)}
<1>1. 0 \notin bad
  <2> DEFINE f == [r \in UpTo(q, 0) |-> << >>]
  <2>1. ASSUME NEW r \in UpTo(q, 0) PROVE r = {}
    <3>1. IsFiniteSet(r) /\ Cardinality(r) <= 0 /\ Cardinality(r) \in Nat
      BY FS_Subset, FS_CardinalityType DEF UpTo
    <3>2. Cardinality(r) = 0
      BY <3>1
    <3> QED
      BY <3>1, <3>2, FS_EmptySet
  <2>2. \A r \in UpTo(q, 0) : Round(f, r) = << >>
    BY <2>1 DEF Round
  <2>3. Solves(f, q, 0)
    BY <2>2 DEF Solves
  <2> QED
    BY <2>3, Zenon
<1>2. CASE bad = {}
  BY <1>2
<1>3. CASE bad # {}
  <2>0. bad \subseteq Nat
    OBVIOUS
  <2>1. PICK n \in bad : \A y \in bad : n <= y
    BY <1>3, <2>0, LeastExists
  <2>2. n \in Nat /\ n # 0
    BY <1>1
  <2>3. n - 1 \in Nat /\ n - 1 \notin bad
    BY <2>1, <2>2
  <2>4. PICK f : Solves(f, q, n - 1)
    BY <2>3
  <2>5. \E g : Solves(g, q, n - 1 + 1)
    BY <2>3, <2>4, LargerSolution
  <2>6. n - 1 + 1 = n
    BY <2>2
  <2>7. \E g : Solves(g, q, n)
    BY <2>5, <2>6
  <2> QED
    BY <2>1, <2>7
<1> QED
  BY <1>2, <1>3

(* NackBlocks is the value of a function that is what its recursion says.  *)
LEMMA NackBlocksRounds ==
  ASSUME NEW q, q \subseteq Nat, IsFiniteSet(q)
  PROVE  \E f : /\ NackBlocks(q) = f[q]
                /\ \A r \in SUBSET q : f[r] = Round(f, r)
<1> DEFINE Is(f) == f = [r \in SUBSET q |-> Round(f, r)]
           b == CHOOSE f : Is(f)
<1>1. \E f : Is(f)
  <2>1. Cardinality(q) \in Nat
    BY FS_CardinalityType
  <2>2. PICK f : Solves(f, q, Cardinality(q))
    BY <2>1, SolutionExists
  <2>3. \A r \in SUBSET q : Cardinality(r) <= Cardinality(q)
    BY FS_Subset
  <2>4. UpTo(q, Cardinality(q)) = SUBSET q
    BY <2>3 DEF UpTo
  <2>5. Is(f)
    BY <2>2, <2>4, Zenon DEF Solves
  <2> QED
    BY <2>5, Zenon
<1>2. Is(b)
  BY <1>1, Zenon
<1>3. NackBlocks(q) = b[q]
  BY Zenon DEF NackBlocks, Round, Left
<1> HIDE DEF b
<1>4. \A r \in SUBSET q : b[r] = Round(b, r)
  BY <1>2
<1> QED
  BY <1>3, <1>4, Zenon

-----------------------------------------------------------------------------
(* What HandleNack reads from them. *)

LEMMA ModShift ==
  ASSUME NEW m \in Nat, NEW k \in Nat
  PROVE  (k * SeqSpan + m) % SeqSpan = m % SeqSpan
<1>1. PICK t : t = k * SeqSpan + m
  OBVIOUS
<1>2. PICK d, r, e, u : /\ d = m \div SeqSpan /\ r = m % SeqSpan
                        /\ e = t \div SeqSpan /\ u = t % SeqSpan
  OBVIOUS
<1>3. t \in Nat
  BY <1>1, Sizes, Z3
<1>4. /\ d \in Nat /\ r \in 0 .. SeqSpan - 1 /\ m = d * SeqSpan + r
      /\ e \in Nat /\ u \in 0 .. SeqSpan - 1 /\ t = e * SeqSpan + u
  BY <1>2, <1>3, PlaceSplits DEF PowerSeq, SeqNumbers
<1>5. (k + d) * SeqSpan = k * SeqSpan + d * SeqSpan
  BY <1>4, SpanPlus
<1>6. k * SeqSpan \in Nat /\ d * SeqSpan \in Nat /\ e * SeqSpan \in Nat
      /\ (k + d) * SeqSpan \in Nat
  BY <1>4, Sizes, Z3
<1>7. ~(e >= k + d + 1)
  <2> SUFFICES ASSUME e >= k + d + 1 PROVE FALSE
    OBVIOUS
  <2>1. (k + d + 1) * SeqSpan <= e * SeqSpan
    BY <1>4, SpanTimes
  <2>2. (k + d + 1) * SeqSpan = (k + d) * SeqSpan + 1 * SeqSpan
    BY <1>4, SpanPlus
  <2> QED
    BY <2>1, <2>2, <1>1, <1>4, <1>5, <1>6, Sizes
<1>8. ~(e + 1 <= k + d)
  <2> SUFFICES ASSUME e + 1 <= k + d PROVE FALSE
    OBVIOUS
  <2>1. (e + 1) * SeqSpan <= (k + d) * SeqSpan
    BY <1>4, SpanTimes
  <2>2. (e + 1) * SeqSpan = e * SeqSpan + 1 * SeqSpan
    BY <1>4, SpanPlus
  <2> QED
    BY <2>1, <2>2, <1>1, <1>4, <1>5, <1>6, Sizes
<1>9. e = k + d
  BY <1>4, <1>7, <1>8
<1>10. u = r
  BY <1>1, <1>4, <1>5, <1>6, <1>9, Sizes
<1> QED
  BY <1>1, <1>2, <1>10

(* A bit of a block, read, is the number it was set for. *)
LEMMA BitIsRead ==
  ASSUME NEW first \in Nat, NEW x \in Nat, first < x
  PROVE  /\ BlpBit(first % SeqSpan, x) \in Nat
         /\ ((first % SeqSpan) + BlpBit(first % SeqSpan, x) + 1) % SeqSpan = x % SeqSpan
<1> DEFINE p == first % SeqSpan
           z == x - p - 1
<1>1. p \in SeqNumbers /\ p <= first /\ p \in Nat
  <2>1. p \in SeqNumbers
    BY PlaceSplits
  <2>2. p <= first
    BY Sizes, Z3
  <2> QED
    BY <2>1, <2>2, Sizes DEF SeqNumbers
<1> HIDE DEF p
<1>2. z \in Nat
  BY <1>1
<1> HIDE DEF z
<1>3. z % SeqSpan \in SeqNumbers /\ z \div SeqSpan \in Nat
      /\ z = (z \div SeqSpan) * SeqSpan + (z % SeqSpan)
  BY <1>2, PlaceSplits DEF PowerSeq
<1>4. PICK k, b : k = z \div SeqSpan /\ b = z % SeqSpan
  OBVIOUS
<1>5. b \in Nat /\ k \in Nat /\ z = k * SeqSpan + b
  BY <1>3, <1>4, Sizes DEF SeqNumbers
<1>6. (k * SeqSpan + (p + b + 1)) % SeqSpan = (p + b + 1) % SeqSpan
  BY <1>1, <1>5, ModShift
<1>7. k * SeqSpan \in Nat
  BY <1>5, Sizes, Z3
<1>8. k * SeqSpan + (p + b + 1) = x
  BY <1>1, <1>5, <1>7 DEF z
<1> QED
  BY <1>4, <1>5, <1>6, <1>8 DEF BlpBit, p, z

(* A block stands for its first number and those that fit: no bit of them  *)
(* is shifted out.                                                         *)
Numbers(b) == {b.pid} \cup {(b.pid + i + 1) % SeqSpan : i \in b.blp}

LEMMA BlockExact ==
  ASSUME NEW q, q \subseteq Nat, q # {}, NEW b, b = Block(q, Min(q))
  PROVE  b \in Blocks /\ Numbers(b) = Residues(q \ Left(q))
<1>0. PICK first : first = Min(q)
  OBVIOUS
<1>1. first \in q /\ first \in Nat /\ \A y \in q : first <= y
  <2>1. \E x \in q : \A y \in q : x <= y
    BY LeastExists
  <2> QED
    BY <1>0, <2>1 DEF Min
<1>2. PICK fit : fit = Fitting(q, first)
  OBVIOUS
<1>3. PICK p : p = first % SeqSpan
  OBVIOUS
<1>4. \A x \in fit : /\ x \in Nat /\ x \in q /\ x # first /\ first < x
                     /\ BlpBit(p, x) < BlpBits
                     /\ BlpBit(p, x) \in Nat
                     /\ (p + BlpBit(p, x) + 1) % SeqSpan = x % SeqSpan
  <2> SUFFICES ASSUME NEW x \in fit
               PROVE  /\ x \in Nat /\ x \in q /\ x # first /\ first < x
                      /\ BlpBit(p, x) < BlpBits
                      /\ BlpBit(p, x) \in Nat
                      /\ (p + BlpBit(p, x) + 1) % SeqSpan = x % SeqSpan
    OBVIOUS
  <2>1. x \in q /\ x # first /\ x \in Nat
    BY <1>2 DEF Fitting
  <2>2. first < x
    BY <1>1, <2>1
  <2>3. BlpBit(p, x) < BlpBits
    BY <1>2, <1>3, <2>1, <2>2 DEF Fitting
  <2> QED
    BY <1>1, <1>3, <2>1, <2>2, <2>3, BitIsRead
<1>5. PICK blp : blp = {BlpBit(p, x) : x \in fit}
  OBVIOUS
<1>6. blp \cap (0 .. BlpBits - 1) = blp
  BY <1>4, <1>5, NackAssumption
<1>7. Block(q, first) = [pid |-> p, blp |-> blp]
  BY <1>2, <1>3, <1>5, <1>6 DEF Block
<1>8. p \in SeqNumbers
  BY <1>1, <1>3, PlaceSplits
<1>9. blp \subseteq Int
  BY <1>4, <1>5
<1>10. q \ Left(q) = {first} \cup fit
  BY <1>0, <1>1, <1>2, <1>4 DEF Left
<1>11. {p} \cup {(p + i + 1) % SeqSpan : i \in blp} = Residues({first} \cup fit)
  BY <1>3, <1>4, <1>5 DEF Residues
<1>12. b.pid = p /\ b.blp = blp /\ b \in Blocks
  BY <1>0, <1>7, <1>8, <1>9 DEF Blocks
<1> QED
  BY <1>10, <1>11, <1>12 DEF Numbers

LEMMA SeqVectOf ==
  ASSUME NEW b \in Blocks, NEW s \in Seq(Blocks)
  PROVE  /\ << b >> \o s \in Seq(Blocks)
         /\ SeqVect(<< b >> \o s) = Numbers(b) \cup SeqVect(s)
<1>1. << b >> \o s \in Seq(Blocks)
  OBVIOUS
<1>2. PICK t : t = << b >> \o s
  OBVIOUS
<1>3. Range(t) = {b} \cup Range(s)
  <2>1. t \in Seq(Blocks) /\ Len(t) = Len(s) + 1 /\ t[1] = b
    BY <1>2
  <2>2. \A i \in DOMAIN s : i + 1 \in DOMAIN t /\ t[i + 1] = s[i]
    BY <1>2
  <2>3. \A i \in DOMAIN t : i = 1 \/ (i - 1 \in DOMAIN s /\ t[i] = s[i - 1])
    BY <1>2
  <2>4. 1 \in DOMAIN t
    BY <2>1
  <2> QED
    BY <2>1, <2>2, <2>3, <2>4 DEF Range
<1> QED
  BY <1>1, <1>2, <1>3 DEF SeqVect, Numbers

LEMMA RoundExact ==
  ASSUME NEW q, q \subseteq Nat, IsFiniteSet(q), NEW f,
         q # {} => f[Left(q)] \in Seq(Blocks) /\ SeqVect(f[Left(q)]) = Residues(Left(q))
  PROVE  Round(f, q) \in Seq(Blocks) /\ SeqVect(Round(f, q)) = Residues(q)
<1>1. CASE q = {}
  <2>1. Round(f, q) = << >> /\ Residues(q) = {}
    BY <1>1 DEF Round, Residues
  <2>2. Range(<< >>) = {}
    BY DEF Range
  <2>3. SeqVect(<< >>) = {}
    BY <2>2 DEF SeqVect
  <2> QED
    BY <2>1, <2>3
<1>2. CASE q # {}
  <2>1. PICK b, s, l : b = Block(q, Min(q)) /\ s = f[Left(q)] /\ l = Left(q)
    OBVIOUS
  <2>2. b \in Blocks /\ s \in Seq(Blocks) /\ SeqVect(s) = Residues(l)
    BY <1>2, <2>1, BlockExact
  <2>3. Numbers(b) = Residues(q \ l)
    BY <1>2, <2>1, BlockExact
  <2>4. /\ << b >> \o s \in Seq(Blocks)
        /\ SeqVect(<< b >> \o s) = Residues(q \ l) \cup Residues(l)
    BY <2>2, <2>3, SeqVectOf
  <2>5. l \subseteq q
    BY <2>1 DEF Left
  <2>6. Residues(q \ l) \cup Residues(l) = Residues(q)
    BY <2>5 DEF Residues
  <2> QED
    BY <1>2, <2>1, <2>4, <2>6 DEF Round
<1> QED
  BY <1>1, <1>2

(* The blocks of a set of numbers, 16-bit or extended ones, stand for      *)
(* exactly these numbers.                                                  *)
LEMMA NackBlocksExact ==
  ASSUME NEW q, q \subseteq Nat, IsFiniteSet(q)
  PROVE  SeqVect(NackBlocks(q)) = Residues(q)
<1>1. PICK f : /\ NackBlocks(q) = f[q]
               /\ \A r \in SUBSET q : f[r] = Round(f, r)
  BY NackBlocksRounds
<1> DEFINE Exact(r) == f[r] \in Seq(Blocks) /\ SeqVect(f[r]) = Residues(r)
           bad == {Cardinality(r) : r \in {r \in SUBSET q : ~Exact(r)}}
<1>2. CASE bad = {}
  <2>1. q \in SUBSET q
    OBVIOUS
  <2>2. Exact(q)
    BY <1>2, <2>1, Zenon
  <2> QED
    BY <1>1, <2>2
<1>3. CASE bad # {}
  <2>1. \A r \in SUBSET q : r \subseteq Nat /\ IsFiniteSet(r) /\ Cardinality(r) \in Nat
    BY FS_Subset, FS_CardinalityType
  <2>2. bad \subseteq Nat
    BY <2>1
  <2>3. PICK n \in bad : \A y \in bad : n <= y
    BY <1>3, <2>2, LeastExists
  <2>4. PICK r \in SUBSET q : ~Exact(r) /\ n = Cardinality(r)
    OBVIOUS
  <2>5. r # {} => Exact(Left(r))
    <3> SUFFICES ASSUME r # {}, ~Exact(Left(r)) PROVE FALSE
      OBVIOUS
    <3>1. /\ Left(r) \subseteq r /\ Cardinality(Left(r)) \in Nat /\ Cardinality(r) \in Nat
          /\ Cardinality(Left(r)) <= Cardinality(r) - 1
      BY <2>1, LeftIsSmaller
    <3>2. Left(r) \in SUBSET q
      BY <3>1
    <3>3. Cardinality(Left(r)) \in bad
      BY <3>2, Zenon
    <3>4. n <= Cardinality(Left(r))
      BY <2>3, <3>3
    <3> QED
      BY <2>4, <3>1, <3>4
  <2>6. Round(f, r) \in Seq(Blocks) /\ SeqVect(Round(f, r)) = Residues(r)
    BY <2>1, <2>5, RoundExact
  <2>7. Exact(r)
    BY <1>1, <2>6
  <2> QED
    BY <2>4, <2>7
<1> QED
  BY <1>2, <1>3

LEMMA BlocksStep ==
  Inv /\ BlocksExact /\ [Next]_vars => BlocksExact'
<1> SUFFICES ASSUME Inv, BlocksExact, [Next]_vars PROVE BlocksExact'
  OBVIOUS
<1>1. CASE nacks' \subseteq nacks
  BY <1>1 DEF BlocksExact
<1>2. UNCHANGED vars \/ SendNext \/ Pace \/ LoseRequest \/ Answer => nacks' \subseteq nacks
  BY DEF vars, SendNext, Send, Pace, LoseRequest, Answer, HandleNack
<1>3. ASSUME NEW w \in (SUBSET lost) \ {{}}, CreateNackReportSend(w)
      PROVE  BlocksExact'
  <2>1. w \subseteq Nat /\ IsFiniteSet(w)
    <3>1. StartPos \in Nat /\ newest \in Nat
      BY Sizes DEF Inv, RequestInv
    <3>2. IsFiniteSet(StartPos .. newest) /\ StartPos .. newest \subseteq Nat
      BY <3>1, FS_Interval
    <3>3. w \subseteq StartPos .. newest
      BY DEF Inv, RequestInv
    <3> QED
      BY <3>2, <3>3, FS_Subset
  <2>2. PICK r : r = Residues(w)
    OBVIOUS
  <2>3. nacks' = {[blocks |-> NackBlocks(r), wanted |-> w]}
    BY <1>3, <2>2 DEF CreateNackReportSend, Residues
  <2>4. r \subseteq Nat /\ IsFiniteSet(r) /\ Residues(r) = r
    <3>1. \A x \in w : x % SeqSpan \in Nat /\ (x % SeqSpan) % SeqSpan = x % SeqSpan
      <4> SUFFICES ASSUME NEW x \in w
                   PROVE  x % SeqSpan \in Nat /\ (x % SeqSpan) % SeqSpan = x % SeqSpan
        OBVIOUS
      <4>1. PICK y : y = x % SeqSpan
        OBVIOUS
      <4>2. y \in SeqNumbers
        BY <2>1, <4>1, PlaceSplits
      <4>3. y \in Nat /\ y < SeqSpan
        BY <4>2, Sizes DEF SeqNumbers
      <4>4. y % SeqSpan = y
        BY <4>3, Sizes, Z3
      <4> QED
        BY <4>1, <4>3, <4>4
    <3>2. r \subseteq 0 .. SeqSpan - 1
      BY <2>1, <2>2, PlaceSplits DEF Residues, SeqNumbers
    <3>5. PICK top : top = SeqSpan - 1
      OBVIOUS
    <3>6. IsFiniteSet(0 .. top)
      BY <3>5, Sizes, FS_Interval
    <3>3. IsFiniteSet(r)
      BY <3>2, <3>5, <3>6, FS_Subset
    <3>4. r \subseteq Nat /\ Residues(r) = r
      BY <2>2, <3>1 DEF Residues
    <3> QED
      BY <3>3, <3>4
  <2>5. SeqVect(NackBlocks(r)) = r /\ SeqVect(NackBlocks(w)) = r
    BY <2>1, <2>2, <2>4, NackBlocksExact
  <2>6. \A m \in nacks' : m.wanted = w /\ m.blocks = NackBlocks(r)
    BY <2>3
  <2> QED
    BY <2>2, <2>5, <2>6 DEF BlocksExact, Residues
<1> QED
  BY <1>1, <1>2, <1>3 DEF Next, Ask

(* The blocks of a request stand for exactly the numbers asked for, on     *)
(* both sides of a wrap-around and whether the set given to                *)
(* CreateNackReportSend holds 16-bit numbers or extended ones.             *)
THEOREM BlocksCorrect == Spec => []BlocksExact
<1>1. Init => BlocksExact
  BY DEF Init, BlocksExact
<1> QED
  BY <1>1, BlocksStep, InvReached, PTL DEF Spec

-----------------------------------------------------------------------------
(* The answers to a request whose blocks stand for what was asked.         *)

LEMMA AnswerExact ==
  ASSUME Inv, NEW wanted, wanted \subseteq StartPos .. newest,
         \A x \in wanted : newest - x <= Reach
  PROVE  LET sent == SendReqNackPkt({x % SeqSpan : x \in wanted})
         IN  sent = wanted \cap snd.sendQueue
<1> DEFINE S == {x % SeqSpan : x \in wanted}
           sent == SendReqNackPkt(S)
<1>1. newest \in Nat /\ IsSender(snd, newest) /\ IsQueue(snd.sendQueue, newest)
  BY DEF Inv, RequestInv, IsSender
<1>2. PICK n : n = newest
  OBVIOUS
<1>3. n \in Nat /\ IsSender(snd, n) /\ IsQueue(snd.sendQueue, n)
  BY <1>1, <1>2
<1>4. Reach < SeqSpan /\ Reach \in Nat
  BY RetransmissionAssumption
<1>5. ASSUME NEW x \in wanted
      PROVE  /\ PowerSeq(ItemCycle(x % SeqSpan), x % SeqSpan) = x
             /\ n - x < HalfSeq => Answerable(x % SeqSpan)
  <2>1. x \in StartPos .. n /\ n - x <= Reach
    BY <1>2
  <2>2. n - x < SeqSpan
    BY <1>3, <1>4, <2>1, Sizes
  <2> QED
    BY <1>3, <2>1, <2>2, ItemIsFound
<1>6. ASSUME NEW k \in sent PROVE k \in wanted /\ k \in snd.sendQueue
  <2>1. PICK s \in S : k = PowerSeq(ItemCycle(s), s) /\ k \in snd.sendQueue
    BY <1>6 DEF SendReqNackPkt, GetSeqPacket
  <2>2. PICK x \in wanted : s = x % SeqSpan
    BY <2>1
  <2> QED
    BY <1>5, <2>1, <2>2
<1>7. ASSUME NEW x \in wanted, x \in snd.sendQueue PROVE x \in sent
  <2>1. n - x < HalfSeq
    BY <1>3, <1>7, QueueIsYoung
  <2>2. Answerable(x % SeqSpan) /\ PowerSeq(ItemCycle(x % SeqSpan), x % SeqSpan) = x
    BY <1>5, <2>1
  <2>3. PICK s : s = x % SeqSpan
    OBVIOUS
  <2>4. s \in S
    BY <2>3
  <2> QED
    BY <1>7, <2>2, <2>3, <2>4 DEF SendReqNackPkt, GetSeqPacket
<1> QED
  BY <1>6, <1>7

LEMMA AnswersStep ==
  Inv /\ BlocksExact /\ AnswersWhatWasAsked /\ [Next]_vars => AnswersWhatWasAsked'
<1> SUFFICES ASSUME Inv, BlocksExact, AnswersWhatWasAsked, [Next]_vars
             PROVE  AnswersWhatWasAsked'
  OBVIOUS
<1>1. CASE UNCHANGED vars
  BY <1>1 DEF vars, AnswersWhatWasAsked
<1>2. CASE Quiet
  BY <1>2 DEF Quiet, AnswersWhatWasAsked
<1>3. SendNext \/ Pace \/ Ask \/ LoseRequest => Quiet
  BY DEF SendNext, Send, Pace, Ask, CreateNackReportSend, LoseRequest
<1>4. ASSUME NEW m \in nacks, NEW again, NEW arriving, HandleNack(m, again, arriving)
      PROVE  AnswersWhatWasAsked'
  <2>1. PICK w : w = m.wanted
    OBVIOUS
  <2>2. w \subseteq StartPos .. newest
    BY <2>1 DEF Inv, RequestInv
  <2>3. /\ \A x \in w : newest - x <= Reach
        /\ asked' = w /\ resent' = SendReqNackPkt(SeqVect(m.blocks))
        /\ snd' = snd
    BY <1>4, <2>1 DEF HandleNack
  <2>4. SeqVect(m.blocks) = {x % SeqSpan : x \in w}
    BY <2>1 DEF BlocksExact
  <2>5. resent' = w \cap snd.sendQueue
    BY <2>2, <2>3, <2>4, AnswerExact
  <2> QED
    BY <2>3, <2>5 DEF AnswersWhatWasAsked
<1> QED
  BY <1>1, <1>2, <1>3, <1>4 DEF Next, Answer

(* Every answer holds what was meant by the request and all of it the      *)
(* queue still holds, however late within one cycle and wherever the       *)
(* wrap-around.                                                            *)
THEOREM AnswersCorrect == Spec => []AnswersWhatWasAsked
<1>1. Init => AnswersWhatWasAsked
  BY DEF Init, AnswersWhatWasAsked
<1> QED
  BY <1>1, AnswersStep, BlocksCorrect, InvReached, PTL DEF Spec

-----------------------------------------------------------------------------
(* The pacer's iterator. *)
CursorOf(q, v) ==
  /\ v \in q \cup {End}
  /\ v = End => Cardinality(q) < kSendQueueSaveLen

(* With a pacer that keeps up, the packet dropped is not the one sent      *)
(* last: everything behind that one would fill the queue.                  *)
LEMMA EnqueueKeepsCursor ==
  ASSUME NEW n \in Nat, n >= StartPos - 1, NEW q, IsQueue(q, n),
         NEW p \in n + 1 .. n + 1 + MaxGap, NEW v, CursorOf(q, v),
         Cardinality({k \in q : v = End \/ k > v}) + 1 < kSendQueueSaveLen
  PROVE  CursorOf(DropOldest(q \cup {p}), v)
<1>0. PICK r : r = q \cup {p}
  OBVIOUS
<1>1. /\ r \subseteq StartPos .. p /\ p \in r
      /\ IsFiniteSet(r) /\ Cardinality(r) = Cardinality(q) + 1
      /\ Cardinality(q) \in Nat
  BY <1>0, QueueGrows
<1>2. IsFiniteSet(q) /\ q \subseteq StartPos .. n
  BY DEF IsQueue
<1>3. CASE v = End
  <2>1. {k \in q : v = End \/ k > v} = q
    BY <1>3
  <2>2. Cardinality(r) < kSendQueueSaveLen
    BY <1>1, <2>1
  <2>3. DropOldest(r) = r
    BY <1>1, <2>2, Sizes DEF DropOldest
  <2> QED
    BY <1>0, <1>3, <2>2, <2>3 DEF CursorOf
<1>4. CASE v # End
  <2>1. v \in q /\ v \in r
    BY <1>0, <1>4 DEF CursorOf
  <2>2. CASE Cardinality(r) <= kSendQueueSaveLen
    <3>1. DropOldest(r) = r
      BY <1>1, <2>2, Sizes DEF DropOldest
    <3> QED
      BY <1>0, <1>4, <2>1, <3>1 DEF CursorOf
  <2>3. CASE Cardinality(r) > kSendQueueSaveLen
    <3>1. PICK o : o = Oldest(r)
      OBVIOUS
    <3>2. DropOldest(r) = r \ {o}
      BY <2>3, <3>1 DEF DropOldest
    <3>3. o \in r /\ \A y \in r : o <= y
      <4>1. r \subseteq Nat /\ r # {}
        BY <1>1, Sizes
      <4> QED
        BY <3>1, <4>1, OldestIs
    <3>4. o # v
      <4>1. SUFFICES ASSUME o = v PROVE FALSE
        OBVIOUS
      <4>2. PICK above : above = {k \in q : v = End \/ k > v}
        OBVIOUS
      <4>3. \A k \in q : k = v \/ k > v
        BY <1>0, <1>2, <2>1, <3>3, <4>1, Sizes
      <4>4. ~(v > v)
        BY <1>2, <2>1, Sizes
      <4>5. above = q \ {v}
        BY <1>4, <4>2, <4>3, <4>4
      <4>6. Cardinality(above) = Cardinality(q) - 1
        BY <1>2, <2>1, <4>5, FS_RemoveElement
      <4> QED
        BY <1>1, <2>3, <4>2, <4>6, Sizes
    <3> QED
      BY <1>0, <1>4, <2>1, <3>2, <3>4 DEF CursorOf
  <2> QED
    BY <1>1, <2>2, <2>3, Sizes
<1> QED
  BY <1>3, <1>4

LEMMA CursorStep == Inv /\ CursorInQueue /\ [Next]_vars => CursorInQueue'
<1> SUFFICES ASSUME Inv, CursorInQueue, [Next]_vars, Paced
             PROVE  CursorOf(snd'.sendQueue, snd'.saveLast)
  BY DEF CursorInQueue, CursorOf
<1>0. /\ newest \in Nat /\ newest >= StartPos - 1
      /\ IsSender(snd, newest) /\ IsQueue(snd.sendQueue, newest)
      /\ CursorOf(snd.sendQueue, snd.saveLast)
  BY DEF Inv, RequestInv, IsSender, CursorInQueue, CursorOf
<1>1. PICK n, q, v : n = newest /\ q = snd.sendQueue /\ v = snd.saveLast
  OBVIOUS
<1>2. n \in Nat /\ n >= StartPos - 1 /\ IsQueue(q, n) /\ CursorOf(q, v)
  BY <1>0, <1>1
<1>3. CASE SendNext
  <2>1. PICK p \in n + 1 .. n + 1 + MaxGap, arrives \in BOOLEAN : Send(p, arrives)
    BY <1>1, <1>3 DEF SendNext
  <2>2. Cardinality({k \in q : v = End \/ k > v}) + 1 < kSendQueueSaveLen
    BY <1>1, <2>1 DEF Send, KeepsUp, Unsent
  <2>3. CursorOf(DropOldest(q \cup {p}), v)
    BY <1>2, <2>2, EnqueueKeepsCursor
  <2>4. snd' = Enqueue(snd, p)
    BY <2>1 DEF Send
  <2>5. snd'.sendQueue = DropOldest(q \cup {p}) /\ snd'.saveLast = v
    BY <1>1, <2>4 DEF Enqueue
  <2> QED
    BY <2>3, <2>5
<1>4. CASE Pace
  <2>1. snd' = Dequeue(snd) /\ Unsent(snd) # {}
    BY <1>4 DEF Pace
  <2>2. NewestOf(q) = q
    BY <1>2, QueueDequeue
  <2>3. q \subseteq StartPos .. n /\ q # {}
    BY <1>1, <1>2, <2>1 DEF IsQueue, Unsent
  <2>4. n \in q
    <3>1. PICK k \in q : k \in StartPos .. n
      BY <2>3
    <3>2. n >= StartPos
      BY <1>2, <3>1, Sizes
    <3> QED
      BY <1>2, <3>2 DEF IsQueue
  <2>5. Newest(q) = n
    <3>1. q \subseteq Nat /\ \A y \in q : y <= n
      BY <2>3, Sizes
    <3> QED
      BY <2>4, <3>1, NewestIs
  <2>6. DOMAIN snd = {"sendQueue", "saveLast", "biggestCycle", "biggestSeq"}
    BY <1>0 DEF IsSender, SenderTypes
  <2>7. snd' = [snd EXCEPT !.saveLast = n, !.sendQueue = q]
    BY <1>1, <2>1, <2>2, <2>5 DEF Dequeue
  <2>8. snd'.sendQueue = q /\ snd'.saveLast = n
    BY <2>6, <2>7
  <2>9. n # End
    BY <1>2 DEF End
  <2> QED
    BY <2>4, <2>8, <2>9 DEF CursorOf
<1>5. CASE Ask \/ LoseRequest \/ Answer \/ UNCHANGED vars
  <2>1. snd' = snd
    BY <1>5 DEF Ask, CreateNackReportSend, LoseRequest, Answer, HandleNack, vars
  <2> QED
    BY <1>0, <2>1
<1> QED
  BY <1>3, <1>4, <1>5 DEF Next

(* Dequeue never goes on from a packet that Enqueue has erased, and never  *)
(* misses one, as long as the pacer keeps up.                              *)
THEOREM CursorValid == Spec => []CursorInQueue
<1>1. Init => CursorInQueue
  <2> SUFFICES ASSUME Init PROVE CursorInQueue
    OBVIOUS
  <2>1. snd.sendQueue = {} /\ snd.saveLast = End
    BY DEF Init, NewSender
  <2>2. Cardinality({}) = 0
    BY FS_EmptySet
  <2> QED
    BY <2>1, <2>2, Sizes DEF CursorInQueue
<1> QED
  BY <1>1, CursorStep, InvReached, PTL DEF Spec

=============================================================================
