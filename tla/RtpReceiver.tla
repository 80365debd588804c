----------------------------- MODULE RtpReceiver -----------------------------
(***************************************************************************)
(* The per-SSRC receiver of transport/receiver/receiver.cc: a jitter       *)
(* buffer ordered by power sequence, emptied by the last FEC packet of a   *)
(* frame (PushAndPop), and the check of the popped group against its FEC   *)
(* header (TryRecoverFEC).                                                 *)
(*                                                                         *)
(* A receiver is the record                                                *)
(*   jitter      jitterBuffer_, a function from power sequences to packets *)
(*   lastPopped  lastPoppedPowerSeq_                                       *)
(*   lastTs      lastPoppedTs_                                             *)
(* and a packet the record                                                 *)
(*   id       stands for the bytes: the packet's place in its stream       *)
(*   seq, ts, marker     the RTP header                                    *)
(*   fec      isFEC()                                                      *)
(*   first, last, num    protectedFirstSeq, protectedLastSeq and fecNum of *)
(*                       the FEC header (zero in a media packet)           *)
(*   payload  the H.264 payload (see H264Unpacketizer)                     *)
(*                                                                         *)
(* A failed assert terminates the process: the operators return its text   *)
(* in abort, and NoAbort otherwise.                                        *)
(***************************************************************************)
EXTENDS SeqNum, FiniteSets, Sequences, SequencesExt

CONSTANTS
  MaxFecGroup,           \* largest data + FEC group CRSFec::SetNM accepts
  EmplaceMovesDuplicate  \* std::map::emplace moves from its argument even
                         \* when the key is present (left open by the C++
                         \* standard, libstdc++ before GCC 12 does)

ASSUME ReceiverAssumption ==
  /\ MaxFecGroup \in Nat
  /\ EmplaceMovesDuplicate \in BOOLEAN

NoAbort == "none"

kShitRecvPowerSeqInitValue == -1
kShitRecvTimestampInitValue == -1

NewReceiver ==
  [jitter |-> << >>, lastPopped |-> kShitRecvPowerSeqInitValue,
   lastTs |-> kShitRecvTimestampInitValue]

-----------------------------------------------------------------------------
(* FecHeader *)

getProtectedDataNum(fec) == (SeqSpan + fec.last - fec.first + 1) % SeqSpan

(* Entries between dataLenBegin and dataLenEnd: no wrap-around here. *)
DataLenCount(fec) == fec.last - fec.first + 1

ProtectedSeqs(fec) ==
  {(fec.first + i) % SeqSpan : i \in 0 .. getProtectedDataNum(fec) - 1}

(* CRSFec::SetNM of the rsfec library, and the outcome of RecoveryFEC: it  *)
(* computes the first protected packet from the others, so the result      *)
(* equals the received one when the inputs are the protected packets.      *)
SetNM(n, m) == n + m <= MaxFecGroup
RecoversFirst(fec, data) == {p.seq : p \in data} = ProtectedSeqs(fec)

-----------------------------------------------------------------------------
(* TryRecoverFEC: group maps power sequences to packets of one timestamp.  *)

FecKeys(group) == {k \in DOMAIN group : group[k].fec}
DataKeys(group) == DOMAIN group \ FecKeys(group)

(* The key with i - 1 keys before it. *)
KeyAt(keys, i) == CHOOSE k \in keys : Cardinality({j \in keys : j <= k}) = i

InOrder(group, keys) == [i \in 1 .. Cardinality(keys) |-> group[KeyAt(keys, i)]]

Delivers(packets) == [out |-> packets, abort |-> NoAbort]
Aborts(assertion) == [out |-> << >>, abort |-> assertion]

AllComplete(group, firstFecKey) ==
  LET fec  == group[firstFecKey]
      data == {k \in DataKeys(group) : k < firstFecKey}
  IN  IF ~SetNM(getProtectedDataNum(fec), fec.num) THEN Delivers(<< >>)
      ELSE IF DataLenCount(fec) <= 0 THEN Aborts("dataLenBegin < dataLenEnd")
      ELSE IF data # DataKeys(group) THEN Aborts("it == firstFecIt")
      ELSE IF ~RecoversFirst(fec, {group[k] : k \in data})
           THEN Aborts("oneData == group.begin()")
      ELSE Delivers(InOrder(group, data))

NotCompleteCanRecover(fec) ==
  IF ~SetNM(getProtectedDataNum(fec), fec.num)
  THEN Aborts("set NM should not fail")
  ELSE IF DataLenCount(fec) <= 0 THEN Aborts("dataLenBegin < dataLenEnd")
  ELSE Delivers(<< >>)

(* Mutant: with enough packets for a recovery, the data packets are        *)
(* delivered without one.                                                  *)
TryRecoverFECUnrepaired(group) ==
  LET fec == group[Min(FecKeys(group))]
  IN  IF Cardinality(DOMAIN group) >= getProtectedDataNum(fec)
      THEN Delivers(InOrder(group, DataKeys(group)))
      ELSE Delivers(<< >>)

TryRecoverFEC(group) ==
  IF FecKeys(group) = {} THEN Aborts("not recv fec, todo")
  ELSE LET firstFecKey   == Min(FecKeys(group))
           firstFec      == group[firstFecKey]
           recvDataNum   == Cardinality(DataKeys(group))
           recvFecNum    == Cardinality(FecKeys(group))
           expectDataNum == getProtectedDataNum(firstFec)
       IN  IF recvDataNum > expectDataNum
           THEN Aborts("recvDataNum <= expectDataNum")
           ELSE IF recvDataNum = expectDataNum /\ recvFecNum = firstFec.num
           THEN AllComplete(group, firstFecKey)
           ELSE IF recvDataNum + recvFecNum >= expectDataNum
           THEN NotCompleteCanRecover(firstFec)
           ELSE Delivers(<< >>)

-----------------------------------------------------------------------------
(* PushAndPop(r, p, key): key is the packet's power sequence.  The result  *)
(* holds the new receiver, the packets returned and the abort.             *)

Pushed(r, result) == [rcv |-> r, out |-> result.out, abort |-> result.abort]

Put(map, key, p) ==
  [k \in DOMAIN map \cup {key} |-> IF k = key THEN p ELSE map[k]]

PoppedKeys(r, key) == {k \in DOMAIN r.jitter : k < key}

(* Mutant: popped packets of other timestamps stay in the group. *)
RecvGroupAnyTs(r, p, key) ==
  Put([k \in PoppedKeys(r, key) |-> r.jitter[k]], key, p)

RecvGroup(r, p, key) ==
  LET sameTs == {k \in PoppedKeys(r, key) : r.jitter[k].ts = p.ts}
  IN  Put([k \in sameTs |-> r.jitter[k]], key, p)

(* The last FEC packet of a frame: everything older leaves the buffer.     *)
(* lastPoppedPowerSeq_ is given the 16-bit number, without the cycle.      *)
PopFrame(r, p, key) ==
  Pushed([jitter |-> Restrict(r.jitter, DOMAIN r.jitter \ PoppedKeys(r, key)),
          lastPopped |-> p.seq,
          lastTs |-> p.ts],
         TryRecoverFEC(RecvGroup(r, p, key)))

(* RtpBizPacket::WaitTimeMs has its computation commented out. *)
WaitTimeMs(p) == 0
kUnorderWaitMs == 50

(* The pop of a frame whose wait is over ends in an assert either way: the *)
(* group holds the oldest timestamp and is checked against the new one.    *)
PopTimedOut(p, firstTs) ==
  Aborts(IF p.ts > firstTs THEN "ts is not same"
                           ELSE "rtp.getTimestamp() > firstTs")

Insert(r, p, key) ==
  LET duplicate == key \in DOMAIN r.jitter
      jitter == IF duplicate THEN r.jitter ELSE Put(r.jitter, key, p)
      first  == jitter[Min(DOMAIN jitter)]
  IN  Pushed([jitter |-> jitter, lastPopped |-> r.lastPopped,
              lastTs |-> r.lastTs],
             IF duplicate /\ EmplaceMovesDuplicate
             THEN Aborts("!rtpRawPacket.empty()")
             ELSE IF p.ts = first.ts \/ WaitTimeMs(first) < kUnorderWaitMs
             THEN Delivers(<< >>)
             ELSE PopTimedOut(p, first.ts))

PushAndPop(r, p, key) ==
  IF p.fec /\ p.marker THEN PopFrame(r, p, key) ELSE Insert(r, p, key)

=============================================================================
