------------------------- MODULE RtpHandler_proofs --------------------------
(***************************************************************************)
(* Theorems about the receive path, for every number space, reach, set of  *)
(* frame shapes and length of the streams: first what holds of any         *)
(* traffic, then, over the first cycle of the sequence numbers, where      *)
(* 16-bit numbers are places, what the decoder is handed: no assert fails, *)
(* and RtpHandler implements FrameDelivery.                                *)
(***************************************************************************)
EXTENDS RtpHandler, SeqNum_proofs, FiniteSetTheorems, SequenceTheorems, LeastNumber

-----------------------------------------------------------------------------
(* The peer's packets. *)

LEMMA ModIsSeqNumber ==
  ASSUME NEW p \in Nat
  PROVE  p % SeqSpan \in SeqNumbers
BY PlaceSplits

LEMMA NoPayloadIsPayload == NoPayload \in Payloads
<1>1. << >> \in Seq(NaluTypes)
  OBVIOUS
<1>2. "none" \in PayloadKinds
  BY DEF PayloadKinds
<1>3. QED
  BY <1>1, <1>2 DEF NoPayload, Payloads

(* A frame is a sequence of packets numbered on from its first place.      *)
LEMMA FrameIsNumbered ==
  ASSUME NEW shape, IsFrameShape(shape), NEW pos \in Nat, NEW ts \in Nat
  PROVE  /\ FramePackets(shape, pos, ts) \in Seq(Packets)
         /\ \A i \in DOMAIN FramePackets(shape, pos, ts) :
              /\ FramePackets(shape, pos, ts)[i].id = pos + i - 1
              /\ FramePackets(shape, pos, ts)[i].seq = (pos + i - 1) % SeqSpan
              /\ FramePackets(shape, pos, ts)[i].ts = ts
<1> DEFINE n == Len(shape.data)
           m == n + shape.fecNum
           F == FramePackets(shape, pos, ts)
<1>1. /\ n \in Nat \ {0} /\ shape.fecNum \in Nat \ {0} /\ m \in Nat
      /\ shape.data \in Seq(Payloads) /\ DOMAIN shape.data = 1 .. n
  BY DEF IsFrameShape
<1>2. F = [i \in 1 .. m |->
             IF i <= n
             THEN MediaPacket(pos + i - 1, ts, i = n, shape.data[i])
             ELSE FecPacket(pos + i - 1, ts, i = m, pos, pos + n - 1, shape.fecNum)]
  BY DEF FramePackets
<1>3. ASSUME NEW i \in 1 .. m
      PROVE  /\ F[i] \in Packets
             /\ F[i].id = pos + i - 1
             /\ F[i].seq = (pos + i - 1) % SeqSpan
             /\ F[i].ts = ts
  <2>1. /\ pos + i - 1 \in Nat /\ pos + n - 1 \in Nat
        /\ (pos + i - 1) % SeqSpan \in SeqNumbers
        /\ pos % SeqSpan \in SeqNumbers
        /\ (pos + n - 1) % SeqSpan \in SeqNumbers
    <3>1. pos + i - 1 \in Nat /\ pos + n - 1 \in Nat
      BY <1>1
    <3>2. QED BY <3>1, ModIsSeqNumber
  <2>2. CASE i <= n
    <3>1. shape.data[i] \in Payloads
      BY <1>1, <2>2
    <3>2. F[i] = MediaPacket(pos + i - 1, ts, i = n, shape.data[i])
      BY <1>2, <2>2
    <3>3. 0 \in SeqNumbers
      BY HalfSeqAssumption DEF SeqNumbers, SeqSpan
    <3>4. QED
      BY <3>1, <3>2, <3>3, <2>1 DEF MediaPacket, Packets
  <2>3. CASE ~(i <= n)
    <3>1. F[i] = FecPacket(pos + i - 1, ts, i = m, pos, pos + n - 1, shape.fecNum)
      BY <1>2, <2>3
    <3>2. NoPayload \in Payloads
      BY NoPayloadIsPayload
    <3>3. QED
      BY <3>1, <3>2, <2>1, <1>1 DEF FecPacket, Packets
  <2>4. QED BY <2>2, <2>3
<1>4. F \in Seq(Packets) /\ DOMAIN F = 1 .. m
  BY <1>1, <1>2, <1>3
<1>5. QED BY <1>3, <1>4

-----------------------------------------------------------------------------
(* What PushAndPop does to the jitter buffer. *)

(* A last FEC packet leaves what is not older than itself; any other       *)
(* packet is added under its key.                                          *)
LEMMA PushAndPopJitter ==
  ASSUME NEW r, NEW p, NEW key \in Nat, p.fec \in BOOLEAN, p.marker \in BOOLEAN,
         DOMAIN r.jitter \subseteq Nat
  PROVE  LET q == PushAndPop(r, p, key).rcv
         IN  /\ p.fec /\ p.marker =>
                  /\ q.lastPopped = p.seq
                  /\ DOMAIN q.jitter = {k \in DOMAIN r.jitter : k >= key}
                  /\ \A k \in DOMAIN q.jitter : q.jitter[k] = r.jitter[k]
             /\ ~(p.fec /\ p.marker) =>
                  /\ q.lastPopped = r.lastPopped
                  /\ DOMAIN q.jitter = DOMAIN r.jitter \cup {key}
                  /\ \A k \in DOMAIN q.jitter :
                       q.jitter[k] = IF k \in DOMAIN r.jitter THEN r.jitter[k]
                                                              ELSE p
<1> DEFINE q == PushAndPop(r, p, key).rcv
<1>1. CASE p.fec /\ p.marker
  <2>1. q = [jitter |-> Restrict(r.jitter, DOMAIN r.jitter \ PoppedKeys(r, key)),
             lastPopped |-> p.seq, lastTs |-> p.ts]
    BY <1>1 DEF PushAndPop, PopFrame, Pushed
  <2>2. DOMAIN r.jitter \ PoppedKeys(r, key) = {k \in DOMAIN r.jitter : k >= key}
    BY DEF PoppedKeys
  <2>3. QED
    BY <1>1, <2>1, <2>2 DEF Restrict
<1>2. CASE ~(p.fec /\ p.marker)
  <2>1. q = [jitter |-> IF key \in DOMAIN r.jitter THEN r.jitter
                        ELSE Put(r.jitter, key, p),
             lastPopped |-> r.lastPopped, lastTs |-> r.lastTs]
    BY <1>2, Zenon DEF PushAndPop, Insert, Pushed
  <2>2. QED
    BY <1>2, <2>1 DEF Put
<1>3. QED BY <1>1, <1>2

-----------------------------------------------------------------------------
(* What a call of HandleRtpPacket leaves in ssrcInfoMap. *)

LEMMA PowerSeqNat ==
  ASSUME NEW c \in Nat, NEW t \in SeqNumbers
  PROVE  PowerSeq(c, t) \in Nat
BY HalfSeqAssumption, Z3 DEF PowerSeq, SeqNumbers, SeqSpan

LEMMA UnwrapTyped ==
  ASSUME NEW b \in SeqNumbers, NEW c \in Nat, NEW t \in SeqNumbers
  PROVE  /\ Unwrap(b, c, t).biggestSeq \in SeqNumbers
         /\ Unwrap(b, c, t).biggestCycle \in Nat
         /\ Unwrap(b, c, t).itemCycle \in Nat
BY DEF Unwrap, Unwrapped

LEMMA InfoTyped ==
  ASSUME TypeOK, NEW s \in Ssrcs
  PROVE  /\ Info(s).biggestSeq \in SeqNumbers
         /\ Info(s).biggestCycle \in Nat
         /\ DOMAIN Info(s).rcv.jitter \subseteq Nat
         /\ \A k \in DOMAIN Info(s).rcv.jitter : Info(s).rcv.jitter[k] \in Packets
         /\ Info(s).rcv.lastPopped \in SeqNumbers \cup {-1}
<1>1. CASE s \in DOMAIN ssrcInfoMap
  BY <1>1 DEF TypeOK, Info, Streams
<1>2. CASE s \notin DOMAIN ssrcInfoMap
  <2>1. Info(s) = NewSSRCInfo
    BY <1>2 DEF Info
  <2>2. /\ NewSSRCInfo.biggestSeq = 0 /\ NewSSRCInfo.biggestCycle = 0
        /\ NewSSRCInfo.rcv.jitter = << >> /\ NewSSRCInfo.rcv.lastPopped = -1
    BY DEF NewSSRCInfo, NewReceiver, kShitRecvPowerSeqInitValue
  <2>3. DOMAIN NewSSRCInfo.rcv.jitter = {}
    BY <2>2
  <2>4. 0 \in SeqNumbers
    BY HalfSeqAssumption DEF SeqNumbers, SeqSpan
  <2>5. QED BY <2>1, <2>2, <2>3, <2>4
<1>3. QED BY <1>1, <1>2

(* The receiver is left alone or given the packet. *)
LEMMA HandlerStores ==
  ASSUME NEW s, NEW p, HandleRtpPacket(s, p)
  PROVE  \E rcv, unp :
           /\ StoreInfo(s, p, rcv, unp)
           /\ \/ Ignored(s, p) /\ rcv = Info(s).rcv
              \/ /\ ~Ignored(s, p)
                 /\ rcv = PushAndPop(Info(s).rcv, p, GetPowerSeq(s, p)).rcv
<1>1. CASE IgnoreStale(s, p)
  BY <1>1, Zenon DEF IgnoreStale
<1>2. CASE PushAndDump(s, p)
  BY <1>2, Zenon DEF PushAndDump
<1>3. QED BY <1>1, <1>2, Zenon DEF HandleRtpPacket

LEMMA StoredInfo ==
  ASSUME NEW s, NEW p, NEW rcv, NEW unp, StoreInfo(s, p, rcv, unp)
  PROVE  /\ DOMAIN ssrcInfoMap' = DOMAIN ssrcInfoMap \cup {s}
         /\ \A x \in DOMAIN ssrcInfoMap : x # s => ssrcInfoMap'[x] = ssrcInfoMap[x]
         /\ ssrcInfoMap'[s].biggestSeq = UnwrapFor(s, p).biggestSeq
         /\ ssrcInfoMap'[s].biggestCycle = UnwrapFor(s, p).biggestCycle
         /\ ssrcInfoMap'[s].rcv = rcv
         /\ ssrcInfoMap'[s].unp = unp
BY DEF StoreInfo, Put

-----------------------------------------------------------------------------
(* The type invariant. *)

LEMMA SendersTyped ==
  ASSUME TypeOK, NEW s \in Ssrcs
  PROVE  /\ NextPos(s) \in Nat /\ LastTs(s) \in Nat
         /\ NextPos(s) = StartPos + Len(sent[s])
<1>1. sent[s] \in Seq(Packets)
  BY DEF TypeOK
<1>2. StartPos \in Nat
  BY HandlerAssumption, HalfSeqAssumption DEF SeqNumbers, SeqSpan
<1>3. LastTs(s) \in Nat
  <2>1. CASE sent[s] = << >>
    BY <2>1 DEF LastTs
  <2>2. CASE sent[s] # << >>
    <3>1. sent[s][Len(sent[s])] \in Packets
      BY <1>1, <2>2
    <3>2. QED BY <3>1, <2>2 DEF LastTs, Last, Packets
  <2>3. QED BY <2>1, <2>2
<1>4. QED BY <1>1, <1>2, <1>3 DEF NextPos

(* What the peer appends to a stream continues its numbering. *)
LEMMA SendSteps ==
  ASSUME TypeOK, SendFrame \/ SendAudio
  PROVE  \E s \in Ssrcs, new \in Seq(Packets) :
           /\ sent' = [sent EXCEPT ![s] = @ \o new]
           /\ \A i \in DOMAIN new :
                /\ new[i].id = NextPos(s) + i - 1
                /\ new[i].seq = (NextPos(s) + i - 1) % SeqSpan
           /\ UNCHANGED << newest, handlerVars >>
<1>1. CASE SendFrame
  <2>1. VideoSsrc \in Ssrcs
    BY DEF Ssrcs
  <2>2. PICK shape \in FrameShapes :
          sent' = [sent EXCEPT ![VideoSsrc] =
                     @ \o FramePackets(shape, NextPos(VideoSsrc),
                                       LastTs(VideoSsrc) + 1)]
    BY <1>1 DEF SendFrame
  <2> DEFINE pos == NextPos(VideoSsrc)
             ts == LastTs(VideoSsrc) + 1
             new == FramePackets(shape, pos, ts)
  <2>3. pos \in Nat /\ ts \in Nat
    BY <2>1, SendersTyped
  <2>4. sent' = [sent EXCEPT ![VideoSsrc] = @ \o new]
    BY <2>2
  <2>5. IsFrameShape(shape)
    BY HandlerAssumption, Zenon
  <2> HIDE DEF pos, ts
  <2>6. /\ new \in Seq(Packets)
        /\ \A i \in DOMAIN new :
             /\ new[i].id = pos + i - 1
             /\ new[i].seq = (pos + i - 1) % SeqSpan
    BY <2>3, <2>5, FrameIsNumbered
  <2> HIDE DEF new
  <2>7. UNCHANGED << newest, handlerVars >>
    BY <1>1 DEF SendFrame
  <2>8. QED BY <2>1, <2>6, <2>4, <2>7 DEF pos
<1>2. CASE SendAudio
  <2> DEFINE pos == NextPos(AudioSsrc)
             p == MediaPacket(pos, LastTs(AudioSsrc) + 1, FALSE, NoPayload)
             new == << p >>
  <2>1. AudioSsrc \in Ssrcs
    BY DEF Ssrcs
  <2>2. pos \in Nat /\ LastTs(AudioSsrc) + 1 \in Nat /\ pos % SeqSpan \in SeqNumbers
    BY <2>1, SendersTyped, ModIsSeqNumber
  <2>3. p \in Packets
    <3>1. 0 \in SeqNumbers
      BY HalfSeqAssumption DEF SeqNumbers, SeqSpan
    <3>2. QED
      BY <2>2, <3>1, NoPayloadIsPayload DEF MediaPacket, Packets
  <2>4. p.id = pos /\ p.seq = pos % SeqSpan
    BY DEF MediaPacket
  <2>5. sent' = [sent EXCEPT ![AudioSsrc] = @ \o new]
    BY <1>2 DEF SendAudio
  <2> HIDE DEF p, pos
  <2>6. new \in Seq(Packets) /\ DOMAIN new = {1} /\ new[1] = p
    BY <2>3
  <2>7. \A i \in DOMAIN new :
           new[i].id = pos + i - 1 /\ new[i].seq = (pos + i - 1) % SeqSpan
    <3>1. pos + 1 - 1 = pos
      BY <2>2
    <3>2. QED BY <2>4, <2>6, <3>1
  <2>8. UNCHANGED << newest, handlerVars >>
    BY <1>2 DEF SendAudio
  <2> HIDE DEF new
  <2>9. QED BY <2>1, <2>5, <2>6, <2>7, <2>8 DEF pos
<1>3. QED BY <1>1, <1>2

LEMMA SendKeepsTypes ==
  ASSUME TypeOK, SendFrame \/ SendAudio
  PROVE  TypeOK'
<1>1. PICK s \in Ssrcs, new \in Seq(Packets) :
        /\ sent' = [sent EXCEPT ![s] = @ \o new]
        /\ UNCHANGED << newest, handlerVars >>
  BY SendSteps
<1>2. sent' \in [Ssrcs -> Seq(Packets)]
  <2>1. sent[s] \in Seq(Packets)
    BY DEF TypeOK
  <2>2. sent[s] \o new \in Seq(Packets)
    BY <2>1
  <2>3. QED BY <1>1, <2>2 DEF TypeOK
<1>3. QED
  BY <1>1, <1>2 DEF TypeOK, handlerVars, Streams

LEMMA ReceiveKeepsTypes ==
  ASSUME TypeOK, NEW s \in Ssrcs, NEW i \in DOMAIN sent[s],
         Receive(s, sent[s][i])
  PROVE  TypeOK'
<1> DEFINE p == sent[s][i]
           key == GetPowerSeq(s, p)
<1>1. p \in Packets
  BY DEF TypeOK
<1>2. p.seq \in SeqNumbers /\ p.id \in Nat /\ p.fec \in BOOLEAN /\ p.marker \in BOOLEAN
  BY <1>1 DEF Packets
<1> HIDE DEF p
<1>3. HandleRtpPacket(s, p)
  BY DEF Receive, p
<1>4. PICK rcv, unp :
        /\ StoreInfo(s, p, rcv, unp)
        /\ \/ rcv = Info(s).rcv
           \/ rcv = PushAndPop(Info(s).rcv, p, key).rcv
  BY <1>3, HandlerStores
<1>5. /\ UnwrapFor(s, p).biggestSeq \in SeqNumbers
      /\ UnwrapFor(s, p).biggestCycle \in Nat
      /\ key \in Nat
  BY <1>2, InfoTyped, UnwrapTyped, PowerSeqNat DEF UnwrapFor, GetPowerSeq
<1> HIDE DEF key
<1>6. /\ DOMAIN rcv.jitter \subseteq Nat
      /\ \A k \in DOMAIN rcv.jitter : rcv.jitter[k] \in Packets
      /\ rcv.lastPopped \in SeqNumbers \cup {-1}
  <2>1. CASE rcv = Info(s).rcv
    BY <2>1, InfoTyped
  <2>2. CASE rcv = PushAndPop(Info(s).rcv, p, key).rcv
    <3> DEFINE r == Info(s).rcv
    <3>1. /\ DOMAIN r.jitter \subseteq Nat
          /\ \A k \in DOMAIN r.jitter : r.jitter[k] \in Packets
          /\ r.lastPopped \in SeqNumbers \cup {-1}
      BY InfoTyped
    <3> HIDE DEF r
    <3>2. rcv = PushAndPop(r, p, key).rcv
      BY <2>2 DEF r
    <3>3. /\ p.fec /\ p.marker =>
              /\ rcv.lastPopped = p.seq
              /\ DOMAIN rcv.jitter = {k \in DOMAIN r.jitter : k >= key}
              /\ \A k \in DOMAIN rcv.jitter : rcv.jitter[k] = r.jitter[k]
          /\ ~(p.fec /\ p.marker) =>
              /\ rcv.lastPopped = r.lastPopped
              /\ DOMAIN rcv.jitter = DOMAIN r.jitter \cup {key}
              /\ \A k \in DOMAIN rcv.jitter :
                   rcv.jitter[k] = IF k \in DOMAIN r.jitter THEN r.jitter[k] ELSE p
      BY <1>2, <1>5, <3>1, <3>2, PushAndPopJitter
    <3>4. QED
      BY <1>1, <1>2, <1>5, <3>1, <3>3
  <2>3. QED BY <1>4, <2>1, <2>2
<1>7. newest' \in [Ssrcs -> Nat \cup {-1}]
  BY <1>2 DEF Receive, p, TypeOK
<1>8. /\ upAudioSSRC' \in {AudioSsrc, NoSsrc}
      /\ upVideoSSRC' \in {VideoSsrc, NoSsrc}
  BY <1>3 DEF HandleRtpPacket, NoteSsrc, TypeOK
<1>9. /\ DOMAIN ssrcInfoMap' \subseteq Ssrcs
      /\ \A x \in Streams' :
           /\ ssrcInfoMap'[x].biggestSeq \in SeqNumbers
           /\ ssrcInfoMap'[x].biggestCycle \in Nat
           /\ DOMAIN ssrcInfoMap'[x].rcv.jitter \subseteq Nat
           /\ \A k \in DOMAIN ssrcInfoMap'[x].rcv.jitter :
                ssrcInfoMap'[x].rcv.jitter[k] \in Packets
           /\ ssrcInfoMap'[x].rcv.lastPopped \in SeqNumbers \cup {-1}
  <2>1. /\ DOMAIN ssrcInfoMap' = DOMAIN ssrcInfoMap \cup {s}
        /\ \A x \in DOMAIN ssrcInfoMap : x # s => ssrcInfoMap'[x] = ssrcInfoMap[x]
        /\ ssrcInfoMap'[s].biggestSeq = UnwrapFor(s, p).biggestSeq
        /\ ssrcInfoMap'[s].biggestCycle = UnwrapFor(s, p).biggestCycle
        /\ ssrcInfoMap'[s].rcv = rcv
    BY <1>4, StoredInfo
  <2>2. DOMAIN ssrcInfoMap' \subseteq Ssrcs
    BY <2>1 DEF TypeOK
  <2> SUFFICES ASSUME NEW x \in Streams'
               PROVE  /\ ssrcInfoMap'[x].biggestSeq \in SeqNumbers
                      /\ ssrcInfoMap'[x].biggestCycle \in Nat
                      /\ DOMAIN ssrcInfoMap'[x].rcv.jitter \subseteq Nat
                      /\ \A k \in DOMAIN ssrcInfoMap'[x].rcv.jitter :
                           ssrcInfoMap'[x].rcv.jitter[k] \in Packets
                      /\ ssrcInfoMap'[x].rcv.lastPopped \in SeqNumbers \cup {-1}
    BY <2>2
  <2>3. CASE x = s
    BY <2>1, <2>3, <1>5, <1>6
  <2>4. CASE x # s
    <3>1. x \in Streams /\ ssrcInfoMap'[x] = ssrcInfoMap[x]
      BY <2>1, <2>4 DEF Streams
    <3>2. QED BY <3>1 DEF TypeOK
  <2>5. QED BY <2>3, <2>4
<1>10. sent' = sent
  BY DEF Receive
<1>11. QED
  BY <1>7, <1>8, <1>9, <1>10 DEF TypeOK

LEMMA InitTyped == Init => TypeOK
<1> SUFFICES ASSUME Init PROVE TypeOK
  OBVIOUS
<1>1. sent \in [Ssrcs -> Seq(Packets)]
  BY DEF Init
<1>2. newest \in [Ssrcs -> Nat \cup {-1}]
  BY HandlerAssumption, HalfSeqAssumption DEF Init, SeqNumbers, SeqSpan
<1>3. DOMAIN ssrcInfoMap = {}
  BY DEF Init
<1>4. QED BY <1>1, <1>2, <1>3 DEF Init, TypeOK, Streams

LEMMA StutterTyped == TypeOK /\ UNCHANGED vars => TypeOK'
BY DEF vars, handlerVars, TypeOK, Streams

(* Whatever the network does, the state of the handler keeps its types.    *)
THEOREM TypeCorrect == Spec => []TypeOK
<1>1. Init => TypeOK
  BY InitTyped
<1>2. TypeOK /\ [Next]_vars => TypeOK'
  <2> SUFFICES ASSUME TypeOK, [Next]_vars PROVE TypeOK'
    OBVIOUS
  <2>1. CASE SendFrame \/ SendAudio
    BY <2>1, SendKeepsTypes
  <2>2. CASE ReceiveAny
    BY <2>2, ReceiveKeepsTypes DEF ReceiveAny
  <2>3. CASE UNCHANGED vars
    BY <2>3, StutterTyped
  <2>4. QED BY <2>1, <2>2, <2>3 DEF Next
<1>3. QED BY <1>1, <1>2, PTL DEF Spec

-----------------------------------------------------------------------------
(* UnwrapExact. *)

(* The packets of a stream are numbered on from StartPos. *)
Numbered ==
  \A s \in Ssrcs : \A i \in DOMAIN sent[s] :
    /\ sent[s][i].id = StartPos + i - 1
    /\ sent[s][i].seq = sent[s][i].id % SeqSpan

(* A stream the handler does not know has not been received from. *)
NothingSeen == \A s \in Ssrcs \ DOMAIN ssrcInfoMap : newest[s] = StartPos - 1

(* UnwrapExact is inductive once it is known which places a packet can     *)
(* stand for (Numbered) and where the first one can be (NothingSeen).      *)
ExactInv == TypeOK /\ Numbered /\ NothingSeen /\ UnwrapExact

LEMMA ConcatAt ==
  ASSUME NEW S, NEW a \in Seq(S), NEW b \in Seq(S), NEW i \in DOMAIN (a \o b)
  PROVE  /\ i \in Nat
         /\ i \in DOMAIN a => (a \o b)[i] = a[i]
         /\ i \notin DOMAIN a =>
              i - Len(a) \in DOMAIN b /\ (a \o b)[i] = b[i - Len(a)]
OBVIOUS

LEMMA SendKeepsExact ==
  ASSUME ExactInv, SendFrame \/ SendAudio
  PROVE  ExactInv'
<1>1. TypeOK'
  BY SendKeepsTypes DEF ExactInv
<1>2. PICK s \in Ssrcs, new \in Seq(Packets) :
        /\ sent' = [sent EXCEPT ![s] = @ \o new]
        /\ \A i \in DOMAIN new :
             /\ new[i].id = NextPos(s) + i - 1
             /\ new[i].seq = (NextPos(s) + i - 1) % SeqSpan
        /\ UNCHANGED << newest, handlerVars >>
  BY SendSteps DEF ExactInv
<1>3. Numbered'
  <2> SUFFICES ASSUME NEW x \in Ssrcs, NEW i \in DOMAIN sent'[x]
               PROVE  /\ sent'[x][i].id = StartPos + i - 1
                      /\ sent'[x][i].seq = sent'[x][i].id % SeqSpan
    BY DEF Numbered
  <2>1. sent \in [Ssrcs -> Seq(Packets)]
    BY DEF ExactInv, TypeOK
  <2>2. CASE x # s
    BY <1>2, <2>1, <2>2 DEF ExactInv, Numbered
  <2>3. CASE x = s
    <3>1. sent'[x] = sent[s] \o new /\ sent[s] \in Seq(Packets)
      BY <1>2, <2>1, <2>3
    <3>2. /\ i \in Nat
          /\ i \in DOMAIN sent[s] => sent'[x][i] = sent[s][i]
          /\ i \notin DOMAIN sent[s] =>
               /\ i - Len(sent[s]) \in DOMAIN new
               /\ sent'[x][i] = new[i - Len(sent[s])]
      BY <3>1, ConcatAt
    <3>3. CASE i \in DOMAIN sent[s]
      BY <3>2, <3>3 DEF ExactInv, Numbered
    <3>4. CASE i \notin DOMAIN sent[s]
      <4> DEFINE j == i - Len(sent[s])
      <4>1. NextPos(s) + j - 1 = StartPos + i - 1
        BY <3>1, <3>2, SendersTyped, HandlerAssumption
           DEF ExactInv, SeqNumbers
      <4>2. QED BY <1>2, <3>2, <3>4, <4>1
    <3>5. QED BY <3>3, <3>4
  <2>4. QED BY <2>2, <2>3
<1>4. NothingSeen' /\ UnwrapExact'
  BY <1>2 DEF ExactInv, NothingSeen, UnwrapExact, Streams, handlerVars
<1>5. QED BY <1>1, <1>3, <1>4 DEF ExactInv

(* A packet in reach is filed under its place, known stream or new. *)
LEMMA ReceivedExact ==
  ASSUME FirstSeqAheadOfZero, ExactInv,
         NEW s \in Ssrcs, NEW i \in DOMAIN sent[s], InReach(s, sent[s][i])
  PROVE  LET p == sent[s][i]
             u == UnwrapFor(s, p)
         IN  /\ p.id \in Nat
             /\ GetPowerSeq(s, p) = p.id
             /\ PowerSeq(u.biggestCycle, u.biggestSeq)
                  = IF p.id > newest[s] THEN p.id ELSE newest[s]
<1> DEFINE p == sent[s][i]
           u == UnwrapFor(s, p)
<1>1. /\ p.id \in Nat /\ p.seq = p.id % SeqSpan
      /\ p.id = StartPos + i - 1 /\ i \in Nat \ {0}
      /\ newest[s] \in Nat \cup {-1}
  <2>1. sent[s] \in Seq(Packets) /\ newest[s] \in Nat \cup {-1}
    BY DEF ExactInv, TypeOK
  <2>2. i \in Nat \ {0} /\ p \in Packets
    BY <2>1
  <2>3. p.id = StartPos + i - 1 /\ p.seq = p.id % SeqSpan
    BY DEF ExactInv, Numbered
  <2> HIDE DEF p
  <2>4. p.id \in Nat
    BY <2>2 DEF Packets
  <2>5. QED BY <2>1, <2>2, <2>3, <2>4
<1>2. StartPos \in Nat /\ Reach \in Nat /\ Reach < HalfSeq /\ HalfSeq \in Nat
  BY HandlerAssumption, HalfSeqAssumption DEF SeqNumbers
<1>3. p.id <= newest[s] + Reach /\ newest[s] - Reach <= p.id
  BY DEF InReach
<1> HIDE DEF p
<1>4. CASE s \in DOMAIN ssrcInfoMap
  <2> DEFINE b == ssrcInfoMap[s].biggestSeq
             c == ssrcInfoMap[s].biggestCycle
  <2>1. b \in SeqNumbers /\ c \in Nat /\ PowerSeq(c, b) = newest[s]
    BY <1>4 DEF ExactInv, TypeOK, UnwrapExact, Streams
  <2>2. u = Unwrap(b, c, p.id % SeqSpan)
    BY <1>1, <1>4 DEF UnwrapFor, Info
  <2> HIDE DEF b, c
  <2>3. PowerSeq(c, b) - HalfSeq < p.id /\ p.id < PowerSeq(c, b) + HalfSeq
    BY <1>1, <1>2, <1>3, <2>1
  <2>4. /\ PowerSeq(u.biggestCycle, u.biggestSeq)
             = IF p.id > PowerSeq(c, b) THEN p.id ELSE PowerSeq(c, b)
        /\ PowerSeq(u.itemCycle, p.id % SeqSpan) = p.id
    BY <1>1, <2>1, <2>2, <2>3, UnwrapNear
  <2>5. QED BY <1>1, <2>1, <2>4 DEF GetPowerSeq, p
<1>5. CASE s \notin DOMAIN ssrcInfoMap
  <2>1. newest[s] = StartPos - 1
    BY <1>5 DEF ExactInv, NothingSeen
  <2>2. p.id <= HalfSeq /\ p.id > newest[s]
    BY <1>1, <1>2, <1>3, <2>1 DEF FirstSeqAheadOfZero
  <2>3. u = Unwrap(0, 0, p.id % SeqSpan)
    BY <1>1, <1>5 DEF UnwrapFor, Info, NewSSRCInfo
  <2>4. /\ PowerSeq(u.biggestCycle, u.biggestSeq) = p.id
        /\ PowerSeq(u.itemCycle, p.id % SeqSpan) = p.id
    BY <1>1, <2>2, <2>3, UnwrapFirst
  <2>5. QED BY <1>1, <2>2, <2>4 DEF GetPowerSeq, p
<1>6. QED BY <1>4, <1>5

LEMMA ReceiveKeepsExact ==
  ASSUME FirstSeqAheadOfZero, ExactInv,
         NEW s \in Ssrcs, NEW i \in DOMAIN sent[s],
         InReach(s, sent[s][i]), Receive(s, sent[s][i])
  PROVE  ExactInv'
<1> DEFINE p == sent[s][i]
           u == UnwrapFor(s, p)
           key == GetPowerSeq(s, p)
<1>1. TypeOK'
  BY ReceiveKeepsTypes DEF ExactInv
<1>2. /\ p.id \in Nat /\ key = p.id
      /\ PowerSeq(u.biggestCycle, u.biggestSeq)
           = IF p.id > newest[s] THEN p.id ELSE newest[s]
  BY ReceivedExact
<1>3. p \in Packets
  BY DEF ExactInv, TypeOK
<1>4. /\ HandleRtpPacket(s, p) /\ sent' = sent
      /\ newest' = [newest EXCEPT ![s] = IF p.id > @ THEN p.id ELSE @]
      /\ newest \in [Ssrcs -> Nat \cup {-1}]
  BY DEF Receive, ExactInv, TypeOK
<1> HIDE DEF p, u, key
<1>5. PICK rcv, unp :
        /\ StoreInfo(s, p, rcv, unp)
        /\ \/ rcv = Info(s).rcv
           \/ rcv = PushAndPop(Info(s).rcv, p, key).rcv
  BY <1>4, HandlerStores DEF key
<1>6. /\ DOMAIN ssrcInfoMap' = DOMAIN ssrcInfoMap \cup {s}
      /\ \A x \in DOMAIN ssrcInfoMap : x # s => ssrcInfoMap'[x] = ssrcInfoMap[x]
      /\ ssrcInfoMap'[s].biggestSeq = u.biggestSeq
      /\ ssrcInfoMap'[s].biggestCycle = u.biggestCycle
      /\ ssrcInfoMap'[s].rcv = rcv
  BY <1>5, StoredInfo DEF u
<1>7. \A k \in DOMAIN rcv.jitter : rcv.jitter[k].id = k
  <2> DEFINE r == Info(s).rcv
  <2>1. \A k \in DOMAIN r.jitter : r.jitter[k].id = k
    <3>1. CASE s \in DOMAIN ssrcInfoMap
      BY <3>1 DEF Info, ExactInv, UnwrapExact, Streams
    <3>2. CASE s \notin DOMAIN ssrcInfoMap
      <4>1. r.jitter = << >>
        BY <3>2 DEF Info, NewSSRCInfo, NewReceiver
      <4> HIDE DEF r
      <4>2. DOMAIN r.jitter = {}
        BY <4>1
      <4>3. QED BY <4>2
    <3>3. QED BY <3>1, <3>2
  <2>2. DOMAIN r.jitter \subseteq Nat
    BY InfoTyped DEF ExactInv
  <2>3. p.fec \in BOOLEAN /\ p.marker \in BOOLEAN
    BY <1>3 DEF Packets
  <2> HIDE DEF r
  <2>4. CASE rcv = PushAndPop(r, p, key).rcv
    <3>1. /\ p.fec /\ p.marker =>
              /\ DOMAIN rcv.jitter = {k \in DOMAIN r.jitter : k >= key}
              /\ \A k \in DOMAIN rcv.jitter : rcv.jitter[k] = r.jitter[k]
          /\ ~(p.fec /\ p.marker) =>
              /\ DOMAIN rcv.jitter = DOMAIN r.jitter \cup {key}
              /\ \A k \in DOMAIN rcv.jitter :
                   rcv.jitter[k] = IF k \in DOMAIN r.jitter THEN r.jitter[k] ELSE p
      BY <1>2, <2>2, <2>3, <2>4, PushAndPopJitter
    <3>2. QED BY <1>2, <2>1, <3>1
  <2>5. CASE rcv = r
    BY <2>1, <2>5
  <2>6. QED BY <1>5, <2>4, <2>5 DEF r
<1>8. UnwrapExact'
  <2> SUFFICES ASSUME NEW x \in Streams'
               PROVE  /\ PowerSeq(ssrcInfoMap'[x].biggestCycle,
                                  ssrcInfoMap'[x].biggestSeq) = newest'[x]
                      /\ \A k \in DOMAIN ssrcInfoMap'[x].rcv.jitter :
                           ssrcInfoMap'[x].rcv.jitter[k].id = k
    BY DEF UnwrapExact
  <2>1. CASE x = s
    BY <2>1, <1>2, <1>4, <1>6, <1>7
  <2>2. CASE x # s
    <3>1. /\ x \in Streams /\ ssrcInfoMap'[x] = ssrcInfoMap[x]
          /\ newest'[x] = newest[x]
      BY <2>2, <1>4, <1>6 DEF Streams
    <3>2. QED BY <3>1 DEF ExactInv, UnwrapExact
  <2>3. QED BY <2>1, <2>2
<1>9. NothingSeen'
  BY <1>4, <1>6 DEF ExactInv, NothingSeen
<1>10. Numbered'
  BY <1>4 DEF ExactInv, Numbered
<1>11. QED BY <1>1, <1>8, <1>9, <1>10 DEF ExactInv

LEMMA InitExact == Init => ExactInv
<1> SUFFICES ASSUME Init PROVE ExactInv
  OBVIOUS
<1>1. TypeOK
  BY InitTyped
<1>2. DOMAIN ssrcInfoMap = {} /\ \A s \in Ssrcs : DOMAIN sent[s] = {}
  BY DEF Init
<1>3. QED
  BY <1>1, <1>2 DEF Init, ExactInv, Numbered, NothingSeen, UnwrapExact, Streams

LEMMA StutterExact == ExactInv /\ UNCHANGED vars => ExactInv'
<1> SUFFICES ASSUME ExactInv, UNCHANGED vars PROVE ExactInv'
  OBVIOUS
<1>1. TypeOK'
  BY StutterTyped DEF ExactInv
<1>2. QED
  BY <1>1 DEF vars, handlerVars, ExactInv, Numbered, NothingSeen, UnwrapExact,
              Streams

LEMMA ReachesExact ==
  ASSUME FirstSeqAheadOfZero
  PROVE  Spec => []ExactInv
<1>1. Init => ExactInv
  BY InitExact
<1>2. ExactInv /\ [Next]_vars => ExactInv'
  <2> SUFFICES ASSUME ExactInv, [Next]_vars PROVE ExactInv'
    OBVIOUS
  <2>1. CASE SendFrame \/ SendAudio
    BY <2>1, SendKeepsExact
  <2>2. CASE ReceiveAny
    BY <2>2, ReceiveKeepsExact DEF ReceiveAny
  <2>3. CASE UNCHANGED vars
    BY <2>3, StutterExact
  <2>4. QED BY <2>1, <2>2, <2>3 DEF Next
<1>3. QED BY <1>1, <1>2, PTL DEF Spec

(* HandleRtpPacket extends every sequence number to the packet's true      *)
(* place, over any number of wrap-arounds, whatever the network loses,     *)
(* repeats or reorders within less than half the number space - provided   *)
(* that the first packet is in the lower half.                             *)
THEOREM ExtensionExact ==
  ASSUME FirstSeqAheadOfZero
  PROVE  Spec => []UnwrapExact
<1>1. ExactInv => UnwrapExact
  BY DEF ExactInv
<1>2. QED BY <1>1, ReachesExact, PTL

(* A packet in reach that is numerically above the newest number but not   *)
(* ahead of it is of the cycle before, so there is one.                    *)
LEMMA OlderCycleExists ==
  ASSUME ExactInv, NEW s \in Streams, NEW i \in DOMAIN sent[s],
         InReach(s, sent[s][i]),
         sent[s][i].seq > Info(s).biggestSeq,
         ~AheadOf(sent[s][i].seq, Info(s).biggestSeq)
  PROVE  Info(s).biggestCycle > 0
<1> DEFINE p == sent[s][i]
           b == Info(s).biggestSeq
           c == Info(s).biggestCycle
           d == p.id \div SeqSpan
<1>1. /\ s \in Ssrcs /\ Info(s) = ssrcInfoMap[s]
      /\ b \in SeqNumbers /\ c \in Nat /\ PowerSeq(c, b) = newest[s]
  BY DEF ExactInv, TypeOK, UnwrapExact, Info, Streams
<1>2. p \in Packets /\ p.seq = p.id % SeqSpan
  BY <1>1 DEF ExactInv, TypeOK, Numbered
<1>3. p.id <= newest[s] + Reach
  BY DEF InReach
<1>4. p.seq > b /\ ~AheadOf(p.seq, b)
  OBVIOUS
<1> HIDE DEF p, b, c
<1>5. p.id \in Nat
  BY <1>2 DEF Packets
<1>6. p.seq \in SeqNumbers /\ d \in Nat /\ p.id = PowerSeq(d, p.seq)
  BY <1>2, <1>5, PlaceSplits
<1> HIDE DEF d
<1> SUFFICES ASSUME c = 0 PROVE FALSE
  BY <1>1 DEF c
<1>7. newest[s] = b
  BY <1>1, HalfSeqAssumption DEF PowerSeq, SeqNumbers, SeqSpan
<1>8. d = 0
  <2>1. CASE d >= 1
    <3>1. 1 * SeqSpan <= d * SeqSpan
      BY <2>1, <1>6, SpanTimes
    <3>2. QED
      BY <3>1, <1>1, <1>3, <1>4, <1>6, <1>7, HandlerAssumption, HalfSeqAssumption
         DEF PowerSeq, SeqNumbers, SeqSpan
  <2>2. QED BY <1>6, <2>1
<1>9. p.seq <= b + Reach
  BY <1>3, <1>6, <1>7, <1>8, HalfSeqAssumption DEF PowerSeq, SeqNumbers, SeqSpan
<1>10. QED
  BY <1>1, <1>4, <1>6, <1>9, HandlerAssumption, HalfSeqAssumption
     DEF AheadOf, AheadOrAt, ForwardDiff, SeqNumbers, SeqSpan

(* An honest packet is never older than the first cycle, however late it   *)
(* is, so the branch of the comment "should not reach here unless hacker   *)
(* attacks us" (rtp_handler.cc:605-607) is not taken.                      *)
THEOREM FirstCycleIsFirst ==
  ASSUME FirstSeqAheadOfZero
  PROVE  Spec => []NothingBeforeFirstCycle
<1>1. ExactInv => NothingBeforeFirstCycle
  BY OlderCycleExists DEF NothingBeforeFirstCycle
<1>2. QED BY <1>1, ReachesExact, PTL

-----------------------------------------------------------------------------
(* The receiver over the first cycle of the sequence numbers, where the    *)
(* 16-bit lastPoppedPowerSeq_ is a power sequence.                         *)

FirstCycle ==
  \A s \in Ssrcs : \A i \in DOMAIN sent[s] : sent[s][i].id < SeqSpan

LastFec(p) == p.fec /\ p.marker

(* The jitter buffer holds packets of the stream, none that pops a frame.  *)
JitterFromStream ==
  \A s \in Streams : \A k \in DOMAIN ssrcInfoMap[s].rcv.jitter :
    /\ \E i \in DOMAIN sent[s] : sent[s][i] = ssrcInfoMap[s].rcv.jitter[k]
    /\ ~LastFec(ssrcInfoMap[s].rcv.jitter[k])

(* lastPoppedPowerSeq_ is the number of a packet that popped a frame.      *)
PoppedByLastFec ==
  \A s \in Streams :
    \/ ssrcInfoMap[s].rcv.lastPopped = -1
    \/ \E i \in DOMAIN sent[s] : /\ LastFec(sent[s][i])
                                 /\ sent[s][i].seq = ssrcInfoMap[s].rcv.lastPopped

(* A packet with the number of lastPoppedPowerSeq_ passes the stale check. *)
(* It cannot enter the jitter buffer for being the very packet that popped *)
(* it, and one that pops cannot be in the buffer already: hence these two. *)
PoppedInv ==
  ExactInv /\ JitterFromStream /\ PoppedByLastFec /\ JitterAfterPopped

(* A place of a stream identifies its packet. *)
LEMMA PlaceIsUnique ==
  ASSUME ExactInv, NEW s \in Ssrcs,
         NEW i \in DOMAIN sent[s], NEW j \in DOMAIN sent[s],
         sent[s][i].id = sent[s][j].id
  PROVE  sent[s][i] = sent[s][j]
<1>1. sent[s] \in Seq(Packets)
  BY DEF ExactInv, TypeOK
<1>2. i \in Nat /\ j \in Nat
  BY <1>1
<1>3. StartPos + i - 1 = StartPos + j - 1
  BY DEF ExactInv, Numbered
<1>4. i = j
  BY <1>2, <1>3, HandlerAssumption DEF SeqNumbers
<1>5. QED BY <1>4

LEMMA SendKeepsPopped ==
  ASSUME PoppedInv, SendFrame \/ SendAudio
  PROVE  PoppedInv'
<1>1. ExactInv'
  BY SendKeepsExact DEF PoppedInv
<1>2. PICK s \in Ssrcs, new \in Seq(Packets) :
        /\ sent' = [sent EXCEPT ![s] = @ \o new]
        /\ UNCHANGED << newest, handlerVars >>
  BY SendSteps DEF PoppedInv, ExactInv
<1>3. /\ sent \in [Ssrcs -> Seq(Packets)] /\ DOMAIN ssrcInfoMap \subseteq Ssrcs
      /\ ssrcInfoMap' = ssrcInfoMap
  BY <1>2 DEF PoppedInv, ExactInv, TypeOK, handlerVars
<1>4. \A x \in Ssrcs : \A i \in DOMAIN sent[x] :
        i \in DOMAIN sent'[x] /\ sent'[x][i] = sent[x][i]
  <2> SUFFICES ASSUME NEW x \in Ssrcs, NEW i \in DOMAIN sent[x]
               PROVE  i \in DOMAIN sent'[x] /\ sent'[x][i] = sent[x][i]
    OBVIOUS
  <2>1. CASE x # s
    BY <1>2, <1>3, <2>1
  <2>2. CASE x = s
    <3>1. sent'[x] = sent[x] \o new /\ sent[x] \in Seq(Packets)
      BY <1>2, <1>3, <2>2
    <3>2. QED BY <3>1
  <2>3. QED BY <2>1, <2>2
<1>5. Streams' = Streams /\ Streams \subseteq Ssrcs
  BY <1>3 DEF Streams
<1>6. JitterFromStream'
  BY <1>3, <1>4, <1>5 DEF PoppedInv, JitterFromStream
<1>7. PoppedByLastFec'
  <2> SUFFICES ASSUME NEW x \in Streams, ssrcInfoMap[x].rcv.lastPopped # -1
               PROVE  \E i \in DOMAIN sent'[x] :
                        /\ LastFec(sent'[x][i])
                        /\ sent'[x][i].seq = ssrcInfoMap[x].rcv.lastPopped
    BY <1>3, <1>5 DEF PoppedByLastFec, LastFec
  <2>1. PICK i \in DOMAIN sent[x] : /\ LastFec(sent[x][i])
                                    /\ sent[x][i].seq = ssrcInfoMap[x].rcv.lastPopped
    BY DEF PoppedInv, PoppedByLastFec
  <2>2. i \in DOMAIN sent'[x] /\ sent'[x][i] = sent[x][i]
    BY <1>4, <1>5
  <2>3. QED BY <2>1, <2>2
<1>8. JitterAfterPopped'
  BY <1>3, <1>5 DEF PoppedInv, JitterAfterPopped
<1>9. QED BY <1>1, <1>6, <1>7, <1>8 DEF PoppedInv

(* What a received packet does to its receiver, in the first cycle. *)
LEMMA ReceivePops ==
  ASSUME FirstSeqAheadOfZero, FirstCycle, PoppedInv,
         NEW s \in Ssrcs, NEW i \in DOMAIN sent[s],
         InReach(s, sent[s][i]), Receive(s, sent[s][i])
  PROVE  LET p == sent[s][i]
             r == Info(s).rcv
             q == ssrcInfoMap'[s].rcv
         IN  \/ q = r
             \/ /\ p.id >= r.lastPopped /\ LastFec(p)
                /\ q.lastPopped = p.id
                /\ DOMAIN q.jitter = {k \in DOMAIN r.jitter : k >= p.id}
                /\ \A k \in DOMAIN q.jitter : q.jitter[k] = r.jitter[k]
             \/ /\ p.id >= r.lastPopped /\ ~LastFec(p)
                /\ q.lastPopped = r.lastPopped
                /\ DOMAIN q.jitter = DOMAIN r.jitter \cup {p.id}
                /\ \A k \in DOMAIN q.jitter :
                     q.jitter[k] = IF k \in DOMAIN r.jitter THEN r.jitter[k] ELSE p
<1> DEFINE p == sent[s][i]
           r == Info(s).rcv
           key == GetPowerSeq(s, p)
<1>1. p.id \in Nat /\ key = p.id
  BY ReceivedExact DEF PoppedInv
<1>2. p \in Packets /\ p.seq = p.id % SeqSpan
  BY DEF PoppedInv, ExactInv, TypeOK, Numbered
<1>3. p.id < SeqSpan
  BY DEF FirstCycle
<1>4. HandleRtpPacket(s, p)
  BY DEF Receive
<1> HIDE DEF p
<1>5. p.seq = p.id
  <2>1. p.id % SeqSpan = p.id
    BY <1>1, <1>3, HalfSeqAssumption, Z3 DEF SeqSpan
  <2>2. QED BY <1>2, <2>1
<1>6. p.fec \in BOOLEAN /\ p.marker \in BOOLEAN
  BY <1>2 DEF Packets
<1>7. DOMAIN r.jitter \subseteq Nat /\ r.lastPopped \in SeqNumbers \cup {-1}
  BY InfoTyped DEF PoppedInv, ExactInv
<1>8. PICK rcv, unp :
        /\ StoreInfo(s, p, rcv, unp)
        /\ \/ rcv = r
           \/ /\ ~(key < r.lastPopped)
              /\ rcv = PushAndPop(r, p, key).rcv
  BY <1>4, HandlerStores DEF Ignored
<1>9. ssrcInfoMap'[s].rcv = rcv
  BY <1>8, StoredInfo
<1> HIDE DEF r, key
<1>10. CASE rcv = PushAndPop(r, p, key).rcv /\ ~(key < r.lastPopped)
  <2>1. p.id >= r.lastPopped
    BY <1>1, <1>7, <1>10 DEF SeqNumbers
  <2>2. /\ p.fec /\ p.marker =>
            /\ rcv.lastPopped = p.seq
            /\ DOMAIN rcv.jitter = {k \in DOMAIN r.jitter : k >= key}
            /\ \A k \in DOMAIN rcv.jitter : rcv.jitter[k] = r.jitter[k]
        /\ ~(p.fec /\ p.marker) =>
            /\ rcv.lastPopped = r.lastPopped
            /\ DOMAIN rcv.jitter = DOMAIN r.jitter \cup {key}
            /\ \A k \in DOMAIN rcv.jitter :
                 rcv.jitter[k] = IF k \in DOMAIN r.jitter THEN r.jitter[k] ELSE p
    BY <1>1, <1>6, <1>7, <1>10, PushAndPopJitter
  <2>3. QED BY <1>1, <1>5, <1>9, <2>1, <2>2 DEF LastFec, p, r
<1>11. QED BY <1>8, <1>9, <1>10 DEF r

LEMMA ReceiveKeepsPopped ==
  ASSUME FirstSeqAheadOfZero, FirstCycle, PoppedInv,
         NEW s \in Ssrcs, NEW i \in DOMAIN sent[s],
         InReach(s, sent[s][i]), Receive(s, sent[s][i])
  PROVE  PoppedInv'
<1> DEFINE p == sent[s][i]
           r == Info(s).rcv
           q == ssrcInfoMap'[s].rcv
<1>1. ExactInv'
  BY ReceiveKeepsExact DEF PoppedInv
<1>2. /\ sent' = sent /\ HandleRtpPacket(s, p)
  BY DEF Receive
<1>3. PICK rcv, unp : StoreInfo(s, p, rcv, unp)
  BY <1>2, HandlerStores
<1>4. /\ DOMAIN ssrcInfoMap' = DOMAIN ssrcInfoMap \cup {s}
      /\ \A x \in DOMAIN ssrcInfoMap : x # s => ssrcInfoMap'[x] = ssrcInfoMap[x]
  BY <1>3, StoredInfo
<1>5. /\ p \in Packets /\ p.id \in Nat /\ p.seq = p.id
      /\ \A j \in DOMAIN sent[s] : sent[s][j].seq = sent[s][j].id
  <2> SUFFICES ASSUME NEW j \in DOMAIN sent[s]
               PROVE  /\ sent[s][j] \in Packets
                      /\ sent[s][j].id \in Nat /\ sent[s][j].seq = sent[s][j].id
    OBVIOUS
  <2> DEFINE x == sent[s][j]
  <2>1. x \in Packets /\ x.seq = x.id % SeqSpan /\ x.id < SeqSpan
    BY DEF PoppedInv, ExactInv, TypeOK, Numbered, FirstCycle
  <2> HIDE DEF x
  <2>2. x.id \in Nat
    BY <2>1 DEF Packets
  <2>3. x.id % SeqSpan = x.id
    BY <2>1, <2>2, HalfSeqAssumption, Z3 DEF SeqSpan
  <2>4. QED BY <2>1, <2>2, <2>3 DEF x
<1>6. /\ \A k \in DOMAIN r.jitter :
           /\ \E j \in DOMAIN sent[s] : sent[s][j] = r.jitter[k]
           /\ ~LastFec(r.jitter[k])
           /\ r.jitter[k].id = k /\ k > r.lastPopped
      /\ \/ r.lastPopped = -1
         \/ \E j \in DOMAIN sent[s] : /\ LastFec(sent[s][j])
                                      /\ sent[s][j].seq = r.lastPopped
      /\ DOMAIN r.jitter \subseteq Nat /\ r.lastPopped \in Int
  <2>1. DOMAIN r.jitter \subseteq Nat /\ r.lastPopped \in Int
    BY InfoTyped, HalfSeqAssumption DEF PoppedInv, ExactInv, SeqNumbers
  <2>2. CASE s \in DOMAIN ssrcInfoMap
    <3>1. s \in Streams /\ r = ssrcInfoMap[s].rcv
      BY <2>2 DEF Streams, Info
    <3>2. QED
      BY <2>1, <3>1 DEF PoppedInv, ExactInv, UnwrapExact, JitterFromStream,
                        PoppedByLastFec, JitterAfterPopped
  <2>3. CASE s \notin DOMAIN ssrcInfoMap
    <3>1. r.jitter = << >> /\ r.lastPopped = -1
      BY <2>3 DEF Info, NewSSRCInfo, NewReceiver, kShitRecvPowerSeqInitValue
    <3> HIDE DEF r
    <3>2. DOMAIN r.jitter = {}
      BY <3>1
    <3>3. QED BY <2>1, <3>1, <3>2
  <2>4. QED BY <2>2, <2>3
<1>7. \A j \in DOMAIN sent[s] : sent[s][j].id = p.id => sent[s][j] = p
  BY PlaceIsUnique DEF PoppedInv
<1>8. \/ q = r
      \/ /\ p.id >= r.lastPopped /\ LastFec(p)
         /\ q.lastPopped = p.id
         /\ DOMAIN q.jitter = {k \in DOMAIN r.jitter : k >= p.id}
         /\ \A k \in DOMAIN q.jitter : q.jitter[k] = r.jitter[k]
      \/ /\ p.id >= r.lastPopped /\ ~LastFec(p)
         /\ q.lastPopped = r.lastPopped
         /\ DOMAIN q.jitter = DOMAIN r.jitter \cup {p.id}
         /\ \A k \in DOMAIN q.jitter :
              q.jitter[k] = IF k \in DOMAIN r.jitter THEN r.jitter[k] ELSE p
  BY ReceivePops
<1>9. i \in DOMAIN sent[s] /\ sent[s][i] = p
  OBVIOUS
<1> HIDE DEF p, q, r
<1>10. /\ \A k \in DOMAIN q.jitter :
            /\ \E j \in DOMAIN sent[s] : sent[s][j] = q.jitter[k]
            /\ ~LastFec(q.jitter[k])
            /\ k > q.lastPopped
       /\ \/ q.lastPopped = -1
          \/ \E j \in DOMAIN sent[s] : /\ LastFec(sent[s][j])
                                       /\ sent[s][j].seq = q.lastPopped
  <2>1. CASE q = r
    BY <1>6, <2>1
  <2>2. CASE /\ p.id >= r.lastPopped /\ LastFec(p)
             /\ q.lastPopped = p.id
             /\ DOMAIN q.jitter = {k \in DOMAIN r.jitter : k >= p.id}
             /\ \A k \in DOMAIN q.jitter : q.jitter[k] = r.jitter[k]
    <3>1. \A k \in DOMAIN r.jitter : k # p.id
      BY <1>6, <1>7, <2>2
    <3>2. \A k \in DOMAIN q.jitter : k > q.lastPopped
      BY <1>5, <1>6, <2>2, <3>1
    <3>3. QED BY <1>5, <1>6, <1>9, <2>2, <3>2
  <2>3. CASE /\ p.id >= r.lastPopped /\ ~LastFec(p)
             /\ q.lastPopped = r.lastPopped
             /\ DOMAIN q.jitter = DOMAIN r.jitter \cup {p.id}
             /\ \A k \in DOMAIN q.jitter :
                  q.jitter[k] = IF k \in DOMAIN r.jitter THEN r.jitter[k] ELSE p
    <3>1. p.id # r.lastPopped
      BY <1>5, <1>6, <1>7, <2>3
    <3>2. p.id > r.lastPopped
      BY <1>5, <1>6, <2>3, <3>1
    <3>3. QED BY <1>6, <1>9, <2>3, <3>2
  <2>4. QED BY <1>8, <2>1, <2>2, <2>3
<1>11. JitterFromStream' /\ PoppedByLastFec' /\ JitterAfterPopped'
  <2> SUFFICES ASSUME NEW x \in Streams'
               PROVE  /\ \A k \in DOMAIN ssrcInfoMap'[x].rcv.jitter :
                           /\ \E j \in DOMAIN sent[x] :
                                sent[x][j] = ssrcInfoMap'[x].rcv.jitter[k]
                           /\ ~LastFec(ssrcInfoMap'[x].rcv.jitter[k])
                           /\ k > ssrcInfoMap'[x].rcv.lastPopped
                      /\ \/ ssrcInfoMap'[x].rcv.lastPopped = -1
                         \/ \E j \in DOMAIN sent[x] :
                              /\ LastFec(sent[x][j])
                              /\ sent[x][j].seq = ssrcInfoMap'[x].rcv.lastPopped
    BY <1>2 DEF JitterFromStream, PoppedByLastFec, JitterAfterPopped, LastFec
  <2>1. CASE x = s
    BY <1>10, <2>1 DEF q
  <2>2. CASE x # s
    <3>1. x \in Streams /\ ssrcInfoMap'[x] = ssrcInfoMap[x]
      BY <1>4, <2>2 DEF Streams
    <3>2. QED
      BY <3>1 DEF PoppedInv, JitterFromStream, PoppedByLastFec, JitterAfterPopped
  <2>3. QED BY <2>1, <2>2
<1>12. QED BY <1>1, <1>11 DEF PoppedInv

LEMMA InitPopped == Init => PoppedInv
<1> SUFFICES ASSUME Init PROVE PoppedInv
  OBVIOUS
<1>1. DOMAIN ssrcInfoMap = {}
  BY DEF Init
<1>2. QED
  BY <1>1, InitExact DEF PoppedInv, JitterFromStream, PoppedByLastFec,
                         JitterAfterPopped, Streams

LEMMA NextKeepsPopped ==
  ASSUME FirstSeqAheadOfZero
  PROVE  PoppedInv /\ FirstCycle /\ [Next]_vars => PoppedInv'
<1> SUFFICES ASSUME PoppedInv, FirstCycle, [Next]_vars PROVE PoppedInv'
  OBVIOUS
<1>1. CASE SendFrame \/ SendAudio
  BY <1>1, SendKeepsPopped
<1>2. CASE ReceiveAny
  BY <1>2, ReceiveKeepsPopped DEF ReceiveAny
<1>3. CASE UNCHANGED vars
  BY <1>3, StutterExact
     DEF vars, handlerVars, PoppedInv, JitterFromStream, PoppedByLastFec,
         JitterAfterPopped, Streams
<1>4. QED BY <1>1, <1>2, <1>3 DEF Next

(* Over the first cycle of the sequence numbers nothing at or below        *)
(* lastPoppedPowerSeq_ enters the jitter buffer: a frame that has been     *)
(* popped, or given up, is never collected again.                          *)
THEOREM PoppedStaysPopped ==
  ASSUME FirstSeqAheadOfZero
  PROVE  Spec /\ []FirstCycle => []JitterAfterPopped
<1>1. PoppedInv => JitterAfterPopped
  BY DEF PoppedInv
<1>2. QED BY <1>1, InitPopped, NextKeepsPopped, PTL DEF Spec

(* Over the first cycle the receiver pops in the order of the stream. *)
THEOREM PopsInOrder ==
  ASSUME FirstSeqAheadOfZero
  PROVE  Spec /\ []FirstCycle => NeverPopsBack
<1> DEFINE Forward ==
      \A s \in Streams :
        ssrcInfoMap'[s].rcv.lastPopped >= ssrcInfoMap[s].rcv.lastPopped
<1>1. PoppedInv /\ FirstCycle /\ [Next]_vars => [Forward]_vars
  <2> SUFFICES ASSUME PoppedInv, FirstCycle, Next, NEW s \in Streams
               PROVE  ssrcInfoMap'[s].rcv.lastPopped
                        >= ssrcInfoMap[s].rcv.lastPopped
    OBVIOUS
  <2>1. ssrcInfoMap[s].rcv.lastPopped \in Int
    BY HalfSeqAssumption
       DEF PoppedInv, ExactInv, TypeOK, Streams, SeqNumbers
  <2>2. CASE SendFrame \/ SendAudio
    <3>1. ssrcInfoMap' = ssrcInfoMap
      BY <2>2 DEF SendFrame, SendAudio, handlerVars
    <3>2. QED BY <2>1, <3>1
  <2>3. CASE ReceiveAny
    <3>1. PICK t \in Ssrcs : \E i \in DOMAIN sent[t] :
            InReach(t, sent[t][i]) /\ Receive(t, sent[t][i])
      BY <2>3 DEF ReceiveAny
    <3>2. PICK i \in DOMAIN sent[t] :
            InReach(t, sent[t][i]) /\ Receive(t, sent[t][i])
      BY <3>1
    <3>3. CASE t # s
      <4>1. PICK rcv, unp : StoreInfo(t, sent[t][i], rcv, unp)
        BY <3>2, HandlerStores DEF Receive
      <4>2. ssrcInfoMap'[s] = ssrcInfoMap[s]
        BY <3>3, <4>1, StoredInfo DEF Streams
      <4>3. QED BY <2>1, <4>2
    <3>4. CASE t = s
      <4>1. Info(s) = ssrcInfoMap[s]
        BY DEF Info, Streams
      <4>2. \/ ssrcInfoMap'[s].rcv = ssrcInfoMap[s].rcv
            \/ /\ sent[s][i].id >= ssrcInfoMap[s].rcv.lastPopped
               /\ ssrcInfoMap'[s].rcv.lastPopped = sent[s][i].id
            \/ ssrcInfoMap'[s].rcv.lastPopped = ssrcInfoMap[s].rcv.lastPopped
        BY <3>2, <3>4, <4>1, ReceivePops
      <4>3. QED BY <2>1, <4>2
    <3>5. QED BY <3>3, <3>4
  <2>4. QED BY <2>2, <2>3 DEF Next
<1>2. QED
  BY <1>1, InitPopped, NextKeepsPopped, PTL DEF Spec, NeverPopsBack

-----------------------------------------------------------------------------
(* Folds.  FoldLeft is defined by a recursion over the subsets of the      *)
(* indices; what is needed of it is the values between one element and the *)
(* next.                                                                   *)

(* The steps of the three folds: DumpPacket for a packet of a popped group, *)
(* ParseNalu for a unit of a payload, and the units of a packet of a frame. *)
(* c holds what does not change from step to step.                         *)
FoldStep(kind, e, x, c) ==
  IF kind = "dump"
  THEN IF c.s # VideoSsrc \/ e.ret # 0 \/ e.abort # NoAbort THEN e
       ELSE DumpVideo(e, x, c.initOk, c.decodeOk)
  ELSE IF kind = "parse"
  THEN IF e.ret # 0 THEN e ELSE ParseNalu(e.unp, x, c.id)
  ELSE e \o [i \in DOMAIN x.payload.nalus |-> << x.payload.nalus[i], x.id >>]

FoldRound(g, r, kind, d, xs, c) ==
  IF r = {} THEN d ELSE FoldStep(kind, g[r \ {Max(r)}], xs[Max(r)], c)

FoldSolves(g, n, kind, d, xs, c) ==
  g = [r \in SUBSET (1 .. n) |-> FoldRound(g, r, kind, d, xs, c)]

LEMMA FoldSolutionExists ==
  ASSUME NEW n \in Nat, NEW kind, NEW d, NEW xs, NEW c
  PROVE  \E g : FoldSolves(g, n, kind, d, xs, c)
<1> DEFINE Body(g, r) == FoldRound(g, r, kind, d, xs, c)
           Is(g, k) == FoldSolves(g, k, kind, d, xs, c)
           q == {k \in Nat : \E g : Is(g, k)}
<1>1. 0 \in q
  <2> DEFINE g == [r \in SUBSET (1 .. 0) |-> d]
  <2>1. \A r \in SUBSET (1 .. 0) : r = {}
    OBVIOUS
  <2>2. \A r \in SUBSET (1 .. 0) : Body(g, r) = d
    BY <2>1 DEF FoldRound
  <2>3. Is(g, 0)
    BY <2>2 DEF FoldSolves
  <2> QED
    BY <2>3, Zenon
<1>2. ASSUME NEW k \in 0 .. n - 1, k \in q PROVE k + 1 \in q
  <2>1. PICK f : Is(f, k)
    BY <1>2
  <2> DEFINE g == [r \in SUBSET (1 .. k + 1) |-> Body(f, r)]
  <2>2. ASSUME NEW r \in SUBSET (1 .. k + 1) PROVE Body(f, r) = Body(g, r)
    <3>1. CASE r = {}
      BY <3>1 DEF FoldRound
    <3>2. CASE r # {}
      <4> DEFINE l == r \ {Max(r)}
      <4>1. k + 1 \in Nat
        OBVIOUS
      <4>2. PICK m : m = Max(r)
        OBVIOUS
      <4>3. m \in 1 .. k + 1 /\ l \subseteq 1 .. m - 1
        BY <3>2, <4>1, <4>2, MaxIs
      <4>4. l \in SUBSET (1 .. k) /\ l \in SUBSET (1 .. k + 1)
        BY <4>3
      <4> HIDE DEF l
      <4>5. f[l] = Body(f, l)
        BY <2>1, <4>4 DEF FoldSolves
      <4>6. g[l] = Body(f, l)
        BY <4>4
      <4>7. f[l] = g[l]
        BY <4>5, <4>6
      <4> QED
        BY <3>2, <4>7, Zenon DEF FoldRound, l
    <3> QED
      BY <3>1, <3>2
  <2>3. g = [r \in SUBSET (1 .. k + 1) |-> Body(g, r)]
    BY <2>2
  <2>4. Is(g, k + 1)
    BY <2>3, Zenon DEF FoldSolves
  <2> HIDE DEF g, Is
  <2>5. k + 1 \in Nat
    OBVIOUS
  <2> QED
    BY <2>4, <2>5, Zenon
<1> HIDE DEF q
<1>3. \A k \in 0 .. n : k \in q
  BY <1>1, <1>2, CountUp
<1>4. n \in q
  BY <1>3
<1> QED
  BY <1>4 DEF q

(* The values of a fold, one after the other. *)
FoldValues(F, n, kind, d, xs, c) ==
  /\ F[0] = d
  /\ \A i \in 1 .. n : F[i] = FoldStep(kind, F[i - 1], xs[i], c)

LEMMA FoldSolutionSteps ==
  ASSUME NEW n \in Nat, NEW kind, NEW d, NEW xs, NEW c,
         NEW g, FoldSolves(g, n, kind, d, xs, c)
  PROVE  \E F : FoldValues(F, n, kind, d, xs, c) /\ g[1 .. n] = F[n]
<1> DEFINE F == [i \in 0 .. n |-> g[1 .. i]]
<1>1. F[0] = d
  <2>1. 1 .. 0 = {} /\ 1 .. 0 \in SUBSET (1 .. n)
    OBVIOUS
  <2>2. g[1 .. 0] = FoldRound(g, 1 .. 0, kind, d, xs, c)
    BY <2>1 DEF FoldSolves
  <2>3. g[1 .. 0] = d
    BY <2>1, <2>2 DEF FoldRound
  <2> QED
    BY <2>3
<1>2. ASSUME NEW i \in 1 .. n
      PROVE  F[i] = FoldStep(kind, F[i - 1], xs[i], c)
  <2>1. 1 .. i \in SUBSET (1 .. n) /\ 1 .. i # {}
    OBVIOUS
  <2>2. Max(1 .. i) = i /\ (1 .. i) \ {i} = 1 .. i - 1
    BY MaxOfRange
  <2>3. g[1 .. i] = FoldRound(g, 1 .. i, kind, d, xs, c)
    BY <2>1 DEF FoldSolves
  <2>4. g[1 .. i] = FoldStep(kind, g[1 .. i - 1], xs[i], c)
    BY <2>1, <2>2, <2>3 DEF FoldRound
  <2>5. i - 1 \in 0 .. n /\ i \in 0 .. n
    OBVIOUS
  <2> QED
    BY <2>4, <2>5
<1>3. F[n] = g[1 .. n]
  OBVIOUS
<1> HIDE DEF F
<1> QED
  BY <1>1, <1>2, <1>3 DEF FoldValues

LEMMA DumpAllSteps ==
  ASSUME NEW d, NEW s, NEW packets, NEW n \in Nat, DOMAIN packets = 1 .. n,
         NEW initOk, NEW decodeOk,
         NEW c, c = [s |-> s, initOk |-> initOk, decodeOk |-> decodeOk]
  PROVE  \E F : /\ FoldValues(F, n, "dump", d, packets, c)
                /\ DumpAll(d, s, packets, initOk, decodeOk) = F[n]
<1> DEFINE Round(g, r) ==
             IF r = {} THEN d
             ELSE IF \/ s # VideoSsrc
                     \/ g[r \ {Max(r)}].ret # 0
                     \/ g[r \ {Max(r)}].abort # NoAbort
             THEN g[r \ {Max(r)}]
             ELSE DumpVideo(g[r \ {Max(r)}], packets[Max(r)], initOk, decodeOk)
           Is(g) == g = [r \in SUBSET (1 .. n) |-> Round(g, r)]
           it == CHOOSE g : Is(g)
<1>1. \A g, r : Round(g, r) = FoldRound(g, r, "dump", d, packets, c)
  BY DEF FoldRound, FoldStep
<1>2. \A g : Is(g) <=> FoldSolves(g, n, "dump", d, packets, c)
  BY <1>1 DEF FoldSolves
<1>3. \E g : Is(g)
  BY <1>2, FoldSolutionExists
<1>4. Is(it)
  BY <1>3, Zenon
<1>5. DumpAll(d, s, packets, initOk, decodeOk) = it[1 .. n]
  BY Zenon DEF DumpAll, FoldLeft, MapThenFoldSet
<1> HIDE DEF it, Is
<1>6. FoldSolves(it, n, "dump", d, packets, c)
  BY <1>2, <1>4
<1> QED
  BY <1>5, <1>6, FoldSolutionSteps

(* The fold of ParseStapAOrSingleNalu_. *)
ParseAll(u, nalus, id) ==
  FoldLeft(LAMBDA st, type : IF st.ret # 0 THEN st ELSE ParseNalu(st.unp, type, id),
           Parsed(u, 0), nalus)

LEMMA ParseAllSteps ==
  ASSUME NEW u, NEW nalus, NEW n \in Nat, DOMAIN nalus = 1 .. n, NEW id,
         NEW c, c = [id |-> id]
  PROVE  \E F : /\ FoldValues(F, n, "parse", Parsed(u, 0), nalus, c)
                /\ ParseAll(u, nalus, id) = F[n]
<1> DEFINE d == Parsed(u, 0)
           Round(g, r) ==
             IF r = {} THEN d
             ELSE IF g[r \ {Max(r)}].ret # 0 THEN g[r \ {Max(r)}]
             ELSE ParseNalu(g[r \ {Max(r)}].unp, nalus[Max(r)], id)
           Is(g) == g = [r \in SUBSET (1 .. n) |-> Round(g, r)]
           it == CHOOSE g : Is(g)
<1>1. \A g, r : Round(g, r) = FoldRound(g, r, "parse", d, nalus, c)
  BY DEF FoldRound, FoldStep
<1>2. \A g : Is(g) <=> FoldSolves(g, n, "parse", d, nalus, c)
  BY <1>1 DEF FoldSolves
<1>3. \E g : Is(g)
  BY <1>2, FoldSolutionExists
<1>4. Is(it)
  BY <1>3, Zenon
<1>5. ParseAll(u, nalus, id) = it[1 .. n]
  BY Zenon DEF ParseAll, FoldLeft, MapThenFoldSet
<1> HIDE DEF it, Is
<1>6. FoldSolves(it, n, "parse", d, nalus, c)
  BY <1>2, <1>4
<1> QED
  BY <1>5, <1>6, FoldSolutionSteps

LEMMA UnitsSteps ==
  ASSUME NEW packets, NEW n \in Nat, DOMAIN packets = 1 .. n, NEW c
  PROVE  \E F : /\ FoldValues(F, n, "units", << >>, packets, c)
                /\ Units(packets) = F[n]
<1> DEFINE Round(g, r) ==
             IF r = {} THEN << >>
             ELSE g[r \ {Max(r)}]
                    \o [i \in DOMAIN packets[Max(r)].payload.nalus |->
                          << packets[Max(r)].payload.nalus[i], packets[Max(r)].id >>]
           Is(g) == g = [r \in SUBSET (1 .. n) |-> Round(g, r)]
           it == CHOOSE g : Is(g)
<1>1. \A g, r : Round(g, r) = FoldRound(g, r, "units", << >>, packets, c)
  BY DEF FoldRound, FoldStep
<1>2. \A g : Is(g) <=> FoldSolves(g, n, "units", << >>, packets, c)
  BY <1>1 DEF FoldSolves
<1>3. \E g : Is(g)
  BY <1>2, FoldSolutionExists
<1>4. Is(it)
  BY <1>3, Zenon
<1>5. Units(packets) = it[1 .. n]
  BY Zenon DEF Units, FoldLeft, MapThenFoldSet
<1> HIDE DEF it, Is
<1>6. FoldSolves(it, n, "units", << >>, packets, c)
  BY <1>2, <1>4
<1> QED
  BY <1>5, <1>6, FoldSolutionSteps

-----------------------------------------------------------------------------
(* The stream the peer sends is a run of frames. *)

(* The packets at a .. a+n+m-1 are a frame of n data and m FEC packets. *)
IsFrame(stream, a, n, m) ==
  /\ a + n + m - 1 <= Len(stream) /\ n + m <= MaxFecGroup
  /\ \A j \in a .. a + n + m - 1 :
       /\ stream[j].ts = stream[a].ts
       /\ (stream[j].fec <=> j >= a + n)
       /\ (stream[j].marker <=> j = a + n - 1 \/ j = a + n + m - 1)
       /\ stream[j].fec => /\ stream[j].first = stream[a].seq
                           /\ stream[j].last = stream[a + n - 1].seq
                           /\ stream[j].num = m
  /\ \A j \in DOMAIN stream :
       stream[j].ts = stream[a].ts => j \in a .. a + n + m - 1

Positive == Nat \ {0}

LaidOut(stream) ==
  /\ \A i \in DOMAIN stream :
       \E a, n, m \in Positive :
         IsFrame(stream, a, n, m) /\ i \in a .. a + n + m - 1
  /\ \A i, j \in DOMAIN stream : i <= j => stream[i].ts <= stream[j].ts

(* The groups the encoder protects are small enough for the codec. *)
ShapesFit ==
  \A shape \in FrameShapes : Len(shape.data) + shape.fecNum <= MaxFecGroup

(* A frame as FramePackets makes it. *)
IsRun(new, shape, pos, ts, n, m) ==
  /\ n = Len(shape.data) /\ m = shape.fecNum
  /\ Len(new) = n + m
  /\ \A i \in 1 .. n + m :
       new[i] = IF i <= n
                THEN MediaPacket(pos + i - 1, ts, i = n, shape.data[i])
                ELSE FecPacket(pos + i - 1, ts, i = n + m, pos, pos + n - 1, m)

LEMMA FramePacketsAre ==
  ASSUME NEW shape, IsFrameShape(shape), NEW pos \in Nat, NEW ts \in Nat,
         NEW new, new = FramePackets(shape, pos, ts)
  PROVE  \E n, m \in Positive : IsRun(new, shape, pos, ts, n, m)
<1>1. PICK n, m : n = Len(shape.data) /\ m = shape.fecNum
  BY Zenon
<1>2. n \in Positive /\ m \in Positive
  BY <1>1 DEF IsFrameShape, Positive
<1>4. new = [i \in 1 .. n + m |->
               IF i <= n
               THEN MediaPacket(pos + i - 1, ts, i = n, shape.data[i])
               ELSE FecPacket(pos + i - 1, ts, i = n + m, pos, pos + n - 1, m)]
  BY <1>1, Zenon DEF FramePackets
<1>5. n + m \in Nat
  BY <1>2 DEF Positive
<1>6. new \in Seq(Packets)
  BY FrameIsNumbered
<1>7. DOMAIN new = 1 .. n + m
  BY <1>4
<1>8. Len(new) = n + m
  BY <1>5, <1>6, <1>7
<1>9. \A i \in 1 .. n + m :
        new[i] = IF i <= n
                 THEN MediaPacket(pos + i - 1, ts, i = n, shape.data[i])
                 ELSE FecPacket(pos + i - 1, ts, i = n + m, pos, pos + n - 1, m)
  BY <1>4
<1> QED
  BY <1>1, <1>2, <1>8, <1>9, Zenon DEF IsRun

LEMMA MediaMarker ==
  ASSUME NEW pos, NEW ts, NEW marker, NEW payload
  PROVE  MediaPacket(pos, ts, marker, payload).marker = marker
BY DEF MediaPacket

LEMMA FecMarker ==
  ASSUME NEW pos, NEW ts, NEW marker, NEW first, NEW last, NEW num
  PROVE  FecPacket(pos, ts, marker, first, last, num).marker = marker
BY DEF FecPacket

(* The stream longer is stream and the packets of one more frame. *)
Extends(longer, stream, shape, ts) ==
  /\ longer \in Seq(Packets) /\ LaidOut(longer)
  /\ \A j \in DOMAIN stream : j \in DOMAIN longer /\ longer[j] = stream[j]
  /\ \A j \in DOMAIN longer :
       \/ j \in DOMAIN stream
       \/ /\ longer[j].ts = ts
          /\ \/ longer[j].fec
             \/ \E i \in DOMAIN shape.data : longer[j].payload = shape.data[i]
  /\ longer # << >> /\ longer[Len(longer)].ts = ts
  /\ \A a, n, m \in Positive : IsFrame(stream, a, n, m) => IsFrame(longer, a, n, m)
  /\ \E a, n, m \in Positive : IsFrame(longer, a, n, m) /\ longer[a].ts = ts

LEMMA FrameAppended ==
  ASSUME NEW stream \in Seq(Packets), LaidOut(stream),
         NEW shape, IsFrameShape(shape),
         Len(shape.data) + shape.fecNum <= MaxFecGroup,
         NEW pos \in Nat, NEW ts \in Nat,
         \A i \in DOMAIN stream : stream[i].ts < ts
  PROVE  Extends(stream \o FramePackets(shape, pos, ts), stream, shape, ts)
<1>1. PICK new : new = FramePackets(shape, pos, ts)
  OBVIOUS
<1>2. PICK n, m \in Positive : IsRun(new, shape, pos, ts, n, m)
  BY <1>1, FramePacketsAre
<1>3. new \in Seq(Packets)
  BY <1>1, FrameIsNumbered
<1>4. PICK l : l = Len(stream)
  OBVIOUS
<1>5. l \in Nat /\ n \in Nat \ {0} /\ m \in Nat \ {0} /\ DOMAIN stream = 1 .. l
      /\ n + m <= MaxFecGroup /\ Len(new) = n + m
  BY <1>2, <1>4 DEF Positive, IsRun
<1>6. PICK longer : longer = stream \o new
  OBVIOUS
<1>7. /\ longer \in Seq(Packets) /\ Len(longer) = l + n + m
      /\ DOMAIN longer = 1 .. l + n + m
      /\ \A j \in 1 .. l : longer[j] = stream[j]
      /\ \A j \in 1 .. n + m : longer[l + j] = new[j]
  <2>1. longer \in Seq(Packets)
    BY <1>3, <1>6
  <2>2. Len(longer) = l + n + m /\ DOMAIN longer = 1 .. l + n + m
    <3>1. Len(longer) = Len(stream) + Len(new)
      BY <1>3, <1>6
    <3>2. Len(longer) = l + n + m
      BY <1>4, <1>5, <3>1
    <3> QED
      BY <2>1, <3>2
  <2>3. \A j \in 1 .. l : longer[j] = stream[j]
    BY <1>3, <1>4, <1>5, <1>6
  <2>4. DOMAIN new = 1 .. n + m
    BY <1>3, <1>5
  <2>5. \A j \in 1 .. n + m : longer[l + j] = new[j]
    BY <1>3, <1>4, <1>5, <1>6, <2>4
  <2> QED
    BY <2>1, <2>2, <2>3, <2>5
<1>8. \A i \in 1 .. n :
        /\ new[i].ts = ts /\ ~new[i].fec /\ (new[i].marker <=> i = n)
        /\ new[i].seq = (pos + i - 1) % SeqSpan
  <2> SUFFICES ASSUME NEW i \in 1 .. n
               PROVE  /\ new[i].ts = ts /\ ~new[i].fec /\ (new[i].marker <=> i = n)
                      /\ new[i].seq = (pos + i - 1) % SeqSpan
    OBVIOUS
  <2>1. i \in 1 .. n + m /\ i <= n
    BY <1>5
  <2>2. new[i] = MediaPacket(pos + i - 1, ts, i = n, shape.data[i])
    BY <1>2, <2>1, Zenon DEF IsRun
  <2> QED
    <3>1. new[i].ts = ts /\ new[i].seq = (pos + i - 1) % SeqSpan /\ new[i].fec = FALSE
      BY <2>2 DEF MediaPacket
    <3>2. new[i].marker = (i = n)
      <4>1. PICK mk : mk = (i = n)
        OBVIOUS
      <4>2. new[i] = MediaPacket(pos + i - 1, ts, mk, shape.data[i])
        BY <2>2, <4>1, Zenon
      <4>3. new[i].marker = mk
        BY <4>2, MediaMarker
      <4> QED
        BY <4>1, <4>3, Zenon
    <3> QED
      BY <3>1, <3>2, Zenon
<1>9. \A i \in n + 1 .. n + m :
        /\ new[i].ts = ts /\ new[i].fec /\ (new[i].marker <=> i = n + m)
        /\ new[i].first = pos % SeqSpan
        /\ new[i].last = (pos + n - 1) % SeqSpan
        /\ new[i].num = m
  <2> SUFFICES ASSUME NEW i \in n + 1 .. n + m
               PROVE  /\ new[i].ts = ts /\ new[i].fec /\ (new[i].marker <=> i = n + m)
                      /\ new[i].first = pos % SeqSpan
                      /\ new[i].last = (pos + n - 1) % SeqSpan
                      /\ new[i].num = m
    OBVIOUS
  <2>1. i \in 1 .. n + m /\ ~(i <= n)
    BY <1>5
  <2>2. new[i] = FecPacket(pos + i - 1, ts, i = n + m, pos, pos + n - 1, m)
    BY <1>2, <2>1, Zenon DEF IsRun
  <2> QED
    <3>1. /\ new[i].ts = ts /\ new[i].fec = TRUE /\ new[i].num = m
          /\ new[i].first = pos % SeqSpan /\ new[i].last = (pos + n - 1) % SeqSpan
      BY <2>2 DEF FecPacket
    <3>2. new[i].marker = (i = n + m)
      <4>1. PICK mk : mk = (i = n + m)
        OBVIOUS
      <4>2. new[i] = FecPacket(pos + i - 1, ts, mk, pos, pos + n - 1, m)
        BY <2>2, <4>1, Zenon
      <4>3. new[i].marker = mk
        BY <4>2, FecMarker
      <4> QED
        BY <4>1, <4>3, Zenon
    <3> QED
      BY <3>1, <3>2, Zenon
<1>10. \A i \in 1 .. n + m : new[i].ts = ts
  BY <1>5, <1>8, <1>9
<1> HIDE DEF Positive
<1>11. ASSUME NEW a \in Positive, NEW k \in Positive, NEW f \in Positive,
              IsFrame(stream, a, k, f)
       PROVE  IsFrame(longer, a, k, f)
  <2>1. IsFrame(stream, a, k, f)
    BY <1>11
  <2>2. a \in Nat \ {0} /\ k \in Nat \ {0} /\ f \in Nat \ {0}
    BY DEF Positive
  <2>3. a + k + f - 1 <= l /\ k + f <= MaxFecGroup
    BY <1>4, <2>1 DEF IsFrame
  <2>4. \A j \in a .. a + k + f - 1 : j \in 1 .. l
    BY <1>5, <2>2, <2>3
  <2>5. a \in 1 .. l /\ a + k - 1 \in 1 .. l
    BY <1>5, <2>2, <2>3
  <2>6. \A j \in a .. a + k + f - 1 :
          /\ longer[j].ts = longer[a].ts
          /\ (longer[j].fec <=> j >= a + k)
          /\ (longer[j].marker <=> j = a + k - 1 \/ j = a + k + f - 1)
          /\ longer[j].fec => /\ longer[j].first = longer[a].seq
                              /\ longer[j].last = longer[a + k - 1].seq
                              /\ longer[j].num = f
    BY <1>7, <2>1, <2>4, <2>5, Zenon DEF IsFrame
  <2>7. ASSUME NEW j \in DOMAIN longer, longer[j].ts = longer[a].ts
        PROVE  j \in a .. a + k + f - 1
    <3>1. longer[a].ts < ts
      BY <1>5, <1>7, <2>5
    <3>2. CASE j <= l
      <4>1. j \in 1 .. l /\ longer[j] = stream[j] /\ longer[a] = stream[a]
        BY <1>5, <1>7, <2>5, <3>2
      <4> QED
        BY <1>5, <2>1, <2>7, <4>1, Zenon DEF IsFrame
    <3>3. CASE ~(j <= l)
      <4>1. PICK i1 \in 1 .. n + m : j = l + i1
        <5>1. j - l \in 1 .. n + m /\ j = l + (j - l)
          BY <1>5, <1>7, <3>3
        <5> QED
          BY <5>1
      <4>2. longer[j].ts = ts
        BY <1>7, <1>10, <4>1
      <4>3. longer[a].ts # ts
        <5>0. a \in DOMAIN longer
          BY <1>5, <1>7, <2>5
        <5>2. longer[a] \in Packets
          BY <1>7, <5>0
        <5>1. longer[a].ts \in Nat
          BY <5>2 DEF Packets
        <5> QED
          BY <3>1, <5>1
      <4> QED
        BY <2>7, <4>2, <4>3
    <3> QED
      BY <3>2, <3>3
  <2>8. a + k + f - 1 <= Len(longer)
    BY <1>5, <1>7, <2>2, <2>3
  <2>9. IsFrame(longer, a, k, f)
    BY <2>3, <2>6, <2>7, <2>8 DEF IsFrame
  <2> QED
    BY <2>9
<1>12. IsFrame(longer, l + 1, n, m)
  <2>1. PICK a : a = l + 1
    OBVIOUS
  <2>2. \A j \in a .. a + n + m - 1 : j - l \in 1 .. n + m /\ longer[j] = new[j - l]
    <3> SUFFICES ASSUME NEW j \in a .. a + n + m - 1
                 PROVE  j - l \in 1 .. n + m /\ longer[j] = new[j - l]
      OBVIOUS
    <3>1. j - l \in 1 .. n + m /\ l + (j - l) = j
      BY <1>5, <2>1
    <3> QED
      BY <1>7, <3>1
  <2>3. a \in a .. a + n + m - 1 /\ a - l = 1 /\ a + n - 1 \in a .. a + n + m - 1
        /\ a + n - 1 - l = n /\ 1 \in 1 .. n /\ n \in 1 .. n
    BY <1>5, <2>1
  <2>4. longer[a] = new[1] /\ longer[a + n - 1] = new[n]
    <3>1. longer[a] = new[a - l]
      BY <2>2, <2>3
    <3>2. longer[a + n - 1] = new[n]
      <4>1. PICK x : x = a + n - 1
        OBVIOUS
      <4>2. x \in a .. a + n + m - 1 /\ x - l = n
        BY <1>5, <2>1, <4>1
      <4>3. longer[x] = new[x - l]
        BY <2>2, <4>2
      <4>4. longer[x] = new[n]
        BY <4>2, <4>3
      <4> QED
        BY <4>1, <4>4
    <3> QED
      BY <2>3, <3>1, <3>2
  <2>5. longer[a].seq = pos % SeqSpan /\ longer[a + n - 1].seq = (pos + n - 1) % SeqSpan
        /\ longer[a].ts = ts
    <3>1. pos + 1 - 1 = pos
      OBVIOUS
    <3> QED
      BY <1>8, <2>3, <2>4, <3>1
  <2>6. ASSUME NEW j \in a .. a + n + m - 1
        PROVE  /\ longer[j].ts = longer[a].ts
               /\ (longer[j].fec <=> j >= a + n)
               /\ (longer[j].marker <=> j = a + n - 1 \/ j = a + n + m - 1)
               /\ longer[j].fec => /\ longer[j].first = longer[a].seq
                                   /\ longer[j].last = longer[a + n - 1].seq
                                   /\ longer[j].num = m
    <3>1. PICK i : i = j - l
      OBVIOUS
    <3>0. i \in 1 .. n + m /\ longer[j] = new[i]
      BY <2>2, <3>1
    <3>2. CASE i <= n
      <4>1. i \in 1 .. n
        BY <1>5, <3>0, <3>2
      <4>2. /\ longer[j].ts = ts /\ ~longer[j].fec
            /\ (longer[j].marker <=> i = n)
        BY <1>8, <3>0, <4>1
      <4>3. ~(j >= a + n) /\ (i = n <=> j = a + n - 1 \/ j = a + n + m - 1)
        <5>1. ~(j >= a + n) /\ j # a + n + m - 1
          BY <1>5, <2>1, <3>1, <3>2
        <5>2. i = n <=> j = a + n - 1
          BY <1>5, <2>1, <3>1, <3>2
        <5> QED
          BY <5>1, <5>2
      <4> QED
        BY <2>5, <4>2, <4>3, Zenon
    <3>3. CASE ~(i <= n)
      <4>1. i \in n + 1 .. n + m
        BY <1>5, <3>0, <3>3
      <4>2. /\ longer[j].ts = ts /\ longer[j].fec
            /\ (longer[j].marker <=> i = n + m)
            /\ longer[j].first = pos % SeqSpan
            /\ longer[j].last = (pos + n - 1) % SeqSpan
            /\ longer[j].num = m
        BY <1>9, <3>0, <4>1, Zenon
      <4>3. j >= a + n /\ (i = n + m <=> j = a + n - 1 \/ j = a + n + m - 1)
        <5>1. j >= a + n /\ j # a + n - 1
          BY <1>5, <2>1, <3>1, <3>0, <3>3
        <5>2. i = n + m <=> j = a + n + m - 1
          BY <1>5, <2>1, <3>1, <3>0, <3>3
        <5> QED
          BY <5>1, <5>2
      <4> QED
        BY <2>5, <4>2, <4>3, Zenon
    <3> QED
      BY <3>2, <3>3
  <2>7. ASSUME NEW j \in DOMAIN longer, longer[j].ts = longer[a].ts
        PROVE  j \in a .. a + n + m - 1
    <3>1. CASE j <= l
      <4>1. j \in 1 .. l /\ longer[j] = stream[j]
        BY <1>5, <1>7, <3>1
      <4>2. stream[j] \in Packets /\ stream[j].ts < ts
        BY <1>5, <4>1
      <4>3. stream[j].ts \in Nat
        BY <4>2 DEF Packets
      <4> QED
        BY <2>5, <2>7, <4>1, <4>2, <4>3
    <3>2. CASE ~(j <= l)
      BY <1>5, <1>7, <2>1, <3>2
    <3> QED
      BY <3>1, <3>2
  <2>8. a + n + m - 1 <= Len(longer)
    BY <1>5, <1>7, <2>1
  <2>9. IsFrame(longer, a, n, m)
    BY <1>5, <2>6, <2>7, <2>8 DEF IsFrame
  <2> QED
    BY <2>1, <2>9
<1>13. ASSUME NEW i \in DOMAIN longer
       PROVE  \E a, k, f \in Positive :
                IsFrame(longer, a, k, f) /\ i \in a .. a + k + f - 1
  <2>1. CASE i <= l
    <3>1. i \in DOMAIN stream
      BY <1>5, <1>7, <2>1
    <3>2. PICK a, k, f \in Positive :
            IsFrame(stream, a, k, f) /\ i \in a .. a + k + f - 1
      BY <3>1 DEF LaidOut
    <3> QED
      BY <1>11, <3>2, Zenon
  <2>2. CASE ~(i <= l)
    <3>1. i \in l + 1 .. l + 1 + n + m - 1 /\ l + 1 \in Positive
      BY <1>5, <1>7, <2>2 DEF Positive
    <3> QED
      BY <1>12, <3>1
  <2> QED
    BY <2>1, <2>2
<1>14. ASSUME NEW i \in DOMAIN longer, NEW j \in DOMAIN longer, i <= j
       PROVE  longer[i].ts <= longer[j].ts
  <2>1. \A x \in DOMAIN longer :
          \/ x \in 1 .. l /\ longer[x] = stream[x]
          \/ x > l /\ longer[x].ts = ts
    <3> SUFFICES ASSUME NEW x \in DOMAIN longer, ~(x \in 1 .. l)
                 PROVE  x > l /\ longer[x].ts = ts
      BY <1>7
    <3>1. x > l /\ x - l \in 1 .. n + m /\ l + (x - l) = x
      BY <1>5, <1>7
    <3> QED
      BY <1>7, <1>10, <3>1
  <2>2. \A x \in 1 .. l : stream[x].ts \in Nat /\ stream[x].ts < ts
    <3>1. \A x \in 1 .. l : stream[x] \in Packets /\ stream[x].ts < ts
      BY <1>5
    <3> QED
      BY <3>1 DEF Packets
  <2>3. CASE j \in 1 .. l /\ longer[j] = stream[j]
    <3>1. i \in 1 .. l /\ longer[i] = stream[i]
      BY <1>5, <1>7, <1>14, <2>3
    <3> QED
      BY <1>5, <1>14, <2>3, <3>1 DEF LaidOut
  <2>4. CASE j > l /\ longer[j].ts = ts
    BY <2>1, <2>2, <2>4
  <2> QED
    BY <2>1, <2>3, <2>4
<1>15. LaidOut(longer)
  BY <1>13, <1>14 DEF LaidOut
<1>16. \A j \in DOMAIN stream : j \in DOMAIN longer /\ longer[j] = stream[j]
  BY <1>5, <1>7
<1>17. ASSUME NEW j \in DOMAIN longer, j \notin DOMAIN stream
       PROVE  /\ longer[j].ts = ts
              /\ \/ longer[j].fec
                 \/ \E i \in DOMAIN shape.data : longer[j].payload = shape.data[i]
  <2>1. PICK i : i = j - l
    OBVIOUS
  <2>2. i \in 1 .. n + m /\ l + i = j
    BY <1>5, <1>7, <1>17, <2>1
  <2>3. longer[j] = new[i]
    BY <1>7, <2>2
  <2>4. CASE i <= n
    <3>1. new[i] = MediaPacket(pos + i - 1, ts, i = n, shape.data[i])
      BY <1>2, <2>2, <2>4, Zenon DEF IsRun
    <3>2. new[i].payload = shape.data[i]
      <4>1. PICK mk : mk = (i = n)
        OBVIOUS
      <4>2. new[i] = MediaPacket(pos + i - 1, ts, mk, shape.data[i])
        BY <3>1, <4>1, Zenon
      <4> QED
        BY <4>2 DEF MediaPacket
    <3>3. i \in DOMAIN shape.data
      BY <1>2, <1>5, <2>2, <2>4 DEF IsRun, IsFrameShape
    <3> QED
      BY <1>10, <2>2, <2>3, <3>2, <3>3, Zenon
  <2>5. CASE ~(i <= n)
    <3>1. i \in n + 1 .. n + m
      BY <1>5, <2>2, <2>5
    <3> QED
      BY <1>9, <2>3, <3>1, Zenon
  <2> QED
    BY <2>4, <2>5
<1>18. longer # << >> /\ longer[Len(longer)].ts = ts
  <2>1. Len(longer) = l + (n + m) /\ n + m \in 1 .. n + m /\ Len(longer) # 0
    BY <1>5, <1>7
  <2>2. longer[l + (n + m)] = new[n + m]
    BY <1>7, <2>1
  <2>3. longer[Len(longer)].ts = ts
    BY <1>10, <2>1, <2>2
  <2> QED
    BY <2>1, <2>3
<1>19. \E a, k, f \in Positive : IsFrame(longer, a, k, f) /\ longer[a].ts = ts
  <2>1. PICK a : a = l + 1
    OBVIOUS
  <2>2. a \in Positive /\ 1 \in 1 .. n + m
    BY <1>5, <2>1 DEF Positive
  <2>3. longer[a].ts = ts
    BY <1>7, <1>10, <2>1, <2>2
  <2> QED
    BY <1>12, <2>1, <2>2, <2>3
<1>20. Extends(longer, stream, shape, ts)
  BY <1>7, <1>11, <1>15, <1>16, <1>17, <1>18, <1>19, Zenon DEF Extends
<1> QED
  BY <1>1, <1>6, <1>20

-----------------------------------------------------------------------------
(* The group of a frame, as the receiver pops it. *)

LEMMA RangeSize ==
  ASSUME NEW a \in Nat, NEW n \in Nat, NEW keys, keys = a .. a + n - 1
  PROVE  Cardinality(keys) = n /\ IsFiniteSet(keys)
BY FS_Interval

(* The packets filed under a .. a+n-1, in their order. *)
IsRange(packets, group, a, n) == packets = [i \in 1 .. n |-> group[a + i - 1]]

LEMMA RangeInOrder ==
  ASSUME NEW a \in Nat, NEW n \in Nat, NEW group, NEW keys, keys = a .. a + n - 1
  PROVE  IsRange(InOrder(group, keys), group, a, n)
<1>1. Cardinality(keys) = n
  BY RangeSize
<1>2. ASSUME NEW i \in 1 .. n PROVE KeyAt(keys, i) = a + i - 1
  <2>1. \A k \in keys : {j \in keys : j <= k} = a .. k
    OBVIOUS
  <2>2. \A k \in keys : Cardinality(a .. k) = k - a + 1
    BY FS_Interval
  <2>3. \A k \in keys : Cardinality({j \in keys : j <= k}) = k - a + 1
    BY <2>1, <2>2
  <2>4. \A k \in keys : Cardinality({j \in keys : j <= k}) = i <=> k = a + i - 1
    <3> SUFFICES ASSUME NEW k \in keys
                 PROVE  Cardinality({j \in keys : j <= k}) = i <=> k = a + i - 1
      OBVIOUS
    <3>1. PICK c : c = Cardinality({j \in keys : j <= k})
      OBVIOUS
    <3>2. c = k - a + 1
      BY <2>3, <3>1
    <3>3. c = i <=> k = a + i - 1
      BY <3>2
    <3> QED
      BY <3>1, <3>3
  <2>5. PICK t : t = a + i - 1
    OBVIOUS
  <2>6. t \in keys /\ \A k \in keys : Cardinality({j \in keys : j <= k}) = i <=> k = t
    BY <2>4, <2>5
  <2>7. PICK x : x = KeyAt(keys, i)
    OBVIOUS
  <2>8. x \in keys /\ Cardinality({j \in keys : j <= x}) = i
    BY <2>6, <2>7, Zenon DEF KeyAt
  <2>9. x = t
    BY <2>6, <2>8
  <2> QED
    BY <2>5, <2>7, <2>9
<1>3. \A i \in 1 .. n : group[KeyAt(keys, i)] = group[a + i - 1]
  BY <1>2
<1>4. InOrder(group, keys) = [i \in 1 .. n |-> group[KeyAt(keys, i)]]
  BY <1>1, Zenon DEF InOrder
<1> QED
  BY <1>3, <1>4 DEF IsRange

LEMMA NoSmallMod ==
  ASSUME NEW k \in Nat, k < SeqSpan
  PROVE  k % SeqSpan = k
BY HalfSeqAssumption, Z3 DEF SeqSpan

(* What may be in the group of the frame whose places are b .. b+n+m-1. *)
IsGroup(group, b, n, m) ==
  /\ DOMAIN group \subseteq b .. b + n + m - 1
  /\ b + n + m - 1 \in DOMAIN group
  /\ \A k \in DOMAIN group :
       /\ group[k].fec <=> k >= b + n
       /\ group[k].seq = k
       /\ group[k].fec => /\ group[k].first = b
                          /\ group[k].last = b + n - 1
                          /\ group[k].num = m

LEMMA ProtectedAre ==
  ASSUME NEW b \in Nat, NEW n \in Nat \ {0}, b + n < SeqSpan,
         NEW fec, fec.first = b, fec.last = b + n - 1
  PROVE  /\ getProtectedDataNum(fec) = n /\ DataLenCount(fec) = n
         /\ ProtectedSeqs(fec) = b .. b + n - 1
<1>1. SeqSpan \in Nat
  BY HalfSeqAssumption DEF SeqSpan
<1>2. n % SeqSpan = n
  <2>1. n < SeqSpan
    BY <1>1
  <2> QED
    BY <2>1, NoSmallMod
<1>3. getProtectedDataNum(fec) = n
  <2>1. SeqSpan + (b + n - 1) - b + 1 = SeqSpan + n
    BY <1>1
  <2>2. getProtectedDataNum(fec) = (SeqSpan + n) % SeqSpan
    BY <2>1 DEF getProtectedDataNum
  <2>3. n < SeqSpan
    BY <1>1
  <2>4. (SeqSpan + n) % SeqSpan = n
    BY <1>1, <2>3, Z3
  <2> QED
    BY <2>2, <2>4
<1>4. DataLenCount(fec) = n
  BY DEF DataLenCount
<1>5. \A i \in 0 .. n - 1 : (b + i) % SeqSpan = b + i
  <2> SUFFICES ASSUME NEW i \in 0 .. n - 1 PROVE (b + i) % SeqSpan = b + i
    OBVIOUS
  <2>1. b + i \in Nat /\ b + i < SeqSpan
    BY <1>1
  <2> QED
    BY <2>1, NoSmallMod
<1>6. ProtectedSeqs(fec) = {b + i : i \in 0 .. n - 1}
  BY <1>3, <1>5 DEF ProtectedSeqs
<1>7. {b + i : i \in 0 .. n - 1} = b .. b + n - 1
  <2>1. \A x \in b .. b + n - 1 : x - b \in 0 .. n - 1 /\ x = b + (x - b)
    OBVIOUS
  <2> QED
    BY <2>1
<1> QED
  BY <1>3, <1>4, <1>6, <1>7

LEMMA MinIs ==
  ASSUME NEW r, r \subseteq Nat, r # {}
  PROVE  Min(r) \in r /\ \A y \in r : Min(r) <= y
<1>1. PICK x \in r : \A y \in r : x <= y
  BY LeastExists
<1>2. \E x1 \in r : \A y \in r : x1 <= y
  BY <1>1
<1> QED
  BY <1>2 DEF Min

(* A group popped by the last FEC packet of its frame passes every assert; *)
(* what is delivered is all the data packets of the frame or nothing.      *)
LEMMA GroupPops ==
  ASSUME NEW b \in Nat, NEW n \in Nat \ {0}, NEW m \in Nat \ {0},
         n + m <= MaxFecGroup, b + n + m - 1 < SeqSpan,
         NEW group, IsGroup(group, b, n, m),
         NEW x, x = TryRecoverFEC(group)
  PROVE  /\ x.abort = NoAbort
         /\ \/ x.out = << >>
            \/ /\ b .. b + n - 1 \subseteq DOMAIN group
               /\ IsRange(x.out, group, b, n)
<1> DEFINE last == b + n + m - 1
<1>1. PICK d, f : d = DataKeys(group) /\ f = FecKeys(group)
  BY Zenon
<1>2. f = {k \in DOMAIN group : k >= b + n} /\ d = {k \in DOMAIN group : k < b + n}
  <2>1. f = {k \in DOMAIN group : k >= b + n}
    BY <1>1 DEF IsGroup, FecKeys
  <2>2. d = {k \in DOMAIN group : ~(k >= b + n)}
    BY <1>1, <2>1 DEF DataKeys
  <2>3. \A k \in DOMAIN group : ~(k >= b + n) <=> k < b + n
    BY DEF IsGroup
  <2> QED
    BY <2>1, <2>2, <2>3
<1>3. f \subseteq b + n .. last /\ d \subseteq b .. b + n - 1 /\ last \in f
  BY <1>2 DEF IsGroup
<1>4. PICK w : w = Min(f)
  OBVIOUS
<1>5. w \in f /\ \A y \in f : w <= y
  <2>1. f \subseteq Nat /\ f # {}
    BY <1>3
  <2> QED
    BY <1>4, <2>1, MinIs
<1>6. PICK fec : fec = group[w]
  OBVIOUS
<1>7. fec.first = b /\ fec.last = b + n - 1 /\ fec.num = m
  BY <1>2, <1>5, <1>6 DEF IsGroup
<1>8. SeqSpan \in Nat /\ b + n < SeqSpan
  BY HalfSeqAssumption DEF SeqSpan
<1>9. /\ getProtectedDataNum(fec) = n /\ DataLenCount(fec) = n
      /\ ProtectedSeqs(fec) = b .. b + n - 1
  BY <1>7, <1>8, ProtectedAre
<1>10. /\ Cardinality(b .. b + n - 1) = n /\ IsFiniteSet(b .. b + n - 1)
       /\ Cardinality(b + n .. last) = m /\ IsFiniteSet(b + n .. last)
  <2>1. PICK r, v, z : r = b .. b + n - 1 /\ v = b + n /\ z = v .. v + m - 1
    BY Zenon
  <2>2. v \in Nat /\ v + m - 1 = last
    BY <2>1
  <2>3. Cardinality(r) = n /\ IsFiniteSet(r) /\ Cardinality(z) = m /\ IsFiniteSet(z)
    BY <2>1, <2>2, RangeSize
  <2> QED
    BY <2>1, <2>2, <2>3, Zenon
<1>11. /\ IsFiniteSet(d) /\ Cardinality(d) <= n /\ Cardinality(d) \in Nat
       /\ Cardinality(d) = n => d = b .. b + n - 1
       /\ IsFiniteSet(f) /\ Cardinality(f) <= m /\ Cardinality(f) \in Nat
       /\ Cardinality(f) = m => f = b + n .. last
  <2>1. IsFiniteSet(d) /\ Cardinality(d) <= n /\ (Cardinality(d) = n => d = b .. b + n - 1)
    BY <1>3, <1>10, FS_Subset
  <2>2. IsFiniteSet(f) /\ Cardinality(f) <= m /\ (Cardinality(f) = m => f = b + n .. last)
    BY <1>3, <1>10, FS_Subset
  <2> QED
    BY <2>1, <2>2, FS_CardinalityType
<1>12. SetNM(n, m)
  BY DEF SetNM
<1>13. PICK cd, cf : cd = Cardinality(d) /\ cf = Cardinality(f)
  BY Zenon
<1>14. f # {} /\ cd \in Nat /\ cf \in Nat /\ ~(cd > n)
  BY <1>3, <1>11, <1>13
<1> HIDE DEF last
<1>15. x = IF cd > n THEN Aborts("recvDataNum <= expectDataNum")
           ELSE IF cd = n /\ cf = m THEN AllComplete(group, w)
           ELSE IF cd + cf >= n THEN NotCompleteCanRecover(fec)
           ELSE Delivers(<< >>)
  BY <1>1, <1>4, <1>6, <1>7, <1>9, <1>13, <1>14, Zenon DEF TryRecoverFEC
<1>16. CASE cd = n /\ cf = m
  <2>1. d = b .. b + n - 1 /\ f = b + n .. last
    BY <1>11, <1>13, <1>16
  <2>2. \A k \in d : k < w
    BY <1>3, <1>5
  <2>3. {k \in DataKeys(group) : k < w} = d
    BY <1>1, <2>2
  <2>4. \A k \in d : group[k].seq = k
    BY <1>2 DEF IsGroup
  <2>5. {p.seq : p \in {group[k] : k \in d}} = d
    BY <2>4
  <2>6. RecoversFirst(fec, {group[k] : k \in d})
    BY <1>9, <2>1, <2>5 DEF RecoversFirst
  <2>7. ~(n <= 0)
    OBVIOUS
  <2>8. AllComplete(group, w) = Delivers(InOrder(group, d))
    <3>1. PICK e : e = {k \in DataKeys(group) : k < w}
      OBVIOUS
    <3>2. e = d /\ e = DataKeys(group) /\ RecoversFirst(group[w], {group[k] : k \in e})
      BY <1>1, <1>6, <2>3, <2>6, <3>1
    <3>3. SetNM(getProtectedDataNum(group[w]), group[w].num)
      BY <1>6, <1>7, <1>9, <1>12
    <3>4. ~(DataLenCount(group[w]) <= 0)
      BY <1>6, <1>9
    <3>5. AllComplete(group, w) = Delivers(InOrder(group, e))
      BY <3>1, <3>2, <3>3, <3>4, Zenon DEF AllComplete
    <3> QED
      BY <3>2, <3>5
  <2>9. IsRange(InOrder(group, d), group, b, n)
    BY <2>1, RangeInOrder
  <2>10. x = Delivers(InOrder(group, d))
    BY <1>14, <1>15, <1>16, <2>8, Zenon
  <2>11. b .. b + n - 1 \subseteq DOMAIN group
    BY <1>2, <2>1
  <2>12. x.out = InOrder(group, d) /\ x.abort = NoAbort
    BY <2>10 DEF Delivers
  <2> QED
    BY <2>9, <2>11, <2>12
<1>17. CASE ~(cd = n /\ cf = m)
  <2>1. ~(n <= 0)
    OBVIOUS
  <2>2. NotCompleteCanRecover(fec) = Delivers(<< >>)
    BY <1>7, <1>9, <1>12, <2>1, Zenon DEF NotCompleteCanRecover
  <2>3. x = Delivers(<< >>)
    BY <1>14, <1>15, <1>17, <2>2, Zenon
  <2> QED
    BY <2>3 DEF Delivers
<1> QED
  BY <1>16, <1>17

-----------------------------------------------------------------------------
(* The unpacketizer. *)

IsUnp(u) ==
  u = [started |-> u.started, expect |-> u.expect, frames |-> u.frames,
       sps |-> u.sps, pps |-> u.pps]

IsBuffer(f) == f = [ts |-> f.ts, rawData |-> f.rawData, bIFrame |-> f.bIFrame]

(* One frame is under construction. *)
One(u) == \E f : IsBuffer(f) /\ u.frames = << f >>

AtMostOne(u) == u.frames = << >> \/ One(u)

NalUnits == NaluTypes \X Int

ParamSets(s, p) == << << "sps", s >>, << "pps", p >> >>

(* What AddParams puts in front of a frame, and the flag it sets. *)
InFront(pre, isI) ==
  \/ pre = << >> /\ isI = FALSE
  \/ (\E s, p \in Int : pre = ParamSets(s, p)) /\ isI = TRUE

(* Concatenation, kept apart from the records. *)
Joined(s, t) == s \o t

LEMMA JoinedIs ==
  ASSUME NEW s \in Seq(NalUnits), NEW t \in Seq(NalUnits)
  PROVE  /\ Joined(s, t) \in Seq(NalUnits)
         /\ (Joined(s, t) = << >> <=> s = << >> /\ t = << >>)
         /\ s # << >> => Joined(s, t)[1] = s[1]
<1>1. s \o t \in Seq(NalUnits) /\ (s \o t = << >> <=> s = << >> /\ t = << >>)
  BY ConcatProperties, ConcatEqualIffEmpty
<1>2. ASSUME s # << >> PROVE (s \o t)[1] = s[1]
  <2>1. 1 \in 1 .. Len(s) + Len(t) /\ 1 <= Len(s)
    BY <1>2
  <2> QED
    BY <2>1, ConcatProperties
<1> QED
  BY <1>1, <1>2 DEF Joined

LEMMA JoinedEmpty ==
  ASSUME NEW s \in Seq(NalUnits)
  PROVE  Joined(<< >>, s) = s /\ Joined(s, << >>) = s
BY ConcatEmptySeq DEF Joined

LEMMA JoinedAssociative ==
  ASSUME NEW s \in Seq(NalUnits), NEW t \in Seq(NalUnits), NEW x \in Seq(NalUnits)
  PROVE  Joined(Joined(s, t), x) = Joined(s, Joined(t, x))
BY ConcatAssociative DEF Joined

(* A frame of the units own.  It does not start with an IDR slice: that    *)
(* one gets the parameter sets in front.                                   *)
Built(f, ts, own) ==
  /\ own \in Seq(NalUnits)
  /\ \E pre, isI :
       /\ InFront(pre, isI)
       /\ f = [ts |-> ts, rawData |-> Joined(pre, own), bIFrame |-> isI]
       /\ pre = << >> /\ own # << >> => own[1][1] # "idr"

LEMMA BuiltIsBuffer ==
  ASSUME NEW f, NEW ts, NEW own, Built(f, ts, own)
  PROVE  IsBuffer(f) /\ f.ts = ts
BY DEF Built, IsBuffer

LEMMA ParamSetsAre ==
  ASSUME NEW s \in Int, NEW p \in Int
  PROVE  /\ ParamSets(s, p) \in Seq(NalUnits) /\ Len(ParamSets(s, p)) = 2
         /\ ParamSets(s, p)[1] = << "sps", s >> /\ ParamSets(s, p)[2] = << "pps", p >>
<1>1. << "sps", s >> \in NalUnits /\ << "pps", p >> \in NalUnits
  BY DEF NalUnits, NaluTypes
<1> QED
  BY <1>1 DEF ParamSets

(* What a built frame is without the parameter sets in front. *)
LEMMA BuiltOwnUnits ==
  ASSUME NEW f, NEW ts, NEW own, Built(f, ts, own)
  PROVE  OwnUnits(f) = own
<1>1. PICK pre, isI : /\ InFront(pre, isI)
                      /\ f = [ts |-> ts, rawData |-> Joined(pre, own), bIFrame |-> isI]
  BY DEF Built
<1>2. own \in Seq(NalUnits)
  BY DEF Built
<1>3. f.rawData = pre \o own /\ f.bIFrame = isI
  <2>1. f.rawData = Joined(pre, own) /\ f.bIFrame = isI
    BY <1>1
  <2> QED
    BY <2>1 DEF Joined
<1>4. CASE pre = << >> /\ isI = FALSE
  <2>1. << >> \o own = own
    BY <1>2, ConcatEmptySeq
  <2> QED
    BY <1>3, <1>4, <2>1 DEF OwnUnits
<1>5. CASE (\E s, p \in Int : pre = ParamSets(s, p)) /\ isI = TRUE
  <2>1. pre \in Seq(NalUnits) /\ Len(pre) = 2
    BY <1>5, ParamSetsAre
  <2>2. PICK raw : raw = pre \o own
    OBVIOUS
  <2>3. PICK n : n = Len(raw)
    OBVIOUS
  <2>4. n = 2 + Len(own) /\ Len(own) \in Nat
    <3>1. Len(pre \o own) = Len(pre) + Len(own)
      BY <1>2, <2>1, ConcatProperties
    <3> QED
      BY <1>2, <2>1, <2>2, <2>3, <3>1
  <2>7. OwnUnits(f) = SubSeq(raw, 3, Len(raw))
    <3>1. f.bIFrame = TRUE /\ f.rawData = raw
      BY <1>3, <1>5, <2>2, Zenon
    <3> QED
      BY <3>1 DEF OwnUnits
  <2>5. CASE own = << >>
    <3>1. n \in Int /\ n < 3
      BY <2>4, <2>5
    <3>2. SubSeq(raw, 3, n) = << >>
      BY <3>1, SubSeqEmpty
    <3> QED
      BY <2>2, <2>3, <2>5, <3>2, <2>7, Zenon
  <2>6. CASE own # << >>
    <3>1. PICK l, o : l = Len(pre) /\ o = Len(own)
      BY Zenon
    <3>2. l = 2 /\ o \in Nat \ {0} /\ n = 2 + o
      BY <1>2, <2>1, <2>4, <2>6, <3>1
    <3>3. 3 \in l + 1 .. l + o /\ n \in l + 1 .. l + o /\ 3 - l = 1 /\ n - l = o
      BY <3>2
    <3>4. SubSeq(pre \o own, 3, n) = SubSeq(own, 3 - l, n - l)
      <4>1. /\ 3 \in Len(pre) + 1 .. Len(pre) + Len(own)
            /\ n \in Len(pre) + 1 .. Len(pre) + Len(own)
        BY <3>1, <3>3
      <4>2. SubSeq(pre \o own, 3, n) = SubSeq(own, 3 - Len(pre), n - Len(pre))
        BY <1>2, <2>1, <4>1, SubSeqOfConcat2
      <4> QED
        BY <3>1, <4>2
    <3>5. SubSeq(own, 1, Len(own)) = own
      BY <1>2, SubSeqFull
    <3>6. SubSeq(raw, 3, n) = own
      BY <2>2, <3>1, <3>3, <3>4, <3>5
    <3> QED
      BY <2>2, <2>3, <3>6, <2>7, Zenon
  <2> QED
    BY <2>5, <2>6
<1> QED
  BY <1>1, <1>4, <1>5 DEF InFront

LEMMA AppendRawIs ==
  ASSUME NEW u, IsUnp(u), NEW f, IsBuffer(f), u.frames = << f >>, NEW x,
         NEW v, v = AppendRaw(u, x),
         NEW h, h = [ts |-> f.ts, rawData |-> Joined(f.rawData, x), bIFrame |-> f.bIFrame]
  PROVE  /\ IsUnp(v) /\ v.started = u.started /\ v.expect = u.expect
         /\ v.sps = u.sps /\ v.pps = u.pps
         /\ v.frames = << h >>
<1>1. Len(u.frames) = 1
  OBVIOUS
<1>2. h = [f EXCEPT !.rawData = Joined(f.rawData, x)]
  BY DEF IsBuffer
<1>3. PICK fs : fs = [u.frames EXCEPT ![1] = h]
  OBVIOUS
<1>4. fs = << h >>
  BY <1>3
<1>5. v = [u EXCEPT !.frames = fs]
  <2>1. v = [u EXCEPT !.frames[Len(u.frames)].rawData = Joined(@, x)]
    BY Zenon DEF AppendRaw, Joined
  <2>2. u.frames[1] = f
    OBVIOUS
  <2> QED
    BY <1>1, <1>2, <1>3, <2>1, <2>2
<1> QED
  BY <1>4, <1>5 DEF IsUnp

LEMMA OnlyReplaced ==
  ASSUME NEW g, NEW fs, fs = << g >>
  PROVE  fs[1] = g /\ \A h : [fs EXCEPT ![1] = h] = << h >>
OBVIOUS

(* The flag of a frame, kept apart from the logic of the proofs. *)
IsTrue(b) == b = TRUE

LEMMA AddParamsIs ==
  ASSUME NEW u, IsUnp(u), NEW f, IsBuffer(f), u.frames = << f >>,
         NEW v, v = AddParams(u),
         NEW x, x = ParamSets(u.sps, u.pps), NEW isI, IsTrue(isI),
         NEW h, h = [ts |-> f.ts, rawData |-> Joined(f.rawData, x), bIFrame |-> isI]
  PROVE  /\ IsUnp(v) /\ v.started = u.started /\ v.expect = u.expect
         /\ v.sps = u.sps /\ v.pps = u.pps
         /\ v.frames = << h >>
<1>1. PICK w : w = AppendRaw(u, x)
  OBVIOUS
<1>2. PICK g : g = [ts |-> f.ts, rawData |-> Joined(f.rawData, x), bIFrame |-> f.bIFrame]
  OBVIOUS
<1>3. /\ IsUnp(w) /\ w.started = u.started /\ w.expect = u.expect
      /\ w.sps = u.sps /\ w.pps = u.pps /\ w.frames = << g >>
  BY <1>1, <1>2, AppendRawIs
<1>4. Len(u.frames) = 1
  OBVIOUS
<1>5. h = [g EXCEPT !.bIFrame = isI]
  BY <1>2
<1>7. PICK fs : fs = [w.frames EXCEPT ![1] = h]
  OBVIOUS
<1>11. w.frames = << g >>
  BY <1>3, Zenon
<1>8. fs = << h >>
  BY <1>7, <1>11, OnlyReplaced
<1>9. w.frames[1] = g
  BY <1>11, OnlyReplaced
<1>10. v = [w EXCEPT !.frames = fs]
  <2>1. v = [w EXCEPT !.frames[Len(u.frames)].bIFrame = isI]
    BY <1>1, Zenon DEF AddParams, ParamSets, IsTrue
  <2> QED
    BY <1>4, <1>5, <1>7, <1>9, <2>1
<1> QED
  BY <1>3, <1>8, <1>10 DEF IsUnp

(* What a unit leaves: an error changes nothing; otherwise the unit is     *)
(* appended, perhaps behind parameter sets, or one is remembered.          *)
Appends(u, v, type, id) ==
  \E w : /\ v = AppendRaw(w, << << type, id >> >>)
         /\ \/ w = [u EXCEPT !.sps = id] /\ type # "idr"
            \/ w = [u EXCEPT !.pps = id] /\ type # "idr"
            \/ w = AddParams(u) /\ Last(u.frames).rawData = << >>
            \/ w = u /\ (type = "idr" => Last(u.frames).rawData # << >>)

LEMMA ParseNaluCases ==
  ASSUME NEW u, NEW type, NEW id, NEW r, r = ParseNalu(u, type, id)
  PROVE  \/ r.ret # 0 /\ r.unp = u
         \/ r.ret = 0 /\ Appends(u, r.unp, type, id)
<1>1. PICK st : st = CASE type = "empty" -> Parsed(u, -3)
                       [] type \in {"sps", "longSps"} -> UpdataSps_(u, type, id)
                       [] type \in {"pps", "longPps"} -> UpdataPps_(u, type, id)
                       [] type = "idr" -> UpdateIdr(u)
                       [] type \in {"stapA", "fuA"} -> Parsed(u, -4)
                       [] OTHER -> Parsed(u, 0)
  BY Zenon
<1>2. r = IF st.ret # 0 THEN st ELSE Parsed(AppendRaw(st.unp, << << type, id >> >>), 0)
  BY <1>1, Zenon DEF ParseNalu
<1>3. /\ st.ret # 0 => st.unp = u
      /\ st.ret = 0 =>
           \/ st.unp = [u EXCEPT !.sps = id] /\ type # "idr"
           \/ st.unp = [u EXCEPT !.pps = id] /\ type # "idr"
           \/ st.unp = AddParams(u) /\ Last(u.frames).rawData = << >>
           \/ st.unp = u /\ (type = "idr" => Last(u.frames).rawData # << >>)
  <2>1. CASE type = "empty"
    BY <1>1, <2>1 DEF Parsed
  <2>2. CASE type \in {"sps", "longSps"}
    BY <1>1, <2>2 DEF UpdataSps_, Parsed
  <2>3. CASE type \in {"pps", "longPps"}
    BY <1>1, <2>3 DEF UpdataPps_, Parsed
  <2>4. CASE type = "idr"
    <3>1. st = UpdateIdr(u)
      BY <1>1, <2>4
    <3>2. PICK miss : miss = MissingParam(u)
      OBVIOUS
    <3>3. st = IF miss # 0 THEN Parsed(u, miss)
               ELSE Parsed(IF Last(u.frames).rawData = << >> THEN AddParams(u) ELSE u, 0)
      BY <3>1, <3>2, Zenon DEF UpdateIdr
    <3>4. CASE miss # 0
      BY <3>3, <3>4 DEF Parsed
    <3>5. CASE miss = 0 /\ Last(u.frames).rawData = << >>
      <4>1. st = Parsed(AddParams(u), 0)
        BY <3>3, <3>5, Zenon
      <4>2. st.ret = 0 /\ st.unp = AddParams(u)
        BY <4>1 DEF Parsed
      <4> QED
        BY <3>5, <4>2, Zenon
    <3>6. CASE miss = 0 /\ Last(u.frames).rawData # << >>
      <4>1. st = Parsed(u, 0)
        BY <3>3, <3>6, Zenon
      <4>2. st.ret = 0 /\ st.unp = u
        BY <4>1 DEF Parsed
      <4> QED
        BY <3>6, <4>2, Zenon
    <3> QED
      BY <3>4, <3>5, <3>6
  <2>5. CASE type \in {"stapA", "fuA"}
    BY <1>1, <2>5 DEF Parsed
  <2>6. CASE type \notin {"empty", "sps", "longSps", "pps", "longPps", "idr",
                          "stapA", "fuA"}
    BY <1>1, <2>6 DEF Parsed
  <2> QED
    BY <2>1, <2>2, <2>3, <2>4, <2>5, <2>6
<1>4. CASE st.ret # 0
  BY <1>2, <1>3, <1>4
<1>5. CASE st.ret = 0
  <2>1. PICK w : w = st.unp
    OBVIOUS
  <2>2. r = Parsed(AppendRaw(w, << << type, id >> >>), 0)
    BY <1>2, <1>5, <2>1, Zenon
  <2>3. r.ret = 0 /\ r.unp = AppendRaw(w, << << type, id >> >>)
    BY <2>2 DEF Parsed
  <2> QED
    BY <1>3, <1>5, <2>1, <2>3, Zenon DEF Appends
<1> QED
  BY <1>4, <1>5

Params(u) == u.sps \in Int /\ u.pps \in Int

(* A step within a frame. *)
Kept(u, v) ==
  /\ IsUnp(v) /\ v.started = u.started /\ v.expect = u.expect
  /\ Params(u) => Params(v)
  /\ \E f, h : /\ IsBuffer(f) /\ u.frames = << f >>
               /\ IsBuffer(h) /\ v.frames = << h >> /\ h.ts = f.ts

(* The frame under construction has more units. *)
Grown(u, v, more) ==
  \A f, ts, own : u.frames = << f >> /\ Built(f, ts, own) /\ Params(u)
    => \E h : v.frames = << h >> /\ Built(h, ts, Joined(own, more))

(* A frame to which a unit of this type may be appended. *)
Ready(g, ts, own, type) ==
  /\ own \in Seq(NalUnits)
  /\ \E pre, isI :
       /\ InFront(pre, isI)
       /\ g = [ts |-> ts, rawData |-> Joined(pre, own), bIFrame |-> isI]
       /\ pre = << >> /\ own # << >> => own[1][1] # "idr"
       /\ pre = << >> /\ own = << >> => type # "idr"

LEMMA InFrontTyped ==
  ASSUME NEW pre, NEW isI, InFront(pre, isI)
  PROVE  pre \in Seq(NalUnits)
<1>1. CASE pre = << >>
  BY <1>1
<1>2. CASE \E s, p \in Int : pre = ParamSets(s, p)
  BY <1>2, ParamSetsAre
<1> QED
  BY <1>1, <1>2 DEF InFront

LEMMA UnitAppended ==
  ASSUME NEW g, NEW ts, NEW own, NEW type \in NaluTypes, NEW id \in Nat,
         Ready(g, ts, own, type), NEW unit, unit = << << type, id >> >>,
         NEW h, h = [ts |-> g.ts, rawData |-> Joined(g.rawData, unit),
                     bIFrame |-> g.bIFrame]
  PROVE  Built(h, ts, Joined(own, unit))
<1>1. PICK pre, isI :
        /\ InFront(pre, isI)
        /\ g = [ts |-> ts, rawData |-> Joined(pre, own), bIFrame |-> isI]
        /\ pre = << >> /\ own # << >> => own[1][1] # "idr"
        /\ pre = << >> /\ own = << >> => type # "idr"
  BY DEF Ready
<1>2. own \in Seq(NalUnits) /\ pre \in Seq(NalUnits)
  BY <1>1, InFrontTyped DEF Ready
<1>3. unit \in Seq(NalUnits) /\ unit[1] = << type, id >>
  BY DEF NalUnits
<1>4. PICK more : more = Joined(own, unit)
  OBVIOUS
<1>5. /\ more \in Seq(NalUnits)
      /\ Joined(Joined(pre, own), unit) = Joined(pre, more)
      /\ own # << >> => more[1] = own[1]
      /\ own = << >> => more = unit
  <2>1. more \in Seq(NalUnits) /\ (own # << >> => more[1] = own[1])
    BY <1>2, <1>3, <1>4, JoinedIs
  <2>2. Joined(Joined(pre, own), unit) = Joined(pre, more)
    BY <1>2, <1>3, <1>4, JoinedAssociative
  <2>3. own = << >> => more = unit
    BY <1>3, <1>4, JoinedEmpty
  <2> QED
    BY <2>1, <2>2, <2>3
<1>6. g.ts = ts /\ g.rawData = Joined(pre, own) /\ g.bIFrame = isI
  BY <1>1
<1>7. h = [ts |-> ts, rawData |-> Joined(pre, more), bIFrame |-> isI]
  BY <1>5, <1>6, Zenon
<1>8. pre = << >> => more[1][1] # "idr"
  BY <1>1, <1>3, <1>5
<1> QED
  BY <1>1, <1>4, <1>5, <1>7, <1>8, Zenon DEF Built

LEMMA ParseNaluIs ==
  ASSUME NEW u, IsUnp(u), NEW f, IsBuffer(f), u.frames = << f >>,
         NEW type, NEW id \in Nat, NEW r, r = ParseNalu(u, type, id)
  PROVE  /\ Kept(u, r.unp)
         /\ r.ret = 0 /\ type \in NaluTypes
              => Grown(u, r.unp, << << type, id >> >>)
<1>1. CASE r.ret # 0 /\ r.unp = u
  BY <1>1, Zenon DEF Kept
<1>2. CASE r.ret = 0 /\ Appends(u, r.unp, type, id)
  <2>1. PICK w :
          /\ r.unp = AppendRaw(w, << << type, id >> >>)
          /\ \/ w = [u EXCEPT !.sps = id] /\ type # "idr"
             \/ w = [u EXCEPT !.pps = id] /\ type # "idr"
             \/ w = AddParams(u) /\ Last(u.frames).rawData = << >>
             \/ w = u /\ (type = "idr" => Last(u.frames).rawData # << >>)
    BY <1>2 DEF Appends
  <2>2. Last(u.frames) = f
    BY DEF Last
  <2>3. \E g : /\ IsUnp(w) /\ w.started = u.started /\ w.expect = u.expect
               /\ Params(u) => Params(w)
               /\ IsBuffer(g) /\ w.frames = << g >> /\ g.ts = f.ts
               /\ \A ts, own : Built(f, ts, own) /\ Params(u) => Ready(g, ts, own, type)
    <3>1. CASE \/ w = [u EXCEPT !.sps = id] /\ type # "idr"
               \/ w = [u EXCEPT !.pps = id] /\ type # "idr"
               \/ w = u /\ (type = "idr" => Last(u.frames).rawData # << >>)
      <4>1. /\ IsUnp(w) /\ w.started = u.started /\ w.expect = u.expect
            /\ Params(u) => Params(w)
            /\ w.frames = << f >>
        BY <3>1 DEF IsUnp, Params
      <4>2. type = "idr" => f.rawData # << >>
        BY <2>2, <3>1
      <4>3. ASSUME NEW ts, NEW own, Built(f, ts, own) PROVE Ready(f, ts, own, type)
        <5>1. PICK pre, isI :
                /\ InFront(pre, isI)
                /\ f = [ts |-> ts, rawData |-> Joined(pre, own), bIFrame |-> isI]
                /\ pre = << >> /\ own # << >> => own[1][1] # "idr"
          BY <4>3 DEF Built
        <5>2. own \in Seq(NalUnits) /\ pre \in Seq(NalUnits)
          BY <4>3, <5>1, InFrontTyped DEF Built
        <5>3. f.rawData = Joined(pre, own)
          BY <5>1
        <5>4. f.rawData = << >> <=> pre = << >> /\ own = << >>
          BY <5>2, <5>3, JoinedIs
        <5> QED
          BY <4>2, <5>1, <5>2, <5>4, Zenon DEF Ready
      <4> QED
        BY <4>1, <4>3
    <3>2. CASE w = AddParams(u) /\ Last(u.frames).rawData = << >>
      <4>1. PICK x, isI : x = ParamSets(u.sps, u.pps) /\ isI = TRUE
        BY Zenon
      <4>2. PICK g : g = [ts |-> f.ts, rawData |-> Joined(f.rawData, x), bIFrame |-> isI]
        OBVIOUS
      <4>3. /\ IsUnp(w) /\ w.started = u.started /\ w.expect = u.expect
            /\ w.sps = u.sps /\ w.pps = u.pps /\ w.frames = << g >>
        <5>1. IsTrue(isI)
          BY <4>1 DEF IsTrue
        <5>2. x = ParamSets(u.sps, u.pps) /\ w = AddParams(u)
          BY <3>2, <4>1
        <5> QED
          BY <4>2, <5>1, <5>2, AddParamsIs
      <4>4. IsBuffer(g) /\ g.ts = f.ts
        BY <4>2 DEF IsBuffer
      <4>5. f.rawData = << >>
        BY <2>2, <3>2
      <4>6. ASSUME NEW ts, NEW own, Built(f, ts, own), Params(u)
            PROVE  Ready(g, ts, own, type)
        <5>1. PICK pre, old :
                /\ InFront(pre, old)
                /\ f = [ts |-> ts, rawData |-> Joined(pre, own), bIFrame |-> old]
          BY <4>6 DEF Built
        <5>2. own \in Seq(NalUnits) /\ pre \in Seq(NalUnits)
          BY <4>6, <5>1, InFrontTyped DEF Built
        <5>3. f.rawData = Joined(pre, own) /\ f.ts = ts
          BY <5>1
        <5>4. own = << >>
          BY <4>5, <5>2, <5>3, JoinedIs
        <5>5. u.sps \in Int /\ u.pps \in Int
          BY <4>6 DEF Params
        <5>6. x \in Seq(NalUnits) /\ x # << >>
          BY <4>1, <5>5, ParamSetsAre
        <5>7. InFront(x, isI)
          BY <4>1, <5>5 DEF InFront
        <5>8. Joined(f.rawData, x) = x /\ Joined(x, own) = x
          BY <4>5, <5>4, <5>6, JoinedEmpty
        <5>9. g = [ts |-> ts, rawData |-> Joined(x, own), bIFrame |-> isI]
          BY <4>2, <5>3, <5>8, Zenon
        <5> QED
          BY <5>2, <5>6, <5>7, <5>9, Zenon DEF Ready
      <4> QED
        BY <4>3, <4>4, <4>6 DEF Params
    <3> QED
      BY <2>1, <3>1, <3>2
  <2>4. PICK g : /\ IsUnp(w) /\ w.started = u.started /\ w.expect = u.expect
                 /\ Params(u) => Params(w)
                 /\ IsBuffer(g) /\ w.frames = << g >> /\ g.ts = f.ts
                 /\ \A ts, own : Built(f, ts, own) /\ Params(u) => Ready(g, ts, own, type)
    BY <2>3
  <2>5. PICK unit, v : unit = << << type, id >> >> /\ v = AppendRaw(w, unit)
    BY Zenon
  <2>6. PICK h : h = [ts |-> g.ts, rawData |-> Joined(g.rawData, unit),
                      bIFrame |-> g.bIFrame]
    OBVIOUS
  <2>7. /\ IsUnp(v) /\ v.started = w.started /\ v.expect = w.expect
        /\ v.sps = w.sps /\ v.pps = w.pps /\ v.frames = << h >>
    BY <2>4, <2>5, <2>6, AppendRawIs
  <2>8. IsBuffer(h) /\ h.ts = f.ts
    BY <2>4, <2>6 DEF IsBuffer
  <2>9. Params(u) => Params(v)
    BY <2>4, <2>7 DEF Params
  <2>10. r.unp = v
    BY <2>1, <2>5
  <2>11. Kept(u, v)
    BY <2>4, <2>7, <2>8, <2>9, Zenon DEF Kept
  <2>12. ASSUME type \in NaluTypes PROVE Grown(u, v, unit)
    <3> SUFFICES ASSUME NEW f2, NEW ts, NEW own, u.frames = << f2 >>,
                        Built(f2, ts, own), Params(u)
                 PROVE  \E h2 : v.frames = << h2 >> /\ Built(h2, ts, Joined(own, unit))
      BY DEF Grown
    <3>1. f2 = f
      OBVIOUS
    <3>2. Ready(g, ts, own, type)
      BY <2>4, <3>1
    <3>3. Built(h, ts, Joined(own, unit))
      BY <2>5, <2>6, <2>12, <3>2, UnitAppended
    <3> QED
      BY <2>7, <3>3
  <2> QED
    BY <2>5, <2>10, <2>11, <2>12
<1> QED
  BY <1>1, <1>2, ParseNaluCases

IsParsed(r) == r = Parsed(r.unp, r.ret)

LEMMA ParsedIs ==
  ASSUME NEW u, NEW ret
  PROVE  IsParsed(Parsed(u, ret))
BY DEF IsParsed, Parsed

LEMMA ParseNaluIsParsed ==
  ASSUME NEW u, NEW type, NEW id
  PROVE  IsParsed(ParseNalu(u, type, id))
<1>1. PICK st : st = CASE type = "empty" -> Parsed(u, -3)
                       [] type \in {"sps", "longSps"} -> UpdataSps_(u, type, id)
                       [] type \in {"pps", "longPps"} -> UpdataPps_(u, type, id)
                       [] type = "idr" -> UpdateIdr(u)
                       [] type \in {"stapA", "fuA"} -> Parsed(u, -4)
                       [] OTHER -> Parsed(u, 0)
  BY Zenon
<1>2. ParseNalu(u, type, id) =
        IF st.ret # 0 THEN st ELSE Parsed(AppendRaw(st.unp, << << type, id >> >>), 0)
  BY <1>1, Zenon DEF ParseNalu
<1>3. /\ IsParsed(UpdataSps_(u, type, id)) /\ IsParsed(UpdataPps_(u, type, id))
      /\ IsParsed(UpdateIdr(u))
  <2>1. IsParsed(UpdataSps_(u, type, id)) /\ IsParsed(UpdataPps_(u, type, id))
    BY ParsedIs, Zenon DEF UpdataSps_, UpdataPps_
  <2>2. IsParsed(UpdateIdr(u))
    BY ParsedIs, Zenon DEF UpdateIdr
  <2> QED
    BY <2>1, <2>2
<1>4. IsParsed(st)
  <2>1. /\ IsParsed(Parsed(u, -3)) /\ IsParsed(Parsed(u, -4)) /\ IsParsed(Parsed(u, 0))
    BY ParsedIs
  <2>2. CASE type = "empty" \/ type \in {"stapA", "fuA"}
    BY <1>1, <2>1, <2>2
  <2>3. CASE type \in {"sps", "longSps", "pps", "longPps"}
    BY <1>1, <1>3, <2>3
  <2>4. CASE type = "idr"
    BY <1>1, <1>3, <2>4
  <2>5. CASE type \notin {"empty", "sps", "longSps", "pps", "longPps", "idr",
                          "stapA", "fuA"}
    BY <1>1, <2>1, <2>5
  <2> QED
    BY <2>2, <2>3, <2>4, <2>5
<1> QED
  BY <1>2, <1>4, ParsedIs, Zenon

(* The units of the first i NAL units of a payload. *)
Part(nalus, id, i) == [j \in 1 .. i |-> << nalus[j], id >>]

LEMMA PartIs ==
  ASSUME NEW nalus \in Seq(NaluTypes), NEW id \in Nat, NEW i \in 1 .. Len(nalus)
  PROVE  /\ Part(nalus, id, 0) = << >>
         /\ Part(nalus, id, i - 1) \in Seq(NalUnits)
         /\ Part(nalus, id, i) \in Seq(NalUnits)
         /\ << << nalus[i], id >> >> \in Seq(NalUnits)
         /\ Joined(Part(nalus, id, i - 1), << << nalus[i], id >> >>) = Part(nalus, id, i)
<1>1. \A j \in 1 .. Len(nalus) : << nalus[j], id >> \in NalUnits
  BY DEF NalUnits
<1>2. Part(nalus, id, 0) = << >>
  BY DEF Part
<1>3. i \in Nat /\ i - 1 \in Nat
  OBVIOUS
<1>4. Part(nalus, id, i - 1) \in Seq(NalUnits) /\ Len(Part(nalus, id, i - 1)) = i - 1
  BY <1>1, <1>3 DEF Part
<1>5. Part(nalus, id, i) \in Seq(NalUnits) /\ Len(Part(nalus, id, i)) = i
  BY <1>1, <1>3 DEF Part
<1>6. PICK unit : unit = << nalus[i], id >>
  OBVIOUS
<1>7. unit \in NalUnits
  BY <1>1, <1>6
<1>8. << unit >> \in Seq(NalUnits) /\ Len(<< unit >>) = 1
  BY <1>7
<1>9. PICK a, b : a = Part(nalus, id, i - 1) /\ b = Part(nalus, id, i)
  BY Zenon
<1>10. \A j \in 1 .. i : b[j] = IF j <= i - 1 THEN a[j] ELSE unit
  BY <1>3, <1>6, <1>9 DEF Part
<1>11. a \o << unit >> = b
  <2>1. a \in Seq(NalUnits) /\ b \in Seq(NalUnits) /\ Len(a) = i - 1 /\ Len(b) = i
    BY <1>4, <1>5, <1>9
  <2>2. PICK c : c = a \o << unit >>
    OBVIOUS
  <2>3. c \in Seq(NalUnits) /\ Len(c) = i
    BY <1>3, <1>8, <2>1, <2>2
  <2>4. \A j \in 1 .. i : c[j] = b[j]
    BY <1>3, <1>8, <1>10, <2>1, <2>2
  <2> QED
    BY <2>1, <2>2, <2>3, <2>4
<1> QED
  BY <1>2, <1>4, <1>5, <1>6, <1>8, <1>9, <1>11 DEF Joined

LEMMA KeptBySame ==
  ASSUME NEW u, IsUnp(u), One(u)
  PROVE  Kept(u, u) /\ Grown(u, u, << >>)
<1>1. Kept(u, u)
  BY DEF Kept, One
<1>2. Grown(u, u, << >>)
  <2> SUFFICES ASSUME NEW f, NEW ts, NEW own, u.frames = << f >>, Built(f, ts, own)
               PROVE  Built(f, ts, Joined(own, << >>))
    BY DEF Grown
  <2>1. own \in Seq(NalUnits)
    BY DEF Built
  <2>2. Joined(own, << >>) = own
    BY <2>1, JoinedEmpty
  <2> QED
    BY <2>2
<1> QED
  BY <1>1, <1>2

LEMMA StepsCompose ==
  ASSUME NEW u, NEW v, NEW w, NEW a \in Seq(NalUnits), NEW b \in Seq(NalUnits)
  PROVE  /\ Kept(u, v) /\ Kept(v, w) => Kept(u, w)
         /\ Kept(u, v) /\ Grown(u, v, a) /\ Grown(v, w, b) => Grown(u, w, Joined(a, b))
<1>1. ASSUME Kept(u, v), Kept(v, w) PROVE Kept(u, w)
  <2>1. PICK f, h : /\ IsBuffer(f) /\ u.frames = << f >>
                    /\ IsBuffer(h) /\ v.frames = << h >> /\ h.ts = f.ts
    BY <1>1 DEF Kept
  <2>2. PICK f2, h2 : /\ IsBuffer(f2) /\ v.frames = << f2 >>
                      /\ IsBuffer(h2) /\ w.frames = << h2 >> /\ h2.ts = f2.ts
    BY <1>1 DEF Kept
  <2>3. f2 = h
    BY <2>1, <2>2
  <2>4. h2.ts = f.ts
    BY <2>1, <2>2, <2>3
  <2> QED
    BY <1>1, <2>1, <2>2, <2>4, Zenon DEF Kept
<1>2. ASSUME Kept(u, v), Grown(u, v, a), Grown(v, w, b) PROVE Grown(u, w, Joined(a, b))
  <2> SUFFICES ASSUME NEW f, NEW ts, NEW own, u.frames = << f >>, Built(f, ts, own),
                      Params(u)
               PROVE  \E h : w.frames = << h >> /\ Built(h, ts, Joined(own, Joined(a, b)))
    BY DEF Grown
  <2>1. PICK g : v.frames = << g >> /\ Built(g, ts, Joined(own, a))
    BY <1>2 DEF Grown
  <2>2. Params(v)
    BY <1>2 DEF Kept
  <2>3. PICK h : w.frames = << h >> /\ Built(h, ts, Joined(Joined(own, a), b))
    BY <1>2, <2>1, <2>2 DEF Grown
  <2>4. own \in Seq(NalUnits)
    BY DEF Built
  <2>5. Joined(Joined(own, a), b) = Joined(own, Joined(a, b))
    BY <2>4, JoinedAssociative
  <2> QED
    BY <2>3, <2>5
<1> QED
  BY <1>1, <1>2

LEMMA ParseAllIs ==
  ASSUME NEW u, IsUnp(u), One(u), NEW nalus \in Seq(NaluTypes), NEW id \in Nat,
         NEW r, r = ParseAll(u, nalus, id)
  PROVE  /\ Kept(u, r.unp) /\ IsParsed(r)
         /\ r.ret = 0 => Grown(u, r.unp, Part(nalus, id, Len(nalus)))
<1>1. PICK n : n = Len(nalus)
  OBVIOUS
<1>2. n \in Nat /\ DOMAIN nalus = 1 .. n
  BY <1>1
<1>3. PICK c : c = [id |-> id]
  OBVIOUS
<1>4. PICK d : d = Parsed(u, 0)
  OBVIOUS
<1>5. PICK F : FoldValues(F, n, "parse", d, nalus, c) /\ r = F[n]
  BY <1>2, <1>3, <1>4, ParseAllSteps
<1> DEFINE Good(i) == /\ Kept(u, F[i].unp) /\ IsParsed(F[i])
                      /\ F[i].ret = 0 => Grown(u, F[i].unp, Part(nalus, id, i))
           q == {i \in Nat : Good(i)}
<1>6. 0 \in q
  <2>1. F[0] = Parsed(u, 0)
    BY <1>4, <1>5 DEF FoldValues
  <2>2. F[0].unp = u
    BY <2>1 DEF Parsed
  <2>3. Part(nalus, id, 0) = << >>
    BY DEF Part
  <2>5. IsParsed(F[0])
    BY <2>1, ParsedIs
  <2>4. Good(0)
    BY <2>2, <2>3, <2>5, KeptBySame
  <2> QED
    BY <2>4
<1>7. ASSUME NEW i \in 0 .. n - 1, i \in q PROVE i + 1 \in q
  <2>1. i + 1 \in 1 .. n /\ (i + 1) - 1 = i
    BY <1>2
  <2>2. PICK k : k = i + 1
    OBVIOUS
  <2>3. k \in 1 .. n /\ k - 1 = i /\ k \in Nat
    BY <2>1, <2>2
  <2>4. F[k] = FoldStep("parse", F[k - 1], nalus[k], c)
    BY <1>5, <2>3 DEF FoldValues
  <2>5. F[k] = IF F[i].ret # 0 THEN F[i] ELSE ParseNalu(F[i].unp, nalus[k], id)
    BY <1>3, <2>3, <2>4 DEF FoldStep
  <2>6. Good(i)
    BY <1>7
  <2>7. CASE F[i].ret # 0
    <3>1. F[k] = F[i]
      BY <2>5, <2>7
    <3>2. Good(k)
      BY <2>6, <2>7, <3>1, Zenon
    <3> QED
      BY <2>2, <2>3, <3>2
  <2>8. CASE F[i].ret = 0
    <3>1. PICK v : v = F[i].unp
      OBVIOUS
    <3>2. F[k] = ParseNalu(v, nalus[k], id)
      BY <2>5, <2>8, <3>1
    <3>3. Kept(u, v) /\ Grown(u, v, Part(nalus, id, i))
      BY <2>6, <2>8, <3>1
    <3>4. PICK f : IsUnp(v) /\ IsBuffer(f) /\ v.frames = << f >>
      BY <3>3 DEF Kept
    <3>5. nalus[k] \in NaluTypes
      BY <1>2, <2>3
    <3>6. /\ Kept(v, F[k].unp)
          /\ F[k].ret = 0 => Grown(v, F[k].unp, << << nalus[k], id >> >>)
      BY <3>2, <3>4, <3>5, ParseNaluIs
    <3>7. PICK a, b, ab : a = Part(nalus, id, i) /\ b = << << nalus[k], id >> >>
                          /\ ab = Part(nalus, id, k)
      BY Zenon
    <3>8. a \in Seq(NalUnits) /\ b \in Seq(NalUnits) /\ Joined(a, b) = ab
      <4>1. k \in 1 .. Len(nalus) /\ Part(nalus, id, i) = Part(nalus, id, k - 1)
        BY <1>1, <2>3
      <4> QED
        BY <3>7, <4>1, PartIs, Zenon
    <3>9. Kept(u, F[k].unp)
      BY <3>3, <3>6, <3>8, StepsCompose
    <3>10. ASSUME F[k].ret = 0 PROVE Grown(u, F[k].unp, Joined(a, b))
      BY <3>3, <3>6, <3>7, <3>8, <3>10, StepsCompose
    <3>12. IsParsed(F[k])
      BY <3>2, ParseNaluIsParsed
    <3>11. Good(k)
      BY <3>7, <3>8, <3>9, <3>10, <3>12
    <3> QED
      BY <2>2, <2>3, <3>11
  <2> QED
    BY <2>7, <2>8
<1> HIDE DEF q
<1>8. \A i \in 0 .. n : i \in q
  BY <1>2, <1>6, <1>7, CountUp
<1>9. n \in q
  BY <1>2, <1>8
<1> QED
  BY <1>1, <1>5, <1>9 DEF q


-----------------------------------------------------------------------------
(* One packet through the unpacketizer. *)

(* Nothing but a frame of timestamp ts is under construction. *)
OneOf(u, ts) ==
  u.frames = << >> \/ \E f : IsBuffer(f) /\ u.frames = << f >> /\ f.ts = ts

(* The units own have been collected; no frame is opened without a unit.   *)
Holds(u, ts, own) ==
  \/ u.frames = << >> /\ own = << >>
  \/ own # << >> /\ \E f : u.frames = << f >> /\ Built(f, ts, own)

(* What a packet's payload has to do with its kind. *)
GoodPayload(w) ==
  /\ w.kind = "padding" => w.nalus = << >>
  /\ w.kind = "fuA" => Len(w.nalus) <= 1
  /\ w.kind \notin {"padding", "fuA", "badStapA"} => w.nalus # << >>

PayloadUnits(p) == Part(p.payload.nalus, p.id, Len(p.payload.nalus))

(* What a parse of packet p leaves of u. *)
Same(u, v) ==
  /\ IsUnp(v) /\ v.started = u.started /\ v.expect = u.expect
  /\ Params(u) => Params(v)

Collects(u, r, p) ==
  r.ret = 0 /\ GoodPayload(p.payload) /\ Params(u)
    => \A own : Holds(u, p.ts, own) => Holds(r.unp, p.ts, Joined(own, PayloadUnits(p)))

LEMMA FrameForIs ==
  ASSUME NEW u, IsUnp(u), NEW ts, OneOf(u, ts), NEW v, v = FrameFor(u, ts)
  PROVE  /\ Same(u, v)
         /\ \E f : IsBuffer(f) /\ v.frames = << f >> /\ f.ts = ts
         /\ HasFrameOf(u, ts) <=> u.frames # << >>
         /\ u.frames # << >> => v = u
         /\ u.frames = << >> => \E f : v.frames = << f >> /\ f.rawData = << >>
         /\ \A own : Holds(u, ts, own) => \E f : v.frames = << f >> /\ Built(f, ts, own)
<1>1. CASE u.frames = << >>
  <2>1. ~HasFrameOf(u, ts)
    BY <1>1 DEF HasFrameOf
  <2>2. PICK none, no : none = << >> /\ no = FALSE
    BY Zenon
  <2>3. PICK f : f = [ts |-> ts, rawData |-> none, bIFrame |-> no]
    OBVIOUS
  <2>4. v = [u EXCEPT !.frames = Append(@, f)]
    BY <2>1, <2>2, <2>3, Zenon DEF FrameFor, PushNewFrame
  <2>5. Append(u.frames, f) = << f >>
    BY <1>1
  <2>6. v = [u EXCEPT !.frames = << f >>]
    BY <2>4, <2>5
  <2>7. Same(u, v) /\ v.frames = << f >>
    BY <2>6 DEF IsUnp, Same, Params
  <2>8. IsBuffer(f) /\ f.ts = ts /\ f.rawData = none
    BY <2>3 DEF IsBuffer
  <2>9. ASSUME NEW own, Holds(u, ts, own) PROVE Built(f, ts, own)
    <3>1. own = << >>
      BY <1>1, <2>9 DEF Holds
    <3>2. own \in Seq(NalUnits) /\ none \in Seq(NalUnits)
      BY <2>2, <3>1
    <3>3. Joined(none, own) = none
      BY <2>2, <3>1, <3>2, JoinedEmpty
    <3>4. f = [ts |-> ts, rawData |-> Joined(none, own), bIFrame |-> no]
      BY <2>3, <3>3, Zenon
    <3>5. InFront(none, no)
      BY <2>2, Zenon DEF InFront
    <3> QED
      BY <3>1, <3>2, <3>4, <3>5, Zenon DEF Built
  <2> QED
    BY <1>1, <2>1, <2>2, <2>7, <2>8, <2>9, Zenon
<1>2. CASE u.frames # << >>
  <2>1. PICK f : IsBuffer(f) /\ u.frames = << f >> /\ f.ts = ts
    BY <1>2 DEF OneOf
  <2>2. HasFrameOf(u, ts)
    BY <1>2, <2>1 DEF HasFrameOf, Last
  <2>3. v = u
    BY <2>2 DEF FrameFor
  <2>4. Same(u, v)
    BY <2>3 DEF Same
  <2>5. \A own : Holds(u, ts, own) => \E g : v.frames = << g >> /\ Built(g, ts, own)
    BY <1>2, <2>3 DEF Holds
  <2> QED
    BY <1>2, <2>1, <2>2, <2>3, <2>4, <2>5, Zenon
<1> QED
  BY <1>1, <1>2

LEMMA PayloadUnitsTyped ==
  ASSUME NEW p \in Packets
  PROVE  /\ p.payload.nalus \in Seq(NaluTypes) /\ p.id \in Nat /\ p.ts \in Nat
         /\ p.seq \in SeqNumbers
         /\ PayloadUnits(p) \in Seq(NalUnits)
         /\ p.payload.nalus # << >> => PayloadUnits(p) # << >>
         /\ p.payload.nalus = << >> => PayloadUnits(p) = << >>
<1>1. p.payload.nalus \in Seq(NaluTypes) /\ p.id \in Nat /\ p.ts \in Nat
      /\ p.seq \in SeqNumbers
  BY DEF Packets, Payloads
<1>2. PICK nalus, id, l : nalus = p.payload.nalus /\ id = p.id /\ l = Len(nalus)
  BY Zenon
<1>3. nalus \in Seq(NaluTypes) /\ id \in Nat /\ l \in Nat
  BY <1>1, <1>2
<1>4. l = 0 <=> nalus = << >>
  BY <1>2, <1>3
<1>5. PayloadUnits(p) = Part(nalus, id, l)
  BY <1>2 DEF PayloadUnits
<1>6. CASE l = 0
  BY <1>1, <1>2, <1>4, <1>5, <1>6 DEF Part
<1>7. CASE l # 0
  <2>1. l \in 1 .. Len(nalus)
    BY <1>2, <1>3, <1>7
  <2>2. Part(nalus, id, l) \in Seq(NalUnits)
    BY <1>3, <2>1, PartIs
  <2>3. Part(nalus, id, l) # << >>
    BY <1>3, <1>7 DEF Part
  <2> QED
    BY <1>1, <1>2, <1>4, <1>5, <1>7, <2>2, <2>3
<1> QED
  BY <1>6, <1>7

LEMMA StapAOrSingleIs ==
  ASSUME NEW u, IsUnp(u), NEW p \in Packets, OneOf(u, p.ts),
         p.payload.kind \notin {"padding", "fuA"},
         NEW r, r = ParseStapAOrSingleNalu_(u, p)
  PROVE  Same(u, r.unp) /\ OneOf(r.unp, p.ts) /\ Collects(u, r, p) /\ IsParsed(r)
<1>1. CASE p.payload.kind = "badStapA"
  <2>1. r = Parsed(u, -1)
    BY <1>1 DEF ParseStapAOrSingleNalu_, ParseStapAStartOffsets_
  <2>2. r.unp = u /\ r.ret = -1
    BY <2>1 DEF Parsed
  <2> QED
    BY <2>1, <2>2, ParsedIs DEF Same, Collects
<1>2. CASE p.payload.kind # "badStapA"
  <2>1. PICK w : w = FrameFor(u, p.ts)
    OBVIOUS
  <2>2. PICK nalus, id : nalus = p.payload.nalus /\ id = p.id
    BY Zenon
  <2>3. r = ParseAll(w, nalus, id)
    <3>1. ~(ParseStapAStartOffsets_(p) # 0)
      BY <1>2 DEF ParseStapAStartOffsets_
    <3>2. r = ParseAll(FrameFor(u, p.ts), p.payload.nalus, p.id)
      BY <3>1, Zenon DEF ParseStapAOrSingleNalu_, ParseAll
    <3> QED
      BY <2>1, <2>2, <3>2
  <2>4. nalus \in Seq(NaluTypes) /\ id \in Nat /\ PayloadUnits(p) \in Seq(NalUnits)
        /\ (nalus # << >> => PayloadUnits(p) # << >>)
    BY <2>2, PayloadUnitsTyped
  <2>5. /\ Same(u, w)
        /\ \E f : IsBuffer(f) /\ w.frames = << f >> /\ f.ts = p.ts
        /\ \A own : Holds(u, p.ts, own) => \E f : w.frames = << f >> /\ Built(f, p.ts, own)
    BY <2>1, FrameForIs
  <2>6. IsUnp(w) /\ One(w)
    BY <2>5 DEF Same, One
  <2>7. Kept(w, r.unp) /\ IsParsed(r) /\ (r.ret = 0 => Grown(w, r.unp, PayloadUnits(p)))
    BY <2>2, <2>3, <2>4, <2>6, ParseAllIs DEF PayloadUnits
  <2>8. Same(u, r.unp)
    BY <2>5, <2>7 DEF Same, Kept
  <2>9. OneOf(r.unp, p.ts)
    <3>1. PICK f, h : /\ IsBuffer(f) /\ w.frames = << f >>
                      /\ IsBuffer(h) /\ r.unp.frames = << h >> /\ h.ts = f.ts
      BY <2>7 DEF Kept
    <3>2. PICK g : w.frames = << g >> /\ g.ts = p.ts
      BY <2>5
    <3>3. g = f
      BY <3>1, <3>2
    <3>4. h.ts = p.ts
      BY <3>1, <3>2, <3>3
    <3> QED
      BY <3>1, <3>4 DEF OneOf
  <2>10. ASSUME r.ret = 0, GoodPayload(p.payload), Params(u), NEW own,
                Holds(u, p.ts, own)
         PROVE  Holds(r.unp, p.ts, Joined(own, PayloadUnits(p)))
    <3>1. PICK f : w.frames = << f >> /\ Built(f, p.ts, own)
      BY <2>5, <2>10
    <3>2. Params(w)
      BY <2>5, <2>10 DEF Same
    <3>3. PICK h : r.unp.frames = << h >> /\ Built(h, p.ts, Joined(own, PayloadUnits(p)))
      BY <2>7, <2>10, <3>1, <3>2 DEF Grown
    <3>4. nalus # << >>
      BY <1>2, <2>2, <2>10 DEF GoodPayload
    <3>5. own \in Seq(NalUnits)
      BY <3>1 DEF Built
    <3>6. Joined(own, PayloadUnits(p)) # << >>
      BY <2>4, <3>4, <3>5, JoinedIs
    <3> QED
      BY <3>3, <3>6 DEF Holds
  <2> QED
    BY <2>7, <2>8, <2>9, <2>10 DEF Collects
<1> QED
  BY <1>1, <1>2


LEMMA BuiltReady ==
  ASSUME NEW g, NEW ts, NEW own, NEW type, Built(g, ts, own),
         own # << >> \/ type # "idr"
  PROVE  Ready(g, ts, own, type)
BY Zenon DEF Built, Ready

(* The parameter sets put in front of a frame that is still empty. *)
LEMMA ParamsAdded ==
  ASSUME NEW v, IsUnp(v), NEW f, IsBuffer(f), v.frames = << f >>, f.rawData = << >>,
         NEW w, w = AddParams(v)
  PROVE  /\ Same(v, w)
         /\ \E g : /\ IsBuffer(g) /\ w.frames = << g >> /\ g.ts = f.ts
                   /\ \A own, type : own = << >> /\ Params(v) => Ready(g, f.ts, own, type)
<1>1. PICK x, isI : x = ParamSets(v.sps, v.pps) /\ isI = TRUE
  BY Zenon
<1>2. PICK g : g = [ts |-> f.ts, rawData |-> Joined(f.rawData, x), bIFrame |-> isI]
  OBVIOUS
<1>3. /\ IsUnp(w) /\ w.started = v.started /\ w.expect = v.expect
      /\ w.sps = v.sps /\ w.pps = v.pps /\ w.frames = << g >>
  <2>1. IsTrue(isI)
    BY <1>1 DEF IsTrue
  <2>2. x = ParamSets(v.sps, v.pps)
    BY <1>1
  <2> QED
    BY <1>2, <2>1, <2>2, AddParamsIs
<1>4. IsBuffer(g) /\ g.ts = f.ts
  BY <1>2 DEF IsBuffer
<1>5. ASSUME NEW own, NEW type, own = << >>, Params(v)
      PROVE  Ready(g, f.ts, own, type)
  <2>1. v.sps \in Int /\ v.pps \in Int
    BY <1>5 DEF Params
  <2>2. x \in Seq(NalUnits) /\ x # << >>
    BY <1>1, <2>1, ParamSetsAre
  <2>3. InFront(x, isI)
    BY <1>1, <2>1 DEF InFront
  <2>4. Joined(f.rawData, x) = x /\ Joined(x, own) = x
    BY <1>5, <2>2, JoinedEmpty
  <2>5. g = [ts |-> f.ts, rawData |-> Joined(x, own), bIFrame |-> isI]
    BY <1>2, <2>4, Zenon
  <2>6. own \in Seq(NalUnits)
    BY <1>5
  <2> QED
    BY <2>2, <2>3, <2>5, <2>6, Zenon DEF Ready
<1> QED
  BY <1>3, <1>4, <1>5 DEF Same, Params

LEMMA OneUnitAppended ==
  ASSUME NEW u, NEW w, NEW g, NEW ts, Same(u, w), IsBuffer(g), w.frames = << g >>,
         g.ts = ts, NEW type \in NaluTypes, NEW id \in Nat,
         NEW unit, unit = << << type, id >> >>,
         NEW v, v = AppendRaw(w, unit)
  PROVE  /\ Same(u, v) /\ OneOf(v, ts)
         /\ \A own : Ready(g, ts, own, type) => Holds(v, ts, Joined(own, unit))
<1>1. PICK h : h = [ts |-> g.ts, rawData |-> Joined(g.rawData, unit),
                    bIFrame |-> g.bIFrame]
  OBVIOUS
<1>2. IsUnp(w)
  BY DEF Same
<1>3. /\ IsUnp(v) /\ v.started = w.started /\ v.expect = w.expect
      /\ v.sps = w.sps /\ v.pps = w.pps /\ v.frames = << h >>
  BY <1>1, <1>2, AppendRawIs
<1>4. IsBuffer(h) /\ h.ts = ts
  BY <1>1 DEF IsBuffer
<1>5. Same(u, v)
  BY <1>3 DEF Same, Params
<1>6. ASSUME NEW own, Ready(g, ts, own, type) PROVE Holds(v, ts, Joined(own, unit))
  <2>1. Built(h, ts, Joined(own, unit))
    BY <1>1, <1>6, UnitAppended
  <2>2. own \in Seq(NalUnits)
    BY <1>6 DEF Ready
  <2>3. unit \in Seq(NalUnits) /\ unit # << >>
    BY DEF NalUnits
  <2>4. Joined(own, unit) # << >>
    BY <2>2, <2>3, JoinedIs
  <2> QED
    BY <1>3, <2>1, <2>4 DEF Holds
<1> QED
  BY <1>3, <1>4, <1>5, <1>6 DEF OneOf

LEMMA FuaIs ==
  ASSUME NEW u, IsUnp(u), NEW p \in Packets, OneOf(u, p.ts), p.payload.kind = "fuA",
         NEW r, r = ParseFuaNalu_(u, p)
  PROVE  Same(u, r.unp) /\ OneOf(r.unp, p.ts) /\ Collects(u, r, p) /\ IsParsed(r)
<1>1. PICK type, unit, v, ts, start, miss :
        /\ type = p.payload.nalus[1] /\ unit = << << type, p.id >> >>
        /\ v = FrameFor(u, p.ts) /\ ts = p.ts /\ start = p.payload.start
        /\ miss = MissingParam(u)
  BY Zenon
<1>2. \/ r = Parsed(u, -1) \/ r = Parsed(u, -4)
      \/ r = Parsed(v, miss) /\ miss # 0
      \/ /\ p.payload.nalus # << >>
         /\ r = Parsed(AppendRaw(AddParams(v), unit), 0) /\ ~HasFrameOf(u, ts)
      \/ /\ p.payload.nalus # << >>
         /\ r = Parsed(AppendRaw(v, unit), 0) /\ (HasFrameOf(u, ts) \/ type # "idr")
      \/ /\ p.payload.nalus # << >>
         /\ r = Parsed(AppendRaw(u, unit), 0) /\ u.frames # << >>
  BY <1>1, Zenon DEF ParseFuaNalu_
<1>3. /\ Same(u, v)
      /\ \E f : IsBuffer(f) /\ v.frames = << f >> /\ f.ts = ts
      /\ HasFrameOf(u, ts) <=> u.frames # << >>
      /\ u.frames # << >> => v = u
      /\ u.frames = << >> => \E f : v.frames = << f >> /\ f.rawData = << >>
      /\ \A own : Holds(u, ts, own) => \E f : v.frames = << f >> /\ Built(f, ts, own)
  BY <1>1, FrameForIs
<1>9. IsParsed(r)
  BY <1>2, ParsedIs, Zenon
<1>4. CASE r = Parsed(u, -1) \/ r = Parsed(u, -4)
  <2>1. r.unp = u /\ r.ret # 0
    BY <1>4 DEF Parsed
  <2> QED
    BY <1>9, <2>1 DEF Same, Collects
<1>5. CASE r = Parsed(v, miss) /\ miss # 0
  <2>1. r.unp = v /\ r.ret # 0
    BY <1>5 DEF Parsed
  <2>2. OneOf(v, p.ts)
    BY <1>1, <1>3 DEF OneOf
  <2> QED
    BY <1>3, <1>9, <2>1, <2>2, Zenon DEF Collects
<1>6. ASSUME p.payload.nalus # << >>
      PROVE  /\ type \in NaluTypes /\ p.id \in Nat
             /\ GoodPayload(p.payload) => PayloadUnits(p) = unit
  <2>1. p.payload.nalus \in Seq(NaluTypes) /\ p.id \in Nat
    BY PayloadUnitsTyped
  <2>2. PICK nalus, id, l : nalus = p.payload.nalus /\ id = p.id /\ l = Len(nalus)
    BY Zenon
  <2>3. l \in Nat /\ l # 0 /\ type = nalus[1]
    BY <1>1, <1>6, <2>1, <2>2
  <2>4. type \in NaluTypes
    BY <2>1, <2>2, <2>3
  <2>5. ASSUME GoodPayload(p.payload) PROVE PayloadUnits(p) = unit
    <3>4. Len(p.payload.nalus) <= 1
      BY <2>5, Zenon DEF GoodPayload
    <3>5. l <= 1
      BY <2>2, <3>4
    <3>1. l = 1
      BY <2>3, <3>5
    <3>2. PayloadUnits(p) = Part(nalus, id, 1)
      BY <2>2, <3>1 DEF PayloadUnits
    <3>3. Part(nalus, id, 1) = << << nalus[1], id >> >>
      BY DEF Part
    <3> QED
      BY <1>1, <2>2, <2>3, <3>2, <3>3
  <2> QED
    BY <2>1, <2>4, <2>5
<1>7. CASE /\ p.payload.nalus # << >>
           /\ r = Parsed(AppendRaw(AddParams(v), unit), 0) /\ ~HasFrameOf(u, ts)
  <2>1. u.frames = << >>
    BY <1>3, <1>7
  <2>2. PICK f : v.frames = << f >> /\ f.rawData = << >>
    BY <1>3, <2>1
  <2>3. IsBuffer(f) /\ f.ts = ts
    <3>1. PICK g : IsBuffer(g) /\ v.frames = << g >> /\ g.ts = ts
      BY <1>3
    <3>2. f = g
      BY <2>2, <3>1
    <3> QED
      BY <3>1, <3>2
  <2>4. PICK w : w = AddParams(v)
    OBVIOUS
  <2>5. Same(v, w)
        /\ \E g : /\ IsBuffer(g) /\ w.frames = << g >> /\ g.ts = f.ts
                  /\ \A own, k : own = << >> /\ Params(v) => Ready(g, f.ts, own, k)
    <3>1. IsUnp(v)
      BY <1>3 DEF Same
    <3> QED
      BY <2>2, <2>3, <2>4, <3>1, ParamsAdded
  <2>6. PICK g : /\ IsBuffer(g) /\ w.frames = << g >> /\ g.ts = f.ts
                 /\ \A own, k : own = << >> /\ Params(v) => Ready(g, f.ts, own, k)
    BY <2>5
  <2>7. Same(u, w)
    BY <1>3, <2>5 DEF Same
  <2>8. PICK x : x = AppendRaw(w, unit)
    OBVIOUS
  <2>9. r.unp = x /\ r.ret = 0
    BY <1>7, <2>4, <2>8 DEF Parsed
  <2>10. g.ts = ts
    BY <2>3, <2>6
  <2>11. /\ Same(u, x) /\ OneOf(x, ts)
         /\ \A own : Ready(g, ts, own, type) => Holds(x, ts, Joined(own, unit))
    BY <1>1, <1>6, <1>7, <2>6, <2>7, <2>8, <2>10, OneUnitAppended
  <2>12. ASSUME GoodPayload(p.payload), Params(u), NEW own, Holds(u, p.ts, own)
         PROVE  Holds(r.unp, p.ts, Joined(own, PayloadUnits(p)))
    <3>1. own = << >>
      BY <2>1, <2>12 DEF Holds
    <3>2. Params(v)
      BY <1>3, <2>12 DEF Same
    <3>3. Ready(g, ts, own, type)
      BY <2>3, <2>6, <3>1, <3>2
    <3> QED
      BY <1>1, <1>6, <1>7, <2>9, <2>11, <2>12, <3>3
  <2> QED
    BY <1>1, <1>9, <2>9, <2>11, <2>12, Zenon DEF Collects
<1>8. CASE \E w : /\ p.payload.nalus # << >>
                  /\ r = Parsed(AppendRaw(w, unit), 0)
                  /\ \/ w = v /\ (HasFrameOf(u, ts) \/ type # "idr")
                     \/ w = u /\ u.frames # << >>
  <2>1. PICK w : /\ p.payload.nalus # << >>
                 /\ r = Parsed(AppendRaw(w, unit), 0)
                 /\ \/ w = v /\ (HasFrameOf(u, ts) \/ type # "idr")
                    \/ w = u /\ u.frames # << >>
    BY <1>8
  <2>2. w = v /\ (u.frames # << >> \/ type # "idr")
    BY <1>3, <2>1
  <2>3. PICK g : IsBuffer(g) /\ w.frames = << g >> /\ g.ts = ts
    BY <1>3, <2>2
  <2>4. PICK x : x = AppendRaw(w, unit)
    OBVIOUS
  <2>5. r.unp = x /\ r.ret = 0
    BY <2>1, <2>4 DEF Parsed
  <2>6. /\ Same(u, x) /\ OneOf(x, ts)
        /\ \A own : Ready(g, ts, own, type) => Holds(x, ts, Joined(own, unit))
    BY <1>1, <1>3, <1>6, <2>1, <2>2, <2>3, <2>4, OneUnitAppended
  <2>7. ASSUME GoodPayload(p.payload), Params(u), NEW own, Holds(u, p.ts, own)
        PROVE  Holds(r.unp, p.ts, Joined(own, PayloadUnits(p)))
    <3>1. PICK f : v.frames = << f >> /\ Built(f, ts, own)
      BY <1>1, <1>3, <2>7
    <3>2. f = g
      BY <2>2, <2>3, <3>1
    <3>3. own # << >> \/ type # "idr"
      BY <2>2, <2>7 DEF Holds
    <3>4. Ready(g, ts, own, type)
      BY <3>1, <3>2, <3>3, BuiltReady
    <3> QED
      BY <1>1, <1>6, <2>1, <2>5, <2>6, <2>7, <3>4
  <2> QED
    BY <1>1, <1>9, <2>5, <2>6, <2>7, Zenon DEF Collects
<1> QED
  BY <1>2, <1>4, <1>5, <1>7, <1>8, Zenon


LEMMA HoldsTyped ==
  ASSUME NEW u, NEW ts, NEW own, Holds(u, ts, own)
  PROVE  own \in Seq(NalUnits)
<1>1. CASE own = << >>
  BY <1>1
<1>2. CASE \E f : u.frames = << f >> /\ Built(f, ts, own)
  BY <1>2, Zenon DEF Built
<1> QED
  BY <1>1, <1>2, Zenon DEF Holds

LEMMA ResyncIs ==
  ASSUME NEW u, IsUnp(u), NEW seq \in Nat, seq + 1 < SeqSpan, NEW v, v = Resync(u, seq)
  PROVE  /\ IsUnp(v) /\ v.started = TRUE /\ v.expect = seq + 1
         /\ v.sps = u.sps /\ v.pps = u.pps
         /\ v.frames = IF u.started /\ u.expect # seq THEN << >> ELSE u.frames
<1>1. (seq + 1) % SeqSpan = seq + 1
  <2>1. seq + 1 \in Nat
    OBVIOUS
  <2> QED
    BY <2>1, NoSmallMod
<1>2. PICK fs, on, e : /\ fs = (IF u.started /\ u.expect # seq THEN << >> ELSE u.frames)
                       /\ on = TRUE /\ e = seq + 1
  BY Zenon
<1>3. v = [u EXCEPT !.started = on, !.expect = e, !.frames = fs]
  BY <1>1, <1>2, Zenon DEF Resync
<1>4. v = [started |-> on, expect |-> e, frames |-> fs, sps |-> u.sps, pps |-> u.pps]
  BY <1>3 DEF IsUnp
<1>5. /\ v.started = on /\ v.expect = e /\ v.frames = fs
      /\ v.sps = u.sps /\ v.pps = u.pps
  BY <1>4
<1>6. IsUnp(v)
  BY <1>4, <1>5, Zenon DEF IsUnp
<1> QED
  BY <1>2, <1>5, <1>6, Zenon

(* What the packet adds to the units collected, on its way into the buffer *)
(* or out to the decoder.                                                  *)
Passes(v, r, p) ==
  r.ret = 0 /\ GoodPayload(p.payload) /\ Params(v)
    => \A own : Holds(v, p.ts, own) =>
         \/ r.media = << >> /\ Holds(r.unp, p.ts, Joined(own, PayloadUnits(p)))
         \/ \E f : /\ r.media = << f >>
                   /\ Built(f, p.ts, Joined(own, PayloadUnits(p)))

(* The unpacketizer and the media after packet p, v being what the gap     *)
(* check left.                                                             *)
Accepted(v, r, p) ==
  /\ r.abort = "none" /\ Same(v, r.unp) /\ OneOf(r.unp, p.ts)
  /\ r.media # << >> => Len(r.media) = 1 /\ r.ret = 0 /\ p.marker
  /\ Passes(v, r, p)

LEMMA UnpacketizeIs ==
  ASSUME NEW u, NEW p \in Packets, NEW v, v = Resync(u, p.seq), IsUnp(v),
         OneOf(v, p.ts), NEW r, r = Unpacketize(u, p)
  PROVE  \/ /\ ~NotBehind(u, p.seq)
            /\ r.abort = SeqBehind /\ r.unp = u /\ r.media = << >>
         \/ NotBehind(u, p.seq) /\ Accepted(v, r, p)
<1>1. CASE ~NotBehind(u, p.seq)
  <2>1. PICK none : none = << >>
    OBVIOUS
  <2>2. r = Unpacked(Parsed(u, 0), none, SeqBehind)
    BY <1>1, <2>1, Zenon DEF Unpacketize
  <2>3. r.abort = SeqBehind /\ r.unp = u /\ r.media = none
    BY <2>2 DEF Unpacked, Parsed
  <2> QED
    BY <1>1, <2>1, <2>3
<1>2. CASE NotBehind(u, p.seq)
  <2>1. PICK kind, par :
          /\ kind = p.payload.kind
          /\ par = CASE kind = "padding" -> Parsed(v, 0)
                     [] kind = "fuA" -> ParseFuaNalu_(v, p)
                     [] OTHER -> ParseStapAOrSingleNalu_(v, p)
    BY Zenon
  <2>2. r = IF par.ret = 0 /\ kind # "padding" /\ p.marker
            THEN Unpacked([par EXCEPT !.unp.frames = << >>], par.unp.frames, "none")
            ELSE Unpacked(par, << >>, "none")
    BY <1>2, <2>1, Zenon DEF Unpacketize
  <2>3. /\ Same(v, par.unp) /\ OneOf(par.unp, p.ts) /\ Collects(v, par, p)
        /\ IsParsed(par)
    <3>1. CASE kind = "padding"
      <4>1. par.unp = v
        BY <2>1, <3>1 DEF Parsed
      <4>3. IsParsed(par)
        BY <2>1, <3>1, ParsedIs
      <4>2. ASSUME GoodPayload(p.payload), NEW own, Holds(v, p.ts, own)
            PROVE  Joined(own, PayloadUnits(p)) = own
        <5>1. p.payload.nalus = << >>
          BY <2>1, <3>1, <4>2 DEF GoodPayload
        <5>2. PayloadUnits(p) = << >>
          BY <5>1, PayloadUnitsTyped
        <5>3. own \in Seq(NalUnits)
          BY <4>2, HoldsTyped
        <5> QED
          BY <5>2, <5>3, JoinedEmpty
      <4> QED
        BY <2>1, <3>1, <4>1, <4>2, <4>3, Zenon DEF Same, Collects
    <3>2. CASE kind = "fuA"
      <4>1. par = ParseFuaNalu_(v, p)
        BY <2>1, <3>2
      <4> QED
        BY <2>1, <3>2, <4>1, FuaIs
    <3>3. CASE kind \notin {"padding", "fuA"}
      <4>1. par = ParseStapAOrSingleNalu_(v, p)
        BY <2>1, <3>3
      <4> QED
        BY <2>1, <3>3, <4>1, StapAOrSingleIs
    <3> QED
      BY <3>1, <3>2, <3>3
  <2>4. CASE ~(par.ret = 0 /\ kind # "padding" /\ p.marker)
    <3>1. PICK none : none = << >>
      OBVIOUS
    <3>2. r = Unpacked(par, none, "none")
      BY <2>2, <2>4, <3>1, Zenon
    <3>3. /\ r.unp = par.unp /\ r.ret = par.ret /\ r.abort = "none" /\ r.media = none
      BY <3>2 DEF Unpacked
    <3>4. Passes(v, r, p)
      BY <2>3, <3>1, <3>3, Zenon DEF Passes, Collects
    <3>5. Same(v, r.unp)
      BY <2>3, <3>3
    <3>6. OneOf(r.unp, p.ts)
      BY <2>3, <3>3
    <3>7. r.media = << >> /\ r.abort = "none"
      BY <3>1, <3>3
    <3>8. Accepted(v, r, p)
      BY <3>4, <3>5, <3>6, <3>7, Zenon DEF Accepted
    <3> QED
      BY <1>2, <3>8
  <2>5. CASE par.ret = 0 /\ kind # "padding" /\ p.marker
    <3>1. PICK x, fs, none : x = par.unp /\ fs = x.frames /\ none = << >>
      BY Zenon
    <3>2. par = [unp |-> x, ret |-> par.ret] /\ IsUnp(x)
      BY <2>3, <3>1 DEF IsParsed, Parsed, Same
    <3>3. PICK y : y = [x EXCEPT !.frames = none]
      OBVIOUS
    <3>4. [par EXCEPT !.unp.frames = none] = [par EXCEPT !.unp = y]
      BY <3>1, <3>3, Zenon
    <3>5. r = Unpacked([par EXCEPT !.unp = y], fs, "none")
      BY <2>2, <2>5, <3>1, <3>4, Zenon
    <3>6. r.unp = y /\ r.ret = 0 /\ r.abort = "none" /\ r.media = fs
      <4>1. [par EXCEPT !.unp = y].unp = y /\ [par EXCEPT !.unp = y].ret = par.ret
        BY <3>2
      <4> QED
        BY <2>5, <3>5, <4>1 DEF Unpacked
    <3>7. /\ IsUnp(y) /\ y.frames = none /\ y.started = x.started
          /\ y.expect = x.expect /\ y.sps = x.sps /\ y.pps = x.pps
      BY <3>2, <3>3 DEF IsUnp
    <3>8. Same(v, y) /\ OneOf(y, p.ts)
      BY <2>3, <3>1, <3>7 DEF Same, OneOf, Params
    <3>9. r.media = << >> \/ Len(r.media) = 1
      <4>1. fs = << >> \/ \E f : fs = << f >>
        BY <2>3, <3>1, Zenon DEF OneOf
      <4>2. \A f : Len(<< f >>) = 1
        OBVIOUS
      <4> QED
        BY <3>6, <4>1, <4>2, Zenon
    <3>10. Passes(v, r, p)
      <4> SUFFICES ASSUME GoodPayload(p.payload), Params(v), NEW own, Holds(v, p.ts, own)
                   PROVE  \/ /\ r.media = << >>
                             /\ Holds(r.unp, p.ts, Joined(own, PayloadUnits(p)))
                          \/ \E f : /\ r.media = << f >>
                                    /\ Built(f, p.ts, Joined(own, PayloadUnits(p)))
        BY DEF Passes
      <4>1. Holds(x, p.ts, Joined(own, PayloadUnits(p)))
        BY <2>3, <2>5, <3>1 DEF Collects
      <4> QED
        BY <3>1, <3>6, <3>7, <4>1, Zenon DEF Holds
    <3> QED
      BY <1>2, <2>5, <3>6, <3>8, <3>9, <3>10, Zenon DEF Accepted
  <2> QED
    BY <2>4, <2>5
<1> QED
  BY <1>1, <1>2


-----------------------------------------------------------------------------
(* DumpPacket over the data packets of a frame. *)

IsDump(d) ==
  d = [unp |-> d.unp, firstTs |-> d.firstTs, decoder |-> d.decoder,
       decoded |-> d.decoded, shown |-> d.shown, ret |-> d.ret, abort |-> d.abort]

LEMMA DecodeIs ==
  ASSUME NEW d, IsDump(d), NEW media, NEW initOk, NEW decodeOk,
         NEW x, x = Decode(d, media, initOk, decodeOk)
  PROVE  /\ IsDump(x) /\ x.unp = d.unp /\ x.abort = d.abort
         /\ x.decoded = d.decoded \/ x.decoded = Append(d.decoded, media)
<1>1. PICK dec : dec = IF d.decoder # "null" THEN d.decoder
                       ELSE IF initOk THEN "ready" ELSE "broken"
  OBVIOUS
<1>2. PICK more, pics, ret :
        /\ more = Append(d.decoded, media)
        /\ pics = (IF decodeOk THEN Append(d.shown, media.ts) ELSE d.shown)
        /\ ret = (IF decodeOk THEN 0 ELSE -3)
  BY Zenon
<1>3. \/ x = [d EXCEPT !.decoder = dec, !.ret = -2]
      \/ x = [d EXCEPT !.ret = -3]
      \/ x = [d EXCEPT !.decoder = dec, !.decoded = more, !.shown = pics, !.ret = ret]
  BY <1>1, <1>2, Zenon DEF Decode
<1>4. CASE x = [d EXCEPT !.decoder = dec, !.ret = -2]
  BY <1>4 DEF IsDump
<1>5. CASE x = [d EXCEPT !.ret = -3]
  BY <1>5 DEF IsDump
<1>6. CASE x = [d EXCEPT !.decoder = dec, !.decoded = more, !.shown = pics, !.ret = ret]
  <2>1. IsDump(x) /\ x.unp = d.unp /\ x.abort = d.abort /\ x.decoded = more
    BY <1>6 DEF IsDump
  <2> QED
    BY <1>2, <2>1
<1> QED
  BY <1>3, <1>4, <1>5, <1>6

LEMMA DumpVideoIs ==
  ASSUME NEW d, IsDump(d), NEW p, NEW initOk, NEW decodeOk,
         NEW r, r = Unpacketize(d.unp, p), r.media # << >> => Len(r.media) = 1,
         NEW x, x = DumpVideo(d, p, initOk, decodeOk)
  PROVE  /\ IsDump(x) /\ x.unp = r.unp /\ x.abort = r.abort
         /\ \/ x.decoded = d.decoded /\ (x.ret = 0 => r.ret = 0 \/ r.media # << >>)
            \/ r.media # << >> /\ x.decoded = Append(d.decoded, r.media[1])
<1>1. PICK first : first = IF d.firstTs = 0 THEN p.ts ELSE d.firstTs
  OBVIOUS
<1>2. PICK e : e = [d EXCEPT !.unp = r.unp, !.ret = r.ret, !.abort = r.abort,
                             !.firstTs = first]
  OBVIOUS
<1>3. /\ IsDump(e) /\ e.unp = r.unp /\ e.abort = r.abort /\ e.ret = r.ret
      /\ e.decoded = d.decoded
  BY <1>2 DEF IsDump
<1>4. PICK one, stop, m :
        /\ stop = (r.abort # NoAbort \/ r.ret # 0 \/ r.media = << >>)
        /\ one = Len(r.media) /\ m = r.media[1]
  BY Zenon
<1>5. x = IF stop THEN e
          ELSE IF one # 1 THEN [e EXCEPT !.abort = "media.size() == 1"]
          ELSE Decode(e, m, initOk, decodeOk)
  BY <1>1, <1>2, <1>4, Zenon DEF DumpVideo
<1>6. CASE stop
  <2>1. x = e
    BY <1>5, <1>6, Zenon
  <2> QED
    BY <1>3, <2>1
<1>7. CASE ~stop
  <2>1. r.media # << >> /\ one = 1
    BY <1>4, <1>7
  <2>2. x = Decode(e, m, initOk, decodeOk)
    BY <1>5, <1>7, <2>1, Zenon
  <2>3. /\ IsDump(x) /\ x.unp = e.unp /\ x.abort = e.abort
        /\ x.decoded = e.decoded \/ x.decoded = Append(e.decoded, m)
    BY <1>3, <2>2, DecodeIs
  <2> QED
    BY <1>3, <1>4, <2>1, <2>3, Zenon
<1> QED
  BY <1>6, <1>7

LEMMA UnitsStep ==
  ASSUME NEW p \in Packets, NEW units, NEW c
  PROVE  FoldStep("units", units, p, c) = Joined(units, PayloadUnits(p))
<1>1. PICK nalus, id : nalus = p.payload.nalus /\ id = p.id
  BY Zenon
<1>2. nalus \in Seq(NaluTypes)
  BY <1>1, PayloadUnitsTyped
<1>3. DOMAIN nalus = 1 .. Len(nalus)
  BY <1>2
<1>4. PayloadUnits(p) = [i \in DOMAIN p.payload.nalus |-> << p.payload.nalus[i], p.id >>]
  BY <1>1, <1>3, Zenon DEF PayloadUnits, Part
<1>5. FoldStep("units", units, p, c)
        = units \o [i \in DOMAIN p.payload.nalus |-> << p.payload.nalus[i], p.id >>]
  <2>1. "units" # "dump" /\ "units" # "parse"
    OBVIOUS
  <2> QED
    BY <2>1, Zenon DEF FoldStep
<1> QED
  BY <1>4, <1>5, Zenon DEF Joined


(* The data packets of the frame at b .. b+n-1, of timestamp ts. *)
IsDataOf(packets, b, n, ts) ==
  /\ DOMAIN packets = 1 .. n
  /\ \A i \in 1 .. n :
       /\ packets[i] \in Packets /\ packets[i].seq = b + i - 1
       /\ packets[i].ts = ts /\ (packets[i].marker <=> i = n)

GoodPackets(packets) == \A i \in DOMAIN packets : GoodPayload(packets[i].payload)

(* The unpacketizer between two groups: it expects an older number than b, *)
(* the first of the next group.                                            *)
Behind(u, b) ==
  /\ IsUnp(u) /\ Params(u) /\ AtMostOne(u)
  /\ ~u.started => u.frames = << >>
  /\ u.started => u.expect \in Nat /\ u.expect < b

(* After i of the n packets of the group, e from d; units are those of the *)
(* packets.                                                                *)
Dumped(d, e, b, i, n, ts, good, units) ==
  /\ IsDump(e) /\ IsUnp(e.unp) /\ Params(e.unp) /\ AtMostOne(e.unp)
  /\ \/ e.unp = d.unp
     \/ e.unp.started = TRUE /\ e.unp.expect \in b + 1 .. b + i
  /\ e.abort \in {NoAbort, SeqBehind}
  /\ NotBehind(d.unp, b) => e.abort = NoAbort
  /\ \/ e.decoded = d.decoded
     \/ /\ i = n
        /\ \E f : /\ e.decoded = Append(d.decoded, f)
                  /\ good => Built(f, ts, units)

(* Between two packets the group is still being dumped. *)
Dumping(d, e, b, i, ts, good, units) ==
  e.ret = 0 /\ e.abort = NoAbort
    => \/ i = 0 /\ e.unp = d.unp
       \/ /\ i > 0 /\ e.unp.started = TRUE /\ e.unp.expect = b + i
          /\ OneOf(e.unp, ts)
          /\ good => Holds(e.unp, ts, units)

LEMMA OneOfIsOne ==
  ASSUME NEW u, NEW ts, OneOf(u, ts)
  PROVE  AtMostOne(u)
BY Zenon DEF OneOf, AtMostOne, One

(* The buffer before packet i + 1 of a group. *)
Buffered(d, e, v, b, i, ts, good, units) ==
  /\ IsUnp(v) /\ Params(v) /\ v.started = TRUE /\ v.expect = b + i + 1
  /\ OneOf(v, ts) /\ (good => Holds(v, ts, units))
  /\ \/ i = 0 /\ e.unp = d.unp
     \/ i > 0 /\ NotBehind(e.unp, b + i)

LEMMA BufferBefore ==
  ASSUME NEW d, NEW b \in Nat, Behind(d.unp, b), NEW i \in Nat, b + i + 1 < SeqSpan,
         NEW ts, NEW good, NEW units, NEW e, IsUnp(e.unp), Params(e.unp),
         e.ret = 0, e.abort = NoAbort, Dumping(d, e, b, i, ts, good, units),
         i = 0 => units = << >>,
         NEW v, v = Resync(e.unp, b + i)
  PROVE  Buffered(d, e, v, b, i, ts, good, units)
<1>1. PICK u, k : u = e.unp /\ k = b + i
  BY Zenon
<1>2. k \in Nat /\ k + 1 < SeqSpan /\ k + 1 = b + i + 1
  BY <1>1
<1>3. /\ IsUnp(v) /\ v.started = TRUE /\ v.expect = k + 1
      /\ v.sps = u.sps /\ v.pps = u.pps
      /\ v.frames = IF u.started /\ u.expect # k THEN << >> ELSE u.frames
  <2>1. IsUnp(u) /\ v = Resync(u, k)
    BY <1>1
  <2> QED
    BY <1>2, <2>1, ResyncIs
<1>4. Params(v)
  BY <1>1, <1>3 DEF Params
<1>5. CASE i = 0 /\ u = d.unp
  <2>1. v.frames = << >>
    <3>1. CASE ~u.started
      BY <1>3, <1>5, <3>1 DEF Behind
    <3>2. CASE u.started
      <4>1. u.expect < b /\ u.expect \in Nat /\ k = b
        BY <1>1, <1>5, <3>2 DEF Behind
      <4>2. u.expect # k
        BY <4>1
      <4> QED
        BY <1>3, <3>2, <4>2
    <3> QED
      BY <3>1, <3>2
  <2>2. OneOf(v, ts) /\ Holds(v, ts, units)
    BY <1>5, <2>1 DEF OneOf, Holds
  <2> QED
    BY <1>1, <1>2, <1>3, <1>4, <1>5, <2>2 DEF Buffered
<1>6. CASE /\ i > 0 /\ u.started = TRUE /\ u.expect = b + i /\ OneOf(u, ts)
           /\ good => Holds(u, ts, units)
  <2>1. v.frames = u.frames
    BY <1>1, <1>3, <1>6
  <2>2. OneOf(v, ts)
    BY <1>6, <2>1 DEF OneOf
  <2>3. good => Holds(v, ts, units)
    BY <1>6, <2>1, Zenon DEF Holds
  <2>4. NotBehind(u, k)
    BY <1>1, <1>6 DEF NotBehind, AheadOf
  <2> QED
    BY <1>1, <1>2, <1>3, <1>4, <1>6, <2>2, <2>3, <2>4 DEF Buffered
<1> QED
  BY <1>1, <1>5, <1>6 DEF Dumping

(* One packet more. *)
LEMMA PacketDumped ==
  ASSUME NEW d, NEW b \in Nat, Behind(d.unp, b), NEW n \in Nat, NEW i \in 0 .. n - 1,
         b + n < SeqSpan, NEW ts, NEW good \in BOOLEAN, NEW units, NEW e,
         e.ret = 0, e.abort = NoAbort, e.decoded = d.decoded,
         Dumped(d, e, b, i, n, ts, good, units),
         Dumping(d, e, b, i, ts, good, units), i = 0 => units = << >>,
         NEW p \in Packets, p.seq = b + i, p.ts = ts, p.marker => i + 1 = n,
         good => GoodPayload(p.payload),
         NEW initOk, NEW decodeOk, NEW x, x = DumpVideo(e, p, initOk, decodeOk),
         NEW more, more = Joined(units, PayloadUnits(p))
  PROVE  /\ Dumped(d, x, b, i + 1, n, ts, good, more)
         /\ i + 1 < n => Dumping(d, x, b, i + 1, ts, good, more)
<1>1. PICK r, v, k, j : r = Unpacketize(e.unp, p) /\ v = Resync(e.unp, p.seq)
                        /\ k = b + i /\ j = i + 1
  BY Zenon
<1>2. IsDump(e) /\ IsUnp(e.unp) /\ Params(e.unp) /\ AtMostOne(e.unp)
  BY Zenon DEF Dumped
<1>3. /\ IsUnp(v) /\ Params(v) /\ v.started = TRUE /\ v.expect = k + 1
      /\ OneOf(v, ts) /\ (good => Holds(v, ts, units))
      /\ \/ i = 0 /\ e.unp = d.unp
         \/ i > 0 /\ NotBehind(e.unp, k)
  <2>1. i \in Nat /\ b + i + 1 < SeqSpan
    BY HalfSeqAssumption DEF SeqSpan
  <2>2. v = Resync(e.unp, b + i)
    BY <1>1
  <2>3. Buffered(d, e, v, b, i, ts, good, units)
    BY <1>2, <2>1, <2>2, BufferBefore
  <2> QED
    BY <1>1, <2>3 DEF Buffered
<1>4. \/ /\ ~NotBehind(e.unp, k)
         /\ r.abort = SeqBehind /\ r.unp = e.unp /\ r.media = << >>
      \/ NotBehind(e.unp, k) /\ Accepted(v, r, p)
  <2>1. p.seq = k /\ OneOf(v, p.ts)
    BY <1>1, <1>3
  <2> QED
    BY <1>1, <1>3, <2>1, UnpacketizeIs
<1>5. r.media # << >> => Len(r.media) = 1
  BY <1>4 DEF Accepted
<1>6. /\ IsDump(x) /\ x.unp = r.unp /\ x.abort = r.abort
      /\ \/ x.decoded = e.decoded /\ (x.ret = 0 => r.ret = 0 \/ r.media # << >>)
         \/ r.media # << >> /\ x.decoded = Append(e.decoded, r.media[1])
  BY <1>1, <1>2, <1>5, DumpVideoIs
<1>7. CASE /\ ~NotBehind(e.unp, k)
           /\ r.abort = SeqBehind /\ r.unp = e.unp /\ r.media = << >>
  <2>1. i = 0 /\ e.unp = d.unp /\ k = b
    BY <1>1, <1>3, <1>7
  <2>2. ~NotBehind(d.unp, b)
    BY <1>7, <2>1
  <2>3. x.unp = d.unp /\ x.abort = SeqBehind /\ x.decoded = d.decoded
    BY <1>6, <1>7, <2>1
  <2>4. Dumped(d, x, b, j, n, ts, good, more)
    BY <1>2, <1>6, <2>1, <2>2, <2>3, Zenon DEF Dumped
  <2>5. SeqBehind # NoAbort
    BY DEF SeqBehind, NoAbort
  <2>6. Dumping(d, x, b, j, ts, good, more)
    BY <2>3, <2>5, Zenon DEF Dumping
  <2> QED
    BY <1>1, <2>4, <2>6
<1>8. CASE NotBehind(e.unp, k) /\ Accepted(v, r, p)
  <2>1. /\ IsUnp(r.unp) /\ Params(r.unp) /\ r.unp.started = TRUE
        /\ r.unp.expect = k + 1 /\ OneOf(r.unp, ts) /\ AtMostOne(r.unp)
    <3>1. Same(v, r.unp) /\ OneOf(r.unp, ts)
      BY <1>8, Zenon DEF Accepted
    <3>2. /\ IsUnp(r.unp) /\ Params(r.unp) /\ r.unp.started = TRUE
          /\ r.unp.expect = k + 1
      BY <1>3, <3>1 DEF Same
    <3> QED
      BY <3>1, <3>2, OneOfIsOne
  <2>2. r.abort = NoAbort
    BY <1>8 DEF Accepted, NoAbort
  <2>3. k + 1 \in b + 1 .. b + j /\ k + 1 = b + j /\ j > 0
    BY <1>1
  <2>4. r.media # << >> => j = n /\ r.ret = 0
    BY <1>1, <1>8 DEF Accepted
  <2>5. ASSUME good, r.ret = 0
        PROVE  \/ r.media = << >> /\ Holds(r.unp, ts, more)
               \/ \E f : r.media = << f >> /\ Built(f, ts, more)
    <3>1. Holds(v, p.ts, units) /\ GoodPayload(p.payload)
      BY <1>3, <2>5
    <3>2. Passes(v, r, p)
      BY <1>8 DEF Accepted
    <3> QED
      BY <1>3, <2>5, <3>1, <3>2, Zenon DEF Passes
  <2>6. \/ x.decoded = d.decoded
        \/ j = n /\ \E f : /\ x.decoded = Append(d.decoded, f)
                           /\ good => Built(f, ts, more)
    <3> SUFFICES ASSUME r.media # << >>, x.decoded = Append(e.decoded, r.media[1])
                 PROVE  j = n /\ (good => Built(r.media[1], ts, more))
      BY <1>6, Zenon
    <3>1. j = n /\ r.ret = 0
      BY <2>4
    <3>2. ASSUME good PROVE Built(r.media[1], ts, more)
      <4>1. PICK f : r.media = << f >> /\ Built(f, ts, more)
        BY <2>5, <3>1, <3>2
      <4>2. r.media[1] = f
        BY <4>1
      <4> QED
        BY <4>1, <4>2
    <3> QED
      BY <3>1, <3>2
  <2>7. Dumped(d, x, b, j, n, ts, good, more)
    BY <1>6, <2>1, <2>2, <2>3, <2>6, Zenon DEF Dumped
  <2>8. ASSUME j < n PROVE Dumping(d, x, b, j, ts, good, more)
    <3>1. r.media = << >> /\ x.decoded = e.decoded /\ (x.ret = 0 => r.ret = 0)
      <4>1. j # n
        BY <1>1, <2>8
      <4> QED
        BY <1>6, <2>4, <4>1
    <3>2. ASSUME x.ret = 0, good PROVE Holds(x.unp, ts, more)
      <4>1. r.ret = 0
        BY <3>1, <3>2
      <4>2. \A f : << f >> # << >>
        OBVIOUS
      <4> QED
        BY <1>6, <2>5, <3>1, <3>2, <4>1, <4>2, Zenon
    <3> QED
      BY <1>6, <2>1, <2>3, <3>2, Zenon DEF Dumping
  <2> QED
    BY <1>1, <2>7, <2>8
<1> QED
  BY <1>4, <1>7, <1>8


(* A group in error is not dumped any further. *)
LEMMA StoppedStays ==
  ASSUME NEW d, NEW b \in Nat, NEW i \in Nat, NEW n \in Nat, i < n,
         NEW ts, NEW good, NEW units, NEW more, NEW e,
         Dumped(d, e, b, i, n, ts, good, units), e.ret # 0 \/ e.abort # NoAbort
  PROVE  /\ Dumped(d, e, b, i + 1, n, ts, good, more)
         /\ Dumping(d, e, b, i + 1, ts, good, more)
<1>1. i # n
  OBVIOUS
<1>2. b + 1 .. b + i \subseteq b + 1 .. b + (i + 1)
  OBVIOUS
<1>3. Dumped(d, e, b, i + 1, n, ts, good, more)
  BY <1>1, <1>2, Zenon DEF Dumped
<1>4. Dumping(d, e, b, i + 1, ts, good, more)
  BY Zenon DEF Dumping
<1> QED
  BY <1>3, <1>4

LEMMA GroupDumped ==
  ASSUME NEW d, IsDump(d), d.ret = 0, d.abort = NoAbort,
         NEW b \in Nat, Behind(d.unp, b), NEW n \in Nat, b + n < SeqSpan,
         NEW ts, NEW packets, IsDataOf(packets, b, n, ts),
         NEW good \in BOOLEAN, good => GoodPackets(packets),
         NEW initOk, NEW decodeOk,
         NEW x, x = DumpAll(d, VideoSsrc, packets, initOk, decodeOk)
  PROVE  Dumped(d, x, b, n, n, ts, good, Units(packets))
<1>1. PICK c : c = [s |-> VideoSsrc, initOk |-> initOk, decodeOk |-> decodeOk]
  OBVIOUS
<1>2. DOMAIN packets = 1 .. n
  BY DEF IsDataOf
<1>3. PICK F : FoldValues(F, n, "dump", d, packets, c) /\ x = F[n]
  BY <1>1, <1>2, DumpAllSteps
<1>4. PICK G : FoldValues(G, n, "units", << >>, packets, c) /\ Units(packets) = G[n]
  BY <1>2, UnitsSteps
<1> DEFINE Done(i) == /\ Dumped(d, F[i], b, i, n, ts, good, G[i])
                      /\ i < n => Dumping(d, F[i], b, i, ts, good, G[i])
                      /\ i = 0 => G[i] = << >>
           q == {i \in Nat : Done(i)}
<1>5. 0 \in q
  <2>1. F[0] = d /\ G[0] = << >>
    BY <1>3, <1>4 DEF FoldValues
  <2>2. IsUnp(d.unp) /\ Params(d.unp) /\ AtMostOne(d.unp)
    BY DEF Behind
  <2>3. Dumped(d, d, b, 0, n, ts, good, << >>)
    BY <2>2, Zenon DEF Dumped
  <2>4. Dumping(d, d, b, 0, ts, good, << >>)
    BY Zenon DEF Dumping
  <2>5. Done(0)
    BY <2>1, <2>3, <2>4, Zenon
  <2> QED
    BY <2>5
<1>6. ASSUME NEW i \in 0 .. n - 1, i \in q PROVE i + 1 \in q
  <2>1. PICK e, k, p, units, more : /\ e = F[i] /\ k = i + 1 /\ p = packets[k]
                                    /\ units = G[i] /\ more = G[k]
    BY Zenon
  <2>2. k \in 1 .. n /\ k \in Nat /\ k - 1 = i /\ i \in Nat /\ i < n
    BY <2>1
  <2>3. F[k] = FoldStep("dump", F[k - 1], packets[k], c)
    BY <1>3, <2>2 DEF FoldValues
  <2>4. G[k] = FoldStep("units", G[k - 1], packets[k], c)
    BY <1>4, <2>2 DEF FoldValues
  <2>5. F[k] = FoldStep("dump", e, p, c) /\ more = FoldStep("units", units, p, c)
    BY <2>1, <2>2, <2>3, <2>4
  <2>6. F[k] = IF e.ret # 0 \/ e.abort # NoAbort THEN e
               ELSE DumpVideo(e, p, initOk, decodeOk)
    <3>1. c.s = VideoSsrc /\ c.initOk = initOk /\ c.decodeOk = decodeOk
      BY <1>1
    <3> QED
      BY <2>5, <3>1 DEF FoldStep
  <2>7. p \in Packets /\ p.seq = b + k - 1 /\ p.ts = ts /\ (p.marker <=> k = n)
    BY <2>1, <2>2 DEF IsDataOf
  <2>8. more = Joined(units, PayloadUnits(p))
    BY <2>5, <2>7, UnitsStep
  <2>9. /\ Dumped(d, e, b, i, n, ts, good, units)
        /\ Dumping(d, e, b, i, ts, good, units)
        /\ i = 0 => units = << >>
    <3>1. Done(i)
      BY <1>6
    <3> QED
      BY <2>1, <2>2, <3>1, Zenon
  <2>10. CASE e.ret # 0 \/ e.abort # NoAbort
    <3>1. F[k] = e
      BY <2>6, <2>10
    <3>2. Dumped(d, e, b, k, n, ts, good, more) /\ Dumping(d, e, b, k, ts, good, more)
      BY <2>1, <2>2, <2>9, <2>10, StoppedStays
    <3>3. k # 0
      BY <2>2
    <3>4. Done(k)
      BY <2>1, <3>1, <3>2, <3>3, Zenon
    <3> QED
      BY <2>1, <2>2, <3>4
  <2>11. CASE ~(e.ret # 0 \/ e.abort # NoAbort)
    <3>1. PICK y : y = DumpVideo(e, p, initOk, decodeOk)
      OBVIOUS
    <3>2. F[k] = y
      BY <2>6, <2>11, <3>1
    <3>3. e.decoded = d.decoded
      <4>1. i # n
        BY <2>2
      <4> QED
        BY <2>9, <4>1, Zenon DEF Dumped
    <3>4. p.seq = b + i /\ (p.marker => i + 1 = n) /\ e.ret = 0 /\ e.abort = NoAbort
      BY <2>1, <2>2, <2>7, <2>11
    <3>5. good => GoodPayload(p.payload)
      BY <1>2, <2>1, <2>2 DEF GoodPackets
    <3>6. /\ Dumped(d, y, b, i + 1, n, ts, good, more)
          /\ i + 1 < n => Dumping(d, y, b, i + 1, ts, good, more)
      <4>1. p \in Packets /\ p.ts = ts
        BY <2>7
      <4> QED
        BY <2>8, <2>9, <3>1, <3>3, <3>4, <3>5, <4>1, PacketDumped
    <3>7. k # 0
      BY <2>2
    <3>8. Done(k)
      BY <2>1, <3>2, <3>6, <3>7, Zenon
    <3> QED
      BY <2>1, <2>2, <3>8
  <2> QED
    BY <2>10, <2>11
<1> HIDE DEF q
<1>7. \A i \in 0 .. n : i \in q
  BY <1>5, <1>6, CountUp
<1>8. Done(n)
  <2>1. n \in q
    BY <1>7
  <2> QED
    BY <2>1, Zenon DEF q
<1> QED
  BY <1>3, <1>4, <1>8


-----------------------------------------------------------------------------
(* The pictures of a dump: each is of a frame decoded in it. *)

IsList(s) == \E k \in Nat : s = [i \in 1 .. k |-> s[i]]

LEMMA ListLength ==
  ASSUME NEW s, IsList(s)
  PROVE  Len(s) \in Nat /\ DOMAIN s = 1 .. Len(s) /\ s = [i \in 1 .. Len(s) |-> s[i]]
<1>1. PICK k \in Nat : s = [i \in 1 .. k |-> s[i]]
  BY DEF IsList
<1>2. Len(s) = k /\ DOMAIN s = 1 .. k
  BY <1>1
<1> QED
  BY <1>1, <1>2

(* t is s and x. *)
Longer(s, x, t) ==
  /\ IsList(t) /\ Len(s) \in Nat /\ Len(t) = Len(s) + 1
  /\ DOMAIN t = 1 .. Len(t) /\ t[Len(t)] = x
  /\ DOMAIN s = 1 .. Len(s) /\ \A i \in 1 .. Len(s) : t[i] = s[i]

LEMMA AppendIsList ==
  ASSUME NEW s, IsList(s), NEW x, NEW t, t = Append(s, x)
  PROVE  Longer(s, x, t)
<1>1. Len(s) \in Nat /\ DOMAIN s = 1 .. Len(s) /\ s = [i \in 1 .. Len(s) |-> s[i]]
  BY ListLength
<1>2. PICK S : S = {s[i] : i \in 1 .. Len(s)} \cup {x}
  OBVIOUS
<1>3. x \in S /\ \A i \in 1 .. Len(s) : s[i] \in S
  BY <1>2
<1>4. s \in Seq(S)
  BY <1>1, <1>3
<1>5. t \in Seq(S) /\ Len(t) = Len(s) + 1 /\ t[Len(t)] = x
      /\ \A i \in 1 .. Len(s) : t[i] = s[i]
  BY <1>3, <1>4
<1>6. Len(t) \in Nat /\ DOMAIN t = 1 .. Len(t) /\ t = [i \in 1 .. Len(t) |-> t[i]]
  <2>1. Len(t) \in Nat /\ t \in [1 .. Len(t) -> S] /\ DOMAIN t = 1 .. Len(t)
    BY <1>5, LenProperties
  <2> QED
    BY <2>1, Zenon
<1>7. IsList(t)
  BY <1>6, Zenon DEF IsList
<1> QED
  BY <1>1, <1>5, <1>6, <1>7 DEF Longer

(* The last picture of pics2 is of a frame that frames2 has and frames has *)
(* not, unless no picture has been added to pics.                          *)
Shows(frames, pics, frames2, pics2) ==
  /\ IsList(frames2) /\ IsList(pics2) /\ Len(frames2) >= Len(frames)
  /\ \/ pics2 = pics
     \/ /\ Len(pics2) \in Nat \ {0}
        /\ \E j \in DOMAIN frames2 : j > Len(frames) /\ pics2[Len(pics2)] = frames2[j].ts

(* What one packet adds. *)
Adds(d, x) ==
  \/ x.decoded = d.decoded /\ x.shown = d.shown
  \/ \E f : /\ x.decoded = Append(d.decoded, f)
            /\ x.shown = d.shown \/ x.shown = Append(d.shown, f.ts)

LEMMA AddsShow ==
  ASSUME NEW frames, IsList(frames), NEW pics,
         NEW d, Shows(frames, pics, d.decoded, d.shown), NEW x, Adds(d, x)
  PROVE  Shows(frames, pics, x.decoded, x.shown)
<1>1. PICK olds, shots, news, imgs : /\ olds = d.decoded /\ shots = d.shown
                                     /\ news = x.decoded /\ imgs = x.shown
  BY Zenon
<1>2. Shows(frames, pics, olds, shots)
  BY <1>1
<1>3. IsList(olds) /\ IsList(shots) /\ Len(olds) >= Len(frames) /\ Len(frames) \in Nat
  <2>1. Len(frames) \in Nat
    BY ListLength
  <2> QED
    BY <1>2, <2>1, Zenon DEF Shows
<1>4. CASE news = olds /\ imgs = shots
  BY <1>1, <1>2, <1>4
<1>5. ASSUME NEW f, news = Append(olds, f), imgs = shots \/ imgs = Append(shots, f.ts)
      PROVE  Shows(frames, pics, news, imgs)
  <2>1. /\ IsList(news) /\ Len(olds) \in Nat /\ Len(news) = Len(olds) + 1
        /\ DOMAIN news = 1 .. Len(news) /\ news[Len(news)] = f
        /\ DOMAIN olds = 1 .. Len(olds) /\ \A i \in 1 .. Len(olds) : news[i] = olds[i]
    <3>1. IsList(olds) /\ news = Append(olds, f)
      BY <1>3, <1>5
    <3>2. Longer(olds, f, news)
      BY <3>1, AppendIsList
    <3> QED
      BY <3>2 DEF Longer
  <2>2. Len(news) >= Len(frames)
    BY <1>3, <2>1
  <2>3. CASE imgs = shots
    <3>1. CASE shots = pics
      BY <1>3, <2>1, <2>2, <2>3, <3>1 DEF Shows
    <3>2. CASE shots # pics
      <4>1. PICK j \in DOMAIN olds :
              /\ j > Len(frames) /\ shots[Len(shots)] = olds[j].ts
              /\ Len(shots) \in Nat \ {0}
        BY <1>2, <3>2 DEF Shows
      <4>2. j \in DOMAIN news /\ news[j] = olds[j]
        BY <2>1, <4>1
      <4> QED
        BY <1>3, <2>1, <2>2, <2>3, <4>1, <4>2 DEF Shows
    <3> QED
      BY <3>1, <3>2
  <2>4. CASE imgs = Append(shots, f.ts)
    <3>1. PICK ts : ts = f.ts
      OBVIOUS
    <3>2. /\ IsList(imgs) /\ Len(shots) \in Nat /\ Len(imgs) = Len(shots) + 1
          /\ imgs[Len(imgs)] = ts
      <4>1. IsList(shots) /\ imgs = Append(shots, ts)
        BY <1>3, <2>4, <3>1
      <4>2. Longer(shots, ts, imgs)
        BY <4>1, AppendIsList
      <4> QED
        BY <4>2 DEF Longer
    <3>3. Len(news) \in DOMAIN news /\ Len(news) > Len(frames)
      BY <1>3, <2>1
    <3>4. Len(imgs) \in Nat \ {0}
      BY <3>2
    <3>5. imgs[Len(imgs)] = news[Len(news)].ts
      BY <2>1, <3>1, <3>2
    <3> QED
      BY <2>1, <2>2, <3>2, <3>3, <3>4, <3>5, Zenon DEF Shows
  <2> QED
    BY <1>5, <2>3, <2>4
<1> QED
  BY <1>1, <1>4, <1>5, Zenon DEF Adds

LEMMA DecodeAdds ==
  ASSUME NEW d, IsDump(d), NEW media, NEW initOk, NEW decodeOk,
         NEW x, x = Decode(d, media, initOk, decodeOk)
  PROVE  IsDump(x) /\ Adds(d, x)
<1>1. PICK dec : dec = IF d.decoder # "null" THEN d.decoder
                       ELSE IF initOk THEN "ready" ELSE "broken"
  OBVIOUS
<1>2. PICK more, pics, ret :
        /\ more = Append(d.decoded, media)
        /\ pics = (IF decodeOk THEN Append(d.shown, media.ts) ELSE d.shown)
        /\ ret = (IF decodeOk THEN 0 ELSE -3)
  BY Zenon
<1>3. \/ x = [d EXCEPT !.decoder = dec, !.ret = -2]
      \/ x = [d EXCEPT !.ret = -3]
      \/ x = [d EXCEPT !.decoder = dec, !.decoded = more, !.shown = pics, !.ret = ret]
  BY <1>1, <1>2, Zenon DEF Decode
<1>4. CASE x = [d EXCEPT !.decoder = dec, !.ret = -2]
  BY <1>4 DEF IsDump, Adds
<1>5. CASE x = [d EXCEPT !.ret = -3]
  BY <1>5 DEF IsDump, Adds
<1>6. CASE x = [d EXCEPT !.decoder = dec, !.decoded = more, !.shown = pics, !.ret = ret]
  <2>1. IsDump(x) /\ x.decoded = more /\ x.shown = pics
    BY <1>6 DEF IsDump
  <2>2. pics = d.shown \/ pics = Append(d.shown, media.ts)
    BY <1>2, Zenon
  <2> QED
    BY <1>2, <2>1, <2>2, Zenon DEF Adds
<1> QED
  BY <1>3, <1>4, <1>5, <1>6

LEMMA DumpVideoAdds ==
  ASSUME NEW d, IsDump(d), NEW p, NEW initOk, NEW decodeOk,
         NEW x, x = DumpVideo(d, p, initOk, decodeOk)
  PROVE  IsDump(x) /\ Adds(d, x)
<1>0. PICK r : r = Unpacketize(d.unp, p)
  OBVIOUS
<1>1. PICK first : first = IF d.firstTs = 0 THEN p.ts ELSE d.firstTs
  OBVIOUS
<1>2. PICK e : e = [d EXCEPT !.unp = r.unp, !.ret = r.ret, !.abort = r.abort,
                             !.firstTs = first]
  OBVIOUS
<1>3. IsDump(e) /\ e.decoded = d.decoded /\ e.shown = d.shown
  BY <1>2 DEF IsDump
<1>4. PICK one, stop, m :
        /\ stop = (r.abort # NoAbort \/ r.ret # 0 \/ r.media = << >>)
        /\ one = Len(r.media) /\ m = r.media[1]
  BY Zenon
<1>5. x = IF stop THEN e
          ELSE IF one # 1 THEN [e EXCEPT !.abort = "media.size() == 1"]
          ELSE Decode(e, m, initOk, decodeOk)
  BY <1>0, <1>1, <1>2, <1>4, Zenon DEF DumpVideo
<1>6. CASE x = e
  BY <1>3, <1>6 DEF Adds
<1>7. CASE x = [e EXCEPT !.abort = "media.size() == 1"]
  <2>1. IsDump(x) /\ x.decoded = e.decoded /\ x.shown = e.shown
    BY <1>3, <1>7 DEF IsDump
  <2> QED
    BY <1>3, <2>1 DEF Adds
<1>8. CASE x = Decode(e, m, initOk, decodeOk)
  <2>1. IsDump(x) /\ Adds(e, x)
    BY <1>3, <1>8, DecodeAdds
  <2> QED
    BY <1>3, <2>1, Zenon DEF Adds
<1> QED
  BY <1>5, <1>6, <1>7, <1>8, Zenon

LEMMA DumpAllShows ==
  ASSUME NEW d, IsDump(d), IsList(d.decoded), IsList(d.shown), NEW s,
         NEW packets, NEW n \in Nat, DOMAIN packets = 1 .. n,
         NEW initOk, NEW decodeOk, NEW x, x = DumpAll(d, s, packets, initOk, decodeOk)
  PROVE  Shows(d.decoded, d.shown, x.decoded, x.shown)
<1>1. PICK c : c = [s |-> s, initOk |-> initOk, decodeOk |-> decodeOk]
  OBVIOUS
<1>2. PICK F : FoldValues(F, n, "dump", d, packets, c) /\ x = F[n]
  BY <1>1, DumpAllSteps
<1> DEFINE Done(i) == IsDump(F[i]) /\ Shows(d.decoded, d.shown, F[i].decoded, F[i].shown)
           q == {i \in Nat : Done(i)}
<1>3. 0 \in q
  <2>1. F[0] = d
    BY <1>2 DEF FoldValues
  <2>2. Len(d.decoded) \in Nat
    BY ListLength
  <2>3. Len(d.decoded) >= Len(d.decoded)
    BY <2>2
  <2>4. Done(0)
    BY <2>1, <2>3, Zenon DEF Shows
  <2> QED
    BY <2>4
<1>4. ASSUME NEW i \in 0 .. n - 1, i \in q PROVE i + 1 \in q
  <2>1. PICK e, k, p : e = F[i] /\ k = i + 1 /\ p = packets[k]
    BY Zenon
  <2>2. k \in 1 .. n /\ k \in Nat /\ k - 1 = i
    BY <2>1
  <2>3. F[k] = FoldStep("dump", F[k - 1], packets[k], c)
    BY <1>2, <2>2 DEF FoldValues
  <2>4. c.s = s /\ c.initOk = initOk /\ c.decodeOk = decodeOk
    BY <1>1
  <2>5. F[k] = FoldStep("dump", e, p, c)
    BY <2>1, <2>2, <2>3
  <2>6. F[k] = e \/ F[k] = DumpVideo(e, p, initOk, decodeOk)
    BY <2>4, <2>5, Zenon DEF FoldStep
  <2>7. IsDump(e) /\ Shows(d.decoded, d.shown, e.decoded, e.shown)
    BY <1>4, <2>1
  <2>8. CASE F[k] = e
    BY <2>1, <2>2, <2>7, <2>8
  <2>9. CASE F[k] = DumpVideo(e, p, initOk, decodeOk)
    <3>1. PICK y : y = F[k]
      OBVIOUS
    <3>2. IsDump(y) /\ Adds(e, y)
      BY <2>7, <2>9, <3>1, DumpVideoAdds
    <3>3. Shows(d.decoded, d.shown, y.decoded, y.shown)
      BY <2>7, <3>2, AddsShow
    <3>4. Done(k)
      BY <3>1, <3>2, <3>3, Zenon
    <3> QED
      BY <2>1, <2>2, <3>4
  <2> QED
    BY <2>6, <2>8, <2>9
<1> HIDE DEF q
<1>5. \A i \in 0 .. n : i \in q
  BY <1>3, <1>4, CountUp
<1>6. n \in q
  BY <1>5
<1>7. Done(n)
  BY <1>6, Zenon DEF q
<1> QED
  BY <1>2, <1>7, Zenon


-----------------------------------------------------------------------------
(* From the stream to the group: what the receiver pops with the last FEC  *)
(* packet of a frame.                                                      *)

(* The stream is in its first cycle. *)
Placed(stream) ==
  /\ stream \in Seq(Packets)
  /\ \A j \in DOMAIN stream :
       /\ stream[j].id = StartPos + j - 1 /\ stream[j].seq = stream[j].id
       /\ stream[j].id < SeqSpan

Buffers(jitter, stream) ==
  /\ DOMAIN jitter \subseteq Nat
  /\ \A k \in DOMAIN jitter :
       jitter[k].id = k /\ \E j \in DOMAIN stream : stream[j] = jitter[k]

(* The group of the frame a .. a+n+m-1 of the stream. *)
GroupOf(group, stream, a, n, m) ==
  /\ IsFrame(stream, a, n, m)
  /\ IsGroup(group, StartPos + a - 1, n, m)
  /\ \A k \in DOMAIN group : group[k] = stream[k - StartPos + 1]

LEMMA GroupIsOfFrame ==
  ASSUME NEW stream, Placed(stream), LaidOut(stream),
         NEW r, Buffers(r.jitter, stream),
         NEW i \in DOMAIN stream, NEW p, p = stream[i], LastFec(p),
         NEW key, key = p.id, NEW group, group = RecvGroup(r, p, key)
  PROVE  \E a, n, m \in Positive :
           /\ GroupOf(group, stream, a, n, m)
           /\ i = a + n + m - 1
           /\ \A k \in DOMAIN group : k # key => k \in DOMAIN r.jitter
<1>1. PICK a, n, m \in Positive : IsFrame(stream, a, n, m) /\ i \in a .. a + n + m - 1
  BY DEF LaidOut
<1>2. a \in Nat \ {0} /\ n \in Nat \ {0} /\ m \in Nat \ {0} /\ StartPos \in Nat
      /\ DOMAIN stream = 1 .. Len(stream) /\ Len(stream) \in Nat
  BY HandlerAssumption, HalfSeqAssumption DEF Positive, SeqNumbers, SeqSpan, Placed
<1>3. \A j \in a .. a + n + m - 1 : j \in DOMAIN stream
  BY <1>1, <1>2 DEF IsFrame
<1>4. i = a + n + m - 1
  <2>1. p.fec /\ p.marker
    BY DEF LastFec
  <2>2. i >= a + n
    BY <1>1, <2>1 DEF IsFrame
  <2>3. i = a + n - 1 \/ i = a + n + m - 1
    BY <1>1, <2>1, Zenon DEF IsFrame
  <2> QED
    BY <1>2, <2>2, <2>3
<1>5. PICK b : b = StartPos + a - 1
  OBVIOUS
<1>6. b \in Nat /\ key = b + n + m - 1 /\ key = StartPos + i - 1
  <2>1. key = StartPos + i - 1
    BY DEF Placed
  <2> QED
    BY <1>2, <1>4, <1>5, <2>1
<1>7. /\ DOMAIN group = {k \in DOMAIN r.jitter : k < key /\ r.jitter[k].ts = p.ts} \cup {key}
      /\ group[key] = p
      /\ \A k \in DOMAIN group : k # key => group[k] = r.jitter[k]
  <2>1. PICK low : low = {k \in DOMAIN r.jitter : k < key /\ r.jitter[k].ts = p.ts}
    OBVIOUS
  <2>2. {k \in PoppedKeys(r, key) : r.jitter[k].ts = p.ts} = low
    BY <2>1 DEF PoppedKeys
  <2>3. PICK g : g = [k \in low |-> r.jitter[k]]
    OBVIOUS
  <2>4. group = Put(g, key, p)
    BY <2>2, <2>3 DEF RecvGroup
  <2>5. group = [k \in low \cup {key} |-> IF k = key THEN p ELSE g[k]]
    BY <2>3, <2>4 DEF Put
  <2> QED
    BY <2>1, <2>3, <2>5
<1>8. ASSUME NEW k \in DOMAIN group
      PROVE  \E j \in a .. a + n + m - 1 : k = b + (j - a) /\ group[k] = stream[j]
                                          /\ j = k - StartPos + 1
  <2>1. CASE k = key
    <3>1. k = b + (i - a) /\ i = k - StartPos + 1
      BY <1>2, <1>4, <1>5, <1>6, <2>1
    <3> QED
      BY <1>1, <1>7, <2>1, <3>1
  <2>2. CASE k # key
    <3>1. k \in DOMAIN r.jitter /\ r.jitter[k].ts = p.ts /\ group[k] = r.jitter[k]
      BY <1>7, <2>2
    <3>2. PICK j \in DOMAIN stream : stream[j] = r.jitter[k]
      BY <3>1 DEF Buffers
    <3>3. stream[j].id = k /\ stream[j].id = StartPos + j - 1 /\ k \in Nat
      BY <3>1, <3>2 DEF Buffers, Placed
    <3>4. stream[j].ts = stream[a].ts
      <4>1. stream[i].ts = stream[a].ts
        BY <1>1 DEF IsFrame
      <4> QED
        BY <3>1, <3>2, <4>1
    <3>5. j \in a .. a + n + m - 1
      BY <1>1, <3>4 DEF IsFrame
    <3>6. k = b + (j - a) /\ j = k - StartPos + 1
      BY <1>2, <1>5, <3>3, <3>5
    <3> QED
      BY <3>1, <3>2, <3>5, <3>6
  <2> QED
    BY <2>1, <2>2
<1>9. IsGroup(group, b, n, m)
  <2>1. DOMAIN group \subseteq b .. b + n + m - 1
    BY <1>2, <1>6, <1>8
  <2>2. b + n + m - 1 \in DOMAIN group
    BY <1>6, <1>7
  <2>3. ASSUME NEW k \in DOMAIN group
        PROVE  /\ group[k].fec <=> k >= b + n
               /\ group[k].seq = k
               /\ group[k].fec => /\ group[k].first = b
                                  /\ group[k].last = b + n - 1
                                  /\ group[k].num = m
    <3>1. PICK j \in a .. a + n + m - 1 : k = b + (j - a) /\ group[k] = stream[j]
                                          /\ j = k - StartPos + 1
      BY <1>8
    <3>2. stream[j].fec <=> j >= a + n
      BY <1>1 DEF IsFrame
    <3>3. j >= a + n <=> k >= b + n
      <4>1. j \in Int /\ k = b + (j - a) /\ a \in Int /\ n \in Int /\ b \in Int
        BY <1>2, <1>6, <3>1
      <4>2. j >= a + n => k >= b + n
        BY <4>1
      <4>3. k >= b + n => j >= a + n
        BY <4>1
      <4> QED
        BY <4>2, <4>3
    <3>4. group[k].seq = k
      <4>1. stream[j].seq = StartPos + j - 1
        BY <1>3 DEF Placed
      <4> QED
        BY <1>2, <1>5, <3>1, <4>1
    <3>5. ASSUME group[k].fec
          PROVE  /\ group[k].first = b
                 /\ group[k].last = b + n - 1
                 /\ group[k].num = m
      <4>1. PICK z : z = a + n - 1
        OBVIOUS
      <4>2. /\ stream[j].first = stream[a].seq /\ stream[j].last = stream[z].seq
            /\ stream[j].num = m
        BY <1>1, <3>1, <3>5, <4>1 DEF IsFrame
      <4>3. a \in DOMAIN stream /\ z \in DOMAIN stream
        BY <1>2, <1>3, <4>1
      <4>4. stream[a].seq = b /\ stream[z].seq = StartPos + z - 1
        BY <1>5, <4>3 DEF Placed
      <4>5. StartPos + z - 1 = b + n - 1
        BY <1>2, <1>5, <4>1
      <4> QED
        BY <3>1, <4>2, <4>4, <4>5
    <3> QED
      BY <3>1, <3>2, <3>3, <3>4, <3>5, Zenon
  <2> QED
    BY <2>1, <2>2, <2>3 DEF IsGroup
<1>10. \A k \in DOMAIN group : group[k] = stream[k - StartPos + 1]
  BY <1>8
<1>11. GroupOf(group, stream, a, n, m)
  BY <1>1, <1>5, <1>9, <1>10 DEF GroupOf
<1>12. \A k \in DOMAIN group : k # key => k \in DOMAIN r.jitter
  BY <1>7
<1> QED
  BY <1>4, <1>11, <1>12


(* The data packets of timestamp ts, as FrameData takes them from a stream. *)
DataAt(stream, ts) ==
  InOrder(stream, {i \in DOMAIN stream : stream[i].ts = ts /\ ~stream[i].fec})

LEMMA FrameDataIs ==
  ASSUME NEW stream \in Seq(Packets), NEW a \in Positive, NEW n \in Positive,
         NEW m \in Positive, IsFrame(stream, a, n, m)
  PROVE  IsRange(DataAt(stream, stream[a].ts), stream, a, n)
<1>1. a \in Nat \ {0} /\ n \in Nat \ {0} /\ m \in Nat \ {0}
      /\ DOMAIN stream = 1 .. Len(stream) /\ Len(stream) \in Nat
  BY DEF Positive
<1>2. PICK keys : keys = {i \in DOMAIN stream : stream[i].ts = stream[a].ts /\ ~stream[i].fec}
  OBVIOUS
<1>3. keys = a .. a + n - 1
  <2>1. ASSUME NEW i \in keys PROVE i \in a .. a + n - 1
    <3>1. i \in a .. a + n + m - 1 /\ ~stream[i].fec
      BY <1>2 DEF IsFrame
    <3>2. ~(i >= a + n)
      BY <3>1 DEF IsFrame
    <3> QED
      BY <1>1, <3>1, <3>2
  <2>2. ASSUME NEW i \in a .. a + n - 1 PROVE i \in keys
    <3>1. i \in a .. a + n + m - 1 /\ ~(i >= a + n)
      BY <1>1
    <3>2. i \in DOMAIN stream
      BY <1>1, <3>1 DEF IsFrame
    <3>3. stream[i].ts = stream[a].ts /\ ~stream[i].fec
      BY <3>1 DEF IsFrame
    <3> QED
      BY <1>2, <3>2, <3>3
  <2> QED
    BY <2>1, <2>2
<1>4. IsRange(InOrder(stream, keys), stream, a, n)
  BY <1>1, <1>3, RangeInOrder
<1>5. DataAt(stream, stream[a].ts) = InOrder(stream, keys)
  BY <1>2 DEF DataAt
<1> QED
  BY <1>4, <1>5

LEMMA DataDelivered ==
  ASSUME NEW stream, Placed(stream), NEW a \in Positive, NEW n \in Positive,
         NEW m \in Positive, NEW group, GroupOf(group, stream, a, n, m),
         NEW b, b = StartPos + a - 1, b .. b + n - 1 \subseteq DOMAIN group,
         NEW out, IsRange(out, group, b, n)
  PROVE  /\ IsDataOf(out, b, n, stream[a].ts)
         /\ out = DataAt(stream, stream[a].ts)
<1>1. a \in Nat \ {0} /\ n \in Nat \ {0} /\ m \in Nat \ {0} /\ StartPos \in Nat
      /\ DOMAIN stream = 1 .. Len(stream) /\ Len(stream) \in Nat
      /\ stream \in Seq(Packets) /\ IsFrame(stream, a, n, m)
  BY HandlerAssumption, HalfSeqAssumption
     DEF Positive, SeqNumbers, SeqSpan, Placed, GroupOf
<1>2. IsRange(DataAt(stream, stream[a].ts), stream, a, n)
  BY <1>1, FrameDataIs
<1>3. ASSUME NEW i \in 1 .. n
      PROVE  group[b + i - 1] = stream[a + i - 1]
  <2>1. PICK k : k = b + i - 1
    OBVIOUS
  <2>2. k \in b .. b + n - 1 /\ k - StartPos + 1 = a + i - 1
    BY <1>1, <2>1
  <2>3. group[k] = stream[k - StartPos + 1]
    BY <2>2 DEF GroupOf
  <2> QED
    BY <2>1, <2>2, <2>3
<1>4. out = DataAt(stream, stream[a].ts)
  BY <1>2, <1>3 DEF IsRange
<1>5. DOMAIN out = 1 .. n
  BY DEF IsRange
<1>6. ASSUME NEW i \in 1 .. n
      PROVE  /\ out[i] \in Packets /\ out[i].seq = b + i - 1
             /\ out[i].ts = stream[a].ts /\ (out[i].marker <=> i = n)
  <2>1. PICK j : j = a + i - 1
    OBVIOUS
  <2>2. out[i] = stream[j]
    BY <1>3, <2>1 DEF IsRange
  <2>3. j \in a .. a + n + m - 1 /\ j \in DOMAIN stream /\ StartPos + j - 1 = b + i - 1
    <3>1. j \in a .. a + n + m - 1
      BY <1>1, <2>1
    <3>2. j \in DOMAIN stream
      BY <1>1, <2>1 DEF IsFrame
    <3> QED
      BY <1>1, <2>1, <3>1, <3>2
  <2>4. stream[j] \in Packets /\ stream[j].seq = StartPos + j - 1
    BY <2>3 DEF Placed
  <2>5. stream[j].ts = stream[a].ts
        /\ (stream[j].marker <=> j = a + n - 1 \/ j = a + n + m - 1)
    BY <1>1, <2>3, Zenon DEF IsFrame
  <2>6. j # a + n + m - 1
    BY <1>1, <2>1
  <2>7. i = n => j = a + n - 1
    BY <1>1, <2>1
  <2>8. j = a + n - 1 => i = n
    BY <1>1, <2>1
  <2> QED
    BY <2>2, <2>3, <2>4, <2>5, <2>6, <2>7, <2>8, Zenon
<1> QED
  BY <1>4, <1>5, <1>6 DEF IsDataOf


-----------------------------------------------------------------------------
(* AtMostOneFrame. *)

(* Between two datagrams the unpacketizer expects no number beyond what    *)
(* the receiver has popped, so that the next group opens with a gap.       *)
Settled(u, lastPopped) ==
  /\ IsUnp(u) /\ Params(u) /\ AtMostOne(u)
  /\ ~u.started => u.frames = << >>
  /\ u.started => u.expect \in Nat /\ u.expect <= lastPopped

UnpsSettled ==
  \A s \in Streams : Settled(ssrcInfoMap[s].unp, ssrcInfoMap[s].rcv.lastPopped)

VideoLaidOut == LaidOut(sent[VideoSsrc])

AudioPlain == \A i \in DOMAIN sent[AudioSsrc] : ~LastFec(sent[AudioSsrc][i])

(* AtMostOneFrame is inductive together with the layout of the streams and *)
(* the order of what is popped (PoppedInv).                                *)
OneFrameInv == PoppedInv /\ VideoLaidOut /\ AudioPlain /\ UnpsSettled

(* A packet goes into the buffer and nothing comes out. *)
Inserts(r, x) ==
  /\ x.out = << >> /\ x.rcv.lastPopped = r.lastPopped
  /\ EmplaceMovesDuplicate = FALSE => x.abort = NoAbort

LEMMA InsertDelivers ==
  ASSUME NEW r, NEW p, NEW key, ~LastFec(p), NEW x, x = PushAndPop(r, p, key)
  PROVE  Inserts(r, x)
<1>1. x = Insert(r, p, key)
  BY Zenon DEF PushAndPop, LastFec
<1>2. \E y, j, a : /\ x = Pushed([jitter |-> j, lastPopped |-> r.lastPopped,
                                   lastTs |-> r.lastTs], y)
                   /\ \/ y = Delivers(<< >>)
                      \/ y = Aborts(a) /\ EmplaceMovesDuplicate
  <2>1. \A q : WaitTimeMs(q) < kUnorderWaitMs
    BY DEF WaitTimeMs, kUnorderWaitMs
  <2> QED
    BY <1>1, <2>1, Zenon DEF Insert
<1>3. PICK y, j, a : /\ x = Pushed([jitter |-> j, lastPopped |-> r.lastPopped,
                                     lastTs |-> r.lastTs], y)
                     /\ \/ y = Delivers(<< >>)
                        \/ y = Aborts(a) /\ EmplaceMovesDuplicate
  BY <1>2
<1>4. x.out = y.out /\ x.abort = y.abort /\ x.rcv.lastPopped = r.lastPopped
  BY <1>3 DEF Pushed
<1>5. CASE y = Delivers(<< >>)
  BY <1>4, <1>5 DEF Delivers, Inserts
<1>6. CASE y = Aborts(a) /\ EmplaceMovesDuplicate
  BY <1>4, <1>6 DEF Aborts, Inserts
<1> QED
  BY <1>3, <1>5, <1>6 DEF Inserts

LEMMA PopDelivers ==
  ASSUME NEW r, NEW p, NEW key, LastFec(p), NEW x, x = PushAndPop(r, p, key)
  PROVE  /\ x.out = TryRecoverFEC(RecvGroup(r, p, key)).out
         /\ x.abort = TryRecoverFEC(RecvGroup(r, p, key)).abort
         /\ x.rcv.lastPopped = p.seq
<1>1. x = PopFrame(r, p, key)
  BY Zenon DEF PushAndPop, LastFec
<1> QED
  BY <1>1 DEF PopFrame, Pushed

LEMMA NothingDumped ==
  ASSUME NEW d, NEW s, NEW initOk, NEW decodeOk
  PROVE  DumpAll(d, s, << >>, initOk, decodeOk) = d
<1>1. PICK packets : packets = << >>
  OBVIOUS
<1>2. DOMAIN packets = 1 .. 0 /\ 0 \in Nat
  BY <1>1
<1>3. PICK c : c = [s |-> s, initOk |-> initOk, decodeOk |-> decodeOk]
  OBVIOUS
<1>4. PICK F : /\ FoldValues(F, 0, "dump", d, packets, c)
               /\ DumpAll(d, s, packets, initOk, decodeOk) = F[0]
  BY <1>2, <1>3, DumpAllSteps
<1> QED
  BY <1>1, <1>4 DEF FoldValues

(* What the handler knows of a stream, seen or not. *)
LEMMA InfoFacts ==
  ASSUME FirstCycle, OneFrameInv, NEW s \in Ssrcs
  PROVE  /\ Placed(sent[s]) /\ Buffers(Info(s).rcv.jitter, sent[s])
         /\ Settled(Info(s).unp, Info(s).rcv.lastPopped)
         /\ \A k \in DOMAIN Info(s).rcv.jitter : k > Info(s).rcv.lastPopped
         /\ Info(s).rcv.lastPopped \in Int
<1>1. TypeOK /\ PoppedInv
  BY DEF OneFrameInv, PoppedInv, ExactInv
<1>2. Placed(sent[s])
  <2>1. sent[s] \in Seq(Packets)
    BY <1>1 DEF TypeOK
  <2>2. ASSUME NEW j \in DOMAIN sent[s]
        PROVE  /\ sent[s][j].id = StartPos + j - 1 /\ sent[s][j].seq = sent[s][j].id
               /\ sent[s][j].id < SeqSpan
    <3>1. PICK x : x = sent[s][j]
      OBVIOUS
    <3>2. x \in Packets
      BY <2>1, <3>1
    <3>3. x.id \in Nat
      BY <3>2 DEF Packets
    <3>4. x.id = StartPos + j - 1 /\ x.seq = x.id % SeqSpan /\ x.id < SeqSpan
      BY <1>1, <3>1 DEF PoppedInv, ExactInv, Numbered, FirstCycle
    <3>5. x.id % SeqSpan = x.id
      BY <3>3, <3>4, NoSmallMod
    <3> QED
      BY <3>1, <3>4, <3>5
  <2> QED
    BY <2>1, <2>2 DEF Placed
<1>3. CASE s \in DOMAIN ssrcInfoMap
  <2>1. s \in Streams /\ Info(s) = ssrcInfoMap[s]
    BY <1>3 DEF Streams, Info
  <2>2. DOMAIN Info(s).rcv.jitter \subseteq Nat /\ Info(s).rcv.lastPopped \in Int
    BY <1>1, InfoTyped, HalfSeqAssumption DEF SeqNumbers
  <2>3. Buffers(Info(s).rcv.jitter, sent[s])
    BY <1>1, <2>1, <2>2
       DEF PoppedInv, ExactInv, UnwrapExact, JitterFromStream, Buffers
  <2>4. Settled(Info(s).unp, Info(s).rcv.lastPopped)
    BY <2>1, Zenon DEF OneFrameInv, UnpsSettled
  <2>5. \A k \in DOMAIN Info(s).rcv.jitter : k > Info(s).rcv.lastPopped
    BY <1>1, <2>1 DEF PoppedInv, JitterAfterPopped
  <2> QED
    BY <1>2, <2>2, <2>3, <2>4, <2>5
<1>4. CASE s \notin DOMAIN ssrcInfoMap
  <2>1. /\ Info(s).rcv.jitter = << >> /\ Info(s).rcv.lastPopped = -1
        /\ Info(s).unp = NewUnpacketizer
    BY <1>4 DEF Info, NewSSRCInfo, NewReceiver, kShitRecvPowerSeqInitValue
  <2>2. PICK u : u = NewUnpacketizer
    OBVIOUS
  <2>3. PICK no : no = FALSE
    OBVIOUS
  <2>4. u = [started |-> no, expect |-> 0, frames |-> << >>, sps |-> -1, pps |-> -1]
    BY <2>2, <2>3, Zenon DEF NewUnpacketizer, NoParam
  <2>5. /\ IsUnp(u) /\ u.started = no /\ u.frames = << >> /\ u.sps = -1 /\ u.pps = -1
    BY <2>4 DEF IsUnp
  <2>6. Settled(u, -1)
    BY <2>3, <2>5 DEF Settled, Params, AtMostOne
  <2>7. PICK jitter : jitter = << >>
    OBVIOUS
  <2>8. DOMAIN jitter = {} /\ Buffers(jitter, sent[s])
    BY <2>7 DEF Buffers
  <2> QED
    BY <1>2, <2>1, <2>2, <2>6, <2>7, <2>8
<1> QED
  BY <1>3, <1>4


(* The data packets of the stream have well-formed payloads. *)
WellFormed(stream) ==
  \A j \in DOMAIN stream : ~stream[j].fec => GoodPayload(stream[j].payload)

(* A datagram that hands nothing to the unpacketizer. *)
Quiet(s) ==
  /\ ssrcInfoMap'[s].unp = Info(s).unp /\ decoded' = decoded /\ shown' = shown
  /\ ssrcInfoMap'[s].rcv.lastPopped >= Info(s).rcv.lastPopped
  /\ EmplaceMovesDuplicate = FALSE => aborted' = NoAbort

(* The last packet of the frame a .. a+n+m-1 has its data packets dumped. *)
Dumps(stream, u, v, a, n, m, b) ==
  /\ IsFrame(stream, a, n, m) /\ b = StartPos + a - 1
  /\ b > Info(VideoSsrc).rcv.lastPopped
  /\ ssrcInfoMap'[VideoSsrc].rcv.lastPopped = b + n + m - 1
  /\ IsUnp(v) /\ Params(v) /\ AtMostOne(v)
  /\ \/ v = u
     \/ v.started = TRUE /\ v.expect \in b + 1 .. b + n
  /\ NotBehind(u, b) => aborted' = NoAbort
  /\ \/ decoded' = decoded
     \/ \E f : /\ decoded' = Append(decoded, f)
               /\ WellFormed(stream)
                    => Built(f, stream[a].ts, Units(DataAt(stream, stream[a].ts)))
  /\ IsList(decoded) /\ IsList(shown) => Shows(decoded, shown, decoded', shown')

DumpsSome(i) ==
  \E a, n, m \in Positive : \E b :
    /\ Dumps(sent[VideoSsrc], Info(VideoSsrc).unp, ssrcInfoMap'[VideoSsrc].unp, a, n, m, b)
    /\ i = a + n + m - 1

LEMMA StoredRcvUnp ==
  ASSUME NEW s, NEW p, NEW rcv, NEW unp, StoreInfo(s, p, rcv, unp)
  PROVE  ssrcInfoMap'[s].rcv = rcv /\ ssrcInfoMap'[s].unp = unp
BY DEF StoreInfo, Put

LEMMA PushAndDumpIs ==
  ASSUME NEW s, NEW p, PushAndDump(s, p)
  PROVE  \E popped, before, initOk, decodeOk, after :
           /\ popped = PushAndPop(Info(s).rcv, p, GetPowerSeq(s, p))
           /\ before = [unp |-> Info(s).unp, firstTs |-> firstRtpVideoTs,
                        decoder |-> decoder, decoded |-> decoded, shown |-> shown,
                        ret |-> 0, abort |-> popped.abort]
           /\ after = DumpAll(before, s, popped.out, initOk, decodeOk)
           /\ ssrcInfoMap'[s].rcv = popped.rcv /\ ssrcInfoMap'[s].unp = after.unp
           /\ decoded' = after.decoded /\ shown' = after.shown
           /\ aborted' = after.abort
<1>1. PICK popped, before :
        /\ popped = PushAndPop(Info(s).rcv, p, GetPowerSeq(s, p))
        /\ before = [unp |-> Info(s).unp, firstTs |-> firstRtpVideoTs,
                     decoder |-> decoder, decoded |-> decoded, shown |-> shown,
                     ret |-> 0, abort |-> popped.abort]
  BY Zenon
<1>2. \E initOk, decodeOk \in DecoderOutcomes : \E after :
        /\ after = DumpAll(before, s, popped.out, initOk, decodeOk)
        /\ StoreInfo(s, p, popped.rcv, after.unp)
        /\ decoded' = after.decoded /\ shown' = after.shown /\ aborted' = after.abort
  BY <1>1 DEF PushAndDump
<1>3. PICK initOk, decodeOk, after :
        /\ after = DumpAll(before, s, popped.out, initOk, decodeOk)
        /\ StoreInfo(s, p, popped.rcv, after.unp)
        /\ decoded' = after.decoded /\ shown' = after.shown /\ aborted' = after.abort
  BY <1>2
<1>4. ssrcInfoMap'[s].rcv = popped.rcv /\ ssrcInfoMap'[s].unp = after.unp
  <2>1. PICK rcv, unp : rcv = popped.rcv /\ unp = after.unp
    BY Zenon
  <2>2. StoreInfo(s, p, rcv, unp)
    BY <1>3, <2>1, Zenon
  <2> QED
    BY <2>1, <2>2, StoredRcvUnp, Zenon
<1> QED
  BY <1>1, <1>3, <1>4, Zenon

LEMMA BeforeIs ==
  ASSUME NEW d, NEW unp, NEW first, NEW dec, NEW frames, NEW pics, NEW abort,
         d = [unp |-> unp, firstTs |-> first, decoder |-> dec, decoded |-> frames,
              shown |-> pics, ret |-> 0, abort |-> abort]
  PROVE  /\ IsDump(d) /\ d.unp = unp /\ d.decoded = frames /\ d.shown = pics
         /\ d.ret = 0 /\ d.abort = abort
BY DEF IsDump

LEMMA ReceiveDumps ==
  ASSUME FirstSeqAheadOfZero, FirstCycle, OneFrameInv,
         NEW s \in Ssrcs, NEW i \in DOMAIN sent[s],
         InReach(s, sent[s][i]), Receive(s, sent[s][i])
  PROVE  \/ Quiet(s)
         \/ s = VideoSsrc /\ DumpsSome(i)
<1>1. PICK p, r, key : p = sent[s][i] /\ r = Info(s).rcv /\ key = GetPowerSeq(s, p)
  BY Zenon
<1>2. p.id \in Nat /\ key = p.id
  BY <1>1, ReceivedExact DEF OneFrameInv, PoppedInv
<1>3. /\ Placed(sent[s]) /\ Buffers(r.jitter, sent[s])
      /\ Settled(Info(s).unp, r.lastPopped)
      /\ \A k \in DOMAIN r.jitter : k > r.lastPopped
      /\ r.lastPopped \in Int
  BY <1>1, InfoFacts
<1>4. aborted = NoAbort /\ (IgnoreStale(s, p) \/ PushAndDump(s, p))
  BY <1>1, Zenon DEF Receive, HandleRtpPacket
<1>5. CASE IgnoreStale(s, p)
  <2>1. StoreInfo(s, p, Info(s).rcv, Info(s).unp) /\ decoded' = decoded
        /\ shown' = shown /\ aborted' = aborted
    BY <1>5, Zenon DEF IgnoreStale
  <2>2. ssrcInfoMap'[s].rcv = r /\ ssrcInfoMap'[s].unp = Info(s).unp
    <3>1. PICK unp : unp = Info(s).unp
      OBVIOUS
    <3>2. StoreInfo(s, p, r, unp)
      BY <1>1, <2>1, <3>1, Zenon
    <3> QED
      BY <3>1, <3>2, StoredRcvUnp, Zenon
  <2>3. ssrcInfoMap'[s].rcv.lastPopped >= Info(s).rcv.lastPopped
    <3>1. /\ ssrcInfoMap'[s].rcv.lastPopped = r.lastPopped
          /\ Info(s).rcv.lastPopped = r.lastPopped
      BY <1>1, <2>2, Zenon
    <3> QED
      BY <1>3, <3>1
  <2> QED
    BY <1>4, <2>1, <2>2, <2>3, Zenon DEF Quiet
<1>6. CASE PushAndDump(s, p)
  <2>1. PICK popped, before, initOk, decodeOk, after :
           /\ popped = PushAndPop(r, p, key)
           /\ before = [unp |-> Info(s).unp, firstTs |-> firstRtpVideoTs,
                        decoder |-> decoder, decoded |-> decoded, shown |-> shown,
                        ret |-> 0, abort |-> popped.abort]
           /\ after = DumpAll(before, s, popped.out, initOk, decodeOk)
           /\ ssrcInfoMap'[s].rcv = popped.rcv /\ ssrcInfoMap'[s].unp = after.unp
           /\ decoded' = after.decoded /\ shown' = after.shown
           /\ aborted' = after.abort
    BY <1>1, <1>6, PushAndDumpIs
  <2>2. /\ IsDump(before) /\ before.unp = Info(s).unp /\ before.decoded = decoded
        /\ before.shown = shown /\ before.ret = 0 /\ before.abort = popped.abort
    BY <2>1, BeforeIs
  <2>3. CASE ~LastFec(p)
    <3>1. /\ popped.out = << >> /\ popped.rcv.lastPopped = r.lastPopped
          /\ EmplaceMovesDuplicate = FALSE => popped.abort = NoAbort
      <4>1. popped = PushAndPop(r, p, key)
        BY <2>1
      <4>2. Inserts(r, popped)
        BY <2>3, <4>1, InsertDelivers
      <4> QED
        BY <4>2, Zenon DEF Inserts
    <3>2. after = before
      BY <2>1, <3>1, NothingDumped
    <3>3. ssrcInfoMap'[s].rcv.lastPopped >= Info(s).rcv.lastPopped
      <4>1. /\ ssrcInfoMap'[s].rcv.lastPopped = r.lastPopped
            /\ Info(s).rcv.lastPopped = r.lastPopped
        BY <1>1, <2>1, <3>1, Zenon
      <4> QED
        BY <1>3, <4>1
    <3> QED
      BY <2>1, <2>2, <3>1, <3>2, <3>3, Zenon DEF Quiet
  <2>4. CASE LastFec(p)
    <3>1. s = VideoSsrc
      BY <1>1, <2>4 DEF OneFrameInv, AudioPlain, Ssrcs
    <3>2. PICK stream, group : stream = sent[VideoSsrc] /\ group = RecvGroup(r, p, key)
      BY Zenon
    <3>3. PICK a, n, m \in Positive :
            /\ GroupOf(group, stream, a, n, m)
            /\ i = a + n + m - 1
            /\ \A k \in DOMAIN group : k # key => k \in DOMAIN r.jitter
      <4>1. LaidOut(stream)
        BY <3>2 DEF OneFrameInv, VideoLaidOut
      <4>2. Placed(stream) /\ Buffers(r.jitter, stream) /\ i \in DOMAIN stream /\ p = stream[i]
        BY <1>1, <1>3, <3>1, <3>2
      <4> QED
        BY <1>2, <2>4, <3>2, <4>1, <4>2, GroupIsOfFrame
    <3>4. PICK b : b = StartPos + a - 1
      OBVIOUS
    <3>5. /\ a \in Nat \ {0} /\ n \in Nat \ {0} /\ m \in Nat \ {0} /\ b \in Nat
          /\ p.id = b + n + m - 1 /\ p.id < SeqSpan /\ p.seq = p.id
          /\ n + m <= MaxFecGroup
      <4>1. a \in Nat \ {0} /\ n \in Nat \ {0} /\ m \in Nat \ {0} /\ StartPos \in Nat
        BY HandlerAssumption DEF Positive, SeqNumbers
      <4>2. p.id = StartPos + i - 1 /\ p.seq = p.id /\ p.id < SeqSpan
        BY <1>1, <1>3 DEF Placed
      <4>3. n + m <= MaxFecGroup
        BY <3>3 DEF GroupOf, IsFrame
      <4> QED
        BY <3>3, <3>4, <4>1, <4>2, <4>3
    <3>6. IsGroup(group, b, n, m) /\ IsFrame(stream, a, n, m)
      BY <3>3, <3>4 DEF GroupOf
    <3>7. PICK x : x = TryRecoverFEC(group)
      OBVIOUS
    <3>8. /\ x.abort = NoAbort
          /\ \/ x.out = << >>
             \/ /\ b .. b + n - 1 \subseteq DOMAIN group
                /\ IsRange(x.out, group, b, n)
      <4>1. b + n + m - 1 < SeqSpan
        BY <3>5
      <4> QED
        BY <3>5, <3>6, <3>7, <4>1, GroupPops
    <3>9. /\ popped.out = x.out /\ popped.abort = NoAbort
          /\ popped.rcv.lastPopped = b + n + m - 1
      BY <2>1, <2>4, <3>2, <3>5, <3>7, <3>8, PopDelivers
    <3>10. CASE x.out = << >>
      <4>1. after = before
        BY <2>1, <3>9, <3>10, NothingDumped
      <4>2. ~(p.id < r.lastPopped)
        BY <1>1, <1>2, <1>6 DEF PushAndDump, Ignored
      <4>3. ssrcInfoMap'[s].rcv.lastPopped >= Info(s).rcv.lastPopped
        BY <1>1, <1>2, <1>3, <2>1, <3>5, <3>9, <4>2
      <4> QED
        BY <2>1, <2>2, <3>9, <4>1, <4>3, Zenon DEF Quiet
    <3>11. CASE /\ b .. b + n - 1 \subseteq DOMAIN group
                /\ IsRange(x.out, group, b, n)
      <4>1. PICK ts, data : ts = stream[a].ts /\ data = DataAt(stream, ts)
        BY Zenon
      <4>2. IsDataOf(x.out, b, n, ts) /\ x.out = data
        <5>1. Placed(stream)
          BY <1>3, <3>1, <3>2
        <5> QED
          BY <3>3, <3>4, <3>11, <4>1, <5>1, DataDelivered
      <4>3. b > r.lastPopped
        <5>1. b \in b .. b + n - 1 /\ b # key
          BY <1>2, <3>5
        <5>2. b \in DOMAIN r.jitter
          BY <3>3, <3>11, <5>1
        <5> QED
          BY <1>3, <5>2
      <4>4. Behind(before.unp, b)
        <5>1. Settled(before.unp, r.lastPopped)
          BY <1>3, <2>2
        <5>2. before.unp.started => before.unp.expect \in Nat /\ before.unp.expect < b
          BY <1>3, <3>5, <4>3, <5>1 DEF Settled
        <5> QED
          BY <5>1, <5>2, Zenon DEF Settled, Behind
      <4>5. PICK good \in BOOLEAN : good <=> WellFormed(stream)
        BY Zenon
      <4>6. good => GoodPackets(x.out)
        <5> SUFFICES ASSUME good, NEW i1 \in DOMAIN x.out
                     PROVE  GoodPayload(x.out[i1].payload)
          BY Zenon DEF GoodPackets
        <5>1. x.out = [j \in 1 .. n |-> stream[a + j - 1]]
          <6>1. stream \in Seq(Packets) /\ IsFrame(stream, a, n, m)
            BY <1>3, <3>1, <3>2, <3>6 DEF Placed
          <6> QED
            BY <4>1, <4>2, <6>1, FrameDataIs DEF IsRange
        <5>2. x.out[i1] = stream[a + i1 - 1] /\ i1 \in 1 .. n
          BY <5>1
        <5>3. a + i1 - 1 \in DOMAIN stream
          <6>1. stream \in Seq(Packets) /\ a + n + m - 1 <= Len(stream)
            BY <1>3, <3>1, <3>2, <3>6 DEF Placed, IsFrame
          <6> QED
            BY <3>5, <5>2, <6>1
        <5>4. WellFormed(stream)
          BY <4>5
        <5>5. ~stream[a + i1 - 1].fec
          <6>1. PICK j : j = a + i1 - 1
            OBVIOUS
          <6>2. j \in a .. a + n + m - 1 /\ ~(j >= a + n)
            BY <3>5, <5>2, <6>1
          <6>3. ~stream[j].fec
            BY <3>6, <6>2, Zenon DEF IsFrame
          <6> QED
            BY <6>1, <6>3
        <5> QED
          BY <5>2, <5>3, <5>4, <5>5 DEF WellFormed
      <4>7. Dumped(before, after, b, n, n, ts, good, Units(x.out))
        <5>1. before.ret = 0 /\ before.abort = NoAbort /\ IsDump(before)
          BY <2>2, <3>9
        <5>2. after = DumpAll(before, VideoSsrc, x.out, initOk, decodeOk)
          BY <2>1, <3>1, <3>9
        <5>3. n \in Nat /\ b + n < SeqSpan
          BY <3>5, HalfSeqAssumption DEF SeqSpan
        <5>4. b \in Nat /\ good \in BOOLEAN
          BY <3>5, <4>5
        <5> QED
          BY <4>2, <4>4, <4>6, <5>1, <5>2, <5>3, <5>4, GroupDumped
      <4>8. PICK u, v, units : u = Info(VideoSsrc).unp /\ v = after.unp /\ units = Units(x.out)
        BY Zenon
      <4>9. /\ IsUnp(v) /\ Params(v) /\ AtMostOne(v)
            /\ \/ v = u
               \/ v.started = TRUE /\ v.expect \in b + 1 .. b + n
            /\ NotBehind(u, b) => after.abort = NoAbort
        <5>1. before.unp = u
          BY <2>2, <3>1, <4>8, Zenon
        <5> QED
          BY <4>7, <4>8, <5>1, Zenon DEF Dumped
      <4>10. \/ after.decoded = decoded
             \/ \E f : /\ after.decoded = Append(decoded, f)
                       /\ good => Built(f, ts, units)
        BY <2>2, <4>7, <4>8, Zenon DEF Dumped
      <4>11. units = Units(DataAt(stream, stream[a].ts)) /\ ts = stream[a].ts
        BY <4>1, <4>2, <4>8, Zenon
      <4>12. \/ decoded' = decoded
             \/ \E f : /\ decoded' = Append(decoded, f)
                       /\ WellFormed(stream)
                            => Built(f, stream[a].ts, Units(DataAt(stream, stream[a].ts)))
        BY <2>1, <4>5, <4>10, <4>11, Zenon
      <4>13. ssrcInfoMap'[VideoSsrc].unp = v /\ aborted' = after.abort
        BY <2>1, <3>1, <4>8, Zenon
      <4>14. b > Info(VideoSsrc).rcv.lastPopped
        BY <1>1, <3>1, <4>3
      <4>15. ssrcInfoMap'[VideoSsrc].rcv.lastPopped = b + n + m - 1
        BY <2>1, <3>1, <3>9, Zenon
      <4>16. IsList(decoded) /\ IsList(shown) => Shows(decoded, shown, decoded', shown')
        <5> SUFFICES ASSUME IsList(decoded), IsList(shown)
                     PROVE  Shows(decoded, shown, decoded', shown')
          OBVIOUS
        <5>1. IsList(before.decoded) /\ IsList(before.shown) /\ IsDump(before)
          BY <2>2
        <5>2. after = DumpAll(before, VideoSsrc, x.out, initOk, decodeOk)
          BY <2>1, <3>1, <3>9
        <5>3. DOMAIN x.out = 1 .. n /\ n \in Nat
          BY <3>5, <4>2 DEF IsDataOf
        <5>4. Shows(before.decoded, before.shown, after.decoded, after.shown)
          BY <5>1, <5>2, <5>3, DumpAllShows
        <5> QED
          BY <2>1, <2>2, <5>4, Zenon
      <4>17. Dumps(stream, u, v, a, n, m, b)
        BY <3>4, <3>6, <4>9, <4>12, <4>13, <4>14, <4>15, <4>16, Zenon DEF Dumps
      <4>18. DumpsSome(i)
        BY <3>2, <3>3, <4>8, <4>13, <4>17, Zenon DEF DumpsSome
      <4> QED
        BY <3>1, <4>18
    <3> QED
      BY <3>8, <3>10, <3>11
  <2> QED
    BY <2>3, <2>4
<1> QED
  BY <1>4, <1>5, <1>6


(* No packet is newer than the last one sent. *)
LEMMA NoneNewer ==
  ASSUME TypeOK, VideoLaidOut, NEW i \in DOMAIN sent[VideoSsrc]
  PROVE  sent[VideoSsrc][i].ts < LastTs(VideoSsrc) + 1
<1>1. PICK stream : stream = sent[VideoSsrc]
  OBVIOUS
<1>2. stream \in Seq(Packets) /\ LaidOut(stream) /\ i \in DOMAIN stream
  BY <1>1 DEF TypeOK, Ssrcs, VideoLaidOut
<1>3. stream # << >> /\ Len(stream) \in DOMAIN stream /\ i <= Len(stream)
  BY <1>2
<1>4. LastTs(VideoSsrc) = stream[Len(stream)].ts
  BY <1>1, <1>3 DEF LastTs, Last
<1>5. stream[i].ts <= stream[Len(stream)].ts
  BY <1>2, <1>3 DEF LaidOut
<1>6. stream[i].ts \in Nat /\ stream[Len(stream)].ts \in Nat
  <2>1. stream[i] \in Packets /\ stream[Len(stream)] \in Packets
    BY <1>2, <1>3
  <2> QED
    BY <2>1 DEF Packets
<1> QED
  BY <1>1, <1>4, <1>5, <1>6

LEMMA SendKeepsStreams ==
  ASSUME ShapesFit, TypeOK, VideoLaidOut, AudioPlain, SendFrame \/ SendAudio
  PROVE  VideoLaidOut' /\ AudioPlain'
<1>1. CASE SendFrame
  <2>0. PICK shape \in FrameShapes :
          sent' = [sent EXCEPT ![VideoSsrc] =
                     @ \o FramePackets(shape, NextPos(VideoSsrc), LastTs(VideoSsrc) + 1)]
    BY <1>1, Zenon DEF SendFrame
  <2>1. PICK new :
          /\ new = FramePackets(shape, NextPos(VideoSsrc), LastTs(VideoSsrc) + 1)
          /\ sent' = [sent EXCEPT ![VideoSsrc] = @ \o new]
    BY <2>0, Zenon
  <2>2. VideoSsrc \in DOMAIN sent /\ sent[VideoSsrc] \in Seq(Packets)
    BY DEF TypeOK, Ssrcs
  <2>3. /\ IsFrameShape(shape) /\ Len(shape.data) + shape.fecNum <= MaxFecGroup
        /\ NextPos(VideoSsrc) \in Nat /\ LastTs(VideoSsrc) + 1 \in Nat
    <3>1. NextPos(VideoSsrc) \in Nat /\ LastTs(VideoSsrc) \in Nat
      BY SendersTyped DEF Ssrcs
    <3> QED
      BY <3>1, HandlerAssumption DEF ShapesFit
  <2>4. PICK pos, ts : pos = NextPos(VideoSsrc) /\ ts = LastTs(VideoSsrc) + 1
    BY Zenon
  <2>5. \A i \in DOMAIN sent[VideoSsrc] : sent[VideoSsrc][i].ts < ts
    BY <2>4, NoneNewer
  <2>6. LaidOut(sent[VideoSsrc] \o FramePackets(shape, pos, ts))
    <3>1. Extends(sent[VideoSsrc] \o FramePackets(shape, pos, ts), sent[VideoSsrc],
                  shape, ts)
      BY <2>2, <2>3, <2>4, <2>5, FrameAppended DEF VideoLaidOut
    <3> QED
      BY <3>1, Zenon DEF Extends
  <2>7. sent'[VideoSsrc] = sent[VideoSsrc] \o new
    BY <2>1, <2>2
  <2>8. LaidOut(sent'[VideoSsrc])
    BY <2>1, <2>4, <2>6, <2>7, Zenon
  <2>9. sent'[AudioSsrc] = sent[AudioSsrc]
    BY <2>1, HandlerAssumption DEF TypeOK, Ssrcs
  <2> QED
    BY <2>8, <2>9 DEF VideoLaidOut, AudioPlain, LastFec
<1>2. CASE SendAudio
  <2>1. PICK new, q : /\ new = << q >>
                      /\ q = MediaPacket(NextPos(AudioSsrc), LastTs(AudioSsrc) + 1, FALSE,
                                         NoPayload)
                      /\ sent' = [sent EXCEPT ![AudioSsrc] = @ \o new]
    BY <1>2, Zenon DEF SendAudio
  <2>2. AudioSsrc \in DOMAIN sent /\ sent[AudioSsrc] \in Seq(Packets)
    BY DEF TypeOK, Ssrcs
  <2>3. sent'[VideoSsrc] = sent[VideoSsrc]
    BY <2>1, HandlerAssumption DEF TypeOK, Ssrcs
  <2>4. sent'[AudioSsrc] = sent[AudioSsrc] \o new
    BY <2>1, <2>2
  <2>5. q.fec = FALSE
    BY <2>1 DEF MediaPacket
  <2>6. ASSUME NEW i \in DOMAIN sent'[AudioSsrc]
        PROVE  ~LastFec(sent'[AudioSsrc][i])
    <3>1. CASE i \in DOMAIN sent[AudioSsrc]
      <4>1. sent'[AudioSsrc][i] = sent[AudioSsrc][i]
        BY <2>1, <2>2, <2>4, <3>1
      <4> QED
        BY <3>1, <4>1 DEF AudioPlain
    <3>2. CASE i \notin DOMAIN sent[AudioSsrc]
      <4>1. sent'[AudioSsrc][i] = q
        <5>1. PICK old, now : old = sent[AudioSsrc] /\ now = sent'[AudioSsrc]
          OBVIOUS
        <5>2. now = old \o new /\ Len(new) = 1 /\ new[1] = q
          BY <2>1, <2>4, <5>1
        <5>3. q \in Packets
          <6>1. AudioSsrc \in Ssrcs
            BY DEF Ssrcs
          <6>2. PICK pos, ts : pos = NextPos(AudioSsrc) /\ ts = LastTs(AudioSsrc) + 1
            BY Zenon
          <6>4. pos \in Nat /\ ts \in Nat
            BY <6>1, <6>2, SendersTyped
          <6>5. q = MediaPacket(pos, ts, FALSE, NoPayload)
            BY <2>1, <6>2
          <6>3. pos % SeqSpan \in SeqNumbers /\ 0 \in SeqNumbers
            BY <6>4, ModIsSeqNumber, HalfSeqAssumption DEF SeqNumbers, SeqSpan
          <6> QED
            BY <6>3, <6>4, <6>5, NoPayloadIsPayload DEF MediaPacket, Packets
        <5>4. old \in Seq(Packets) /\ new \in Seq(Packets)
          <6>1. new = << q >>
            BY <2>1
          <6>2. new \in Seq(Packets)
            BY <5>3, <6>1
          <6> QED
            BY <2>2, <5>1, <6>2
        <5>5. i \in DOMAIN (old \o new) /\ i \notin DOMAIN old
          BY <3>2, <5>1, <5>2
        <5>6. i - Len(old) \in DOMAIN new /\ now[i] = new[i - Len(old)]
          <6>1. i - Len(old) \in DOMAIN new /\ (old \o new)[i] = new[i - Len(old)]
            BY <5>4, <5>5
          <6> QED
            BY <5>2, <6>1
        <5>7. i - Len(old) = 1
          BY <2>1, <5>6
        <5> QED
          BY <5>1, <5>2, <5>6, <5>7
      <4> QED
        BY <2>5, <4>1 DEF LastFec
    <3> QED
      BY <3>1, <3>2
  <2> QED
    BY <2>3, <2>6 DEF VideoLaidOut, AudioPlain, LastFec
<1> QED
  BY <1>1, <1>2

LEMMA InitOneFrame == Init => OneFrameInv
<1> SUFFICES ASSUME Init PROVE OneFrameInv
  OBVIOUS
<1>1. PICK none : none = << >>
  OBVIOUS
<1>2. sent[VideoSsrc] = none /\ sent[AudioSsrc] = none /\ DOMAIN none = {}
  BY <1>1 DEF Init, Ssrcs
<1>3. DOMAIN ssrcInfoMap = {}
  BY DEF Init
<1>4. VideoLaidOut /\ AudioPlain
  BY <1>2 DEF VideoLaidOut, AudioPlain, LaidOut
<1>5. UnpsSettled
  BY <1>3 DEF UnpsSettled, Streams
<1> QED
  BY <1>4, <1>5, InitPopped DEF OneFrameInv

LEMMA ReceiveKeepsSettled ==
  ASSUME FirstSeqAheadOfZero, FirstCycle, OneFrameInv,
         NEW s \in Ssrcs, NEW i \in DOMAIN sent[s],
         InReach(s, sent[s][i]), Receive(s, sent[s][i])
  PROVE  UnpsSettled'
<1>1. PICK rcv, unp : StoreInfo(s, sent[s][i], rcv, unp)
  BY HandlerStores DEF Receive
<1>2. /\ DOMAIN ssrcInfoMap' = DOMAIN ssrcInfoMap \cup {s}
      /\ \A x \in DOMAIN ssrcInfoMap : x # s => ssrcInfoMap'[x] = ssrcInfoMap[x]
  BY <1>1, StoredInfo
<1>3. Settled(Info(s).unp, Info(s).rcv.lastPopped) /\ Info(s).rcv.lastPopped \in Int
  BY InfoFacts
<1>4. PICK u, v, old, now : /\ u = Info(s).unp /\ v = ssrcInfoMap'[s].unp
                            /\ old = Info(s).rcv.lastPopped
                            /\ now = ssrcInfoMap'[s].rcv.lastPopped
  BY Zenon
<1>5. Settled(v, now)
  <2>0. now \in Int
    <3>1. TypeOK'
      BY ReceiveKeepsPopped DEF OneFrameInv, PoppedInv, ExactInv
    <3>2. s \in Streams'
      BY <1>2 DEF Streams
    <3> QED
      BY <1>4, <3>1, <3>2, HalfSeqAssumption DEF TypeOK, SeqNumbers
  <2>1. CASE Quiet(s)
    <3>1. v = u /\ now >= old
      BY <1>4, <2>1 DEF Quiet
    <3>2. Settled(u, old) /\ old \in Int
      BY <1>3, <1>4
    <3> QED
      BY <2>0, <3>1, <3>2 DEF Settled
  <2>2. CASE s = VideoSsrc /\ DumpsSome(i)
    <3>0. PICK a, n, m \in Positive : \E b : Dumps(sent[VideoSsrc], u, v, a, n, m, b)
      BY <1>4, <2>2, Zenon DEF DumpsSome
    <3>1. PICK b : Dumps(sent[VideoSsrc], u, v, a, n, m, b)
      BY <3>0
    <3>2. /\ IsUnp(v) /\ Params(v) /\ AtMostOne(v) /\ b > old /\ now = b + n + m - 1
          /\ \/ v = u
             \/ v.started = TRUE /\ v.expect \in b + 1 .. b + n
      BY <1>4, <2>2, <3>1 DEF Dumps
    <3>3. n \in Nat /\ m \in Nat /\ n > 0 /\ m > 0 /\ b \in Nat
      <4>1. StartPos \in Nat
        BY HandlerAssumption, HalfSeqAssumption DEF SeqNumbers, SeqSpan
      <4>2. b = StartPos + a - 1 /\ a \in Nat /\ a > 0
        BY <3>1 DEF Dumps, Positive
      <4> QED
        BY <4>1, <4>2 DEF Positive
    <3>4. CASE v = u
      <4>1. Settled(u, old) /\ old \in Int
        BY <1>3, <1>4
      <4> QED
        BY <3>2, <3>3, <3>4, <4>1 DEF Settled
    <3>5. CASE v.started = TRUE /\ v.expect \in b + 1 .. b + n
      BY <3>2, <3>3, <3>5 DEF Settled
    <3> QED
      BY <3>2, <3>4, <3>5
  <2> QED
    BY <2>1, <2>2, ReceiveDumps
<1> SUFFICES ASSUME NEW x \in Streams'
             PROVE  Settled(ssrcInfoMap'[x].unp, ssrcInfoMap'[x].rcv.lastPopped)
  BY Zenon DEF UnpsSettled, Settled, IsUnp, Params, AtMostOne, One, IsBuffer
<1>6. CASE x = s
  BY <1>4, <1>5, <1>6
<1>7. CASE x # s
  <2>1. x \in Streams /\ ssrcInfoMap'[x] = ssrcInfoMap[x]
    BY <1>2, <1>7 DEF Streams
  <2> QED
    BY <2>1 DEF OneFrameInv, UnpsSettled
<1> QED
  BY <1>6, <1>7

LEMMA NextKeepsOneFrame ==
  ASSUME FirstSeqAheadOfZero, ShapesFit
  PROVE  OneFrameInv /\ FirstCycle /\ [Next]_vars => OneFrameInv'
<1> SUFFICES ASSUME OneFrameInv, FirstCycle, [Next]_vars PROVE OneFrameInv'
  OBVIOUS
<1>1. PoppedInv' /\ TypeOK
  BY NextKeepsPopped DEF OneFrameInv, PoppedInv, ExactInv
<1>2. CASE SendFrame \/ SendAudio
  <2>1. VideoLaidOut' /\ AudioPlain'
    BY <1>1, <1>2, SendKeepsStreams DEF OneFrameInv
  <2>2. ssrcInfoMap' = ssrcInfoMap
    BY <1>2 DEF SendFrame, SendAudio, handlerVars
  <2>3. UnpsSettled'
    BY <2>2 DEF OneFrameInv, UnpsSettled, Streams
  <2> QED
    BY <1>1, <2>1, <2>3 DEF OneFrameInv
<1>3. CASE ReceiveAny
  <2>1. PICK s \in Ssrcs : \E i \in DOMAIN sent[s] :
          InReach(s, sent[s][i]) /\ Receive(s, sent[s][i])
    BY <1>3 DEF ReceiveAny
  <2>2. UnpsSettled'
    BY <2>1, ReceiveKeepsSettled
  <2>3. sent' = sent
    BY <2>1 DEF Receive
  <2>4. VideoLaidOut' /\ AudioPlain'
    BY <2>3 DEF OneFrameInv, VideoLaidOut, AudioPlain
  <2> QED
    BY <1>1, <2>2, <2>4 DEF OneFrameInv
<1>4. CASE UNCHANGED vars
  <2>1. sent' = sent /\ ssrcInfoMap' = ssrcInfoMap
    BY <1>4 DEF vars, handlerVars
  <2>2. UnpsSettled' /\ VideoLaidOut' /\ AudioPlain'
    BY <2>1 DEF OneFrameInv, UnpsSettled, VideoLaidOut, AudioPlain, Streams
  <2> QED
    BY <1>1, <2>2 DEF OneFrameInv
<1> QED
  BY <1>2, <1>3, <1>4 DEF Next

(* The unpacketizer never has more than one frame under construction (the  *)
(* assert(media.size() == 1) of DumpPacket), over the first cycle of the   *)
(* sequence numbers and for frames the FEC codec accepts, whatever the     *)
(* network loses, repeats or reorders.                                     *)
THEOREM OneFrameAtATime ==
  ASSUME FirstSeqAheadOfZero, ShapesFit
  PROVE  Spec /\ []FirstCycle => []AtMostOneFrame
<1>1. OneFrameInv => AtMostOneFrame
  <2> SUFFICES ASSUME OneFrameInv, NEW s \in Streams
               PROVE  Len(ssrcInfoMap[s].unp.frames) <= 1
    BY DEF AtMostOneFrame
  <2>1. PICK u : u = ssrcInfoMap[s].unp
    OBVIOUS
  <2>2. AtMostOne(u)
    BY <2>1 DEF OneFrameInv, UnpsSettled, Settled
  <2>3. u.frames = << >> \/ \E f : u.frames = << f >>
    BY <2>2, Zenon DEF AtMostOne, One
  <2>4. Len(u.frames) <= 1
    <3>1. PICK frames : frames = u.frames
      OBVIOUS
    <3>2. frames = << >> \/ \E f : frames = << f >>
      BY <2>3, <3>1, Zenon
    <3>3. Len(frames) <= 1
      BY <3>2
    <3> QED
      BY <3>1, <3>3
  <2> QED
    BY <2>1, <2>4
<1> QED
  BY <1>1, InitOneFrame, NextKeepsOneFrame, PTL DEF Spec


-----------------------------------------------------------------------------
(* NoAssertFails. *)

(* The stream has not run away from the unpacketizer: what may arrive is   *)
(* at most half the number space ahead of the number it expects.           *)
NearExpected ==
  VideoSsrc \in Streams /\ ssrcInfoMap[VideoSsrc].unp.started
    => newest[VideoSsrc] + Reach <= ssrcInfoMap[VideoSsrc].unp.expect + HalfSeq

LEMMA NotFarBehind ==
  ASSUME NEW u, NEW b \in Nat,
         u.started => u.expect \in Nat /\ u.expect < b /\ b <= u.expect + HalfSeq
  PROVE  NotBehind(u, b)
<1>1. CASE ~u.started
  BY <1>1, Zenon DEF NotBehind
<1>2. CASE u.started
  <2>1. PICK e : e = u.expect
    OBVIOUS
  <2>2. e \in Nat /\ e < b /\ b <= e + HalfSeq
    BY <1>2, <2>1
  <2>3. ~AheadOrAt(e, b)
    <3>1. e - b # HalfSeq /\ ~(e >= b)
      BY <2>2, HalfSeqAssumption
    <3>2. ForwardDiff(b, e) = e - b + SeqSpan
      BY <3>1, Zenon DEF ForwardDiff
    <3>3. ~(e - b + SeqSpan < HalfSeq)
      BY <2>2, HalfSeqAssumption DEF SeqSpan
    <3> QED
      BY <3>1, <3>2, <3>3, Zenon DEF AheadOrAt
  <2> QED
    BY <2>1, <2>3, Zenon DEF NotBehind, AheadOf
<1> QED
  BY <1>1, <1>2

LEMMA ReceiveFailsNoAssert ==
  ASSUME FirstSeqAheadOfZero, EmplaceMovesDuplicate = FALSE,
         FirstCycle, NearExpected, OneFrameInv,
         NEW s \in Ssrcs, NEW i \in DOMAIN sent[s],
         InReach(s, sent[s][i]), Receive(s, sent[s][i])
  PROVE  aborted' = NoAbort
<1>1. CASE Quiet(s)
  BY <1>1, Zenon DEF Quiet
<1>2. CASE s = VideoSsrc /\ DumpsSome(i)
  <2>1. PICK stream, u, last : /\ stream = sent[VideoSsrc] /\ u = Info(VideoSsrc).unp
                               /\ last = Info(VideoSsrc).rcv.lastPopped
    BY Zenon
  <2>0. PICK a, n, m \in Positive : \E b, v : Dumps(stream, u, v, a, n, m, b)
                                             /\ i = a + n + m - 1
    BY <1>2, <2>1, Zenon DEF DumpsSome
  <2>2. PICK b, v : Dumps(stream, u, v, a, n, m, b) /\ i = a + n + m - 1
    BY <2>0
  <2>3. /\ b = StartPos + a - 1 /\ b > last
        /\ NotBehind(u, b) => aborted' = NoAbort
    BY <2>1, <2>2, Zenon DEF Dumps
  <2>4. Placed(stream) /\ Settled(u, last) /\ last \in Int
    BY <1>2, <2>1, InfoFacts
  <2>5. StartPos \in Nat /\ a \in Nat /\ n \in Nat /\ m \in Nat /\ a > 0 /\ n > 0 /\ m > 0
    BY HandlerAssumption, HalfSeqAssumption DEF Positive, SeqNumbers, SeqSpan
  <2>6. b \in Nat /\ b <= sent[s][i].id
    <3>1. sent[s][i].id = StartPos + i - 1
      BY <1>2, <2>1, <2>4 DEF Placed
    <3> QED
      BY <2>2, <2>3, <2>5, <3>1
  <2>7. u.started => u.expect \in Nat /\ u.expect < b /\ b <= u.expect + HalfSeq
    <3> SUFFICES ASSUME u.started
                 PROVE  u.expect \in Nat /\ u.expect < b /\ b <= u.expect + HalfSeq
      OBVIOUS
    <3>1. u.expect \in Nat /\ u.expect <= last
      BY <2>4, Zenon DEF Settled
    <3>2. VideoSsrc \in Streams /\ u = ssrcInfoMap[VideoSsrc].unp
      <4>1. CASE VideoSsrc \in DOMAIN ssrcInfoMap
        BY <2>1, <4>1 DEF Info, Streams, Ssrcs
      <4>2. CASE VideoSsrc \notin DOMAIN ssrcInfoMap
        <5>1. u = NewUnpacketizer
          BY <2>1, <4>2 DEF Info, NewSSRCInfo
        <5>2. u.started = FALSE
          BY <5>1 DEF NewUnpacketizer
        <5> QED
          BY <5>2
      <4> QED
        BY <4>1, <4>2
    <3>3. newest[VideoSsrc] + Reach <= u.expect + HalfSeq
      BY <3>2 DEF NearExpected
    <3>4. sent[s][i].id <= newest[VideoSsrc] + Reach
      BY <1>2 DEF InReach
    <3>5. newest[VideoSsrc] \in Int /\ Reach \in Nat /\ sent[s][i].id \in Int
      <4>1. TypeOK
        BY DEF OneFrameInv, PoppedInv, ExactInv
      <4>2. sent[s][i].id = StartPos + i - 1 /\ i \in Int
        BY <1>2, <2>1, <2>2, <2>4, <2>5 DEF Placed
      <4> QED
        BY <2>5, <4>1, <4>2, HandlerAssumption DEF TypeOK, Ssrcs
    <3> QED
      BY <2>3, <2>4, <2>6, <3>1, <3>3, <3>4, <3>5, HalfSeqAssumption
  <2>8. NotBehind(u, b)
    BY <2>6, <2>7, NotFarBehind
  <2> QED
    BY <2>3, <2>8
<1> QED
  BY <1>1, <1>2, ReceiveDumps

(* No assert of the receive path fails over the first cycle of the         *)
(* sequence numbers, whatever the network loses, repeats or reorders, if   *)
(* emplace leaves its argument alone (libstdc++ from GCC 12 on), the FEC   *)
(* codec accepts the frames, and no loss is so long that half the number   *)
(* space lies between the number the unpacketizer expects and what may     *)
(* arrive: to a 16-bit comparison a longer gap looks like a step back.     *)
THEOREM AssertsHold ==
  ASSUME FirstSeqAheadOfZero, ShapesFit, EmplaceMovesDuplicate = FALSE
  PROVE  Spec /\ []FirstCycle /\ []NearExpected => []NoAssertFails
<1>1. Init => NoAssertFails
  BY DEF Init, NoAssertFails
<1>2. OneFrameInv /\ FirstCycle /\ NearExpected /\ NoAssertFails /\ [Next]_vars
        => NoAssertFails'
  <2> SUFFICES ASSUME OneFrameInv, FirstCycle, NearExpected, NoAssertFails, [Next]_vars
               PROVE  aborted' = NoAbort
    BY DEF NoAssertFails
  <2>1. CASE ReceiveAny
    BY <2>1, ReceiveFailsNoAssert DEF ReceiveAny
  <2>2. CASE ~ReceiveAny
    <3>1. aborted' = aborted
      BY <2>2 DEF Next, SendFrame, SendAudio, vars, handlerVars
    <3> QED
      BY <3>1 DEF NoAssertFails
  <2> QED
    BY <2>1, <2>2
<1> QED
  BY <1>1, <1>2, InitOneFrame, NextKeepsOneFrame, PTL DEF Spec


-----------------------------------------------------------------------------
(* The refinement of FrameDelivery. *)

(* The data packets of the frames sent have well-formed payloads. *)
PayloadsFit ==
  \A shape \in FrameShapes : \A i \in DOMAIN shape.data : GoodPayload(shape.data[i])

LatestTs(stream) == IF stream = << >> THEN 0 ELSE stream[Len(stream)].ts

(* Frames are numbered by their timestamps: 1, 2, ... *)
FramesNumbered(stream) ==
  /\ \A ts \in 1 .. LatestTs(stream) :
       \E a, n, m \in Positive : IsFrame(stream, a, n, m) /\ stream[a].ts = ts
  /\ \A i \in DOMAIN stream : stream[i].ts \in 1 .. LatestTs(stream)

Media == [ts : Nat, rawData : Seq(NalUnits), bIFrame : BOOLEAN]

(* Every frame decoded has a packet at or below lastPoppedPowerSeq_, so    *)
(* that none of it can come again.                                         *)
DecodedPopped(frames, stream, last) ==
  /\ frames \in Seq(Media)
  /\ \A i \in DOMAIN frames : \E j \in DOMAIN stream :
       stream[j].ts = frames[i].ts /\ stream[j].id <= last

DeliveryInv ==
  /\ OneFrameInv
  /\ WellFormed(sent[VideoSsrc]) /\ FramesNumbered(sent[VideoSsrc])
  /\ DecodedPopped(decoded, sent[VideoSsrc], Info(VideoSsrc).rcv.lastPopped)

(* The units of every frame, and what was handed to the decoder: the two   *)
(* variables of FrameDelivery.                                             *)
UnitsOf(stream) == [ts \in 1 .. LatestTs(stream) |-> Units(DataAt(stream, ts))]

Delivered(frames) == [i \in DOMAIN frames |-> << frames[i].ts, OwnUnits(frames[i]) >>]

LEMMA LatestIsNat ==
  ASSUME NEW stream \in Seq(Packets)
  PROVE  LatestTs(stream) \in Nat
<1>1. CASE stream = << >>
  BY <1>1 DEF LatestTs
<1>2. CASE stream # << >>
  <2>1. stream[Len(stream)] \in Packets
    BY <1>2
  <2>2. stream[Len(stream)].ts \in Nat
    BY <2>1 DEF Packets
  <2> QED
    BY <1>2, <2>2 DEF LatestTs
<1> QED
  BY <1>1, <1>2

LEMMA FrameUnitsAre ==
  /\ FrameUnits = UnitsOf(sent[VideoSsrc]) /\ FrameUnits' = UnitsOf(sent'[VideoSsrc])
  /\ LastTs(VideoSsrc) = LatestTs(sent[VideoSsrc])
<1>1. LastTs(VideoSsrc) = LatestTs(sent[VideoSsrc])
  BY Zenon DEF LastTs, LatestTs, Last
<1>2. LastTs(VideoSsrc)' = LatestTs(sent'[VideoSsrc])
  BY Zenon DEF LastTs, LatestTs, Last
<1>3. \A ts : FrameData(ts) = DataAt(sent[VideoSsrc], ts)
  BY Zenon DEF FrameData, DataAt
<1>4. \A ts : FrameData(ts)' = DataAt(sent'[VideoSsrc], ts)
  BY Zenon DEF FrameData, DataAt
<1>5. FrameUnits = UnitsOf(sent[VideoSsrc])
  BY <1>1, <1>3, Zenon DEF FrameUnits, UnitsOf
<1>6. FrameUnits' = UnitsOf(sent'[VideoSsrc])
  BY <1>2, <1>4, Zenon DEF FrameUnits, UnitsOf
<1> QED
  BY <1>1, <1>5, <1>6

LEMMA DataKept ==
  ASSUME NEW stream \in Seq(Packets), NEW longer, NEW shape, NEW ts,
         Extends(longer, stream, shape, ts),
         NEW a \in Positive, NEW n \in Positive, NEW m \in Positive,
         IsFrame(stream, a, n, m)
  PROVE  DataAt(longer, stream[a].ts) = DataAt(stream, stream[a].ts)
<1>1. /\ longer \in Seq(Packets) /\ IsFrame(longer, a, n, m)
      /\ \A j \in DOMAIN stream : longer[j] = stream[j]
  BY Zenon DEF Extends
<1>2. a \in Nat /\ n \in Nat /\ m \in Nat /\ a > 0 /\ m > 0 /\ n > 0
  BY DEF Positive
<1>3. \A i \in 1 .. n : a + i - 1 \in DOMAIN stream
  <2>1. a + n + m - 1 <= Len(stream)
    BY DEF IsFrame
  <2> QED
    BY <1>2, <2>1
<1>4. longer[a] = stream[a]
  <2>1. 1 \in 1 .. n /\ a + 1 - 1 = a
    BY <1>2
  <2> QED
    BY <1>1, <1>3, <2>1
<1>5. DataAt(longer, stream[a].ts) = [i \in 1 .. n |-> longer[a + i - 1]]
  BY <1>1, <1>4, FrameDataIs DEF IsRange
<1>6. DataAt(stream, stream[a].ts) = [i \in 1 .. n |-> stream[a + i - 1]]
  BY FrameDataIs DEF IsRange
<1>7. \A i \in 1 .. n : longer[a + i - 1] = stream[a + i - 1]
  BY <1>1, <1>3
<1> QED
  BY <1>5, <1>6, <1>7

LEMMA NumberedExtended ==
  ASSUME NEW stream \in Seq(Packets), NEW longer, NEW shape, NEW ts,
         Extends(longer, stream, shape, ts), ts = LatestTs(stream) + 1,
         FramesNumbered(stream)
  PROVE  /\ LatestTs(longer) = ts /\ FramesNumbered(longer)
         /\ \A t \in 1 .. LatestTs(stream) : DataAt(longer, t) = DataAt(stream, t)
<1>1. LatestTs(longer) = ts
  BY Zenon DEF Extends, LatestTs
<1>2. LatestTs(stream) \in Nat /\ 1 .. ts = (1 .. LatestTs(stream)) \cup {ts}
  BY LatestIsNat
<1>3. ASSUME NEW t \in 1 .. ts
      PROVE  \E a, n, m \in Positive : IsFrame(longer, a, n, m) /\ longer[a].ts = t
  <2>1. CASE t = ts
    BY <2>1, Zenon DEF Extends
  <2>2. CASE t \in 1 .. LatestTs(stream)
    <3>1. PICK a, n, m \in Positive : IsFrame(stream, a, n, m) /\ stream[a].ts = t
      BY <2>2, Zenon DEF FramesNumbered
    <3>2. IsFrame(longer, a, n, m)
      BY <3>1, Zenon DEF Extends
    <3>3. a \in DOMAIN stream
      BY <3>1 DEF IsFrame, Positive
    <3>4. longer[a] = stream[a]
      BY <3>3, Zenon DEF Extends
    <3> QED
      BY <3>1, <3>2, <3>4
  <2> QED
    BY <1>2, <2>1, <2>2
<1>4. ASSUME NEW i \in DOMAIN longer PROVE longer[i].ts \in 1 .. ts
  <2>1. CASE i \in DOMAIN stream
    <3>1. longer[i] = stream[i] /\ stream[i].ts \in 1 .. LatestTs(stream)
      BY <2>1, Zenon DEF Extends, FramesNumbered
    <3> QED
      BY <1>2, <3>1
  <2>2. CASE i \notin DOMAIN stream
    <3>1. longer[i].ts = ts
      BY <2>2, Zenon DEF Extends
    <3> QED
      BY <1>2, <3>1
  <2> QED
    BY <2>1, <2>2
<1>5. ASSUME NEW t \in 1 .. LatestTs(stream)
      PROVE  DataAt(longer, t) = DataAt(stream, t)
  <2>1. PICK a, n, m \in Positive : IsFrame(stream, a, n, m) /\ stream[a].ts = t
    BY Zenon DEF FramesNumbered
  <2> QED
    BY <2>1, DataKept
<1> QED
  BY <1>1, <1>3, <1>4, <1>5 DEF FramesNumbered

LEMMA WellFormedExtended ==
  ASSUME PayloadsFit, NEW stream, WellFormed(stream), NEW longer,
         NEW shape \in FrameShapes, NEW ts, Extends(longer, stream, shape, ts)
  PROVE  WellFormed(longer)
<1> SUFFICES ASSUME NEW j \in DOMAIN longer, ~longer[j].fec
             PROVE  GoodPayload(longer[j].payload)
  BY Zenon DEF WellFormed
<1>1. CASE j \in DOMAIN stream
  <2>1. longer[j] = stream[j]
    BY <1>1, Zenon DEF Extends
  <2> QED
    BY <1>1, <2>1, Zenon DEF WellFormed
<1>2. CASE j \notin DOMAIN stream
  <2>1. PICK i \in DOMAIN shape.data : longer[j].payload = shape.data[i]
    BY <1>2, Zenon DEF Extends
  <2> QED
    BY <2>1, Zenon DEF PayloadsFit
<1> QED
  BY <1>1, <1>2

LEMMA FrameExtends ==
  ASSUME ShapesFit, TypeOK, VideoLaidOut, SendFrame
  PROVE  \E shape \in FrameShapes :
           Extends(sent'[VideoSsrc], sent[VideoSsrc], shape, LatestTs(sent[VideoSsrc]) + 1)
<1>0. PICK shape \in FrameShapes :
        sent' = [sent EXCEPT ![VideoSsrc] =
                   @ \o FramePackets(shape, NextPos(VideoSsrc), LastTs(VideoSsrc) + 1)]
  BY Zenon DEF SendFrame
<1>1. PICK new :
        /\ new = FramePackets(shape, NextPos(VideoSsrc), LastTs(VideoSsrc) + 1)
        /\ sent' = [sent EXCEPT ![VideoSsrc] = @ \o new]
  BY <1>0, Zenon
<1>2. VideoSsrc \in DOMAIN sent /\ sent[VideoSsrc] \in Seq(Packets)
  BY DEF TypeOK, Ssrcs
<1>3. PICK pos, ts : pos = NextPos(VideoSsrc) /\ ts = LastTs(VideoSsrc) + 1
  BY Zenon
<1>4. pos \in Nat /\ ts \in Nat
  BY <1>3, SendersTyped DEF Ssrcs
<1>5. IsFrameShape(shape) /\ Len(shape.data) + shape.fecNum <= MaxFecGroup
  BY HandlerAssumption DEF ShapesFit
<1>6. \A i \in DOMAIN sent[VideoSsrc] : sent[VideoSsrc][i].ts < ts
  BY <1>3, NoneNewer
<1>7. Extends(sent[VideoSsrc] \o FramePackets(shape, pos, ts), sent[VideoSsrc], shape, ts)
  BY <1>2, <1>4, <1>5, <1>6, FrameAppended DEF VideoLaidOut
<1>8. sent'[VideoSsrc] = sent[VideoSsrc] \o new
  BY <1>1, <1>2
<1>9. ts = LatestTs(sent[VideoSsrc]) + 1
  BY <1>3, FrameUnitsAre
<1> QED
  BY <1>1, <1>3, <1>7, <1>8, <1>9, Zenon


LEMMA UnitsOfSize ==
  ASSUME NEW stream \in Seq(Packets)
  PROVE  /\ DOMAIN UnitsOf(stream) = 1 .. LatestTs(stream)
         /\ Len(UnitsOf(stream)) = LatestTs(stream)
         /\ \A t \in 1 .. LatestTs(stream) : UnitsOf(stream)[t] = Units(DataAt(stream, t))
<1>1. PICK k, f : k = LatestTs(stream) /\ f = UnitsOf(stream)
  BY Zenon
<1>2. k \in Nat
  BY <1>1, LatestIsNat
<1>3. f = [t \in 1 .. k |-> Units(DataAt(stream, t))]
  BY <1>1, Zenon DEF UnitsOf
<1>4. DOMAIN f = 1 .. k /\ \A t \in 1 .. k : f[t] = Units(DataAt(stream, t))
  BY <1>3
<1>5. PICK S : S = {f[t] : t \in 1 .. k}
  OBVIOUS
<1>6. f = [t \in 1 .. k |-> f[t]]
  BY <1>3, <1>4, Zenon
<1>7. Len(f) = k
  BY <1>2, <1>6
<1> QED
  BY <1>1, <1>4, <1>7

LEMMA FrameProduced ==
  ASSUME NEW stream \in Seq(Packets), NEW longer, NEW shape,
         Extends(longer, stream, shape, LatestTs(stream) + 1), FramesNumbered(stream)
  PROVE  /\ Len(UnitsOf(longer)) = Len(UnitsOf(stream)) + 1
         /\ \A t \in DOMAIN UnitsOf(stream) : UnitsOf(longer)[t] = UnitsOf(stream)[t]
<1>1. /\ LatestTs(longer) = LatestTs(stream) + 1 /\ longer \in Seq(Packets)
      /\ \A t \in 1 .. LatestTs(stream) : DataAt(longer, t) = DataAt(stream, t)
  <2>1. PICK ts : ts = LatestTs(stream) + 1
    OBVIOUS
  <2>2. longer \in Seq(Packets)
    BY Zenon DEF Extends
  <2> QED
    BY <2>1, <2>2, NumberedExtended
<1>2. LatestTs(stream) \in Nat
  BY LatestIsNat
<1>3. Len(UnitsOf(longer)) = Len(UnitsOf(stream)) + 1
  BY <1>1, UnitsOfSize
<1>4. ASSUME NEW t \in DOMAIN UnitsOf(stream)
      PROVE  UnitsOf(longer)[t] = UnitsOf(stream)[t]
  <2>1. t \in 1 .. LatestTs(stream) /\ t \in 1 .. LatestTs(longer)
    BY <1>1, <1>2, UnitsOfSize
  <2>2. DataAt(longer, t) = DataAt(stream, t)
    BY <1>1, <2>1
  <2>3. /\ UnitsOf(longer)[t] = Units(DataAt(longer, t))
        /\ UnitsOf(stream)[t] = Units(DataAt(stream, t))
    BY <1>1, <2>1, UnitsOfSize
  <2> QED
    BY <2>2, <2>3
<1> QED
  BY <1>3, <1>4

LEMMA DeliveredAre ==
  ASSUME NEW frames \in Seq(Media)
  PROVE  /\ DOMAIN Delivered(frames) = 1 .. Len(frames)
         /\ Len(Delivered(frames)) = Len(frames)
         /\ \A i \in 1 .. Len(frames) :
              Delivered(frames)[i] = << frames[i].ts, OwnUnits(frames[i]) >>
<1>1. PICK k, f : k = Len(frames) /\ f = Delivered(frames)
  BY Zenon
<1>2. k \in Nat /\ DOMAIN frames = 1 .. k
  BY <1>1
<1>3. f = [i \in 1 .. k |-> << frames[i].ts, OwnUnits(frames[i]) >>]
  BY <1>1, <1>2, Zenon DEF Delivered
<1>4. /\ DOMAIN f = 1 .. k
      /\ \A i \in 1 .. k : f[i] = << frames[i].ts, OwnUnits(frames[i]) >>
  BY <1>3
<1>5. f = [i \in 1 .. k |-> f[i]]
  BY <1>3, <1>4, Zenon
<1>6. Len(f) = k
  BY <1>2, <1>5
<1> QED
  BY <1>1, <1>4, <1>6

LEMMA DeliveredAppended ==
  ASSUME NEW frames \in Seq(Media), NEW f \in Media, NEW more, more = Append(frames, f),
         NEW x, x = << f.ts, OwnUnits(f) >>
  PROVE  Delivered(more) = Append(Delivered(frames), x)
<1>1. PICK k : k = Len(frames)
  OBVIOUS
<1>2. /\ more \in Seq(Media) /\ Len(more) = k + 1 /\ more[k + 1] = f /\ k \in Nat
      /\ \A i \in 1 .. k : more[i] = frames[i]
  BY <1>1
<1>3. PICK d, e : d = Delivered(frames) /\ e = Delivered(more)
  BY Zenon
<1>4. /\ DOMAIN d = 1 .. k /\ Len(d) = k
      /\ \A i \in 1 .. k : d[i] = << frames[i].ts, OwnUnits(frames[i]) >>
  BY <1>1, <1>3, DeliveredAre
<1>5. /\ DOMAIN e = 1 .. k + 1
      /\ \A i \in 1 .. k + 1 : e[i] = << more[i].ts, OwnUnits(more[i]) >>
  BY <1>2, <1>3, DeliveredAre
<1>6. \A i \in 1 .. k : e[i] = d[i]
  <2> SUFFICES ASSUME NEW i \in 1 .. k PROVE e[i] = d[i]
    OBVIOUS
  <2>1. i \in 1 .. k + 1
    BY <1>2
  <2> QED
    BY <1>2, <1>4, <1>5, <2>1, Zenon
<1>7. e[k + 1] = x
  <2>1. k + 1 \in 1 .. k + 1
    BY <1>2
  <2>2. e[k + 1] = << more[k + 1].ts, OwnUnits(more[k + 1]) >>
    BY <1>5, <2>1
  <2> QED
    BY <1>2, <2>2
<1>8. e = [i \in 1 .. k + 1 |-> e[i]]
  <2>1. e = [i \in DOMAIN more |-> << more[i].ts, OwnUnits(more[i]) >>]
    BY <1>3, Zenon DEF Delivered
  <2> QED
    BY <1>5, <2>1, Zenon
<1>9. Append(d, x) = [i \in 1 .. k + 1 |-> IF i = k + 1 THEN x ELSE d[i]]
  BY <1>2, <1>4
<1>10. \A i \in 1 .. k + 1 : e[i] = IF i = k + 1 THEN x ELSE d[i]
  <2> SUFFICES ASSUME NEW i \in 1 .. k + 1 PROVE e[i] = IF i = k + 1 THEN x ELSE d[i]
    OBVIOUS
  <2>1. i = k + 1 \/ i \in 1 .. k
    BY <1>2
  <2> QED
    BY <1>6, <1>7, <2>1, Zenon
<1>11. e = [i \in 1 .. k + 1 |-> IF i = k + 1 THEN x ELSE d[i]]
  BY <1>8, <1>10, Zenon
<1> QED
  BY <1>3, <1>9, <1>11


LEMMA InfoAfter ==
  ASSUME TypeOK, NEW s \in Ssrcs, NEW p, Receive(s, p), NEW v, v = VideoSsrc
  PROVE  /\ s = v => Info(v)' = ssrcInfoMap'[v]
         /\ s # v => Info(v)' = Info(v)
<1>1. PICK rcv, unp : StoreInfo(s, p, rcv, unp)
  BY HandlerStores DEF Receive
<1>2. /\ DOMAIN ssrcInfoMap' = DOMAIN ssrcInfoMap \cup {s}
      /\ \A x \in DOMAIN ssrcInfoMap : x # s => ssrcInfoMap'[x] = ssrcInfoMap[x]
  BY <1>1, StoredInfo
<1>3. CASE s = v
  <2>1. v \in DOMAIN ssrcInfoMap'
    BY <1>2, <1>3
  <2> QED
    BY <1>3, <2>1, Zenon DEF Info
<1>4. CASE s # v
  <2>1. CASE v \in DOMAIN ssrcInfoMap
    <3>1. v \in DOMAIN ssrcInfoMap' /\ ssrcInfoMap'[v] = ssrcInfoMap[v]
      BY <1>2, <1>4, <2>1
    <3> QED
      BY <1>4, <2>1, <3>1, Zenon DEF Info
  <2>2. CASE v \notin DOMAIN ssrcInfoMap
    <3>1. v \notin DOMAIN ssrcInfoMap'
      BY <1>2, <1>4, <2>2
    <3>2. Info(v) = NewSSRCInfo /\ Info(v)' = NewSSRCInfo
      BY <2>2, <3>1, Zenon DEF Info, NewSSRCInfo
    <3> QED
      BY <1>4, <3>2
  <2> QED
    BY <2>1, <2>2
<1> QED
  BY <1>3, <1>4

LEMMA PoppedFurther ==
  ASSUME NEW frames, NEW stream, Placed(stream), NEW last \in Int, NEW now \in Int,
         last <= now, DecodedPopped(frames, stream, last)
  PROVE  DecodedPopped(frames, stream, now)
<1> SUFFICES ASSUME NEW i \in DOMAIN frames
             PROVE  \E j \in DOMAIN stream :
                      stream[j].ts = frames[i].ts /\ stream[j].id <= now
  BY Zenon DEF DecodedPopped
<1>1. PICK j \in DOMAIN stream : stream[j].ts = frames[i].ts /\ stream[j].id <= last
  BY DEF DecodedPopped
<1>2. stream[j].id \in Int
  <2>1. stream[j] \in Packets
    BY DEF Placed
  <2> QED
    BY <2>1 DEF Packets
<1> QED
  BY <1>1, <1>2

(* A frame decoded now is newer than every frame decoded before. *)
LEMMA NewerThanDecoded ==
  ASSUME NEW frames, NEW stream, Placed(stream), LaidOut(stream), NEW last \in Int,
         DecodedPopped(frames, stream, last), NEW i \in DOMAIN frames,
         NEW a \in Positive, NEW n \in Positive, NEW m \in Positive,
         IsFrame(stream, a, n, m), StartPos + a - 1 > last
  PROVE  frames[i].ts < stream[a].ts
<1>1. PICK j \in DOMAIN stream : stream[j].ts = frames[i].ts /\ stream[j].id <= last
  BY DEF DecodedPopped
<1>2. /\ stream[j].id = StartPos + j - 1 /\ stream \in Seq(Packets)
      /\ StartPos \in Nat /\ a \in Nat /\ n \in Nat /\ m \in Nat /\ a > 0 /\ n > 0 /\ m > 0
  BY HandlerAssumption, HalfSeqAssumption DEF Placed, Positive, SeqNumbers, SeqSpan
<1>3. j \in Nat /\ j < a
  BY <1>1, <1>2
<1>4. a \in DOMAIN stream
  BY <1>2 DEF IsFrame
<1>5. stream[j].ts \in Nat /\ stream[a].ts \in Nat
  <2>1. stream[j] \in Packets /\ stream[a] \in Packets
    BY <1>2, <1>4
  <2> QED
    BY <2>1 DEF Packets
<1>6. stream[j].ts <= stream[a].ts
  BY <1>2, <1>3, <1>4 DEF LaidOut
<1>7. stream[j].ts # stream[a].ts
  <2> SUFFICES ASSUME stream[j].ts = stream[a].ts PROVE FALSE
    OBVIOUS
  <2>1. j \in a .. a + n + m - 1
    BY DEF IsFrame
  <2> QED
    BY <1>2, <1>3, <2>1
<1> QED
  BY <1>1, <1>5, <1>6, <1>7

LEMMA BuiltIsMedia ==
  ASSUME NEW f, NEW ts \in Nat, NEW own, Built(f, ts, own)
  PROVE  f \in Media /\ f.ts = ts /\ OwnUnits(f) = own
<1>1. PICK pre, isI : /\ InFront(pre, isI)
                      /\ f = [ts |-> ts, rawData |-> Joined(pre, own), bIFrame |-> isI]
  BY DEF Built
<1>2. own \in Seq(NalUnits)
  BY DEF Built
<1>3. pre \in Seq(NalUnits) /\ isI \in BOOLEAN
  <2>1. pre \in Seq(NalUnits)
    BY <1>1, InFrontTyped
  <2>2. isI \in BOOLEAN
    BY <1>1, Zenon DEF InFront
  <2> QED
    BY <2>1, <2>2
<1>4. PICK raw : raw = Joined(pre, own)
  OBVIOUS
<1>5. raw \in Seq(NalUnits)
  BY <1>2, <1>3, <1>4, JoinedIs
<1>6. f = [ts |-> ts, rawData |-> raw, bIFrame |-> isI]
  BY <1>1, <1>4
<1>7. f \in Media /\ f.ts = ts
  BY <1>3, <1>5, <1>6 DEF Media
<1> QED
  BY <1>7, BuiltOwnUnits

(* A frame that follows the ones delivered, with its own units. *)
DeliversNext(stream, frames, more) ==
  \E t \in 1 .. LatestTs(stream) :
    /\ \A i \in DOMAIN frames : frames[i].ts < t
    /\ Delivered(more) = Append(Delivered(frames), << t, UnitsOf(stream)[t] >>)
    /\ \E f : more = Append(frames, f) /\ Built(f, t, UnitsOf(stream)[t])

LEMMA FrameDelivered ==
  ASSUME NEW stream, Placed(stream), LaidOut(stream), FramesNumbered(stream),
         NEW last \in Int, NEW now \in Int, NEW frames,
         DecodedPopped(frames, stream, last),
         NEW a \in Positive, NEW n \in Positive, NEW m \in Positive,
         IsFrame(stream, a, n, m), StartPos + a - 1 > last, StartPos + a - 1 <= now,
         NEW f, Built(f, stream[a].ts, Units(DataAt(stream, stream[a].ts))),
         NEW more, more = Append(frames, f)
  PROVE  DecodedPopped(more, stream, now) /\ DeliversNext(stream, frames, more)
<1>1. PICK t : t = stream[a].ts
  OBVIOUS
<1>2. a \in DOMAIN stream /\ stream \in Seq(Packets) /\ t \in 1 .. LatestTs(stream)
  <2>1. stream \in Seq(Packets)
    BY DEF Placed
  <2>2. a \in DOMAIN stream
    BY <2>1 DEF IsFrame, Positive
  <2> QED
    BY <1>1, <2>1, <2>2 DEF FramesNumbered
<1>3. t \in Nat
  <2>1. LatestTs(stream) \in Nat
    BY <1>2, LatestIsNat
  <2> QED
    BY <1>2, <2>1
<1>4. f \in Media /\ f.ts = t /\ OwnUnits(f) = Units(DataAt(stream, t))
  BY <1>1, <1>3, BuiltIsMedia
<1>5. frames \in Seq(Media)
  BY DEF DecodedPopped
<1>6. \A i \in DOMAIN frames : frames[i].ts < t
  BY <1>1, NewerThanDecoded
<1>7. Delivered(more) = Append(Delivered(frames), << t, UnitsOf(stream)[t] >>)
  <2>1. UnitsOf(stream)[t] = Units(DataAt(stream, t))
    BY <1>2, UnitsOfSize
  <2>2. << t, UnitsOf(stream)[t] >> = << f.ts, OwnUnits(f) >>
    BY <1>4, <2>1, Zenon
  <2> QED
    BY <1>4, <1>5, <2>2, DeliveredAppended
<1>9. Built(f, t, UnitsOf(stream)[t])
  <2>1. UnitsOf(stream)[t] = Units(DataAt(stream, t))
    BY <1>2, UnitsOfSize
  <2> QED
    BY <1>1, <2>1
<1>8. DecodedPopped(more, stream, now)
  <2>1. DecodedPopped(frames, stream, now)
    <3>1. last <= now
      <4>1. StartPos \in Nat /\ a \in Nat
        BY HandlerAssumption, HalfSeqAssumption DEF Positive, SeqNumbers, SeqSpan
      <4> QED
        BY <4>1
    <3> QED
      BY <3>1, PoppedFurther
  <2>2. more \in Seq(Media)
    BY <1>4, <1>5
  <2>3. ASSUME NEW i \in DOMAIN more
        PROVE  \E j \in DOMAIN stream : stream[j].ts = more[i].ts /\ stream[j].id <= now
    <3>1. CASE i \in DOMAIN frames
      <4>1. more[i] = frames[i]
        BY <1>4, <1>5, <3>1
      <4> QED
        BY <2>1, <3>1, <4>1, Zenon DEF DecodedPopped
    <3>2. CASE i \notin DOMAIN frames
      <4>1. more[i] = f
        BY <1>4, <1>5, <3>2
      <4>2. stream[a].id <= now
        BY <1>2 DEF Placed
      <4> QED
        BY <1>1, <1>2, <1>4, <4>1, <4>2
    <3> QED
      BY <3>1, <3>2
  <2> QED
    BY <2>2, <2>3 DEF DecodedPopped
<1> QED
  BY <1>2, <1>6, <1>7, <1>8, <1>9, Zenon DEF DeliversNext


LEMMA ReceiveDelivers ==
  ASSUME FirstSeqAheadOfZero, FirstCycle, DeliveryInv,
         NEW s \in Ssrcs, NEW i \in DOMAIN sent[s],
         InReach(s, sent[s][i]), Receive(s, sent[s][i]),
         NEW now, now = Info(VideoSsrc)'.rcv.lastPopped
  PROVE  /\ DecodedPopped(decoded', sent[VideoSsrc], now)
         /\ decoded' = decoded \/ DeliversNext(sent[VideoSsrc], decoded, decoded')
<1>1. PICK stream, last, v : /\ stream = sent[VideoSsrc] /\ v = VideoSsrc
                             /\ last = Info(VideoSsrc).rcv.lastPopped
  BY Zenon
<1>2. /\ OneFrameInv /\ WellFormed(stream) /\ FramesNumbered(stream)
      /\ DecodedPopped(decoded, stream, last)
  BY <1>1, Zenon DEF DeliveryInv
<1>3. Placed(stream) /\ LaidOut(stream) /\ last \in Int
  <2>1. VideoSsrc \in Ssrcs
    BY DEF Ssrcs
  <2> QED
    BY <1>1, <1>2, <2>1, InfoFacts DEF OneFrameInv, VideoLaidOut
<1>4. TypeOK
  BY <1>2 DEF OneFrameInv, PoppedInv, ExactInv
<1>5. /\ s = v => Info(v)' = ssrcInfoMap'[v]
      /\ s # v => Info(v)' = Info(v)
  BY <1>1, <1>4, InfoAfter
<1>6. s # v => now = last
  BY <1>1, <1>5, Zenon
<1>7. s = v => now = ssrcInfoMap'[s].rcv.lastPopped
  BY <1>1, <1>5, Zenon
<1>8. now \in Int
  <2>1. CASE s = v
    <3>1. TypeOK'
      BY <1>2, ReceiveKeepsPopped DEF OneFrameInv, PoppedInv, ExactInv
    <3>2. s \in Streams'
      <4>1. PICK rcv, unp : StoreInfo(s, sent[s][i], rcv, unp)
        BY HandlerStores DEF Receive
      <4>2. DOMAIN ssrcInfoMap' = DOMAIN ssrcInfoMap \cup {s}
        BY <4>1, StoredInfo
      <4> QED
        BY <4>2 DEF Streams
    <3> QED
      BY <1>7, <2>1, <3>1, <3>2, HalfSeqAssumption DEF TypeOK, SeqNumbers
  <2>2. CASE s # v
    BY <1>3, <1>6, <2>2
  <2> QED
    BY <2>1, <2>2
<1>9. CASE Quiet(s)
  <2>1. last <= now
    <3>1. CASE s = v
      BY <1>1, <1>3, <1>7, <1>8, <1>9, <3>1 DEF Quiet
    <3>2. CASE s # v
      BY <1>3, <1>6, <3>2
    <3> QED
      BY <3>1, <3>2
  <2>2. decoded' = decoded
    BY <1>9 DEF Quiet
  <2>3. DecodedPopped(decoded, stream, now)
    BY <1>2, <1>3, <1>8, <2>1, PoppedFurther
  <2> QED
    BY <1>1, <2>2, <2>3
<1>10. CASE s = VideoSsrc /\ DumpsSome(i)
  <2>0. PICK a, n, m \in Positive : \E b, u, w : Dumps(stream, u, w, a, n, m, b)
    BY <1>1, <1>10, Zenon DEF DumpsSome
  <2>1. PICK b, u, w : Dumps(stream, u, w, a, n, m, b)
    BY <2>0
  <2>2. /\ IsFrame(stream, a, n, m) /\ b = StartPos + a - 1 /\ b > last
        /\ now = b + n + m - 1
    <3>1. now = ssrcInfoMap'[VideoSsrc].rcv.lastPopped
      BY <1>1, <1>7, <1>10
    <3> QED
      BY <1>1, <2>1, <3>1, Zenon DEF Dumps
  <2>3. a \in Positive /\ n \in Positive /\ m \in Positive
    BY <2>1
  <2>4. StartPos + a - 1 > last /\ StartPos + a - 1 <= now /\ last <= now
    <3>1. StartPos \in Nat /\ a \in Nat /\ n \in Nat /\ m \in Nat /\ a > 0 /\ n > 0 /\ m > 0
      BY <2>3, HandlerAssumption, HalfSeqAssumption DEF Positive, SeqNumbers, SeqSpan
    <3> QED
      BY <1>3, <2>2, <3>1
  <2>5. CASE decoded' = decoded
    <3>1. DecodedPopped(decoded, stream, now)
      BY <1>2, <1>3, <1>8, <2>4, PoppedFurther
    <3> QED
      BY <1>1, <2>5, <3>1
  <2>6. CASE \E f : /\ decoded' = Append(decoded, f)
                    /\ WellFormed(stream)
                         => Built(f, stream[a].ts, Units(DataAt(stream, stream[a].ts)))
    <3>1. PICK f : /\ decoded' = Append(decoded, f)
                   /\ Built(f, stream[a].ts, Units(DataAt(stream, stream[a].ts)))
      BY <1>2, <2>6
    <3>2. PICK frames, more : frames = decoded /\ more = decoded'
      OBVIOUS
    <3>3. DecodedPopped(frames, stream, last) /\ more = Append(frames, f)
      BY <1>2, <3>1, <3>2
    <3>4. DecodedPopped(more, stream, now) /\ DeliversNext(stream, frames, more)
      BY <1>2, <1>3, <1>8, <2>2, <2>3, <2>4, <3>1, <3>3, FrameDelivered
    <3> QED
      BY <1>1, <3>2, <3>4
  <2> QED
    BY <2>1, <2>5, <2>6, Zenon DEF Dumps
<1> QED
  BY <1>2, <1>9, <1>10, ReceiveDumps

LEMMA InitDelivers == Init => DeliveryInv /\ FD!Init
<1> SUFFICES ASSUME Init PROVE DeliveryInv /\ FD!Init
  OBVIOUS
<1>1. PICK none : none = << >>
  OBVIOUS
<1>2. sent[VideoSsrc] = none /\ decoded = none /\ DOMAIN none = {}
  BY <1>1 DEF Init, Ssrcs
<1>3. LatestTs(none) = 0
  BY <1>1 DEF LatestTs
<1>4. WellFormed(none) /\ FramesNumbered(none)
  BY <1>2, <1>3 DEF WellFormed, FramesNumbered
<1>5. \A last : DecodedPopped(none, none, last)
  <2>1. none \in Seq(Media)
    BY <1>1
  <2> QED
    BY <1>2, <2>1 DEF DecodedPopped
<1>6. DeliveryInv
  BY <1>2, <1>4, <1>5, InitOneFrame, Zenon DEF DeliveryInv
<1>7. FrameUnits = << >>
  <2>1. FrameUnits = UnitsOf(none)
    BY <1>2, FrameUnitsAre
  <2>2. DOMAIN UnitsOf(none) = {}
    BY <1>3 DEF UnitsOf
  <2>3. UnitsOf(none) = << >>
    BY <1>3 DEF UnitsOf
  <2> QED
    BY <2>1, <2>3
<1>8. Delivered(decoded) = << >>
  BY <1>2 DEF Delivered
<1> QED
  BY <1>6, <1>7, <1>8, Zenon DEF FD!Init, Delivered

LEMMA NextDelivers ==
  ASSUME FirstSeqAheadOfZero, ShapesFit, PayloadsFit
  PROVE  DeliveryInv /\ FirstCycle /\ [Next]_vars
           => DeliveryInv' /\ [FD!Next]_(FD!vars)
<1> SUFFICES ASSUME DeliveryInv, FirstCycle, [Next]_vars
             PROVE  DeliveryInv' /\ [FD!Next]_(FD!vars)
  OBVIOUS
<1>1. PICK stream, now, newer : /\ stream = sent[VideoSsrc] /\ now = sent'[VideoSsrc]
                                /\ newer = Info(VideoSsrc)'.rcv.lastPopped
  BY Zenon
<1>2. /\ OneFrameInv /\ WellFormed(stream) /\ FramesNumbered(stream)
      /\ DecodedPopped(decoded, stream, Info(VideoSsrc).rcv.lastPopped)
  BY <1>1, Zenon DEF DeliveryInv
<1>3. OneFrameInv' /\ TypeOK /\ stream \in Seq(Packets) /\ VideoLaidOut
  BY <1>1, <1>2, NextKeepsOneFrame DEF OneFrameInv, PoppedInv, ExactInv, TypeOK, Ssrcs
<1>4. /\ FrameUnits = UnitsOf(stream) /\ FrameUnits' = UnitsOf(now)
  BY <1>1, FrameUnitsAre
<1>5. ASSUME WellFormed(now), FramesNumbered(now), DecodedPopped(decoded', now, newer)
      PROVE  DeliveryInv'
  <2>1. /\ now = sent'[VideoSsrc] /\ newer = Info(VideoSsrc)'.rcv.lastPopped
    BY <1>1
  <2>2. WellFormed(sent[VideoSsrc])'
    BY <1>5, <2>1
  <2>3. FramesNumbered(sent[VideoSsrc])'
    BY <1>5, <2>1
  <2>4. DecodedPopped(decoded, sent[VideoSsrc], Info(VideoSsrc).rcv.lastPopped)'
    BY <1>5, <2>1
  <2> QED
    BY <1>3, <2>2, <2>3, <2>4, Zenon DEF DeliveryInv
<1>6. CASE SendFrame
  <2>1. PICK shape \in FrameShapes : Extends(now, stream, shape, LatestTs(stream) + 1)
    BY <1>1, <1>3, <1>6, FrameExtends
  <2>2. decoded' = decoded /\ ssrcInfoMap' = ssrcInfoMap
    BY <1>6 DEF SendFrame, handlerVars
  <2>3. WellFormed(now) /\ FramesNumbered(now)
    <3>1. PICK ts : ts = LatestTs(stream) + 1
      OBVIOUS
    <3> QED
      BY <1>2, <1>3, <2>1, <3>1, WellFormedExtended, NumberedExtended
  <2>4. newer = Info(VideoSsrc).rcv.lastPopped
    BY <1>1, <2>2, Zenon DEF Info, NewSSRCInfo
  <2>5. DecodedPopped(decoded, now, newer)
    <3> SUFFICES ASSUME NEW i \in DOMAIN decoded
                 PROVE  \E j \in DOMAIN now : now[j].ts = decoded[i].ts /\ now[j].id <= newer
      BY <1>2, Zenon DEF DecodedPopped
    <3>1. PICK j \in DOMAIN stream : stream[j].ts = decoded[i].ts /\ stream[j].id <= newer
      BY <1>2, <2>4, Zenon DEF DecodedPopped
    <3>2. j \in DOMAIN now /\ now[j] = stream[j]
      BY <2>1, <3>1, Zenon DEF Extends
    <3> QED
      BY <3>1, <3>2
  <2>6. FD!Produce
    <3>1. /\ Len(UnitsOf(now)) = Len(UnitsOf(stream)) + 1
          /\ \A t \in DOMAIN UnitsOf(stream) : UnitsOf(now)[t] = UnitsOf(stream)[t]
      BY <1>2, <1>3, <2>1, FrameProduced
    <3> QED
      BY <1>4, <2>2, <3>1, Zenon DEF FD!Produce
  <2> QED
    BY <1>5, <2>2, <2>3, <2>5, <2>6, Zenon DEF FD!Next
<1>7. CASE SendAudio \/ UNCHANGED vars
  <2>1. now = stream /\ decoded' = decoded /\ ssrcInfoMap' = ssrcInfoMap
    BY <1>1, <1>3, <1>7, HandlerAssumption
       DEF SendAudio, TypeOK, Ssrcs, vars, handlerVars
  <2>2. newer = Info(VideoSsrc).rcv.lastPopped
    BY <1>1, <2>1, Zenon DEF Info, NewSSRCInfo
  <2>3. FrameUnits' = FrameUnits
    BY <1>4, <2>1
  <2>4. UNCHANGED FD!vars
    BY <2>1, <2>3, Zenon DEF FD!vars
  <2> QED
    BY <1>2, <1>5, <2>1, <2>2, <2>4, Zenon
<1>8. CASE ReceiveAny
  <2>1. PICK s \in Ssrcs : \E i \in DOMAIN sent[s] :
          InReach(s, sent[s][i]) /\ Receive(s, sent[s][i])
    BY <1>8 DEF ReceiveAny
  <2>2. now = stream
    BY <1>1, <2>1 DEF Receive
  <2>3. /\ DecodedPopped(decoded', stream, newer)
        /\ decoded' = decoded \/ DeliversNext(stream, decoded, decoded')
    BY <1>1, <2>1, ReceiveDelivers
  <2>4. DeliveryInv'
    BY <1>2, <1>5, <2>2, <2>3
  <2>5. FrameUnits' = FrameUnits
    BY <1>4, <2>2
  <2>6. CASE decoded' = decoded
    <3>1. UNCHANGED FD!vars
      BY <2>5, <2>6, Zenon DEF FD!vars
    <3> QED
      BY <2>4, <3>1
  <2>7. CASE DeliversNext(stream, decoded, decoded')
    <3>1. PICK t \in 1 .. LatestTs(stream) :
            /\ \A i \in DOMAIN decoded : decoded[i].ts < t
            /\ Delivered(decoded')
                 = Append(Delivered(decoded), << t, UnitsOf(stream)[t] >>)
      BY <2>7 DEF DeliversNext
    <3>2. Len(FrameUnits) = LatestTs(stream) /\ LatestTs(stream) \in Nat
      BY <1>3, <1>4, UnitsOfSize, LatestIsNat
    <3>3. FD!LastNumber \in 0 .. t - 1
      <4>1. PICK d : d = Delivered(decoded)
        OBVIOUS
      <4>2. decoded \in Seq(Media) /\ t \in Nat \ {0}
        BY <1>2, <3>1, <3>2 DEF DecodedPopped
      <4>3. FD!LastNumber = IF d = << >> THEN 0 ELSE d[Len(d)][1]
        <5>1. FD!LastNumber
                = IF Delivered(decoded) = << >> THEN 0
                  ELSE Delivered(decoded)[Len(Delivered(decoded))][1]
          BY DEF FD!LastNumber, Delivered
        <5> QED
          BY <4>1, <5>1
      <4>4. CASE d = << >>
        BY <4>2, <4>3, <4>4
      <4>5. CASE d # << >>
        <5>1. PICK k : k = Len(decoded)
          OBVIOUS
        <5>2. /\ DOMAIN d = 1 .. k /\ Len(d) = k /\ k \in Nat
              /\ \A i \in 1 .. k : d[i] = << decoded[i].ts, OwnUnits(decoded[i]) >>
          BY <4>1, <4>2, <5>1, DeliveredAre
        <5>3. k # 0
          <6> SUFFICES ASSUME k = 0 PROVE FALSE
            OBVIOUS
          <6>1. DOMAIN decoded = {}
            BY <4>2, <5>1
          <6>2. d = << >>
            BY <4>1, <6>1 DEF Delivered
          <6> QED
            BY <4>5, <6>2
        <5>4. k \in 1 .. k /\ k \in DOMAIN decoded /\ decoded[k] \in Media
          BY <4>2, <5>1, <5>2, <5>3
        <5>5. d[k][1] = decoded[k].ts
          BY <5>2, <5>4
        <5>6. decoded[k].ts \in Nat /\ decoded[k].ts < t
          BY <3>1, <5>4 DEF Media
        <5> QED
          BY <4>2, <4>3, <4>5, <5>2, <5>5, <5>6
      <4> QED
        BY <4>4, <4>5
    <3>4. t \in FD!LastNumber + 1 .. Len(FrameUnits)
      <4>1. PICK x, y : x = FD!LastNumber /\ y = Len(FrameUnits)
        OBVIOUS
      <4>2. t \in x + 1 .. y
        BY <3>1, <3>2, <3>3, <4>1
      <4> QED
        BY <4>1, <4>2, Zenon
    <3>5. Delivered(decoded') = Append(Delivered(decoded), << t, FrameUnits[t] >>)
      BY <1>4, <3>1
    <3>6. FD!Deliver
      BY <2>5, <3>4, <3>5, Zenon DEF FD!Deliver, Delivered
    <3> QED
      BY <2>4, <3>6, Zenon DEF FD!Next
  <2> QED
    BY <2>3, <2>6, <2>7
<1> QED
  BY <1>6, <1>7, <1>8 DEF Next

(* The receive path implements FrameDelivery, over the first cycle of the  *)
(* sequence numbers: whatever the network loses, repeats or reorders, the  *)
(* decoder is handed frames of the peer, each once, in order and with      *)
(* exactly the NAL units it was sent with, none lost and none of another   *)
(* frame.                                                                  *)
THEOREM ImplementsFrameDelivery ==
  ASSUME FirstSeqAheadOfZero, ShapesFit, PayloadsFit
  PROVE  Spec /\ []FirstCycle => DeliversFrames
BY InitDelivers, NextDelivers, PTL DEF Spec, DeliversFrames, FD!Spec


-----------------------------------------------------------------------------
(* IdrCarriesParams. *)

(* Whoever finds an IDR slice in the units finds both parameter sets       *)
(* before it, if the units start with one of the three.                    *)
Opens(units) == units[1][1] \in {"idr", "sps", "pps"}

CarriesParams(units) ==
  \A n \in DOMAIN units :
    units[n][1] = "idr" /\ Opens(units)
      => {"sps", "pps"} \subseteq {units[m][1] : m \in 1 .. n - 1}

(* The peer sends the two parameter sets together: a frame that opens with *)
(* one of them has both before its first IDR slice.                        *)
ParamsTogether ==
  \A ts \in 1 .. LastTs(VideoSsrc) :
    FrameUnits[ts] # << >> /\ FrameUnits[ts][1][1] # "idr" => CarriesParams(FrameUnits[ts])

(* Every frame decoded is built from the units it was sent with. *)
BuiltFrom(frames, stream) ==
  \A i \in DOMAIN frames :
    \E t \in 1 .. LatestTs(stream) : Built(frames[i], t, UnitsOf(stream)[t])

BuiltInv == DeliveryInv /\ BuiltFrom(decoded, sent[VideoSsrc])

LEMMA BuiltCarries ==
  ASSUME NEW f, NEW ts, NEW own, Built(f, ts, own),
         own # << >> /\ own[1][1] # "idr" => CarriesParams(own)
  PROVE  CarriesParams(f.rawData)
<1>1. PICK pre, isI : /\ InFront(pre, isI)
                      /\ f = [ts |-> ts, rawData |-> Joined(pre, own), bIFrame |-> isI]
                      /\ pre = << >> /\ own # << >> => own[1][1] # "idr"
  BY DEF Built
<1>2. own \in Seq(NalUnits)
  BY DEF Built
<1>3. PICK raw : raw = Joined(pre, own)
  OBVIOUS
<1>4. f.rawData = raw
  BY <1>1, <1>3
<1>5. CASE pre = << >>
  <2>1. raw = own
    BY <1>2, <1>3, <1>5, JoinedEmpty
  <2>2. CASE own = << >>
    BY <1>4, <2>1, <2>2 DEF CarriesParams
  <2>3. CASE own # << >>
    BY <1>1, <1>4, <1>5, <2>1, <2>3
  <2> QED
    BY <2>2, <2>3
<1>6. CASE \E s, p \in Int : pre = ParamSets(s, p)
  <2>1. PICK s \in Int, p \in Int : pre = ParamSets(s, p)
    BY <1>6
  <2>2. /\ pre \in Seq(NalUnits) /\ Len(pre) = 2
        /\ pre[1] = << "sps", s >> /\ pre[2] = << "pps", p >>
    BY <2>1, ParamSetsAre
  <2>3. raw = pre \o own
    BY <1>3, Zenon DEF Joined
  <2>4. raw[1] = pre[1] /\ raw[2] = pre[2] /\ raw \in Seq(NalUnits)
    <3>1. pre \in Seq(NalUnits) /\ Len(pre) = 2 /\ own \in Seq(NalUnits)
      BY <1>2, <2>2
    <3>2. pre \o own \in Seq(NalUnits)
      BY <3>1
    <3>3. /\ 1 \in 1 .. Len(pre) + Len(own) /\ 1 <= Len(pre)
          /\ 2 \in 1 .. Len(pre) + Len(own) /\ 2 <= Len(pre)
      <4>1. Len(own) \in Nat
        BY <3>1
      <4> QED
        BY <3>1, <4>1
    <3>4. (pre \o own)[1] = pre[1] /\ (pre \o own)[2] = pre[2]
      <4>1. \A i \in 1 .. Len(pre) + Len(own) :
              (pre \o own)[i] = IF i <= Len(pre) THEN pre[i] ELSE own[i - Len(pre)]
        BY <3>1, ConcatProperties
      <4> QED
        BY <3>3, <4>1
    <3> QED
      BY <2>3, <3>2, <3>4
  <2>5. raw[1][1] = "sps" /\ raw[2][1] = "pps"
    BY <2>2, <2>4
  <2> SUFFICES ASSUME NEW n \in DOMAIN raw, raw[n][1] = "idr"
               PROVE  {"sps", "pps"} \subseteq {raw[m][1] : m \in 1 .. n - 1}
    BY <1>4 DEF CarriesParams
  <2>6. n # 1 /\ n # 2
    BY <2>5
  <2>7. n \in Nat /\ n >= 1
    BY <2>4
  <2>8. 1 \in 1 .. n - 1 /\ 2 \in 1 .. n - 1
    BY <2>6, <2>7
  <2> QED
    BY <2>5, <2>8
<1> QED
  BY <1>1, <1>5, <1>6 DEF InFront

LEMMA NextKeepsBuilt ==
  ASSUME FirstSeqAheadOfZero, ShapesFit, PayloadsFit
  PROVE  BuiltInv /\ FirstCycle /\ [Next]_vars => BuiltInv'
<1> SUFFICES ASSUME BuiltInv, FirstCycle, [Next]_vars PROVE BuiltInv'
  OBVIOUS
<1>1. PICK stream, now : stream = sent[VideoSsrc] /\ now = sent'[VideoSsrc]
  OBVIOUS
<1>2. /\ DeliveryInv /\ FramesNumbered(stream) /\ BuiltFrom(decoded, stream)
      /\ decoded \in Seq(Media)
  BY <1>1, Zenon DEF BuiltInv, DeliveryInv, DecodedPopped
<1>3. /\ DeliveryInv' /\ TypeOK /\ stream \in Seq(Packets) /\ VideoLaidOut
  BY <1>1, <1>2, NextDelivers
     DEF DeliveryInv, OneFrameInv, PoppedInv, ExactInv, TypeOK, Ssrcs
<1>4. ASSUME BuiltFrom(decoded', now) PROVE BuiltInv'
  <2>1. now = sent'[VideoSsrc]
    BY <1>1
  <2>2. BuiltFrom(decoded, sent[VideoSsrc])'
    BY <1>4, <2>1
  <2> QED
    BY <1>3, <2>2, Zenon DEF BuiltInv
<1>5. CASE SendFrame
  <2>1. PICK shape \in FrameShapes : Extends(now, stream, shape, LatestTs(stream) + 1)
    BY <1>1, <1>3, <1>5, FrameExtends
  <2>2. decoded' = decoded
    BY <1>5 DEF SendFrame, handlerVars
  <2>3. LatestTs(now) = LatestTs(stream) + 1 /\ now \in Seq(Packets)
    <3>1. PICK ts : ts = LatestTs(stream) + 1
      OBVIOUS
    <3>2. now \in Seq(Packets)
      BY <2>1, Zenon DEF Extends
    <3> QED
      BY <1>2, <1>3, <2>1, <3>1, <3>2, NumberedExtended
  <2>4. ASSUME NEW i \in DOMAIN decoded
        PROVE  \E t \in 1 .. LatestTs(now) : Built(decoded[i], t, UnitsOf(now)[t])
    <3>1. PICK t \in 1 .. LatestTs(stream) : Built(decoded[i], t, UnitsOf(stream)[t])
      BY <1>2 DEF BuiltFrom
    <3>2. t \in DOMAIN UnitsOf(stream) /\ t \in 1 .. LatestTs(now)
      BY <1>3, <2>3, LatestIsNat, UnitsOfSize
    <3>3. UnitsOf(now)[t] = UnitsOf(stream)[t]
      BY <1>2, <1>3, <2>1, <3>2, FrameProduced
    <3> QED
      BY <3>1, <3>2, <3>3
  <2> QED
    BY <1>4, <2>2, <2>4 DEF BuiltFrom
<1>6. CASE SendAudio \/ UNCHANGED vars
  <2>1. now = stream /\ decoded' = decoded
    BY <1>1, <1>3, <1>6, HandlerAssumption
       DEF SendAudio, TypeOK, Ssrcs, vars, handlerVars
  <2> QED
    BY <1>2, <1>4, <2>1
<1>7. CASE ReceiveAny
  <2>1. PICK s \in Ssrcs : \E i \in DOMAIN sent[s] :
          InReach(s, sent[s][i]) /\ Receive(s, sent[s][i])
    BY <1>7 DEF ReceiveAny
  <2>2. now = stream
    BY <1>1, <2>1 DEF Receive
  <2>3. PICK last : last = Info(VideoSsrc)'.rcv.lastPopped
    OBVIOUS
  <2>4. decoded' = decoded \/ DeliversNext(stream, decoded, decoded')
    BY <1>1, <1>2, <2>1, <2>3, ReceiveDelivers
  <2>5. CASE decoded' = decoded
    BY <1>2, <1>4, <2>2, <2>5
  <2>6. CASE DeliversNext(stream, decoded, decoded')
    <3>0. PICK t \in 1 .. LatestTs(stream) :
            \E f : decoded' = Append(decoded, f) /\ Built(f, t, UnitsOf(stream)[t])
      BY <2>6, Zenon DEF DeliversNext
    <3>1. PICK f : decoded' = Append(decoded, f) /\ Built(f, t, UnitsOf(stream)[t])
      BY <3>0
    <3>2. PICK frames, more : frames = decoded /\ more = decoded'
      OBVIOUS
    <3>3. ASSUME NEW i \in DOMAIN more
          PROVE  \E x \in 1 .. LatestTs(stream) : Built(more[i], x, UnitsOf(stream)[x])
      <4>1. more = Append(frames, f) /\ frames \in Seq(Media)
        BY <1>2, <3>1, <3>2
      <4>2. CASE i \in DOMAIN frames
        <5>1. more[i] = frames[i]
          BY <4>1, <4>2
        <5>2. BuiltFrom(frames, stream)
          BY <1>2, <3>2
        <5> QED
          BY <4>2, <5>1, <5>2, Zenon DEF BuiltFrom
      <4>3. CASE i \notin DOMAIN frames
        <5>1. more[i] = f
          BY <4>1, <4>3
        <5> QED
          BY <3>1, <5>1, Zenon
      <4> QED
        BY <4>2, <4>3
    <3>4. BuiltFrom(more, stream)
      BY <3>3, Zenon DEF BuiltFrom
    <3> QED
      BY <1>4, <2>2, <3>2, <3>4
  <2> QED
    BY <2>4, <2>5, <2>6
<1> QED
  BY <1>5, <1>6, <1>7 DEF Next

(* The decoder can start at every key frame it is handed, over the first   *)
(* cycle of the sequence numbers, if the peer puts SPS and PPS together    *)
(* into a frame or neither: "add SPS, PPS before I frame"                  *)
(* (rtp_to_h264.cc:109) then leaves no IDR slice without them.             *)
THEOREM KeyFramesDecodable ==
  ASSUME FirstSeqAheadOfZero, ShapesFit, PayloadsFit
  PROVE  Spec /\ []FirstCycle /\ []ParamsTogether => []IdrCarriesParams
<1>1. BuiltInv /\ ParamsTogether => IdrCarriesParams
  <2> SUFFICES ASSUME BuiltInv, ParamsTogether, NEW i \in DOMAIN decoded
               PROVE  CarriesParams(decoded[i].rawData)
    BY Zenon DEF IdrCarriesParams, CarriesParams, Opens
  <2>1. PICK t \in 1 .. LatestTs(sent[VideoSsrc]) :
          Built(decoded[i], t, UnitsOf(sent[VideoSsrc])[t])
    BY Zenon DEF BuiltInv, BuiltFrom
  <2>2. PICK own : own = FrameUnits[t]
    OBVIOUS
  <2>3. Built(decoded[i], t, own)
    BY <2>1, <2>2, FrameUnitsAre
  <2>4. own # << >> /\ own[1][1] # "idr" => CarriesParams(own)
    BY <2>1, <2>2, FrameUnitsAre DEF ParamsTogether
  <2> QED
    BY <2>3, <2>4, BuiltCarries
<1>2. Init => BuiltInv
  <2> SUFFICES ASSUME Init PROVE BuiltInv
    OBVIOUS
  <2>1. DOMAIN decoded = {}
    BY DEF Init
  <2> QED
    BY <2>1, InitDelivers DEF BuiltInv, BuiltFrom
<1> QED
  BY <1>1, <1>2, NextKeepsBuilt, PTL DEF Spec

=============================================================================
