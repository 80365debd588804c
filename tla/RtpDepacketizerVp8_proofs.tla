--------------------- MODULE RtpDepacketizerVp8_proofs ----------------------
(***************************************************************************)
(* Theorems about the VP8 depacketizer, for every number space, buffer     *)
(* size, frame length and length of the stream.                            *)
(***************************************************************************)
EXTENDS RtpDepacketizerVp8, SeqNum_proofs, TLAPS

-----------------------------------------------------------------------------
(* Arithmetic and sequences. *)

LEMMA SmallMod ==
  ASSUME NEW x \in Nat, x < 2 * SeqSpan
  PROVE  x % SeqSpan = IF x < SeqSpan THEN x ELSE x - SeqSpan
<1>1. SeqSpan \in Nat \ {0}
  BY HalfSeqAssumption DEF SeqSpan
<1>2. QED BY <1>1, Z3

(* If no packet is counted as lost between two places less than the number *)
(* space apart, none is between them.                                      *)
LEMMA NoLossIsNext ==
  ASSUME NEW n \in Nat, NEW i \in Nat, n < i, i < n + SeqSpan,
         ((i % SeqSpan) - (n % SeqSpan) - 1 + SeqSpan) % SeqSpan <= 0
  PROVE  i = n + 1
<1> DEFINE t == i % SeqSpan
           d == i \div SeqSpan
           b == n % SeqSpan
           c == n \div SeqSpan
<1>1. /\ t \in SeqNumbers /\ d \in Nat /\ i = d * SeqSpan + t
      /\ b \in SeqNumbers /\ c \in Nat /\ n = c * SeqSpan + b
  BY PlaceSplits DEF PowerSeq
<1>2. SeqSpan \in Nat \ {0}
  BY HalfSeqAssumption DEF SeqSpan
<1>3. (t - b - 1 + SeqSpan) % SeqSpan <= 0
  OBVIOUS
<1> HIDE DEF t, d, b, c
<1>4. c * SeqSpan \in Nat /\ d * SeqSpan \in Nat
  BY <1>1, <1>2, Z3
<1>5. d = c \/ d = c + 1
  <2>1. CASE d >= c + 2
    <3>1. (c + 2) * SeqSpan <= d * SeqSpan
      BY <2>1, <1>1, SpanTimes
    <3>2. (c + 2) * SeqSpan = c * SeqSpan + 2 * SeqSpan
      BY <1>1, SpanPlus
    <3>3. QED BY <3>1, <3>2, <1>1, <1>2, <1>4 DEF SeqNumbers
  <2>2. CASE d + 1 <= c
    <3>1. (d + 1) * SeqSpan <= c * SeqSpan
      BY <2>2, <1>1, SpanTimes
    <3>2. (d + 1) * SeqSpan = d * SeqSpan + 1 * SeqSpan
      BY <1>1, SpanPlus
    <3>3. QED BY <3>1, <3>2, <1>1, <1>2, <1>4 DEF SeqNumbers
  <2>3. QED BY <2>1, <2>2, <1>1
<1>6. (c + 1) * SeqSpan = c * SeqSpan + 1 * SeqSpan
  BY <1>1, SpanPlus
<1> DEFINE x == t - b - 1 + SeqSpan
<1>7. x \in Nat /\ x < 2 * SeqSpan
  BY <1>1, <1>2 DEF SeqNumbers
<1>8. x % SeqSpan = IF x < SeqSpan THEN x ELSE x - SeqSpan
  BY <1>7, SmallMod
<1>9. CASE d = c
  BY <1>1, <1>2, <1>3, <1>4, <1>8, <1>9 DEF SeqNumbers
<1>10. CASE d = c + 1
  BY <1>1, <1>2, <1>3, <1>4, <1>6, <1>8, <1>10 DEF SeqNumbers
<1>11. QED BY <1>5, <1>9, <1>10

LEMMA SeqGrows ==
  ASSUME NEW A, NEW B, A \subseteq B
  PROVE  Seq(A) \subseteq Seq(B)
OBVIOUS

LEMMA LastOf ==
  ASSUME NEW T, NEW s \in Seq(T), s # << >>
  PROVE  Len(s) \in Nat \ {0} /\ Last(s) = s[Len(s)] /\ Last(s) \in T
BY DEF Last

LEMMA AppendOf ==
  ASSUME NEW T, NEW s \in Seq(T), NEW e
  PROVE  /\ Len(Append(s, e)) = Len(s) + 1 /\ Append(s, e) # << >>
         /\ DOMAIN Append(s, e) = 1 .. Len(s) + 1
         /\ Append(s, e)[Len(s) + 1] = e /\ Last(Append(s, e)) = e
         /\ \A k \in 1 .. Len(s) : Append(s, e)[k] = s[k]
<1>1. Seq(T) \subseteq Seq(T \cup {e})
  BY SeqGrows
<1>2. s \in Seq(T \cup {e}) /\ Len(s) \in Nat
  BY <1>1
<1>3. PICK a : a = Append(s, e)
  OBVIOUS
<1>4. /\ a \in Seq(T \cup {e}) /\ Len(a) = Len(s) + 1 /\ a[Len(s) + 1] = e
      /\ \A k \in 1 .. Len(s) : a[k] = s[k]
  BY <1>2, <1>3
<1>5. a # << >>
  BY <1>2, <1>4
<1>6. Last(a) = e /\ DOMAIN a = 1 .. Len(s) + 1
  BY <1>2, <1>4 DEF Last
<1>7. QED BY <1>3, <1>4, <1>5, <1>6

LEMMA ModIsSeqNumber ==
  ASSUME NEW p \in Nat
  PROVE  p % SeqSpan \in SeqNumbers
BY PlaceSplits

-----------------------------------------------------------------------------
(* The type invariant. *)

LEMMA FramesSentTyped ==
  ASSUME sent \in Seq(Packets)
  PROVE  FramesSent \in Nat
<1>1. CASE sent = << >>
  BY <1>1 DEF FramesSent
<1>2. CASE sent # << >>
  <2>1. sent[Len(sent)] \in Packets
    BY <1>2
  <2>2. QED BY <1>2, <2>1 DEF FramesSent, Last, Packets
<1>3. QED BY <1>1, <1>2

Fresh(p, i) == p.seq = i % SeqSpan /\ p.kind \in {"data"} \cup Fillers

(* What the peer does: packets are added at the end, numbered by place.    *)
LEMMA SendSteps ==
  ASSUME TypeOK, SendFrame \/ SendFiller
  PROVE  /\ sent' \in Seq(Packets)
         /\ DOMAIN sent \subseteq DOMAIN sent'
         /\ \A i \in DOMAIN sent : sent'[i] = sent[i]
         /\ \A i \in DOMAIN sent' : sent'[i].id = i
         /\ \A i \in DOMAIN sent' : i \in DOMAIN sent \/ Fresh(sent'[i], i)
         /\ UNCHANGED << taken, newest, vp8Vars >>
<1>1. sent \in Seq(Packets) /\ Len(sent) \in Nat /\ DOMAIN sent = 1 .. Len(sent)
      /\ \A i \in DOMAIN sent : sent[i].id = i
  BY DEF TypeOK
<1>2. FramesSent \in Nat
  BY <1>1, FramesSentTyped
<1>3. CASE SendFrame
  <2>1. PICK n \in FrameLengths, isKey \in BOOLEAN :
          sent' = sent \o FramePackets(n, isKey)
    BY <1>3 DEF SendFrame
  <2> DEFINE F == FramePackets(n, isKey)
  <2>2. n \in Nat \ {0}
    BY Vp8Assumption
  <2>3. ASSUME NEW i \in 1 .. n
        PROVE  /\ F[i] \in Packets /\ F[i].id = Len(sent) + i
               /\ Fresh(F[i], Len(sent) + i)
    <3>1. Len(sent) + i \in Nat /\ (Len(sent) + i) % SeqSpan \in SeqNumbers
      BY <1>1, <2>2, ModIsSeqNumber
    <3>2. QED BY <1>2, <2>2, <3>1 DEF FramePackets, Packets, Fresh
  <2>4. F \in Seq(Packets) /\ Len(F) = n
    <3>1. F \in [1 .. n -> Packets]
      BY <2>3 DEF FramePackets
    <3>2. QED BY <2>2, <3>1
  <2>5. sent' = sent \o F
    BY <2>1
  <2>6. UNCHANGED << taken, newest, vp8Vars >>
    BY <1>3 DEF SendFrame
  <2> HIDE DEF F
  <2>7. /\ sent' \in Seq(Packets) /\ DOMAIN sent' = 1 .. Len(sent) + n
        /\ \A i \in DOMAIN sent : sent'[i] = sent[i]
    <3>1. Len(F) = n /\ F \in Seq(Packets) /\ sent \in Seq(Packets)
      BY <1>1, <2>4
    <3>2. sent \o F \in Seq(Packets) /\ Len(sent \o F) = Len(sent) + n
      BY <1>1, <2>2, <3>1
    <3>3. \A i \in 1 .. Len(sent) : (sent \o F)[i] = sent[i]
      BY <1>1, <2>2, <3>1
    <3>4. QED BY <1>1, <2>5, <3>2, <3>3
  <2>8. ASSUME NEW i \in DOMAIN sent', i \notin DOMAIN sent
        PROVE  sent'[i].id = i /\ Fresh(sent'[i], i)
    <3>1. /\ i - Len(sent) \in 1 .. n /\ Len(sent) + (i - Len(sent)) = i
          /\ sent'[i] = F[i - Len(sent)]
      BY <1>1, <2>2, <2>4, <2>5, <2>7, <2>8
    <3>2. QED BY <2>3, <3>1
  <2>9. QED BY <1>1, <2>2, <2>6, <2>7, <2>8
<1>4. CASE SendFiller
  <2>1. PICK k \in Fillers :
          sent' = Append(sent,
                    [id |-> Len(sent) + 1, seq |-> (Len(sent) + 1) % SeqSpan,
                     kind |-> k, first |-> k = "short", key |-> k = "short",
                     marker |-> FALSE, frame |-> FramesSent])
    BY <1>4 DEF SendFiller
  <2> DEFINE p == [id |-> Len(sent) + 1, seq |-> (Len(sent) + 1) % SeqSpan,
                   kind |-> k, first |-> k = "short", key |-> k = "short",
                   marker |-> FALSE, frame |-> FramesSent]
  <2>2. p \in Packets /\ p.id = Len(sent) + 1 /\ Fresh(p, Len(sent) + 1)
    <3>1. k \in FillerKinds
      BY Vp8Assumption
    <3>2. (Len(sent) + 1) % SeqSpan \in SeqNumbers
      BY <1>1, ModIsSeqNumber
    <3>3. QED BY <1>1, <1>2, <3>1, <3>2 DEF Packets, Fresh
  <2>3. sent' = Append(sent, p)
    BY <2>1
  <2>4. UNCHANGED << taken, newest, vp8Vars >>
    BY <1>4 DEF SendFiller
  <2> HIDE DEF p
  <2>5. /\ sent' \in Seq(Packets) /\ DOMAIN sent' = 1 .. Len(sent) + 1
        /\ \A i \in DOMAIN sent : sent'[i] = sent[i]
        /\ sent'[Len(sent) + 1] = p
    BY <1>1, <2>2, <2>3
  <2>6. QED BY <1>1, <2>2, <2>4, <2>5
<1>5. QED BY <1>3, <1>4

LEMMA InitTyped == Init => TypeOK
<1>1. /\ << >> \in Seq(Packets) /\ DOMAIN << >> = {}
      /\ << >> \in Seq({}) /\ << >> \in Seq(Seq({}))
  OBVIOUS
<1>2. ASSUME Init
      PROVE  TypeOK
  <2>1. /\ sent \in Seq(Packets) /\ DOMAIN sent = {} /\ taken = {} /\ newest = 0
        /\ Vp8RawData \in Seq(taken) /\ decoded \in Seq(Seq(taken))
    BY <1>1, <1>2 DEF Init
  <2>2. /\ PackSeqNo \in SeqNumbers \cup {NoSeq}
        /\ RequestKeyFrame \in BOOLEAN /\ is_key_frame \in BOOLEAN
        /\ sized \in BOOLEAN /\ aborted \in BOOLEAN
        /\ decoder \in {"null", "ready", "broken"}
    BY <1>2 DEF Init
  <2>3. QED BY <2>1, <2>2 DEF TypeOK
<1>3. QED BY <1>2

LEMMA SendKeepsTypes ==
  ASSUME TypeOK, SendFrame \/ SendFiller
  PROVE  TypeOK'
<1>1. /\ sent' \in Seq(Packets)
      /\ DOMAIN sent \subseteq DOMAIN sent'
      /\ \A i \in DOMAIN sent' : sent'[i].id = i
      /\ UNCHANGED << taken, newest, vp8Vars >>
  BY SendSteps
<1>2. QED BY <1>1 DEF TypeOK, vp8Vars

(* What every call has in common. *)
LEMMA PopTakes ==
  ASSUME TypeOK, Pop
  PROVE  \E i \in DOMAIN sent :
           /\ i \in Nat /\ newest < i /\ i <= newest + Reach
           /\ taken' = taken \cup {i} /\ newest' = i /\ sent' = sent
           /\ sent[i] \in Packets /\ sent[i].id = i
           /\ VideoUnPackVp8RtpStm(sent[i])
<1>1. newest \in Nat
  BY DEF TypeOK
<1>2. PICK i \in newest + 1 .. newest + Reach :
        /\ i \in DOMAIN sent
        /\ taken' = taken \cup {i} /\ newest' = i
        /\ VideoUnPackVp8RtpStm(sent[i])
        /\ sent' = sent
  BY DEF Pop
<1>3. i \in Nat /\ newest < i /\ i <= newest + Reach
  BY <1>1, <1>2, Vp8Assumption
<1>4. sent[i] \in Packets /\ sent[i].id = i
  BY <1>2 DEF TypeOK
<1>5. QED BY <1>2, <1>3, <1>4

(* What a call may make of each variable. *)
LEMMA CallChanges ==
  ASSUME NEW p, VideoUnPackVp8RtpStm(p)
  PROVE  /\ PackSeqNo' = PackSeqNo \/ PackSeqNo' = p.seq
         /\ RequestKeyFrame' = RequestKeyFrame \/ RequestKeyFrame' \in BOOLEAN
         /\ is_key_frame' = is_key_frame \/ is_key_frame' \in BOOLEAN
         /\ sized' = sized \/ sized' \in BOOLEAN
         /\ \/ Vp8RawData' = Vp8RawData \/ Vp8RawData' = << >>
            \/ Vp8RawData' = Append(Vp8RawData, p.id)
         /\ decoder' = decoder \/ decoder' \in {"ready", "broken"}
         /\ \/ decoded' = decoded
            \/ decoded' = Append(decoded, Append(Vp8RawData, p.id))
         /\ aborted' = aborted \/ aborted' = TRUE
<1> USE DEF VideoUnPackVp8RtpStm, Padding, EmptyPayload, ShortKeyFrame, AwaitKeyFrame,
         LosePackets, DropFrame, Accept, Abort, MiddleOfFrame, EndOfFrame,
         Accepted, Decodes, DecodeFails
<1>1. PackSeqNo' = PackSeqNo \/ PackSeqNo' = p.seq
  BY Zenon
<1>2. RequestKeyFrame' = RequestKeyFrame \/ RequestKeyFrame' \in BOOLEAN
  BY Zenon
<1>3. is_key_frame' = is_key_frame \/ is_key_frame' \in BOOLEAN
  BY Zenon DEF KeySeen
<1>4. sized' = sized \/ sized' \in BOOLEAN
  BY Zenon
<1>5. \/ Vp8RawData' = Vp8RawData \/ Vp8RawData' = << >>
      \/ Vp8RawData' = Append(Vp8RawData, p.id)
  BY Zenon
<1>6. decoder' = decoder \/ decoder' \in {"ready", "broken"}
  BY Zenon
<1>7. \/ decoded' = decoded
      \/ decoded' = Append(decoded, Append(Vp8RawData, p.id))
  BY Zenon
<1>8. aborted' = aborted \/ aborted' = TRUE
  BY Zenon
<1>9. QED BY <1>1, <1>2, <1>3, <1>4, <1>5, <1>6, <1>7, <1>8, Zenon

LEMMA PopKeepsTypes ==
  ASSUME TypeOK, Pop
  PROVE  TypeOK'
<1>1. PICK i \in DOMAIN sent :
        /\ i \in Nat /\ newest < i /\ i <= newest + Reach
        /\ taken' = taken \cup {i} /\ newest' = i /\ sent' = sent
        /\ sent[i] \in Packets /\ sent[i].id = i
        /\ VideoUnPackVp8RtpStm(sent[i])
  BY PopTakes
<1> DEFINE p == sent[i]
<1>2. p.seq \in SeqNumbers /\ p.id \in taken' /\ VideoUnPackVp8RtpStm(p)
  BY <1>1 DEF Packets
<1>3. Vp8RawData \in Seq(taken') /\ decoded \in Seq(Seq(taken'))
  <2>1. Seq(taken) \subseteq Seq(taken')
    BY <1>1, SeqGrows
  <2>2. Seq(Seq(taken)) \subseteq Seq(Seq(taken'))
    BY <2>1, SeqGrows
  <2>3. QED BY <2>1, <2>2 DEF TypeOK
<1> HIDE DEF p
<1>4. /\ PackSeqNo' \in SeqNumbers \cup {NoSeq}
      /\ decoder' \in {"null", "ready", "broken"}
  BY <1>2, CallChanges DEF TypeOK
<1>5. /\ RequestKeyFrame' \in BOOLEAN /\ is_key_frame' \in BOOLEAN
      /\ sized' \in BOOLEAN /\ aborted' \in BOOLEAN
  BY <1>2, CallChanges, Zenon DEF TypeOK
<1>6. Append(Vp8RawData, p.id) \in Seq(taken')
  BY <1>2, <1>3
<1>7. Vp8RawData' \in Seq(taken')
  <2>1. \/ Vp8RawData' = Vp8RawData \/ Vp8RawData' = << >>
        \/ Vp8RawData' = Append(Vp8RawData, p.id)
    BY <1>2, CallChanges, Zenon
  <2>2. << >> \in Seq(taken')
    OBVIOUS
  <2>3. QED BY <1>3, <1>6, <2>1, <2>2, Zenon
<1>8. decoded' \in Seq(Seq(taken'))
  <2>1. decoded' = decoded \/ decoded' = Append(decoded, Append(Vp8RawData, p.id))
    BY <1>2, CallChanges, Zenon
  <2>2. ASSUME NEW d \in Seq(taken')
        PROVE  Append(decoded, d) \in Seq(Seq(taken'))
    BY <1>3
  <2>3. QED BY <1>3, <1>6, <2>1, <2>2, Zenon
<1>9. taken' \subseteq DOMAIN sent' /\ newest' \in {0} \cup taken'
  BY <1>1 DEF TypeOK
<1>10. sent' \in Seq(Packets) /\ \A j \in DOMAIN sent' : sent'[j].id = j
  BY <1>1 DEF TypeOK
<1>11. QED
  BY <1>4, <1>5, <1>6, <1>7, <1>8, <1>9, <1>10 DEF TypeOK

(* The depacketizer's state has its types whatever is popped. *)
THEOREM TypeCorrect == Spec => []TypeOK
<1>1. ASSUME TypeOK, [Next]_vars
      PROVE  TypeOK'
  <2>1. CASE UNCHANGED vars
    BY <1>1, <2>1 DEF TypeOK, vars, vp8Vars
  <2>2. QED
    BY <1>1, <2>1, SendKeepsTypes, PopKeepsTypes DEF Next
<1>2. QED BY <1>1, InitTyped, PTL DEF Spec

-----------------------------------------------------------------------------
(* What is decoded follows what was decoded before. *)

(* Nothing but padding between frames: no packet is refused without the    *)
(* code noticing.                                                          *)
OnlyPadding == Fillers \subseteq {"padding"}

UpToNewest(a) == a = newest \/ sent[newest].kind = "padding"

Numbered ==
  \A j \in DOMAIN sent :
    sent[j].seq = j % SeqSpan /\ sent[j].kind \in {"data", "padding"}

(* Either a key frame is waited for, with nothing kept, or PackSeqNo is    *)
(* the number of the newest packet, and the last payload accepted is that  *)
(* packet's or hidden behind padding.                                      *)
Linked ==
  /\ RequestKeyFrame => ~is_key_frame /\ Vp8RawData = << >>
  /\ ~RequestKeyFrame =>
       /\ newest \in taken /\ PackSeqNo = newest % SeqSpan
       /\ IF Vp8RawData # << >> THEN UpToNewest(Last(Vp8RawData))
          ELSE decoded # << >> /\ UpToNewest(Last(Last(decoded)))

RunInv ==
  /\ Numbered
  /\ \A j \in taken : j <= newest
  /\ \A n \in DOMAIN decoded : decoded[n] # << >>
  /\ ~aborted => Linked
  /\ RawDataIsRun
  /\ ReferencesDecoded

(* The stream only grows, so what was said of packets taken stays true.    *)
LEMMA SendKeepsNumbered ==
  ASSUME TypeOK, OnlyPadding, Numbered, SendFrame \/ SendFiller
  PROVE  Numbered'
<1>1. /\ \A i \in DOMAIN sent : sent'[i] = sent[i]
      /\ \A i \in DOMAIN sent' : i \in DOMAIN sent \/ Fresh(sent'[i], i)
  BY SendSteps
<1>2. ASSUME NEW i \in DOMAIN sent'
      PROVE  sent'[i].seq = i % SeqSpan /\ sent'[i].kind \in {"data", "padding"}
  <2>1. CASE i \in DOMAIN sent
    BY <1>1, <2>1 DEF Numbered
  <2>2. CASE Fresh(sent'[i], i)
    BY <2>2 DEF Fresh, OnlyPadding
  <2>3. QED BY <1>1, <2>1, <2>2
<1>3. QED BY <1>2 DEF Numbered

LEMMA FollowsStays ==
  ASSUME TypeOK, SendFrame \/ SendFiller
  PROVE  \A a \in taken, b \in taken : Follows(a, b) => Follows(a, b)'
<1>1. DOMAIN sent = 1 .. Len(sent) /\ \A i \in DOMAIN sent : sent'[i] = sent[i]
  BY SendSteps DEF TypeOK
<1>2. ASSUME NEW a \in taken, NEW b \in taken, Follows(a, b)
      PROVE  Follows(a, b)'
  <2>1. a \in DOMAIN sent /\ b \in DOMAIN sent
    BY DEF TypeOK
  <2>2. b = a + 1 \/ b - 1 \in DOMAIN sent
    BY <1>1, <1>2, <2>1 DEF Follows
  <2>3. QED BY <1>1, <1>2, <2>2 DEF Follows
<1>3. QED BY <1>2

LEMMA SendKeepsRun ==
  ASSUME TypeOK, OnlyPadding, RunInv, SendFrame \/ SendFiller
  PROVE  RunInv'
<1>1. /\ \A i \in DOMAIN sent : sent'[i] = sent[i]
      /\ UNCHANGED << taken, newest, vp8Vars >>
  BY SendSteps
<1>2. taken \subseteq DOMAIN sent /\ newest \in {0} \cup taken
      /\ Vp8RawData \in Seq(taken) /\ decoded \in Seq(Seq(taken))
  BY DEF TypeOK
<1>3. /\ taken' = taken /\ newest' = newest /\ decoded' = decoded
      /\ Vp8RawData' = Vp8RawData /\ aborted' = aborted
      /\ PackSeqNo' = PackSeqNo /\ RequestKeyFrame' = RequestKeyFrame
      /\ is_key_frame' = is_key_frame
  BY <1>1 DEF vp8Vars
<1>4. Numbered'
  BY SendKeepsNumbered DEF RunInv
<1>5. ~aborted => Linked'
  BY <1>1, <1>2, <1>3 DEF RunInv, Linked, UpToNewest, Last
<1>6. RawDataIsRun'
  <2>1. ASSUME NEW d \in Range(decoded) \cup {Vp8RawData}, NEW i \in 1 .. Len(d) - 1
        PROVE  Follows(d[i], d[i + 1])'
    <3>1. d \in Seq(taken)
      BY <1>2 DEF Range
    <3>2. d[i] \in taken /\ d[i + 1] \in taken
      BY <3>1
    <3>3. Follows(d[i], d[i + 1])
      BY DEF RunInv, RawDataIsRun
    <3>4. QED BY <3>2, <3>3, FollowsStays
  <2>2. QED BY <1>3, <2>1 DEF RawDataIsRun, Range
<1>7. ASSUME NEW n \in 0 .. Len(decoded), NEW d \in Seq(taken),
             ContinuesPicture(n, d)
      PROVE  ContinuesPicture(n, d)'
  <2>1. CASE d = << >>
    BY <2>1 DEF ContinuesPicture
  <2>2. CASE d # << >>
    <3>1. d[1] \in taken
      BY <2>2
    <3>2. sent'[d[1]] = sent[d[1]]
      BY <1>1, <1>2, <3>1
    <3>3. CASE n = 0
      BY <1>7, <2>2, <3>2, <3>3 DEF ContinuesPicture, StartsKeyFrame
    <3>4. CASE n # 0
      <4>1. decoded[n] \in Seq(taken) /\ decoded[n] # << >>
        BY <1>2, <3>4 DEF RunInv
      <4>2. PICK last \in taken : last = Last(decoded[n])
        BY <4>1 DEF Last
      <4>3. Follows(last, d[1]) => Follows(last, d[1])'
        BY <3>1, FollowsStays
      <4>4. last = Last(decoded'[n])
        BY <1>3, <4>2
      <4>5. last < d[1] /\ (StartsKeyFrame(sent[d[1]]) \/ Follows(last, d[1]))
        BY <1>7, <2>2, <3>4, <4>2 DEF ContinuesPicture
      <4>6. StartsKeyFrame(sent'[d[1]]) \/ Follows(last, d[1])'
        BY <3>2, <4>3, <4>5
      <4>7. QED
        BY <2>2, <3>4, <4>4, <4>5, <4>6 DEF ContinuesPicture, StartsKeyFrame, Follows
    <3>5. QED BY <3>3, <3>4
  <2>3. QED BY <2>1, <2>2
<1>8. ReferencesDecoded'
  <2>1. Len(decoded) \in Nat /\ DOMAIN decoded = 1 .. Len(decoded)
    BY <1>2
  <2>2. ContinuesPicture(Len(decoded), Vp8RawData)
        /\ \A n \in DOMAIN decoded : ContinuesPicture(n - 1, decoded[n])
    BY DEF RunInv, ReferencesDecoded
  <2>3. PICK m \in 0 .. Len(decoded), d \in Seq(taken) :
          m = Len(decoded) /\ d = Vp8RawData
    <3>1. Len(decoded) \in 0 .. Len(decoded)
      BY <2>1
    <3>2. QED BY <1>2, <3>1, Zenon
  <2>4. ContinuesPicture(m, d)'
    BY <1>7, <2>2, <2>3
  <2>5. ASSUME NEW n \in DOMAIN decoded
        PROVE  ContinuesPicture(n - 1, decoded[n])'
    <3>1. PICK e \in Seq(taken) : e = decoded[n]
      BY <1>2
    <3>2. n - 1 \in 0 .. Len(decoded)
      BY <2>1
    <3>3. ContinuesPicture(n - 1, e)'
      BY <1>7, <2>2, <3>1, <3>2
    <3>4. e = decoded'[n]
      BY <1>3, <3>1
    <3>5. QED BY <3>3, <3>4 DEF ContinuesPicture
  <2>6. m = Len(decoded') /\ d = Vp8RawData' /\ DOMAIN decoded' = DOMAIN decoded
    BY <1>3, <2>3
  <2>7. ContinuesPicture(Len(decoded), Vp8RawData)'
    BY <2>4, <2>6 DEF ContinuesPicture
  <2>8. QED BY <2>5, <2>6, <2>7 DEF ReferencesDecoded
<1>9. QED BY <1>3, <1>4, <1>5, <1>6, <1>8 DEF RunInv

(* What a call does to the raw data and the pictures.                      *)
IsRun(d) == \A k \in 1 .. Len(d) - 1 : Follows(d[k], d[k + 1])

LEMMA NothingAdded ==
  ASSUME TypeOK, RawDataIsRun, ReferencesDecoded, sent' = sent, decoded' = decoded,
         Vp8RawData' = Vp8RawData \/ Vp8RawData' = << >>
  PROVE  RawDataIsRun' /\ ReferencesDecoded'
<1>1. RawDataIsRun'
  <2>1. ASSUME NEW d \in Range(decoded') \cup {Vp8RawData'}, NEW k \in 1 .. Len(d) - 1
        PROVE  Follows(d[k], d[k + 1])
    <3>1. d # << >>
      OBVIOUS
    <3>2. d \in Range(decoded) \cup {Vp8RawData}
      BY <3>1 DEF Range
    <3>3. QED BY <3>2 DEF RawDataIsRun
  <2>2. QED BY <2>1 DEF RawDataIsRun, Follows
<1>2. ContinuesPicture(Len(decoded), Vp8RawData)'
  BY DEF ReferencesDecoded, ContinuesPicture, StartsKeyFrame, Follows
<1>3. \A n \in DOMAIN decoded' : ContinuesPicture(n - 1, decoded[n])'
  BY DEF ReferencesDecoded, ContinuesPicture, StartsKeyFrame, Follows
<1>4. QED BY <1>1, <1>2, <1>3 DEF ReferencesDecoded

LEMMA PayloadAdded ==
  ASSUME TypeOK, RawDataIsRun, ReferencesDecoded, NEW e \in Seq(Nat), IsRun(e),
         ContinuesPicture(Len(decoded), e),
         sent' = sent, decoded' = decoded, Vp8RawData' = e
  PROVE  RawDataIsRun' /\ ReferencesDecoded'
<1>1. RawDataIsRun'
  <2>1. ASSUME NEW d \in Range(decoded') \cup {Vp8RawData'}, NEW k \in 1 .. Len(d) - 1
        PROVE  Follows(d[k], d[k + 1])
    <3>1. CASE d = e
      BY <3>1 DEF IsRun
    <3>2. CASE d # e
      <4>1. d \in Range(decoded)
        BY <3>2 DEF Range
      <4>2. QED BY <4>1 DEF RawDataIsRun
    <3>3. QED BY <3>1, <3>2
  <2>2. QED BY <2>1 DEF RawDataIsRun, Follows
<1>2. ContinuesPicture(Len(decoded), Vp8RawData)'
  BY DEF ContinuesPicture, StartsKeyFrame, Follows
<1>3. \A n \in DOMAIN decoded' : ContinuesPicture(n - 1, decoded[n])'
  BY DEF ReferencesDecoded, ContinuesPicture, StartsKeyFrame, Follows
<1>4. QED BY <1>1, <1>2, <1>3 DEF ReferencesDecoded

LEMMA PictureAdded ==
  ASSUME TypeOK, RawDataIsRun, ReferencesDecoded, NEW e \in Seq(Nat), IsRun(e),
         ContinuesPicture(Len(decoded), e),
         sent' = sent, decoded' = Append(decoded, e), Vp8RawData' = << >>
  PROVE  RawDataIsRun' /\ ReferencesDecoded'
<1>1. /\ Len(decoded) \in Nat /\ DOMAIN decoded = 1 .. Len(decoded)
      /\ DOMAIN decoded' = 1 .. Len(decoded) + 1
      /\ \A n \in 1 .. Len(decoded) : decoded'[n] = decoded[n]
      /\ decoded'[Len(decoded) + 1] = e
  <2>1. decoded \in Seq(Seq(taken) \cup {e})
    BY SeqGrows DEF TypeOK
  <2>2. QED BY <2>1
<1>2. RawDataIsRun'
  <2>1. ASSUME NEW d \in Range(decoded') \cup {Vp8RawData'}, NEW k \in 1 .. Len(d) - 1
        PROVE  Follows(d[k], d[k + 1])
    <3>1. CASE d = e
      BY <3>1 DEF IsRun
    <3>2. CASE d # e
      <4>1. d # << >>
        OBVIOUS
      <4>2. PICK n \in DOMAIN decoded' : d = decoded'[n]
        BY <4>1 DEF Range
      <4>3. d \in Range(decoded)
        BY <1>1, <3>2, <4>2 DEF Range
      <4>4. QED BY <4>3 DEF RawDataIsRun
    <3>3. QED BY <3>1, <3>2
  <2>2. QED BY <2>1 DEF RawDataIsRun, Follows
<1>3. ContinuesPicture(Len(decoded), Vp8RawData)'
  BY DEF ContinuesPicture
<1>4. ASSUME NEW n \in DOMAIN decoded'
      PROVE  ContinuesPicture(n - 1, decoded[n])'
  <2>1. ContinuesPicture(n - 1, decoded'[n])
    <3>1. CASE n \in DOMAIN decoded
      BY <1>1, <3>1 DEF ReferencesDecoded
    <3>2. CASE n = Len(decoded) + 1
      <4>1. n - 1 = Len(decoded) /\ decoded'[n] = e
        BY <1>1, <3>2
      <4>2. QED BY <4>1
    <3>3. QED BY <1>1, <3>1, <3>2
  <2>2. n - 1 # 0 => decoded'[n - 1] = decoded[n - 1]
    BY <1>1
  <2>3. QED BY <2>1, <2>2 DEF ContinuesPicture, StartsKeyFrame, Follows
<1>5. QED BY <1>2, <1>3, <1>4 DEF ReferencesDecoded

(* A payload that is accepted continues the frame, or starts the next one  *)
(* where the last picture ended, or starts a key frame.                    *)
LEMMA AcceptedContinues ==
  ASSUME TypeOK, RunInv, ~aborted, NEW i \in DOMAIN sent, i \in Nat,
         newest < i, i <= newest + Reach, sent[i].kind = "data",
         ~WaitsForKey(sent[i]), LostPktCnt(sent[i]) <= 0
  PROVE  /\ IsRun(Append(Vp8RawData, i))
         /\ ContinuesPicture(Len(decoded), Append(Vp8RawData, i))
<1>1. /\ taken \subseteq Nat /\ newest \in Nat /\ SeqSpan \in Nat \ {0}
      /\ Vp8RawData \in Seq(taken) /\ decoded \in Seq(Seq(taken))
      /\ RequestKeyFrame \in BOOLEAN
  BY HalfSeqAssumption DEF TypeOK, SeqSpan
<1>2. /\ Linked /\ \A j \in taken : j <= newest
      /\ \A n \in DOMAIN decoded : decoded[n] # << >>
      /\ sent[i].seq = i % SeqSpan
  BY DEF RunInv, Numbered
<1>3. CASE ~RequestKeyFrame
  <2>1. newest % SeqSpan \in SeqNumbers /\ i % SeqSpan \in SeqNumbers
    BY <1>1, ModIsSeqNumber
  <2>2. PackSeqNo = newest % SeqSpan
    BY <1>2, <1>3 DEF Linked
  <2>3. PackSeqNo # NoSeq
    BY <2>1, <2>2 DEF NoSeq, SeqNumbers
  <2>4. LostPktCnt(sent[i])
          = ((i % SeqSpan) - (newest % SeqSpan) - 1 + SeqSpan) % SeqSpan
    BY <1>2, <1>3, <2>2, <2>3 DEF LostPktCnt
  <2>5. ((i % SeqSpan) - (newest % SeqSpan) - 1 + SeqSpan) % SeqSpan <= 0
    BY <2>4
  <2>6. i < newest + SeqSpan
    BY <1>1, Vp8Assumption
  <2>7. i = newest + 1
    BY <1>1, <2>5, <2>6, NoLossIsNext
  <2>8. ASSUME NEW a \in taken, UpToNewest(a)
        PROVE  Follows(a, i)
    BY <1>1, <1>2, <2>7, <2>8 DEF UpToNewest, Follows
  <2>9. CASE Vp8RawData # << >>
    <3>1. PICK a \in taken : a = Last(Vp8RawData)
      BY <1>1, <2>9, LastOf, Zenon
    <3>2. Follows(a, i)
      BY <1>2, <1>3, <2>8, <2>9, <3>1 DEF Linked
    <3>3. IsRun(Vp8RawData)
      BY DEF RunInv, RawDataIsRun, IsRun
    <3>4. PICK L \in Nat \ {0} : L = Len(Vp8RawData) /\ a = Vp8RawData[L]
      BY <1>1, <2>9, <3>1, LastOf, Zenon
    <3>5. PICK e : e = Append(Vp8RawData, i)
      OBVIOUS
    <3>6. /\ Len(e) = L + 1 /\ e[L + 1] = i /\ e # << >>
          /\ \A k \in 1 .. L : e[k] = Vp8RawData[k]
      BY <1>1, <3>4, <3>5
    <3>7. ASSUME NEW k \in 1 .. Len(e) - 1
          PROVE  Follows(e[k], e[k + 1])
      <4>1. CASE k = L
        BY <3>2, <3>4, <3>6, <4>1
      <4>2. CASE k # L
        BY <3>3, <3>4, <3>6, <4>2 DEF IsRun
      <4>3. QED BY <4>1, <4>2
    <3>8. ContinuesPicture(Len(decoded), Vp8RawData)
      BY DEF RunInv, ReferencesDecoded
    <3>9. ContinuesPicture(Len(decoded), e)
      BY <2>9, <3>4, <3>6, <3>8 DEF ContinuesPicture
    <3>10. QED BY <3>5, <3>7, <3>9 DEF IsRun
  <2>10. Vp8RawData = << >> => LET e == Append(Vp8RawData, i)
                               IN  Len(e) = 1 /\ e[1] = i /\ e # << >>
    BY <1>1, AppendOf
  <2>11. CASE Vp8RawData = << >>
    <3>1. decoded # << >> /\ UpToNewest(Last(Last(decoded)))
      BY <1>2, <1>3, <2>11 DEF Linked
    <3>2. PICK L \in Nat \ {0} : L = Len(decoded)
      BY <1>1, <3>1
    <3>3. decoded[L] \in Seq(taken) /\ decoded[L] # << >>
      BY <1>1, <1>2, <3>2
    <3>4. PICK a \in taken : a = Last(decoded[L])
      BY <3>3, LastOf, Zenon
    <3>5. Follows(a, i) /\ a < i
      BY <1>1, <1>2, <2>8, <3>1, <3>2, <3>4 DEF Last
    <3>6. PICK e : e = Append(Vp8RawData, i) /\ Len(e) = 1 /\ e[1] = i /\ e # << >>
      BY <2>10, <2>11
    <3>7. ContinuesPicture(L, e)
      BY <3>4, <3>5, <3>6 DEF ContinuesPicture
    <3>8. QED BY <3>2, <3>6, <3>7 DEF IsRun
  <2>12. QED BY <2>9, <2>11
<1>4. CASE RequestKeyFrame
  <2>1. Vp8RawData = << >> /\ ~is_key_frame
    BY <1>2, <1>4 DEF Linked
  <2>2. StartsKeyFrame(sent[i])
    BY <1>4, <2>1, Zenon DEF WaitsForKey, KeySeen
  <2>3. PICK e : e = Append(Vp8RawData, i) /\ Len(e) = 1 /\ e[1] = i /\ e # << >>
    <3>1. LET e == Append(Vp8RawData, i)
          IN  Len(e) = 1 /\ e[1] = i /\ e # << >>
      BY <1>1, <2>1, AppendOf
    <3>2. QED BY <3>1
  <2>4. ContinuesPicture(Len(decoded), e)
    <3>1. CASE Len(decoded) = 0
      BY <2>2, <2>3, <3>1 DEF ContinuesPicture
    <3>2. CASE Len(decoded) # 0
      <4>1. PICK L \in Nat \ {0} : L = Len(decoded)
        BY <1>1, <3>2
      <4>2. decoded[L] \in Seq(taken) /\ decoded[L] # << >>
        BY <1>1, <1>2, <4>1
      <4>3. PICK a \in taken : a = Last(decoded[L])
        BY <4>2 DEF Last
      <4>4. a < i
        BY <1>1, <1>2
      <4>5. QED BY <2>2, <2>3, <4>1, <4>3, <4>4 DEF ContinuesPicture
    <3>3. QED BY <3>1, <3>2
  <2>5. QED BY <2>3, <2>4 DEF IsRun
<1>5. QED BY <1>1, <1>3, <1>4

LEMMA PopKeepsRun ==
  ASSUME TypeOK, RunInv, Pop
  PROVE  RunInv'
<1>1. PICK i \in DOMAIN sent :
        /\ i \in Nat /\ newest < i /\ i <= newest + Reach
        /\ taken' = taken \cup {i} /\ newest' = i /\ sent' = sent
        /\ sent[i] \in Packets /\ sent[i].id = i
        /\ VideoUnPackVp8RtpStm(sent[i])
  BY PopTakes
<1> DEFINE p == sent[i]
<1>2. ~aborted
  BY DEF Pop
<1>3. /\ p.kind \in {"data", "padding"} /\ p.seq = i % SeqSpan /\ p.id = i
      /\ i \in taken' /\ newest \in Nat /\ taken \subseteq Nat
      /\ Vp8RawData \in Seq(taken) /\ decoded \in Seq(Seq(taken))
      /\ Len(decoded) \in Nat
  BY <1>1 DEF RunInv, Numbered, TypeOK
<1>4. Numbered' /\ \A j \in taken' : j <= newest'
  <2>1. Numbered'
    BY <1>1 DEF RunInv, Numbered
  <2>2. \A j \in taken : j <= newest
    BY DEF RunInv
  <2>3. \A j \in taken' : j <= newest'
    <3>1. /\ taken \subseteq Nat /\ newest \in Nat /\ i \in Nat /\ newest < i
          /\ taken' = taken \cup {i} /\ newest' = i
      BY <1>1, <1>3
    <3>2. QED BY <2>2, <3>1
  <2>4. QED BY <2>1, <2>3
<1>5. Linked /\ RawDataIsRun /\ ReferencesDecoded
      /\ \A n \in DOMAIN decoded : decoded[n] # << >>
  BY <1>2 DEF RunInv
<1> DEFINE Goal == /\ \A n \in DOMAIN decoded' : decoded'[n] # << >>
                   /\ ~aborted' => Linked'
                   /\ RawDataIsRun' /\ ReferencesDecoded'
<1>6. CASE Padding(p)
  <2>1. /\ p.kind = "padding" /\ PackSeqNo' = p.seq /\ decoded' = decoded
        /\ Vp8RawData' = Vp8RawData /\ RequestKeyFrame' = RequestKeyFrame
        /\ is_key_frame' = is_key_frame
    BY <1>6 DEF Padding
  <2>2. sent'[newest'].kind = "padding"
    BY <1>1, <2>1
  <2>3. Linked'
    BY <1>1, <1>3, <1>5, <2>1, <2>2 DEF Linked, UpToNewest
  <2>4. RawDataIsRun' /\ ReferencesDecoded'
    BY <1>1, <1>5, <2>1, NothingAdded
  <2>5. Goal
    BY <1>5, <2>1, <2>3, <2>4
  <2>6. QED BY <1>4, <2>5 DEF RunInv
<1>7. CASE AwaitKeyFrame(p)
  <2>1. /\ RequestKeyFrame /\ decoded' = decoded
        /\ Vp8RawData' = Vp8RawData /\ RequestKeyFrame' = RequestKeyFrame
        /\ is_key_frame' = is_key_frame
    BY <1>7, Zenon DEF AwaitKeyFrame, WaitsForKey
  <2>2. Linked'
    BY <1>5, <2>1 DEF Linked
  <2>3. RawDataIsRun' /\ ReferencesDecoded'
    BY <1>1, <1>5, <2>1, NothingAdded
  <2>4. Goal
    BY <1>5, <2>1, <2>2, <2>3
  <2>5. QED BY <1>4, <2>4 DEF RunInv
<1>8. CASE LosePackets(p)
  <2>1. /\ decoded' = decoded /\ Vp8RawData' = << >>
        /\ RequestKeyFrame' = TRUE /\ is_key_frame' = FALSE
    BY <1>8 DEF LosePackets, DropFrame
  <2>2. Linked'
    BY <2>1 DEF Linked
  <2>3. RawDataIsRun' /\ ReferencesDecoded'
    BY <1>1, <1>5, <2>1, NothingAdded
  <2>4. Goal
    BY <1>5, <2>1, <2>2, <2>3
  <2>5. QED BY <1>4, <2>4 DEF RunInv
<1>9. CASE Accept(p)
  <2>1. CASE Abort
    <3>1. aborted' = TRUE /\ decoded' = decoded /\ Vp8RawData' = Vp8RawData
      BY <2>1 DEF Abort
    <3>2. RawDataIsRun' /\ ReferencesDecoded'
      BY <1>1, <1>5, <3>1, NothingAdded
    <3>3. Goal
      BY <1>5, <3>1, <3>2
    <3>4. QED BY <1>4, <3>3 DEF RunInv
  <2>2. PICK e : e = Append(Vp8RawData, i)
    OBVIOUS
  <2>3. /\ e \in Seq(Nat) /\ e # << >> /\ Last(e) = i
    <3>1. Vp8RawData \in Seq(Nat)
      BY <1>3, SeqGrows
    <3>2. e \in Seq(Nat)
      BY <1>1, <2>2, <3>1
    <3>3. e # << >> /\ Last(e) = i
      BY <2>2, <3>1, AppendOf, Zenon
    <3>4. QED BY <3>2, <3>3
  <2>4. IsRun(e) /\ ContinuesPicture(Len(decoded), e)
    BY <1>1, <1>2, <1>9, <2>2, AcceptedContinues DEF Accept
  <2>5. CASE MiddleOfFrame(p) \/ (EndOfFrame(p) /\ DecodeFails(p))
    <3>1. /\ PackSeqNo' = p.seq /\ RequestKeyFrame' = FALSE /\ decoded' = decoded
          /\ Vp8RawData' = e
      BY <1>3, <2>2, <2>5 DEF MiddleOfFrame, EndOfFrame, DecodeFails, Accepted
    <3>2. Linked'
      BY <1>1, <1>3, <2>3, <3>1 DEF Linked, UpToNewest
    <3>3. RawDataIsRun' /\ ReferencesDecoded'
      BY <1>1, <1>5, <2>3, <2>4, <3>1, PayloadAdded
    <3>4. Goal
      BY <1>5, <3>1, <3>2, <3>3
    <3>5. QED BY <1>4, <3>4 DEF RunInv
  <2>6. CASE EndOfFrame(p) /\ Decodes(p)
    <3>1. /\ PackSeqNo' = p.seq /\ RequestKeyFrame' = FALSE
          /\ decoded' = Append(decoded, e) /\ Vp8RawData' = << >>
      BY <1>3, <2>2, <2>6 DEF EndOfFrame, Decodes, Accepted
    <3>2. RawDataIsRun' /\ ReferencesDecoded'
      BY <1>1, <1>5, <2>3, <2>4, <3>1, PictureAdded
    <3>3. /\ DOMAIN decoded' = 1 .. Len(decoded) + 1 /\ decoded' # << >>
          /\ \A n \in 1 .. Len(decoded) : decoded'[n] = decoded[n]
          /\ decoded'[Len(decoded) + 1] = e /\ Last(decoded') = e
      <4>1. LET D == Append(decoded, e)
            IN  /\ DOMAIN D = 1 .. Len(decoded) + 1 /\ D # << >>
                /\ \A n \in 1 .. Len(decoded) : D[n] = decoded[n]
                /\ D[Len(decoded) + 1] = e /\ Last(D) = e
        BY <1>3, AppendOf
      <4>2. QED BY <3>1, <4>1
    <3>4. Linked'
      <4>1. newest' \in taken' /\ PackSeqNo' = newest' % SeqSpan
        BY <1>1, <1>3, <3>1
      <4>2. UpToNewest(Last(Last(decoded)))'
        BY <1>1, <2>3, <3>3 DEF UpToNewest
      <4>3. QED BY <3>1, <3>3, <4>1, <4>2 DEF Linked
    <3>5. \A n \in DOMAIN decoded' : decoded'[n] # << >>
      <4>1. DOMAIN decoded = 1 .. Len(decoded)
        BY <1>3
      <4>2. ASSUME NEW n \in 1 .. Len(decoded) + 1
            PROVE  decoded'[n] # << >>
        <5>1. CASE n \in 1 .. Len(decoded)
          <6>1. decoded[n] # << >>
            BY <1>5, <4>1, <5>1
          <6>2. QED BY <3>3, <5>1, <6>1
        <5>2. CASE n = Len(decoded) + 1
          BY <2>3, <3>3, <5>2
        <5>3. QED BY <1>3, <5>1, <5>2
      <4>3. QED BY <3>3, <4>2
    <3>6. QED BY <1>4, <3>2, <3>4, <3>5 DEF RunInv
  <2>7. QED
    <3>1. Abort \/ MiddleOfFrame(p) \/ EndOfFrame(p)
      BY <1>9, Zenon DEF Accept
    <3>2. EndOfFrame(p) => Decodes(p) \/ DecodeFails(p)
      BY Zenon DEF EndOfFrame
    <3>3. QED BY <2>1, <2>5, <2>6, <3>1, <3>2
<1>10. ~EmptyPayload(p) /\ ~ShortKeyFrame(p)
  BY <1>3 DEF EmptyPayload, ShortKeyFrame
<1>11. QED
  BY <1>1, <1>6, <1>7, <1>8, <1>9, <1>10 DEF VideoUnPackVp8RtpStm

LEMMA InitRuns == Init => RunInv
<1> SUFFICES ASSUME Init
             PROVE  RunInv
  OBVIOUS
<1>1. /\ DOMAIN sent = {} /\ taken = {} /\ decoded = << >> /\ Vp8RawData = << >>
      /\ RequestKeyFrame = TRUE /\ is_key_frame = FALSE
  BY DEF Init
<1>2. Numbered /\ Linked
  BY <1>1 DEF Numbered, Linked
<1>3. RawDataIsRun
  BY <1>1 DEF RawDataIsRun, Range
<1>4. ReferencesDecoded
  BY <1>1 DEF ReferencesDecoded, ContinuesPicture
<1>5. QED BY <1>1, <1>2, <1>3, <1>4 DEF RunInv

LEMMA RunCorrect ==
  ASSUME OnlyPadding
  PROVE  Spec => []RunInv
<1>1. ASSUME TypeOK, RunInv, [Next]_vars
      PROVE  RunInv'
  <2>1. CASE UNCHANGED vars
    BY <1>1, <2>1
       DEF vars, vp8Vars, RunInv, Numbered, Linked, UpToNewest, RawDataIsRun,
           ReferencesDecoded, ContinuesPicture, StartsKeyFrame, Follows
  <2>2. QED
    BY <1>1, <2>1, SendKeepsRun, PopKeepsRun DEF Next
<1>2. QED BY <1>1, InitRuns, TypeCorrect, PTL DEF Spec

(* Between frames only padding is sent: then every picture is made of a    *)
(* run of packets, and starts a key frame or where the one before it       *)
(* ended, in any such stream, with any loss, whatever the decoder does.    *)
THEOREM PicturesFollow ==
  ASSUME OnlyPadding
  PROVE  Spec => [](RawDataIsRun /\ ReferencesDecoded)
<1>1. RunInv => RawDataIsRun /\ ReferencesDecoded
  BY DEF RunInv
<1>2. QED BY <1>1, RunCorrect, PTL

-----------------------------------------------------------------------------
(* What a call does, in terms of the stream. *)

LEMMA NextIsNoLoss ==
  ASSUME NEW n \in Nat
  PROVE  (((n + 1) % SeqSpan) - (n % SeqSpan) - 1 + SeqSpan) % SeqSpan = 0
<1>1. SeqSpan \in Nat \ {0} /\ SeqSpan > 1
  BY HalfSeqAssumption DEF SeqSpan
<1>2. PICK t \in Nat : t = n % SeqSpan /\ t < SeqSpan
  BY <1>1
<1>3. (n + 1) % SeqSpan = (t + 1) % SeqSpan
  <2>1. PICK c \in Nat : c = n \div SeqSpan
    BY PlaceSplits
  <2>2. PICK d \in Nat : d = (n + 1) \div SeqSpan
    BY PlaceSplits
  <2>3. PICK b \in SeqNumbers : b = (n + 1) % SeqSpan
    BY PlaceSplits
  <2>4. n = c * SeqSpan + t /\ n + 1 = d * SeqSpan + b
    BY <1>2, <2>1, <2>2, <2>3, PlaceSplits DEF PowerSeq
  <2>5. c * SeqSpan \in Nat /\ d * SeqSpan \in Nat
    BY <1>1, Z3
  <2>6. b \in Nat /\ b < SeqSpan
    BY <1>1 DEF SeqNumbers
  <2>7. (c + 1) * SeqSpan = c * SeqSpan + SeqSpan /\ (d + 1) * SeqSpan = d * SeqSpan + SeqSpan
        /\ (c + 2) * SeqSpan = c * SeqSpan + 2 * SeqSpan
    BY <1>1, SpanPlus
  <2>8. CASE d <= c - 1
    <3>1. (d + 1) * SeqSpan <= c * SeqSpan
      BY <2>8, SpanTimes
    <3> QED
      BY <1>1, <1>2, <2>4, <2>5, <2>6, <2>7, <3>1
  <2>9. CASE d >= c + 2
    <3>1. (c + 2) * SeqSpan <= d * SeqSpan
      BY <2>9, SpanTimes
    <3> QED
      BY <1>1, <1>2, <2>4, <2>5, <2>6, <2>7, <3>1
  <2>10. CASE d = c
    <3>1. b = t + 1
      BY <1>1, <1>2, <2>4, <2>5, <2>6, <2>10
    <3> QED
      BY <1>1, <1>2, <2>3, <2>6, <3>1, SmallMod
  <2>11. CASE d = c + 1
    <3>1. t + 1 = SeqSpan /\ b = 0
      BY <1>1, <1>2, <2>4, <2>5, <2>6, <2>7, <2>11
    <3> QED
      BY <1>1, <1>2, <2>3, <3>1, SmallMod
  <2> QED
    BY <2>8, <2>9, <2>10, <2>11
<1>4. CASE t + 1 < SeqSpan
  <2>1. (t + 1) % SeqSpan = t + 1
    BY <1>1, <1>2, <1>4, SmallMod
  <2>2. ((n + 1) % SeqSpan) - (n % SeqSpan) - 1 + SeqSpan = SeqSpan
    BY <1>1, <1>2, <1>3, <2>1
  <2>3. SeqSpan % SeqSpan = 0
    BY <1>1, SmallMod
  <2> QED
    BY <2>2, <2>3
<1>5. CASE t + 1 = SeqSpan
  <2>1. (t + 1) % SeqSpan = 0
    BY <1>1, <1>5, SmallMod
  <2>2. ((n + 1) % SeqSpan) - (n % SeqSpan) - 1 + SeqSpan = 0
    BY <1>1, <1>2, <1>3, <1>5, <2>1
  <2>3. 0 % SeqSpan = 0
    BY <1>1, SmallMod
  <2> QED
    BY <2>2, <2>3
<1> QED
  BY <1>1, <1>2, <1>4, <1>5

(* Nothing is kept of the packet: padding, or a key frame is waited for.   *)
Skips(p) ==
  /\ p.kind = "padding" \/ (RequestKeyFrame /\ ~StartsKeyFrame(p))
  /\ UNCHANGED << RequestKeyFrame, is_key_frame, sized, Vp8RawData, decoded, aborted >>

(* Packets are missing in front of this one. *)
Breaks(p, i) ==
  /\ p.kind = "data" /\ ~RequestKeyFrame /\ i # newest + 1
  /\ RequestKeyFrame' = TRUE /\ is_key_frame' = FALSE /\ Vp8RawData' = << >>
  /\ sized \/ StartsKeyFrame(p) => sized'
  /\ UNCHANGED << decoded, aborted >>

(* The packet fits, ... *)
Fits(p, i) ==
  /\ p.kind = "data"
  /\ \/ RequestKeyFrame /\ StartsKeyFrame(p) /\ Vp8RawData = << >>
     \/ ~RequestKeyFrame /\ i = newest + 1

(* ... an assert fails, ... *)
Fails(p) == (TooBig \/ Unsized(p)) /\ aborted' = TRUE

(* ... or the payload is kept, or decoded with what is kept already.       *)
Keeps(p, i) ==
  /\ RequestKeyFrame' = FALSE /\ aborted' = aborted
  /\ sized \/ StartsKeyFrame(p) => sized'
  /\ is_key_frame' => is_key_frame \/ StartsKeyFrame(p)
  /\ \/ /\ p.marker => DecoderMayFail
        /\ Vp8RawData' = Append(Vp8RawData, i) /\ decoded' = decoded
     \/ /\ p.marker
        /\ decoded' = Append(decoded, Append(Vp8RawData, i)) /\ Vp8RawData' = << >>

Handles(p, i) ==
  \/ Skips(p)
  \/ Breaks(p, i)
  \/ Fits(p, i) /\ Fails(p) /\ UNCHANGED << decoded, Vp8RawData >>
  \/ Fits(p, i) /\ ~TooBig /\ ~Unsized(p) /\ Keeps(p, i)

LEMMA PopHandles ==
  ASSUME TypeOK, RunInv, Pop
  PROVE  \E i \in DOMAIN sent :
           /\ i \in Nat /\ newest < i /\ i <= newest + Reach
           /\ taken' = taken \cup {i} /\ newest' = i /\ sent' = sent
           /\ Handles(sent[i], i)
<1>1. PICK i \in DOMAIN sent :
        /\ i \in Nat /\ newest < i /\ i <= newest + Reach
        /\ taken' = taken \cup {i} /\ newest' = i /\ sent' = sent
        /\ sent[i] \in Packets /\ sent[i].id = i
        /\ VideoUnPackVp8RtpStm(sent[i])
  BY PopTakes
<1>2. PICK p : p = sent[i]
  OBVIOUS
<1>3. /\ p.kind \in {"data", "padding"} /\ p.seq = i % SeqSpan /\ p.id = i
      /\ newest \in Nat /\ Linked /\ SeqSpan \in Nat \ {0}
      /\ RequestKeyFrame \in BOOLEAN /\ i < newest + SeqSpan
  <2>1. ~aborted
    BY DEF Pop
  <2>2. newest \in Nat /\ RequestKeyFrame \in BOOLEAN
    BY DEF TypeOK
  <2>3. SeqSpan \in Nat \ {0}
    BY HalfSeqAssumption DEF SeqSpan
  <2> QED
    BY <1>1, <1>2, <2>1, <2>2, <2>3, Vp8Assumption DEF RunInv, Numbered
<1>4. ~RequestKeyFrame =>
        /\ LostPktCnt(p) = ((i % SeqSpan) - (newest % SeqSpan) - 1 + SeqSpan) % SeqSpan
  <2>1. newest % SeqSpan \in SeqNumbers
    BY <1>3, ModIsSeqNumber
  <2> QED
    BY <1>3, <2>1 DEF LostPktCnt, Linked, NoSeq, SeqNumbers
<1>5. ~RequestKeyFrame => (LostPktCnt(p) <= 0 <=> i = newest + 1)
  <2>1. ASSUME ~RequestKeyFrame, LostPktCnt(p) <= 0 PROVE i = newest + 1
    BY <1>1, <1>3, <1>4, <2>1, NoLossIsNext
  <2>2. ASSUME ~RequestKeyFrame, i = newest + 1 PROVE LostPktCnt(p) <= 0
    <3>1. LostPktCnt(p) = 0
      BY <1>3, <1>4, <2>2, NextIsNoLoss
    <3> QED
      BY <3>1
  <2> QED
    BY <2>1, <2>2
<1>6. RequestKeyFrame => LostPktCnt(p) = 0
  BY DEF LostPktCnt
<1>7. CASE Padding(p)
  BY <1>1, <1>2, <1>7 DEF Padding, Handles, Skips
<1>8. CASE AwaitKeyFrame(p)
  <2>1. RequestKeyFrame /\ ~StartsKeyFrame(p)
    BY <1>8, Zenon DEF AwaitKeyFrame, WaitsForKey, KeySeen
  <2> QED
    BY <1>1, <1>2, <1>8, <2>1 DEF AwaitKeyFrame, Handles, Skips
<1>9. CASE LosePackets(p)
  <2>1. ~RequestKeyFrame /\ i # newest + 1
    <3>1. LostPktCnt(p) > 0
      BY <1>9 DEF LosePackets
    <3>2. RequestKeyFrame => FALSE
      BY <1>6, <3>1
    <3>3. i = newest + 1 => LostPktCnt(p) = 0
      BY <1>3, <1>4, <3>2, NextIsNoLoss
    <3> QED
      BY <3>1, <3>2, <3>3
  <2>2. /\ p.kind = "data" /\ RequestKeyFrame' = TRUE /\ is_key_frame' = FALSE
        /\ Vp8RawData' = << >> /\ UNCHANGED << decoded, aborted >>
    BY <1>9 DEF LosePackets, DropFrame
  <2>3. sized \/ StartsKeyFrame(p) => sized'
    BY <1>9, Zenon DEF LosePackets
  <2>4. Breaks(p, i)
    BY <2>1, <2>2, <2>3, Zenon DEF Breaks
  <2> QED
    BY <1>1, <1>2, <2>4 DEF Handles
<1>10. CASE Accept(p)
  <2>1. p.kind = "data" /\ LostPktCnt(p) <= 0 /\ ~WaitsForKey(p)
    BY <1>10 DEF Accept
  <2>3. Fits(p, i)
    <3>1. CASE RequestKeyFrame
      <4>1. StartsKeyFrame(p) /\ Vp8RawData = << >>
        BY <1>3, <2>1, <3>1, Zenon DEF WaitsForKey, KeySeen, Linked
      <4> QED
        BY <2>1, <3>1, <4>1 DEF Fits
    <3>2. CASE ~RequestKeyFrame
      BY <1>5, <2>1, <3>2 DEF Fits
    <3> QED
      BY <3>1, <3>2
  <2>4. CASE TooBig \/ Unsized(p)
    <3>1. Abort
      BY <1>10, <2>4, Zenon DEF Accept
    <3>2. Fails(p) /\ UNCHANGED << decoded, Vp8RawData >>
      BY <2>4, <3>1, Zenon DEF Abort, Fails
    <3> QED
      BY <1>1, <1>2, <2>3, <3>2 DEF Handles
  <2>5. CASE ~TooBig /\ ~Unsized(p)
    <3>1. MiddleOfFrame(p) \/ EndOfFrame(p)
      BY <1>10, <2>5, Zenon DEF Accept
    <3>2. /\ RequestKeyFrame' = FALSE /\ aborted' = aborted
          /\ sized \/ StartsKeyFrame(p) => sized'
      BY <3>1, Zenon DEF MiddleOfFrame, EndOfFrame, Accepted
    <3>3. is_key_frame' => is_key_frame \/ StartsKeyFrame(p)
      BY <3>1, Zenon DEF MiddleOfFrame, EndOfFrame, Decodes, DecodeFails, KeySeen
    <3>4. \/ /\ p.marker => DecoderMayFail
             /\ Vp8RawData' = Append(Vp8RawData, p.id) /\ decoded' = decoded
          \/ /\ p.marker
             /\ decoded' = Append(decoded, Append(Vp8RawData, p.id)) /\ Vp8RawData' = << >>
      BY <3>1, Zenon DEF MiddleOfFrame, EndOfFrame, Decodes, DecodeFails
    <3>5. Keeps(p, i)
      BY <1>3, <3>2, <3>3, <3>4, Zenon DEF Keeps
    <3> QED
      BY <1>1, <1>2, <2>3, <2>5, <3>5 DEF Handles
  <2> QED
    BY <2>4, <2>5
<1>11. ~EmptyPayload(p) /\ ~ShortKeyFrame(p)
  BY <1>3 DEF EmptyPayload, ShortKeyFrame
<1> QED
  BY <1>1, <1>2, <1>7, <1>8, <1>9, <1>10, <1>11, Zenon DEF VideoUnPackVp8RtpStm


-----------------------------------------------------------------------------
(* The frames in the stream. *)

(* The places a .. z hold the packets of one frame.                        *)
FrameAt(a, z) ==
  /\ a \in DOMAIN sent /\ z \in DOMAIN sent /\ a <= z /\ z - a + 1 \in FrameLengths
  /\ \A k \in DOMAIN sent :
       /\ a <= k /\ k <= z =>
            /\ sent[k].kind = "data" /\ sent[k].frame = sent[a].frame
            /\ sent[k].key = sent[a].key
            /\ sent[k].first = (k = a) /\ sent[k].marker = (k = z)
       /\ k < a /\ sent[k].kind = "data" => sent[k].frame < sent[a].frame
       /\ z < k /\ sent[k].kind = "data" => sent[a].frame < sent[k].frame

(* Frame after frame, and padding that ends none.                          *)
Layout ==
  /\ \A j \in DOMAIN sent : sent[j].frame <= FramesSent
  /\ \A j \in DOMAIN sent : sent[j].kind = "data" =>
       \E a, z \in DOMAIN sent : FrameAt(a, z) /\ a <= j /\ j <= z
  /\ \A f \in 1 .. FramesSent :
       \E j \in DOMAIN sent : sent[j].kind = "data" /\ sent[j].frame = f

LEMMA OneFrameAt ==
  ASSUME TypeOK, NEW a \in DOMAIN sent, NEW z \in DOMAIN sent, FrameAt(a, z),
         NEW x \in DOMAIN sent, NEW y \in DOMAIN sent, FrameAt(x, y), x <= a, a <= y
  PROVE  a = x /\ z = y
<1>1. DOMAIN sent \subseteq Nat
  BY DEF TypeOK
<1>2. a = x
  BY <1>1 DEF FrameAt
<1>3. z <= y => z = y
  BY <1>1, <1>2 DEF FrameAt
<1>4. y <= z => z = y
  BY <1>1, <1>2 DEF FrameAt
<1> QED
  BY <1>1, <1>2, <1>3, <1>4

(* A frame is added at the end, ...                                        *)
LEMMA FrameAdded ==
  ASSUME TypeOK, SendFrame
  PROVE  \E n \in FrameLengths, isKey \in BOOLEAN :
           /\ n \in Nat \ {0} /\ Len(sent) \in Nat /\ FramesSent \in Nat
           /\ DOMAIN sent = 1 .. Len(sent) /\ DOMAIN sent' = 1 .. Len(sent) + n
           /\ \A i \in DOMAIN sent : sent'[i] = sent[i]
           /\ \A i \in DOMAIN sent' : i \notin DOMAIN sent =>
                /\ sent'[i].kind = "data" /\ sent'[i].frame = FramesSent + 1
                /\ sent'[i].key = isKey /\ sent'[i].first = (i = Len(sent) + 1)
                /\ sent'[i].marker = (i = Len(sent) + n)
           /\ FramesSent' = FramesSent + 1
<1>1. sent \in Seq(Packets) /\ Len(sent) \in Nat /\ DOMAIN sent = 1 .. Len(sent)
  BY DEF TypeOK
<1>2. FramesSent \in Nat
  BY <1>1, FramesSentTyped
<1>3. PICK n \in FrameLengths : \E isKey \in BOOLEAN :
         sent' = sent \o FramePackets(n, isKey)
  BY DEF SendFrame
<1>4. PICK isKey \in BOOLEAN : sent' = sent \o FramePackets(n, isKey)
  BY <1>3
<1>5. n \in Nat \ {0}
  BY Vp8Assumption
<1>6. /\ sent' \in Seq(Packets) /\ \A i \in DOMAIN sent : sent'[i] = sent[i]
  BY SendSteps
<1>7. PICK F : F = FramePackets(n, isKey)
  OBVIOUS
<1>8. /\ F \in [1 .. n -> {F[i] : i \in 1 .. n}] /\ Len(F) = n
      /\ F \in Seq({F[i] : i \in 1 .. n})
  <2>1. F \in [1 .. n -> {F[i] : i \in 1 .. n}]
    BY <1>7 DEF FramePackets
  <2> QED
    BY <1>5, <2>1
<1>9. ASSUME NEW i \in 1 .. n
      PROVE  /\ F[i].kind = "data" /\ F[i].frame = FramesSent + 1 /\ F[i].key = isKey
             /\ F[i].first = (i = 1) /\ F[i].marker = (i = n)
  BY <1>7 DEF FramePackets
<1>10. /\ Len(sent') = Len(sent) + n /\ DOMAIN sent' = 1 .. Len(sent) + n
       /\ \A i \in 1 .. n : sent'[Len(sent) + i] = F[i]
  <2>1. sent' = sent \o F
    BY <1>4, <1>7
  <2>2. PICK T : T = Packets \cup {F[i] : i \in 1 .. n}
    OBVIOUS
  <2>3. sent \in Seq(T) /\ F \in Seq(T)
    BY <1>1, <1>8, <2>2, SeqGrows
  <2>4. PICK u \in Seq(T), v \in Seq(T) : u = sent /\ v = F
    BY <2>3
  <2>5. /\ Len(u \o v) = Len(u) + Len(v) /\ DOMAIN (u \o v) = 1 .. Len(u) + Len(v)
        /\ \A i \in 1 .. Len(v) : (u \o v)[Len(u) + i] = v[i]
    <3>1. u \o v \in Seq(T) /\ Len(u \o v) = Len(u) + Len(v)
      BY <2>4
    <3>2. ASSUME NEW i \in 1 .. Len(v) PROVE (u \o v)[Len(u) + i] = v[i]
      <4>1. Len(u) \in Nat /\ Len(v) \in Nat
        BY <2>4
      <4> QED
        BY <2>4, <4>1
    <3> QED
      BY <3>1, <3>2
  <2> QED
    BY <1>8, <2>1, <2>4, <2>5
<1>11. ASSUME NEW i \in DOMAIN sent', i \notin DOMAIN sent
       PROVE  /\ sent'[i].kind = "data" /\ sent'[i].frame = FramesSent + 1
              /\ sent'[i].key = isKey /\ sent'[i].first = (i = Len(sent) + 1)
              /\ sent'[i].marker = (i = Len(sent) + n)
  <2>1. PICK k \in 1 .. n : i = Len(sent) + k
    <3>1. i - Len(sent) \in 1 .. n /\ i = Len(sent) + (i - Len(sent))
      BY <1>1, <1>5, <1>10, <1>11
    <3> QED
      BY <3>1
  <2>2. sent'[i] = F[k]
    BY <1>10, <2>1
  <2>3. (i = Len(sent) + 1) = (k = 1) /\ (i = Len(sent) + n) = (k = n)
    BY <1>1, <1>5, <2>1
  <2> QED
    BY <1>9, <2>2, <2>3
<1>12. FramesSent' = FramesSent + 1
  <2>1. sent' # << >> /\ Last(sent') = sent'[Len(sent) + n]
    BY <1>1, <1>5, <1>6, <1>10 DEF Last
  <2>2. Len(sent) + n \in DOMAIN sent' /\ Len(sent) + n \notin DOMAIN sent
    BY <1>1, <1>5, <1>10
  <2>3. FramesSent' = Last(sent').frame
    BY <2>1 DEF FramesSent
  <2> QED
    BY <1>11, <2>1, <2>2, <2>3
<1> QED
  BY <1>1, <1>2, <1>5, <1>6, <1>10, <1>11, <1>12

(* ... or a packet of padding.                                             *)
LEMMA PaddingAdded ==
  ASSUME TypeOK, OnlyPadding, SendFiller
  PROVE  /\ Len(sent) \in Nat /\ FramesSent \in Nat
         /\ DOMAIN sent = 1 .. Len(sent) /\ DOMAIN sent' = 1 .. Len(sent) + 1
         /\ \A i \in DOMAIN sent : sent'[i] = sent[i]
         /\ sent'[Len(sent) + 1].kind = "padding"
         /\ sent'[Len(sent) + 1].frame = FramesSent
         /\ FramesSent' = FramesSent
<1>1. sent \in Seq(Packets) /\ Len(sent) \in Nat /\ DOMAIN sent = 1 .. Len(sent)
  BY DEF TypeOK
<1>2. FramesSent \in Nat
  BY <1>1, FramesSentTyped
<1>3. PICK p : /\ sent' = Append(sent, p) /\ p.kind \in Fillers /\ p.frame = FramesSent
  BY DEF SendFiller
<1>4. p.kind = "padding"
  BY <1>3 DEF OnlyPadding
<1>5. /\ DOMAIN sent' = 1 .. Len(sent) + 1 /\ sent' # << >>
      /\ sent'[Len(sent) + 1] = p /\ Last(sent') = p
      /\ \A k \in 1 .. Len(sent) : sent'[k] = sent[k]
  <2>1. LET D == Append(sent, p)
        IN  /\ DOMAIN D = 1 .. Len(sent) + 1 /\ D # << >>
            /\ D[Len(sent) + 1] = p /\ Last(D) = p
            /\ \A k \in 1 .. Len(sent) : D[k] = sent[k]
    BY <1>1, AppendOf
  <2> QED
    BY <1>3, <2>1
<1>6. FramesSent' = FramesSent
  BY <1>3, <1>5 DEF FramesSent
<1> QED
  BY <1>1, <1>2, <1>3, <1>4, <1>5, <1>6


LEMMA FrameBound ==
  ASSUME TypeOK, Layout, NEW j \in DOMAIN sent
  PROVE  sent[j].frame \in Nat /\ sent[j].frame <= FramesSent
<1>1. sent \in Seq(Packets)
  BY DEF TypeOK
<1>2. sent[j] \in Packets
  BY <1>1
<1>3. sent[j].frame \in Nat
  BY <1>2 DEF Packets
<1> QED
  BY <1>3 DEF Layout

(* What is added is behind everything sent, and of a later frame.          *)
LEMMA SentBehind ==
  ASSUME TypeOK, OnlyPadding, SendFrame \/ SendFiller
  PROVE  /\ DOMAIN sent \subseteq DOMAIN sent' /\ DOMAIN sent' \subseteq Nat
         /\ FramesSent \in Nat /\ FramesSent' \in Nat /\ FramesSent <= FramesSent'
         /\ \A i \in DOMAIN sent : sent'[i] = sent[i]
         /\ \A i \in DOMAIN sent' : i \notin DOMAIN sent =>
              /\ \A j \in DOMAIN sent : j < i
              /\ sent'[i].frame <= FramesSent'
              /\ sent'[i].kind = "data" => sent'[i].frame = FramesSent + 1
<1>1. CASE SendFrame
  BY <1>1, FrameAdded
<1>2. CASE SendFiller
  <2>1. /\ Len(sent) \in Nat /\ FramesSent \in Nat
        /\ DOMAIN sent = 1 .. Len(sent) /\ DOMAIN sent' = 1 .. Len(sent) + 1
        /\ \A i \in DOMAIN sent : sent'[i] = sent[i]
        /\ sent'[Len(sent) + 1].kind = "padding"
        /\ sent'[Len(sent) + 1].frame = FramesSent
        /\ FramesSent' = FramesSent
    BY <1>2, PaddingAdded
  <2>2. ASSUME NEW i \in DOMAIN sent', i \notin DOMAIN sent PROVE i = Len(sent) + 1
    BY <2>1, <2>2
  <2> QED
    BY <2>1, <2>2
<1> QED
  BY <1>1, <1>2

LEMMA FrameAtStays ==
  ASSUME TypeOK, OnlyPadding, Layout, SendFrame \/ SendFiller,
         NEW a \in DOMAIN sent, NEW z \in DOMAIN sent, FrameAt(a, z)
  PROVE  FrameAt(a, z)'
<1>1. /\ DOMAIN sent \subseteq DOMAIN sent' /\ DOMAIN sent' \subseteq Nat /\ FramesSent \in Nat
      /\ \A i \in DOMAIN sent : sent'[i] = sent[i]
      /\ \A i \in DOMAIN sent' : i \notin DOMAIN sent =>
           /\ \A j \in DOMAIN sent : j < i
           /\ sent'[i].kind = "data" => sent'[i].frame = FramesSent + 1
  BY SentBehind
<1>2. sent[a].frame <= FramesSent /\ sent[a].frame \in Nat
  BY FrameBound
<1>3. ASSUME NEW k \in DOMAIN sent', k \in DOMAIN sent
      PROVE  /\ a <= k /\ k <= z =>
                  /\ sent'[k].kind = "data" /\ sent'[k].frame = sent'[a].frame
                  /\ sent'[k].key = sent'[a].key
                  /\ sent'[k].first = (k = a) /\ sent'[k].marker = (k = z)
             /\ k < a /\ sent'[k].kind = "data" => sent'[k].frame < sent'[a].frame
             /\ z < k /\ sent'[k].kind = "data" => sent'[a].frame < sent'[k].frame
  BY <1>1, <1>3 DEF FrameAt
<1>4. ASSUME NEW k \in DOMAIN sent', k \notin DOMAIN sent
      PROVE  /\ a < k /\ z < k
             /\ sent'[k].kind = "data" => sent'[a].frame < sent'[k].frame
  BY <1>1, <1>2, <1>4
<1>5. ASSUME NEW k \in DOMAIN sent'
      PROVE  /\ a <= k /\ k <= z =>
                  /\ sent'[k].kind = "data" /\ sent'[k].frame = sent'[a].frame
                  /\ sent'[k].key = sent'[a].key
                  /\ sent'[k].first = (k = a) /\ sent'[k].marker = (k = z)
             /\ k < a /\ sent'[k].kind = "data" => sent'[k].frame < sent'[a].frame
             /\ z < k /\ sent'[k].kind = "data" => sent'[a].frame < sent'[k].frame
  <2>1. CASE k \in DOMAIN sent
    BY <1>3, <2>1
  <2>2. CASE k \notin DOMAIN sent
    <3>1. ~(k <= z) /\ ~(k < a)
      BY <1>1, <1>4, <2>2
    <3> QED
      BY <1>4, <2>2, <3>1
  <2> QED
    BY <2>1, <2>2
<1>6. a \in DOMAIN sent' /\ z \in DOMAIN sent' /\ a <= z /\ z - a + 1 \in FrameLengths
  BY <1>1 DEF FrameAt
<1> QED
  BY <1>5, <1>6 DEF FrameAt

LEMMA SendKeepsLayout ==
  ASSUME TypeOK, OnlyPadding, Layout, SendFrame \/ SendFiller
  PROVE  Layout'
<1>1. /\ DOMAIN sent \subseteq DOMAIN sent' /\ DOMAIN sent' \subseteq Nat
      /\ FramesSent \in Nat /\ FramesSent' \in Nat /\ FramesSent <= FramesSent'
      /\ \A i \in DOMAIN sent : sent'[i] = sent[i]
      /\ \A i \in DOMAIN sent' : i \notin DOMAIN sent =>
           /\ \A j \in DOMAIN sent : j < i
           /\ sent'[i].frame <= FramesSent'
           /\ sent'[i].kind = "data" => sent'[i].frame = FramesSent + 1
  BY SentBehind
<1>2. ASSUME NEW j \in DOMAIN sent' PROVE sent'[j].frame <= FramesSent'
  <2>1. CASE j \in DOMAIN sent
    <3>1. sent[j].frame \in Nat /\ sent[j].frame <= FramesSent
      BY <2>1, FrameBound
    <3> QED
      BY <1>1, <2>1, <3>1
  <2> QED
    BY <1>1, <2>1
<1>3. ASSUME NEW j \in DOMAIN sent', j \in DOMAIN sent, sent'[j].kind = "data"
      PROVE  \E a, z \in DOMAIN sent' : FrameAt(a, z)' /\ a <= j /\ j <= z
  <2>1. PICK a \in DOMAIN sent : \E z \in DOMAIN sent : FrameAt(a, z) /\ a <= j /\ j <= z
    BY <1>1, <1>3 DEF Layout
  <2>2. PICK z \in DOMAIN sent : FrameAt(a, z) /\ a <= j /\ j <= z
    BY <2>1
  <2>3. FrameAt(a, z)'
    BY <2>2, FrameAtStays
  <2> QED
    BY <1>1, <2>2, <2>3
<1>4. CASE SendFrame
  <2>1. PICK n \in FrameLengths, isKey \in BOOLEAN :
          /\ n \in Nat \ {0} /\ Len(sent) \in Nat
          /\ DOMAIN sent = 1 .. Len(sent) /\ DOMAIN sent' = 1 .. Len(sent) + n
          /\ \A i \in DOMAIN sent' : i \notin DOMAIN sent =>
               /\ sent'[i].kind = "data" /\ sent'[i].frame = FramesSent + 1
               /\ sent'[i].key = isKey /\ sent'[i].first = (i = Len(sent) + 1)
               /\ sent'[i].marker = (i = Len(sent) + n)
          /\ FramesSent' = FramesSent + 1
    BY <1>4, FrameAdded
  <2>2. PICK a \in DOMAIN sent', z \in DOMAIN sent' : a = Len(sent) + 1 /\ z = Len(sent) + n
    BY <2>1
  <2>3. \A k \in DOMAIN sent' : a <= k <=> k \notin DOMAIN sent
    BY <2>1, <2>2
  <2>4. sent'[a].frame = FramesSent + 1 /\ sent'[a].key = isKey
    BY <2>1, <2>2, <2>3
  <2>5. ASSUME NEW k \in DOMAIN sent'
        PROVE  /\ a <= k /\ k <= z =>
                    /\ sent'[k].kind = "data" /\ sent'[k].frame = sent'[a].frame
                    /\ sent'[k].key = sent'[a].key
                    /\ sent'[k].first = (k = a) /\ sent'[k].marker = (k = z)
               /\ k < a /\ sent'[k].kind = "data" => sent'[k].frame < sent'[a].frame
               /\ z < k /\ sent'[k].kind = "data" => sent'[a].frame < sent'[k].frame
    <3>1. CASE k \in DOMAIN sent
      <4>1. sent'[k].frame \in Nat /\ sent'[k].frame <= FramesSent
        BY <1>1, <3>1, FrameBound
      <4>2. ~(a <= k) /\ ~(z < k)
        BY <2>1, <2>2, <3>1
      <4> QED
        BY <1>1, <2>4, <4>1, <4>2
    <3>2. CASE k \notin DOMAIN sent
      <4>1. ~(k < a) /\ ~(z < k)
        BY <2>1, <2>2, <3>2
      <4> QED
        BY <2>1, <2>2, <2>4, <3>2, <4>1
    <3> QED
      BY <3>1, <3>2
  <2>6. a <= z /\ z - a + 1 \in FrameLengths
    <3>1. z - a + 1 = n /\ a <= z
      BY <2>1, <2>2
    <3> QED
      BY <3>1
  <2>7. FrameAt(a, z)'
    BY <2>5, <2>6 DEF FrameAt
  <2>8. ASSUME NEW j \in DOMAIN sent', j \notin DOMAIN sent
        PROVE  \E x, y \in DOMAIN sent' : FrameAt(x, y)' /\ x <= j /\ j <= y
    <3>1. a <= j /\ j <= z
      BY <2>1, <2>2, <2>8
    <3> QED
      BY <2>7, <3>1
  <2>9. ASSUME NEW f \in 1 .. FramesSent'
        PROVE  \E j \in DOMAIN sent' : sent'[j].kind = "data" /\ sent'[j].frame = f
    <3>1. CASE f \in 1 .. FramesSent
      BY <1>1, <3>1 DEF Layout
    <3>2. CASE f = FramesSent + 1
      BY <2>1, <2>3, <2>2, <2>4, <3>2
    <3> QED
      BY <1>1, <2>1, <3>1, <3>2
  <2> QED
    BY <1>2, <1>3, <2>8, <2>9 DEF Layout
<1>5. CASE SendFiller
  <2>1. /\ Len(sent) \in Nat /\ DOMAIN sent = 1 .. Len(sent)
        /\ DOMAIN sent' = 1 .. Len(sent) + 1
        /\ sent'[Len(sent) + 1].kind = "padding" /\ FramesSent' = FramesSent
    BY <1>5, PaddingAdded
  <2>2. \A j \in DOMAIN sent' : sent'[j].kind = "data" => j \in DOMAIN sent
    BY <2>1
  <2>3. \A f \in 1 .. FramesSent' :
          \E j \in DOMAIN sent' : sent'[j].kind = "data" /\ sent'[j].frame = f
    BY <1>1, <2>1 DEF Layout
  <2> QED
    BY <1>2, <1>3, <2>2, <2>3 DEF Layout
<1> QED
  BY <1>4, <1>5

(* A frame of which a packet was there already was there whole.            *)
LEMMA FrameWasAt ==
  ASSUME TypeOK, TypeOK', OnlyPadding, Layout, SendFrame \/ SendFiller,
         NEW a \in DOMAIN sent, NEW z \in DOMAIN sent', FrameAt(a, z)'
  PROVE  z \in DOMAIN sent /\ FrameAt(a, z)
<1>1. /\ DOMAIN sent \subseteq DOMAIN sent' /\ DOMAIN sent' \subseteq Nat
      /\ \A i \in DOMAIN sent : sent'[i] = sent[i]
  BY SentBehind
<1>2. sent[a].kind = "data"
  BY <1>1 DEF FrameAt
<1>3. PICK x \in DOMAIN sent : \E y \in DOMAIN sent : FrameAt(x, y) /\ x <= a /\ a <= y
  BY <1>2 DEF Layout
<1>4. PICK y \in DOMAIN sent : FrameAt(x, y) /\ x <= a /\ a <= y
  BY <1>3
<1>5. FrameAt(x, y)'
  BY <1>4, FrameAtStays
<1>6. a = x
  BY <1>1, <1>4, <1>5 DEF FrameAt
<1>7. z <= y => z = y
  BY <1>1, <1>4, <1>5, <1>6 DEF FrameAt
<1>8. y <= z => z = y
  BY <1>1, <1>4, <1>5, <1>6 DEF FrameAt
<1> QED
  BY <1>1, <1>4, <1>6, <1>7, <1>8

LEMMA InitLaidOut == Init => Layout
BY DEF Init, Layout, FramesSent

LEMMA PopKeepsLayout ==
  ASSUME Layout, sent' = sent
  PROVE  Layout' /\ \A a, z \in DOMAIN sent : FrameAt(a, z)' <=> FrameAt(a, z)
BY DEF Layout, FrameAt, FramesSent


-----------------------------------------------------------------------------
(* What is decoded starts where a frame starts.                            *)

LEMMA RangeOfAppend ==
  ASSUME NEW T, NEW s \in Seq(T), NEW e
  PROVE  Range(Append(s, e)) = Range(s) \cup {e}
<1>1. PICK a : a = Append(s, e)
  OBVIOUS
<1>2. /\ DOMAIN a = 1 .. Len(s) + 1 /\ a[Len(s) + 1] = e
      /\ \A k \in 1 .. Len(s) : a[k] = s[k]
  <2>1. LET b == Append(s, e)
        IN  /\ DOMAIN b = 1 .. Len(s) + 1 /\ b[Len(s) + 1] = e
            /\ \A k \in 1 .. Len(s) : b[k] = s[k]
    BY AppendOf
  <2> QED
    BY <1>1, <2>1
<1>3. Len(s) \in Nat /\ DOMAIN s = 1 .. Len(s)
  OBVIOUS
<1>4. ASSUME NEW k \in DOMAIN a PROVE a[k] \in Range(s) \cup {e}
  <2>1. CASE k \in 1 .. Len(s)
    BY <1>2, <1>3, <2>1 DEF Range
  <2>2. CASE k = Len(s) + 1
    BY <1>2, <2>2
  <2> QED
    BY <1>2, <1>3, <2>1, <2>2
<1>5. ASSUME NEW k \in DOMAIN s PROVE s[k] \in Range(a)
  <2>1. k \in DOMAIN a /\ a[k] = s[k]
    BY <1>2, <1>3
  <2> QED
    BY <2>1 DEF Range
<1>6. e \in Range(a)
  <2>1. Len(s) + 1 \in DOMAIN a
    BY <1>2, <1>3
  <2> QED
    BY <1>2, <2>1 DEF Range
<1>7. Range(a) \subseteq Range(s) \cup {e}
  BY <1>4 DEF Range
<1>8. Range(s) \cup {e} \subseteq Range(a)
  BY <1>5, <1>6 DEF Range
<1> QED
  BY <1>1, <1>7, <1>8

(* With nothing kept and no key frame waited for, the newest packet ends a *)
(* frame or is padding.                                                    *)
BetweenFrames ==
  ~aborted /\ ~RequestKeyFrame /\ Vp8RawData = << >> =>
    newest \in taken /\ (sent[newest].marker \/ sent[newest].kind = "padding")

StartInv == Layout /\ BetweenFrames /\ StartsAtFrame

LEMMA FirstPayload ==
  ASSUME TypeOK, Layout, BetweenFrames, ~aborted, NEW i \in DOMAIN sent,
         Fits(sent[i], i), Vp8RawData = << >>
  PROVE  sent[i].first
<1>1. CASE RequestKeyFrame
  BY <1>1 DEF Fits, StartsKeyFrame
<1>2. CASE ~RequestKeyFrame
  <2>1. /\ sent[i].kind = "data" /\ i = newest + 1 /\ newest \in taken
        /\ sent[newest].marker \/ sent[newest].kind = "padding"
    BY <1>2 DEF Fits, BetweenFrames
  <2>2. newest \in DOMAIN sent /\ DOMAIN sent \subseteq Nat
    BY <2>1 DEF TypeOK
  <2>3. PICK a \in DOMAIN sent : \E z \in DOMAIN sent : FrameAt(a, z) /\ a <= i /\ i <= z
    BY <2>1 DEF Layout
  <2>4. PICK z \in DOMAIN sent : FrameAt(a, z) /\ a <= i /\ i <= z
    BY <2>3
  <2>5. i # a => a <= newest /\ newest < z
    <3>1. i \in Nat /\ newest \in Nat /\ a \in Nat /\ z \in Nat
      BY <2>2
    <3> QED
      BY <2>1, <2>4, <3>1
  <2>6. i # a => sent[newest].kind = "data" /\ ~sent[newest].marker
    <3>1. newest \in Nat /\ a \in Nat /\ z \in Nat
      BY <2>2
    <3>2. i # a => a <= newest /\ newest <= z /\ newest # z
      BY <2>5, <3>1
    <3>3. a <= newest /\ newest <= z =>
            sent[newest].kind = "data" /\ sent[newest].marker = (newest = z)
      BY <2>2, <2>4, Zenon DEF FrameAt
    <3> QED
      BY <3>2, <3>3, Zenon
  <2>7. i = a
    BY <2>1, <2>6
  <2> QED
    BY <2>2, <2>4, <2>7 DEF FrameAt
<1> QED
  BY <1>1, <1>2

LEMMA PopKeepsStart ==
  ASSUME TypeOK, RunInv, StartInv, Pop
  PROVE  StartInv'
<1>1. PICK i \in DOMAIN sent :
        /\ i \in Nat /\ newest < i /\ i <= newest + Reach
        /\ taken' = taken \cup {i} /\ newest' = i /\ sent' = sent
        /\ Handles(sent[i], i)
  BY PopHandles
<1>2. ~aborted /\ Layout /\ BetweenFrames /\ StartsAtFrame
      /\ Vp8RawData \in Seq(taken) /\ decoded \in Seq(Seq(taken))
      /\ i \in taken'
  BY <1>1 DEF Pop, StartInv, TypeOK
<1>3. Layout'
  BY <1>1, <1>2, PopKeepsLayout
<1>4. PICK p : p = sent[i]
  OBVIOUS
<1>5. PICK e : e = Append(Vp8RawData, i)
  OBVIOUS
<1>6. e # << >>
  <2>1. Append(Vp8RawData, i) # << >>
    BY <1>2, AppendOf
  <2> QED
    BY <1>5, <2>1
<1>7. Fits(p, i) => sent[e[1]].first
  <2>1. CASE Vp8RawData = << >>
    <3>1. LET D == Append(Vp8RawData, i) IN D[Len(Vp8RawData) + 1] = i
      BY <1>2, AppendOf
    <3>2. e[1] = i
      BY <1>2, <1>5, <2>1, <3>1
    <3> QED
      BY <1>2, <1>4, <2>1, <3>2, FirstPayload
  <2>2. CASE Vp8RawData # << >>
    <3>1. LET D == Append(Vp8RawData, i)
          IN  \A k \in 1 .. Len(Vp8RawData) : D[k] = Vp8RawData[k]
      BY <1>2, AppendOf
    <3>2. 1 \in 1 .. Len(Vp8RawData)
      BY <1>2, <2>2
    <3>3. e[1] = Vp8RawData[1]
      BY <1>5, <3>1, <3>2
    <3>4. sent[Vp8RawData[1]].first
      BY <1>2, <2>2 DEF StartsAtFrame
    <3> QED
      BY <3>3, <3>4
  <2> QED
    BY <2>1, <2>2
<1>8. CASE Skips(p)
  <2>1. UNCHANGED << RequestKeyFrame, Vp8RawData, decoded, aborted >>
        /\ (p.kind = "padding" \/ RequestKeyFrame)
    BY <1>8, Zenon DEF Skips
  <2>2. BetweenFrames'
    BY <1>1, <1>2, <1>4, <2>1 DEF BetweenFrames
  <2>3. StartsAtFrame'
    BY <1>1, <1>2, <2>1 DEF StartsAtFrame
  <2> QED
    BY <1>3, <2>2, <2>3 DEF StartInv
<1>9. CASE Breaks(p, i)
  <2>1. RequestKeyFrame' = TRUE /\ Vp8RawData' = << >> /\ decoded' = decoded
    BY <1>9 DEF Breaks
  <2>2. BetweenFrames'
    BY <2>1 DEF BetweenFrames
  <2>3. StartsAtFrame'
    BY <1>1, <1>2, <2>1 DEF StartsAtFrame
  <2> QED
    BY <1>3, <2>2, <2>3 DEF StartInv
<1>10. CASE Fails(p) /\ UNCHANGED << decoded, Vp8RawData >>
  <2>1. BetweenFrames'
    BY <1>10 DEF Fails, BetweenFrames
  <2>2. StartsAtFrame'
    BY <1>1, <1>2, <1>10 DEF StartsAtFrame
  <2> QED
    BY <1>3, <2>1, <2>2 DEF StartInv
<1>11. CASE Fits(p, i) /\ Keeps(p, i)
  <2>1. CASE Vp8RawData' = e /\ decoded' = decoded
    <3>1. BetweenFrames'
      BY <1>6, <2>1 DEF BetweenFrames
    <3>2. StartsAtFrame'
      BY <1>1, <1>2, <1>7, <1>11, <2>1 DEF StartsAtFrame
    <3> QED
      BY <1>3, <3>1, <3>2 DEF StartInv
  <2>2. CASE p.marker /\ decoded' = Append(decoded, e) /\ Vp8RawData' = << >>
    <3>1. BetweenFrames'
      BY <1>1, <1>2, <1>4, <2>2 DEF BetweenFrames
    <3>2. Range(decoded') = Range(decoded) \cup {e}
      <4>1. Range(Append(decoded, e)) = Range(decoded) \cup {e}
        BY <1>2, RangeOfAppend
      <4> QED
        BY <2>2, <4>1
    <3>3. StartsAtFrame'
      BY <1>1, <1>2, <1>7, <1>11, <2>2, <3>2 DEF StartsAtFrame
    <3> QED
      BY <1>3, <3>1, <3>3 DEF StartInv
  <2> QED
    BY <1>5, <1>11, <2>1, <2>2, Zenon DEF Keeps
<1> QED
  BY <1>1, <1>4, <1>8, <1>9, <1>10, <1>11, Zenon DEF Handles

LEMMA SendKeepsStart ==
  ASSUME TypeOK, OnlyPadding, StartInv, SendFrame \/ SendFiller
  PROVE  StartInv'
<1>1. /\ \A i \in DOMAIN sent : sent'[i] = sent[i]
      /\ UNCHANGED << taken, newest, vp8Vars >>
  BY SendSteps
<1>2. /\ taken \subseteq DOMAIN sent /\ Vp8RawData \in Seq(taken)
      /\ decoded \in Seq(Seq(taken)) /\ Layout /\ BetweenFrames /\ StartsAtFrame
  BY DEF TypeOK, StartInv
<1>3. BetweenFrames'
  BY <1>1, <1>2 DEF BetweenFrames, vp8Vars
<1>4. ASSUME NEW d \in Range(decoded) \cup {Vp8RawData}, d # << >>
      PROVE  sent'[d[1]].first
  <2>1. d \in Seq(taken)
    BY <1>2 DEF Range
  <2>2. d[1] \in taken
    BY <1>4, <2>1
  <2>3. sent[d[1]].first
    BY <1>2, <1>4 DEF StartsAtFrame
  <2> QED
    BY <1>1, <1>2, <2>2, <2>3
<1>5. StartsAtFrame'
  <2>1. Vp8RawData' = Vp8RawData /\ decoded' = decoded
    BY <1>1 DEF vp8Vars
  <2>2. Range(decoded)' = Range(decoded)
    BY <2>1 DEF Range
  <2> QED
    BY <1>4, <2>1, <2>2 DEF StartsAtFrame
<1>6. Layout'
  BY <1>2, SendKeepsLayout
<1> QED
  BY <1>3, <1>5, <1>6 DEF StartInv

LEMMA InitStarts == Init => StartInv
<1>1. Init => BetweenFrames /\ StartsAtFrame
  BY DEF Init, BetweenFrames, StartsAtFrame, Range
<1> QED
  BY <1>1, InitLaidOut DEF StartInv

LEMMA StartCorrect ==
  ASSUME OnlyPadding
  PROVE  Spec => []StartInv
<1>1. ASSUME TypeOK, RunInv, StartInv, [Next]_vars
      PROVE  StartInv'
  <2>1. CASE UNCHANGED vars
    <3>1. /\ sent' = sent /\ taken' = taken /\ newest' = newest /\ decoded' = decoded
          /\ Vp8RawData' = Vp8RawData /\ aborted' = aborted
          /\ RequestKeyFrame' = RequestKeyFrame
      BY <2>1 DEF vars, vp8Vars
    <3>2. Layout'
      BY <1>1, <3>1, PopKeepsLayout DEF StartInv
    <3>3. BetweenFrames' /\ StartsAtFrame'
      BY <1>1, <3>1 DEF StartInv, BetweenFrames, StartsAtFrame
    <3> QED
      BY <3>2, <3>3 DEF StartInv
  <2> QED
    BY <1>1, <2>1, SendKeepsStart, PopKeepsStart DEF Next
<1> QED
  BY <1>1, RunCorrect, InitStarts, TypeCorrect, PTL DEF Spec

(* A decoder that fails keeps the raw data and a loss throws it away: with *)
(* nothing but padding between frames, the raw data, and so every picture, *)
(* starts with the first packet of a frame all the same.                   *)
THEOREM PicturesStartAtFrame ==
  ASSUME OnlyPadding
  PROVE  Spec => []StartsAtFrame
<1>1. StartInv => StartsAtFrame
  BY DEF StartInv
<1> QED
  BY <1>1, StartCorrect, PTL


-----------------------------------------------------------------------------
(* The asserts.                                                            *)

(* No packet of padding comes right behind one that was lost.              *)
NothingHidden ==
  \A j \in taken : sent[j].kind = "padding" => j = 1 \/ j - 1 \in taken

(* What is kept of a frame is its beginning, up to the newest packet.      *)
KeptIsFrame ==
  Vp8RawData # << >> =>
    \E a, z \in DOMAIN sent :
      /\ FrameAt(a, z) /\ a <= newest /\ newest < z
      /\ Len(Vp8RawData) = newest - a + 1

SizeKnown == ~RequestKeyFrame => sized

BufferInv == KeptIsFrame /\ SizeKnown /\ NoAssertFails

(* Every frame fits the buffer. *)
FramesFit == FrameLengths \subseteq 1 .. VP8RawDataLen

LEMMA PopKeepsBuffer ==
  ASSUME FramesFit, DecoderMayFail = FALSE,
         TypeOK, RunInv, StartInv, BufferInv, NothingHidden', Pop
  PROVE  BufferInv'
<1>1. PICK i \in DOMAIN sent :
        /\ i \in Nat /\ newest < i /\ i <= newest + Reach
        /\ taken' = taken \cup {i} /\ newest' = i /\ sent' = sent
        /\ Handles(sent[i], i)
  BY PopHandles
<1>2. /\ ~aborted /\ Layout /\ BetweenFrames /\ KeptIsFrame /\ SizeKnown /\ Linked
      /\ Vp8RawData \in Seq(taken) /\ newest \in Nat /\ taken \subseteq DOMAIN sent
      /\ DOMAIN sent \subseteq Nat /\ \A j \in taken : j <= newest
  <2>1. sent \in Seq(Packets) /\ taken \subseteq DOMAIN sent /\ newest \in {0} \cup taken
        /\ Vp8RawData \in Seq(taken)
    BY DEF TypeOK
  <2>2. DOMAIN sent \subseteq Nat
    BY <2>1
  <2>3. newest \in Nat
    BY <2>1, <2>2
  <2>4. ~aborted /\ Linked
    BY DEF Pop, RunInv
  <2> QED
    BY <2>1, <2>2, <2>3, <2>4 DEF RunInv, StartInv, BufferInv
<1>3. PICK p : p = sent[i]
  OBVIOUS
<1>4. \A a, z \in DOMAIN sent : FrameAt(a, z)' <=> FrameAt(a, z)
  BY <1>1, <1>2, PopKeepsLayout
<1>5. CASE Skips(p)
  <2>1. /\ p.kind = "padding" \/ RequestKeyFrame
        /\ UNCHANGED << RequestKeyFrame, sized, Vp8RawData, aborted >>
    BY <1>5, Zenon DEF Skips
  <2>2. Vp8RawData = << >>
    <3>1. CASE RequestKeyFrame
      BY <1>2, <3>1 DEF Linked
    <3>2. CASE p.kind = "padding" /\ Vp8RawData # << >>
      <4>1. PICK a \in DOMAIN sent : \E z \in DOMAIN sent :
              FrameAt(a, z) /\ a <= newest /\ newest < z
        BY <1>2, <3>2 DEF KeptIsFrame
      <4>2. PICK z \in DOMAIN sent : FrameAt(a, z) /\ a <= newest /\ newest < z
        BY <4>1
      <4>3. a \in Nat /\ z \in Nat /\ a > 0
        <5>1. sent \in Seq(Packets)
          BY DEF TypeOK
        <5> QED
          BY <1>2, <5>1
      <4>4. i = 1 \/ i - 1 \in taken'
        BY <1>1, <1>3, <3>2 DEF NothingHidden
      <4>5. i = newest + 1
        BY <1>1, <1>2, <4>2, <4>3, <4>4
      <4>6. a <= i /\ i <= z
        BY <1>1, <1>2, <4>2, <4>3, <4>5
      <4>7. sent[i].kind = "data"
        BY <4>2, <4>6, Zenon DEF FrameAt
      <4> QED
        BY <1>3, <3>2, <4>7
    <3> QED
      BY <2>1, <3>1, <3>2
  <2>3. KeptIsFrame'
    BY <2>1, <2>2 DEF KeptIsFrame
  <2>4. SizeKnown' /\ NoAssertFails'
    BY <1>2, <2>1, Zenon DEF SizeKnown, NoAssertFails
  <2> QED
    BY <2>3, <2>4 DEF BufferInv
<1>6. CASE Breaks(p, i)
  <2>1. RequestKeyFrame' = TRUE /\ Vp8RawData' = << >> /\ aborted' = aborted
    BY <1>6 DEF Breaks
  <2> QED
    BY <1>2, <2>1 DEF BufferInv, KeptIsFrame, SizeKnown, NoAssertFails
<1>7. ASSUME Fits(p, i)
      PROVE  /\ \E a, z \in DOMAIN sent :
                  /\ FrameAt(a, z) /\ a <= i /\ i <= z
                  /\ Len(Vp8RawData) + 1 = i - a + 1
             /\ ~TooBig /\ ~Unsized(p)
             /\ sized \/ StartsKeyFrame(p)
  <2>1. PICK a \in DOMAIN sent : \E z \in DOMAIN sent :
          /\ FrameAt(a, z) /\ a <= i /\ i <= z
          /\ Len(Vp8RawData) + 1 = i - a + 1
    <3>1. CASE Vp8RawData = << >>
      <4>1. p.first /\ p.kind = "data"
        BY <1>2, <1>3, <1>7, <3>1, FirstPayload DEF Fits
      <4>2. PICK a \in DOMAIN sent : \E z \in DOMAIN sent : FrameAt(a, z) /\ a <= i /\ i <= z
        BY <1>2, <1>3, <4>1 DEF Layout
      <4>3. PICK z \in DOMAIN sent : FrameAt(a, z) /\ a <= i /\ i <= z
        BY <4>2
      <4>4. i = a
        BY <1>3, <4>1, <4>3, Zenon DEF FrameAt
      <4>5. Len(Vp8RawData) + 1 = i - a + 1
        BY <1>2, <3>1, <4>4
      <4> QED
        BY <4>3, <4>5
    <3>2. CASE Vp8RawData # << >>
      <4>1. i = newest + 1
        BY <1>7, <3>2, <1>2 DEF Fits
      <4>2. PICK a \in DOMAIN sent : \E z \in DOMAIN sent :
              /\ FrameAt(a, z) /\ a <= newest /\ newest < z
              /\ Len(Vp8RawData) = newest - a + 1
        BY <1>2, <3>2 DEF KeptIsFrame
      <4>3. PICK z \in DOMAIN sent :
              /\ FrameAt(a, z) /\ a <= newest /\ newest < z
              /\ Len(Vp8RawData) = newest - a + 1
        BY <4>2
      <4>4. a \in Nat /\ z \in Nat
        BY <1>2
      <4>5. a <= i /\ i <= z /\ Len(Vp8RawData) + 1 = i - a + 1
        BY <1>2, <4>1, <4>3, <4>4
      <4> QED
        BY <4>3, <4>5
    <3> QED
      BY <3>1, <3>2
  <2>2. PICK z \in DOMAIN sent :
          /\ FrameAt(a, z) /\ a <= i /\ i <= z
          /\ Len(Vp8RawData) + 1 = i - a + 1
    BY <2>1
  <2>3. z - a + 1 \in Nat /\ z - a + 1 <= VP8RawDataLen
    <3>1. z - a + 1 \in FrameLengths
      BY <2>2 DEF FrameAt
    <3>2. z - a + 1 \in 1 .. VP8RawDataLen
      BY <3>1 DEF FramesFit
    <3> QED
      BY <3>2, Vp8Assumption
  <2>4. ~TooBig
    <3>1. a \in Nat /\ z \in Nat
      BY <1>2
    <3> QED
      BY <1>1, <2>2, <2>3, <3>1, Vp8Assumption DEF TooBig
  <2>5. sized \/ StartsKeyFrame(p)
    BY <1>2, <1>7, Zenon DEF Fits, SizeKnown
  <2>6. ~Unsized(p)
    BY <2>5, Zenon DEF Unsized
  <2> QED
    BY <2>2, <2>4, <2>5, <2>6
<1>8. CASE Fits(p, i) /\ Fails(p)
  BY <1>7, <1>8, Zenon DEF Fails
<1>9. CASE Fits(p, i) /\ Keeps(p, i)
  <2>1. PICK a \in DOMAIN sent : \E z \in DOMAIN sent :
          /\ FrameAt(a, z) /\ a <= i /\ i <= z
          /\ Len(Vp8RawData) + 1 = i - a + 1
    BY <1>7, <1>9
  <2>2. PICK z \in DOMAIN sent :
          /\ FrameAt(a, z) /\ a <= i /\ i <= z
          /\ Len(Vp8RawData) + 1 = i - a + 1
    BY <2>1
  <2>3. aborted' = aborted /\ sized'
    BY <1>7, <1>9, Zenon DEF Keeps
  <2>4. \/ ~p.marker /\ Vp8RawData' = Append(Vp8RawData, i)
        \/ Vp8RawData' = << >>
    BY <1>9, Zenon DEF Keeps
  <2>5. CASE ~p.marker /\ Vp8RawData' = Append(Vp8RawData, i)
    <3>1. i # z
      BY <1>3, <2>2, <2>5, Zenon DEF FrameAt
    <3>2. i < z
      <4>1. z \in Nat
        BY <1>2
      <4> QED
        BY <1>1, <2>2, <3>1, <4>1
    <3>3. Len(Append(Vp8RawData, i)) = Len(Vp8RawData) + 1
      BY <1>2, AppendOf
    <3>4. Len(Vp8RawData') = newest' - a + 1
      BY <1>1, <2>2, <2>5, <3>3
    <3>5. FrameAt(a, z)'
      BY <1>4, <2>2
    <3>6. KeptIsFrame'
      BY <1>1, <2>2, <3>2, <3>4, <3>5 DEF KeptIsFrame
    <3> QED
      BY <1>2, <2>3, <3>6 DEF BufferInv, SizeKnown, NoAssertFails
  <2>6. CASE Vp8RawData' = << >>
    BY <1>2, <2>3, <2>6 DEF BufferInv, KeptIsFrame, SizeKnown, NoAssertFails
  <2> QED
    BY <2>4, <2>5, <2>6
<1> QED
  BY <1>1, <1>3, <1>5, <1>6, <1>8, <1>9, Zenon DEF Handles

LEMMA SendKeepsBuffer ==
  ASSUME TypeOK, OnlyPadding, Layout, BufferInv, SendFrame \/ SendFiller
  PROVE  BufferInv'
<1>1. DOMAIN sent \subseteq DOMAIN sent' /\ UNCHANGED << newest, vp8Vars >>
  BY SendSteps
<1>2. /\ newest' = newest /\ Vp8RawData' = Vp8RawData /\ sized' = sized
      /\ RequestKeyFrame' = RequestKeyFrame /\ aborted' = aborted
  BY <1>1 DEF vp8Vars
<1>3. KeptIsFrame'
  <2>1. SUFFICES ASSUME Vp8RawData # << >>
                 PROVE  \E a, z \in DOMAIN sent' :
                          /\ FrameAt(a, z)' /\ a <= newest /\ newest < z
                          /\ Len(Vp8RawData) = newest - a + 1
    BY <1>2 DEF KeptIsFrame
  <2>2. PICK a \in DOMAIN sent : \E z \in DOMAIN sent :
          /\ FrameAt(a, z) /\ a <= newest /\ newest < z
          /\ Len(Vp8RawData) = newest - a + 1
    BY <2>1 DEF BufferInv, KeptIsFrame
  <2>3. PICK z \in DOMAIN sent :
          /\ FrameAt(a, z) /\ a <= newest /\ newest < z
          /\ Len(Vp8RawData) = newest - a + 1
    BY <2>2
  <2>4. FrameAt(a, z)'
    BY <2>3, FrameAtStays
  <2> QED
    BY <1>1, <2>3, <2>4
<1> QED
  BY <1>2, <1>3 DEF BufferInv, SizeKnown, NoAssertFails

(* With nothing but padding between frames, neither assert fails if every  *)
(* frame fits the buffer, the decoder does not fail (one that does keeps   *)
(* the raw data of every frame: run vp8_toobig) and no loss is hidden      *)
(* behind padding (then frame after frame may be kept without its end).    *)
THEOREM BufferHolds ==
  ASSUME OnlyPadding, FramesFit, DecoderMayFail = FALSE
  PROVE  Spec /\ []NothingHidden => []NoAssertFails
<1>1. Init => BufferInv
  BY DEF Init, BufferInv, KeptIsFrame, SizeKnown, NoAssertFails
<1>2. ASSUME TypeOK, RunInv, StartInv, BufferInv, NothingHidden', [Next]_vars
      PROVE  BufferInv'
  <2>1. CASE UNCHANGED vars
    <3>1. /\ sent' = sent /\ newest' = newest /\ Vp8RawData' = Vp8RawData
          /\ aborted' = aborted /\ sized' = sized /\ RequestKeyFrame' = RequestKeyFrame
      BY <2>1 DEF vars, vp8Vars
    <3>2. \A a, z \in DOMAIN sent : FrameAt(a, z)' <=> FrameAt(a, z)
      BY <1>2, <3>1, PopKeepsLayout DEF StartInv
    <3> QED
      BY <1>2, <3>1, <3>2 DEF BufferInv, KeptIsFrame, SizeKnown, NoAssertFails
  <2>2. CASE Pop
    BY <1>2, <2>2, PopKeepsBuffer
  <2>3. CASE SendFrame \/ SendFiller
    BY <1>2, <2>3, SendKeepsBuffer DEF StartInv
  <2> QED
    BY <1>2, <2>1, <2>2, <2>3 DEF Next
<1>3. BufferInv => NoAssertFails
  BY DEF BufferInv
<1> QED
  BY <1>1, <1>2, <1>3, TypeCorrect, RunCorrect, StartCorrect, PTL DEF Spec


-----------------------------------------------------------------------------
(* No loss, no harm.                                                       *)

(* The picture before the frame at a was decoded: its last packet was, and *)
(* between the two there is nothing but padding.                           *)
PreviousDecoded(a) ==
  \E y \in taken :
    /\ y < a /\ sent[y].marker
    /\ \A k \in DOMAIN sent : y < k /\ k < a => sent[k].kind = "padding"
    /\ \E d \in Range(decoded) : y \in Range(d)

Begun(a) == (\A j \in taken : a <= j) \/ a - 1 \in taken

(* So far the frame has arrived whole, behind an accepted packet, and can  *)
(* be decoded.                                                             *)
Arriving(a, z) ==
  /\ a \in taken /\ Begun(a)
  /\ \A k \in DOMAIN sent : a <= k /\ k <= z /\ k <= newest => k \in taken
  /\ sent[a].key \/ PreviousDecoded(a)

IsKept(a) ==
  /\ ~RequestKeyFrame
  /\ \A k \in DOMAIN sent : a <= k /\ k <= newest => k \in Range(Vp8RawData)

IsPictured(a, z) ==
  \E d \in Range(decoded) :
    \A k \in DOMAIN sent : a <= k /\ k <= z => k \in Range(d)

WholeFrames ==
  \A a, z \in DOMAIN sent :
    FrameAt(a, z) /\ Arriving(a, z) =>
      IF z <= newest THEN IsPictured(a, z) ELSE IsKept(a)

(* The end of a frame is not kept; and behind a picture no key frame is    *)
(* waited for until another packet of a frame comes.                       *)
EndsDecoded ==
  /\ \A k \in Range(Vp8RawData) : ~sent[k].marker
  /\ \A d \in Range(decoded) : \A y \in Range(d) :
       /\ sent[y].marker
       /\ \A j \in taken : y < j => sent[j].kind = "padding"
       => ~RequestKeyFrame

WholeInv == WholeFrames /\ EndsDecoded

(* The packets and payloads the invariants speak of.                       *)
LEMMA PlacesTyped ==
  ASSUME TypeOK
  PROVE  /\ DOMAIN sent \subseteq Nat \ {0} /\ taken \subseteq DOMAIN sent
         /\ newest \in Nat /\ newest \in {0} \cup taken
         /\ Vp8RawData \in Seq(taken) /\ decoded \in Seq(Seq(taken))
         /\ Range(Vp8RawData) \subseteq taken
         /\ \A d \in Range(decoded) : Range(d) \subseteq taken
<1>1. /\ sent \in Seq(Packets) /\ taken \subseteq DOMAIN sent
      /\ newest \in {0} \cup taken
      /\ Vp8RawData \in Seq(taken) /\ decoded \in Seq(Seq(taken))
  BY DEF TypeOK
<1>2. DOMAIN sent \subseteq Nat \ {0}
  BY <1>1
<1>3. newest \in Nat
  BY <1>1, <1>2
<1>4. Range(Vp8RawData) \subseteq taken
  BY <1>1 DEF Range
<1>5. ASSUME NEW d \in Range(decoded) PROVE Range(d) \subseteq taken
  <2>1. d \in Seq(taken)
    BY <1>1 DEF Range
  <2> QED
    BY <2>1 DEF Range
<1> QED
  BY <1>1, <1>2, <1>3, <1>4, <1>5

(* What a call leaves of the raw data and the pictures, as sets.           *)
Grows(i) ==
  \/ /\ Range(Vp8RawData') = Range(Vp8RawData) \cup {i} /\ ~sent[i].marker
     /\ decoded' = decoded
  \/ /\ Range(Vp8RawData') = {} /\ sent[i].marker
     /\ \E e : Range(e) = Range(Vp8RawData) \cup {i}
               /\ Range(decoded') = Range(decoded) \cup {e}

Passes(i) ==
  /\ sent[i].kind = "padding" \/ (RequestKeyFrame /\ ~StartsKeyFrame(sent[i]))
  /\ UNCHANGED << RequestKeyFrame, Vp8RawData, decoded >>

Misses(i) ==
  /\ sent[i].kind = "data" /\ ~RequestKeyFrame /\ i # newest + 1
  /\ Vp8RawData' = << >> /\ decoded' = decoded

Takes(i) ==
  /\ newest < i /\ taken' = taken \cup {i} /\ newest' = i /\ sent' = sent
  /\ \/ Passes(i)
     \/ Misses(i)
     \/ sent[i].kind = "data" /\ ~RequestKeyFrame' /\ Grows(i)

LEMMA PopGrows ==
  ASSUME DecoderMayFail = FALSE, TypeOK, RunInv, Pop, NoAssertFails'
  PROVE  \E i \in DOMAIN sent : Takes(i)
<1>1. PICK i \in DOMAIN sent :
        /\ i \in Nat /\ newest < i /\ i <= newest + Reach
        /\ taken' = taken \cup {i} /\ newest' = i /\ sent' = sent
        /\ Handles(sent[i], i)
  BY PopHandles
<1>2. PICK p : p = sent[i]
  OBVIOUS
<1>3. PICK e : e = Append(Vp8RawData, i)
  OBVIOUS
<1>4. Vp8RawData \in Seq(taken) /\ decoded \in Seq(Seq(taken))
  BY DEF TypeOK
<1>5. Range(e) = Range(Vp8RawData) \cup {i}
  <2>1. Range(Append(Vp8RawData, i)) = Range(Vp8RawData) \cup {i}
    BY <1>4, RangeOfAppend
  <2> QED
    BY <1>3, <2>1
<1>6. CASE Skips(p)
  BY <1>1, <1>2, <1>6, Zenon DEF Skips, Takes, Passes
<1>7. CASE Breaks(p, i)
  BY <1>1, <1>2, <1>7, Zenon DEF Breaks, Takes, Misses
<1>8. ~Fails(p)
  BY Zenon DEF Fails, NoAssertFails
<1>9. CASE Fits(p, i) /\ Keeps(p, i)
  <2>1. p.kind = "data" /\ RequestKeyFrame' = FALSE
    BY <1>9 DEF Fits, Keeps
  <2>2. \/ ~p.marker /\ Vp8RawData' = e /\ decoded' = decoded
        \/ p.marker /\ decoded' = Append(decoded, e) /\ Vp8RawData' = << >>
    BY <1>3, <1>9, Zenon DEF Keeps
  <2>3. CASE ~p.marker /\ Vp8RawData' = e /\ decoded' = decoded
    BY <1>1, <1>2, <1>5, <2>1, <2>3, Zenon DEF Grows, Takes
  <2>4. CASE p.marker /\ decoded' = Append(decoded, e) /\ Vp8RawData' = << >>
    <3>1. Range(Append(decoded, e)) = Range(decoded) \cup {e}
      BY <1>4, RangeOfAppend
    <3>2. Range(Vp8RawData') = {}
      BY <2>4 DEF Range
    <3>3. Grows(i)
      BY <1>2, <1>5, <2>4, <3>1, <3>2 DEF Grows
    <3> QED
      BY <1>1, <1>2, <2>1, <3>3, Zenon DEF Takes
  <2> QED
    BY <2>2, <2>3, <2>4
<1> QED
  BY <1>1, <1>2, <1>6, <1>7, <1>8, <1>9, Zenon DEF Handles


(* What was decoded before a frame was decoded before its packets came.    *)
LEMMA PreviousWasDecoded ==
  ASSUME TypeOK, EndsDecoded, \A j \in taken : j <= newest,
         NEW i \in DOMAIN sent, newest < i, taken' = taken \cup {i}, sent' = sent,
         decoded' = decoded \/ Grows(i),
         NEW a \in DOMAIN sent, a <= i, PreviousDecoded(a)'
  PROVE  PreviousDecoded(a)
<1>1. DOMAIN sent \subseteq Nat /\ taken \subseteq DOMAIN sent
  BY PlacesTyped
<1>2. PICK y \in taken' :
        /\ y < a /\ sent[y].marker
        /\ \A k \in DOMAIN sent : y < k /\ k < a => sent[k].kind = "padding"
        /\ \E d \in Range(decoded') : y \in Range(d)
  BY DEF PreviousDecoded
<1>3. y \in taken /\ y # i
  <2>1. y \in Nat /\ i \in Nat /\ a \in Nat
    BY <1>1, <1>2
  <2> QED
    BY <1>2, <2>1
<1>4. PICK d \in Range(decoded') : y \in Range(d)
  BY <1>2
<1>5. y \notin Range(Vp8RawData)
  BY <1>2 DEF EndsDecoded
<1>6. \E d1 \in Range(decoded) : y \in Range(d1)
  <2>1. CASE decoded' = decoded
    BY <1>4, <2>1
  <2>2. CASE Grows(i)
    <3>1. CASE decoded' = decoded
      BY <1>4, <3>1
    <3>2. CASE \E e : /\ Range(e) = Range(Vp8RawData) \cup {i}
                      /\ Range(decoded') = Range(decoded) \cup {e}
      <4>1. PICK e : /\ Range(e) = Range(Vp8RawData) \cup {i}
                     /\ Range(decoded') = Range(decoded) \cup {e}
        BY <3>2
      <4>2. y \notin Range(e)
        BY <1>3, <1>5, <4>1
      <4> QED
        BY <1>4, <4>1, <4>2
    <3> QED
      BY <2>2, <3>1, <3>2, Zenon DEF Grows
  <2> QED
    BY <2>1, <2>2
<1> QED
  BY <1>2, <1>3, <1>6 DEF PreviousDecoded

LEMMA WasArriving ==
  ASSUME TypeOK, EndsDecoded, \A j \in taken : j <= newest,
         NEW i \in DOMAIN sent, newest < i, taken' = taken \cup {i}, newest' = i,
         sent' = sent, decoded' = decoded \/ Grows(i),
         NEW a \in DOMAIN sent, NEW z \in DOMAIN sent, a <= newest, Arriving(a, z)'
  PROVE  Arriving(a, z)
<1>1. /\ DOMAIN sent \subseteq Nat /\ taken \subseteq DOMAIN sent /\ newest \in Nat
      /\ a \in Nat /\ i \in Nat
  BY PlacesTyped
<1>2. a \in taken /\ Begun(a)
  <2>1. a \in taken /\ a - 1 # i
    BY <1>1 DEF Arriving
  <2> QED
    BY <2>1 DEF Arriving, Begun
<1>3. ASSUME NEW k \in DOMAIN sent, a <= k, k <= z, k <= newest
      PROVE  k \in taken
  <2>1. k <= i /\ k # i
    BY <1>1, <1>3
  <2> QED
    BY <1>3, <2>1 DEF Arriving
<1>4. sent[a].key \/ PreviousDecoded(a)
  <2>1. a <= i
    BY <1>1
  <2>2. sent[a].key \/ PreviousDecoded(a)'
    BY DEF Arriving
  <2> QED
    BY <2>1, <2>2, PreviousWasDecoded
<1> QED
  BY <1>2, <1>3, <1>4 DEF Arriving


(* The first packet of a frame that can be decoded is accepted, ...        *)
LEMMA FrameBegins ==
  ASSUME TypeOK, EndsDecoded, Linked, \A j \in taken : j <= newest,
         NEW i \in DOMAIN sent, Takes(i),
         NEW a \in DOMAIN sent, NEW z \in DOMAIN sent, FrameAt(a, z), Arriving(a, z)',
         newest < a
  PROVE  a = i /\ ~RequestKeyFrame' /\ Grows(i)
<1>1. /\ DOMAIN sent \subseteq Nat /\ taken \subseteq DOMAIN sent /\ newest \in Nat
      /\ a \in Nat /\ z \in Nat /\ i \in Nat /\ a <= z
      /\ newest < i /\ taken' = taken \cup {i} /\ newest' = i /\ sent' = sent
  BY PlacesTyped DEF FrameAt, Takes
<1>2. a = i
  BY <1>1 DEF Arriving
<1>3. sent[a].kind = "data" /\ sent[a].first
  <2>1. a <= a
    BY <1>1
  <2> QED
    BY <1>1, <2>1, Zenon DEF FrameAt
<1>4. ~Misses(i)
  <2>1. CASE \A j \in taken' : a <= j
    <3>1. newest \notin taken
      BY <1>1, <2>1
    <3> QED
      BY <3>1 DEF Linked, Misses
  <2>2. CASE a - 1 \in taken'
    <3>1. a - 1 \in taken
      BY <1>1, <1>2, <2>2
    <3>2. a = newest + 1
      BY <1>1, <3>1
    <3> QED
      BY <1>2, <3>2 DEF Misses
  <2> QED
    BY <2>1, <2>2 DEF Arriving, Begun
<1>5. ASSUME Passes(i) PROVE FALSE
  <2>1. /\ RequestKeyFrame /\ ~sent[a].key /\ decoded' = decoded
    BY <1>2, <1>3, <1>5 DEF Passes, StartsKeyFrame
  <2>2. PreviousDecoded(a)'
    BY <1>1, <2>1 DEF Arriving
  <2>3. PreviousDecoded(a)
    BY <1>1, <1>2, <2>1, <2>2, PreviousWasDecoded
  <2>4. PICK y \in taken :
          /\ y < a /\ sent[y].marker
          /\ \A k \in DOMAIN sent : y < k /\ k < a => sent[k].kind = "padding"
          /\ \E d \in Range(decoded) : y \in Range(d)
    BY <2>3 DEF PreviousDecoded
  <2>5. ASSUME NEW j \in taken, y < j PROVE sent[j].kind = "padding"
    <3>1. j \in DOMAIN sent /\ j < a
      BY <1>1
    <3> QED
      BY <2>4, <2>5, <3>1
  <2>6. ~RequestKeyFrame
    BY <2>4, <2>5 DEF EndsDecoded
  <2> QED
    BY <2>1, <2>6
<1> QED
  BY <1>2, <1>4, <1>5 DEF Takes

(* ... and so are those that follow.                                       *)
LEMMA FrameGoesOn ==
  ASSUME TypeOK, EndsDecoded, WholeFrames, \A j \in taken : j <= newest,
         NEW i \in DOMAIN sent, Takes(i),
         NEW a \in DOMAIN sent, NEW z \in DOMAIN sent, FrameAt(a, z), Arriving(a, z)',
         a <= newest
  PROVE  IF z <= newest THEN IsPictured(a, z)
         ELSE i = newest + 1 /\ i <= z /\ IsKept(a) /\ ~RequestKeyFrame' /\ Grows(i)
<1>1. /\ DOMAIN sent \subseteq Nat /\ taken \subseteq DOMAIN sent /\ newest \in Nat
      /\ DOMAIN sent = 1 .. Len(sent) /\ Len(sent) \in Nat
      /\ a \in Nat /\ z \in Nat /\ i \in Nat /\ a <= z
      /\ newest < i /\ taken' = taken \cup {i} /\ newest' = i /\ sent' = sent
  <2>1. sent \in Seq(Packets)
    BY DEF TypeOK
  <2> QED
    BY <2>1, PlacesTyped DEF FrameAt, Takes
<1>2. decoded' = decoded \/ Grows(i)
  BY DEF Takes, Passes, Misses
<1>3. Arriving(a, z)
  BY <1>1, <1>2, WasArriving
<1>4. CASE z <= newest
  BY <1>3, <1>4 DEF WholeFrames
<1>5. CASE ~(z <= newest)
  <2>1. PICK k \in DOMAIN sent : k = newest + 1
    <3>1. newest + 1 \in DOMAIN sent
      BY <1>1
    <3> QED
      BY <3>1
  <2>2. a <= k /\ k <= z /\ k <= i
    BY <1>1, <1>5, <2>1
  <2>3. k \in taken'
    BY <1>1, <2>2 DEF Arriving
  <2>4. k = i
    BY <1>1, <2>1, <2>3
  <2>5. sent[i].kind = "data"
    BY <2>2, <2>4, Zenon DEF FrameAt
  <2>6. IsKept(a)
    BY <1>3, <1>5 DEF WholeFrames
  <2>7. ~Passes(i) /\ ~Misses(i)
    BY <2>1, <2>4, <2>5, <2>6 DEF IsKept, Passes, Misses
  <2> QED
    BY <1>5, <2>1, <2>2, <2>4, <2>6, <2>7 DEF Takes
<1> QED
  BY <1>4, <1>5

LEMMA PopKeepsWhole ==
  ASSUME DecoderMayFail = FALSE,
         TypeOK, RunInv, Layout, WholeInv, Pop, NoAssertFails'
  PROVE  WholeInv'
<1>1. PICK i \in DOMAIN sent : Takes(i)
  BY PopGrows
<1>2. /\ DOMAIN sent \subseteq Nat /\ taken \subseteq DOMAIN sent /\ newest \in Nat
      /\ i \in Nat /\ Range(Vp8RawData) \subseteq taken
      /\ \A d \in Range(decoded) : Range(d) \subseteq taken
      /\ newest < i /\ taken' = taken \cup {i} /\ newest' = i /\ sent' = sent
  BY <1>1, PlacesTyped DEF Takes
<1>3. (\A j \in taken : j <= newest) /\ Linked /\ WholeFrames /\ EndsDecoded
  BY DEF Pop, RunInv, WholeInv
<1>4. EndsDecoded'
  <2>1. CASE Passes(i)
    BY <1>2, <1>3, <2>1 DEF EndsDecoded, Passes
  <2>2. CASE Misses(i)
    <3>1. Range(Vp8RawData') = {} /\ decoded' = decoded /\ sent[i].kind = "data"
      BY <2>2 DEF Misses, Range
    <3>2. \A d \in Range(decoded) : \A y \in Range(d) : y < i
      BY <1>2, <1>3
    <3> QED
      BY <1>2, <3>1, <3>2 DEF EndsDecoded
  <2>3. CASE ~RequestKeyFrame' /\ Grows(i)
    <3>1. \A k \in Range(Vp8RawData') : ~sent[k].marker
      BY <1>3, <2>3 DEF EndsDecoded, Grows
    <3> QED
      BY <1>2, <2>3, <3>1 DEF EndsDecoded
  <2> QED
    BY <1>1, <2>1, <2>2, <2>3 DEF Takes
<1>5. ASSUME NEW d \in Range(decoded) PROVE d \in Range(decoded')
  <2>1. decoded' = decoded \/ \E e : Range(decoded') = Range(decoded) \cup {e}
    BY <1>1, Zenon DEF Takes, Passes, Misses, Grows
  <2> QED
    BY <2>1
<1>6. ASSUME NEW a \in DOMAIN sent, NEW z \in DOMAIN sent, FrameAt(a, z), Arriving(a, z)'
      PROVE  IF z <= i THEN IsPictured(a, z)' ELSE IsKept(a)'
  <2>1. a \in Nat /\ z \in Nat /\ a <= z
    BY <1>2, <1>6 DEF FrameAt
  <2>2. CASE z <= newest
    <3>1. IsPictured(a, z)
      BY <1>1, <1>2, <1>3, <1>6, <2>1, <2>2, FrameGoesOn
    <3>2. IsPictured(a, z)'
      BY <1>2, <1>5, <3>1 DEF IsPictured
    <3> QED
      BY <1>2, <2>1, <2>2, <3>2
  <2>3. ASSUME newest < z
        PROVE  /\ a <= i /\ i <= z /\ ~RequestKeyFrame' /\ Grows(i)
               /\ \A k \in DOMAIN sent : a <= k /\ k <= i => k \in Range(Vp8RawData) \cup {i}
    <3>1. CASE newest < a
      <4>1. a = i /\ ~RequestKeyFrame' /\ Grows(i)
        BY <1>1, <1>3, <1>6, <3>1, FrameBegins
      <4> QED
        BY <1>2, <2>1, <4>1
    <3>2. CASE a <= newest
      <4>1. i = newest + 1 /\ i <= z /\ IsKept(a) /\ ~RequestKeyFrame' /\ Grows(i)
        <5>1. ~(z <= newest)
          BY <1>2, <2>1, <2>3
        <5> QED
          BY <1>1, <1>3, <1>6, <3>2, <5>1, FrameGoesOn
      <4>2. ASSUME NEW k \in DOMAIN sent, a <= k, k <= i
            PROVE  k \in Range(Vp8RawData) \cup {i}
        <5>1. k = i \/ k <= newest
          BY <1>2, <4>1, <4>2
        <5> QED
          BY <4>1, <4>2, <5>1 DEF IsKept
      <4> QED
        BY <1>2, <2>1, <3>2, <4>1, <4>2
    <3> QED
      BY <1>2, <2>1, <3>1, <3>2
  <2>4. CASE newest < z
    <3>1. sent[i].marker = (i = z)
      BY <1>6, <2>3, <2>4, Zenon DEF FrameAt
    <3>2. CASE i = z
      <4>1. PICK e : /\ Range(e) = Range(Vp8RawData) \cup {i}
                     /\ Range(decoded') = Range(decoded) \cup {e}
        BY <2>3, <2>4, <3>1, <3>2 DEF Grows
      <4>2. \A k \in DOMAIN sent : a <= k /\ k <= z => k \in Range(e)
        BY <2>3, <2>4, <3>2, <4>1
      <4>3. IsPictured(a, z)'
        BY <1>2, <4>1, <4>2 DEF IsPictured
      <4> QED
        BY <2>1, <3>2, <4>3
    <3>3. CASE i # z
      <4>1. Range(Vp8RawData') = Range(Vp8RawData) \cup {i}
        BY <2>3, <2>4, <3>1, <3>3 DEF Grows
      <4>2. IsKept(a)'
        BY <1>2, <2>3, <2>4, <4>1 DEF IsKept
      <4>3. ~(z <= i)
        BY <1>2, <2>1, <2>3, <2>4, <3>3
      <4> QED
        BY <4>2, <4>3
    <3> QED
      BY <3>2, <3>3
  <2> QED
    BY <1>2, <2>1, <2>2, <2>4
<1>7. WholeFrames'
  <2>1. \A a, z \in DOMAIN sent : FrameAt(a, z)' <=> FrameAt(a, z)
    BY <1>2, PopKeepsLayout
  <2> QED
    BY <1>2, <1>6, <2>1 DEF WholeFrames
<1> QED
  BY <1>4, <1>7 DEF WholeInv


LEMMA SendKeepsWhole ==
  ASSUME TypeOK, TypeOK', OnlyPadding, Layout, WholeInv, SendFrame \/ SendFiller
  PROVE  WholeInv'
<1>1. /\ \A k \in DOMAIN sent : sent'[k] = sent[k]
      /\ DOMAIN sent \subseteq DOMAIN sent'
      /\ taken' = taken /\ newest' = newest /\ Vp8RawData' = Vp8RawData
      /\ decoded' = decoded /\ RequestKeyFrame' = RequestKeyFrame
  BY SendSteps DEF vp8Vars
<1>2. /\ taken \subseteq DOMAIN sent /\ newest \in {0} \cup taken
      /\ Range(Vp8RawData) \subseteq taken
      /\ \A d \in Range(decoded) : Range(d) \subseteq taken
      /\ WholeFrames /\ EndsDecoded
  BY PlacesTyped DEF WholeInv
<1>3. ASSUME NEW k \in DOMAIN sent', NEW z \in {0} \cup DOMAIN sent, k <= z
      PROVE  k \in DOMAIN sent
  <2>1. sent \in Seq(Packets) /\ sent' \in Seq(Packets)
    BY DEF TypeOK
  <2>2. DOMAIN sent = 1 .. Len(sent) /\ Len(sent) \in Nat /\ k \in Nat \ {0}
    BY <2>1
  <2> QED
    BY <1>3, <2>2
<1>4. EndsDecoded'
  BY <1>1, <1>2 DEF EndsDecoded
<1>5. ASSUME NEW a \in DOMAIN sent', NEW z \in DOMAIN sent', FrameAt(a, z)', Arriving(a, z)'
      PROVE  IF z <= newest THEN IsPictured(a, z)' ELSE IsKept(a)'
  <2>1. a \in taken /\ a \in DOMAIN sent
    BY <1>1, <1>2, <1>5 DEF Arriving
  <2>2. z \in DOMAIN sent /\ FrameAt(a, z)
    BY <1>5, <2>1, FrameWasAt
  <2>3. Begun(a)
    BY <1>1, <1>5 DEF Arriving, Begun
  <2>4. \A k \in DOMAIN sent : a <= k /\ k <= z /\ k <= newest => k \in taken
    BY <1>1, <1>5 DEF Arriving
  <2>5. sent[a].key \/ PreviousDecoded(a)
    <3>1. sent[a].key \/ PreviousDecoded(a)'
      BY <1>1, <1>5, <2>1 DEF Arriving
    <3>2. PreviousDecoded(a)' => PreviousDecoded(a)
      BY <1>1, <1>2 DEF PreviousDecoded
    <3> QED
      BY <3>1, <3>2
  <2>6. Arriving(a, z)
    BY <2>1, <2>3, <2>4, <2>5 DEF Arriving
  <2>7. CASE z <= newest
    <3>1. IsPictured(a, z)
      BY <1>2, <2>1, <2>2, <2>6, <2>7 DEF WholeFrames
    <3>2. IsPictured(a, z)'
      BY <1>1, <1>3, <2>2, <3>1 DEF IsPictured
    <3> QED
      BY <2>7, <3>2
  <2>8. CASE ~(z <= newest)
    <3>1. IsKept(a)
      BY <1>2, <2>1, <2>2, <2>6, <2>8 DEF WholeFrames
    <3>2. newest \in {0} \cup DOMAIN sent
      BY <1>2
    <3>3. IsKept(a)'
      BY <1>1, <1>3, <3>1, <3>2 DEF IsKept
    <3> QED
      BY <2>8, <3>3
  <2> QED
    BY <2>7, <2>8
<1>6. WholeFrames'
  BY <1>1, <1>5 DEF WholeFrames
<1> QED
  BY <1>4, <1>6 DEF WholeInv

(* Of frames put together as the invariant says, those the property speaks *)
(* of are decoded.                                                         *)
LEMMA WholeIsDecoded ==
  ASSUME TypeOK, RunInv, Layout, WholeFrames
  PROVE  WholeFramesDecoded
<1>1. /\ DOMAIN sent \subseteq Nat \ {0} /\ taken \subseteq DOMAIN sent /\ newest \in Nat
      /\ \A d \in Range(decoded) : Range(d) \subseteq taken
      /\ \A j \in taken : j <= newest
      /\ \A j \in DOMAIN sent : sent[j].frame \in Nat
  BY PlacesTyped, FrameBound DEF RunInv
<1>2. FramesSent \in Nat
  BY FramesSentTyped DEF TypeOK
<1>3. ASSUME NEW f \in Nat, NEW j \in DOMAIN sent, sent[j].kind = "data", sent[j].frame = f
      PROVE  \E a, z \in DOMAIN sent :
               /\ FrameAt(a, z) /\ sent[a].frame = f /\ a <= j /\ j <= z
               /\ sent[a].first /\ sent[z].marker
               /\ \A k \in DOMAIN sent : k \in PacketsOf(f) <=> a <= k /\ k <= z
  <2>1. PICK a \in DOMAIN sent : \E z \in DOMAIN sent : FrameAt(a, z) /\ a <= j /\ j <= z
    BY <1>3 DEF Layout
  <2>2. PICK z \in DOMAIN sent : FrameAt(a, z) /\ a <= j /\ j <= z
    BY <2>1
  <2>3. a \in Nat /\ z \in Nat /\ a <= z /\ a <= a /\ z <= z
    BY <1>1, <2>2 DEF FrameAt
  <2>4. sent[a].frame = f
    BY <1>3, <2>2, Zenon DEF FrameAt
  <2>5. sent[a].first /\ sent[z].marker
    BY <2>2, <2>3, Zenon DEF FrameAt
  <2>6. ASSUME NEW k \in DOMAIN sent
        PROVE  k \in PacketsOf(f) <=> a <= k /\ k <= z
    <3>1. k \in Nat /\ sent[k].frame \in Nat
      BY <1>1
    <3>2. a <= k /\ k <= z => sent[k].kind = "data" /\ sent[k].frame = f
      BY <2>2, <2>4, Zenon DEF FrameAt
    <3>3. sent[k].kind = "data" /\ k < a => sent[k].frame < f
      BY <2>2, <2>4, Zenon DEF FrameAt
    <3>4. sent[k].kind = "data" /\ z < k => f < sent[k].frame
      BY <2>2, <2>4, Zenon DEF FrameAt
    <3> QED
      BY <2>3, <3>1, <3>2, <3>3, <3>4 DEF PacketsOf
  <2> QED
    BY <2>2, <2>4, <2>5, <2>6
<1>4. ASSUME NEW f \in 1 .. FramesSent, ArrivesWhole(f),
             \/ \E i \in PacketsOf(f) : StartsKeyFrame(sent[i])
             \/ f > 1 /\ IsDecoded(f - 1)
      PROVE  IsDecoded(f)
  <2>0. f \in Nat
    BY <1>2
  <2>1. PICK b \in PacketsOf(f) :
          /\ sent[b].first
          /\ \/ \A j \in taken : j >= b
             \/ b - 1 \in taken /\ sent[b - 1].kind \in {"data", "padding"}
    BY <1>4 DEF ArrivesWhole
  <2>2. b \in DOMAIN sent /\ sent[b].kind = "data" /\ sent[b].frame = f
    BY <2>1 DEF PacketsOf
  <2>3. PICK a \in DOMAIN sent : \E z \in DOMAIN sent :
          /\ FrameAt(a, z) /\ sent[a].frame = f /\ a <= b /\ b <= z
          /\ sent[a].first /\ sent[z].marker
          /\ \A k \in DOMAIN sent : k \in PacketsOf(f) <=> a <= k /\ k <= z
    BY <1>3, <2>0, <2>2
  <2>4. PICK z \in DOMAIN sent :
          /\ FrameAt(a, z) /\ sent[a].frame = f /\ a <= b /\ b <= z
          /\ sent[a].first /\ sent[z].marker
          /\ \A k \in DOMAIN sent : k \in PacketsOf(f) <=> a <= k /\ k <= z
    BY <2>3
  <2>5. a \in Nat /\ z \in Nat /\ a <= z /\ b \in Nat
    BY <1>1, <2>2, <2>4 DEF FrameAt
  <2>6. b = a
    BY <2>1, <2>2, <2>4, Zenon DEF FrameAt
  <2>7. PacketsOf(f) \subseteq taken
    BY <1>4 DEF ArrivesWhole
  <2>8. a \in taken /\ z \in taken /\ z <= newest
    BY <1>1, <2>4, <2>5, <2>7
  <2>9. Begun(a)
    BY <1>1, <2>1, <2>5, <2>6 DEF Begun
  <2>10. sent[a].key \/ PreviousDecoded(a)
    <3>1. CASE \E i \in PacketsOf(f) : StartsKeyFrame(sent[i])
      <4>1. PICK i \in PacketsOf(f) : StartsKeyFrame(sent[i])
        BY <3>1
      <4>2. i \in DOMAIN sent
        BY DEF PacketsOf
      <4>3. a <= i /\ i <= z
        BY <2>4, <4>2
      <4>4. sent[a].key
        BY <2>4, <4>1, <4>2, <4>3, Zenon DEF FrameAt, StartsKeyFrame
      <4> QED
        BY <4>4
    <3>2. CASE f > 1 /\ IsDecoded(f - 1)
      <4>1. f - 1 \in 1 .. FramesSent /\ f - 1 \in Nat
        BY <1>2, <3>2
      <4>2. PICK j \in DOMAIN sent : sent[j].kind = "data" /\ sent[j].frame = f - 1
        BY <4>1 DEF Layout
      <4>3. PICK x \in DOMAIN sent : \E y \in DOMAIN sent :
              /\ FrameAt(x, y) /\ sent[x].frame = f - 1 /\ x <= j /\ j <= y
              /\ sent[x].first /\ sent[y].marker
              /\ \A k \in DOMAIN sent : k \in PacketsOf(f - 1) <=> x <= k /\ k <= y
        BY <1>3, <4>1, <4>2
      <4>4. PICK y \in DOMAIN sent :
              /\ FrameAt(x, y) /\ sent[x].frame = f - 1 /\ x <= j /\ j <= y
              /\ sent[x].first /\ sent[y].marker
              /\ \A k \in DOMAIN sent : k \in PacketsOf(f - 1) <=> x <= k /\ k <= y
        BY <4>3
      <4>5. y \in Nat /\ x \in Nat /\ x <= y
        BY <1>1, <4>4 DEF FrameAt
      <4>6. y \in PacketsOf(f - 1)
        BY <4>4, <4>5
      <4>7. sent[y].kind = "data" /\ sent[y].frame = f - 1
        BY <4>6 DEF PacketsOf
      <4>8. PICK d \in Range(decoded) : PacketsOf(f - 1) \subseteq Range(d)
        BY <3>2 DEF IsDecoded
      <4>9. y \in Range(d) /\ y \in taken
        BY <1>1, <4>6, <4>8
      <4>10. y < a
        <5>1. y < a \/ (a <= y /\ y <= z) \/ z < y
          BY <2>5, <4>5
        <5>2. a <= y /\ y <= z => sent[y].frame = f
          BY <2>4, Zenon DEF FrameAt
        <5>3. z < y => f < sent[y].frame
          BY <2>4, <4>7, Zenon DEF FrameAt
        <5> QED
          BY <2>0, <4>7, <5>1, <5>2, <5>3
      <4>11. ASSUME NEW k \in DOMAIN sent, y < k, k < a
             PROVE  sent[k].kind = "padding"
        <5>1. sent[k].kind = "data" => sent[k].frame < f
          BY <2>4, <4>11, Zenon DEF FrameAt
        <5>2. sent[k].kind = "data" => f - 1 < sent[k].frame
          BY <4>4, <4>11, Zenon DEF FrameAt
        <5>3. sent[k].kind # "data"
          BY <1>1, <2>0, <5>1, <5>2
        <5> QED
          BY <5>3 DEF RunInv, Numbered
      <4> QED
        BY <4>4, <4>8, <4>9, <4>10, <4>11 DEF PreviousDecoded
    <3> QED
      BY <1>4, <3>1, <3>2
  <2>11. Arriving(a, z)
    BY <2>4, <2>7, <2>8, <2>9, <2>10 DEF Arriving
  <2>12. PICK d \in Range(decoded) : \A k \in DOMAIN sent : a <= k /\ k <= z => k \in Range(d)
    BY <2>4, <2>8, <2>11 DEF WholeFrames, IsPictured
  <2>13. PacketsOf(f) \subseteq Range(d)
    BY <2>4, <2>12 DEF PacketsOf
  <2> QED
    BY <2>13 DEF IsDecoded
<1> QED
  BY <1>4 DEF WholeFramesDecoded

(* With nothing but padding between frames and a decoder that does not     *)
(* fail, in a process no assert ends (see BufferHolds), a frame that       *)
(* arrives whole right behind an accepted packet is decoded if it is a key *)
(* frame or the one before it was: whatever was lost before.               *)
THEOREM WholeFramesAreDecoded ==
  ASSUME OnlyPadding, DecoderMayFail = FALSE
  PROVE  Spec /\ []NoAssertFails => []WholeFramesDecoded
<1>1. Init => WholeInv
  BY DEF Init, WholeInv, WholeFrames, EndsDecoded, Range
<1>2. ASSUME TypeOK, TypeOK', RunInv, StartInv, WholeInv, NoAssertFails', [Next]_vars
      PROVE  WholeInv'
  <2>1. CASE UNCHANGED vars
    <3>1. /\ sent' = sent /\ taken' = taken /\ newest' = newest
          /\ Vp8RawData' = Vp8RawData /\ decoded' = decoded
          /\ RequestKeyFrame' = RequestKeyFrame
      BY <2>1 DEF vars, vp8Vars
    <3>2. \A a, z \in DOMAIN sent : FrameAt(a, z)' <=> FrameAt(a, z)
      BY <1>2, <3>1, PopKeepsLayout DEF StartInv
    <3>3. \A a, z \in DOMAIN sent : Arriving(a, z)' <=> Arriving(a, z)
      BY <3>1 DEF Arriving, Begun, PreviousDecoded
    <3>4. WholeFrames'
      BY <1>2, <3>1, <3>2, <3>3 DEF WholeInv, WholeFrames, IsPictured, IsKept
    <3>5. EndsDecoded'
      BY <1>2, <3>1 DEF WholeInv, EndsDecoded
    <3> QED
      BY <3>4, <3>5 DEF WholeInv
  <2>2. CASE Pop
    BY <1>2, <2>2, PopKeepsWhole DEF StartInv
  <2>3. CASE SendFrame \/ SendFiller
    BY <1>2, <2>3, SendKeepsWhole DEF StartInv
  <2> QED
    BY <1>2, <2>1, <2>2, <2>3 DEF Next
<1>3. TypeOK /\ RunInv /\ StartInv /\ WholeInv => WholeFramesDecoded
  BY WholeIsDecoded DEF StartInv, WholeInv
<1> QED
  BY <1>1, <1>2, <1>3, TypeCorrect, RunCorrect, StartCorrect, PTL DEF Spec

=============================================================================
