---------------------------- MODULE Formats_proofs ---------------------------
(***************************************************************************)
(* Theorems about the readers of Formats: what they read of any input is   *)
(* what the format says was written.                                       *)
(***************************************************************************)
EXTENDS Formats, LeastNumber, SequenceTheorems

-----------------------------------------------------------------------------
(* Powers of two, of which no exponent is above 32.  The provers know them *)
(* one by one, and take them better as the values of a function.           *)

Pow == [n \in 0 .. 32 |-> 2 ^ n]

LEMMA PowTable ==
  /\ Pow[0] = 1 /\ Pow[1] = 2 /\ Pow[2] = 4 /\ Pow[3] = 8
  /\ Pow[4] = 16 /\ Pow[5] = 32 /\ Pow[6] = 64 /\ Pow[7] = 128
  /\ Pow[8] = 256 /\ Pow[9] = 512 /\ Pow[10] = 1024 /\ Pow[11] = 2048
  /\ Pow[12] = 4096 /\ Pow[13] = 8192 /\ Pow[14] = 16384 /\ Pow[15] = 32768
  /\ Pow[16] = 65536 /\ Pow[17] = 131072 /\ Pow[18] = 262144 /\ Pow[19] = 524288
  /\ Pow[20] = 1048576 /\ Pow[21] = 2097152 /\ Pow[22] = 4194304 /\ Pow[23] = 8388608
  /\ Pow[24] = 16777216 /\ Pow[25] = 33554432 /\ Pow[26] = 67108864 /\ Pow[27] = 134217728
  /\ Pow[28] = 268435456 /\ Pow[29] = 536870912 /\ Pow[30] = 1073741824 /\ Pow[31] = 2147483648
  /\ Pow[32] = 4294967296
<1>1. /\ 2 ^ 0 = 1 /\ 2 ^ 1 = 2 /\ 2 ^ 2 = 4 /\ 2 ^ 3 = 8
       /\ 2 ^ 4 = 16 /\ 2 ^ 5 = 32 /\ 2 ^ 6 = 64 /\ 2 ^ 7 = 128
       /\ 2 ^ 8 = 256 /\ 2 ^ 9 = 512 /\ 2 ^ 10 = 1024 /\ 2 ^ 11 = 2048
       /\ 2 ^ 12 = 4096 /\ 2 ^ 13 = 8192 /\ 2 ^ 14 = 16384 /\ 2 ^ 15 = 32768
       /\ 2 ^ 16 = 65536 /\ 2 ^ 17 = 131072 /\ 2 ^ 18 = 262144 /\ 2 ^ 19 = 524288
       /\ 2 ^ 20 = 1048576 /\ 2 ^ 21 = 2097152 /\ 2 ^ 22 = 4194304 /\ 2 ^ 23 = 8388608
       /\ 2 ^ 24 = 16777216 /\ 2 ^ 25 = 33554432 /\ 2 ^ 26 = 67108864 /\ 2 ^ 27 = 134217728
       /\ 2 ^ 28 = 268435456 /\ 2 ^ 29 = 536870912 /\ 2 ^ 30 = 1073741824 /\ 2 ^ 31 = 2147483648
       /\ 2 ^ 32 = 4294967296
  OBVIOUS
<1> QED
  BY <1>1, SMT DEF Pow

LEMMA PowSmall ==
  /\ Pow[0] = 1 /\ Pow[1] = 2 /\ Pow[2] = 4 /\ Pow[3] = 8
  /\ Pow[4] = 16 /\ Pow[5] = 32 /\ Pow[6] = 64 /\ Pow[7] = 128
  /\ Pow[8] = 256
BY PowTable, SMT

LEMMA PowIs ==
  ASSUME NEW n \in 0 .. 32
  PROVE  2 ^ n = Pow[n]
BY Zenon DEF Pow

LEMMA PowNext ==
  ASSUME NEW n \in 0 .. 31
  PROVE  Pow[n] \in Nat \ {0} /\ Pow[n + 1] = 2 * Pow[n]
<1>1. \/ n = 0 \/ n = 1 \/ n = 2 \/ n = 3 \/ n = 4 \/ n = 5 \/ n = 6 \/ n = 7
     \/ n = 8 \/ n = 9 \/ n = 10 \/ n = 11 \/ n = 12 \/ n = 13 \/ n = 14 \/ n = 15
     \/ n = 16 \/ n = 17 \/ n = 18 \/ n = 19 \/ n = 20 \/ n = 21 \/ n = 22 \/ n = 23
     \/ n = 24 \/ n = 25 \/ n = 26 \/ n = 27 \/ n = 28 \/ n = 29 \/ n = 30 \/ n = 31
  OBVIOUS
<1> QED
  BY <1>1, PowTable, SMT

LEMMA PowType ==
  ASSUME NEW n \in 0 .. 32
  PROVE  Pow[n] \in Nat \ {0}
<1>1. CASE n = 32
  BY <1>1, PowTable, SMT
<1>2. CASE n # 32
  <2>1. n \in 0 .. 31
    BY <1>2
  <2> QED
    BY <2>1, PowNext, SMT
<1> QED
  BY <1>1, <1>2

LEMMA PowSum ==
  ASSUME NEW a \in 0 .. 32, NEW b \in 0 .. 32, a + b <= 32
  PROVE  Pow[a + b] = Pow[a] * Pow[b]
<1> DEFINE q == {n \in Nat : a + n <= 32 => Pow[a + n] = Pow[a] * Pow[n]}
<1>1. 0 \in q
  <2>1. a + 0 = a /\ Pow[0] = 1 /\ Pow[a] \in Nat
    BY PowTable, PowType, SMT
  <2> QED
    BY <2>1
<1>2. ASSUME NEW n \in 0 .. b - 1, n \in q PROVE n + 1 \in q
  <2>1. n \in 0 .. 31 /\ a + n \in 0 .. 31 /\ n + 1 \in Nat /\ a + (n + 1) = (a + n) + 1
    OBVIOUS
  <2>2. Pow[a + n] = Pow[a] * Pow[n]
    BY <1>2, <2>1
  <2>3. PICK x \in Nat, y \in Nat : x = Pow[a] /\ y = Pow[n]
    BY <2>1, PowNext, PowType
  <2>4. Pow[n + 1] = 2 * y /\ Pow[(a + n) + 1] = 2 * (x * y)
    BY <2>1, <2>2, <2>3, PowNext
  <2>5. 2 * (x * y) = x * (2 * y)
    OBVIOUS
  <2> QED
    BY <2>1, <2>3, <2>4, <2>5
<1> HIDE DEF q
<1>3. b \in q
  BY <1>1, <1>2, CountUp
<1> QED
  BY <1>3 DEF q

(* Bounds that are large are kept hidden; only their type is needed.       *)
LEMMA Between ==
  \A a, b \in Int : \A x \in a .. b : x \in Int /\ a <= x /\ x <= b
OBVIOUS

LEMMA LimitTypes ==
  MaxCode \in Nat /\ MaxRate \in Nat /\ MaxWords \in Nat /\ MaxPictureId \in Nat
BY SMT DEF MaxCode, MaxRate, MaxWords, MaxPictureId

-----------------------------------------------------------------------------
(* The bit rate of a REMB packet. *)

LEMMA RembRead ==
  ASSUME NEW rate \in Nat, rate <= MaxRate
  PROVE  LET result == getREMBBitRate(setREMBBitRate(rate))
         IN  /\ result <= rate
             /\ (rate - result) * 2 ^ 10 <= rate \div 2 ^ 7
             /\ rate < 2 ^ 18 - 1 => result = rate
<1> DEFINE Fits(e) == rate < maxMantissa * 2 ^ e
           x == RembExp(rate)
<1>1. \A e \in 0 .. 14 : Fits(e) <=> rate < maxMantissa * Pow[e]
  <2>1. \A e \in 0 .. 14 : e \in 0 .. 32
    BY SMT
  <2>2. \A e \in 0 .. 14 : 2 ^ e = Pow[e]
    BY <2>1, PowIs, Zenon
  <2> QED
    BY <2>2, Zenon
<1>2. rate \in Nat /\ rate < maxMantissa * Pow[14] /\ maxMantissa \in Nat
  <2>1. Pow[14] = 16384
    BY PowTable, SMT
  <2>2. rate <= 2147483647
    BY SMT DEF MaxRate
  <2> QED
    BY <2>1, <2>2, SMT DEF maxMantissa
<1>3. \E e \in 0 .. 14 : /\ rate < maxMantissa * Pow[e]
                        /\ \A d \in 0 .. e - 1 : rate >= maxMantissa * Pow[d]
  <2> DEFINE fits == {e \in 0 .. 14 : rate < maxMantissa * Pow[e]}
  <2>1. fits \subseteq Nat /\ fits # {}
    BY <1>2, SMT
  <2>2. PICK e \in fits : \A y \in fits : e <= y
    BY <2>1, LeastExists, Zenon
  <2>3. ASSUME NEW d \in 0 .. e - 1 PROVE rate >= maxMantissa * Pow[d]
    <3>1. d \notin fits /\ d \in 0 .. 14
      BY <2>2, SMT
    <3>2. Pow[d] \in Nat
      BY <3>1, PowType, SMT
    <3> QED
      BY <1>2, <3>1, <3>2, SMT
  <2> QED
    BY <2>2, <2>3, SMT
<1>4. \E e \in 0 .. 63 : Fits(e) /\ \A d \in 0 .. e - 1 : rate >= maxMantissa * 2 ^ d
  <2>1. PICK e \in 0 .. 14 : /\ rate < maxMantissa * Pow[e]
                            /\ \A d \in 0 .. e - 1 : rate >= maxMantissa * Pow[d]
    BY <1>3
  <2>2. \A d \in 0 .. e - 1 : d \in 0 .. 32 /\ e \in 0 .. 63
    BY SMT
  <2>3. e \in 0 .. 63
    BY SMT
  <2>4. \A d \in 0 .. e - 1 : 2 ^ d = Pow[d]
    BY <2>2, PowIs, Zenon
  <2> QED
    BY <1>1, <2>1, <2>3, <2>4, Zenon
<1>5. x \in 0 .. 63 /\ Fits(x) /\ \A d \in 0 .. x - 1 : rate >= maxMantissa * 2 ^ d
  BY <1>4, Zenon DEF RembExp
<1> HIDE DEF x
<1>6. x \in 0 .. 14
  <2>1. ASSUME x > 14 PROVE FALSE
    <3>1. 14 \in 0 .. x - 1 /\ 14 \in 0 .. 32
      BY <1>5, <2>1, SMT
    <3>2. rate >= maxMantissa * Pow[14]
      BY <1>5, <3>1, PowIs, Zenon
    <3> QED
      BY <1>2, <3>2, PowTable, SMT DEF maxMantissa
  <2> QED
    BY <1>5, <2>1, SMT
<1>7. x \in 0 .. 32 /\ x % 64 = x
  BY <1>6, SMT
<1>8. PICK p : p = Pow[x]
  OBVIOUS
<1>9. 2 ^ x = p /\ rate < maxMantissa * p
  BY <1>5, <1>7, <1>8, PowIs, Zenon
<1>10. \/ x = 0
       \/ rate >= maxMantissa * Pow[x - 1]
  <2> SUFFICES ASSUME x # 0 PROVE rate >= maxMantissa * Pow[x - 1]
    OBVIOUS
  <2>1. x - 1 \in 0 .. x - 1 /\ x - 1 \in 0 .. 32
    BY <1>6, SMT
  <2> QED
    BY <1>5, <2>1, PowIs, Zenon
<1>11. PICK m : m = rate \div p
  OBVIOUS
<1>12. getREMBBitRate(setREMBBitRate(rate)) = (m % 262144) * p
  <2>1. PICK r, n : r = setREMBBitRate(rate) /\ n = m % 262144
    OBVIOUS
  <2>2. r.mantissa = n /\ r.exp = x
    BY <1>7, <1>9, <1>11, <2>1, SMT DEF setREMBBitRate, x
  <2>3. getREMBBitRate(r) = n * p
    BY <1>9, <2>2, Zenon DEF getREMBBitRate
  <2> QED
    BY <2>1, <2>3, SMT
<1>13. /\ (m % 262144) * p <= rate
       /\ (rate - (m % 262144) * p) * 1024 <= rate \div 128
       /\ rate < 262143 => (m % 262144) * p = rate
  <2>1. \/ x = 0 \/ x = 1 \/ x = 2 \/ x = 3 \/ x = 4 \/ x = 5 \/ x = 6 \/ x = 7
        \/ x = 8 \/ x = 9 \/ x = 10 \/ x = 11 \/ x = 12 \/ x = 13 \/ x = 14
    BY <1>6, SMT
  <2> QED
    BY <1>2, <1>8, <1>9, <1>10, <1>11, <2>1, PowTable, SMTT(60) DEF maxMantissa
<1>14. 2 ^ 10 = 1024 /\ 2 ^ 7 = 128 /\ 2 ^ 18 - 1 = 262143
  BY SMT
<1> QED
  BY <1>12, <1>13, <1>14, SMT

-----------------------------------------------------------------------------
(* The parts of a packet and the types of datagrams. *)

LEMMA PacketRead ==
  ASSUME NEW p, IsPacket(p)
  PROVE  PacketSize(p) - getHeaderLength(PacketFields(p))
           - getRtpPaddingLength(PacketFields(p)) = p.payload
<1>1. PICK f : f = PacketFields(p)
  OBVIOUS
<1>2. PICK c, e, n, b : c = p.cc /\ e = p.extWords /\ n = p.payload /\ b = p.paddingBytes
  OBVIOUS
<1>3. c \in Nat /\ e \in Int /\ e >= -1 /\ n \in Nat /\ b \in Nat
  <2>1. c \in 0 .. 15 /\ e \in -1 .. MaxWords /\ n \in Nat /\ b \in Byte
    BY <1>2, Zenon DEF IsPacket
  <2>2. -1 \in Int /\ MaxWords \in Int
    BY LimitTypes
  <2>3. e \in Int /\ -1 <= e
    BY <2>1, <2>2, Between, Zenon
  <2> QED
    BY <2>1, <2>3 DEF Byte
<1>4. /\ f.cc = c /\ f.extWords = e
      /\ f.padding = (b > 0) /\ f.lastByte = b
  BY <1>1, <1>2, Zenon DEF PacketFields
<1>5. getRtpPaddingLength(f) = b
  <2>1. CASE b > 0
    BY <1>4, <2>1, Zenon DEF getRtpPaddingLength
  <2>2. CASE ~(b > 0)
    <3>1. b = 0
      BY <1>3, <2>2
    <3>2. ~f.padding
      BY <1>4, <2>2, Zenon
    <3> QED
      BY <3>1, <3>2, Zenon DEF getRtpPaddingLength
  <2> QED
    BY <2>1, <2>2, Zenon
<1>6. getHeaderLength(f) = 12 + 4 * c + (IF e = -1 THEN 0 ELSE 4 + 4 * e)
  BY <1>3, <1>4, SMT DEF getHeaderLength, getExtWholeLength, kRtpHeaderLenByte
<1>7. PacketSize(p) = 12 + 4 * c + (IF e = -1 THEN 0 ELSE 4 + 4 * e) + n + b
  BY <1>2, Zenon DEF PacketSize
<1> QED
  BY <1>1, <1>2, <1>3, <1>5, <1>6, <1>7, SMT

LEMMA ByteRead ==
  ASSUME NEW b \in 0 .. 255
  PROVE  /\ b \div 64 = 2 <=> getPacketType(b) = "RTP"
         /\ b % 128 \in VideoTypes => GetMediaType(b) = "video"
         /\ b % 128 \in AudioTypes => GetMediaType(b) = "audio"
         /\ GetMediaType(b) = "rtcp" <=> b \in 192 .. 223
<1>1. b \div 64 = 2 <=> b \in 128 .. 191
  OBVIOUS
<1>2. getPacketType(b) = "RTP" <=> b \in 128 .. 191
  BY DEF getPacketType
<1>3. b % 128 \in VideoTypes \cup AudioTypes => ~isRtcp(b)
  BY DEF isRtcp, VideoTypes, AudioTypes
<1>4. b % 128 \in AudioTypes => b % 128 \notin VideoTypes
  BY DEF VideoTypes, AudioTypes
<1>5. isRtcp(b) <=> b \in 192 .. 223
  BY DEF isRtcp
<1> QED
  BY <1>1, <1>2, <1>3, <1>4, <1>5 DEF GetMediaType

-----------------------------------------------------------------------------
(* Folds.  FoldLeft is defined by a recursion over the subsets of the      *)
(* indices; what is needed of it is the values between one element and the *)
(* next.                                                                   *)

(* A scaling list as it stands in the matrix. *)
ListBits(list) == IF list = << >> THEN << 0 >> ELSE << 1 >> \o SignedCodes(list)

ListsBits(lists) ==
  FoldLeft(LAMBDA bits, list :
             bits \o IF list = << >> THEN << 0 >> ELSE << 1 >> \o SignedCodes(list),
           << >>, lists)

Total(numbers) == FoldLeft(LAMBDA n, b : n + b, 0, numbers)

(* The steps of the folds: Value, Total, Codes, SignedCodes, ListsBits and *)
(* ScaleAfter.                                                             *)
FoldStep(fold, e, x) ==
  IF fold = "value" THEN 2 * e + x
  ELSE IF fold = "total" THEN e + x
  ELSE IF fold = "codes" THEN e \o Ue(x)
  ELSE IF fold = "signed" THEN e \o Se(x)
  ELSE IF fold = "lists"
       THEN e \o IF x = << >> THEN << 0 >> ELSE << 1 >> \o SignedCodes(x)
  ELSE NextScale(e, x)

FoldRound(g, r, fold, d, xs) ==
  IF r = {} THEN d ELSE FoldStep(fold, g[r \ {Max(r)}], xs[Max(r)])

FoldSolves(g, n, fold, d, xs) ==
  g = [r \in SUBSET (1 .. n) |-> FoldRound(g, r, fold, d, xs)]

LEMMA FoldSolutionExists ==
  ASSUME NEW n \in Nat, NEW fold, NEW d, NEW xs
  PROVE  \E g : FoldSolves(g, n, fold, d, xs)
<1> DEFINE Body(g, r) == FoldRound(g, r, fold, d, xs)
           Is(g, k) == FoldSolves(g, k, fold, d, xs)
           q == {k \in Nat : \E g : Is(g, k)}
<1>1. 0 \in q
  <2> DEFINE g == [r \in SUBSET (1 .. 0) |-> d]
  <2>1. \A r \in SUBSET (1 .. 0) : r = {}
    OBVIOUS
  <2>2. \A r \in SUBSET (1 .. 0) : Body(g, r) = d
    BY <2>1 DEF FoldRound
  <2>3. Is(g, 0)
    BY <2>2 DEF FoldSolves
  <2> QED
    BY <2>3, Zenon
<1>2. ASSUME NEW k \in 0 .. n - 1, k \in q PROVE k + 1 \in q
  <2>1. PICK f : Is(f, k)
    BY <1>2
  <2> DEFINE g == [r \in SUBSET (1 .. k + 1) |-> Body(f, r)]
  <2>2. ASSUME NEW r \in SUBSET (1 .. k + 1) PROVE Body(f, r) = Body(g, r)
    <3>1. CASE r = {}
      BY <3>1 DEF FoldRound
    <3>2. CASE r # {}
      <4> DEFINE l == r \ {Max(r)}
      <4>1. k + 1 \in Nat
        OBVIOUS
      <4>2. PICK m : m = Max(r)
        OBVIOUS
      <4>3. m \in 1 .. k + 1 /\ l \subseteq 1 .. m - 1
        BY <3>2, <4>1, <4>2, MaxIs
      <4>4. l \in SUBSET (1 .. k) /\ l \in SUBSET (1 .. k + 1)
        BY <4>3
      <4> HIDE DEF l
      <4>5. f[l] = Body(f, l)
        BY <2>1, <4>4 DEF FoldSolves
      <4>6. g[l] = Body(f, l)
        BY <4>4
      <4>7. f[l] = g[l]
        BY <4>5, <4>6
      <4> QED
        BY <3>2, <4>7, Zenon DEF FoldRound, l
    <3> QED
      BY <3>1, <3>2
  <2>3. g = [r \in SUBSET (1 .. k + 1) |-> Body(g, r)]
    BY <2>2
  <2>4. Is(g, k + 1)
    BY <2>3, Zenon DEF FoldSolves
  <2> HIDE DEF g, Is
  <2>5. k + 1 \in Nat
    OBVIOUS
  <2> QED
    BY <2>4, <2>5, Zenon
<1> HIDE DEF q
<1>3. \A k \in 0 .. n : k \in q
  BY <1>1, <1>2, CountUp
<1>4. n \in q
  BY <1>3
<1> QED
  BY <1>4 DEF q

(* The values of a fold, one after the other. *)
FoldValues(F, n, fold, d, xs) ==
  /\ F[0] = d
  /\ \A i \in 1 .. n : F[i] = FoldStep(fold, F[i - 1], xs[i])

LEMMA FoldSolutionSteps ==
  ASSUME NEW n \in Nat, NEW fold, NEW d, NEW xs,
         NEW g, FoldSolves(g, n, fold, d, xs)
  PROVE  \E F : FoldValues(F, n, fold, d, xs) /\ g[1 .. n] = F[n]
<1> DEFINE F == [i \in 0 .. n |-> g[1 .. i]]
<1>1. F[0] = d
  <2>1. 1 .. 0 = {} /\ 1 .. 0 \in SUBSET (1 .. n)
    OBVIOUS
  <2>2. g[1 .. 0] = FoldRound(g, 1 .. 0, fold, d, xs)
    BY <2>1 DEF FoldSolves
  <2>3. g[1 .. 0] = d
    BY <2>1, <2>2 DEF FoldRound
  <2> QED
    BY <2>3
<1>2. ASSUME NEW i \in 1 .. n
      PROVE  F[i] = FoldStep(fold, F[i - 1], xs[i])
  <2>1. 1 .. i \in SUBSET (1 .. n) /\ 1 .. i # {}
    OBVIOUS
  <2>2. Max(1 .. i) = i /\ (1 .. i) \ {i} = 1 .. i - 1
    BY MaxOfRange
  <2>3. g[1 .. i] = FoldRound(g, 1 .. i, fold, d, xs)
    BY <2>1 DEF FoldSolves
  <2>4. g[1 .. i] = FoldStep(fold, g[1 .. i - 1], xs[i])
    BY <2>1, <2>2, <2>3 DEF FoldRound
  <2>5. i - 1 \in 0 .. n /\ i \in 0 .. n
    OBVIOUS
  <2> QED
    BY <2>4, <2>5
<1>3. F[n] = g[1 .. n]
  OBVIOUS
<1> HIDE DEF F
<1> QED
  BY <1>1, <1>2, <1>3 DEF FoldValues

(* The values of a fold over part of a sequence are the first ones of it.  *)
LEMMA FoldPrefix ==
  ASSUME NEW n \in Nat, NEW m \in 0 .. n, NEW fold, NEW d, NEW xs, NEW ys, NEW F, NEW G,
         FoldValues(F, n, fold, d, xs), FoldValues(G, m, fold, d, ys),
         \A i \in 1 .. m : xs[i] = ys[i]
  PROVE  F[m] = G[m]
<1> DEFINE q == {i \in Nat : i <= m => F[i] = G[i]}
<1>1. 0 \in q
  BY DEF FoldValues
<1>2. ASSUME NEW i \in 0 .. m - 1, i \in q PROVE i + 1 \in q
  <2>1. i + 1 \in 1 .. n /\ i + 1 \in 1 .. m /\ (i + 1) - 1 = i /\ i + 1 \in Nat
    OBVIOUS
  <2>2. F[i] = G[i]
    BY <1>2
  <2>3. F[i + 1] = FoldStep(fold, F[i], xs[i + 1])
    BY <2>1 DEF FoldValues
  <2>4. G[i + 1] = FoldStep(fold, G[i], ys[i + 1])
    BY <2>1 DEF FoldValues
  <2> QED
    BY <2>1, <2>2, <2>3, <2>4
<1> HIDE DEF q
<1>3. m \in 0 .. m
  OBVIOUS
<1>4. m \in q
  BY <1>1, <1>2, <1>3, CountUp
<1> QED
  BY <1>4 DEF q

LEMMA ValueSteps ==
  ASSUME NEW s, NEW n \in Nat, DOMAIN s = 1 .. n
  PROVE  \E F : FoldValues(F, n, "value", 0, s) /\ Value(s) = F[n]
<1> DEFINE Round(g, r) ==
             IF r = {} THEN 0 ELSE 2 * g[r \ {Max(r)}] + s[Max(r)]
           Is(g) == g = [r \in SUBSET (1 .. n) |-> Round(g, r)]
           it == CHOOSE g : Is(g)
<1>1. \A g, r : Round(g, r) = FoldRound(g, r, "value", 0, s)
  BY DEF FoldRound, FoldStep
<1>2. \A g : Is(g) <=> FoldSolves(g, n, "value", 0, s)
  BY <1>1 DEF FoldSolves
<1>3. \E g : Is(g)
  BY <1>2, FoldSolutionExists
<1>4. Is(it)
  BY <1>3, Zenon
<1>5. Value(s) = it[1 .. n]
  BY Zenon DEF Value, FoldLeft, MapThenFoldSet
<1> HIDE DEF it, Is
<1>6. FoldSolves(it, n, "value", 0, s)
  BY <1>2, <1>4
<1> QED
  BY <1>5, <1>6, FoldSolutionSteps

LEMMA TotalSteps ==
  ASSUME NEW s, NEW n \in Nat, DOMAIN s = 1 .. n
  PROVE  \E F : FoldValues(F, n, "total", 0, s) /\ Total(s) = F[n]
<1> DEFINE Round(g, r) ==
             IF r = {} THEN 0 ELSE g[r \ {Max(r)}] + s[Max(r)]
           Is(g) == g = [r \in SUBSET (1 .. n) |-> Round(g, r)]
           it == CHOOSE g : Is(g)
<1>1. \A g, r : Round(g, r) = FoldRound(g, r, "total", 0, s)
  BY DEF FoldRound, FoldStep
<1>2. \A g : Is(g) <=> FoldSolves(g, n, "total", 0, s)
  BY <1>1 DEF FoldSolves
<1>3. \E g : Is(g)
  BY <1>2, FoldSolutionExists
<1>4. Is(it)
  BY <1>3, Zenon
<1>5. Total(s) = it[1 .. n]
  BY Zenon DEF Total, FoldLeft, MapThenFoldSet
<1> HIDE DEF it, Is
<1>6. FoldSolves(it, n, "total", 0, s)
  BY <1>2, <1>4
<1> QED
  BY <1>5, <1>6, FoldSolutionSteps

LEMMA CodesSteps ==
  ASSUME NEW s, NEW n \in Nat, DOMAIN s = 1 .. n
  PROVE  \E F : FoldValues(F, n, "codes", << >>, s) /\ Codes(s) = F[n]
<1> DEFINE Round(g, r) ==
             IF r = {} THEN << >> ELSE g[r \ {Max(r)}] \o Ue(s[Max(r)])
           Is(g) == g = [r \in SUBSET (1 .. n) |-> Round(g, r)]
           it == CHOOSE g : Is(g)
<1>1. \A g, r : Round(g, r) = FoldRound(g, r, "codes", << >>, s)
  BY DEF FoldRound, FoldStep
<1>2. \A g : Is(g) <=> FoldSolves(g, n, "codes", << >>, s)
  BY <1>1 DEF FoldSolves
<1>3. \E g : Is(g)
  BY <1>2, FoldSolutionExists
<1>4. Is(it)
  BY <1>3, Zenon
<1>5. Codes(s) = it[1 .. n]
  BY Zenon DEF Codes, FoldLeft, MapThenFoldSet
<1> HIDE DEF it, Is
<1>6. FoldSolves(it, n, "codes", << >>, s)
  BY <1>2, <1>4
<1> QED
  BY <1>5, <1>6, FoldSolutionSteps

LEMMA SignedCodesSteps ==
  ASSUME NEW s, NEW n \in Nat, DOMAIN s = 1 .. n
  PROVE  \E F : FoldValues(F, n, "signed", << >>, s) /\ SignedCodes(s) = F[n]
<1> DEFINE Round(g, r) ==
             IF r = {} THEN << >> ELSE g[r \ {Max(r)}] \o Se(s[Max(r)])
           Is(g) == g = [r \in SUBSET (1 .. n) |-> Round(g, r)]
           it == CHOOSE g : Is(g)
<1>1. \A g, r : Round(g, r) = FoldRound(g, r, "signed", << >>, s)
  BY DEF FoldRound, FoldStep
<1>2. \A g : Is(g) <=> FoldSolves(g, n, "signed", << >>, s)
  BY <1>1 DEF FoldSolves
<1>3. \E g : Is(g)
  BY <1>2, FoldSolutionExists
<1>4. Is(it)
  BY <1>3, Zenon
<1>5. SignedCodes(s) = it[1 .. n]
  BY Zenon DEF SignedCodes, FoldLeft, MapThenFoldSet
<1> HIDE DEF it, Is
<1>6. FoldSolves(it, n, "signed", << >>, s)
  BY <1>2, <1>4
<1> QED
  BY <1>5, <1>6, FoldSolutionSteps

LEMMA ListsSteps ==
  ASSUME NEW s, NEW n \in Nat, DOMAIN s = 1 .. n
  PROVE  \E F : FoldValues(F, n, "lists", << >>, s) /\ ListsBits(s) = F[n]
<1> DEFINE Round(g, r) ==
             IF r = {} THEN << >> ELSE g[r \ {Max(r)}]
                    \o IF s[Max(r)] = << >> THEN << 0 >>
                       ELSE << 1 >> \o SignedCodes(s[Max(r)])
           Is(g) == g = [r \in SUBSET (1 .. n) |-> Round(g, r)]
           it == CHOOSE g : Is(g)
<1>1. \A g, r : Round(g, r) = FoldRound(g, r, "lists", << >>, s)
  BY DEF FoldRound, FoldStep
<1>2. \A g : Is(g) <=> FoldSolves(g, n, "lists", << >>, s)
  BY <1>1, ZenonT(60) DEF FoldSolves
<1>3. \E g : Is(g)
  BY <1>2, FoldSolutionExists
<1>4. Is(it)
  BY <1>3, Zenon
<1>5. ListsBits(s) = it[1 .. n]
  BY Zenon DEF ListsBits, FoldLeft, MapThenFoldSet
<1> HIDE DEF it, Is
<1>6. FoldSolves(it, n, "lists", << >>, s)
  BY <1>2, <1>4
<1> QED
  BY <1>5, <1>6, FoldSolutionSteps

LEMMA ScaleSteps ==
  ASSUME NEW s, NEW n \in Nat, DOMAIN s = 1 .. n
  PROVE  \E F : FoldValues(F, n, "scale", 8, s) /\ ScaleAfter(s) = F[n]
<1> DEFINE Round(g, r) ==
             IF r = {} THEN 8 ELSE NextScale(g[r \ {Max(r)}], s[Max(r)])
           Is(g) == g = [r \in SUBSET (1 .. n) |-> Round(g, r)]
           it == CHOOSE g : Is(g)
<1>1. \A g, r : Round(g, r) = FoldRound(g, r, "scale", 8, s)
  BY DEF FoldRound, FoldStep
<1>2. \A g : Is(g) <=> FoldSolves(g, n, "scale", 8, s)
  BY <1>1 DEF FoldSolves
<1>3. \E g : Is(g)
  BY <1>2, FoldSolutionExists
<1>4. Is(it)
  BY <1>3, Zenon
<1>5. ScaleAfter(s) = it[1 .. n]
  BY Zenon DEF ScaleAfter, FoldLeft, MapThenFoldSet
<1> HIDE DEF it, Is
<1>6. FoldSolves(it, n, "scale", 8, s)
  BY <1>2, <1>4
<1> QED
  BY <1>5, <1>6, FoldSolutionSteps

-----------------------------------------------------------------------------
(* Sequences put together. *)

LEMMA Joined ==
  ASSUME NEW S, NEW s \in Seq(S), NEW t \in Seq(S)
  PROVE  /\ s \o t \in Seq(S) /\ Len(s) \in Nat /\ Len(t) \in Nat
         /\ Len(s \o t) = Len(s) + Len(t)
         /\ \A i \in 1 .. Len(s) : (s \o t)[i] = s[i]
         /\ \A i \in 1 .. Len(t) : (s \o t)[Len(s) + i] = t[i]
<1>1. Len(s) \in Nat /\ Len(t) \in Nat
  BY LenProperties
<1>2. /\ s \o t \in Seq(S) /\ Len(s \o t) = Len(s) + Len(t)
      /\ \A i \in 1 .. Len(s) + Len(t) :
           (s \o t)[i] = IF i <= Len(s) THEN s[i] ELSE t[i - Len(s)]
  BY ConcatProperties
<1>3. PICK m, n, u : m = Len(s) /\ n = Len(t) /\ u = s \o t
  OBVIOUS
<1>4. \A i \in 1 .. m : u[i] = s[i]
  BY <1>1, <1>2, <1>3
<1>5. ASSUME NEW i \in 1 .. n PROVE u[m + i] = t[i]
  <2>1. m + i \in 1 .. m + n /\ ~(m + i <= m) /\ m + i - m = i
    BY <1>1, <1>3
  <2>2. u[m + i] = t[m + i - m]
    BY <1>2, <1>3, <2>1
  <2> QED
    BY <2>1, <2>2
<1> QED
  BY <1>1, <1>2, <1>3, <1>4, <1>5

JoinedAs(S, s, t, u) ==
  /\ u \in Seq(S) /\ Len(u) = Len(s) + Len(t)
  /\ \A i \in 1 .. Len(s) : u[i] = s[i]
  /\ \A i \in 1 .. Len(t) : u[Len(s) + i] = t[i]

LEMMA JoinedIs ==
  ASSUME NEW S, NEW s \in Seq(S), NEW t \in Seq(S), NEW u, u = s \o t
  PROVE  JoinedAs(S, s, t, u)
<1>1. /\ s \o t \in Seq(S) /\ Len(s \o t) = Len(s) + Len(t)
      /\ \A i \in 1 .. Len(s) : (s \o t)[i] = s[i]
      /\ \A i \in 1 .. Len(t) : (s \o t)[Len(s) + i] = t[i]
  BY Joined
<1>2. JoinedAs(S, s, t, s \o t)
  BY <1>1, Zenon DEF JoinedAs
<1> QED
  BY <1>2

LEMMA OneElement ==
  ASSUME NEW S, NEW x \in S
  PROVE  << x >> \in Seq(S) /\ Len(<< x >>) = 1 /\ << x >>[1] = x
OBVIOUS

LEMMA TwoElements ==
  ASSUME NEW S, NEW x \in S, NEW y \in S
  PROVE  << x, y >> \in Seq(S) /\ Len(<< x, y >>) = 2 /\ << x, y >>[1] = x /\ << x, y >>[2] = y
OBVIOUS

-----------------------------------------------------------------------------
(* The VP8 payload descriptor. *)

LEMMA TotalOfThree ==
  ASSUME NEW a \in Nat, NEW b \in Nat, NEW c \in Nat
  PROVE  Total(<< a, b, c >>) = a + b + c
<1>1. PICK s : s = << a, b, c >>
  OBVIOUS
<1>2. DOMAIN s = 1 .. 3 /\ s[1] = a /\ s[2] = b /\ s[3] = c
  BY <1>1
<1>3. PICK F : FoldValues(F, 3, "total", 0, s) /\ Total(s) = F[3]
  BY <1>2, TotalSteps
<1>4. F[0] = 0 /\ \A i \in 1 .. 3 : F[i] = F[i - 1] + s[i]
  BY <1>3 DEF FoldValues, FoldStep
<1>5. F[1] = F[0] + a /\ F[2] = F[1] + b /\ F[3] = F[2] + c
  BY <1>2, <1>4
<1> QED
  BY <1>1, <1>3, <1>4, <1>5

(* The bits of the bytes that are sums of flags. *)
LEMMA FlagValue ==
  ASSUME NEW on, on \in BOOLEAN, NEW value
  PROVE  \/ on /\ Flag(on, value) = value
         \/ ~on /\ Flag(on, value) = 0
BY DEF Flag

LEMMA FirstByte ==
  ASSUME NEW o \in BOOLEAN, NEW r \in BOOLEAN, NEW s \in BOOLEAN, NEW p \in 0 .. 15,
         NEW x, x = Flag(o, 128) + Flag(r, 32) + Flag(s, 16) + p
  PROVE  /\ x \in Byte /\ x % 16 = p
         /\ On(x, 128) = o /\ On(x, 32) = r /\ On(x, 16) = s
<1>1. PICK a, b, c : a = Flag(o, 128) /\ b = Flag(r, 32) /\ c = Flag(s, 16)
  OBVIOUS
<1>2. /\ (o /\ a = 128) \/ (~o /\ a = 0)
      /\ (r /\ b = 32) \/ (~r /\ b = 0)
      /\ (s /\ c = 16) \/ (~s /\ c = 0)
  BY <1>1 DEF Flag
<1>3. x = a + b + c + p
  BY <1>1
<1>4. /\ x \in 0 .. 255 /\ x % 16 = p
      /\ (x \div 128) % 2 = 1 <=> a = 128
      /\ (x \div 32) % 2 = 1 <=> b = 32
      /\ (x \div 16) % 2 = 1 <=> c = 16
  <2>1. (a = 128 \/ a = 0) /\ (b = 32 \/ b = 0) /\ (c = 16 \/ c = 0)
    BY <1>2
  <2> HIDE <1>2
  <2>2. x \in Nat /\ x <= 191
    BY <1>3, <2>1
  <2>3. x % 16 = p
    BY <1>3, <2>1
  <2>4. ((x \div 128) % 2 = 1) <=> a = 128
    BY <1>3, <2>1
  <2>5. ((x \div 32) % 2 = 1) <=> b = 32
    BY <1>3, <2>1
  <2>6. ((x \div 16) % 2 = 1) <=> c = 16
    <3>1. PICK i \in 0 .. 5, j \in 0 .. 1 : a + b = 32 * i /\ c = 16 * j
      <4>1. \/ a + b = 32 * 0 \/ a + b = 32 * 1 \/ a + b = 32 * 4 \/ a + b = 32 * 5
        BY <2>1
      <4>2. c = 16 * 0 \/ c = 16 * 1
        BY <2>1
      <4> QED
        BY <4>1, <4>2
    <3>2. x \div 16 = 2 * i + j
      BY <1>3, <3>1
    <3>3. (2 * i + j) % 2 = j
      OBVIOUS
    <3> QED
      BY <3>1, <3>2, <3>3
  <2> QED
    BY <2>2, <2>3, <2>4, <2>5, <2>6
<1> QED
  BY <1>2, <1>4 DEF On, Byte

LEMMA FlagByte ==
  ASSUME NEW o \in BOOLEAN, NEW t \in BOOLEAN, NEW l \in BOOLEAN, NEW k \in BOOLEAN,
         NEW x, x = Flag(o, 128) + Flag(t, 64) + Flag(l, 32) + Flag(k, 16)
  PROVE  /\ x \in Byte
         /\ On(x, 128) = o /\ On(x, 64) = t /\ On(x, 32) = l /\ On(x, 16) = k
<1>1. PICK a, b, c, e : /\ a = Flag(o, 128) /\ b = Flag(t, 64)
                        /\ c = Flag(l, 32) /\ e = Flag(k, 16)
  OBVIOUS
<1>2. /\ (o /\ a = 128) \/ (~o /\ a = 0)
      /\ (t /\ b = 64) \/ (~t /\ b = 0)
      /\ (l /\ c = 32) \/ (~l /\ c = 0)
      /\ (k /\ e = 16) \/ (~k /\ e = 0)
  BY <1>1 DEF Flag
<1>3. x = a + b + c + e
  BY <1>1
<1>4. /\ x \in 0 .. 255
      /\ (x \div 128) % 2 = 1 <=> a = 128
      /\ (x \div 64) % 2 = 1 <=> b = 64
      /\ (x \div 32) % 2 = 1 <=> c = 32
      /\ (x \div 16) % 2 = 1 <=> e = 16
  BY <1>2, <1>3
<1> QED
  BY <1>2, <1>4 DEF On, Byte

LayerSum(tid, l, key) == Flag(tid # -1, 64 * tid) + Flag(l, 32) + Flag(key # -1, key)

LEMMA LayerByte ==
  ASSUME NEW tid \in -1 .. 3, NEW l \in BOOLEAN, NEW key \in -1 .. 31,
         NEW x, x = LayerSum(tid, l, key)
  PROVE  /\ x \in Byte /\ On(x, 32) = l
         /\ (tid # -1 => x \div 64 = tid) /\ (key # -1 => x % 32 = key)
<1>1. PICK a, b, c : a = Flag(tid # -1, 64 * tid) /\ b = Flag(l, 32) /\ c = Flag(key # -1, key)
  OBVIOUS
<1>2. /\ (tid # -1 /\ a = 64 * tid) \/ (tid = -1 /\ a = 0)
      /\ (l /\ b = 32) \/ (~l /\ b = 0)
      /\ (key # -1 /\ c = key) \/ (key = -1 /\ c = 0)
  BY <1>1 DEF Flag
<1>3. x = a + b + c
  BY <1>1, Zenon DEF LayerSum
<1>4. PICK i \in 0 .. 3 : a = 64 * i /\ (tid # -1 => tid = i)
  BY <1>2
<1>5. PICK j \in 0 .. 31 : c = j /\ (key # -1 => key = j)
  BY <1>2
<1>6. PICK h \in 0 .. 1 : b = 32 * h /\ (l <=> h = 1)
  <2>1. CASE l
    BY <1>2, <2>1
  <2>2. CASE ~l
    BY <1>2, <2>2
  <2> QED
    BY <2>1, <2>2, Zenon
<1>7. x \in 0 .. 255 /\ x \div 64 = i /\ x % 32 = j /\ x \div 32 = 2 * i + h
  BY <1>3, <1>4, <1>5, <1>6
<1>8. ((x \div 32) % 2 = 1) <=> h = 1
  BY <1>7
<1> QED
  BY <1>4, <1>5, <1>6, <1>7, <1>8 DEF On, Byte

LEMMA DescriptorTypes ==
  ASSUME NEW d, IsDescriptor(d)
  PROVE  /\ d.nonReference \in BOOLEAN /\ d.start \in BOOLEAN /\ d.partition \in 0 .. 15
         /\ d.pictureId \in Int /\ d.pictureId >= -1 /\ d.pictureId <= MaxPictureId
         /\ d.longId \in BOOLEAN /\ (d.pictureId > 127 => d.longId)
         /\ d.tl0 \in -1 .. 255 /\ d.tid \in -1 .. 3 /\ d.keyIdx \in -1 .. 31
         /\ d.layerSync \in BOOLEAN /\ (d.tid = -1 => ~d.layerSync)
<1>1. -1 \in Int /\ MaxPictureId \in Int
  BY LimitTypes
<1>2. /\ d.nonReference \in BOOLEAN /\ d.start \in BOOLEAN /\ d.partition \in 0 .. 15
      /\ d.pictureId \in -1 .. MaxPictureId /\ d.longId \in BOOLEAN
      /\ d.pictureId > 127 => d.longId
      /\ d.tl0 \in -1 .. 255 /\ d.tid \in -1 .. 3 /\ d.keyIdx \in -1 .. 31
      /\ d.layerSync \in BOOLEAN /\ (d.tid = -1 => ~d.layerSync)
  BY Zenon DEF IsDescriptor
<1>3. d.pictureId \in Int /\ -1 <= d.pictureId /\ d.pictureId <= MaxPictureId
  BY <1>1, <1>2, Between, Zenon
<1> HIDE DEF IsDescriptor
<1> QED
  BY <1>2, <1>3

(* The bytes of the optional fields and where they stand: pl, tl and ll    *)
(* are the lengths of the picture id, TL0PICIDX and the layer byte.        *)
FirstOf(d) ==
  Flag(HasOptional(d), 128) + Flag(d.nonReference, 32) + Flag(d.start, 16) + d.partition
FlagsOf(d) ==
  Flag(d.pictureId # -1, 128) + Flag(d.tl0 # -1, 64)
    + Flag(d.tid # -1, 32) + Flag(d.keyIdx # -1, 16)
LayerOf(d) == LayerSum(d.tid, d.layerSync, d.keyIdx)

OptionalLaid(D, d, pl, tl, ll) ==
  /\ D \in Seq(Byte) /\ Len(D) = 2 + pl + tl + ll
  /\ D[1] = FirstOf(d) /\ D[2] = FlagsOf(d)
  /\ \/ pl = 0 /\ d.pictureId = -1
     \/ pl = 1 /\ d.pictureId \in 0 .. 127 /\ ~d.longId /\ D[3] = d.pictureId
     \/ /\ pl = 2 /\ d.pictureId \in 0 .. MaxPictureId /\ d.longId
        /\ D[3] = 128 + d.pictureId \div 256 /\ D[4] = d.pictureId % 256
  /\ \/ tl = 0 /\ d.tl0 = -1
     \/ tl = 1 /\ d.tl0 \in Byte /\ D[3 + pl] = d.tl0
  /\ \/ ll = 0 /\ d.tid = -1 /\ d.keyIdx = -1
     \/ ll = 1 /\ ~(d.tid = -1 /\ d.keyIdx = -1) /\ D[3 + pl + tl] = LayerOf(d)

(* A picture id of fifteen bits fits into two bytes, the first one with    *)
(* its highest bit on.                                                     *)
LEMMA LongIdBytes ==
  ASSUME NEW n \in 0 .. MaxPictureId
  PROVE  128 + n \div 256 \in Byte /\ n % 256 \in Byte
<1>1. n \in Nat /\ n <= 32767
  BY SMT DEF MaxPictureId
<1> QED
  BY <1>1, SMT DEF Byte

LEMMA DescriptorLaid ==
  ASSUME NEW d, IsDescriptor(d), HasOptional(d)
  PROVE  \E pl \in 0 .. 2, tl \in 0 .. 1, ll \in 0 .. 1 :
           OptionalLaid(DescriptorBytes(d), d, pl, tl, ll)
<1> DEFINE h == << FirstOf(d) >>
           g == << FlagsOf(d) >>
           p == PictureIdField(d)
           t == IF d.tl0 = -1 THEN << >> ELSE << d.tl0 >>
           l == LayerField(d)
<1>1. DescriptorBytes(d) = h \o (((g \o p) \o t) \o l)
  BY Zenon DEF DescriptorBytes, FirstOf, FlagsOf
<1>2. h \in Seq(Byte) /\ Len(h) = 1 /\ h[1] = FirstOf(d)
  <2>1. HasOptional(d) \in BOOLEAN
    BY DEF HasOptional
  <2>2. PICK o \in BOOLEAN : o = HasOptional(d)
    BY <2>1, Zenon
  <2>3. PICK r \in BOOLEAN, s \in BOOLEAN, n \in 0 .. 15 :
          r = d.nonReference /\ s = d.start /\ n = d.partition
    BY DescriptorTypes, Zenon
  <2>4. FirstOf(d) = Flag(o, 128) + Flag(r, 32) + Flag(s, 16) + n
    BY <2>2, <2>3, Zenon DEF FirstOf
  <2>5. FirstOf(d) \in Byte
    BY <2>4, FirstByte
  <2> QED
    BY <2>5, OneElement
<1>3. g \in Seq(Byte) /\ Len(g) = 1 /\ g[1] = FlagsOf(d)
  <2>1. PICK o \in BOOLEAN, m \in BOOLEAN, n \in BOOLEAN, k \in BOOLEAN :
          /\ o = (d.pictureId # -1) /\ m = (d.tl0 # -1)
          /\ n = (d.tid # -1) /\ k = (d.keyIdx # -1)
    BY Zenon
  <2>2. FlagsOf(d) = Flag(o, 128) + Flag(m, 64) + Flag(n, 32) + Flag(k, 16)
    BY <2>1, Zenon DEF FlagsOf
  <2>3. FlagsOf(d) \in Byte
    BY <2>2, FlagByte
  <2> QED
    BY <2>3, OneElement
<1>4. PICK pl \in 0 .. 2 :
        /\ p \in Seq(Byte) /\ Len(p) = pl
        /\ \/ pl = 0 /\ d.pictureId = -1
           \/ pl = 1 /\ d.pictureId \in 0 .. 127 /\ ~d.longId /\ p[1] = d.pictureId
           \/ /\ pl = 2 /\ d.pictureId \in 0 .. MaxPictureId /\ d.longId
              /\ p[1] = 128 + d.pictureId \div 256 /\ p[2] = d.pictureId % 256
  <2>1. CASE d.pictureId = -1
    <3>1. p = << >>
      BY <2>1 DEF PictureIdField
    <3>2. p \in Seq(Byte) /\ Len(p) = 0
      BY <3>1
    <3> QED
      BY <2>1, <3>2
  <2>2. CASE d.pictureId # -1 /\ ~d.longId
    <3>1. p = << d.pictureId >>
      BY <2>2 DEF PictureIdField
    <3>2. d.pictureId \in 0 .. 127 /\ d.pictureId \in Byte
      BY <2>2, DescriptorTypes DEF Byte
    <3>3. p \in Seq(Byte) /\ Len(p) = 1 /\ p[1] = d.pictureId
      BY <3>1, <3>2, OneElement
    <3> QED
      BY <2>2, <3>2, <3>3
  <2>3. CASE d.pictureId # -1 /\ d.longId
    <3>1. p = << 128 + d.pictureId \div 256, d.pictureId % 256 >>
      BY <2>3 DEF PictureIdField
    <3>2. d.pictureId \in 0 .. MaxPictureId /\ d.pictureId \in Nat
      BY <2>3, DescriptorTypes, LimitTypes
    <3>3. 128 + d.pictureId \div 256 \in Byte /\ d.pictureId % 256 \in Byte
      <4>1. PICK n \in 0 .. MaxPictureId : n = d.pictureId
        BY <3>2, Zenon
      <4> QED
        BY <4>1, LongIdBytes, Zenon
    <3>4. /\ p \in Seq(Byte) /\ Len(p) = 2
          /\ p[1] = 128 + d.pictureId \div 256 /\ p[2] = d.pictureId % 256
      BY <3>1, <3>3, TwoElements
    <3> QED
      BY <2>3, <3>2, <3>4
  <2> QED
    BY <2>1, <2>2, <2>3
<1>5. PICK tl \in 0 .. 1 :
        /\ t \in Seq(Byte) /\ Len(t) = tl
        /\ \/ tl = 0 /\ d.tl0 = -1
           \/ tl = 1 /\ d.tl0 \in Byte /\ t[1] = d.tl0
  <2>1. CASE d.tl0 = -1
    BY <2>1
  <2>2. CASE d.tl0 # -1
    <3>1. d.tl0 \in Byte
      BY <2>2, DescriptorTypes DEF Byte
    <3>2. t = << d.tl0 >>
      BY <2>2
    <3> QED
      BY <3>1, <3>2, OneElement
  <2> QED
    BY <2>1, <2>2
<1>6. PICK ll \in 0 .. 1 :
        /\ l \in Seq(Byte) /\ Len(l) = ll
        /\ \/ ll = 0 /\ d.tid = -1 /\ d.keyIdx = -1
           \/ ll = 1 /\ ~(d.tid = -1 /\ d.keyIdx = -1) /\ l[1] = LayerOf(d)
  <2>1. CASE d.tid = -1 /\ d.keyIdx = -1
    BY <2>1 DEF LayerField
  <2>2. CASE ~(d.tid = -1 /\ d.keyIdx = -1)
    <3>1. d.tid \in -1 .. 3 /\ d.layerSync \in BOOLEAN /\ d.keyIdx \in -1 .. 31
      BY DescriptorTypes
    <3>2. LayerOf(d) \in Byte
      <4>1. \A i \in -1 .. 3, s \in BOOLEAN, j \in -1 .. 31 : LayerSum(i, s, j) \in Byte
        BY LayerByte
      <4> QED
        BY <3>1, <4>1, Zenon DEF LayerOf
    <3>3. l = << LayerOf(d) >>
      BY <2>2, Zenon DEF LayerField, LayerOf, LayerSum
    <3> QED
      BY <2>2, <3>2, <3>3, OneElement
  <2> QED
    BY <2>1, <2>2
<1> HIDE DEF h, g, p, t, l
<1>7. PICK a, b, c, D : /\ a = g \o p /\ b = a \o t /\ c = b \o l
                        /\ D = h \o c /\ D = DescriptorBytes(d)
  BY <1>1
<1>8. /\ a \in Seq(Byte) /\ Len(a) = 1 + pl /\ a[1] = FlagsOf(d)
      /\ \A i \in 1 .. pl : a[1 + i] = p[i]
  <2>1. 1 \in 1 .. Len(g)
    BY <1>3
  <2>2. /\ a \in Seq(Byte) /\ Len(a) = Len(g) + Len(p)
        /\ \A i \in 1 .. Len(g) : a[i] = g[i]
        /\ \A i \in 1 .. Len(p) : a[Len(g) + i] = p[i]
    <3>1. g \in Seq(Byte) /\ p \in Seq(Byte)
      BY <1>3, <1>4
    <3> HIDE <1>4
    <3> QED
      BY <3>1, <1>7, Joined
  <2> QED
    BY <2>1, <2>2, <1>3, <1>4
<1>9. /\ b \in Seq(Byte) /\ Len(b) = 1 + pl + tl
      /\ \A i \in 1 .. 1 + pl : b[i] = a[i]
      /\ \A i \in 1 .. tl : b[1 + pl + i] = t[i]
  <2>1. a \in Seq(Byte) /\ t \in Seq(Byte) /\ Len(a) = 1 + pl /\ Len(t) = tl
    BY <1>5, <1>8
  <2>2. JoinedAs(Byte, a, t, b)
    BY <1>7, <2>1, JoinedIs, Zenon
  <2> QED
    BY <2>1, <2>2 DEF JoinedAs
<1>10. /\ c \in Seq(Byte) /\ Len(c) = 1 + pl + tl + ll
       /\ \A i \in 1 .. 1 + pl + tl : c[i] = b[i]
       /\ \A i \in 1 .. ll : c[1 + pl + tl + i] = l[i]
  <2>1. b \in Seq(Byte) /\ l \in Seq(Byte) /\ Len(b) = 1 + pl + tl /\ Len(l) = ll
    BY <1>6, <1>9
  <2>2. JoinedAs(Byte, b, l, c)
    BY <1>7, <2>1, JoinedIs, Zenon
  <2> QED
    BY <2>1, <2>2 DEF JoinedAs
<1>11. /\ D \in Seq(Byte) /\ Len(D) = 2 + pl + tl + ll
       /\ D[1] = FirstOf(d)
       /\ \A i \in 1 .. 1 + pl + tl + ll : D[1 + i] = c[i]
  <2>1. 1 \in 1 .. Len(h)
    BY <1>2
  <2>2. /\ D \in Seq(Byte) /\ Len(D) = 1 + (1 + pl + tl + ll)
        /\ D[1] = h[1]
        /\ \A i \in 1 .. 1 + pl + tl + ll : D[1 + i] = c[i]
    <3>1. /\ D \in Seq(Byte) /\ Len(D) = Len(h) + Len(c)
          /\ \A i \in 1 .. Len(h) : D[i] = h[i]
          /\ \A i \in 1 .. Len(c) : D[Len(h) + i] = c[i]
      <4>1. h \in Seq(Byte) /\ c \in Seq(Byte) /\ D = h \o c
        BY <1>2, <1>7, <1>10
      <4> QED
        BY <4>1, Joined
    <3> QED
      BY <2>1, <3>1, <1>2, <1>10
  <2> QED
    BY <1>2, <2>2
<1>12. /\ D[2] = FlagsOf(d)
       /\ pl >= 1 => D[3] = p[1]
       /\ pl >= 2 => D[4] = p[2]
       /\ tl = 1 => D[3 + pl] = t[1]
       /\ ll = 1 => D[3 + pl + tl] = l[1]
  <2>1. ASSUME NEW i \in 1 .. 1 + pl PROVE D[1 + i] = a[i]
    BY <1>9, <1>10, <1>11
  <2>2. D[1 + 1] = a[1]
    BY <2>1
  <2>3. ASSUME pl >= 1 PROVE D[3] = p[1]
    <3>1. D[1 + 2] = a[2] /\ a[1 + 1] = p[1]
      BY <1>8, <2>1, <2>3
    <3> QED
      BY <3>1
  <2>4. ASSUME pl >= 2 PROVE D[4] = p[2]
    <3>1. D[1 + 3] = a[3] /\ a[1 + 2] = p[2]
      BY <1>8, <2>1, <2>4
    <3> QED
      BY <3>1
  <2>5. ASSUME tl = 1 PROVE D[3 + pl] = t[1]
    <3>1. 2 + pl \in 1 .. 1 + pl + tl + ll /\ 2 + pl \in 1 .. 1 + pl + tl /\ 1 \in 1 .. tl
      BY <2>5
    <3>2. D[1 + (2 + pl)] = c[2 + pl] /\ c[2 + pl] = b[2 + pl] /\ b[1 + pl + 1] = t[1]
      BY <1>9, <1>10, <1>11, <3>1
    <3>3. 1 + (2 + pl) = 3 + pl /\ 1 + pl + 1 = 2 + pl
      OBVIOUS
    <3> QED
      BY <3>2, <3>3
  <2>6. ASSUME ll = 1 PROVE D[3 + pl + tl] = l[1]
    <3>1. 2 + pl + tl \in 1 .. 1 + pl + tl + ll /\ 1 \in 1 .. ll
      BY <2>6
    <3>2. D[1 + (2 + pl + tl)] = c[2 + pl + tl] /\ c[1 + pl + tl + 1] = l[1]
      BY <1>10, <1>11, <3>1
    <3>3. 1 + (2 + pl + tl) = 3 + pl + tl /\ 1 + pl + tl + 1 = 2 + pl + tl
      OBVIOUS
    <3> QED
      BY <3>2, <3>3
  <2> QED
    BY <1>8, <2>2, <2>3, <2>4, <2>5, <2>6
<1>13. OptionalLaid(D, d, pl, tl, ll)
  <2>1. \/ pl = 0 /\ d.pictureId = -1
        \/ pl = 1 /\ d.pictureId \in 0 .. 127 /\ ~d.longId /\ D[3] = d.pictureId
        \/ /\ pl = 2 /\ d.pictureId \in 0 .. MaxPictureId /\ d.longId
           /\ D[3] = 128 + d.pictureId \div 256 /\ D[4] = d.pictureId % 256
    BY <1>4, <1>12
  <2>2. \/ tl = 0 /\ d.tl0 = -1
        \/ tl = 1 /\ d.tl0 \in Byte /\ D[3 + pl] = d.tl0
    BY <1>5, <1>12
  <2>3. \/ ll = 0 /\ d.tid = -1 /\ d.keyIdx = -1
        \/ ll = 1 /\ ~(d.tid = -1 /\ d.keyIdx = -1) /\ D[3 + pl + tl] = LayerOf(d)
    BY <1>6, <1>12
  <2> QED
    BY <1>11, <1>12, <2>1, <2>2, <2>3, Zenon DEF OptionalLaid
<1> QED
  BY <1>7, <1>13

(* The bytes of data, as far as it goes, are those of the descriptor. *)
StartsWith(data, D) ==
  data \in Seq(Byte) /\ \A i \in 1 .. Len(D) : i <= Len(data) => data[i] = D[i]

LEMMA FirstRead ==
  ASSUME NEW d, IsDescriptor(d)
  PROVE  /\ On(FirstOf(d), 128) = HasOptional(d) /\ On(FirstOf(d), 32) = d.nonReference
         /\ On(FirstOf(d), 16) = d.start /\ FirstOf(d) % 16 = d.partition
         /\ FirstOf(d) \in Byte
<1>1. HasOptional(d) \in BOOLEAN
  BY Zenon DEF HasOptional
<1>2. PICK o \in BOOLEAN : o = HasOptional(d)
  BY <1>1, Zenon
<1>3. PICK r \in BOOLEAN, s \in BOOLEAN, n \in 0 .. 15 :
        r = d.nonReference /\ s = d.start /\ n = d.partition
  BY DescriptorTypes, Zenon
<1>4. PICK x : x = Flag(o, 128) + Flag(r, 32) + Flag(s, 16) + n
  OBVIOUS
<1>5. FirstOf(d) = x
  BY <1>2, <1>3, <1>4, Zenon DEF FirstOf
<1>6. On(x, 128) = o /\ On(x, 32) = r /\ On(x, 16) = s /\ x % 16 = n /\ x \in Byte
  BY <1>4, FirstByte
<1> QED
  BY <1>2, <1>3, <1>5, <1>6, Zenon

LEMMA FlagsRead ==
  ASSUME NEW d, IsDescriptor(d)
  PROVE  /\ On(FlagsOf(d), 128) <=> d.pictureId # -1
         /\ On(FlagsOf(d), 64) <=> d.tl0 # -1
         /\ On(FlagsOf(d), 32) <=> d.tid # -1
         /\ On(FlagsOf(d), 16) <=> d.keyIdx # -1
<1>1. PICK o \in BOOLEAN, m \in BOOLEAN, n \in BOOLEAN, k \in BOOLEAN :
        /\ o = (d.pictureId # -1) /\ m = (d.tl0 # -1)
        /\ n = (d.tid # -1) /\ k = (d.keyIdx # -1)
  BY Zenon
<1>2. PICK x : x = Flag(o, 128) + Flag(m, 64) + Flag(n, 32) + Flag(k, 16)
  OBVIOUS
<1>3. FlagsOf(d) = x
  BY <1>1, <1>2, Zenon DEF FlagsOf
<1>4. On(x, 128) = o /\ On(x, 64) = m /\ On(x, 32) = n /\ On(x, 16) = k
  BY <1>2, FlagByte
<1> QED
  BY <1>1, <1>3, <1>4, Zenon

LEMMA OptionalSize ==
  ASSUME NEW d, IsDescriptor(d), HasOptional(d), NEW D,
         NEW pl \in 0 .. 2, NEW tl \in 0 .. 1, NEW ll \in 0 .. 1,
         OptionalLaid(D, d, pl, tl, ll), NEW data, StartsWith(data, D)
  PROVE  /\ DescriptorSize(data) = IF Len(data) < Len(D) THEN -1 ELSE Len(D)
         /\ Len(data) >= Len(D) =>
              OptionalBytes(data)[1] = pl /\ OptionalBytes(data)[2] = tl
         /\ Len(data) >= Len(D) /\ pl >= 1 => PictureIdBytes(data) = pl
<1>1. Len(data) \in Nat /\ Len(D) = 2 + pl + tl + ll
  BY LenProperties DEF StartsWith, OptionalLaid
<1>4. data \in Seq(Byte)
  BY DEF StartsWith
<1>8. PICK n \in Nat : n = Len(data)
  BY <1>1
<1>5. \/ pl = 0 /\ d.pictureId = -1
      \/ pl = 1 /\ d.pictureId \in 0 .. 127 /\ D[3] = d.pictureId
      \/ /\ pl = 2 /\ d.pictureId \in 0 .. MaxPictureId
         /\ D[3] = 128 + d.pictureId \div 256
  BY Zenon DEF OptionalLaid
<1>6. \/ tl = 0 /\ d.tl0 = -1
      \/ tl = 1 /\ d.tl0 \in Byte
  BY Zenon DEF OptionalLaid
<1>7. \/ ll = 0 /\ d.tid = -1 /\ d.keyIdx = -1
      \/ ll = 1 /\ ~(d.tid = -1 /\ d.keyIdx = -1)
  BY Zenon DEF OptionalLaid
<1>2. CASE data = << >>
  <2>1. Len(data) = 0
    BY <1>2
  <2>2. DescriptorSize(data) = -1
    BY <1>2, Zenon DEF DescriptorSize
  <2> QED
    BY <1>1, <2>1, <2>2
<1>3. CASE data # << >>
  <2>1. Len(data) >= 1
    BY <1>3, <1>4, EmptySeq
  <2>2. data[1] = FirstOf(d)
    BY <1>1, <2>1 DEF StartsWith, OptionalLaid
  <2>3. On(data[1], 128)
    BY <2>2, FirstRead
  <2>4. CASE Len(data) = 1
    <3>1. DescriptorSize(data) = -1
      BY <1>3, <2>3, <2>4, Zenon DEF DescriptorSize
    <3> QED
      BY <1>1, <2>4, <3>1
  <2>5. CASE Len(data) # 1
    <3>0. Len(data) >= 2
      BY <1>8, <2>1, <2>5
    <3>1. data[2] = FlagsOf(d)
      BY <1>1, <3>0 DEF StartsWith, OptionalLaid
    <3>2. /\ On(data[2], 128) <=> pl # 0
          /\ On(data[2], 64) <=> tl # 0
          /\ On(data[2], 32) \/ On(data[2], 16) <=> ll # 0
      <4>1. /\ d.pictureId # -1 <=> pl # 0
            /\ d.tl0 # -1 <=> tl # 0
            /\ (d.tid # -1 \/ d.keyIdx # -1) <=> ll # 0
        <5>1. d.pictureId # -1 <=> pl # 0
          BY <1>5, DescriptorTypes, LimitTypes
        <5>2. d.tl0 # -1 <=> tl # 0
          BY <1>6 DEF Byte
        <5>3. (d.tid # -1 \/ d.keyIdx # -1) <=> ll # 0
          BY <1>7
        <5> QED
          BY <5>1, <5>2, <5>3
      <4> QED
        BY <3>1, <4>1, FlagsRead
    <3>3. ASSUME Len(data) >= 3, pl # 0 PROVE PictureIdBytes(data) = pl
      <4>1. data[3] = D[3]
        BY <1>1, <3>3 DEF StartsWith
      <4>2. CASE pl = 1
        <5>1. D[3] \in 0 .. 127
          BY <1>5, <4>2
        <5>2. ~On(data[3], 128)
          BY <4>1, <5>1 DEF On
        <5> QED
          BY <4>2, <5>2, Zenon DEF PictureIdBytes
      <4>3. CASE pl = 2
        <5>1. /\ d.pictureId \in 0 .. MaxPictureId
              /\ D[3] = 128 + d.pictureId \div 256
          BY <1>5, <4>3
        <5>2. d.pictureId \in Nat /\ d.pictureId <= MaxPictureId
          BY <5>1, LimitTypes
        <5>5. PICK i \in Nat : i = d.pictureId /\ i <= MaxPictureId
          BY <5>2
        <5>6. i <= 32767
          BY <5>5, SMT DEF MaxPictureId
        <5>3. D[3] \in 128 .. 255
          BY <5>1, <5>5, <5>6
        <5>4. On(data[3], 128)
          BY <4>1, <5>3 DEF On
        <5> QED
          BY <4>3, <5>4, Zenon DEF PictureIdBytes
      <4> QED
        BY <3>3, <4>2, <4>3
    <3>4. PICK a : a = IF On(data[2], 128)
                       THEN IF Len(data) < 3 THEN 1 ELSE PictureIdBytes(data) ELSE 0
      OBVIOUS
    <3>5. OptionalBytes(data) = << a, tl, ll >>
      <4>1. tl = IF On(data[2], 64) THEN 1 ELSE 0
        BY <3>2
      <4>2. ll = IF On(data[2], 32) \/ On(data[2], 16) THEN 1 ELSE 0
        BY <3>2
      <4> QED
        BY <3>4, <4>1, <4>2, ZenonT(60) DEF OptionalBytes
    <3>6. a \in Nat /\ (pl >= 1 => a >= 1) /\ (Len(data) >= 3 => a = pl) /\ a <= pl
      <4>1. CASE pl = 0
        BY <3>2, <3>4, <4>1
      <4>2. CASE pl # 0 /\ Len(data) < 3
        BY <3>2, <3>4, <4>2, <1>1
      <4>3. CASE pl # 0 /\ ~(Len(data) < 3)
        <5>1. a = PictureIdBytes(data) /\ Len(data) >= 3
          BY <3>2, <3>4, <4>3, <1>1
        <5> QED
          BY <3>3, <4>3, <5>1
      <4> QED
        BY <4>1, <4>2, <4>3
    <3>7. Total(<< a, tl, ll >>) = a + tl + ll
      BY <3>6, TotalOfThree
    <3>8. PICK size : size = 2 + Total(OptionalBytes(data))
      OBVIOUS
    <3>9. DescriptorSize(data) = IF Len(data) < size THEN -1 ELSE size
      BY <1>3, <2>3, <2>5, <3>8, Zenon DEF DescriptorSize, Total
    <3>10. size = 2 + (a + tl + ll)
      BY <3>5, <3>7, <3>8, Zenon
    <3>11. DescriptorSize(data) = IF Len(data) < Len(D) THEN -1 ELSE Len(D)
      <4>1. CASE Len(data) >= 3
        BY <1>1, <3>6, <3>9, <3>10, <4>1
      <4>2. CASE ~(Len(data) >= 3)
        <5>3. Len(data) = 2
          BY <1>8, <3>0, <4>2
        <5>4. size \in Nat /\ size >= 2 /\ (size > 2 <=> pl + tl + ll > 0)
          BY <3>6, <3>10
        <5>1. Len(data) = 2 /\ (size > 2 <=> Len(D) > 2) /\ size \in Nat /\ size >= 2
          BY <1>1, <5>3, <5>4
        <5>2. size = 2 => Len(D) = 2
          BY <1>1, <5>1
        <5> QED
          BY <1>1, <3>9, <5>1, <5>2
      <4> QED
        BY <4>1, <4>2
    <3>12. ASSUME Len(data) >= Len(D) PROVE a = pl
      BY <1>1, <3>6, <3>12
    <3>13. ASSUME Len(data) >= Len(D), pl >= 1 PROVE PictureIdBytes(data) = pl
      BY <1>1, <3>3, <3>13
    <3> QED
      BY <3>5, <3>11, <3>12, <3>13
  <2> QED
    BY <2>4, <2>5
<1> QED
  BY <1>2, <1>3

(* What is to be read of the whole of it. *)
FieldsOf(d, size) ==
  [ret |-> size,
   NonReference |-> d.nonReference,
   BeginningOfPartition |-> d.start,
   PartitionId |-> d.partition,
   PictureId |-> d.pictureId,
   Tl0PicIdx |-> d.tl0,
   TemporalIdx |-> IF d.tid = -1 THEN 255 ELSE d.tid,
   LayerSync |-> d.layerSync,
   KeyIdx |-> d.keyIdx]

LEMMA LayerRead ==
  ASSUME NEW d, IsDescriptor(d)
  PROVE  /\ On(LayerOf(d), 32) = d.layerSync
         /\ d.tid # -1 => LayerOf(d) \div 64 = d.tid
         /\ d.keyIdx # -1 => LayerOf(d) % 32 = d.keyIdx
<1>1. PICK i \in -1 .. 3, s \in BOOLEAN, j \in -1 .. 31 :
        i = d.tid /\ s = d.layerSync /\ j = d.keyIdx
  BY DescriptorTypes, Zenon
<1>2. PICK x : x = LayerSum(i, s, j)
  OBVIOUS
<1>3. LayerOf(d) = x
  BY <1>1, <1>2, Zenon DEF LayerOf
<1>4. On(x, 32) = s /\ (i # -1 => x \div 64 = i) /\ (j # -1 => x % 32 = j)
  BY <1>2, LayerByte
<1> QED
  BY <1>1, <1>3, <1>4, Zenon

(* The fields as the parser takes them from the bytes. *)
PictureIdOf(data) ==
  CASE ~(On(data[1], 128) /\ On(data[2], 128)) -> -1
    [] (On(data[1], 128) /\ On(data[2], 128)) /\ PictureIdBytes(data) = 1 -> data[3] % 128
    [] OTHER -> (data[3] % 128) * 256 + data[4]
Tl0Of(data, t) == IF On(data[1], 128) /\ On(data[2], 64) THEN data[t] ELSE -1
TidOf(data, k) == IF On(data[1], 128) /\ On(data[2], 32) THEN data[k] \div 64 ELSE 255
SyncOf(data, k) == (On(data[1], 128) /\ On(data[2], 32)) /\ On(data[k], 32)
KeyOf(data, k) == IF On(data[1], 128) /\ On(data[2], 16) THEN data[k] % 32 ELSE -1

LEMMA ParsedAs ==
  ASSUME NEW data, NEW size, DescriptorSize(data) = size, size # -1, NEW t, NEW k,
         t = 3 + OptionalBytes(data)[1], k = t + OptionalBytes(data)[2]
  PROVE  ParseVP8Descriptor(data) =
           [ret |-> size, NonReference |-> On(data[1], 32),
            BeginningOfPartition |-> On(data[1], 16), PartitionId |-> data[1] % 16,
            PictureId |-> PictureIdOf(data), Tl0PicIdx |-> Tl0Of(data, t),
            TemporalIdx |-> TidOf(data, k), LayerSync |-> SyncOf(data, k),
            KeyIdx |-> KeyOf(data, k)]
BY Zenon DEF ParseVP8Descriptor, PictureIdOf, Tl0Of, TidOf, SyncOf, KeyOf

LEMMA PlainRead ==
  ASSUME NEW d, IsDescriptor(d), ~HasOptional(d), NEW D, D = DescriptorBytes(d),
         NEW data, StartsWith(data, D)
  PROVE  /\ D = << FirstOf(d) >>
         /\ Len(data) < Len(D) => ParseVP8Descriptor(data) = [ret |-> -1]
         /\ Len(data) >= Len(D) => ParseVP8Descriptor(data) = FieldsOf(d, Len(D))
<1>1. D = << FirstOf(d) >>
  <2>1. D = << FirstOf(d) >> \o << >>
    BY Zenon DEF DescriptorBytes, FirstOf
  <2> QED
    BY <2>1
<1>2. Len(D) = 1 /\ D[1] = FirstOf(d)
  BY <1>1
<1>3. data \in Seq(Byte)
  BY DEF StartsWith
<1>4. PICK n \in Nat : n = Len(data)
  BY <1>3, LenProperties
<1>5. CASE n = 0
  <2>1. data = << >>
    BY <1>3, <1>4, <1>5, EmptySeq
  <2>2. DescriptorSize(data) = -1
    BY <2>1, Zenon DEF DescriptorSize
  <2>3. ParseVP8Descriptor(data) = [ret |-> -1]
    BY <2>2, Zenon DEF ParseVP8Descriptor
  <2> QED
    BY <1>1, <1>2, <1>4, <1>5, <2>3
<1>6. CASE n # 0
  <2>1. data # << >> /\ n >= 1
    BY <1>4, <1>6
  <2>2. data[1] = FirstOf(d)
    BY <1>2, <1>4, <2>1 DEF StartsWith
  <2>3. ~On(data[1], 128)
    BY <2>2, FirstRead, Zenon
  <2>4. DescriptorSize(data) = 1
    BY <2>1, <2>3, Zenon DEF DescriptorSize
  <2>5. 1 # -1
    OBVIOUS
  <2>6. ParseVP8Descriptor(data) =
          [ret |-> 1, NonReference |-> On(data[1], 32),
           BeginningOfPartition |-> On(data[1], 16), PartitionId |-> data[1] % 16,
           PictureId |-> -1, Tl0PicIdx |-> -1, TemporalIdx |-> 255,
           LayerSync |-> FALSE, KeyIdx |-> -1]
    BY <2>3, <2>4, <2>5, Zenon DEF ParseVP8Descriptor
  <2>7. /\ d.pictureId = -1 /\ d.tl0 = -1 /\ d.tid = -1 /\ d.keyIdx = -1
        /\ d.layerSync = FALSE
    BY DescriptorTypes, Zenon DEF HasOptional
  <2>8. /\ On(data[1], 32) = d.nonReference /\ On(data[1], 16) = d.start
        /\ data[1] % 16 = d.partition
    BY <2>2, FirstRead, Zenon
  <2>9. ParseVP8Descriptor(data) = FieldsOf(d, 1)
    BY <2>6, <2>7, <2>8, Zenon DEF FieldsOf
  <2> QED
    BY <1>1, <1>2, <1>4, <1>6, <2>9
<1> QED
  BY <1>5, <1>6

LEMMA OptionalRead ==
  ASSUME NEW d, IsDescriptor(d), HasOptional(d), NEW D, D = DescriptorBytes(d),
         NEW data, StartsWith(data, D)
  PROVE  /\ D \in Seq(Byte)
         /\ Len(data) < Len(D) => ParseVP8Descriptor(data) = [ret |-> -1]
         /\ Len(data) >= Len(D) => ParseVP8Descriptor(data) = FieldsOf(d, Len(D))
<1>1. PICK pl \in 0 .. 2, tl \in 0 .. 1, ll \in 0 .. 1 : OptionalLaid(D, d, pl, tl, ll)
  BY DescriptorLaid
<1>2. data \in Seq(Byte) /\ D \in Seq(Byte)
  BY <1>1 DEF StartsWith, OptionalLaid
<1>3. PICK n \in Nat : n = Len(data)
  BY <1>2, LenProperties
<1>4. PICK m \in Nat : m = Len(D) /\ m = 2 + pl + tl + ll
  BY <1>1 DEF OptionalLaid
<1>5. DescriptorSize(data) = IF n < m THEN -1 ELSE m
  BY <1>1, <1>3, <1>4, OptionalSize
<1>6. CASE n < m
  <2>1. ParseVP8Descriptor(data) = [ret |-> -1]
    BY <1>5, <1>6, Zenon DEF ParseVP8Descriptor
  <2> QED
    BY <1>2, <1>3, <1>4, <1>6, <2>1
<1>7. CASE ~(n < m)
  <2>1. n >= m /\ m # -1 /\ DescriptorSize(data) = m
    BY <1>5, <1>7
  <2>2. PICK t, k : t = 3 + OptionalBytes(data)[1] /\ k = t + OptionalBytes(data)[2]
    OBVIOUS
  <2>3. t = 3 + pl /\ k = 3 + pl + tl
    BY <1>1, <1>3, <1>4, <2>1, <2>2, OptionalSize, SMTT(30)
  <2>4. \A i \in 1 .. m : data[i] = D[i]
    BY <1>3, <1>4, <2>1 DEF StartsWith
  <2>5. data[1] = FirstOf(d) /\ data[2] = FlagsOf(d)
    BY <1>1, <1>4, <2>4 DEF OptionalLaid
  <2>6. /\ On(data[1], 128)
        /\ On(data[1], 32) = d.nonReference /\ On(data[1], 16) = d.start
        /\ data[1] % 16 = d.partition
    BY <2>5, FirstRead, Zenon
  <2>7. /\ On(data[2], 128) <=> d.pictureId # -1
        /\ On(data[2], 64) <=> d.tl0 # -1
        /\ On(data[2], 32) <=> d.tid # -1
        /\ On(data[2], 16) <=> d.keyIdx # -1
    BY <2>5, FlagsRead, ZenonT(60)
  <2>8. PictureIdOf(data) = d.pictureId
    <3>1. \/ pl = 0 /\ d.pictureId = -1
          \/ pl = 1 /\ d.pictureId \in 0 .. 127 /\ D[3] = d.pictureId
          \/ /\ pl = 2 /\ d.pictureId \in 0 .. MaxPictureId
             /\ D[3] = 128 + d.pictureId \div 256 /\ D[4] = d.pictureId % 256
      BY <1>1, Zenon DEF OptionalLaid
    <3>2. CASE pl = 0
      <4>1. d.pictureId = -1
        BY <3>1, <3>2
      <4> QED
        BY <2>7, <4>1, Zenon DEF PictureIdOf
    <3>3. CASE pl = 1
      <4>1. d.pictureId \in 0 .. 127 /\ data[3] = d.pictureId
        BY <1>4, <2>4, <3>1, <3>3
      <4>2. d.pictureId # -1 /\ data[3] % 128 = d.pictureId
        BY <4>1
      <4>3. PictureIdBytes(data) = 1
        BY <1>1, <1>3, <1>4, <2>1, <3>3, OptionalSize
      <4> QED
        BY <2>6, <2>7, <4>2, <4>3, Zenon DEF PictureIdOf
    <3>4. CASE pl = 2
      <4>1. /\ d.pictureId \in 0 .. MaxPictureId
            /\ data[3] = 128 + d.pictureId \div 256 /\ data[4] = d.pictureId % 256
        BY <1>4, <2>4, <3>1, <3>4
      <4>2. PICK i \in Nat : i = d.pictureId /\ i <= MaxPictureId
        BY <4>1, LimitTypes
      <4>3. i <= 32767
        BY <4>2, SMT DEF MaxPictureId
      <4>4. PICK x, y : x = data[3] /\ y = data[4]
        OBVIOUS
      <4>5. x = 128 + i \div 256 /\ y = i % 256
        BY <4>1, <4>2, <4>4, Zenon
      <4>6. (x % 128) * 256 + y = i /\ i # -1
        BY <4>3, <4>5
      <4>7. PictureIdBytes(data) # 1
        BY <1>1, <1>3, <1>4, <2>1, <3>4, OptionalSize
      <4>8. d.pictureId # -1 /\ (data[3] % 128) * 256 + data[4] = d.pictureId
        BY <4>2, <4>4, <4>6, Zenon
      <4> QED
        BY <2>6, <2>7, <4>7, <4>8, Zenon DEF PictureIdOf
    <3> QED
      BY <3>2, <3>3, <3>4
  <2>9. Tl0Of(data, t) = d.tl0
    <3>1. CASE tl = 0
      <4>1. d.tl0 = -1
        BY <1>1, <3>1 DEF OptionalLaid
      <4> QED
        BY <2>7, <4>1, Zenon DEF Tl0Of
    <3>2. CASE tl = 1
      <4>1. d.tl0 \in Byte /\ D[3 + pl] = d.tl0
        BY <1>1, <3>2 DEF OptionalLaid
      <4>2. data[t] = d.tl0 /\ d.tl0 # -1
        BY <1>4, <2>3, <2>4, <3>2, <4>1 DEF Byte
      <4> QED
        BY <2>6, <2>7, <4>2, Zenon DEF Tl0Of
    <3> QED
      BY <3>1, <3>2
  <2>10. ll = 1 => data[k] = LayerOf(d)
    <3> SUFFICES ASSUME ll = 1 PROVE data[k] = LayerOf(d)
      OBVIOUS
    <3>1. D[3 + pl + tl] = LayerOf(d)
      BY <1>1 DEF OptionalLaid
    <3> QED
      BY <1>4, <2>3, <2>4, <3>1
  <2>11. d.tid # -1 \/ d.keyIdx # -1 => ll = 1
    BY <1>1, Zenon DEF OptionalLaid
  <2>12. TidOf(data, k) = IF d.tid = -1 THEN 255 ELSE d.tid
    BY <2>6, <2>7, <2>10, <2>11, LayerRead, Zenon DEF TidOf
  <2>13. SyncOf(data, k) = d.layerSync
    <3>1. CASE d.tid = -1
      <4>1. d.layerSync = FALSE
        BY <3>1, DescriptorTypes, Zenon
      <4> QED
        BY <2>7, <3>1, <4>1, Zenon DEF SyncOf
    <3>2. CASE d.tid # -1
      <4>1. On(data[k], 32) = d.layerSync
        BY <2>10, <2>11, <3>2, LayerRead, Zenon
      <4>2. On(data[k], 32) \in BOOLEAN
        BY Zenon DEF On
      <4> QED
        BY <2>6, <2>7, <3>2, <4>1, <4>2, Zenon DEF SyncOf
    <3> QED
      BY <3>1, <3>2
  <2>14. KeyOf(data, k) = d.keyIdx
    BY <2>6, <2>7, <2>10, <2>11, LayerRead, Zenon DEF KeyOf
  <2>15. ParseVP8Descriptor(data) =
           [ret |-> m, NonReference |-> On(data[1], 32),
            BeginningOfPartition |-> On(data[1], 16), PartitionId |-> data[1] % 16,
            PictureId |-> PictureIdOf(data), Tl0PicIdx |-> Tl0Of(data, t),
            TemporalIdx |-> TidOf(data, k), LayerSync |-> SyncOf(data, k),
            KeyIdx |-> KeyOf(data, k)]
    BY <2>1, <2>2, ParsedAs, Zenon
  <2>16. ParseVP8Descriptor(data) = FieldsOf(d, m)
    BY <2>6, <2>8, <2>9, <2>12, <2>13, <2>14, <2>15, Zenon DEF FieldsOf
  <2> QED
    BY <1>2, <1>3, <1>4, <1>7, <2>16
<1> QED
  BY <1>6, <1>7

LEMMA DescriptorStart ==
  ASSUME NEW d, IsDescriptor(d), NEW D, D = DescriptorBytes(d), NEW data, StartsWith(data, D)
  PROVE  /\ Len(data) < Len(D) => ParseVP8Descriptor(data) = [ret |-> -1]
         /\ Len(data) >= Len(D) => ParseVP8Descriptor(data) = FieldsOf(d, Len(D))
<1>1. CASE HasOptional(d)
  BY <1>1, OptionalRead
<1>2. CASE ~HasOptional(d)
  BY <1>2, PlainRead
<1> QED
  BY <1>1, <1>2

LEMMA DescriptorIsBytes ==
  ASSUME NEW d, IsDescriptor(d)
  PROVE  DescriptorBytes(d) \in Seq(Byte)
<1>1. CASE HasOptional(d)
  BY <1>1, DescriptorLaid DEF OptionalLaid
<1>2. CASE ~HasOptional(d)
  <2>1. DescriptorBytes(d) = << FirstOf(d) >> \o << >>
    BY <1>2, Zenon DEF DescriptorBytes, FirstOf
  <2>2. FirstOf(d) \in Byte
    BY FirstRead
  <2> QED
    BY <2>1, <2>2
<1> QED
  BY <1>1, <1>2

LEMMA DescriptorRead ==
  ASSUME NEW d, IsDescriptor(d), NEW D, D = DescriptorBytes(d)
  PROVE  /\ \A cut \in 0 .. Len(D) :
              ParseVP8Descriptor(SubSeq(D, 1, cut)) =
                IF cut < Len(D) THEN [ret |-> -1] ELSE FieldsOf(d, Len(D))
         /\ \A first \in {0, 1} :
              IsIdrFrame(D \o << first, 255 >>) <=> d.start /\ d.partition = 0 /\ first = 0
<1>1. D \in Seq(Byte)
  BY DescriptorIsBytes
<1>2. PICK n \in Nat : n = Len(D)
  BY <1>1, LenProperties
<1>3. ASSUME NEW cut \in 0 .. Len(D)
      PROVE  ParseVP8Descriptor(SubSeq(D, 1, cut)) =
               IF cut < Len(D) THEN [ret |-> -1] ELSE FieldsOf(d, Len(D))
  <2>1. PICK data : data = SubSeq(D, 1, cut)
    OBVIOUS
  <2>2. cut \in 0 .. n /\ cut \in Int /\ 1 \in Int /\ \A i \in 1 .. cut : D[i] \in Byte
    BY <1>1, <1>2, ElementOfSeq
  <2>3. /\ data \in Seq(Byte) /\ Len(data) = (IF 1 <= cut THEN cut - 1 + 1 ELSE 0)
        /\ \A i \in 1 .. cut - 1 + 1 : data[i] = D[1 + i - 1]
    BY <2>1, <2>2, SubSeqProperties
  <2>4. Len(data) = cut
    BY <2>2, <2>3
  <2>5. \A i \in 1 .. cut : data[i] = D[i]
    <3> TAKE i \in 1 .. cut
    <3>1. i \in 1 .. cut - 1 + 1 /\ 1 + i - 1 = i
      BY <2>2
    <3> QED
      BY <2>3, <3>1
  <2>6. StartsWith(data, D)
    BY <1>2, <2>2, <2>3, <2>4, <2>5 DEF StartsWith
  <2>7. /\ cut < n => ParseVP8Descriptor(data) = [ret |-> -1]
        /\ cut >= n => ParseVP8Descriptor(data) = FieldsOf(d, n)
    BY <1>2, <2>4, <2>6, DescriptorStart
  <2>8. CASE cut < n
    BY <1>2, <2>1, <2>7, <2>8
  <2>9. CASE ~(cut < n)
    <3>1. cut >= n
      BY <2>2, <2>9
    <3> QED
      BY <1>2, <2>1, <2>7, <2>9, <3>1
  <2> QED
    BY <2>8, <2>9
<1>4. ASSUME NEW first \in {0, 1}
      PROVE  IsIdrFrame(D \o << first, 255 >>) <=> d.start /\ d.partition = 0 /\ first = 0
  <2>1. PICK data, rest : data = D \o rest /\ rest = << first, 255 >>
    OBVIOUS
  <2>2. first \in Byte /\ 255 \in Byte
    BY DEF Byte
  <2>3. rest \in Seq(Byte) /\ Len(rest) = 2 /\ rest[1] = first
    BY <2>1, <2>2, TwoElements
  <2>4. /\ data \in Seq(Byte) /\ Len(data) = n + 2
        /\ \A i \in 1 .. n : data[i] = D[i]
        /\ \A i \in 1 .. 2 : data[n + i] = rest[i]
    BY <1>1, <1>2, <2>1, <2>3, Joined
  <2>5. Len(data) >= n /\ Len(data) > n /\ data[n + 1] = first
    BY <2>3, <2>4
  <2>6. StartsWith(data, D)
    BY <1>2, <2>4 DEF StartsWith
  <2>7. ParseVP8Descriptor(data) = FieldsOf(d, n)
    BY <1>2, <2>5, <2>6, DescriptorStart
  <2>8. PICK vp8 : vp8 = ParseVP8Descriptor(data)
    OBVIOUS
  <2>9. vp8.ret = n /\ vp8.PartitionId = d.partition /\ vp8.BeginningOfPartition = d.start
    BY <2>7, <2>8 DEF FieldsOf
  <2>10. n # -1
    OBVIOUS
  <2>11. On(first, 1) <=> first = 1
    BY DEF On
  <2>12. IsIdrFrame(data) <=> d.partition = 0 /\ d.start /\ ~On(first, 1)
    BY <2>5, <2>8, <2>9, <2>10, Zenon DEF IsIdrFrame
  <2> QED
    BY <2>1, <2>11, <2>12
<1> QED
  BY <1>3, <1>4

-----------------------------------------------------------------------------
(* The number that n bits of the data are, behind a place. *)

ValueAt(data, pos, n) == Value(SubSeq(data, pos + 1, pos + n))

LEMMA BitsBehind ==
  ASSUME NEW data, data \in Bits, NEW pos \in Nat, NEW n \in Nat, pos + n <= Len(data)
  PROVE  /\ SubSeq(data, pos + 1, pos + n) \in Bits
         /\ Len(SubSeq(data, pos + 1, pos + n)) = n
         /\ DOMAIN SubSeq(data, pos + 1, pos + n) = 1 .. n
         /\ \A i \in 1 .. n : /\ SubSeq(data, pos + 1, pos + n)[i] = data[pos + i]
                              /\ data[pos + i] \in {0, 1}
<1>1. PICK m \in Nat : m = Len(data) /\ pos + n <= m
  BY LenProperties DEF Bits
<1>2. \A i \in 1 .. m : data[i] \in {0, 1}
  BY <1>1, ElementOfSeq DEF Bits
<1>3. PICK a \in Int, b \in Int : a = pos + 1 /\ b = pos + n
  OBVIOUS
<1>4. \A i \in a .. b : data[i] \in {0, 1}
  BY <1>1, <1>2, <1>3
<1>5. PICK s : s = SubSeq(data, a, b)
  OBVIOUS
<1>6. /\ s \in Seq({0, 1}) /\ Len(s) = (IF a <= b THEN b - a + 1 ELSE 0)
      /\ \A i \in 1 .. b - a + 1 : s[i] = data[a + i - 1]
  BY <1>4, <1>5, SubSeqProperties
<1>7. Len(s) = n
  BY <1>3, <1>6
<1>8. DOMAIN s = 1 .. n
  BY <1>6, <1>7, LenProperties
<1>9. ASSUME NEW i \in 1 .. n PROVE s[i] = data[pos + i] /\ data[pos + i] \in {0, 1}
  <2>1. i \in 1 .. b - a + 1 /\ a + i - 1 = pos + i /\ pos + i \in a .. b
    BY <1>3
  <2> QED
    BY <1>4, <1>6, <2>1
<1> QED
  BY <1>3, <1>5, <1>6, <1>7, <1>8, <1>9 DEF Bits

LEMMA ValueZero ==
  ASSUME NEW data, NEW pos \in Nat
  PROVE  ValueAt(data, pos, 0) = 0
<1>1. PICK s : s = << >>
  OBVIOUS
<1>2. SubSeq(data, pos + 1, pos + 0) = s
  <2>1. pos + 0 < pos + 1 /\ pos + 0 \in Int /\ pos + 1 \in Int
    OBVIOUS
  <2> QED
    BY <1>1, <2>1, SubSeqEmpty, Zenon
<1>3. DOMAIN s = 1 .. 0
  BY <1>1
<1>4. PICK F : FoldValues(F, 0, "value", 0, s) /\ Value(s) = F[0]
  BY <1>3, ValueSteps
<1> QED
  BY <1>2, <1>4 DEF FoldValues, ValueAt

LEMMA ValueNext ==
  ASSUME NEW data, data \in Bits, NEW pos \in Nat, NEW n \in Nat, pos + n + 1 <= Len(data)
  PROVE  ValueAt(data, pos, n + 1) = 2 * ValueAt(data, pos, n) + data[pos + n + 1]
<1>1. PICK s, t : s = SubSeq(data, pos + 1, pos + (n + 1)) /\ t = SubSeq(data, pos + 1, pos + n)
  OBVIOUS
<1>2. pos + (n + 1) <= Len(data) /\ pos + n <= Len(data) /\ n + 1 \in Nat
  <2>1. PICK m \in Nat : m = Len(data)
    BY LenProperties DEF Bits
  <2> QED
    BY <2>1
<1>3. DOMAIN s = 1 .. n + 1 /\ \A i \in 1 .. n + 1 : s[i] = data[pos + i]
  BY <1>1, <1>2, BitsBehind
<1>4. DOMAIN t = 1 .. n /\ \A i \in 1 .. n : t[i] = data[pos + i]
  BY <1>1, <1>2, BitsBehind
<1>5. PICK F : FoldValues(F, n + 1, "value", 0, s) /\ Value(s) = F[n + 1]
  BY <1>2, <1>3, ValueSteps
<1>6. PICK G : FoldValues(G, n, "value", 0, t) /\ Value(t) = G[n]
  BY <1>4, ValueSteps
<1>7. n \in 0 .. n + 1 /\ \A i \in 1 .. n : s[i] = t[i]
  BY <1>3, <1>4
<1>8. F[n] = G[n]
  BY <1>2, <1>5, <1>6, <1>7, FoldPrefix
<1>9. n + 1 \in 1 .. n + 1 /\ (n + 1) - 1 = n
  OBVIOUS
<1>10. F[n + 1] = 2 * F[n] + s[n + 1]
  BY <1>5, <1>9 DEF FoldValues, FoldStep
<1>11. s[n + 1] = data[pos + n + 1]
  BY <1>3, <1>9
<1> QED
  BY <1>1, <1>5, <1>6, <1>8, <1>10, <1>11 DEF ValueAt

(* As much of the data as one number is read from. *)
Window(data, pos, n) ==
  data \in Bits /\ pos \in Nat /\ n \in 0 .. 32 /\ pos + n <= Len(data)

LEMMA ValueBound ==
  ASSUME NEW data, NEW pos, NEW n, Window(data, pos, n)
  PROVE  ValueAt(data, pos, n) \in Nat /\ ValueAt(data, pos, n) < Pow[n]
<1> USE DEF Window
<1> DEFINE q == {i \in Nat : ValueAt(data, pos, i) \in Nat /\ ValueAt(data, pos, i) < Pow[i]}
<1>0. PICK m \in Nat : m = Len(data) /\ pos + n <= m
  BY LenProperties DEF Bits
<1>1. 0 \in q
  <2>1. ValueAt(data, pos, 0) = 0
    BY <1>0, ValueZero
  <2> QED
    BY <2>1, PowSmall
<1>2. ASSUME NEW i \in 0 .. n - 1, i \in q PROVE i + 1 \in q
  <2>1. pos + i + 1 <= m /\ i \in Nat /\ i \in 0 .. 31 /\ i + 1 \in Nat
        /\ i + 1 \in 1 .. n
    BY <1>0
  <2>2. ValueAt(data, pos, i + 1) = 2 * ValueAt(data, pos, i) + data[pos + i + 1]
    BY <1>0, <2>1, ValueNext
  <2>3. data[pos + i + 1] \in {0, 1}
    <3>1. i + 1 \in 1 .. i + 1 /\ pos + (i + 1) <= m /\ pos + (i + 1) = pos + i + 1
      BY <2>1
    <3>2. data[pos + (i + 1)] \in {0, 1}
      BY <1>0, <2>1, <3>1, BitsBehind, Zenon
    <3> QED
      BY <3>1, <3>2
  <2>4. PICK v \in Nat, p \in Nat, b \in {0, 1} :
          v = ValueAt(data, pos, i) /\ p = Pow[i] /\ v < p /\ b = data[pos + i + 1]
    <3>1. Pow[i] \in Nat
      BY <2>1, PowNext
    <3> QED
      BY <1>2, <2>3, <3>1
  <2>5. Pow[i + 1] = 2 * p
    BY <2>1, <2>4, PowNext
  <2>6. ValueAt(data, pos, i + 1) = 2 * v + b
    BY <2>2, <2>4
  <2>7. 2 * v + b \in Nat /\ 2 * v + b < 2 * p
    BY <2>4
  <2> QED
    BY <2>1, <2>5, <2>6, <2>7
<1> HIDE DEF q
<1>3. n \in Nat /\ n \in 0 .. n
  OBVIOUS
<1>4. \A i \in 0 .. n - 1 : i \in q => i + 1 \in q
  BY <1>2
<1>5. n \in q
  BY <1>1, <1>3, <1>4, CountUp, Zenon
<1> QED
  BY <1>5 DEF q

Splits(data, pos, a, b) ==
  ValueAt(data, pos, a + b) = ValueAt(data, pos, a) * Pow[b] + ValueAt(data, pos + a, b)

LEMMA ValueSplit ==
  ASSUME NEW data, NEW pos, NEW a \in Nat, NEW b \in Nat, Window(data, pos, a + b)
  PROVE  Splits(data, pos, a, b)
<1> USE DEF Window
<1> DEFINE q == {i \in Nat : ValueAt(data, pos, a + i)
                               = ValueAt(data, pos, a) * Pow[i] + ValueAt(data, pos + a, i)}
<1>0. PICK m \in Nat : m = Len(data) /\ pos + a + b <= m
  BY LenProperties DEF Bits
<1>1. pos + a <= m /\ pos + a \in Nat
  BY <1>0
<1>2. PICK x \in Nat : x = ValueAt(data, pos, a)
  <2>1. Window(data, pos, a)
    BY <1>0, <1>1
  <2> HIDE DEF Window
  <2> QED
    BY <2>1, ValueBound
<1>3. 0 \in q
  <2>1. ValueAt(data, pos + a, 0) = 0 /\ Pow[0] = 1 /\ a + 0 = a
    BY <1>0, <1>1, ValueZero, PowTable
  <2> QED
    BY <1>2, <2>1
<1>4. ASSUME NEW i \in 0 .. b - 1, i \in q PROVE i + 1 \in q
  <2>1. /\ pos + (a + i) + 1 <= m /\ (pos + a) + i + 1 <= m /\ (pos + a) + i <= m
        /\ i \in 0 .. 31 /\ i \in 0 .. 32 /\ i \in Nat /\ i + 1 \in Nat /\ a + i \in Nat
        /\ a + (i + 1) = (a + i) + 1 /\ pos + (a + i) + 1 = (pos + a) + i + 1
    BY <1>0
  <2>2. PICK c : c = data[(pos + a) + i + 1]
    OBVIOUS
  <2>3. ValueAt(data, pos, a + (i + 1)) = 2 * ValueAt(data, pos, a + i) + c
    BY <1>0, <2>1, <2>2, ValueNext
  <2>4. ValueAt(data, pos + a, i + 1) = 2 * ValueAt(data, pos + a, i) + c
    BY <1>0, <1>1, <2>1, <2>2, ValueNext
  <2>5. c \in {0, 1}
    <3>1. i + 1 \in 1 .. i + 1 /\ (pos + a) + (i + 1) <= m /\ (pos + a) + (i + 1) = (pos + a) + i + 1
      BY <2>1
    <3> QED
      <4>1. (pos + a) + (i + 1) <= Len(data)
        BY <1>0, <3>1
      <4>2. data[(pos + a) + (i + 1)] \in {0, 1}
        BY <1>1, <2>1, <3>1, <4>1, BitsBehind, Zenon
      <4> QED
        BY <2>2, <3>1, <4>2
  <2>6. PICK y \in Nat : y = ValueAt(data, pos + a, i)
    <3>1. Window(data, pos + a, i)
      BY <1>0, <1>1, <2>1
    <3> HIDE DEF Window
    <3> QED
      BY <3>1, ValueBound
  <2>7. PICK p \in Nat : p = Pow[i]
    BY <2>1, PowType
  <2>8. Pow[i + 1] = 2 * p
    BY <2>1, <2>7, PowNext
  <2>9. ValueAt(data, pos, a + i) = x * p + y
    BY <1>2, <1>4, <2>6, <2>7
  <2>10. 2 * (x * p + y) + c = x * (2 * p) + (2 * y + c)
    BY <2>5
  <2>11. ValueAt(data, pos, a + (i + 1)) = 2 * (x * p + y) + c
    BY <2>3, <2>9
  <2>12. ValueAt(data, pos + a, i + 1) = 2 * y + c
    BY <2>4, <2>6
  <2> QED
    BY <1>2, <2>1, <2>8, <2>10, <2>11, <2>12
<1> HIDE DEF q
<1>5. b \in Nat /\ b \in 0 .. b
  OBVIOUS
<1>6. \A i \in 0 .. b - 1 : i \in q => i + 1 \in q
  BY <1>4
<1>7. b \in q
  BY <1>3, <1>5, <1>6, CountUp, Zenon
<1> QED
  BY <1>7, Zenon DEF q, Splits

(* Quotients and remainders of powers of two. *)
LEMMA DivNext ==
  ASSUME NEW k \in 0 .. 31, NEW v \in Nat
  PROVE  v \div Pow[k + 1] = (v \div Pow[k]) \div 2 /\ v \div Pow[k] \in Nat
<1>1. \/ k = 0 \/ k = 1 \/ k = 2 \/ k = 3 \/ k = 4 \/ k = 5 \/ k = 6 \/ k = 7
     \/ k = 8 \/ k = 9 \/ k = 10 \/ k = 11 \/ k = 12 \/ k = 13 \/ k = 14 \/ k = 15
     \/ k = 16 \/ k = 17 \/ k = 18 \/ k = 19 \/ k = 20 \/ k = 21 \/ k = 22 \/ k = 23
     \/ k = 24 \/ k = 25 \/ k = 26 \/ k = 27 \/ k = 28 \/ k = 29 \/ k = 30 \/ k = 31
  OBVIOUS
<1> QED
  BY <1>1, PowTable, SMTT(60)

LEMMA DivBelow ==
  ASSUME NEW k \in 0 .. 32, NEW v \in Nat, v < Pow[k]
  PROVE  v \div Pow[k] = 0
<1>1. \/ k = 0 \/ k = 1 \/ k = 2 \/ k = 3 \/ k = 4 \/ k = 5 \/ k = 6 \/ k = 7
     \/ k = 8 \/ k = 9 \/ k = 10 \/ k = 11 \/ k = 12 \/ k = 13 \/ k = 14 \/ k = 15
     \/ k = 16 \/ k = 17 \/ k = 18 \/ k = 19 \/ k = 20 \/ k = 21 \/ k = 22 \/ k = 23
     \/ k = 24 \/ k = 25 \/ k = 26 \/ k = 27 \/ k = 28 \/ k = 29 \/ k = 30 \/ k = 31
     \/ k = 32
  OBVIOUS
<1> QED
  BY <1>1, PowTable, SMTT(60)

LEMMA PartsOfByte ==
  ASSUME NEW e \in 0 .. 8, NEW x \in Nat, NEW y \in Nat, y < Pow[e]
  PROVE  (x * Pow[e] + y) \div Pow[e] = x /\ (x * Pow[e] + y) % Pow[e] = y
<1>1. \/ e = 0 \/ e = 1 \/ e = 2 \/ e = 3 \/ e = 4 \/ e = 5 \/ e = 6 \/ e = 7 \/ e = 8
  OBVIOUS
<1> QED
  BY <1>1, PowTable, SMTT(60)

-----------------------------------------------------------------------------
(* bs_read reads what is there of the bits, the missing ones as zeros.     *)

LEMMA EndIs ==
  ASSUME NEW data, data \in Bits, Len(data) % 8 = 0, NEW pos \in Nat
  PROVE  /\ AtEnd(data, pos) <=> pos >= Len(data)
         /\ pos < Len(data) => pos + (8 - (pos % 8)) <= Len(data)
<1>1. PICK m \in Nat : m = Len(data)
  BY LenProperties DEF Bits
<1>2. m % 8 = 0
  BY <1>1
<1>3. PICK k \in Nat : m = 8 * k
  BY <1>2
<1>4. PICK j \in Nat, o \in 0 .. 7 : pos = 8 * j + o /\ j = pos \div 8 /\ o = pos % 8
  BY SMT
<1>5. 8 * j >= 8 * k <=> 8 * j + o >= 8 * k
  BY SMT
<1>6. 8 * j + o < 8 * k => 8 * j + 8 <= 8 * k
  BY SMT
<1> QED
  BY <1>1, <1>3, <1>4, <1>5, <1>6 DEF AtEnd

LEMMA FromByteIs ==
  ASSUME NEW data, data \in Bits, Len(data) % 8 = 0, NEW pos \in Nat, pos < Len(data),
         NEW c \in 0 .. 8 - (pos % 8)
  PROVE  FromByte(data, pos, c) = ValueAt(data, pos, c)
<1>1. PICK m \in Nat : m = Len(data) /\ pos < m
  BY LenProperties DEF Bits
<1>2. PICK a \in Nat, o \in 0 .. 7 : pos = a + o /\ a = 8 * (pos \div 8) /\ o = pos % 8
  <2>1. /\ 8 * (pos \div 8) \in Nat /\ pos % 8 \in 0 .. 7
        /\ pos = 8 * (pos \div 8) + (pos % 8)
    BY SMT
  <2> QED
    BY <2>1, Zenon
<1>3. PICK e \in 0 .. 8 : e = 8 - o - c /\ c + e = 8 - o /\ c \in 0 .. 8
  BY <1>2
<1>4. a + 8 <= m
  <2>1. pos + (8 - o) <= Len(data)
    BY <1>1, <1>2, EndIs
  <2> QED
    BY <1>1, <1>2, <2>1
<1>5. ByteAt(data, pos) = ValueAt(data, a, o + (c + e))
  <2>1. o + (c + e) = 8
    BY <1>3
  <2> QED
    BY <1>2, <2>1, Zenon DEF ByteAt, ValueAt
<1>6. /\ c + e \in 0 .. 32 /\ o \in 0 .. 32 /\ o + (c + e) <= 32 /\ a + o + (c + e) <= m
      /\ c \in 0 .. 32 /\ e \in 0 .. 32 /\ c + e <= 32 /\ pos + c + e <= m
      /\ pos + c \in Nat /\ pos + c + e <= m /\ pos + c <= m /\ a + o <= m
  BY <1>2, <1>3, <1>4
<1>7. PICK x \in Nat, y \in Nat, z \in Nat :
        /\ x = ValueAt(data, a, o) /\ y = ValueAt(data, pos, c) /\ z = ValueAt(data, pos + c, e)
        /\ y < Pow[c] /\ z < Pow[e]
  <2>1. Window(data, a, o) /\ Window(data, pos, c) /\ Window(data, pos + c, e)
    BY <1>1, <1>2, <1>3, <1>6 DEF Window
  <2> QED
    BY <2>1, ValueBound
<1>8. PICK p \in Nat, r \in Nat : p = Pow[c] /\ r = Pow[e] /\ Pow[c + e] = p * r
  BY <1>6, PowSum, PowType
<1>9. ValueAt(data, a, o + (c + e)) = x * (p * r) + ValueAt(data, pos, c + e)
  <2>1. ValueAt(data, a, o + (c + e))
          = ValueAt(data, a, o) * Pow[c + e] + ValueAt(data, a + o, c + e)
    <3>1. Window(data, a, o + (c + e)) /\ o \in Nat /\ c + e \in Nat
      BY <1>1, <1>2, <1>3, <1>6 DEF Window
    <3>2. Splits(data, a, o, c + e)
      BY <3>1, ValueSplit, Zenon
    <3> QED
      BY <3>2, Zenon DEF Splits
  <2> QED
    BY <1>2, <1>7, <1>8, <2>1
<1>10. ValueAt(data, pos, c + e) = y * r + z
  <2>1. Window(data, pos, c + e) /\ c \in Nat /\ e \in Nat
    BY <1>1, <1>2, <1>3, <1>6 DEF Window
  <2>3. Splits(data, pos, c, e)
    BY <2>1, ValueSplit, Zenon
  <2>2. ValueAt(data, pos, c + e) = ValueAt(data, pos, c) * Pow[e] + ValueAt(data, pos + c, e)
    BY <2>3, Zenon DEF Splits
  <2> QED
    BY <1>7, <1>8, <2>2
<1>11. PICK w \in Nat : w = x * p + y
  <2>1. x * p + y \in Nat
    BY SMT
  <2> QED
    BY <2>1
<1>12. ByteAt(data, pos) = w * Pow[e] + z
  <2>1. x * (p * r) + (y * r + z) = (x * p + y) * r + z
    BY SMT
  <2> QED
    BY <1>5, <1>8, <1>9, <1>10, <1>11, <2>1
<1>13. ByteAt(data, pos) \div Pow[e] = w
  BY <1>3, <1>7, <1>12, PartsOfByte, SMTT(30)
<1>14. w % Pow[c] = y
  BY <1>3, <1>7, <1>8, <1>11, PartsOfByte
<1>15. 2 ^ (8 - (pos % 8) - c) = Pow[e] /\ 2 ^ c = Pow[c]
  BY <1>2, <1>3, <1>6, PowIs, Zenon
<1> QED
  BY <1>7, <1>13, <1>14, <1>15, Zenon DEF FromByte

(* The bits there are, of n behind a place. *)
There(data, pos, n) ==
  IF pos >= Len(data) THEN 0 ELSE IF pos + n <= Len(data) THEN n ELSE Len(data) - pos

ReadResult(data, pos, n) ==
  << ValueAt(data, pos, There(data, pos, n)) * Pow[n - There(data, pos, n)],
     pos + There(data, pos, n) >>

(* One round of bs_read, of which the rest is read as it should be. *)
ReadRound(data, pos, n, rest) ==
  IF n = 0 \/ AtEnd(data, pos) THEN << 0, pos >>
  ELSE IF 8 - (pos % 8) >= n THEN << FromByte(data, pos, n), pos + n >>
  ELSE << FromByte(data, pos, 8 - (pos % 8)) * 2 ^ (n - (8 - (pos % 8))) + rest[1], rest[2] >>

ReadsOn(data, pos, n, l) ==
  ReadResult(data, pos, n) = ReadRound(data, pos, n, ReadResult(data, pos + l, n - l))

LEMMA ReadStep ==
  ASSUME NEW data, data \in Bits, Len(data) % 8 = 0, NEW pos \in Nat, NEW n \in 0 .. 31,
         NEW l, l = 8 - (pos % 8)
  PROVE  ReadsOn(data, pos, n, l)
<1> SUFFICES ReadResult(data, pos, n)
               = ReadRound(data, pos, n, ReadResult(data, pos + l, n - l))
  BY Zenon DEF ReadsOn
<1>1. PICK m \in Nat : m = Len(data)
  BY LenProperties DEF Bits
<1>2. l \in 1 .. 8
  BY SMT
<1>3. CASE pos >= m
  <2>1. There(data, pos, n) = 0 /\ AtEnd(data, pos)
    BY <1>1, <1>3, EndIs DEF There
  <2>2. ReadResult(data, pos, n) = << ValueAt(data, pos, 0) * Pow[n - 0], pos + 0 >>
    BY <2>1, Zenon DEF ReadResult
  <2>3. ValueAt(data, pos, 0) = 0 /\ Pow[n - 0] \in Nat
    <3>1. n - 0 \in 0 .. 32
      OBVIOUS
    <3> QED
      BY <3>1, ValueZero, PowType
  <2>4. ReadResult(data, pos, n) = << 0, pos >>
    <3>1. 0 * Pow[n - 0] = 0 /\ pos + 0 = pos
      BY <2>3
    <3> QED
      BY <2>2, <2>3, <3>1, Zenon
  <2> QED
    BY <2>1, <2>4, Zenon DEF ReadRound
<1>4. CASE pos < m /\ n <= l
  <2>1. ~AtEnd(data, pos) /\ pos + n <= m
    BY <1>1, <1>2, <1>4, EndIs
  <2>2. There(data, pos, n) = n
    BY <1>1, <1>4, <2>1 DEF There
  <2>3. ReadResult(data, pos, n) = << ValueAt(data, pos, n), pos + n >>
    <3>1. n - n = 0 /\ Pow[0] = 1
      BY PowSmall
    <3>5. Window(data, pos, n)
      BY <1>1, <2>1 DEF Window
    <3>2. ValueAt(data, pos, n) \in Nat
      BY <3>5, ValueBound
    <3>3. ReadResult(data, pos, n) = << ValueAt(data, pos, n) * Pow[n - n], pos + n >>
      BY <2>2, Zenon DEF ReadResult
    <3>4. ValueAt(data, pos, n) * Pow[n - n] = ValueAt(data, pos, n)
      BY <3>1, <3>2
    <3> QED
      BY <3>3, <3>4, Zenon
  <2>4. CASE n = 0
    <3>1. ReadResult(data, pos, n) = << 0, pos >>
      BY <2>3, <2>4, ValueZero
    <3> QED
      BY <2>4, <3>1, Zenon DEF ReadRound
  <2>5. CASE n # 0
    <3>1. FromByte(data, pos, n) = ValueAt(data, pos, n)
      BY <1>1, <1>4, FromByteIs
    <3>2. 8 - (pos % 8) >= n
      BY <1>4, SMT
    <3> QED
      BY <2>1, <2>3, <2>5, <3>1, <3>2, Zenon DEF ReadRound
  <2> QED
    BY <2>4, <2>5
<1>5. CASE pos < m /\ n > l
  <2>1. ~AtEnd(data, pos) /\ pos + l <= m /\ pos + l \in Nat /\ n # 0
    BY <1>1, <1>2, <1>5, EndIs
  <2>2. PICK t : t = There(data, pos + l, n - l)
    OBVIOUS
  <2>3. t \in 0 .. n - l /\ There(data, pos, n) = l + t /\ pos + l + t <= m
    <3>4. There(data, pos, n) = IF pos + n <= m THEN n ELSE m - pos
      BY <1>1, <1>5 DEF There
    <3>5. t = IF pos + l >= m THEN 0
              ELSE IF (pos + l) + (n - l) <= m THEN n - l ELSE m - (pos + l)
      BY <1>1, <2>2, Zenon DEF There
    <3> HIDE <1>1
    <3>1. CASE pos + l >= m
      BY <1>2, <1>5, <2>1, <3>4, <3>5, <3>1
    <3>2. CASE pos + l < m /\ (pos + l) + (n - l) <= m
      BY <1>2, <1>5, <2>1, <3>4, <3>5, <3>2
    <3>3. CASE pos + l < m /\ ~((pos + l) + (n - l) <= m)
      BY <1>2, <1>5, <2>1, <3>4, <3>5, <3>3
    <3> QED
      BY <2>1, <3>1, <3>2, <3>3
  <2>4. PICK k : k = n - l - t
    OBVIOUS
  <2>5. /\ k \in 0 .. 32 /\ t \in 0 .. 32 /\ l \in 0 .. 32 /\ l + t <= 32
        /\ t + k = n - l /\ t + k <= 32 /\ n - (l + t) = k /\ n - l \in 0 .. 32
    BY <1>2, <1>5, <2>3, <2>4
  <2>6. PICK x \in Nat, y \in Nat, p \in Nat, r \in Nat :
          /\ x = ValueAt(data, pos, l) /\ y = ValueAt(data, pos + l, t)
          /\ p = Pow[t] /\ r = Pow[k]
    <3>1. Window(data, pos, l) /\ Window(data, pos + l, t)
      BY <1>1, <2>1, <2>3, <2>5 DEF Window
    <3> QED
      BY <3>1, <2>5, ValueBound, PowType
  <2>7. Pow[n - l] = p * r
    BY <2>5, <2>6, PowSum
  <2>8. ValueAt(data, pos, l + t) = x * p + y
    <3>1. Window(data, pos, l + t) /\ l \in Nat /\ t \in Nat
      BY <1>1, <1>2, <2>3, <2>5 DEF Window
    <3>3. Splits(data, pos, l, t)
      BY <3>1, ValueSplit, Zenon
    <3>2. ValueAt(data, pos, l + t) = ValueAt(data, pos, l) * Pow[t] + ValueAt(data, pos + l, t)
      BY <3>3, Zenon DEF Splits
    <3> QED
      BY <2>6, <3>2
  <2>9. ReadResult(data, pos, n) = << (x * p + y) * r, pos + (l + t) >>
    BY <2>3, <2>5, <2>6, <2>8, Zenon DEF ReadResult
  <2>10. ReadResult(data, pos + l, n - l) = << y * r, (pos + l) + t >>
    BY <2>2, <2>4, <2>6, Zenon DEF ReadResult
  <2>11. FromByte(data, pos, 8 - (pos % 8)) = x
    <3>1. 8 - (pos % 8) \in 0 .. 8 - (pos % 8) /\ pos < Len(data)
      BY <1>1, <1>5, SMT
    <3> QED
      BY <2>6, <3>1, FromByteIs, Zenon
  <2>12. 2 ^ (n - (8 - (pos % 8))) = p * r
    BY <2>5, <2>7, PowIs, Zenon
  <2>13. ~(8 - (pos % 8) >= n)
    BY <1>5, SMT
  <2>14. ReadRound(data, pos, n, ReadResult(data, pos + l, n - l))
           = << x * (p * r) + y * r, (pos + l) + t >>
    <3>1. PICK rest : rest = ReadResult(data, pos + l, n - l)
      OBVIOUS
    <3>2. rest[1] = y * r /\ rest[2] = (pos + l) + t
      BY <2>10, <3>1
    <3>3. ReadRound(data, pos, n, rest)
            = << FromByte(data, pos, 8 - (pos % 8)) * 2 ^ (n - (8 - (pos % 8))) + rest[1],
                 rest[2] >>
      BY <2>1, <2>13, Zenon DEF ReadRound
    <3> QED
      BY <2>11, <2>12, <3>1, <3>2, <3>3, Zenon
  <2>15. (x * p + y) * r = x * (p * r) + y * r /\ pos + (l + t) = (pos + l) + t
    BY <1>2, <2>3, SMT
  <2> QED
    BY <2>9, <2>14, <2>15, Zenon
<1> QED
  BY <1>1, <1>2, <1>3, <1>4, <1>5

LEMMA ReadIs ==
  ASSUME NEW data, data \in Bits, Len(data) % 8 = 0, NEW start \in Nat, NEW i_count \in 0 .. 31
  PROVE  bs_read(data, start, i_count) = ReadResult(data, start, i_count)
<1> DEFINE pos(n) == start + i_count - n
           left(n) == 8 - (pos(n) % 8)
           Round(f, n) ==
             IF n = 0 \/ AtEnd(data, pos(n)) THEN << 0, pos(n) >>
             ELSE IF left(n) >= n THEN << FromByte(data, pos(n), n), pos(n) + n >>
             ELSE << FromByte(data, pos(n), left(n)) * 2 ^ (n - left(n)) + f[n - left(n)][1],
                     f[n - left(n)][2] >>
           Is(f) == f = [n \in 0 .. i_count |-> Round(f, n)]
           it == CHOOSE f : Is(f)
           Right(n) == ReadResult(data, pos(n), n)
<1>1. bs_read(data, start, i_count) = it[i_count]
  BY Zenon DEF bs_read
<1>2. \A f, n : Round(f, n) = ReadRound(data, pos(n), n, f[n - left(n)])
  BY Zenon DEF ReadRound
<1>3. ASSUME NEW n \in 0 .. i_count
      PROVE  /\ pos(n) \in Nat /\ left(n) \in 1 .. 8
             /\ n - left(n) \in 0 .. i_count => pos(n - left(n)) = pos(n) + left(n)
             /\ n # 0 /\ ~(left(n) >= n) => n - left(n) \in 0 .. i_count
  BY SMT
<1>4. ASSUME NEW n \in 0 .. i_count PROVE Right(n) = Round([j \in 0 .. i_count |-> Right(j)], n)
  <2> DEFINE p == pos(n)
             l == left(n)
             f == [j \in 0 .. i_count |-> Right(j)]
  <2>1. p \in Nat /\ n \in 0 .. 31 /\ l = 8 - (p % 8)
    BY <1>3
  <2>2. Right(n) = ReadRound(data, p, n, ReadResult(data, p + l, n - l))
    <3> HIDE DEF p, l
    <3>1. ReadResult(data, p, n) = ReadRound(data, p, n, ReadResult(data, p + l, n - l))
      <4>1. ReadsOn(data, p, n, l)
        BY <2>1, ReadStep
      <4> QED
        BY <4>1, Zenon DEF ReadsOn
    <3> QED
      BY <3>1 DEF p
  <2>3. CASE n - l \in 0 .. i_count
    <3>1. f[n - l] = ReadResult(data, pos(n - l), n - l)
      BY <2>3, Zenon
    <3>2. pos(n - l) = p + l
      BY <1>3, <2>3
    <3> QED
      BY <1>2, <2>2, <3>1, <3>2, ZenonT(60)
  <2>4. CASE n - l \notin 0 .. i_count
    <3>1. n = 0 \/ l >= n
      BY <1>3, <2>4
    <3>2. \A r : ReadRound(data, p, n, r) =
                   IF n = 0 \/ AtEnd(data, p) THEN << 0, p >>
                   ELSE << FromByte(data, p, n), p + n >>
      BY <3>1, Zenon DEF ReadRound
    <3> QED
      BY <1>2, <2>2, <3>2, Zenon
  <2> QED
    BY <2>3, <2>4
<1> DEFINE g == [n \in 0 .. i_count |-> Right(n)]
<1>10. \A n \in 0 .. i_count : Right(n) = Round(g, n)
  <2> HIDE DEF Round, Right
  <2> QED
    BY <1>4, Zenon
<1>5. Is(g)
  <2> HIDE DEF Round, Right
  <2> QED
    BY <1>10
<1>6. Is(it)
  BY <1>5, Zenon
<1> HIDE DEF it
<1>7. \A n \in 0 .. i_count : it[n] = Right(n)
  <2> DEFINE bad == {n \in 0 .. i_count : it[n] # Right(n)}
  <2> SUFFICES ASSUME bad # {} PROVE FALSE
    BY Zenon
  <2>1. bad \subseteq Nat
    OBVIOUS
  <2>2. PICK n \in bad : \A j \in bad : n <= j
    BY <2>1, LeastExists, Zenon
  <2>3. n \in 0 .. i_count /\ it[n] # Right(n)
    BY <2>2, Zenon
  <2>4. it[n] = Round(it, n)
    <3> HIDE DEF Round
    <3> QED
      BY <1>6, <2>3
  <2>5. CASE n - left(n) \in 0 .. i_count
    <3>1. ~(n <= n - left(n))
      BY <1>3, <2>3
    <3>2. it[n - left(n)] = Right(n - left(n))
      BY <2>2, <2>5, <3>1, Zenon
    <3>3. g[n - left(n)] = Right(n - left(n))
      BY <2>5, Zenon
    <3>4. Round(it, n) = Round(g, n)
      BY <1>2, <3>2, <3>3, Zenon
    <3> HIDE DEF Round, Right, g
    <3> QED
      BY <1>10, <2>3, <2>4, <3>4, Zenon
  <2>6. CASE n - left(n) \notin 0 .. i_count
    <3>1. n = 0 \/ left(n) >= n
      BY <1>3, <2>3, <2>6
    <3>2. Round(it, n) = Round(g, n)
      BY <3>1, Zenon
    <3> HIDE DEF Round, Right, g
    <3> QED
      BY <1>10, <2>3, <2>4, <3>2, Zenon
  <2> QED
    BY <2>5, <2>6
<1>8. i_count \in 0 .. i_count /\ pos(i_count) = start
  OBVIOUS
<1>9. it[i_count] = ReadResult(data, pos(i_count), i_count)
  BY <1>7, <1>8, Zenon
<1> QED
  BY <1>1, <1>8, <1>9, Zenon

LEMMA StopsRight ==
  ASSUME NEW data, data \in Bits, Len(data) % 8 = 0, NEW pos \in Nat, NEW count \in 0 .. 31,
         NEW there,
         there = CHOOSE n \in 0 .. count : \A i \in 1 .. count : i <= n <=> pos + i <= Len(data)
  PROVE  bs_read(data, pos, count)
           = << Value(SubSeq(data, pos + 1, pos + there)) * 2 ^ (count - there), pos + there >>
<1>1. PICK m \in Nat : m = Len(data)
  BY LenProperties DEF Bits
<1>2. PICK t : t = There(data, pos, count)
  OBVIOUS
<1>3. t = IF pos >= m THEN 0 ELSE IF pos + count <= m THEN count ELSE m - pos
  BY <1>1, <1>2, Zenon DEF There
<1>4. t \in 0 .. count /\ \A i \in 1 .. count : i <= t <=> pos + i <= m
  BY <1>3
<1>5. there \in 0 .. count /\ \A i \in 1 .. count : i <= there <=> pos + i <= m
  BY <1>1, <1>4
<1>6. there = t
  <2>1. ~(t < there)
    <3> SUFFICES ASSUME t < there PROVE FALSE
      OBVIOUS
    <3>1. t + 1 \in 1 .. count /\ t + 1 <= there /\ ~(t + 1 <= t)
      BY <1>4, <1>5
    <3> QED
      BY <1>4, <1>5, <3>1, Zenon
  <2>2. ~(there < t)
    <3> SUFFICES ASSUME there < t PROVE FALSE
      OBVIOUS
    <3>1. there + 1 \in 1 .. count /\ there + 1 <= t /\ ~(there + 1 <= there)
      BY <1>4, <1>5
    <3> QED
      BY <1>4, <1>5, <3>1, Zenon
  <2> QED
    BY <1>4, <1>5, <2>1, <2>2
<1>7. bs_read(data, pos, count) = << ValueAt(data, pos, t) * Pow[count - t], pos + t >>
  BY <1>2, ReadIs, Zenon DEF ReadResult
<1>8. count - t \in 0 .. 32
  BY <1>4
<1>9. 2 ^ (count - t) = Pow[count - t]
  BY <1>8, PowIs
<1> QED
  BY <1>6, <1>7, <1>9, Zenon DEF ValueAt

-----------------------------------------------------------------------------
(* Bits that stand in the data behind a place. *)

At(data, pos, bits) ==
  pos + Len(bits) <= Len(data) /\ \A i \in 1 .. Len(bits) : data[pos + i] = bits[i]

LEMMA AtJoined ==
  ASSUME NEW data, data \in Bits, NEW pos \in Nat, NEW s, s \in Bits, NEW t, t \in Bits
  PROVE  /\ At(data, pos, s \o t) <=> At(data, pos, s) /\ At(data, pos + Len(s), t)
         /\ s \o t \in Bits /\ Len(s \o t) = Len(s) + Len(t)
         /\ Len(s) \in Nat /\ Len(t) \in Nat
<1>0. PICK u : u = s \o t
  OBVIOUS
<1>1. PICK m \in Nat, n \in Nat, k \in Nat : m = Len(s) /\ n = Len(t) /\ k = Len(data)
  BY LenProperties DEF Bits
<1>2. /\ u \in Bits /\ Len(u) = m + n
      /\ \A i \in 1 .. m : u[i] = s[i]
      /\ \A i \in 1 .. n : u[m + i] = t[i]
  BY <1>0, <1>1, Joined DEF Bits
<1>3. ASSUME At(data, pos, u) PROVE At(data, pos, s) /\ At(data, pos + m, t)
  <2>1. pos + (m + n) <= k /\ \A i \in 1 .. m + n : data[pos + i] = u[i]
    BY <1>1, <1>2, <1>3 DEF At
  <2>2. ASSUME NEW i \in 1 .. n PROVE data[(pos + m) + i] = t[i]
    <3>1. m + i \in 1 .. m + n /\ pos + (m + i) = (pos + m) + i
      OBVIOUS
    <3> QED
      BY <1>2, <2>1, <3>1
  <2>3. \A i \in 1 .. m : data[pos + i] = s[i]
    BY <1>2, <2>1
  <2> QED
    BY <1>1, <2>1, <2>2, <2>3 DEF At
<1>4. ASSUME At(data, pos, s), At(data, pos + m, t) PROVE At(data, pos, u)
  <2>1. /\ \A i \in 1 .. m : data[pos + i] = s[i]
        /\ (pos + m) + n <= k
        /\ \A i \in 1 .. n : data[(pos + m) + i] = t[i]
    BY <1>1, <1>4 DEF At
  <2>2. ASSUME NEW i \in 1 .. m + n PROVE data[pos + i] = u[i]
    <3>1. CASE i <= m
      BY <1>2, <2>1, <3>1
    <3>2. CASE ~(i <= m)
      <4>1. i - m \in 1 .. n /\ (pos + m) + (i - m) = pos + i /\ m + (i - m) = i
        BY <3>2
      <4> QED
        BY <1>2, <2>1, <4>1
    <3> QED
      BY <3>1, <3>2
  <2> QED
    BY <1>1, <1>2, <2>1, <2>2 DEF At
<1> QED
  BY <1>0, <1>1, <1>2, <1>3, <1>4

(* What is read of bits that stand in the data, whatever they came from.   *)
LEMMA BinaryRead ==
  ASSUME NEW data, data \in Bits, NEW pos \in Nat, NEW n \in 0 .. 32, NEW v \in Nat, v < Pow[n],
         pos + n <= Len(data), \A i \in 1 .. n : data[pos + i] = (v \div 2 ^ (n - i)) % 2
  PROVE  ValueAt(data, pos, n) = v
<1> DEFINE q == {i \in Nat : ValueAt(data, pos, i) = v \div Pow[n - i]}
<1>0. PICK m \in Nat : m = Len(data) /\ pos + n <= m
  BY LenProperties DEF Bits
<1>1. 0 \in q
  <2>1. ValueAt(data, pos, 0) = 0
    BY ValueZero
  <2>2. v \div Pow[n] = 0
    BY DivBelow
  <2>3. n - 0 = n
    OBVIOUS
  <2> QED
    BY <2>1, <2>2, <2>3
<1>2. ASSUME NEW i \in 0 .. n - 1, i \in q PROVE i + 1 \in q
  <2>1. /\ pos + i + 1 <= Len(data) /\ i \in Nat /\ i + 1 \in 1 .. n /\ i + 1 \in Nat
        /\ n - (i + 1) \in 0 .. 31 /\ n - (i + 1) \in 0 .. 32
        /\ (n - (i + 1)) + 1 = n - i /\ pos + (i + 1) = pos + i + 1
    BY <1>0
  <2>2. ValueAt(data, pos, i + 1) = 2 * ValueAt(data, pos, i) + data[pos + i + 1]
    BY <2>1, ValueNext
  <2>3. PICK w \in Nat : w = v \div Pow[n - (i + 1)]
    BY <2>1, DivNext
  <2>4. v \div Pow[n - i] = w \div 2
    BY <2>1, <2>3, DivNext
  <2>5. data[pos + i + 1] = w % 2
    <3>1. data[pos + (i + 1)] = (v \div 2 ^ (n - (i + 1))) % 2
      BY <2>1
    <3>2. 2 ^ (n - (i + 1)) = Pow[n - (i + 1)]
      BY <2>1, PowIs
    <3> QED
      BY <2>1, <2>3, <3>1, <3>2
  <2>6. ValueAt(data, pos, i) = w \div 2
    BY <1>2, <2>4
  <2>7. 2 * (w \div 2) + (w % 2) = w
    OBVIOUS
  <2> QED
    BY <2>1, <2>2, <2>3, <2>5, <2>6, <2>7
<1> HIDE DEF q
<1>3. n \in Nat /\ n \in 0 .. n
  OBVIOUS
<1>4. \A i \in 0 .. n - 1 : i \in q => i + 1 \in q
  BY <1>2
<1>5. n \in q
  BY <1>1, <1>3, <1>4, CountUp, Zenon
<1>6. n - n = 0 /\ Pow[0] = 1 /\ v \div 1 = v
  BY PowSmall
<1>7. ValueAt(data, pos, n) = v \div Pow[n - n]
  BY <1>5, Zenon DEF q
<1> QED
  BY <1>6, <1>7

-----------------------------------------------------------------------------
(* Exp-Golomb codes. *)

LEMMA ExpBitsIs ==
  ASSUME NEW v \in Nat, v <= MaxCode
  PROVE  /\ ExpBits(v) \in 0 .. 30
         /\ Pow[ExpBits(v)] <= v + 1 /\ v + 1 < Pow[ExpBits(v) + 1]
<1> DEFINE Fits(b) == 2 ^ b <= v + 1 /\ v + 1 < 2 ^ (b + 1)
<1>1. \A b \in 0 .. 30 : Fits(b) <=> Pow[b] <= v + 1 /\ v + 1 < Pow[b + 1]
  <2>1. \A b \in 0 .. 30 : b \in 0 .. 32 /\ b + 1 \in 0 .. 32
    BY SMT
  <2>2. \A b \in 0 .. 30 : 2 ^ b = Pow[b] /\ 2 ^ (b + 1) = Pow[b + 1]
    BY <2>1, PowIs, Zenon
  <2> QED
    BY <2>2, Zenon
<1>2. v + 1 < Pow[30 + 1]
  <2>1. v <= 2147483646
    BY SMT DEF MaxCode
  <2> QED
    BY <2>1, PowTable, SMT
<1>3. \E b \in 0 .. 30 : Pow[b] <= v + 1 /\ v + 1 < Pow[b + 1]
  <2> DEFINE fits == {b \in 0 .. 30 : v + 1 < Pow[b + 1]}
  <2>1. fits \subseteq Nat /\ fits # {}
    BY <1>2, SMT
  <2>2. PICK b \in fits : \A y \in fits : b <= y
    BY <2>1, LeastExists, Zenon
  <2>3. CASE b = 0
    <3>1. Pow[0] <= v + 1
      BY PowTable, SMT
    <3> QED
      BY <2>2, <2>3, <3>1, SMT
  <2>4. CASE b # 0
    <3>1. b - 1 \notin fits /\ b - 1 \in 0 .. 30 /\ (b - 1) + 1 = b /\ b \in 0 .. 32
      BY <2>2, <2>4, SMT
    <3>2. Pow[b] \in Nat
      BY <3>1, PowType, SMT
    <3> QED
      BY <2>2, <3>1, <3>2, SMT
  <2> QED
    BY <2>3, <2>4
<1>4. ExpBits(v) \in 0 .. 30 /\ Fits(ExpBits(v))
  <2>1. \E b \in 0 .. 30 : Fits(b)
    BY <1>1, <1>3, Zenon
  <2> QED
    BY <2>1, Zenon DEF ExpBits
<1> QED
  BY <1>1, <1>4, Zenon

LEMMA ZerosAre ==
  ASSUME NEW n \in Nat
  PROVE  /\ Zeros(n) \in Bits /\ Len(Zeros(n)) = n
         /\ \A i \in 1 .. n : Zeros(n)[i] = 0
BY DEF Zeros, Bits

LEMMA BinaryIs ==
  ASSUME NEW v \in Nat, NEW n \in 0 .. 32
  PROVE  /\ Binary(v, n) \in Bits /\ Len(Binary(v, n)) = n
         /\ \A i \in 1 .. n : Binary(v, n)[i] = (v \div 2 ^ (n - i)) % 2
<1>1. ASSUME NEW i \in 1 .. n PROVE (v \div 2 ^ (n - i)) % 2 \in {0, 1}
  <2>1. n - i \in 0 .. 31 /\ n - i \in 0 .. 32
    OBVIOUS
  <2>2. PICK w \in Nat : w = v \div Pow[n - i]
    BY <2>1, DivNext
  <2>3. w % 2 \in {0, 1}
    OBVIOUS
  <2>4. 2 ^ (n - i) = Pow[n - i]
    BY <2>1, PowIs
  <2> QED
    BY <2>2, <2>3, <2>4
<1> DEFINE B(i) == (v \div 2 ^ (n - i)) % 2
<1>2. \A i \in 1 .. n : B(i) \in {0, 1}
  BY <1>1
<1>3. Binary(v, n) = [i \in 1 .. n |-> B(i)]
  BY Zenon DEF Binary
<1> HIDE DEF B
<1>4. /\ [i \in 1 .. n |-> B(i)] \in Seq({0, 1}) /\ Len([i \in 1 .. n |-> B(i)]) = n
      /\ \A j \in 1 .. n : [i \in 1 .. n |-> B(i)][j] = B(j)
  BY <1>2
<1> QED
  BY <1>3, <1>4, Zenon DEF B, Bits

(* A code of b leading zeros that is the number v.                         *)
CodeAt(data, pos, b, v) ==
  /\ data \in Bits /\ pos \in Nat /\ b \in 0 .. 30 /\ v \in Nat
  /\ pos + 2 * b + 1 <= Len(data)
  /\ \A i \in 1 .. b : data[pos + i] = 0
  /\ data[pos + b + 1] = 1
  /\ v = Pow[b] + ValueAt(data, pos + b + 1, b) - 1

LEMMA UeIs ==
  ASSUME NEW v \in Nat, v <= MaxCode
  PROVE  /\ Ue(v) \in Bits /\ Len(Ue(v)) = 2 * ExpBits(v) + 1 /\ ExpBits(v) \in 0 .. 30
<1>1. PICK b \in 0 .. 30 : b = ExpBits(v)
  BY ExpBitsIs
<1>2. Ue(v) = Zeros(b) \o Binary(v + 1, b + 1)
  BY <1>1, Zenon DEF Ue
<1>3. Zeros(b) \in Bits /\ Len(Zeros(b)) = b
  BY ZerosAre
<1>4. Binary(v + 1, b + 1) \in Bits /\ Len(Binary(v + 1, b + 1)) = b + 1
  <2>1. v + 1 \in Nat /\ b + 1 \in 0 .. 32
    OBVIOUS
  <2> QED
    BY <2>1, BinaryIs
<1>5. PICK s, t : s = Zeros(b) /\ t = Binary(v + 1, b + 1)
  OBVIOUS
<1>6. s \o t \in Bits /\ Len(s \o t) = b + (b + 1)
  BY <1>3, <1>4, <1>5, Joined DEF Bits
<1> QED
  BY <1>1, <1>2, <1>5, <1>6

LEMMA UeAt ==
  ASSUME NEW data, data \in Bits, NEW pos \in Nat, NEW v \in Nat, v <= MaxCode,
         At(data, pos, Ue(v))
  PROVE  CodeAt(data, pos, ExpBits(v), v)
<1>1. PICK b \in 0 .. 30 : b = ExpBits(v) /\ Pow[b] <= v + 1 /\ v + 1 < Pow[b + 1]
  BY ExpBitsIs
<1>2. PICK s, t : s = Zeros(b) /\ t = Binary(v + 1, b + 1)
  OBVIOUS
<1>3. Ue(v) = s \o t
  BY <1>1, <1>2, Zenon DEF Ue
<1>4. s \in Bits /\ Len(s) = b /\ \A i \in 1 .. b : s[i] = 0
  BY <1>2, ZerosAre
<1>5. PICK u \in Nat, n \in 0 .. 32 : u = v + 1 /\ n = b + 1
  OBVIOUS
<1>6. t \in Bits /\ Len(t) = n /\ \A i \in 1 .. n : t[i] = (u \div 2 ^ (n - i)) % 2
  <2>1. t = Binary(u, n)
    BY <1>2, <1>5
  <2> QED
    BY <2>1, BinaryIs
<1>7. At(data, pos, s) /\ At(data, pos + b, t)
  <2>1. At(data, pos, s \o t)
    BY <1>3
  <2>2. At(data, pos, s) /\ At(data, pos + Len(s), t)
    BY <1>4, <1>6, <2>1, AtJoined, Zenon
  <2> QED
    BY <1>4, <2>2
<1>8. PICK m \in Nat : m = Len(data)
  BY LenProperties DEF Bits
<1>9. \A i \in 1 .. b : data[pos + i] = 0
  BY <1>4, <1>7 DEF At
<1>10. (pos + b) + (b + 1) <= m /\ \A i \in 1 .. b + 1 : data[(pos + b) + i] = t[i]
  BY <1>5, <1>6, <1>7, <1>8 DEF At
<1>11. ValueAt(data, pos + b, b + 1) = v + 1
  <2>1. \A i \in 1 .. n : data[(pos + b) + i] = (u \div 2 ^ (n - i)) % 2
    BY <1>5, <1>6, <1>10
  <2>2. PICK at \in Nat : at = pos + b
    OBVIOUS
  <2>3. at + n <= Len(data) /\ u < Pow[n]
    BY <1>1, <1>5, <1>8, <1>10, <2>2
  <2>4. \A i \in 1 .. n : data[at + i] = (u \div 2 ^ (n - i)) % 2
    BY <2>1, <2>2
  <2>5. ValueAt(data, at, n) = u
    BY <2>3, <2>4, BinaryRead
  <2> QED
    BY <1>5, <2>2, <2>5
<1>12. PICK p \in Nat \ {0} : p = Pow[b] /\ Pow[b + 1] = 2 * p
  <2>1. b \in 0 .. 31
    OBVIOUS
  <2> QED
    BY <2>1, PowNext
<1>13. PICK x \in {0, 1} : x = data[pos + b + 1] /\ ValueAt(data, pos + b, 1) = x
  <2>1. pos + b \in Nat /\ 1 \in Nat /\ (pos + b) + 1 <= Len(data) /\ 0 \in Nat
        /\ (pos + b) + 0 + 1 <= Len(data) /\ (pos + b) + 0 + 1 = pos + b + 1 /\ 0 + 1 = 1
        /\ 1 \in 1 .. 1 /\ (pos + b) + 1 = pos + b + 1
    BY <1>8, <1>10
  <2>2. data[(pos + b) + 1] \in {0, 1}
    BY <2>1, BitsBehind, Zenon
  <2>3. ValueAt(data, pos + b, 1) = 2 * ValueAt(data, pos + b, 0) + data[pos + b + 1]
    BY <2>1, ValueNext
  <2>4. ValueAt(data, pos + b, 0) = 0
    BY <2>1, ValueZero
  <2> QED
    BY <2>1, <2>2, <2>3, <2>4
<1>14. PICK w \in Nat : w = ValueAt(data, pos + b + 1, b) /\ w < p
  <2>9. (pos + b) + (b + 1) <= m
    BY <1>10, Zenon
  <2>1. pos + b + 1 \in Nat /\ b \in 0 .. 32 /\ (pos + b + 1) + b <= Len(data)
    BY <1>8, <2>9
  <2>2. Window(data, pos + b + 1, b)
    BY <2>1, Zenon DEF Window
  <2> QED
    BY <1>12, <2>2, ValueBound
<1>15. v + 1 = x * p + w
  <2>9. (pos + b) + (b + 1) <= m
    BY <1>10, Zenon
  <2>0. /\ pos + b \in Nat /\ 1 + b \in 0 .. 32 /\ (pos + b) + (1 + b) <= Len(data)
        /\ 1 \in Nat /\ b \in Nat
    BY <1>8, <2>9
  <2>1. Window(data, pos + b, 1 + b)
    BY <2>0, Zenon DEF Window
  <2>2. Splits(data, pos + b, 1, b)
    BY <2>0, <2>1, ValueSplit
  <2>3. 1 + b = b + 1 /\ (pos + b) + 1 = pos + b + 1
    OBVIOUS
  <2>4. ValueAt(data, pos + b, b + 1)
          = ValueAt(data, pos + b, 1) * Pow[b] + ValueAt(data, pos + b + 1, b)
    BY <2>2, <2>3, Zenon DEF Splits
  <2> QED
    BY <1>11, <1>12, <1>13, <1>14, <2>4
<1>16. x = 1
  <2>1. x = 0 => x * p + w = w
    BY SMT
  <2> QED
    BY <1>1, <1>12, <1>14, <1>15, <2>1
<1>17. v = p + w - 1
  BY <1>15, <1>16
<1>18. pos + 2 * b + 1 <= m
  BY <1>10
<1> QED
  BY <1>1, <1>8, <1>9, <1>12, <1>13, <1>14, <1>16, <1>17, <1>18 DEF CodeAt

LEMMA GolombRead ==
  ASSUME NEW data, NEW pos, NEW b, NEW v, CodeAt(data, pos, b, v)
  PROVE  exp_golomb_ue(data, pos) = << v, pos + 2 * b + 1 >>
<1> DEFINE P(z) == data[pos + z + 1] = 1 /\ \A i \in 1 .. z : data[pos + i] = 0
           zeros == CHOOSE z \in 0 .. Len(data) : P(z)
<1>1. /\ data \in Bits /\ pos \in Nat /\ b \in 0 .. 30 /\ v \in Nat
      /\ v = Pow[b] + ValueAt(data, pos + b + 1, b) - 1
  BY DEF CodeAt
<1>2. data[pos + b + 1] = 1 /\ \A i \in 1 .. b : data[pos + i] = 0
  BY DEF CodeAt
<1>3. PICK m \in Nat : m = Len(data) /\ pos + 2 * b + 1 <= m
  BY LenProperties DEF Bits, CodeAt
<1>4. b \in 0 .. Len(data) /\ P(b)
  BY <1>1, <1>2, <1>3
<1>5. zeros \in 0 .. Len(data) /\ P(zeros)
  BY <1>4, Zenon
<1> HIDE DEF zeros
<1>6. PICK z \in Nat : z = zeros /\ data[pos + z + 1] = 1 /\ \A i \in 1 .. z : data[pos + i] = 0
  BY <1>3, <1>5
<1>7. ~(z < b)
  <2> SUFFICES ASSUME z < b PROVE FALSE
    OBVIOUS
  <2>1. z + 1 \in 1 .. b /\ pos + (z + 1) = pos + z + 1
    BY <1>1
  <2>2. data[pos + (z + 1)] = 0
    BY <1>2, <2>1
  <2> QED
    BY <1>6, <2>1, <2>2
<1>8. ~(b < z)
  <2> SUFFICES ASSUME b < z PROVE FALSE
    OBVIOUS
  <2>1. b + 1 \in 1 .. z /\ pos + (b + 1) = pos + b + 1
    BY <1>1
  <2>2. data[pos + (b + 1)] = 0
    BY <1>6, <2>1
  <2> QED
    BY <1>2, <2>1, <2>2
<1>9. zeros = b
  BY <1>1, <1>6, <1>7, <1>8
<1>10. exp_golomb_ue(data, pos)
         = << 2 ^ zeros + get_bits(data, pos + zeros + 1, zeros)[1] - 1,
              get_bits(data, pos + zeros + 1, zeros)[2] >>
  BY Zenon DEF exp_golomb_ue, zeros
<1>11. /\ get_bits(data, pos + b + 1, b)[1] = ValueAt(data, pos + b + 1, b)
       /\ get_bits(data, pos + b + 1, b)[2] = pos + b + 1 + b
  BY DEF get_bits, ValueAt
<1>12. b \in 0 .. 32 /\ pos + b + 1 + b = pos + 2 * b + 1
  BY <1>1
<1>13. 2 ^ b = Pow[b]
  BY <1>12, PowIs
<1> QED
  BY <1>1, <1>9, <1>10, <1>11, <1>12, <1>13

GolombAt(data, pos, v, end) == exp_golomb_ue(data, pos) = << v, end >>

LEMMA UeGolomb ==
  ASSUME NEW data, data \in Bits, NEW pos \in Nat, NEW v \in Nat, v <= MaxCode,
         At(data, pos, Ue(v)), NEW end, end = pos + Len(Ue(v))
  PROVE  GolombAt(data, pos, v, end)
<1>1. CodeAt(data, pos, ExpBits(v), v)
  BY UeAt
<1>2. PICK b \in 0 .. 30 : b = ExpBits(v) /\ Len(Ue(v)) = 2 * b + 1
  BY UeIs
<1>3. exp_golomb_ue(data, pos) = << v, pos + 2 * b + 1 >>
  BY <1>1, <1>2, GolombRead
<1>4. end = pos + 2 * b + 1
  BY <1>2
<1> QED
  BY <1>3, <1>4 DEF GolombAt

(* Two numbers have different codes. *)
LEMMA UeInjective ==
  ASSUME NEW v \in Nat, v <= MaxCode, NEW w \in Nat, w <= MaxCode, Ue(v) = Ue(w)
  PROVE  v = w
<1>1. PICK s : s = Ue(v) /\ s = Ue(w)
  OBVIOUS
<1>2. s \in Bits
  BY <1>1, UeIs
<1>3. PICK n \in Nat : n = Len(s)
  BY <1>2, LenProperties DEF Bits
<1>4. At(s, 0, s)
  <2>1. 0 + n <= n /\ \A i \in 1 .. n : 0 + i = i
    OBVIOUS
  <2> QED
    BY <1>3, <2>1 DEF At
<1>5. n = 0 + Len(s) /\ 0 \in Nat
  BY <1>3
<1>6. GolombAt(s, 0, v, n) /\ GolombAt(s, 0, w, n)
  BY <1>1, <1>2, <1>4, <1>5, UeGolomb, Zenon
<1> QED
  BY <1>6 DEF GolombAt

(* The number a signed one is coded as. *)
Folded(n) == IF n > 0 THEN 2 * n - 1 ELSE -(2 * n)

Unfolded(k) == IF k % 2 = 0 THEN -(k \div 2) ELSE (k + 1) \div 2

LEMMA FoldedIs ==
  /\ \A n \in Int : Folded(n) \in Nat /\ Unfolded(Folded(n)) = n /\ Se(n) = Ue(Folded(n))
  /\ \A k \in Nat : /\ Unfolded(k) \in Int /\ Folded(Unfolded(k)) = k
                    /\ -(k \div 2) <= Unfolded(k) /\ Unfolded(k) <= (k + 1) \div 2
<1>1. ASSUME NEW n \in Int
      PROVE  Folded(n) \in Nat /\ Unfolded(Folded(n)) = n /\ Se(n) = Ue(Folded(n))
  <2>1. Se(n) = Ue(Folded(n))
    BY Zenon DEF Se, Folded
  <2>2. Folded(n) \in Nat
    BY SMT DEF Folded
  <2>3. Unfolded(Folded(n)) = n
    BY SMT DEF Folded, Unfolded
  <2> QED
    BY <2>1, <2>2, <2>3
<1>2. ASSUME NEW k \in Nat
      PROVE  /\ Unfolded(k) \in Int /\ Folded(Unfolded(k)) = k
             /\ -(k \div 2) <= Unfolded(k) /\ Unfolded(k) <= (k + 1) \div 2
  BY SMT DEF Folded, Unfolded
<1> QED
  BY <1>1, <1>2

SignedAt(data, pos, n, end) == exp_golomb_se(data, pos) = << n, end >>

LEMMA GolombSigned ==
  ASSUME NEW data, NEW pos, NEW k \in Nat, NEW end, GolombAt(data, pos, k, end)
  PROVE  SignedAt(data, pos, Unfolded(k), end)
<1>1. exp_golomb_ue(data, pos)[1] = k /\ exp_golomb_ue(data, pos)[2] = end
  BY DEF GolombAt
<1> QED
  BY <1>1, Zenon DEF SignedAt, exp_golomb_se, Unfolded

LEMMA SeGolomb ==
  ASSUME NEW data, data \in Bits, NEW pos \in Nat, NEW n \in Int, Folded(n) <= MaxCode,
         At(data, pos, Se(n)), NEW end, end = pos + Len(Se(n))
  PROVE  SignedAt(data, pos, n, end)
<1>1. PICK k \in Nat : k = Folded(n) /\ Unfolded(k) = n /\ Se(n) = Ue(k)
  BY FoldedIs
<1>2. At(data, pos, Ue(k)) /\ k <= MaxCode /\ end = pos + Len(Ue(k))
  BY <1>1
<1>3. GolombAt(data, pos, k, end)
  BY <1>2, UeGolomb, Zenon
<1> QED
  BY <1>1, <1>3, GolombSigned

(* bs_t reads the same numbers. *)
LEMMA ReadOne ==
  ASSUME NEW data, data \in Bits, Len(data) % 8 = 0, NEW pos \in Nat, pos < Len(data)
  PROVE  /\ bs_read1(data, pos)[1] = data[pos + 1]
         /\ bs_read1(data, pos)[2] = pos + 1
<1>1. ~AtEnd(data, pos)
  <2>1. PICK m \in Nat : m = Len(data) /\ pos < m
    BY LenProperties DEF Bits
  <2>2. ~(pos >= Len(data))
    BY <2>1
  <2> QED
    BY <2>2, EndIs, Zenon
<1>2. 1 \in 0 .. 8 - (pos % 8)
  OBVIOUS
<1>3. FromByte(data, pos, 1) = ValueAt(data, pos, 1)
  BY <1>2, FromByteIs
<1>4. pos + 0 + 1 <= Len(data) /\ 0 \in Nat /\ 0 + 1 = 1 /\ pos + 0 + 1 = pos + 1
  <2>1. PICK m \in Nat : m = Len(data) /\ pos < m
    BY LenProperties DEF Bits
  <2> QED
    BY <2>1
<1>5. ValueAt(data, pos, 0 + 1) = 2 * ValueAt(data, pos, 0) + data[pos + 0 + 1]
  BY <1>4, ValueNext
<1>6. ValueAt(data, pos, 0) = 0
  BY ValueZero
<1>7. data[pos + 1] \in {0, 1}
  <2>1. pos + 1 <= Len(data) /\ 1 \in Nat /\ 1 \in 1 .. 1
    BY <1>4
  <2> QED
    BY <2>1, BitsBehind, Zenon
<1>8. ValueAt(data, pos, 1) = data[pos + 1]
  BY <1>4, <1>5, <1>6, <1>7
<1>9. bs_read1(data, pos) = << data[pos + 1], pos + 1 >>
  BY <1>1, <1>3, <1>8, Zenon DEF bs_read1
<1> QED
  BY <1>9

LEMMA ZeroBitsRead ==
  ASSUME NEW data, NEW pos, NEW b, NEW v, CodeAt(data, pos, b, v), Len(data) % 8 = 0
  PROVE  ZeroBits(data, pos) = << b, pos + b + 1 >>
<1> DEFINE bit(i) == bs_read1(data, pos + i)
           Goes(i) == bit(i)[1] = 0 /\ ~AtEnd(data, bit(i)[2]) /\ i < 32
           Round(f, i) == IF bit(i)[1] = 0 /\ ~AtEnd(data, bit(i)[2]) /\ i < 32
                          THEN f[i + 1] ELSE << i, bit(i)[2] >>
           Is(f) == f = [i \in 0 .. 32 |-> Round(f, i)]
           it == CHOOSE f : Is(f)
<1>1. ZeroBits(data, pos) = it[0]
  BY Zenon DEF ZeroBits
<1>2. \E f : Is(f)
  <2> DEFINE ends(i) == {j \in 0 .. 32 : i <= j /\ ~Goes(j)}
             Ends(i, j) == j \in ends(i) /\ \A k \in ends(i) : j <= k
             end(i) == CHOOSE j : Ends(i, j)
             f == [i \in 0 .. 32 |-> << end(i), bit(end(i))[2] >>]
  <2>1. ~Goes(32)
    OBVIOUS
  <2> HIDE DEF Goes
  <2>2. ASSUME NEW i \in 0 .. 32 PROVE Ends(i, end(i))
    <3>1. 32 \in ends(i) /\ ends(i) \subseteq Nat
      <4>1. 32 \in 0 .. 32 /\ i <= 32 /\ 0 .. 32 \subseteq Nat
        OBVIOUS
      <4> QED
        BY <2>1, <4>1, Zenon
    <3>2. PICK j \in ends(i) : \A k \in ends(i) : j <= k
      BY <3>1, LeastExists, Zenon
    <3> QED
      BY <3>2, Zenon
  <2> HIDE DEF end
  <2>3. ASSUME NEW i \in 0 .. 32, ~Goes(i) PROVE end(i) = i
    <3>1. i \in ends(i)
      BY <2>3
    <3>2. end(i) \in ends(i) /\ end(i) <= i
      BY <2>2, <3>1, Zenon
    <3>3. PICK e : e = end(i)
      OBVIOUS
    <3>4. e \in 0 .. 32 /\ i <= e /\ e <= i
      BY <3>2, <3>3
    <3>5. e = i
      BY <3>4
    <3> QED
      BY <3>3, <3>5
  <2>4. ASSUME NEW i \in 0 .. 32, Goes(i) PROVE i + 1 \in 0 .. 32 /\ end(i) = end(i + 1)
    <3>1. i < 32
      BY <2>4 DEF Goes
    <3>2. i + 1 \in 0 .. 32
      BY <3>1
    <3>3. ends(i) = ends(i + 1)
      <4>1. \A j \in 0 .. 32 : ~Goes(j) => (i <= j <=> i + 1 <= j)
        BY <2>4
      <4> QED
        BY <4>1
    <3>4. \A j : Ends(i, j) <=> Ends(i + 1, j)
      BY <3>3, Zenon
    <3> HIDE DEF Ends
    <3> QED
      BY <3>2, <3>4, Zenon DEF end
  <2>5. ASSUME NEW i \in 0 .. 32 PROVE << end(i), bit(end(i))[2] >> = Round(f, i)
    <3>1. CASE Goes(i)
      <4>1. f[i + 1] = << end(i + 1), bit(end(i + 1))[2] >>
        BY <2>4, <3>1, Zenon
      <4> QED
        BY <2>4, <3>1, <4>1, Zenon DEF Goes
    <3>2. CASE ~Goes(i)
      BY <2>3, <3>2, Zenon DEF Goes
    <3> QED
      BY <3>1, <3>2
  <2>6. Is(f)
    <3> HIDE DEF Round, bit
    <3> QED
      BY <2>5
  <2> QED
    BY <2>6, Zenon
<1>3. Is(it)
  BY <1>2, Zenon
<1> HIDE DEF it
<1>4. \A i \in 0 .. 32 : it[i] = Round(it, i)
  <2> HIDE DEF Round
  <2> QED
    BY <1>3
<1>5. /\ data \in Bits /\ pos \in Nat /\ b \in 0 .. 30 /\ data[pos + b + 1] = 1
      /\ \A i \in 1 .. b : data[pos + i] = 0
  BY DEF CodeAt
<1>6. PICK m \in Nat : m = Len(data) /\ pos + 2 * b + 1 <= m
  BY LenProperties DEF Bits, CodeAt
<1>7. ASSUME NEW i \in 0 .. b
      PROVE  bit(i)[1] = data[pos + i + 1] /\ bit(i)[2] = pos + i + 1
  <2>1. pos + i \in Nat /\ pos + i < Len(data)
    BY <1>5, <1>6
  <2> QED
    BY <1>5, <2>1, ReadOne
<1> DEFINE q == {i \in Nat : it[0] = it[i]}
<1>8. 0 \in q
  OBVIOUS
<1>9. ASSUME NEW i \in 0 .. b - 1, i \in q PROVE i + 1 \in q
  <2>1. /\ i \in 0 .. b /\ i + 1 \in 1 .. b /\ pos + (i + 1) = pos + i + 1 /\ i \in 0 .. 32
        /\ i + 1 \in Nat /\ i < 32 /\ pos + i + 1 \in Nat /\ ~(pos + i + 1 >= m)
    BY <1>5, <1>6
  <2>2. bit(i)[1] = 0 /\ bit(i)[2] = pos + i + 1
    BY <1>5, <1>7, <2>1, Zenon
  <2>3. ~AtEnd(data, pos + i + 1)
    BY <1>5, <1>6, <2>1, EndIs, Zenon
  <2>4. it[i] = it[i + 1]
    BY <1>4, <2>1, <2>2, <2>3, Zenon
  <2> QED
    BY <1>9, <2>1, <2>4
<1> HIDE DEF q
<1>10. b \in Nat /\ b \in 0 .. b /\ b \in 0 .. 32
  BY <1>5
<1>11. \A i \in 0 .. b - 1 : i \in q => i + 1 \in q
  BY <1>9
<1>12. b \in q
  BY <1>8, <1>10, <1>11, CountUp, Zenon
<1>13. it[b] = << b, pos + b + 1 >>
  <2>1. bit(b)[1] = 1 /\ bit(b)[2] = pos + b + 1
    BY <1>5, <1>7, <1>10, Zenon
  <2>2. 1 # 0
    OBVIOUS
  <2> QED
    BY <1>4, <1>10, <2>1, <2>2, Zenon
<1> QED
  BY <1>1, <1>12, <1>13 DEF q

LEMMA UeRead ==
  ASSUME NEW data, NEW pos, NEW b, NEW v, CodeAt(data, pos, b, v), Len(data) % 8 = 0
  PROVE  bs_read_ue(data, pos) = << v, pos + 2 * b + 1 >>
<1>1. /\ data \in Bits /\ pos \in Nat /\ b \in 0 .. 30 /\ v \in Nat
      /\ v = Pow[b] + ValueAt(data, pos + b + 1, b) - 1
  BY DEF CodeAt
<1>2. PICK m \in Nat : m = Len(data) /\ pos + 2 * b + 1 <= m
  BY LenProperties DEF Bits, CodeAt
<1>3. PICK at \in Nat : at = pos + b + 1
  BY <1>1
<1>4. ZeroBits(data, pos) = << b, at >>
  BY <1>3, ZeroBitsRead
<1>5. b \in 0 .. 31 /\ b \in 0 .. 32 /\ at + b <= m /\ b - b = 0 /\ at + b = pos + 2 * b + 1
  BY <1>1, <1>2, <1>3
<1>6. bs_read(data, at, b) = ReadResult(data, at, b)
  BY <1>1, <1>5, ReadIs
<1>7. There(data, at, b) = b
  <2>1. at >= m => b = 0
    BY <1>1, <1>2, <1>3
  <2> QED
    BY <1>2, <1>5, <2>1, Zenon DEF There
<1>8. PICK w \in Nat, p \in Nat : w = ValueAt(data, at, b) /\ p = Pow[b]
  <2>1. at + b <= Len(data)
    BY <1>2, <1>5
  <2>2. Window(data, at, b)
    BY <1>1, <1>5, <2>1, Zenon DEF Window
  <2> QED
    BY <1>5, <2>2, ValueBound, PowType
<1>9. ReadResult(data, at, b) = << w * Pow[0], at + b >>
  BY <1>5, <1>7, <1>8, Zenon DEF ReadResult
<1>10. bs_read(data, at, b)[1] = w /\ bs_read(data, at, b)[2] = at + b
  <2>1. w * 1 = w
    OBVIOUS
  <2>2. ReadResult(data, at, b) = << w, at + b >>
    BY <1>9, <2>1, PowSmall, Zenon
  <2> QED
    BY <1>6, <2>2
<1>11. 2 ^ b = p
  BY <1>5, <1>8, PowIs, Zenon
<1>12. bs_read_ue(data, pos) = << p - 1 + w, at + b >>
  <2>1. ZeroBits(data, pos)[1] = b /\ ZeroBits(data, pos)[2] = at
    BY <1>4
  <2> QED
    BY <1>10, <1>11, <2>1, Zenon DEF bs_read_ue
<1>13. v = p - 1 + w
  BY <1>1, <1>3, <1>8
<1> QED
  BY <1>5, <1>12, <1>13, Zenon

ReadAt(data, pos, v, end) == bs_read_ue(data, pos) = << v, end >>

LEMMA UeReadAt ==
  ASSUME NEW data, data \in Bits, Len(data) % 8 = 0, NEW pos \in Nat, NEW v \in Nat,
         v <= MaxCode, At(data, pos, Ue(v)), NEW end, end = pos + Len(Ue(v))
  PROVE  ReadAt(data, pos, v, end)
<1>1. CodeAt(data, pos, ExpBits(v), v)
  BY UeAt
<1>2. PICK b \in 0 .. 30 : b = ExpBits(v) /\ Len(Ue(v)) = 2 * b + 1
  BY UeIs
<1>3. bs_read_ue(data, pos) = << v, pos + 2 * b + 1 >>
  BY <1>1, <1>2, UeRead
<1>4. end = pos + 2 * b + 1
  BY <1>2
<1> QED
  BY <1>3, <1>4 DEF ReadAt

-----------------------------------------------------------------------------
(* Numbers between other bits. *)

LEMMA PaddedIs ==
  ASSUME NEW bits, bits \in Bits
  PROVE  Padded(bits) \in Bits /\ Len(Padded(bits)) % 8 = 0 /\ At(Padded(bits), 0, bits)
<1>1. PICK n \in Nat : n = Len(bits)
  BY LenProperties DEF Bits
<1>2. PICK k \in Nat : k = (8 - (n % 8)) % 8 /\ (n + k) % 8 = 0
  BY SMT
<1>3. PICK z : z = Zeros(k) /\ z \in Bits /\ Len(z) = k
  BY ZerosAre
<1>4. Padded(bits) = bits \o z
  BY <1>1, <1>2, <1>3, Zenon DEF Padded
<1>5. PICK u : u = bits \o z
  OBVIOUS
<1>6. u \in Bits /\ Len(u) = n + k /\ \A i \in 1 .. n : u[i] = bits[i]
  BY <1>1, <1>3, <1>5, Joined DEF Bits
<1>7. \A i \in 1 .. n : 0 + i = i
  OBVIOUS
<1>8. At(u, 0, bits)
  BY <1>1, <1>6, <1>7 DEF At
<1> QED
  BY <1>2, <1>4, <1>5, <1>6, <1>8

LEMMA NumberBetween ==
  ASSUME NEW before, before \in Bits, NEW v \in Nat, v <= MaxCode, NEW behind, behind \in Bits,
         NEW data, data = Padded(before \o Ue(v) \o behind)
  PROVE  /\ data \in Bits /\ Len(data) % 8 = 0 /\ Len(before) \in Nat
         /\ At(data, Len(before), Ue(v))
         /\ Len(before \o Ue(v)) = Len(before) + Len(Ue(v))
<1>1. PICK u : u = Ue(v) /\ u \in Bits
  BY UeIs
<1>2. PICK s : s = before \o u
  OBVIOUS
<1>3. s \in Bits /\ Len(s) = Len(before) + Len(u) /\ Len(before) \in Nat
  BY <1>1, <1>2, Joined, Zenon DEF Bits
<1>4. PICK w : w = s \o behind
  OBVIOUS
<1>5. w \in Bits
  BY <1>3, <1>4, Joined, Zenon DEF Bits
<1>6. data = Padded(w)
  BY <1>1, <1>2, <1>4
<1>7. data \in Bits /\ Len(data) % 8 = 0 /\ At(data, 0, w)
  BY <1>5, <1>6, PaddedIs
<1>8. 0 \in Nat
  OBVIOUS
<1>9. At(data, 0, s)
  BY <1>3, <1>4, <1>7, <1>8, AtJoined, Zenon
<1>10. At(data, 0 + Len(before), u)
  BY <1>1, <1>2, <1>7, <1>8, <1>9, AtJoined, Zenon
<1>11. 0 + Len(before) = Len(before)
  BY <1>3
<1> QED
  BY <1>1, <1>2, <1>3, <1>7, <1>10, <1>11, Zenon

(* The signed number of a code is the one that has this code.              *)
LEMMA SignedOf ==
  ASSUME NEW k \in Nat, k <= MaxCode,
         NEW n, n = CHOOSE x \in -(k \div 2) .. (k + 1) \div 2 : Se(x) = Ue(k)
  PROVE  n = Unfolded(k)
<1>1. PICK u \in Int : u = Unfolded(k)
  BY FoldedIs
<1>2. Folded(u) = k /\ u \in -(k \div 2) .. (k + 1) \div 2 /\ Se(u) = Ue(k)
  <2>1. Folded(u) = k /\ -(k \div 2) <= u /\ u <= (k + 1) \div 2
    BY <1>1, FoldedIs
  <2>2. Se(u) = Ue(Folded(u))
    BY FoldedIs
  <2> QED
    BY <2>1, <2>2
<1>3. n \in -(k \div 2) .. (k + 1) \div 2 /\ Se(n) = Ue(k)
  BY <1>2, Zenon
<1>4. n \in Int /\ -(k \div 2) <= n /\ n <= (k + 1) \div 2
  BY <1>3
<1>5. PICK j \in Nat : j = Folded(n) /\ Unfolded(j) = n /\ Se(n) = Ue(j)
  BY <1>4, FoldedIs
<1>6. j <= k
  BY <1>4, <1>5 DEF Folded
<1>7. j <= MaxCode
  BY <1>6, LimitTypes
<1>8. j = k
  BY <1>3, <1>5, <1>7, UeInjective
<1> QED
  BY <1>5, <1>8

LEMMA CodesRead ==
  ASSUME NEW before, before \in Bits, NEW v \in Nat, v <= MaxCode, NEW behind, behind \in Bits,
         NEW data, data = Padded(before \o Ue(v) \o behind),
         NEW end, end = Len(before \o Ue(v)),
         NEW signed, signed = CHOOSE n \in -(v \div 2) .. (v + 1) \div 2 : Se(n) = Ue(v)
  PROVE  /\ ReadAt(data, Len(before), v, end)
         /\ GolombAt(data, Len(before), v, end)
         /\ SignedAt(data, Len(before), signed, end)
<1>1. PICK pos \in Nat : pos = Len(before)
  BY NumberBetween
<1>2. /\ data \in Bits /\ Len(data) % 8 = 0 /\ At(data, pos, Ue(v))
      /\ end = pos + Len(Ue(v))
  BY <1>1, NumberBetween
<1>3. ReadAt(data, pos, v, end)
  BY <1>2, UeReadAt
<1>4. GolombAt(data, pos, v, end)
  BY <1>2, UeGolomb
<1>5. signed = Unfolded(v)
  BY SignedOf
<1> QED
  BY <1>1, <1>3, <1>4, <1>5, GolombSigned

-----------------------------------------------------------------------------
(* Bits put together of parts, and of codes.                               *)

Chain(F, n, part) ==
  /\ F[0] = << >>
  /\ \A i \in 1 .. n : part[i] \in Bits /\ F[i] = F[i - 1] \o part[i]

Row(F, n, c) ==
  /\ F[0] = << >>
  /\ \A i \in 1 .. n : c[i] \in Nat /\ c[i] <= MaxCode /\ F[i] = F[i - 1] \o Ue(c[i])

UeOf(n, c) == [i \in 1 .. n |-> Ue(c[i])]

LEMMA RowIsChain ==
  ASSUME NEW n \in Nat, NEW F, NEW c, Row(F, n, c)
  PROVE  Chain(F, n, UeOf(n, c)) /\ \A i \in 1 .. n : UeOf(n, c)[i] = Ue(c[i])
<1>1. \A i \in 1 .. n : UeOf(n, c)[i] = Ue(c[i])
  BY DEF UeOf
<1>2. ASSUME NEW i \in 1 .. n
      PROVE  UeOf(n, c)[i] \in Bits /\ F[i] = F[i - 1] \o UeOf(n, c)[i]
  <2>1. c[i] \in Nat /\ c[i] <= MaxCode /\ F[i] = F[i - 1] \o Ue(c[i])
    BY DEF Row
  <2>2. Ue(c[i]) \in Bits
    BY <2>1, UeIs
  <2> QED
    BY <1>1, <2>1, <2>2, Zenon
<1> QED
  BY <1>1, <1>2, Zenon DEF Chain, Row

LEMMA ChainBits ==
  ASSUME NEW n \in Nat, NEW F, NEW part, Chain(F, n, part)
  PROVE  /\ \A i \in 0 .. n : F[i] \in Bits /\ Len(F[i]) \in Nat
         /\ F[0] = << >> /\ Len(F[0]) = 0
<1> DEFINE q == {i \in Nat : F[i] \in Bits}
<1>1. 0 \in q
  <2>1. << >> \in Seq({0, 1})
    OBVIOUS
  <2> QED
    BY <2>1, Zenon DEF Chain, Bits
<1>2. ASSUME NEW i \in 0 .. n - 1, i \in q PROVE i + 1 \in q
  <2>1. i + 1 \in 1 .. n /\ i + 1 \in Nat /\ (i + 1) - 1 = i
    OBVIOUS
  <2>2. part[i + 1] \in Bits /\ F[i + 1] = F[i] \o part[i + 1]
    BY <2>1 DEF Chain
  <2>4. PICK s, t : s = F[i] /\ t = part[i + 1]
    OBVIOUS
  <2>5. s \o t \in Bits
    BY <1>2, <2>2, <2>4, Joined, Zenon DEF Bits, q
  <2> QED
    BY <2>1, <2>2, <2>4, <2>5
<1> HIDE DEF q
<1>3. \A i \in 0 .. n : i \in q
  BY <1>1, <1>2, CountUp
<1>4. \A i \in 0 .. n : F[i] \in Bits
  BY <1>3 DEF q
<1>5. \A s \in Bits : Len(s) \in Nat
  BY LenProperties DEF Bits
<1>6. Len(<< >>) = 0
  OBVIOUS
<1> QED
  BY <1>4, <1>5, <1>6, Zenon DEF Chain

ChainStands(data, start, n, F, part) ==
  /\ \A i \in 0 .. n : At(data, start, F[i])
  /\ \A i \in 1 .. n : /\ At(data, start + Len(F[i - 1]), part[i])
                       /\ Len(F[i]) = Len(F[i - 1]) + Len(part[i])

LEMMA ChainAt ==
  ASSUME NEW n \in Nat, NEW F, NEW part, Chain(F, n, part),
         NEW data, data \in Bits, NEW start \in Nat, At(data, start, F[n])
  PROVE  ChainStands(data, start, n, F, part)
<1>1. ASSUME NEW i \in 1 .. n, At(data, start, F[i])
      PROVE  /\ At(data, start, F[i - 1]) /\ At(data, start + Len(F[i - 1]), part[i])
             /\ Len(F[i]) = Len(F[i - 1]) + Len(part[i])
  <2>1. i - 1 \in 0 .. n
    OBVIOUS
  <2>2. part[i] \in Bits /\ F[i] = F[i - 1] \o part[i]
    BY DEF Chain
  <2>3. F[i - 1] \in Bits
    BY <2>1, ChainBits
  <2>4. PICK s, t : s = F[i - 1] /\ t = part[i]
    OBVIOUS
  <2>5. s \in Bits /\ t \in Bits /\ F[i] = s \o t /\ At(data, start, s \o t)
    BY <1>1, <2>2, <2>3, <2>4
  <2>6. At(data, start, s) /\ At(data, start + Len(s), t)
    BY <2>5, AtJoined, Zenon
  <2>7. Len(s \o t) = Len(s) + Len(t)
    BY <2>5, Joined, Zenon DEF Bits
  <2> QED
    BY <2>4, <2>5, <2>6, <2>7
<1> DEFINE q == {i \in Nat : At(data, start, F[n - i])}
<1>2. 0 \in q
  <2>1. n - 0 = n
    OBVIOUS
  <2> QED
    BY <2>1
<1>3. ASSUME NEW i \in 0 .. n - 1, i \in q PROVE i + 1 \in q
  <2>1. n - i \in 1 .. n /\ (n - i) - 1 = n - (i + 1) /\ i + 1 \in Nat
    OBVIOUS
  <2>2. At(data, start, F[n - i])
    BY <1>3, Zenon
  <2>3. At(data, start, F[(n - i) - 1])
    BY <1>1, <2>1, <2>2, Zenon
  <2> QED
    BY <2>1, <2>3
<1> HIDE DEF q
<1>4. \A i \in 0 .. n : i \in q
  BY <1>2, <1>3, CountUp
<1>5. ASSUME NEW i \in 0 .. n PROVE At(data, start, F[i])
  <2>1. n - i \in 0 .. n /\ n - (n - i) = i
    OBVIOUS
  <2>2. At(data, start, F[n - (n - i)])
    BY <1>4, <2>1, Zenon DEF q
  <2> QED
    BY <2>1, <2>2
<1>6. \A i \in 1 .. n : i \in 0 .. n
  OBVIOUS
<1> QED
  BY <1>1, <1>5, <1>6, Zenon DEF ChainStands

(* The type of a slice. *)
TypeRead(data, type) == bs_read_ue(data, bs_read_ue(data, 0)[2])[1] = type

LEMMA SliceRead ==
  ASSUME NEW a \in Nat, a <= MaxCode, NEW type \in 0 .. 9, NEW rest, rest \in Bits,
         NEW data, data = Padded(Codes(<< a, type >>) \o rest)
  PROVE  TypeRead(data, type)
<1>1. PICK s : s = << a, type >>
  OBVIOUS
<1>2. DOMAIN s = 1 .. 2 /\ s[1] = a /\ s[2] = type
  BY <1>1
<1>3. PICK F : FoldValues(F, 2, "codes", << >>, s) /\ Codes(s) = F[2]
  BY <1>2, CodesSteps
<1>4. type <= MaxCode /\ type \in Nat
  <2>1. type <= 9 /\ type \in Nat
    OBVIOUS
  <2> QED
    BY <2>1, SMT DEF MaxCode
<1>5. Row(F, 2, s)
  <2>1. \A i \in 1 .. 2 : s[i] \in Nat /\ s[i] <= MaxCode
    BY <1>2, <1>4
  <2>2. F[0] = << >> /\ \A i \in 1 .. 2 : F[i] = F[i - 1] \o Ue(s[i])
    BY <1>3 DEF FoldValues, FoldStep
  <2> QED
    BY <2>1, <2>2, Zenon DEF Row
<1>6. F[2] \in Bits /\ F[0] \in Bits /\ Len(F[0]) = 0 /\ Len(F[1]) \in Nat
  <2>1. 2 \in Nat /\ 2 \in 0 .. 2 /\ 1 \in 0 .. 2 /\ 0 \in 0 .. 2
    OBVIOUS
  <2>2. Chain(F, 2, UeOf(2, s))
    BY <1>5, <2>1, RowIsChain, Zenon
  <2> QED
    BY <2>1, <2>2, ChainBits, Zenon
<1>7. PICK w : w = F[2] \o rest
  OBVIOUS
<1>8. w \in Bits
  BY <1>6, <1>7, Joined, Zenon DEF Bits
<1>9. data = Padded(w)
  BY <1>1, <1>3, <1>7
<1>10. data \in Bits /\ Len(data) % 8 = 0 /\ At(data, 0, w) /\ 0 \in Nat
  BY <1>8, <1>9, PaddedIs
<1>11. At(data, 0, F[2])
  BY <1>6, <1>7, <1>10, AtJoined, Zenon
<1>12. PICK m \in Nat : m = Len(F[1])
  BY <1>6
<1>13. /\ At(data, 0, Ue(a)) /\ m = 0 + Len(Ue(a))
       /\ At(data, m, Ue(type))
  <2>1. \A i \in 1 .. 2 : /\ At(data, 0 + Len(F[i - 1]), Ue(s[i]))
                          /\ Len(F[i]) = Len(F[i - 1]) + Len(Ue(s[i]))
    <3>1. 2 \in Nat
      OBVIOUS
    <3>2. Chain(F, 2, UeOf(2, s)) /\ \A i \in 1 .. 2 : UeOf(2, s)[i] = Ue(s[i])
      BY <1>5, <3>1, RowIsChain, Zenon
    <3>3. ChainStands(data, 0, 2, F, UeOf(2, s))
      BY <1>10, <1>11, <3>1, <3>2, ChainAt, Zenon
    <3> QED
      BY <3>2, <3>3, Zenon DEF ChainStands
  <2>2. 1 \in 1 .. 2 /\ 2 \in 1 .. 2 /\ 1 - 1 = 0 /\ 2 - 1 = 1 /\ 0 + m = m /\ 0 + 0 = 0
    OBVIOUS
  <2>3. /\ At(data, 0 + Len(F[0]), Ue(s[1])) /\ Len(F[1]) = Len(F[0]) + Len(Ue(s[1]))
        /\ At(data, 0 + Len(F[1]), Ue(s[2]))
    BY <2>1, <2>2, Zenon
  <2> QED
    BY <1>2, <1>6, <1>12, <2>2, <2>3, Zenon
<1>14. ReadAt(data, 0, a, m)
  BY <1>10, <1>13, UeReadAt, Zenon
<1>15. PICK e : e = m + Len(Ue(type))
  OBVIOUS
<1>16. ReadAt(data, m, type, e)
  BY <1>4, <1>10, <1>13, <1>15, UeReadAt, Zenon
<1> QED
  BY <1>14, <1>16 DEF ReadAt, TypeRead

-----------------------------------------------------------------------------
(* A sequence parameter set.  Stands: some bits, from one place to another.*)

Stands(data, pos, bits, end) ==
  /\ data \in Bits /\ pos \in Nat /\ bits \in Bits /\ At(data, pos, bits)
  /\ end = pos + Len(bits) /\ end \in Nat

LEMMA StandsJoined ==
  ASSUME NEW data, NEW pos, NEW s, s \in Bits, NEW t, t \in Bits, NEW end,
         Stands(data, pos, s \o t, end)
  PROVE  \E mid \in Nat : Stands(data, pos, s, mid) /\ Stands(data, mid, t, end)
<1>1. /\ data \in Bits /\ pos \in Nat /\ At(data, pos, s \o t)
      /\ end = pos + Len(s \o t) /\ end \in Nat
  BY Zenon DEF Stands
<1>2. Len(s) \in Nat /\ Len(t) \in Nat
  BY LenProperties DEF Bits
<1>3. Len(s \o t) = Len(s) + Len(t)
  BY Joined, Zenon DEF Bits
<1>4. At(data, pos, s) /\ At(data, pos + Len(s), t)
  BY <1>1, AtJoined, Zenon
<1>5. PICK mid \in Nat : mid = pos + Len(s) /\ end = mid + Len(t)
  <2>1. PICK m \in Nat, n \in Nat : m = Len(s) /\ n = Len(t)
    BY <1>2
  <2> QED
    BY <1>1, <1>3, <2>1
<1>6. Stands(data, pos, s, mid) /\ Stands(data, mid, t, end)
  BY <1>1, <1>4, <1>5, Zenon DEF Stands
<1> QED
  BY <1>6, Zenon

LEMMA StandsWhole ==
  ASSUME NEW data, data \in Bits
  PROVE  Stands(data, 0, data, Len(data))
<1>1. PICK n \in Nat : n = Len(data)
  BY LenProperties DEF Bits
<1>2. 0 + n <= n /\ 0 \in Nat /\ 0 + n = n /\ \A i \in 1 .. n : 0 + i = i
  OBVIOUS
<1>3. At(data, 0, data)
  BY <1>1, <1>2 DEF At
<1> QED
  BY <1>1, <1>2, <1>3, Zenon DEF Stands

LEMMA UeStands ==
  ASSUME NEW data, NEW pos, NEW end, NEW v \in Nat, v <= MaxCode, Stands(data, pos, Ue(v), end)
  PROVE  GolombAt(data, pos, v, end)
BY UeGolomb, Zenon DEF Stands

LEMMA SeStands ==
  ASSUME NEW data, NEW pos, NEW end, NEW n \in Int, Folded(n) <= MaxCode,
         Stands(data, pos, Se(n), end)
  PROVE  SignedAt(data, pos, n, end)
BY SeGolomb, Zenon DEF Stands

LEMMA BitStands ==
  ASSUME NEW data, NEW pos, NEW end, NEW b \in {0, 1}, Stands(data, pos, << b >>, end)
  PROVE  /\ get_bit(data, pos)[1] = b /\ get_bit(data, pos)[2] = end
         /\ end = pos + 1 /\ pos \in Nat
<1>1. PICK s : s = << b >>
  OBVIOUS
<1>2. Len(s) = 1 /\ s[1] = b
  BY <1>1
<1>3. pos \in Nat /\ end = pos + Len(s) /\ At(data, pos, s)
  BY <1>1, Zenon DEF Stands
<1>4. end = pos + 1
  BY <1>2, <1>3
<1>5. 1 \in 1 .. 1
  OBVIOUS
<1>6. data[pos + 1] = b
  BY <1>2, <1>3, <1>5 DEF At
<1> QED
  BY <1>3, <1>4, <1>6 DEF get_bit

BitReadAt(data, pos, b, end) ==
  /\ get_bit(data, pos)[1] = b /\ get_bit(data, pos)[2] = end
  /\ end = pos + 1 /\ pos \in Nat

LEMMA BitStandsAt ==
  ASSUME NEW data, NEW pos, NEW end, NEW b, b = 0 \/ b = 1, Stands(data, pos, << b >>, end)
  PROVE  BitReadAt(data, pos, b, end)
<1>1. b \in {0, 1}
  OBVIOUS
<1> QED
  BY <1>1, BitStands DEF BitReadAt

BinaryReadAt(data, pos, n, v, end) ==
  /\ get_bits(data, pos, n)[1] = v /\ get_bits(data, pos, n)[2] = end
  /\ end = pos + n /\ pos \in Nat

LEMMA BinaryStands ==
  ASSUME NEW data, NEW pos, NEW end, NEW n \in 0 .. 32, NEW v \in Nat, v < Pow[n],
         Stands(data, pos, Binary(v, n), end)
  PROVE  BinaryReadAt(data, pos, n, v, end)
<1>1. PICK s : s = Binary(v, n)
  OBVIOUS
<1>2. Len(s) = n /\ \A i \in 1 .. n : s[i] = (v \div 2 ^ (n - i)) % 2
  BY <1>1, BinaryIs
<1>3. data \in Bits /\ pos \in Nat /\ end = pos + Len(s) /\ At(data, pos, s)
  BY <1>1, Zenon DEF Stands
<1>4. end = pos + n /\ pos + n <= Len(data)
  BY <1>2, <1>3 DEF At
<1>5. \A i \in 1 .. n : data[pos + i] = (v \div 2 ^ (n - i)) % 2
  BY <1>2, <1>3 DEF At
<1>6. ValueAt(data, pos, n) = v
  BY <1>3, <1>4, <1>5, BinaryRead
<1>7. get_bits(data, pos, n) = << v, pos + n >>
  BY <1>6, Zenon DEF get_bits, ValueAt
<1> QED
  BY <1>3, <1>4, <1>7 DEF BinaryReadAt

(* The eight bits of a byte. *)
ByteReadAt(data, pos, v, end) ==
  /\ get_bits(data, pos, 8)[1] = v /\ get_bits(data, pos, 8)[2] = end
  /\ end = skip_bits(pos, 8)

LEMMA ByteStands ==
  ASSUME NEW data, NEW pos, NEW end, NEW v \in Nat, v < Pow[8],
         Stands(data, pos, Binary(v, 8), end)
  PROVE  ByteReadAt(data, pos, v, end)
<1>1. 8 \in 0 .. 32
  OBVIOUS
<1>2. PICK n \in 0 .. 32 : n = 8
  BY <1>1
<1>3. v < Pow[n] /\ Stands(data, pos, Binary(v, n), end)
  BY <1>2
<1>4. BinaryReadAt(data, pos, n, v, end)
  BY <1>3, BinaryStands, Zenon
<1> QED
  BY <1>2, <1>4 DEF BinaryReadAt, ByteReadAt, skip_bits

(* The places the parts end at.                                            *)
Places(place, data, start, n, part, end) ==
  /\ place[0] = start /\ place[n] = end
  /\ \A i \in 0 .. n : place[i] \in Nat
  /\ \A i \in 1 .. n : Stands(data, place[i - 1], part[i], place[i])

LEMMA ChainPlaces ==
  ASSUME NEW n \in Nat, NEW F, NEW part, Chain(F, n, part),
         NEW data, NEW start, NEW end, Stands(data, start, F[n], end)
  PROVE  \E place : Places(place, data, start, n, part, end)
<1>1. data \in Bits /\ start \in Nat /\ At(data, start, F[n]) /\ end = start + Len(F[n])
  BY Zenon DEF Stands
<1>2. ChainStands(data, start, n, F, part)
  BY <1>1, ChainAt, Zenon
<1>3. /\ \A i \in 0 .. n : F[i] \in Bits /\ Len(F[i]) \in Nat
      /\ Len(F[0]) = 0
  BY ChainBits, Zenon
<1> DEFINE place == [i \in 0 .. n |-> start + Len(F[i])]
<1>4. 0 \in 0 .. n /\ n \in 0 .. n /\ start + 0 = start
  BY <1>1
<1>5. place[0] = start /\ place[n] = end
  BY <1>1, <1>3, <1>4, Zenon
<1>6. \A i \in 0 .. n : place[i] \in Nat
  <2>1. ASSUME NEW i \in 0 .. n PROVE start + Len(F[i]) \in Nat
    <3>1. PICK m \in Nat : m = Len(F[i])
      BY <1>3
    <3> QED
      BY <1>1, <3>1
  <2> QED
    BY <2>1, Zenon
<1>7. ASSUME NEW i \in 1 .. n PROVE Stands(data, place[i - 1], part[i], place[i])
  <2>1. i - 1 \in 0 .. n /\ i \in 0 .. n
    OBVIOUS
  <2>3. part[i] \in Bits
    BY DEF Chain
  <2>4. At(data, start + Len(F[i - 1]), part[i]) /\ Len(F[i]) = Len(F[i - 1]) + Len(part[i])
    BY <1>2, Zenon DEF ChainStands
  <2>5. place[i - 1] = start + Len(F[i - 1]) /\ place[i] = start + Len(F[i])
    BY <2>1, Zenon
  <2>6. PICK a \in Nat, b \in Nat : a = Len(F[i - 1]) /\ b = Len(part[i])
    <3>1. Len(F[i - 1]) \in Nat
      BY <1>3, <2>1, Zenon
    <3>2. Len(part[i]) \in Nat
      BY <2>3, LenProperties DEF Bits
    <3> QED
      BY <3>1, <3>2
  <2>7. start + (a + b) = (start + a) + b
    BY <1>1
  <2>8. place[i] = place[i - 1] + Len(part[i])
    BY <2>4, <2>5, <2>6, <2>7, Zenon
  <2>9. At(data, place[i - 1], part[i])
    BY <2>4, <2>5, Zenon
  <2>10. place[i - 1] \in Nat /\ place[i] \in Nat
    BY <1>6, <2>1, Zenon
  <2> HIDE DEF place
  <2> QED
    BY <1>1, <2>3, <2>8, <2>9, <2>10, Zenon DEF Stands
<1> HIDE DEF place
<1>8. Places(place, data, start, n, part, end)
  BY <1>5, <1>6, <1>7, Zenon DEF Places
<1> QED
  BY <1>8, Zenon

CodePlaces(place, data, start, n, c, end) ==
  /\ place[0] = start /\ place[n] = end
  /\ \A i \in 1 .. n : Stands(data, place[i - 1], Ue(c[i]), place[i])

LEMMA RowPlaces ==
  ASSUME NEW n \in Nat, NEW F, NEW c, Row(F, n, c),
         NEW data, NEW start, NEW end, Stands(data, start, F[n], end)
  PROVE  \E place : CodePlaces(place, data, start, n, c, end)
<1>1. Chain(F, n, UeOf(n, c)) /\ \A i \in 1 .. n : UeOf(n, c)[i] = Ue(c[i])
  BY RowIsChain, Zenon
<1>2. PICK place : Places(place, data, start, n, UeOf(n, c), end)
  BY <1>1, ChainPlaces, Zenon
<1>3. CodePlaces(place, data, start, n, c, end)
  BY <1>1, <1>2, Zenon DEF Places, CodePlaces
<1> QED
  BY <1>3, Zenon

(* Several codes are passed over one by one.                               *)
AfterAt(data, start, n, end) == AfterCodes(data, start, n) = end

LEMMA AfterIs ==
  ASSUME NEW data, NEW start, NEW n \in Nat, NEW place, place[0] = start,
         \A i \in 1 .. n : exp_golomb_ue(data, place[i - 1])[2] = place[i]
  PROVE  AfterAt(data, start, n, place[n])
<1> DEFINE Round(f, k) == IF k = 0 THEN start ELSE exp_golomb_ue(data, f[k - 1])[2]
           Is(f) == f = [k \in 0 .. n |-> Round(f, k)]
           it == CHOOSE f : Is(f)
           g == [k \in 0 .. n |-> place[k]]
<1>1. AfterCodes(data, start, n) = it[n]
  BY Zenon DEF AfterCodes
<1>2. ASSUME NEW k \in 0 .. n PROVE place[k] = Round(g, k)
  <2>1. CASE k = 0
    BY <2>1
  <2>2. CASE k # 0
    <3>1. k \in 1 .. n /\ k - 1 \in 0 .. n
      BY <2>2
    <3>2. g[k - 1] = place[k - 1]
      BY <3>1, Zenon
    <3> QED
      BY <2>2, <3>1, <3>2, Zenon
  <2> QED
    BY <2>1, <2>2
<1>3. Is(g)
  <2> HIDE DEF Round
  <2> QED
    BY <1>2
<1>4. Is(it)
  BY <1>3, Zenon
<1> HIDE DEF it
<1>5. \A k \in 0 .. n : it[k] = Round(it, k)
  <2> HIDE DEF Round
  <2> QED
    BY <1>4
<1> DEFINE q == {k \in Nat : it[k] = place[k]}
<1>6. 0 \in q
  <2>1. 0 \in 0 .. n
    OBVIOUS
  <2>2. it[0] = start
    BY <1>5, <2>1, Zenon
  <2> QED
    BY <2>2
<1>7. ASSUME NEW k \in 0 .. n - 1, k \in q PROVE k + 1 \in q
  <2>1. k + 1 \in 0 .. n /\ k + 1 \in 1 .. n /\ k + 1 # 0 /\ (k + 1) - 1 = k /\ k + 1 \in Nat
    OBVIOUS
  <2>2. it[k + 1] = exp_golomb_ue(data, it[(k + 1) - 1])[2]
    BY <1>5, <2>1, Zenon
  <2>3. exp_golomb_ue(data, place[(k + 1) - 1])[2] = place[k + 1]
    BY <2>1, Zenon
  <2>4. it[k] = place[k]
    BY <1>7
  <2> QED
    BY <2>1, <2>2, <2>3, <2>4
<1> HIDE DEF q
<1>8. n \in 0 .. n /\ \A k \in 0 .. n - 1 : k \in q => k + 1 \in q
  BY <1>7
<1>9. n \in q
  BY <1>6, <1>8, CountUp, Zenon
<1> QED
  BY <1>1, <1>9 DEF q, AfterAt

LEMMA RowStepped ==
  ASSUME NEW n \in Nat, NEW F, NEW c, Row(F, n, c),
         NEW data, NEW start, NEW end, Stands(data, start, F[n], end)
  PROVE  AfterAt(data, start, n, end)
<1>0. PICK place : CodePlaces(place, data, start, n, c, end)
  BY RowPlaces, Zenon
<1>1. /\ place[0] = start /\ place[n] = end
      /\ \A i \in 1 .. n : Stands(data, place[i - 1], Ue(c[i]), place[i])
  BY <1>0, Zenon DEF CodePlaces
<1>2. ASSUME NEW i \in 1 .. n PROVE exp_golomb_ue(data, place[i - 1])[2] = place[i]
  <2>1. c[i] \in Nat /\ c[i] <= MaxCode
    BY DEF Row
  <2>2. GolombAt(data, place[i - 1], c[i], place[i])
    BY <1>1, <2>1, UeStands, Zenon
  <2> QED
    BY <2>2 DEF GolombAt
<1>3. AfterAt(data, start, n, place[n])
  BY <1>1, <1>2, AfterIs, Zenon
<1> QED
  BY <1>1, <1>3, Zenon

(* The row a sequence of numbers is written as.                            *)
LEMMA CodesRow ==
  ASSUME NEW s, NEW n \in Nat, DOMAIN s = 1 .. n,
         \A i \in 1 .. n : s[i] \in Nat /\ s[i] <= MaxCode
  PROVE  \E F : Row(F, n, s) /\ F[n] = Codes(s)
<1>1. PICK F : FoldValues(F, n, "codes", << >>, s) /\ Codes(s) = F[n]
  BY CodesSteps, Zenon
<1>2. F[0] = << >> /\ \A i \in 1 .. n : F[i] = F[i - 1] \o Ue(s[i])
  BY <1>1 DEF FoldValues, FoldStep
<1>3. Row(F, n, s)
  BY <1>2, Zenon DEF Row
<1> QED
  BY <1>1, <1>3, Zenon

LEMMA SignedRow ==
  ASSUME NEW s, NEW n \in Nat, DOMAIN s = 1 .. n,
         \A i \in 1 .. n : s[i] \in Int /\ Folded(s[i]) <= MaxCode
  PROVE  \E F, c : /\ Row(F, n, c) /\ F[n] = SignedCodes(s)
                   /\ \A i \in 1 .. n : c[i] = Folded(s[i])
<1>1. PICK F : FoldValues(F, n, "signed", << >>, s) /\ SignedCodes(s) = F[n]
  BY SignedCodesSteps, Zenon
<1> DEFINE c == [i \in 1 .. n |-> Folded(s[i])]
<1>2. F[0] = << >> /\ \A i \in 1 .. n : F[i] = F[i - 1] \o Se(s[i])
  BY <1>1 DEF FoldValues, FoldStep
<1>3. \A i \in 1 .. n : c[i] = Folded(s[i])
  BY Zenon
<1> HIDE DEF c
<1>4. ASSUME NEW i \in 1 .. n
      PROVE  c[i] \in Nat /\ c[i] <= MaxCode /\ F[i] = F[i - 1] \o Ue(c[i])
  <2>1. Folded(s[i]) \in Nat /\ Se(s[i]) = Ue(Folded(s[i]))
    BY FoldedIs, Zenon
  <2> QED
    BY <1>2, <1>3, <2>1, Zenon
<1>5. Row(F, n, c)
  BY <1>2, <1>4, Zenon DEF Row
<1> QED
  BY <1>1, <1>3, <1>5, Zenon

(* The deltas of a scaling list are read one by one.  row holds the scale  *)
(* after each of them and the place behind it.                             *)
ListRound(data, prior) ==
  IF prior[1] = 0 THEN prior
  ELSE << NextScale(prior[1], exp_golomb_se(data, prior[2])[1]),
          exp_golomb_se(data, prior[2])[2] >>

ListAt(data, start, size, end) == parse_scaling_list(data, start, size) = end

LEMMA ListIs ==
  ASSUME NEW data, NEW start, NEW size \in Nat, NEW row, row[0] = << 8, start >>,
         \A i \in 1 .. size : row[i] = ListRound(data, row[i - 1])
  PROVE  ListAt(data, start, size, row[size][2])
<1> DEFINE Round(f, i) ==
             IF i = 0 THEN << 8, start >>
             ELSE IF f[i - 1][1] = 0 THEN f[i - 1]
             ELSE << NextScale(f[i - 1][1], exp_golomb_se(data, f[i - 1][2])[1]),
                     exp_golomb_se(data, f[i - 1][2])[2] >>
           Is(f) == f = [i \in 0 .. size |-> Round(f, i)]
           it == CHOOSE f : Is(f)
           g == [i \in 0 .. size |-> row[i]]
<1>1. parse_scaling_list(data, start, size) = it[size][2]
  BY Zenon DEF parse_scaling_list
<1>2. \A f, i : i # 0 => Round(f, i) = ListRound(data, f[i - 1])
  BY Zenon DEF ListRound
<1>3. ASSUME NEW i \in 0 .. size PROVE row[i] = Round(g, i)
  <2>1. CASE i = 0
    BY <2>1, Zenon
  <2>2. CASE i # 0
    <3>1. i \in 1 .. size /\ i - 1 \in 0 .. size
      BY <2>2
    <3>2. g[i - 1] = row[i - 1]
      BY <3>1, Zenon
    <3>3. row[i] = ListRound(data, row[i - 1])
      BY <3>1, Zenon
    <3>4. Round(g, i) = ListRound(data, g[i - 1])
      BY <1>2, <2>2, Zenon
    <3> HIDE DEF g, Round
    <3> QED
      BY <3>2, <3>3, <3>4, Zenon
  <2> QED
    BY <2>1, <2>2
<1>4. Is(g)
  <2> HIDE DEF Round
  <2> QED
    BY <1>3
<1>5. Is(it)
  BY <1>4, Zenon
<1> HIDE DEF it
<1>6. \A i \in 0 .. size : it[i] = Round(it, i)
  <2> HIDE DEF Round
  <2> QED
    BY <1>5
<1> DEFINE q == {i \in Nat : it[i] = row[i]}
<1>7. 0 \in q
  <2>1. 0 \in 0 .. size
    OBVIOUS
  <2>2. it[0] = << 8, start >>
    BY <1>6, <2>1, Zenon
  <2> QED
    BY <2>2
<1>8. ASSUME NEW i \in 0 .. size - 1, i \in q PROVE i + 1 \in q
  <2>1. i + 1 \in 0 .. size /\ i + 1 \in 1 .. size /\ i + 1 # 0 /\ (i + 1) - 1 = i /\ i + 1 \in Nat
    OBVIOUS
  <2>2. it[i + 1] = Round(it, i + 1)
    BY <1>6, <2>1, Zenon
  <2>3. Round(it, i + 1) = ListRound(data, it[(i + 1) - 1])
    BY <1>2, <2>1, Zenon
  <2> HIDE DEF Round
  <2>4. row[i + 1] = ListRound(data, row[(i + 1) - 1])
    BY <2>1, Zenon
  <2>5. it[i] = row[i]
    BY <1>8
  <2>6. it[i + 1] = row[i + 1]
    BY <2>1, <2>2, <2>3, <2>4, <2>5, Zenon
  <2> QED
    BY <2>1, <2>6
<1> HIDE DEF q
<1>9. size \in 0 .. size /\ \A i \in 0 .. size - 1 : i \in q => i + 1 \in q
  <2>1. size \in 0 .. size
    OBVIOUS
  <2> QED
    BY <1>8, <2>1, Zenon
<1>10. size \in q
  BY <1>7, <1>9, CountUp, Zenon
<1>11. it[size] = row[size]
  BY <1>10, Zenon DEF q
<1> QED
  BY <1>1, <1>11, Zenon DEF ListAt

(* The scale after each delta of a list. *)
LEMMA ScalesOf ==
  ASSUME NEW list, NEW size \in Nat, IsScalingList(list, size), NEW n \in Nat, n = Len(list)
  PROVE  \E G : /\ G[0] = 8
                /\ \A i \in 1 .. n : G[i] = NextScale(G[i - 1], list[i])
                /\ \A i \in 0 .. n - 1 : G[i] # 0
                /\ n <= size /\ (n = size \/ G[n] = 0)
<1>1. list \in Seq(-128 .. 127) /\ DOMAIN list = 1 .. n
  BY LenProperties DEF IsScalingList
<1>2. PICK G : FoldValues(G, n, "scale", 8, list) /\ ScaleAfter(list) = G[n]
  BY <1>1, ScaleSteps, Zenon
<1>3. G[0] = 8 /\ \A i \in 1 .. n : G[i] = NextScale(G[i - 1], list[i])
  BY <1>2 DEF FoldValues, FoldStep
<1>4. ASSUME NEW i \in 1 .. n - 1 PROVE G[i] # 0
  <2>1. PICK t : t = SubSeq(list, 1, i)
    OBVIOUS
  <2>2. i \in Nat /\ i \in 0 .. n /\ 1 <= i /\ i <= n
    OBVIOUS
  <2>3. DOMAIN t = 1 .. i /\ \A j \in 1 .. i : t[j] = list[j]
    <3>1. \A j \in 1 .. i : list[j] \in -128 .. 127
      <4>1. \A j \in 1 .. Len(list) : list[j] \in -128 .. 127
        BY <1>1, ElementOfSeq, Zenon
      <4>2. \A j \in 1 .. n : list[j] \in -128 .. 127
        BY <4>1, Zenon
      <4>3. \A j \in 1 .. i : j \in 1 .. n
        OBVIOUS
      <4> QED
        BY <4>2, <4>3, Zenon
    <3>2. /\ t \in Seq(-128 .. 127) /\ Len(t) = i - 1 + 1
          /\ \A j \in 1 .. i - 1 + 1 : t[j] = list[1 + j - 1]
      BY <1>1, <2>1, <2>2, <3>1, SubSeqProperties
    <3>3. i - 1 + 1 = i /\ \A j \in 1 .. i : 1 + j - 1 = j
      OBVIOUS
    <3>4. DOMAIN t = 1 .. i
      BY <3>2, <3>3, LenProperties
    <3> QED
      BY <3>2, <3>3, <3>4
  <2>4. PICK H : FoldValues(H, i, "scale", 8, t) /\ ScaleAfter(t) = H[i]
    BY <2>2, <2>3, ScaleSteps, Zenon
  <2>5. G[i] = H[i]
    BY <1>2, <2>2, <2>3, <2>4, FoldPrefix
  <2>6. ScaleAfter(t) # 0
    BY <2>1 DEF IsScalingList
  <2> QED
    BY <2>4, <2>5, <2>6
<1>5. ASSUME NEW i \in 0 .. n - 1 PROVE G[i] # 0
  <2>1. CASE i = 0
    BY <1>3, <2>1
  <2>2. CASE i # 0
    BY <1>4, <2>2
  <2> QED
    BY <2>1, <2>2
<1>6. n <= size /\ (n = size \/ G[n] = 0)
  BY <1>2, Zenon DEF IsScalingList
<1> QED
  BY <1>3, <1>5, <1>6, Zenon

LEMMA SmallFolded ==
  \A x \in -128 .. 127 : x \in Int /\ Folded(x) <= MaxCode
<1>1. \A x \in -128 .. 127 : x \in Int /\ Folded(x) <= 256
  BY SMT DEF Folded
<1>2. 256 <= MaxCode
  BY SMT DEF MaxCode
<1>3. ASSUME NEW x \in -128 .. 127 PROVE x \in Int /\ Folded(x) <= MaxCode
  <2>1. x \in Int /\ Folded(x) <= 256 /\ Folded(x) \in Nat
    BY <1>1, FoldedIs
  <2> QED
    BY <1>2, <2>1, LimitTypes
<1> QED
  BY <1>3

LEMMA ListDeltas ==
  ASSUME NEW list, NEW size \in Nat, IsScalingList(list, size), NEW n \in Nat, n = Len(list)
  PROVE  /\ DOMAIN list = 1 .. n
         /\ \A i \in 1 .. n : list[i] \in Int /\ Folded(list[i]) <= MaxCode
<1>1. DOMAIN list = 1 .. n /\ \A i \in 1 .. n : list[i] \in -128 .. 127
  <2>1. list \in Seq(-128 .. 127)
    BY DEF IsScalingList
  <2>2. DOMAIN list = 1 .. n
    BY <2>1, LenProperties
  <2>3. \A j \in 1 .. Len(list) : list[j] \in -128 .. 127
    BY <2>1, ElementOfSeq, Zenon
  <2> QED
    BY <2>2, <2>3, Zenon
<1>2. \A i \in 1 .. n : list[i] \in Int /\ Folded(list[i]) <= MaxCode
  <2>1. \A x \in -128 .. 127 : x \in Int /\ Folded(x) <= MaxCode
    BY SmallFolded
  <2> QED
    BY <1>1, <2>1, Zenon
<1> QED
  BY <1>1, <1>2, Zenon

LEMMA ListStands ==
  ASSUME NEW list, NEW size \in Nat, IsScalingList(list, size),
         NEW data, NEW pos, NEW end, Stands(data, pos, SignedCodes(list), end)
  PROVE  ListAt(data, pos, size, end)
<1>1. PICK n \in Nat : n = Len(list)
  BY LenProperties DEF IsScalingList
<1>2. PICK G : /\ G[0] = 8
               /\ \A i \in 1 .. n : G[i] = NextScale(G[i - 1], list[i])
               /\ \A i \in 0 .. n - 1 : G[i] # 0
               /\ n <= size /\ (n = size \/ G[n] = 0)
  BY <1>1, ScalesOf
<1>3. DOMAIN list = 1 .. n
  BY <1>1, ListDeltas
<1>4. \A i \in 1 .. n : list[i] \in Int /\ Folded(list[i]) <= MaxCode
  BY <1>1, ListDeltas, Zenon
<1>5. PICK F, c : /\ Row(F, n, c) /\ F[n] = SignedCodes(list)
                  /\ \A i \in 1 .. n : c[i] = Folded(list[i])
  BY <1>3, <1>4, SignedRow, Zenon
<1>6. Stands(data, pos, F[n], end)
  BY <1>5
<1> PICK place : CodePlaces(place, data, pos, n, c, end)
  BY <1>5, <1>6, RowPlaces, Zenon
<1>7. /\ place[0] = pos /\ place[n] = end
      /\ \A i \in 1 .. n : Stands(data, place[i - 1], Ue(c[i]), place[i])
  BY Zenon DEF CodePlaces
<1>8. ASSUME NEW i \in 1 .. n PROVE SignedAt(data, place[i - 1], list[i], place[i])
  <2>1. list[i] \in Int /\ Folded(list[i]) <= MaxCode
    BY <1>4, Zenon
  <2>2. Se(list[i]) = Ue(c[i])
    BY <1>5, <2>1, FoldedIs, Zenon
  <2>3. Stands(data, place[i - 1], Se(list[i]), place[i])
    BY <1>7, <2>2, Zenon
  <2> QED
    BY <2>1, <2>3, SeStands, Zenon
<1> DEFINE row == [i \in 0 .. size |-> IF i <= n THEN << G[i], place[i] >> ELSE << G[n], place[n] >>]
<1>9. row[0] = << 8, pos >>
  <2>1. 0 \in 0 .. size /\ 0 <= n
    OBVIOUS
  <2> QED
    BY <1>2, <1>7, <2>1, Zenon
<1>10. ASSUME NEW i \in 1 .. size PROVE row[i] = ListRound(data, row[i - 1])
  <2>1. i \in 0 .. size /\ i - 1 \in 0 .. size
    OBVIOUS
  <2>2. CASE i <= n
    <3>1. i - 1 <= n /\ i \in 1 .. n /\ i - 1 \in 0 .. n - 1
      BY <2>2
    <3>2. row[i - 1] = << G[i - 1], place[i - 1] >>
      BY <2>1, <3>1, Zenon
    <3>3. row[i - 1][1] = G[i - 1] /\ row[i - 1][2] = place[i - 1]
      BY <3>2
    <3>4. /\ exp_golomb_se(data, place[i - 1])[1] = list[i]
          /\ exp_golomb_se(data, place[i - 1])[2] = place[i]
      BY <1>8, <3>1 DEF SignedAt
    <3>5. ListRound(data, row[i - 1]) = << NextScale(G[i - 1], list[i]), place[i] >>
      BY <1>2, <3>1, <3>3, <3>4, Zenon DEF ListRound
    <3> QED
      BY <1>2, <2>1, <2>2, <3>1, <3>5, Zenon
  <2>3. CASE ~(i <= n)
    <3>1. n # size /\ (i - 1 <= n => i - 1 = n)
      BY <1>2, <2>3
    <3>2. row[i - 1] = << G[n], place[n] >>
      BY <2>1, <3>1, Zenon
    <3>3. row[i - 1][1] = 0
      BY <1>2, <3>1, <3>2
    <3>4. ListRound(data, row[i - 1]) = row[i - 1]
      BY <3>3, Zenon DEF ListRound
    <3> QED
      BY <2>1, <2>3, <3>2, <3>4, Zenon
  <2> QED
    BY <2>2, <2>3
<1>11. row[size] = << G[n], place[n] >>
  <2>1. size \in 0 .. size /\ (size <= n => size = n)
    BY <1>2
  <2> QED
    BY <2>1, Zenon
<1>12. row[size][2] = end
  <2> HIDE DEF row
  <2> QED
    BY <1>7, <1>11
<1> HIDE DEF row
<1>13. ListAt(data, pos, size, row[size][2])
  BY <1>9, <1>10, ListIs, Zenon
<1> QED
  BY <1>12, <1>13

(* The scaling matrix: which lists there are, and their deltas.            *)
MatrixAt(data, start, end) == ScalingMatrix(data, start) = end

ListEnd(data, place, i) ==
  IF get_bit(data, place)[1] = 1
  THEN parse_scaling_list(data, get_bit(data, place)[2], IF i <= 6 THEN 16 ELSE 64)
  ELSE get_bit(data, place)[2]

LEMMA MatrixIs ==
  ASSUME NEW data, NEW start, NEW place, place[0] = start,
         \A i \in 1 .. 8 : place[i] = ListEnd(data, place[i - 1], i)
  PROVE  MatrixAt(data, start, place[8])
<1> DEFINE Round(f, i) ==
             IF i = 0 THEN start
             ELSE IF get_bit(data, f[i - 1])[1] = 1
                  THEN parse_scaling_list(data, get_bit(data, f[i - 1])[2],
                                          IF i <= 6 THEN 16 ELSE 64)
                  ELSE get_bit(data, f[i - 1])[2]
           Is(f) == f = [i \in 0 .. 8 |-> Round(f, i)]
           it == CHOOSE f : Is(f)
           g == [i \in 0 .. 8 |-> place[i]]
<1>1. ScalingMatrix(data, start) = it[8]
  BY Zenon DEF ScalingMatrix
<1>2. \A f, i : i # 0 => Round(f, i) = ListEnd(data, f[i - 1], i)
  BY Zenon DEF ListEnd
<1>3. ASSUME NEW i \in 0 .. 8 PROVE place[i] = Round(g, i)
  <2>1. CASE i = 0
    BY <2>1, Zenon
  <2>2. CASE i # 0
    <3>1. i \in 1 .. 8 /\ i - 1 \in 0 .. 8
      BY <2>2
    <3>2. g[i - 1] = place[i - 1]
      BY <3>1, Zenon
    <3>3. place[i] = ListEnd(data, place[i - 1], i)
      BY <3>1, Zenon
    <3>4. Round(g, i) = ListEnd(data, g[i - 1], i)
      BY <1>2, <2>2, Zenon
    <3> HIDE DEF g, Round
    <3> QED
      BY <3>2, <3>3, <3>4, Zenon
  <2> QED
    BY <2>1, <2>2
<1>4. Is(g)
  <2> HIDE DEF Round
  <2> QED
    BY <1>3
<1>5. Is(it)
  BY <1>4, Zenon
<1> HIDE DEF it
<1>6. \A i \in 0 .. 8 : it[i] = Round(it, i)
  <2> HIDE DEF Round
  <2> QED
    BY <1>5
<1> DEFINE q == {i \in Nat : it[i] = place[i]}
<1>7. 0 \in q
  <2>1. 0 \in 0 .. 8
    OBVIOUS
  <2>2. it[0] = start
    BY <1>6, <2>1, Zenon
  <2> QED
    BY <2>2
<1>8. ASSUME NEW i \in 0 .. 8 - 1, i \in q PROVE i + 1 \in q
  <2>1. i + 1 \in 0 .. 8 /\ i + 1 \in 1 .. 8 /\ i + 1 # 0 /\ (i + 1) - 1 = i /\ i + 1 \in Nat
    OBVIOUS
  <2>2. it[i + 1] = Round(it, i + 1)
    BY <1>6, <2>1, Zenon
  <2>3. Round(it, i + 1) = ListEnd(data, it[(i + 1) - 1], i + 1)
    BY <1>2, <2>1, Zenon
  <2> HIDE DEF Round
  <2>4. place[i + 1] = ListEnd(data, place[(i + 1) - 1], i + 1)
    BY <2>1, Zenon
  <2>5. it[i] = place[i]
    BY <1>8
  <2>6. it[i + 1] = place[i + 1]
    BY <2>1, <2>2, <2>3, <2>4, <2>5, Zenon
  <2> QED
    BY <2>1, <2>6
<1> HIDE DEF q
<1>9. 8 \in Nat /\ 8 \in 0 .. 8 /\ \A i \in 0 .. 8 - 1 : i \in q => i + 1 \in q
  BY <1>8
<1>10. 8 \in q
  BY <1>7, <1>9, CountUp, Zenon
<1> QED
  BY <1>1, <1>10, Zenon DEF MatrixAt, q

LEMMA CodesAreBits ==
  ASSUME NEW s, NEW n \in Nat, DOMAIN s = 1 .. n,
         \A i \in 1 .. n : s[i] \in Nat /\ s[i] <= MaxCode
  PROVE  Codes(s) \in Bits
<1>1. PICK F : Row(F, n, s) /\ F[n] = Codes(s)
  BY CodesRow, Zenon
<1>2. Chain(F, n, UeOf(n, s)) /\ n \in 0 .. n
  <2>1. n \in 0 .. n
    OBVIOUS
  <2> QED
    BY <1>1, <2>1, RowIsChain, Zenon
<1> QED
  BY <1>1, <1>2, ChainBits, Zenon

LEMMA SignedCodesAreBits ==
  ASSUME NEW s, NEW n \in Nat, DOMAIN s = 1 .. n,
         \A i \in 1 .. n : s[i] \in Int /\ Folded(s[i]) <= MaxCode
  PROVE  SignedCodes(s) \in Bits
<1>1. PICK F, c : Row(F, n, c) /\ F[n] = SignedCodes(s)
  BY SignedRow, Zenon
<1>2. Chain(F, n, UeOf(n, c)) /\ n \in 0 .. n
  <2>1. n \in 0 .. n
    OBVIOUS
  <2> QED
    BY <1>1, <2>1, RowIsChain, Zenon
<1> QED
  BY <1>1, <1>2, ChainBits, Zenon

LEMMA BitsAre ==
  /\ << >> \in Bits /\ Len(<< >>) = 0
  /\ \A b \in {0, 1} : << b >> \in Bits
<1>1. << >> \in Seq({0, 1}) /\ Len(<< >>) = 0
  OBVIOUS
<1>2. \A b \in {0, 1} : << b >> \in Seq({0, 1})
  OBVIOUS
<1> QED
  BY <1>1, <1>2, Zenon DEF Bits

LEMMA EmptyStands ==
  ASSUME NEW data, NEW pos, NEW end, Stands(data, pos, << >>, end)
  PROVE  end = pos /\ pos \in Nat
<1>1. pos \in Nat /\ end = pos + 0
  BY BitsAre, Zenon DEF Stands
<1> QED
  BY <1>1

(* A list of the matrix: there or not. *)
ListFits(list, size) == list = << >> \/ IsScalingList(list, size)

LEMMA ListIsBits ==
  ASSUME NEW list, NEW size \in Nat, ListFits(list, size)
  PROVE  /\ ListBits(list) \in Bits
         /\ list # << >> => SignedCodes(list) \in Bits
<1>1. CASE list = << >>
  <2>1. 0 \in {0, 1}
    OBVIOUS
  <2> QED
    BY <1>1, <2>1, BitsAre, Zenon DEF ListBits
<1>2. CASE list # << >>
  <2>1. IsScalingList(list, size)
    BY <1>2 DEF ListFits
  <2>2. PICK n \in Nat : n = Len(list)
    BY <2>1, LenProperties DEF IsScalingList
  <2>3. SignedCodes(list) \in Bits
    BY <2>1, <2>2, ListDeltas, SignedCodesAreBits, Zenon
  <2>4. PICK s, t : s = << 1 >> /\ t = SignedCodes(list)
    OBVIOUS
  <2>5. s \in Bits
    BY <2>4, BitsAre
  <2>6. s \o t \in Bits
    BY <2>3, <2>4, <2>5, Joined, Zenon DEF Bits
  <2> QED
    BY <1>2, <2>3, <2>4, <2>6, Zenon DEF ListBits
<1> QED
  BY <1>1, <1>2

LEMMA ListBitsStand ==
  ASSUME NEW i \in 1 .. 8, NEW list, ListFits(list, IF i <= 6 THEN 16 ELSE 64),
         NEW data, NEW pos, NEW end, Stands(data, pos, ListBits(list), end)
  PROVE  end = ListEnd(data, pos, i)
<1>1. PICK size \in Nat : size = IF i <= 6 THEN 16 ELSE 64
  OBVIOUS
<1>2. ListFits(list, size)
  BY <1>1
<1>3. CASE list = << >>
  <2>0. Stands(data, pos, << 0 >>, end)
    BY <1>3, Zenon DEF ListBits
  <2>1. 0 \in {0, 1} /\ 0 # 1
    OBVIOUS
  <2>2. get_bit(data, pos)[1] = 0 /\ get_bit(data, pos)[2] = end
    BY <2>0, <2>1, BitStands, Zenon
  <2> QED
    BY <2>1, <2>2, Zenon DEF ListEnd
<1>4. CASE list # << >>
  <2>1. SignedCodes(list) \in Bits /\ << 1 >> \in Bits /\ 1 \in {0, 1}
    <3>1. 1 \in {0, 1}
      OBVIOUS
    <3> QED
      BY <1>2, <1>4, <3>1, ListIsBits, BitsAre, Zenon
  <2>2. Stands(data, pos, << 1 >> \o SignedCodes(list), end)
    BY <1>4, Zenon DEF ListBits
  <2>3. PICK mid \in Nat : Stands(data, pos, << 1 >>, mid) /\ Stands(data, mid, SignedCodes(list), end)
    BY <2>1, <2>2, StandsJoined, Zenon
  <2>4. get_bit(data, pos)[1] = 1 /\ get_bit(data, pos)[2] = mid
    BY <2>1, <2>3, BitStands, Zenon
  <2>5. IsScalingList(list, size)
    BY <1>2, <1>4, Zenon DEF ListFits
  <2>6. ListAt(data, mid, size, end)
    BY <2>3, <2>5, ListStands, Zenon
  <2> QED
    BY <1>1, <2>4, <2>6, Zenon DEF ListEnd, ListAt
<1> QED
  BY <1>3, <1>4

ListsFit(lists) ==
  /\ DOMAIN lists = 1 .. 8
  /\ \A i \in 1 .. 8 : ListFits(lists[i], IF i <= 6 THEN 16 ELSE 64)

LEMMA ListsChain ==
  ASSUME NEW lists, ListsFit(lists)
  PROVE  \E L, part : /\ Chain(L, 8, part) /\ L[8] = ListsBits(lists)
                      /\ \A i \in 1 .. 8 : part[i] = ListBits(lists[i])
<1> DEFINE part == [i \in 1 .. 8 |-> ListBits(lists[i])]
<1>1. PICK L : FoldValues(L, 8, "lists", << >>, lists) /\ ListsBits(lists) = L[8]
  <2>1. 8 \in Nat
    OBVIOUS
  <2> QED
    BY <2>1, ListsSteps, Zenon DEF ListsFit
<1>2. L[0] = << >> /\ \A i \in 1 .. 8 : L[i] = L[i - 1] \o ListBits(lists[i])
  BY <1>1 DEF FoldValues, FoldStep, ListBits
<1>3. \A i \in 1 .. 8 : part[i] = ListBits(lists[i])
  BY Zenon
<1> HIDE DEF part
<1>4. ASSUME NEW i \in 1 .. 8 PROVE part[i] \in Bits /\ L[i] = L[i - 1] \o part[i]
  <2>1. PICK size \in Nat : size = IF i <= 6 THEN 16 ELSE 64
    OBVIOUS
  <2>2. ListFits(lists[i], size)
    BY <2>1 DEF ListsFit
  <2>3. ListBits(lists[i]) \in Bits
    BY <2>2, ListIsBits, Zenon
  <2> QED
    BY <1>2, <1>3, <2>3, Zenon
<1>5. Chain(L, 8, part)
  BY <1>2, <1>4, Zenon DEF Chain
<1> QED
  BY <1>1, <1>3, <1>5, Zenon

LEMMA ListsAreBits ==
  ASSUME NEW lists, ListsFit(lists)
  PROVE  ListsBits(lists) \in Bits
<1>1. PICK L, part : Chain(L, 8, part) /\ L[8] = ListsBits(lists)
  BY ListsChain, Zenon
<1>2. 8 \in Nat /\ 8 \in 0 .. 8
  OBVIOUS
<1> QED
  BY <1>1, <1>2, ChainBits, Zenon

LEMMA ListsStand ==
  ASSUME NEW lists, ListsFit(lists),
         NEW data, NEW pos, NEW end, Stands(data, pos, ListsBits(lists), end)
  PROVE  MatrixAt(data, pos, end)
<1>1. PICK L, part : /\ Chain(L, 8, part) /\ L[8] = ListsBits(lists)
                     /\ \A i \in 1 .. 8 : part[i] = ListBits(lists[i])
  BY ListsChain, Zenon
<1>2. PICK place : Places(place, data, pos, 8, part, end)
  <2>1. Stands(data, pos, L[8], end) /\ 8 \in Nat
    BY <1>1
  <2> QED
    BY <1>1, <2>1, ChainPlaces, Zenon
<1>3. /\ place[0] = pos /\ place[8] = end
      /\ \A i \in 1 .. 8 : Stands(data, place[i - 1], part[i], place[i])
  BY <1>2, Zenon DEF Places
<1>4. ASSUME NEW i \in 1 .. 8 PROVE place[i] = ListEnd(data, place[i - 1], i)
  <2>1. Stands(data, place[i - 1], ListBits(lists[i]), place[i])
    BY <1>1, <1>3, Zenon
  <2>2. ListFits(lists[i], IF i <= 6 THEN 16 ELSE 64)
    BY Zenon DEF ListsFit
  <2> QED
    BY <2>1, <2>2, ListBitsStand
<1>5. MatrixAt(data, pos, place[8])
  BY <1>3, <1>4, MatrixIs, Zenon
<1> QED
  BY <1>3, <1>5, Zenon

(* The fields of a profile that has a chroma format.                       *)
HighAt(data, start, end) == HighProfile(data, start) = end

AnyLists(lists) == lists = << >> \/ ListsFit(lists)

MatrixBits(lists) == IF lists = << >> THEN << 0 >> ELSE << 1 >> \o ListsBits(lists)

MatrixEnd(data, place) ==
  IF get_bit(data, place)[1] = 1 THEN ScalingMatrix(data, get_bit(data, place)[2])
  ELSE get_bit(data, place)[2]

LEMMA MatrixIsBits ==
  ASSUME NEW lists, AnyLists(lists)
  PROVE  MatrixBits(lists) \in Bits
<1>1. 0 \in {0, 1} /\ 1 \in {0, 1}
  OBVIOUS
<1>2. CASE lists = << >>
  BY <1>1, <1>2, BitsAre, Zenon DEF MatrixBits
<1>3. CASE lists # << >>
  <2>1. PICK s, t : s = << 1 >> /\ t = ListsBits(lists)
    OBVIOUS
  <2>2. s \in Bits /\ t \in Bits
    BY <1>1, <1>3, <2>1, BitsAre, ListsAreBits, Zenon DEF AnyLists
  <2>3. s \o t \in Bits
    BY <2>2, Joined, Zenon DEF Bits
  <2> QED
    BY <1>3, <2>1, <2>3, Zenon DEF MatrixBits
<1> QED
  BY <1>2, <1>3

LEMMA MatrixStands ==
  ASSUME NEW lists, AnyLists(lists),
         NEW data, NEW pos, NEW end, Stands(data, pos, MatrixBits(lists), end)
  PROVE  MatrixEnd(data, pos) = end
<1>1. 0 \in {0, 1} /\ 1 \in {0, 1} /\ 0 # 1
  OBVIOUS
<1>2. CASE lists = << >>
  <2>1. Stands(data, pos, << 0 >>, end)
    BY <1>2, Zenon DEF MatrixBits
  <2>2. get_bit(data, pos)[1] = 0 /\ get_bit(data, pos)[2] = end
    BY <1>1, <2>1, BitStands, Zenon
  <2> QED
    BY <1>1, <2>2, Zenon DEF MatrixEnd
<1>3. CASE lists # << >>
  <2>1. ListsFit(lists)
    BY <1>3, Zenon DEF AnyLists
  <2>2. ListsBits(lists) \in Bits /\ << 1 >> \in Bits
    BY <1>1, <2>1, ListsAreBits, BitsAre, Zenon
  <2>3. Stands(data, pos, << 1 >> \o ListsBits(lists), end)
    BY <1>3, Zenon DEF MatrixBits
  <2>4. PICK mid \in Nat : Stands(data, pos, << 1 >>, mid) /\ Stands(data, mid, ListsBits(lists), end)
    BY <2>2, <2>3, StandsJoined, Zenon
  <2>5. get_bit(data, pos)[1] = 1 /\ get_bit(data, pos)[2] = mid
    BY <1>1, <2>4, BitStands, Zenon
  <2>6. MatrixAt(data, mid, end)
    BY <2>1, <2>4, ListsStand, Zenon
  <2> QED
    BY <2>5, <2>6, Zenon DEF MatrixEnd, MatrixAt
<1> QED
  BY <1>2, <1>3

(* Two numbers, written one after the other. *)
LEMMA TwoCodes ==
  ASSUME NEW a \in Nat, NEW b \in Nat, a <= MaxCode, b <= MaxCode
  PROVE  /\ Codes(<< a, b >>) \in Bits
         /\ \A data, pos, end : Stands(data, pos, Codes(<< a, b >>), end)
                                  => AfterAt(data, pos, 2, end)
<1>1. PICK s : s = << a, b >>
  OBVIOUS
<1>2. DOMAIN s = 1 .. 2 /\ \A i \in 1 .. 2 : s[i] \in Nat /\ s[i] <= MaxCode
  BY <1>1
<1>3. 2 \in Nat
  OBVIOUS
<1>4. Codes(s) \in Bits
  BY <1>2, <1>3, CodesAreBits, Zenon
<1>5. PICK F : Row(F, 2, s) /\ F[2] = Codes(s)
  BY <1>2, <1>3, CodesRow, Zenon
<1>6. ASSUME NEW data, NEW pos, NEW end, Stands(data, pos, Codes(s), end)
      PROVE  AfterAt(data, pos, 2, end)
  <2>1. Stands(data, pos, F[2], end)
    BY <1>5, <1>6, Zenon
  <2> QED
    BY <1>3, <1>5, <2>1, RowStepped, Zenon
<1> QED
  BY <1>1, <1>4, <1>6, Zenon

(* The fields behind the identifier of the set, of a high profile.         *)
FieldsBits(f) ==
  Ue(f.chroma) \o (IF f.chroma = 3 THEN << 0 >> ELSE << >>)
    \o Codes(<< 0, 0 >>) \o << 0 >> \o MatrixBits(f.lists)

LEMMA FieldsStand ==
  ASSUME NEW f, f.chroma \in 0 .. 3, AnyLists(f.lists)
  PROVE  /\ FieldsBits(f) \in Bits
         /\ \A data, pos, end : Stands(data, pos, FieldsBits(f), end) => HighAt(data, pos, end)
<1>0. 0 \in {0, 1} /\ 1 \in {0, 1} /\ 0 # 1 /\ 0 \in Nat /\ 0 <= MaxCode
  BY LimitTypes
<1>1. PICK chroma \in Nat : chroma = f.chroma /\ chroma <= MaxCode
  <2>1. 3 <= MaxCode
    BY SMT DEF MaxCode
  <2>2. PICK c \in 0 .. 3 : c = f.chroma
    OBVIOUS
  <2>3. c \in Nat /\ c <= MaxCode
    BY <2>1, <2>2, LimitTypes
  <2> QED
    BY <2>2, <2>3
<1>2. PICK p1, p2, p3, p4, p5 :
        /\ p1 = Ue(chroma) /\ p2 = (IF chroma = 3 THEN << 0 >> ELSE << >>)
        /\ p3 = Codes(<< 0, 0 >>) /\ p4 = << 0 >> /\ p5 = MatrixBits(f.lists)
  OBVIOUS
<1>3. p1 \in Bits /\ p3 \in Bits /\ p5 \in Bits
  BY <1>0, <1>1, <1>2, UeIs, TwoCodes, MatrixIsBits, Zenon
<1>4. p2 \in Bits /\ p4 \in Bits
  <2>1. << >> \in Bits /\ << 0 >> \in Bits
    BY <1>0, BitsAre, Zenon
  <2> QED
    BY <1>2, <2>1, Zenon
<1>5. PICK s2, s3, s4, s5 : s2 = p1 \o p2 /\ s3 = s2 \o p3 /\ s4 = s3 \o p4 /\ s5 = s4 \o p5
  OBVIOUS
<1>6. s2 \in Bits /\ s3 \in Bits /\ s4 \in Bits /\ s5 \in Bits
  BY <1>3, <1>4, <1>5, Joined, Zenon DEF Bits
<1>7. FieldsBits(f) = s5
  BY <1>1, <1>2, <1>5, Zenon DEF FieldsBits
<1>8. ASSUME NEW data, NEW pos, NEW end, Stands(data, pos, s5, end)
      PROVE  HighAt(data, pos, end)
  <2>1. PICK e4 \in Nat : Stands(data, pos, s4, e4) /\ Stands(data, e4, p5, end)
    BY <1>3, <1>5, <1>6, <1>8, StandsJoined, Zenon
  <2>2. PICK e3 \in Nat : Stands(data, pos, s3, e3) /\ Stands(data, e3, p4, e4)
    BY <1>4, <1>5, <1>6, <2>1, StandsJoined, Zenon
  <2>3. PICK e2 \in Nat : Stands(data, pos, s2, e2) /\ Stands(data, e2, p3, e3)
    BY <1>3, <1>5, <1>6, <2>2, StandsJoined, Zenon
  <2>4. PICK e1 \in Nat : Stands(data, pos, p1, e1) /\ Stands(data, e1, p2, e2)
    BY <1>3, <1>4, <1>5, <2>3, StandsJoined, Zenon
  <2>5. exp_golomb_ue(data, pos)[1] = chroma /\ exp_golomb_ue(data, pos)[2] = e1
    <3>1. GolombAt(data, pos, chroma, e1)
      BY <1>1, <1>2, <2>4, UeStands, Zenon
    <3> QED
      BY <3>1 DEF GolombAt
  <2>6. skip_bits(e1, IF chroma = 3 THEN 1 ELSE 0) = e2
    <3>1. CASE chroma = 3
      <4>1. Stands(data, e1, << 0 >>, e2)
        BY <1>2, <2>4, <3>1, Zenon
      <4>2. e2 = e1 + 1
        BY <1>0, <4>1, BitStands, Zenon
      <4> QED
        BY <3>1, <4>2 DEF skip_bits
    <3>2. CASE chroma # 3
      <4>1. Stands(data, e1, << >>, e2)
        BY <1>2, <2>4, <3>2, Zenon
      <4>2. e2 = e1
        BY <4>1, EmptyStands, Zenon
      <4> QED
        BY <3>2, <4>2 DEF skip_bits
    <3> QED
      BY <3>1, <3>2
  <2>7. AfterCodes(data, e2, 2) = e3
    <3>1. AfterAt(data, e2, 2, e3)
      BY <1>0, <1>2, <2>3, TwoCodes, Zenon
    <3> QED
      BY <3>1 DEF AfterAt
  <2>8. skip_bits(e3, 1) = e4
    <3>1. Stands(data, e3, << 0 >>, e4)
      BY <1>2, <2>2, Zenon
    <3>2. e4 = e3 + 1
      BY <1>0, <3>1, BitStands, Zenon
    <3> QED
      BY <3>2 DEF skip_bits
  <2>9. MatrixEnd(data, e4) = end
    BY <1>2, <2>1, MatrixStands, Zenon
  <2>10. HighProfile(data, pos) = MatrixEnd(data, e4)
    BY <2>5, <2>6, <2>7, <2>8, Zenon DEF HighProfile, MatrixEnd
  <2> QED
    BY <2>9, <2>10, Zenon DEF HighAt
<1> QED
  BY <1>6, <1>7, <1>8, Zenon

(* The order of the pictures. *)
LEMMA OneCode ==
  ASSUME NEW data, NEW pos, NEW v, NEW end, GolombAt(data, pos, v, end)
  PROVE  AfterAt(data, pos, 1, end)
<1> DEFINE place == [i \in 0 .. 1 |-> IF i = 0 THEN pos ELSE end]
<1>1. 1 \in Nat /\ 0 \in 0 .. 1 /\ 1 \in 0 .. 1 /\ 1 # 0
  OBVIOUS
<1>2. place[0] = pos /\ place[1] = end
  BY <1>1, Zenon
<1> HIDE DEF place
<1>3. exp_golomb_ue(data, pos)[2] = end
  BY DEF GolombAt
<1>4. \A i \in 1 .. 1 : i = 1 /\ i - 1 = 0
  OBVIOUS
<1>5. \A i \in 1 .. 1 : exp_golomb_ue(data, place[i - 1])[2] = place[i]
  BY <1>2, <1>3, <1>4, Zenon
<1>6. AfterAt(data, pos, 1, place[1])
  BY <1>1, <1>2, <1>5, AfterIs, Zenon
<1> QED
  BY <1>2, <1>6, Zenon

LEMMA SignedStepped ==
  ASSUME NEW s, NEW n \in Nat, DOMAIN s = 1 .. n,
         \A i \in 1 .. n : s[i] \in Int /\ Folded(s[i]) <= MaxCode,
         NEW data, NEW pos, NEW end, Stands(data, pos, SignedCodes(s), end)
  PROVE  AfterAt(data, pos, n, end)
<1>1. PICK F, c : Row(F, n, c) /\ F[n] = SignedCodes(s)
  BY SignedRow, Zenon
<1>2. Stands(data, pos, F[n], end)
  BY <1>1, Zenon
<1> QED
  BY <1>1, <1>2, RowStepped, Zenon

OrderFits(f) ==
  /\ f.orderType \in 0 .. 2
  /\ f.orderType = 1 =>
       \E n \in Nat : /\ n = Len(f.order) /\ DOMAIN f.order = 1 .. n /\ n <= 255
                      /\ \A i \in 1 .. n : f.order[i] \in Int /\ Folded(f.order[i]) <= MaxCode

OrderAt(data, start, end) == PicOrderCnt(data, start) = end

LEMMA OrderStands ==
  ASSUME NEW f, OrderFits(f)
  PROVE  /\ OrderFields(f) \in Bits
         /\ \A data, pos, mid, end :
              Stands(data, pos, Ue(f.orderType), mid) /\ Stands(data, mid, OrderFields(f), end)
                => OrderAt(data, pos, end)
<1>1. PICK type \in 0 .. 2 : type = f.orderType
  BY DEF OrderFits
<1>2. /\ type \in Nat /\ type <= MaxCode /\ 4 \in Nat /\ 4 <= MaxCode
      /\ 0 \in {0, 1} /\ 2 \in Nat /\ 0 # 1 /\ 0 # 2 /\ 1 # 2
  <2>1. 4 <= MaxCode
    BY SMT DEF MaxCode
  <2>2. type \in Nat /\ type <= 4
    OBVIOUS
  <2> QED
    BY <2>1, <2>2, LimitTypes
<1>3. ASSUME NEW data, NEW pos, NEW mid, Stands(data, pos, Ue(f.orderType), mid)
      PROVE  exp_golomb_ue(data, pos)[1] = type /\ exp_golomb_ue(data, pos)[2] = mid
  <2>1. GolombAt(data, pos, type, mid)
    BY <1>1, <1>2, <1>3, UeStands, Zenon
  <2> QED
    BY <2>1 DEF GolombAt
<1>4. CASE type = 0
  <2>1. OrderFields(f) = Ue(4)
    BY <1>1, <1>4 DEF OrderFields
  <2>2. Ue(4) \in Bits
    BY <1>2, UeIs
  <2>3. ASSUME NEW data, NEW pos, NEW mid, NEW end, Stands(data, pos, Ue(f.orderType), mid),
               Stands(data, mid, OrderFields(f), end)
        PROVE  OrderAt(data, pos, end)
    <3>1. Stands(data, mid, Ue(4), end)
      BY <2>1, <2>3, Zenon
    <3>2. GolombAt(data, mid, 4, end)
      BY <1>2, <3>1, UeStands, Zenon
    <3>3. AfterCodes(data, mid, 1) = end
      BY <3>2, OneCode, Zenon DEF AfterAt
    <3>4. exp_golomb_ue(data, pos)[1] = 0 /\ exp_golomb_ue(data, pos)[2] = mid
      BY <1>3, <1>4, <2>3, Zenon
    <3>5. PicOrderCnt(data, pos) = AfterCodes(data, mid, 1)
      BY <3>4 DEF PicOrderCnt
    <3> QED
      BY <3>3, <3>5, Zenon DEF OrderAt
  <2> QED
    BY <2>1, <2>2, <2>3, Zenon
<1>5. CASE type = 2
  <2>1. OrderFields(f) = << >>
    BY <1>1, <1>5 DEF OrderFields
  <2>2. ASSUME NEW data, NEW pos, NEW mid, NEW end, Stands(data, pos, Ue(f.orderType), mid),
               Stands(data, mid, OrderFields(f), end)
        PROVE  OrderAt(data, pos, end)
    <3>1. Stands(data, mid, << >>, end)
      BY <2>1, <2>2, Zenon
    <3>2. end = mid
      BY <3>1, EmptyStands, Zenon
    <3>3. exp_golomb_ue(data, pos)[1] = 2 /\ exp_golomb_ue(data, pos)[2] = mid
      BY <1>3, <1>5, <2>2, Zenon
    <3>4. PicOrderCnt(data, pos) = mid
      BY <3>3 DEF PicOrderCnt
    <3> QED
      BY <3>2, <3>4, Zenon DEF OrderAt
  <2> QED
    BY <2>1, <2>2, BitsAre, Zenon
<1>6. CASE type = 1
  <2>1. PICK n \in Nat :
          /\ n = Len(f.order) /\ DOMAIN f.order = 1 .. n /\ n <= 255
          /\ \A i \in 1 .. n : f.order[i] \in Int /\ Folded(f.order[i]) <= MaxCode
    BY <1>1, <1>6, Zenon DEF OrderFits
  <2>2. n <= MaxCode
    <3>1. 255 <= MaxCode
      BY SMT DEF MaxCode
    <3> QED
      BY <2>1, <3>1, LimitTypes
  <2>3. PICK two : two = << -1, 2 >>
    OBVIOUS
  <2>4. DOMAIN two = 1 .. 2 /\ \A i \in 1 .. 2 : two[i] \in Int /\ Folded(two[i]) <= MaxCode
    <3>1. DOMAIN two = 1 .. 2 /\ \A i \in 1 .. 2 : two[i] \in -128 .. 127
      BY <2>3
    <3>2. \A x \in -128 .. 127 : x \in Int /\ Folded(x) <= MaxCode
      BY SmallFolded
    <3> QED
      BY <3>1, <3>2, Zenon
  <2>5. PICK p1, p2, p3, p4 : /\ p1 = << 0 >> /\ p2 = SignedCodes(two)
                              /\ p3 = Ue(n) /\ p4 = SignedCodes(f.order)
    OBVIOUS
  <2>6. p1 \in Bits /\ p2 \in Bits /\ p3 \in Bits /\ p4 \in Bits
    <3>1. p1 \in Bits
      BY <1>2, <2>5, BitsAre, Zenon
    <3>2. p2 \in Bits
      BY <1>2, <2>4, <2>5, SignedCodesAreBits, Zenon
    <3>3. p3 \in Bits
      BY <2>2, <2>5, UeIs, Zenon
    <3>4. p4 \in Bits
      BY <2>1, <2>5, SignedCodesAreBits, Zenon
    <3> QED
      BY <3>1, <3>2, <3>3, <3>4
  <2>7. PICK s2, s3, s4 : s2 = p1 \o p2 /\ s3 = s2 \o p3 /\ s4 = s3 \o p4
    OBVIOUS
  <2>8. s2 \in Bits /\ s3 \in Bits /\ s4 \in Bits
    BY <2>6, <2>7, Joined, Zenon DEF Bits
  <2>9. OrderFields(f) = s4
    <3>1. f.orderType = 1
      BY <1>1, <1>6
    <3>2. OrderFields(f) = << 0 >> \o SignedCodes(<< -1, 2 >>)
                             \o Ue(Len(f.order)) \o SignedCodes(f.order)
      BY <3>1 DEF OrderFields
    <3> QED
      BY <2>1, <2>3, <2>5, <2>7, <3>2, Zenon
  <2>10. ASSUME NEW data, NEW pos, NEW mid, NEW end, Stands(data, pos, Ue(f.orderType), mid),
                Stands(data, mid, OrderFields(f), end)
         PROVE  OrderAt(data, pos, end)
    <3>1. Stands(data, mid, s4, end)
      BY <2>9, <2>10, Zenon
    <3>2. PICK e3 \in Nat : Stands(data, mid, s3, e3) /\ Stands(data, e3, p4, end)
      BY <2>6, <2>7, <2>8, <3>1, StandsJoined, Zenon
    <3>3. PICK e2 \in Nat : Stands(data, mid, s2, e2) /\ Stands(data, e2, p3, e3)
      BY <2>6, <2>7, <2>8, <3>2, StandsJoined, Zenon
    <3>4. PICK e1 \in Nat : Stands(data, mid, p1, e1) /\ Stands(data, e1, p2, e2)
      BY <2>6, <2>7, <2>8, <3>3, StandsJoined, Zenon
    <3>5. exp_golomb_ue(data, pos)[1] = 1 /\ exp_golomb_ue(data, pos)[2] = mid
      BY <1>3, <1>6, <2>10, Zenon
    <3>6. skip_bits(mid, 1) = e1
      <4>1. Stands(data, mid, << 0 >>, e1)
        BY <2>5, <3>4, Zenon
      <4>2. e1 = mid + 1
        BY <1>2, <4>1, BitStands, Zenon
      <4> QED
        BY <4>2 DEF skip_bits
    <3>7. AfterCodes(data, e1, 2) = e2
      <4>1. Stands(data, e1, SignedCodes(two), e2)
        BY <2>5, <3>4, Zenon
      <4>2. AfterAt(data, e1, 2, e2)
        BY <1>2, <2>4, <4>1, SignedStepped, Zenon
      <4> QED
        BY <4>2 DEF AfterAt
    <3>8. exp_golomb_ue(data, e2)[1] = n /\ exp_golomb_ue(data, e2)[2] = e3
      <4>1. Stands(data, e2, Ue(n), e3)
        BY <2>5, <3>3, Zenon
      <4>2. GolombAt(data, e2, n, e3)
        BY <2>2, <4>1, UeStands, Zenon
      <4> QED
        BY <4>2 DEF GolombAt
    <3>9. AfterCodes(data, e3, n) = end
      <4>1. Stands(data, e3, SignedCodes(f.order), end)
        BY <2>5, <3>2, Zenon
      <4>2. AfterAt(data, e3, n, end)
        BY <2>1, <4>1, SignedStepped, Zenon
      <4> QED
        BY <4>2 DEF AfterAt
    <3>10. PicOrderCnt(data, pos) = AfterCodes(data, e3, n)
      <4>1. PICK type1 : type1 = exp_golomb_ue(data, pos)
        OBVIOUS
      <4>2. PICK size1 : size1 = exp_golomb_ue(data, AfterCodes(data, skip_bits(type1[2], 1), 2))
        OBVIOUS
      <4>3. PicOrderCnt(data, pos) = CASE type1[1] = 0 -> AfterCodes(data, type1[2], 1)
                                       [] type1[1] = 1 -> AfterCodes(data, size1[2], size1[1])
                                       [] OTHER -> type1[2]
        BY <4>1, <4>2, Zenon DEF PicOrderCnt
      <4>4. type1[1] = 1 /\ type1[2] = mid
        BY <3>5, <4>1, Zenon
      <4>5. size1[1] = n /\ size1[2] = e3
        BY <3>6, <3>7, <3>8, <4>2, <4>4, Zenon
      <4> QED
        BY <4>3, <4>4, <4>5
    <3> QED
      BY <3>9, <3>10, Zenon DEF OrderAt
  <2> QED
    BY <2>8, <2>9, <2>10, Zenon
<1> QED
  BY <1>4, <1>5, <1>6

(* What is cropped. *)
CropFits(crop) ==
  crop = << >> \/ (DOMAIN crop = 1 .. 4 /\ \A i \in 1 .. 4 : crop[i] \in Nat /\ crop[i] <= MaxCode)

CropCode(crop, i) == IF crop = << >> THEN 0 ELSE crop[i]

CropAt(data, start, frameMbsOnly, crop, end) ==
  /\ Cropping(data, start, frameMbsOnly).end = end
  /\ \A i \in 1 .. 4 : Cropping(data, start, frameMbsOnly).sides[i]
                         = Cropped(i, CropCode(crop, i), frameMbsOnly)

LEMMA CropStands ==
  ASSUME NEW f, CropFits(f.crop)
  PROVE  /\ CropFields(f) \in Bits
         /\ \A data, pos, end : \A frameMbsOnly \in {0, 1} :
              Stands(data, pos, CropFields(f), end)
                => CropAt(data, pos, frameMbsOnly, f.crop, end)
<1>0. 0 \in {0, 1} /\ 1 \in {0, 1} /\ 0 # 1 /\ 4 \in Nat
  OBVIOUS
<1>1. CASE f.crop = << >>
  <2>1. CropFields(f) = << 0 >>
    BY <1>1 DEF CropFields
  <2>2. ASSUME NEW data, NEW pos, NEW end, NEW m \in {0, 1}, Stands(data, pos, CropFields(f), end)
        PROVE  CropAt(data, pos, m, f.crop, end)
    <3>1. Stands(data, pos, << 0 >>, end)
      BY <2>1, <2>2, Zenon
    <3>2. get_bit(data, pos)[1] = 0 /\ get_bit(data, pos)[2] = end
      BY <1>0, <3>1, BitStands, Zenon
    <3>3. Cropping(data, pos, m) = [sides |-> << 0, 0, 0, 0 >>, end |-> end]
      BY <3>2, Zenon DEF Cropping
    <3>4. PICK it : it = Cropping(data, pos, m)
      OBVIOUS
    <3>5. it.end = end /\ it.sides = << 0, 0, 0, 0 >>
      BY <3>3, <3>4
    <3>6. \A i \in 1 .. 4 : it.sides[i] = 0
      BY <3>5
    <3>7. ASSUME NEW i \in 1 .. 4 PROVE Cropped(i, CropCode(f.crop, i), m) = 0
      <4>1. CropCode(f.crop, i) = 0
        BY <1>1 DEF CropCode
      <4>2. Cropped(i, 0, m) = 0
        BY DEF Cropped
      <4> QED
        BY <4>1, <4>2
    <3> QED
      BY <3>4, <3>5, <3>6, <3>7, Zenon DEF CropAt
  <2> QED
    BY <1>0, <2>1, <2>2, BitsAre, Zenon
<1>2. CASE f.crop # << >>
  <2>1. PICK s : /\ s = f.crop /\ DOMAIN s = 1 .. 4
                 /\ \A i \in 1 .. 4 : s[i] \in Nat /\ s[i] <= MaxCode
    BY <1>2, Zenon DEF CropFits
  <2>2. CropFields(f) = << 1 >> \o Codes(s)
    BY <1>2, <2>1, Zenon DEF CropFields
  <2>3. << 1 >> \in Bits /\ Codes(s) \in Bits
    BY <1>0, <2>1, BitsAre, CodesAreBits, Zenon
  <2>4. CropFields(f) \in Bits
    <3>1. PICK p, r : p = << 1 >> /\ r = Codes(s)
      OBVIOUS
    <3>2. p \o r \in Bits
      BY <2>3, <3>1, Joined, Zenon DEF Bits
    <3> QED
      BY <2>2, <3>1, <3>2
  <2>5. PICK F : Row(F, 4, s) /\ F[4] = Codes(s)
    BY <1>0, <2>1, CodesRow, Zenon
  <2>6. ASSUME NEW data, NEW pos, NEW end, NEW m \in {0, 1}, Stands(data, pos, CropFields(f), end)
        PROVE  CropAt(data, pos, m, f.crop, end)
    <3>1. Stands(data, pos, << 1 >> \o Codes(s), end)
      BY <2>2, <2>6, Zenon
    <3>2. PICK mid \in Nat : Stands(data, pos, << 1 >>, mid) /\ Stands(data, mid, Codes(s), end)
      BY <2>3, <3>1, StandsJoined, Zenon
    <3>3. get_bit(data, pos)[1] = 1 /\ get_bit(data, pos)[2] = mid
      BY <1>0, <3>2, BitStands, Zenon
    <3>4. Stands(data, mid, F[4], end)
      BY <2>5, <3>2, Zenon
    <3>5. PICK place : CodePlaces(place, data, mid, 4, s, end)
      BY <1>0, <2>5, <3>4, RowPlaces, Zenon
    <3>6. /\ place[0] = mid /\ place[4] = end
          /\ \A i \in 1 .. 4 : Stands(data, place[i - 1], Ue(s[i]), place[i])
      BY <3>5, Zenon DEF CodePlaces
    <3>7. ASSUME NEW i \in 1 .. 4
          PROVE  /\ exp_golomb_ue(data, place[i - 1])[1] = s[i]
                 /\ exp_golomb_ue(data, place[i - 1])[2] = place[i]
      <4>1. GolombAt(data, place[i - 1], s[i], place[i])
        BY <2>1, <3>6, UeStands, Zenon
      <4> QED
        BY <4>1 DEF GolombAt
    <3>8. ASSUME NEW i \in 1 .. 4 PROVE AfterCodes(data, mid, i - 1) = place[i - 1]
      <4>1. PICK k \in Nat : k = i - 1 /\ \A j \in 1 .. k : j \in 1 .. 4
        OBVIOUS
      <4>2. \A j \in 1 .. k : exp_golomb_ue(data, place[j - 1])[2] = place[j]
        BY <3>7, <4>1, Zenon
      <4>3. AfterAt(data, mid, k, place[k])
        BY <3>6, <4>2, AfterIs, Zenon
      <4> QED
        BY <4>1, <4>3 DEF AfterAt
    <3> DEFINE code(i) == exp_golomb_ue(data, AfterCodes(data, mid, i - 1))
    <3>9. \A i \in 1 .. 4 : code(i)[1] = s[i] /\ code(i)[2] = place[i]
      BY <3>7, <3>8, Zenon
    <3>10. Cropping(data, pos, m)
             = [sides |-> [i \in 1 .. 4 |-> Cropped(i, code(i)[1], m)], end |-> code(4)[2]]
      BY <1>0, <3>3, Zenon DEF Cropping
    <3> HIDE DEF code
    <3>11. PICK it : it = Cropping(data, pos, m)
      OBVIOUS
    <3>12. it.end = code(4)[2] /\ it.sides = [i \in 1 .. 4 |-> Cropped(i, code(i)[1], m)]
      BY <3>10, <3>11
    <3>13. it.end = end
      <4>1. 4 \in 1 .. 4
        OBVIOUS
      <4> QED
        BY <3>6, <3>9, <3>12, <4>1, Zenon
    <3>14. ASSUME NEW i \in 1 .. 4 PROVE it.sides[i] = Cropped(i, CropCode(f.crop, i), m)
      <4>1. it.sides[i] = Cropped(i, code(i)[1], m)
        BY <3>12, Zenon
      <4>2. CropCode(f.crop, i) = s[i]
        BY <1>2, <2>1, Zenon DEF CropCode
      <4> QED
        BY <3>9, <4>1, <4>2, Zenon
    <3> QED
      BY <3>11, <3>13, <3>14, Zenon DEF CropAt
  <2> QED
    BY <2>4, <2>6, Zenon
<1> QED
  BY <1>1, <1>2

LEMMA CropStandsAt ==
  ASSUME NEW f, CropFits(f.crop), NEW m \in {0, 1},
         NEW data, NEW pos, NEW end, Stands(data, pos, CropFields(f), end)
  PROVE  CropAt(data, pos, m, f.crop, end)
BY CropStands, Zenon

(* What the fields of a set may be. *)
LEMMA FoldedLimit ==
  ASSUME NEW n \in Int, -(MaxCode \div 2) <= n, n <= MaxCode \div 2
  PROVE  Folded(n) <= MaxCode
<1>1. PICK m \in Nat : m = MaxCode
  BY LimitTypes
<1>2. PICK k \in Nat : k = m \div 2 /\ 2 * k <= m
  BY SMT
<1>3. -k <= n /\ n <= k
  BY <1>1, <1>2
<1>4. (IF n > 0 THEN 2 * n - 1 ELSE -(2 * n)) <= m
  BY <1>2, <1>3
<1> QED
  BY <1>1, <1>4 DEF Folded

LEMMA SpsTypes ==
  ASSUME NEW f, IsSps(f)
  PROVE  /\ f.profile \in PlainProfiles \cup HighProfiles /\ f.chroma \in 0 .. 3
         /\ AnyLists(f.lists) /\ OrderFits(f) /\ CropFits(f.crop)
         /\ f.frameMbsOnly \in {0, 1}
         /\ f.widthMbs \in Nat \ {0} /\ f.widthMbs <= MaxCode
         /\ f.heightUnits \in Nat \ {0} /\ f.heightUnits <= MaxCode
<1>1. f.profile \in PlainProfiles \cup HighProfiles /\ f.chroma \in 0 .. 3
  BY Zenon DEF IsSps
<1>2. AnyLists(f.lists)
  <2> SUFFICES ASSUME f.lists # << >> PROVE ListsFit(f.lists)
    BY Zenon DEF AnyLists
  <2>1. /\ f.lists \in Seq(Seq(-128 .. 127)) /\ Len(f.lists) = 8
        /\ \A i \in 1 .. 8 :
             f.lists[i] = << >> \/ IsScalingList(f.lists[i], IF i <= 6 THEN 16 ELSE 64)
    BY Zenon DEF IsSps
  <2>2. DOMAIN f.lists = 1 .. 8
    BY <2>1, LenProperties
  <2> QED
    BY <2>1, <2>2, Zenon DEF ListsFit, ListFits
<1>3. OrderFits(f)
  <2>1. PICK lo, hi : lo = -MaxCode \div 2 /\ hi = MaxCode \div 2
    OBVIOUS
  <2>2. f.orderType \in 0 .. 2 /\ f.order \in Seq(lo .. hi) /\ Len(f.order) \in 0 .. 255
    BY <2>1, Zenon DEF IsSps
  <2>3. PICK n \in Nat : n = Len(f.order)
    BY <2>2, LenProperties
  <2>4. n <= 255 /\ DOMAIN f.order = 1 .. n
    <3>1. DOMAIN f.order = 1 .. n
      BY <2>2, <2>3, LenProperties, Zenon
    <3>2. n \in 0 .. 255
      BY <2>2, <2>3, Zenon
    <3> QED
      BY <3>1, <3>2
  <2>5. ASSUME NEW i \in 1 .. n PROVE f.order[i] \in Int /\ Folded(f.order[i]) <= MaxCode
    <3>1. \A j \in 1 .. Len(f.order) : f.order[j] \in lo .. hi
      BY <2>2, ElementOfSeq, Zenon
    <3>2. f.order[i] \in lo .. hi
      BY <2>3, <3>1, Zenon
    <3>3. PICK m \in Nat : m = MaxCode
      BY LimitTypes
    <3>4. lo \in Int /\ hi \in Int
      BY <2>1, <3>3
    <3>5. f.order[i] \in Int /\ lo <= f.order[i] /\ f.order[i] <= hi
      BY <3>2, <3>4, Between, Zenon
    <3>6. MaxCode = 2 * (MaxCode \div 2) /\ MaxCode \div 2 = 1073741823
          /\ -MaxCode \div 2 = -1073741823
      BY SMT DEF MaxCode
    <3>7. lo = -(MaxCode \div 2)
      BY <2>1, <3>6, SMT
    <3> QED
      BY <2>1, <3>5, <3>7, FoldedLimit, Zenon
  <2> QED
    BY <2>2, <2>3, <2>4, <2>5, Zenon DEF OrderFits
<1>4. CropFits(f.crop)
  <2> SUFFICES ASSUME f.crop # << >>
               PROVE  DOMAIN f.crop = 1 .. 4 /\ \A i \in 1 .. 4 : f.crop[i] \in Nat /\ f.crop[i] <= MaxCode
    BY Zenon DEF CropFits
  <2>1. PICK hi : hi = MaxCode \div 8
    OBVIOUS
  <2>2. f.crop \in [1 .. 4 -> 0 .. hi]
    BY <2>1, Zenon DEF IsSps
  <2>3. PICK m \in Nat : m = MaxCode
    BY LimitTypes
  <2>4. hi \in Nat /\ hi <= m
    BY <2>1, <2>3
  <2>5. ASSUME NEW i \in 1 .. 4 PROVE f.crop[i] \in Nat /\ f.crop[i] <= MaxCode
    <3>1. f.crop[i] \in 0 .. hi
      BY <2>2, Zenon
    <3> QED
      BY <2>3, <2>4, <3>1
  <2> QED
    BY <2>2, <2>5, Zenon
<1>5. PICK m \in Nat : m = MaxCode
  BY LimitTypes
<1>6. f.widthMbs \in Nat \ {0} /\ f.widthMbs <= MaxCode
  <2>1. PICK hi : hi = MaxCode \div 16
    OBVIOUS
  <2>2. f.widthMbs \in 1 .. hi
    BY <2>1, Zenon DEF IsSps
  <2>3. hi \in Nat /\ hi <= m
    BY <1>5, <2>1
  <2> QED
    BY <1>5, <2>2, <2>3
<1>7. f.heightUnits \in Nat \ {0} /\ f.heightUnits <= MaxCode
  <2>1. PICK hi : hi = MaxCode \div 32
    OBVIOUS
  <2>2. f.heightUnits \in 1 .. hi
    BY <2>1, Zenon DEF IsSps
  <2>3. hi \in Nat /\ hi <= m
    BY <1>5, <2>1
  <2> QED
    BY <1>5, <2>2, <2>3
<1>8. f.frameMbsOnly \in {0, 1}
  BY Zenon DEF IsSps
<1> QED
  BY <1>1, <1>2, <1>3, <1>4, <1>6, <1>7, <1>8

LEMMA HighStands ==
  ASSUME NEW f, f.profile \in PlainProfiles \cup HighProfiles, f.chroma \in 0 .. 3,
         AnyLists(f.lists)
  PROVE  /\ HighFields(f) \in Bits
         /\ \A data, pos, end : Stands(data, pos, HighFields(f), end) =>
              (IF f.profile \in HighProfiles THEN HighProfile(data, pos) ELSE pos) = end
<1>1. CASE f.profile \in PlainProfiles
  <2>1. HighFields(f) = << >>
    BY <1>1, Zenon DEF HighFields
  <2>2. f.profile \notin HighProfiles
    BY <1>1 DEF PlainProfiles, HighProfiles
  <2>3. HighFields(f) \in Bits
    BY <2>1, BitsAre, Zenon
  <2>4. ASSUME NEW data, NEW pos, NEW end, Stands(data, pos, HighFields(f), end)
        PROVE  (IF f.profile \in HighProfiles THEN HighProfile(data, pos) ELSE pos) = end
    <3>1. Stands(data, pos, << >>, end)
      BY <2>1, <2>4, Zenon
    <3>2. end = pos
      BY <3>1, EmptyStands, Zenon
    <3> QED
      BY <2>2, <3>2, Zenon
  <2> QED
    BY <2>3, <2>4
<1>2. CASE f.profile \notin PlainProfiles
  <2>1. ScalingLists(f) = MatrixBits(f.lists)
    BY Zenon DEF ScalingLists, MatrixBits, ListsBits, FoldLeft, MapThenFoldSet
  <2>2. HighFields(f) = FieldsBits(f)
    BY <1>2, <2>1, Zenon DEF HighFields, FieldsBits
  <2>3. f.profile \in HighProfiles
    BY <1>2
  <2> QED
    BY <2>2, <2>3, FieldsStand, Zenon DEF HighAt
<1> QED
  BY <1>1, <1>2

HighEnd(f, data, pos, end) ==
  (IF f.profile \in HighProfiles THEN HighProfile(data, pos) ELSE pos) = end

LEMMA HighStandsAt ==
  ASSUME NEW f, f.profile \in PlainProfiles \cup HighProfiles, f.chroma \in 0 .. 3,
         AnyLists(f.lists),
         NEW data, NEW pos, NEW end, Stands(data, pos, HighFields(f), end)
  PROVE  HighEnd(f, data, pos, end)
BY HighStands, Zenon DEF HighEnd

(* The size of the picture and the end of the set, as the format says.     *)
SpsReadAs(f, r) ==
  /\ r.width = 16 * f.widthMbs - 2 * (CropCode(f.crop, 1) + CropCode(f.crop, 2))
  /\ f.frameMbsOnly = 1 \/ CropCode(f.crop, 3) + CropCode(f.crop, 4) = 0 =>
       r.height = 16 * (2 - f.frameMbsOnly) * f.heightUnits
                    - 2 * (2 - f.frameMbsOnly) * (CropCode(f.crop, 3) + CropCode(f.crop, 4))
  /\ r.end = Len(SpsBits(f))

(* The size that is made of the numbers read. *)
SizeRight(w, h, m, c, side) ==
  /\ ((w - 1) + 1) * 16 - (side[1] + side[2]) = 16 * w - 2 * (c[1] + c[2])
  /\ m = 1 \/ c[3] + c[4] = 0 =>
       (((h - 1) + 1) * 16 - (side[3] + side[4])) * (IF m = 1 THEN 1 ELSE 2)
         = 16 * (2 - m) * h - 2 * (2 - m) * (c[3] + c[4])

LEMMA SizeIs ==
  ASSUME NEW w \in Nat, NEW h \in Nat, NEW m \in {0, 1}, NEW c, NEW side,
         \A i \in 1 .. 4 : c[i] \in Nat /\ side[i] = Cropped(i, c[i], m)
  PROVE  SizeRight(w, h, m, c, side)
<1>1. PICK c1 \in Nat, c2 \in Nat, c3 \in Nat, c4 \in Nat :
        c1 = c[1] /\ c2 = c[2] /\ c3 = c[3] /\ c4 = c[4]
  OBVIOUS
<1>2. side[1] = 2 * c1 /\ side[2] = 2 * c2
  BY <1>1 DEF Cropped
<1>3. CASE m = 1
  <2>1. side[3] = 2 * c3 /\ side[4] = 2 * c4
    BY <1>1, <1>3 DEF Cropped
  <2> QED
    BY <1>1, <1>2, <1>3, <2>1 DEF SizeRight
<1>4. CASE m = 0
  <2>1. side[3] = 4 * c3 /\ side[4] = 4 * c4
    BY <1>1, <1>4 DEF Cropped
  <2> QED
    BY <1>1, <1>2, <1>4, <2>1 DEF SizeRight
<1> QED
  BY <1>3, <1>4

LEMMA SpsRead ==
  ASSUME NEW f, IsSps(f)
  PROVE  SpsReadAs(f, H264ParseSps(SpsBits(f)))
<1>1. /\ f.profile \in PlainProfiles \cup HighProfiles /\ f.chroma \in 0 .. 3
      /\ AnyLists(f.lists) /\ OrderFits(f) /\ CropFits(f.crop)
      /\ f.frameMbsOnly \in {0, 1}
      /\ f.widthMbs \in Nat \ {0} /\ f.widthMbs <= MaxCode
      /\ f.heightUnits \in Nat \ {0} /\ f.heightUnits <= MaxCode
  BY SpsTypes, Zenon
<1>2. PICK profile \in Nat, w \in Nat, h \in Nat, m \in {0, 1}, type \in Nat :
        /\ profile = f.profile /\ profile < 256
        /\ w = f.widthMbs - 1 /\ w <= MaxCode /\ h = f.heightUnits - 1 /\ h <= MaxCode
        /\ m = f.frameMbsOnly /\ type = f.orderType /\ type <= 2
  <2>1. \A x \in PlainProfiles \cup HighProfiles : x \in Nat /\ x < 256
    BY DEF PlainProfiles, HighProfiles
  <2>2. f.widthMbs - 1 \in Nat /\ f.widthMbs - 1 <= MaxCode
    BY <1>1, LimitTypes
  <2>3. f.heightUnits - 1 \in Nat /\ f.heightUnits - 1 <= MaxCode
    BY <1>1, LimitTypes
  <2>4. f.orderType \in 0 .. 2
    BY <1>1 DEF OrderFits
  <2> QED
    BY <1>1, <2>1, <2>2, <2>3, <2>4
<1> PICK byte : byte[1] = 103 /\ byte[2] = 31
  <2>1. << 103, 31 >>[1] = 103 /\ << 103, 31 >>[2] = 31
    OBVIOUS
  <2> QED
    BY <2>1
<1>3. /\ 0 \in Nat /\ 0 <= MaxCode /\ 2 \in Nat /\ 2 <= MaxCode /\ type <= MaxCode
      /\ 0 \in {0, 1} /\ 1 \in {0, 1} /\ 8 \in 0 .. 32
      /\ byte[1] \in Nat /\ byte[1] < Pow[8] /\ 0 < Pow[8]
      /\ byte[2] \in Nat /\ byte[2] < Pow[8] /\ profile < Pow[8]
  <2>1. 2 <= MaxCode
    BY SMT DEF MaxCode
  <2> QED
    BY <1>2, <2>1, LimitTypes, PowSmall
<1>4. PICK p1, p2, p3, p4, p5, p6, p7, p8, p9 :
        /\ p1 = Binary(byte[1], 8) /\ p2 = Binary(profile, 8) /\ p3 = Binary(0, 8)
        /\ p4 = Binary(byte[2], 8) /\ p5 = Ue(0) /\ p6 = HighFields(f) /\ p7 = Ue(0)
        /\ p8 = Ue(type) /\ p9 = OrderFields(f)
  OBVIOUS
<1>5. PICK p10, p11, p12, p13, p14, p15, p16, p17 :
        /\ p10 = Ue(2) /\ p11 = << 0 >> /\ p12 = Ue(w) /\ p13 = Ue(h) /\ p14 = << m >>
        /\ p15 = (IF m = 1 THEN << >> ELSE << 0 >>) /\ p16 = << 1 >> /\ p17 = CropFields(f)
  OBVIOUS
<1>6. p1 \in Bits /\ p2 \in Bits /\ p3 \in Bits /\ p4 \in Bits
  BY <1>3, <1>4, BinaryIs, Zenon
<1>7. p5 \in Bits /\ p6 \in Bits /\ p7 \in Bits /\ p8 \in Bits /\ p9 \in Bits
  BY <1>1, <1>3, <1>4, UeIs, HighStands, OrderStands, Zenon
<1>8. p10 \in Bits /\ p12 \in Bits /\ p13 \in Bits /\ p17 \in Bits
  BY <1>1, <1>2, <1>3, <1>5, UeIs, CropStands, Zenon
<1>9. p11 \in Bits /\ p14 \in Bits /\ p15 \in Bits /\ p16 \in Bits
  <2>1. << >> \in Bits /\ << 0 >> \in Bits /\ << 1 >> \in Bits /\ << m >> \in Bits
    BY <1>3, BitsAre, Zenon
  <2> QED
    BY <1>5, <2>1, Zenon
<1>10. PICK s2, s3, s4, s5, s6, s7, s8, s9 :
         /\ s2 = p1 \o p2 /\ s3 = s2 \o p3 /\ s4 = s3 \o p4 /\ s5 = s4 \o p5
         /\ s6 = s5 \o p6 /\ s7 = s6 \o p7 /\ s8 = s7 \o p8 /\ s9 = s8 \o p9
  OBVIOUS
<1>11. PICK s10, s11, s12, s13, s14, s15, s16, s17 :
         /\ s10 = s9 \o p10 /\ s11 = s10 \o p11 /\ s12 = s11 \o p12 /\ s13 = s12 \o p13
         /\ s14 = s13 \o p14 /\ s15 = s14 \o p15 /\ s16 = s15 \o p16 /\ s17 = s16 \o p17
  OBVIOUS
<1>12. SpsBits(f) = s17
  BY <1>2, <1>4, <1>5, <1>10, <1>11, Zenon DEF SpsBits
<1> DEFINE Both(s, t) == s \in Bits /\ t \in Bits => s \o t \in Bits
<1>13. \A s, t : Both(s, t)
  <2>1. ASSUME NEW s \in Bits, NEW t \in Bits PROVE s \o t \in Bits
    BY Joined, Zenon DEF Bits
  <2> QED
    BY <2>1
<1>14. /\ s2 \in Bits /\ s3 \in Bits /\ s4 \in Bits /\ s5 \in Bits
       /\ s6 \in Bits /\ s7 \in Bits /\ s8 \in Bits /\ s9 \in Bits
  BY <1>6, <1>7, <1>10, <1>13
<1>15. /\ s10 \in Bits /\ s11 \in Bits /\ s12 \in Bits /\ s13 \in Bits
       /\ s14 \in Bits /\ s15 \in Bits /\ s16 \in Bits /\ s17 \in Bits
  BY <1>8, <1>9, <1>11, <1>13, <1>14
<1> HIDE DEF Both
<1>16. PICK D, end : D = s17 /\ end = Len(s17) /\ Stands(D, 0, s17, end)
  BY <1>15, StandsWhole
<1>17. PICK e16 \in Nat : Stands(D, 0, s16, e16) /\ Stands(D, e16, p17, end)
  BY <1>8, <1>11, <1>15, <1>16, StandsJoined, Zenon
<1>18. PICK e15 \in Nat : Stands(D, 0, s15, e15) /\ Stands(D, e15, p16, e16)
  BY <1>9, <1>11, <1>15, <1>17, StandsJoined, Zenon
<1>19. PICK e14 \in Nat : Stands(D, 0, s14, e14) /\ Stands(D, e14, p15, e15)
  BY <1>9, <1>11, <1>15, <1>18, StandsJoined, Zenon
<1>20. PICK e13 \in Nat : Stands(D, 0, s13, e13) /\ Stands(D, e13, p14, e14)
  BY <1>9, <1>11, <1>15, <1>19, StandsJoined, Zenon
<1>21. PICK e12 \in Nat : Stands(D, 0, s12, e12) /\ Stands(D, e12, p13, e13)
  BY <1>8, <1>11, <1>15, <1>20, StandsJoined, Zenon
<1>22. PICK e11 \in Nat : Stands(D, 0, s11, e11) /\ Stands(D, e11, p12, e12)
  BY <1>8, <1>11, <1>15, <1>21, StandsJoined, Zenon
<1>23. PICK e10 \in Nat : Stands(D, 0, s10, e10) /\ Stands(D, e10, p11, e11)
  BY <1>9, <1>11, <1>15, <1>22, StandsJoined, Zenon
<1>24. PICK e9 \in Nat : Stands(D, 0, s9, e9) /\ Stands(D, e9, p10, e10)
  BY <1>8, <1>11, <1>14, <1>23, StandsJoined, Zenon
<1>25. PICK e8 \in Nat : Stands(D, 0, s8, e8) /\ Stands(D, e8, p9, e9)
  BY <1>7, <1>10, <1>14, <1>24, StandsJoined, Zenon
<1>26. PICK e7 \in Nat : Stands(D, 0, s7, e7) /\ Stands(D, e7, p8, e8)
  BY <1>7, <1>10, <1>14, <1>25, StandsJoined, Zenon
<1>27. PICK e6 \in Nat : Stands(D, 0, s6, e6) /\ Stands(D, e6, p7, e7)
  BY <1>7, <1>10, <1>14, <1>26, StandsJoined, Zenon
<1>28. PICK e5 \in Nat : Stands(D, 0, s5, e5) /\ Stands(D, e5, p6, e6)
  BY <1>7, <1>10, <1>14, <1>27, StandsJoined, Zenon
<1>29. PICK e4 \in Nat : Stands(D, 0, s4, e4) /\ Stands(D, e4, p5, e5)
  BY <1>7, <1>10, <1>14, <1>28, StandsJoined, Zenon
<1>30. PICK e3 \in Nat : Stands(D, 0, s3, e3) /\ Stands(D, e3, p4, e4)
  BY <1>6, <1>10, <1>14, <1>29, StandsJoined, Zenon
<1>31. PICK e2 \in Nat : Stands(D, 0, s2, e2) /\ Stands(D, e2, p3, e3)
  BY <1>6, <1>10, <1>14, <1>30, StandsJoined, Zenon
<1>32. PICK e1 \in Nat : Stands(D, 0, p1, e1) /\ Stands(D, e1, p2, e2)
  BY <1>6, <1>10, <1>14, <1>31, StandsJoined, Zenon
<1>33. ByteReadAt(D, 0, byte[1], e1) /\ ByteReadAt(D, e1, profile, e2)
  BY <1>3, <1>4, <1>32, ByteStands, Zenon
<1>34. get_bits(D, e1, 8)[1] = profile /\ get_bits(D, e1, 8)[2] = e2 /\ skip_bits(0, 8) = e1
  BY <1>33, Zenon DEF ByteReadAt
<1>35. skip_bits(e2, 16) = e4
  <2>1. ByteReadAt(D, e2, 0, e3) /\ ByteReadAt(D, e3, byte[2], e4)
    BY <1>3, <1>4, <1>30, <1>31, ByteStands, Zenon
  <2>2. e3 = e2 + 8 /\ e4 = e3 + 8
    BY <2>1 DEF ByteReadAt, skip_bits
  <2> QED
    BY <2>2 DEF skip_bits
<1>36. exp_golomb_ue(D, e4)[2] = e5
  <2>1. GolombAt(D, e4, 0, e5)
    BY <1>3, <1>4, <1>29, UeStands, Zenon
  <2> QED
    BY <2>1 DEF GolombAt
<1>37. (IF profile \in HighProfiles THEN HighProfile(D, e5) ELSE e5) = e6
  <2>1. Stands(D, e5, HighFields(f), e6)
    BY <1>4, <1>28, Zenon
  <2>2. /\ f.profile \in PlainProfiles \cup HighProfiles /\ f.chroma \in 0 .. 3
        /\ AnyLists(f.lists)
    BY <1>1, Zenon
  <2>3. HighEnd(f, D, e5, e6)
    BY <2>1, <2>2, HighStandsAt, Zenon
  <2>4. profile = f.profile
    BY <1>2
  <2> QED
    BY <2>3, <2>4, Zenon DEF HighEnd
<1>38. AfterCodes(D, e6, 1) = e7
  <2>1. GolombAt(D, e6, 0, e7)
    BY <1>3, <1>4, <1>27, UeStands, Zenon
  <2> QED
    BY <2>1, OneCode, Zenon DEF AfterAt
<1>39. PicOrderCnt(D, e7) = e9
  <2>1. OrderAt(D, e7, e9)
    BY <1>1, <1>2, <1>4, <1>25, <1>26, OrderStands, Zenon
  <2> QED
    BY <2>1, Zenon DEF OrderAt
<1>40. skip_bits(AfterCodes(D, e9, 1), 1) = e11
  <2>1. GolombAt(D, e9, 2, e10)
    BY <1>3, <1>5, <1>24, UeStands, Zenon
  <2>2. AfterCodes(D, e9, 1) = e10
    BY <2>1, OneCode, Zenon DEF AfterAt
  <2>3. Stands(D, e10, << 0 >>, e11)
    BY <1>5, <1>23, Zenon
  <2>4. BitReadAt(D, e10, 0, e11)
    BY <2>3, BitStandsAt, Zenon
  <2> QED
    BY <2>2, <2>4 DEF skip_bits, BitReadAt
<1>41. exp_golomb_ue(D, e11)[1] = w /\ exp_golomb_ue(D, e11)[2] = e12
  <2>1. GolombAt(D, e11, w, e12)
    BY <1>2, <1>5, <1>22, UeStands, Zenon
  <2> QED
    BY <2>1 DEF GolombAt
<1>42. exp_golomb_ue(D, e12)[1] = h /\ exp_golomb_ue(D, e12)[2] = e13
  <2>1. GolombAt(D, e12, h, e13)
    BY <1>2, <1>5, <1>21, UeStands, Zenon
  <2> QED
    BY <2>1 DEF GolombAt
<1>43. get_bit(D, e13)[1] = m /\ get_bit(D, e13)[2] = e14
  <2>1. Stands(D, e13, << m >>, e14)
    BY <1>5, <1>20, Zenon
  <2>2. m = 0 \/ m = 1
    OBVIOUS
  <2>3. BitReadAt(D, e13, m, e14)
    BY <2>1, <2>2, BitStandsAt, Zenon
  <2> QED
    BY <2>3, Zenon DEF BitReadAt
<1>44. skip_bits(e14, IF m = 1 THEN 1 ELSE 2) = e16
  <2>1. Stands(D, e15, << 1 >>, e16)
    BY <1>5, <1>18, Zenon
  <2>2. e16 = e15 + 1
    <3>1. BitReadAt(D, e15, 1, e16)
      BY <2>1, BitStandsAt, Zenon
    <3> QED
      BY <3>1, Zenon DEF BitReadAt
  <2>3. CASE m = 1
    <3>1. Stands(D, e14, << >>, e15)
      BY <1>5, <1>19, <2>3, Zenon
    <3>2. e15 = e14
      BY <3>1, EmptyStands, Zenon
    <3> QED
      BY <2>2, <2>3, <3>2 DEF skip_bits
  <2>4. CASE m # 1
    <3>1. Stands(D, e14, << 0 >>, e15)
      BY <1>5, <1>19, <2>4, Zenon
    <3>2. e15 = e14 + 1
      <4>1. BitReadAt(D, e14, 0, e15)
        BY <3>1, BitStandsAt, Zenon
      <4> QED
        BY <4>1, Zenon DEF BitReadAt
    <3> QED
      BY <2>2, <2>4, <3>2 DEF skip_bits
  <2> QED
    BY <2>3, <2>4
<1>45. PICK crop, r : crop = Cropping(D, e16, m) /\ r = H264ParseSps(D)
  OBVIOUS
<1>46. /\ crop.end = end
       /\ \A i \in 1 .. 4 : crop.sides[i] = Cropped(i, CropCode(f.crop, i), m)
  <2>1. Stands(D, e16, CropFields(f), end)
    BY <1>5, <1>17, Zenon
  <2>2. CropAt(D, e16, m, f.crop, end)
    <3>1. CropFits(f.crop) /\ m \in {0, 1}
      BY <1>1
    <3> QED
      BY <2>1, <3>1, CropStandsAt, Zenon
  <2> QED
    BY <1>45, <2>2, Zenon DEF CropAt
<1>47. r = [width |-> (w + 1) * 16 - (crop.sides[1] + crop.sides[2]),
            height |-> ((h + 1) * 16 - (crop.sides[3] + crop.sides[4])) * (IF m = 1 THEN 1 ELSE 2),
            end |-> crop.end]
  <2>1. PICK profile1, id, high, order :
          /\ profile1 = get_bits(D, skip_bits(0, 8), 8)
          /\ id = exp_golomb_ue(D, skip_bits(profile1[2], 16))
          /\ high = (IF profile1[1] \in HighProfiles THEN HighProfile(D, id[2]) ELSE id[2])
          /\ order = PicOrderCnt(D, AfterCodes(D, high, 1))
    OBVIOUS
  <2>2. PICK width, height, flag, crop1 :
          /\ width = exp_golomb_ue(D, skip_bits(AfterCodes(D, order, 1), 1))
          /\ height = exp_golomb_ue(D, width[2]) /\ flag = get_bit(D, height[2])
          /\ crop1 = Cropping(D, skip_bits(flag[2], IF flag[1] = 1 THEN 1 ELSE 2), flag[1])
    OBVIOUS
  <2>3. H264ParseSps(D) =
          [width |-> (width[1] + 1) * 16 - (crop1.sides[1] + crop1.sides[2]),
           height |-> ((height[1] + 1) * 16 - (crop1.sides[3] + crop1.sides[4]))
                        * (IF flag[1] = 1 THEN 1 ELSE 2),
           end |-> crop1.end]
    BY <2>1, <2>2, ZenonT(60) DEF H264ParseSps
  <2>4. profile1[1] = profile /\ profile1[2] = e2
    BY <1>34, <2>1, Zenon
  <2>5. id[2] = e5
    BY <1>35, <1>36, <2>1, <2>4, Zenon
  <2>6. high = e6
    BY <1>37, <2>1, <2>4, <2>5, Zenon
  <2>7. order = e9
    BY <1>38, <1>39, <2>1, <2>6, Zenon
  <2>8. width[1] = w /\ width[2] = e12
    BY <1>40, <1>41, <2>2, <2>7, Zenon
  <2>9. height[1] = h /\ height[2] = e13
    BY <1>42, <2>2, <2>8, Zenon
  <2>10. flag[1] = m /\ flag[2] = e14
    BY <1>43, <2>2, <2>9, Zenon
  <2>11. crop1 = crop
    BY <1>44, <1>45, <2>2, <2>10, Zenon
  <2> QED
    BY <1>45, <2>3, <2>8, <2>9, <2>10, <2>11, Zenon
<1>48. /\ r.width = (w + 1) * 16 - (crop.sides[1] + crop.sides[2])
       /\ r.height = ((h + 1) * 16 - (crop.sides[3] + crop.sides[4])) * (IF m = 1 THEN 1 ELSE 2)
       /\ r.end = crop.end
  BY <1>47
<1>49. PICK c, side : /\ side = crop.sides
                      /\ c = [i \in 1 .. 4 |-> CropCode(f.crop, i)]
  OBVIOUS
<1>50. ASSUME NEW i \in 1 .. 4 PROVE c[i] \in Nat /\ side[i] = Cropped(i, c[i], m)
  <2>1. CropCode(f.crop, i) \in Nat
    BY <1>1, <1>3, Zenon DEF CropFits, CropCode
  <2> QED
    BY <1>46, <1>49, <2>1, Zenon
<1>51. PICK W \in Nat, H \in Nat : W = f.widthMbs /\ H = f.heightUnits /\ w = W - 1 /\ h = H - 1
  BY <1>1, <1>2
<1>52. /\ r.width = 16 * W - 2 * (c[1] + c[2])
       /\ m = 1 \/ c[3] + c[4] = 0 =>
            r.height = 16 * (2 - m) * H - 2 * (2 - m) * (c[3] + c[4])
  <2>1. /\ ((W - 1) + 1) * 16 - (side[1] + side[2]) = 16 * W - 2 * (c[1] + c[2])
        /\ m = 1 \/ c[3] + c[4] = 0 =>
             (((H - 1) + 1) * 16 - (side[3] + side[4])) * (IF m = 1 THEN 1 ELSE 2)
               = 16 * (2 - m) * H - 2 * (2 - m) * (c[3] + c[4])
    <3>1. SizeRight(W, H, m, c, side)
      BY <1>50, SizeIs, Zenon
    <3> QED
      BY <3>1, Zenon DEF SizeRight
  <2> QED
    BY <1>48, <1>49, <1>51, <2>1, Zenon
<1>53. /\ c[1] = CropCode(f.crop, 1) /\ c[2] = CropCode(f.crop, 2)
       /\ c[3] = CropCode(f.crop, 3) /\ c[4] = CropCode(f.crop, 4)
  BY <1>49
<1>54. r.end = Len(SpsBits(f))
  BY <1>12, <1>16, <1>46, <1>48
<1>55. SpsReadAs(f, r)
  BY <1>2, <1>51, <1>52, <1>53, <1>54, Zenon DEF SpsReadAs
<1> QED
  BY <1>12, <1>16, <1>45, <1>55

-----------------------------------------------------------------------------
(* What is read of an input stays what was read of it. *)

Chosen == kind \in DOMAIN Inputs /\ input \in Inputs[kind]

LEMMA InputChosen ==
  Spec => []Chosen
<1>1. Init => Chosen
  BY DEF Init, Chosen
<1>2. Chosen /\ [Next]_vars => Chosen'
  BY DEF Chosen, Next, Read, Forget, vars
<1> QED
  BY <1>1, <1>2, PTL DEF Spec

LEMMA InputTypes ==
  ASSUME Chosen
  PROVE  /\ kind = "sps" => input \in SpsInputs
         /\ kind = "slice" => input \in SliceInputs
         /\ kind = "code" => input \in CodeInputs
         /\ kind = "bits" => input \in ReadInputs
         /\ kind = "descriptor" => input \in DescriptorInputs
         /\ kind = "rate" => input \in RateInputs
         /\ kind = "packet" => input \in PacketInputs
         /\ kind = "byte" => input \in Byte
BY DEF Chosen, Inputs

-----------------------------------------------------------------------------
(* The bit rate a peer asks for is kept but for what the mantissa cannot   *)
(* hold: never more, at most one part in 2^17 less (RembExp).              *)
THEOREM RatesRoundDown ==
  Spec => []RembRoundsDown
<1>1. Init => RembRoundsDown
  BY DEF Init, RembRoundsDown, HasRead
<1>2. Chosen /\ RembRoundsDown /\ [Next]_vars => RembRoundsDown'
  <2> SUFFICES ASSUME Chosen, RembRoundsDown, [Next]_vars PROVE RembRoundsDown'
    OBVIOUS
  <2>1. CASE Read
    <3> SUFFICES ASSUME kind = "rate", ReadRate PROVE RembRoundsDown'
      BY <2>1 DEF Read, Parse, RembRoundsDown, HasRead, ReadSps, ReadSlice, ReadCode,
                  ReadBits, ReadDescriptor, ReadRate, ReadPacket, ReadByte
    <3>1. input \in 0 .. MaxRate
      BY InputTypes, FormatsAssumption, Zenon
    <3>2. input \in Nat /\ input <= MaxRate
      BY <3>1, LimitTypes, SMT
    <3>3. input' = input /\ Result' = getREMBBitRate(setREMBBitRate(input))
      BY <2>1, Zenon DEF Read, ReadRate, Result
    <3> QED
      BY <3>2, <3>3, RembRead, Zenon DEF RembRoundsDown
  <2>2. CASE Forget
    BY <2>2 DEF Forget, RembRoundsDown, HasRead
  <2>3. CASE UNCHANGED vars
    BY <2>3 DEF vars, RembRoundsDown, HasRead, Result
  <2> QED
    BY <2>1, <2>2, <2>3 DEF Next
<1> QED
  BY <1>1, <1>2, InputChosen, PTL DEF Spec

(* No media packet is taken for RTCP or the other way round, and header    *)
(* and padding taken off a packet of any layout leave its payload          *)
(* (GetMediaType, getHeaderLength).                                        *)
THEOREM PacketsTakenApart ==
  Spec => []PacketExact
<1>1. Init => PacketExact
  BY DEF Init, PacketExact, HasRead
<1>2. Chosen /\ PacketExact /\ [Next]_vars => PacketExact'
  <2> SUFFICES ASSUME Chosen, PacketExact, [Next]_vars PROVE PacketExact'
    OBVIOUS
  <2>1. CASE Read
    <3>1. CASE kind = "byte"
      <4>1. input \in 0 .. 255
        BY <3>1, InputTypes DEF Byte
      <4>2. /\ kind' = kind /\ input' = input
            /\ Result' = << getPacketType(input), GetMediaType(input) >>
        BY <2>1, <3>1 DEF Read, Parse, Result, ReadSps, ReadSlice, ReadCode,
             ReadBits, ReadDescriptor, ReadRate, ReadPacket, ReadByte
      <4>3. Result'[1] = getPacketType(input) /\ Result'[2] = GetMediaType(input)
        BY <4>2
      <4> QED
        <5>1. /\ input \div 64 = 2 <=> getPacketType(input) = "RTP"
              /\ input % 128 \in VideoTypes => GetMediaType(input) = "video"
              /\ input % 128 \in AudioTypes => GetMediaType(input) = "audio"
              /\ GetMediaType(input) = "rtcp" <=> input \in 192 .. 223
          BY <4>1, ByteRead
        <5>2. kind' = "byte" /\ input' = input
          BY <3>1, <4>2
        <5> QED
          BY <4>3, <5>1, <5>2, SMT DEF PacketExact, HasRead
    <3>2. CASE kind = "packet"
      <4>1. IsPacket(input)
        BY <3>2, InputTypes, FormatsAssumption, Zenon
      <4>2. /\ kind' = kind /\ input' = input
            /\ Result' = [header |-> getHeaderLength(PacketFields(input)),
                          padding |-> getRtpPaddingLength(PacketFields(input))]
        BY <2>1, <3>2 DEF Read, Parse, Result, ReadSps, ReadSlice, ReadCode,
             ReadBits, ReadDescriptor, ReadRate, ReadPacket, ReadByte
      <4>3. /\ Result'.header = getHeaderLength(PacketFields(input))
            /\ Result'.padding = getRtpPaddingLength(PacketFields(input))
        BY <4>2
      <4> QED
        BY <3>2, <4>1, <4>2, <4>3, PacketRead, Zenon DEF PacketExact, HasRead
    <3> QED
      BY <2>1, <3>1, <3>2 DEF Read, PacketExact, HasRead
  <2>2. CASE Forget
    BY <2>2 DEF Forget, PacketExact, HasRead
  <2>3. CASE UNCHANGED vars
    BY <2>3 DEF vars, PacketExact, HasRead, Result
  <2> QED
    BY <2>1, <2>2, <2>3 DEF Next
<1> QED
  BY <1>1, <1>2, InputChosen, PTL DEF Spec

(* A descriptor is read as it was written, refused when it is cut, and a   *)
(* key frame is told by it (ParseVP8Descriptor, IsIdrFrame).               *)
THEOREM DescriptorsRead ==
  Spec => []DescriptorExact
<1>1. Init => DescriptorExact
  BY DEF Init, DescriptorExact, HasRead
<1>2. Chosen /\ DescriptorExact /\ [Next]_vars => DescriptorExact'
  <2> SUFFICES ASSUME Chosen, DescriptorExact, [Next]_vars PROVE DescriptorExact'
    OBVIOUS
  <2>1. CASE Read
    <3> SUFFICES ASSUME kind = "descriptor", ReadDescriptor PROVE DescriptorExact'
      BY <2>1 DEF Read, Parse, DescriptorExact, HasRead, ReadSps, ReadSlice, ReadCode,
                  ReadBits, ReadDescriptor, ReadRate, ReadPacket, ReadByte
    <3>1. IsDescriptor(input) /\ input' = input
      BY <2>1, InputTypes, FormatsAssumption, Zenon DEF Read
    <3>2. PICK D : D = DescriptorBytes(input)
      OBVIOUS
    <3>3. PICK cut \in 0 .. Len(D), first \in {0, 1} :
            read' = << [cut |-> cut, vp8 |-> ParseVP8Descriptor(SubSeq(D, 1, cut)),
                        first |-> first, idr |-> IsIdrFrame(D \o << first, 255 >>)] >>
      BY <3>2, ZenonT(60) DEF ReadDescriptor
    <3>4. /\ Result'.cut = cut /\ Result'.vp8 = ParseVP8Descriptor(SubSeq(D, 1, cut))
          /\ Result'.first = first /\ Result'.idr = IsIdrFrame(D \o << first, 255 >>)
      BY <3>3, Zenon DEF Result
    <3>8. /\ \A i \in 0 .. Len(D) :
               ParseVP8Descriptor(SubSeq(D, 1, i)) =
                 IF i < Len(D) THEN [ret |-> -1] ELSE FieldsOf(input, Len(D))
          /\ \A f \in {0, 1} :
               IsIdrFrame(D \o << f, 255 >>) <=> input.start /\ input.partition = 0 /\ f = 0
      BY <3>1, <3>2, DescriptorRead
    <3>5. Result'.vp8 = IF cut < Len(D) THEN [ret |-> -1] ELSE FieldsOf(input, Len(D))
      <4>1. ParseVP8Descriptor(SubSeq(D, 1, cut)) =
              IF cut < Len(D) THEN [ret |-> -1] ELSE FieldsOf(input, Len(D))
        BY <3>8, Zenon
      <4> QED
        BY <3>4, <4>1, Zenon
    <3>6. Result'.idr <=> input.start /\ input.partition = 0 /\ first = 0
      BY <3>4, <3>8, Zenon
    <3>7. cut = Len(D) => ~(cut < Len(D))
      BY <3>3
    <3> QED
      BY <3>1, <3>2, <3>4, <3>5, <3>6, <3>7, Zenon DEF DescriptorExact, FieldsOf
  <2>2. CASE Forget
    BY <2>2 DEF Forget, DescriptorExact, HasRead
  <2>3. CASE UNCHANGED vars
    BY <2>3 DEF vars, DescriptorExact, HasRead, Result
  <2> QED
    BY <2>1, <2>2, <2>3 DEF Next
<1> QED
  BY <1>1, <1>2, InputChosen, PTL DEF Spec

(* Both readers of H.264 headers give back the number that was written,    *)
(* wherever its code starts in a byte and whatever stands around it, and   *)
(* bs_read stops at the end of its data (bs_read_ue, exp_golomb_se).       *)
THEOREM BitsRead ==
  Spec => []BitsExact
<1>1. Init => BitsExact
  BY DEF Init, BitsExact, HasRead
<1>2. Chosen /\ BitsExact /\ [Next]_vars => BitsExact'
  <2> SUFFICES ASSUME Chosen, BitsExact, [Next]_vars PROVE BitsExact'
    OBVIOUS
  <2>1. CASE Read
    <3>1. CASE kind = "bits"
      <4>1. /\ input.data \in Bits /\ Len(input.data) % 8 = 0 /\ input.pos \in Nat
            /\ input.count \in 0 .. 31
        BY <3>1, InputTypes, FormatsAssumption, Zenon
      <4>2. /\ kind' = kind /\ input' = input
            /\ Result' = bs_read(input.data, input.pos, input.count)
        BY <2>1, <3>1 DEF Read, Parse, Result, ReadSps, ReadSlice, ReadCode,
             ReadBits, ReadDescriptor, ReadRate, ReadPacket, ReadByte
      <4>3. PICK data, pos, count :
              data = input.data /\ pos = input.pos /\ count = input.count
        OBVIOUS
      <4>4. PICK there : there = CHOOSE n \in 0 .. count :
                           \A i \in 1 .. count : i <= n <=> pos + i <= Len(data)
        OBVIOUS
      <4>5. Result' = << Value(SubSeq(data, pos + 1, pos + there)) * 2 ^ (count - there),
                         pos + there >>
        <5>1. data \in Bits /\ Len(data) % 8 = 0 /\ pos \in Nat /\ count \in 0 .. 31
          BY <4>1, <4>3
        <5>2. bs_read(data, pos, count)
                = << Value(SubSeq(data, pos + 1, pos + there)) * 2 ^ (count - there), pos + there >>
          BY <4>4, <5>1, StopsRight
        <5>3. Result' = bs_read(data, pos, count)
          BY <4>2, <4>3
        <5> QED
          BY <5>2, <5>3
      <4>6. StopsAtEnd'
        BY <4>2, <4>3, <4>4, <4>5, Zenon DEF StopsAtEnd
      <4> QED
        BY <3>1, <4>2, <4>6 DEF BitsExact, HasRead
    <3>2. CASE kind = "code"
      <4>1. input.number \in Nat /\ input.number <= MaxCode
        <5>1. input.number \in 0 .. MaxCode
          BY <3>2, InputTypes, FormatsAssumption, Zenon
        <5> QED
          BY <5>1, LimitTypes, SMT
      <4>2. input.before \in Bits /\ input.behind \in Bits
        BY <3>2, InputTypes, FormatsAssumption, Zenon
      <4>3. PICK before, v, behind :
              before = input.before /\ v = input.number /\ behind = input.behind
        OBVIOUS
      <4>4. PICK data, pos : data = CodeBits(input) /\ pos = Len(before)
        OBVIOUS
      <4>5. /\ kind' = kind /\ input' = input
            /\ Result' = [ue |-> bs_read_ue(data, pos), golomb |-> exp_golomb_ue(data, pos),
                          signed |-> exp_golomb_se(data, pos)]
        BY <2>1, <3>2, <4>3, <4>4 DEF Read, Parse, Result, ReadSps, ReadSlice, ReadCode,
             ReadBits, ReadDescriptor, ReadRate, ReadPacket, ReadByte
      <4>6. PICK end, signed :
              /\ end = Len(before \o Ue(v))
              /\ signed = CHOOSE n \in -(v \div 2) .. (v + 1) \div 2 : Se(n) = Ue(v)
        OBVIOUS
      <4>7. data = Padded(before \o Ue(v) \o behind)
        BY <4>3, <4>4 DEF CodeBits
      <4>8. /\ ReadAt(data, pos, v, end) /\ GolombAt(data, pos, v, end)
            /\ SignedAt(data, pos, signed, end)
        BY <4>1, <4>2, <4>3, <4>4, <4>6, <4>7, CodesRead
      <4>9. /\ Result'.ue = << v, end >> /\ Result'.golomb = << v, end >>
            /\ Result'.signed = << signed, end >>
        BY <4>5, <4>8 DEF ReadAt, GolombAt, SignedAt
      <4>10. CodeRead'
        BY <4>3, <4>5, <4>6, <4>9, Zenon DEF CodeRead
      <4> QED
        BY <3>2, <4>5, <4>10 DEF BitsExact, HasRead
    <3> QED
      BY <2>1, <3>1, <3>2 DEF Read, BitsExact, HasRead
  <2>2. CASE Forget
    BY <2>2 DEF Forget, BitsExact, HasRead
  <2>3. CASE UNCHANGED vars
    BY <2>3 DEF vars, BitsExact, HasRead, Result, StopsAtEnd, CodeRead
  <2> QED
    BY <2>1, <2>2, <2>3 DEF Next
<1> QED
  BY <1>1, <1>2, InputChosen, PTL DEF Spec

(* The type of a slice is told for each of the ten values it has,          *)
(* whatever number stands before it and whatever follows (GetFrameType).   *)
THEOREM FrameTypesTold ==
  Spec => []FrameTypeExact
<1>1. Init => FrameTypeExact
  BY DEF Init, FrameTypeExact, HasRead
<1>2. Chosen /\ FrameTypeExact /\ [Next]_vars => FrameTypeExact'
  <2> SUFFICES ASSUME Chosen, FrameTypeExact, [Next]_vars PROVE FrameTypeExact'
    OBVIOUS
  <2>1. CASE Read
    <3> SUFFICES ASSUME kind = "slice", ReadSlice PROVE FrameTypeExact'
      BY <2>1 DEF Read, Parse, FrameTypeExact, HasRead, ReadSps, ReadSlice, ReadCode,
                  ReadBits, ReadDescriptor, ReadRate, ReadPacket, ReadByte
    <3>1. input.firstMb \in 0 .. MaxCode /\ input.type \in 0 .. 9 /\ input.rest \in Bits
      BY InputTypes, FormatsAssumption, Zenon
    <3>2. PICK a \in Nat, type \in 0 .. 9, rest \in Bits :
            a = input.firstMb /\ type = input.type /\ rest = input.rest /\ a <= MaxCode
      BY <3>1, LimitTypes, SMT
    <3>3. PICK data : data = SliceBits(input)
      OBVIOUS
    <3>4. data = Padded(Codes(<< a, type >>) \o rest)
      BY <3>2, <3>3, Zenon DEF SliceBits
    <3>5. TypeRead(data, type)
      BY <3>2, <3>4, SliceRead, Zenon
    <3>6. input' = input /\ Result' = GetFrameType(data)
      BY <2>1, <3>3, Zenon DEF Read, ReadSlice, Result
    <3>7. Result' = CASE type \in {1, 6} -> "B" [] type \in {2, 7, 4, 9} -> "I" [] OTHER -> "P"
      BY <3>5, <3>6, Zenon DEF GetFrameType, TypeRead
    <3>8. Result' = CASE type % 5 \in {0, 3} -> "P"
                      [] type % 5 = 1 -> "B"
                      [] type % 5 \in {2, 4} -> "I"
      <4>1. \/ type = 0 \/ type = 1 \/ type = 2 \/ type = 3 \/ type = 4
            \/ type = 5 \/ type = 6 \/ type = 7 \/ type = 8 \/ type = 9
        OBVIOUS
      <4> QED
        BY <3>7, <4>1
    <3> QED
      BY <3>2, <3>6, <3>8, Zenon DEF FrameTypeExact
  <2>2. CASE Forget
    BY <2>2 DEF Forget, FrameTypeExact, HasRead
  <2>3. CASE UNCHANGED vars
    BY <2>3 DEF vars, FrameTypeExact, HasRead, Result
  <2> QED
    BY <2>1, <2>2, <2>3 DEF Next
<1> QED
  BY <1>1, <1>2, InputChosen, PTL DEF Spec

(* H264ParseSps passes over nothing of a parameter set and reads nothing   *)
(* twice, whichever of its optional fields are there, and the size it      *)
(* finds is the one H.264 defines wherever the crop is in the units the    *)
(* code takes it to be.  The sets are those of IsSps (no scaling matrix    *)
(* with 4:4:4), as bits without emulation-prevention bytes.                *)
THEOREM SpsSizeRight ==
  Spec => []SpsDimensions
<1>1. Init => SpsDimensions
  BY DEF Init, SpsDimensions, HasRead
<1>2. Chosen /\ SpsDimensions /\ [Next]_vars => SpsDimensions'
  <2> SUFFICES ASSUME Chosen, SpsDimensions, [Next]_vars PROVE SpsDimensions'
    OBVIOUS
  <2>1. CASE Read
    <3> SUFFICES ASSUME kind = "sps", ReadSps PROVE SpsDimensions'
      BY <2>1 DEF Read, Parse, SpsDimensions, HasRead, ReadSps, ReadSlice, ReadCode,
                  ReadBits, ReadDescriptor, ReadRate, ReadPacket, ReadByte
    <3>1. IsSps(input)
      BY InputTypes, FormatsAssumption, Zenon
    <3>2. input' = input /\ Result' = H264ParseSps(SpsBits(input))
      BY <2>1, Zenon DEF Read, ReadSps, Result
    <3>3. SpsReadAs(input, Result')
      BY <3>1, <3>2, SpsRead, Zenon
    <3>4. \A side : CropOf(side)' = CropCode(input.crop, side)
      BY <3>2, Zenon DEF CropOf, CropCode
    <3>5. PICK m \in {0, 1} : m = input.frameMbsOnly
      BY <3>1, SpsTypes, Zenon
    <3>6. 2 - m = 1 => m = 1
      OBVIOUS
    <3>7. /\ CropOf(1)' \in Nat /\ CropOf(2)' \in Nat
          /\ CropOf(3)' \in Nat /\ CropOf(4)' \in Nat
      <4>1. CropFits(input.crop)
        BY <3>1, SpsTypes, Zenon
      <4>2. \A i \in 1 .. 4 : CropCode(input.crop, i) \in Nat
        BY <4>1, Zenon DEF CropFits, CropCode
      <4> QED
        BY <3>4, <4>2
    <3>8. /\ SubWidth' \in {1, 2} /\ SubHeight' \in {1, 2}
      BY DEF SubWidth, SubHeight
    <3>9. PICK sides \in Nat, ends \in Nat, x \in {1, 2}, y \in {1, 2} :
            /\ sides = CropOf(1)' + CropOf(2)' /\ ends = CropOf(3)' + CropOf(4)'
            /\ x = SubWidth' /\ y = SubHeight'
      BY <3>7, <3>8
    <3>10. /\ x = 2 \/ sides = 0 => 2 * sides = x * sides
           /\ (y = 2 /\ 2 - m = 1) \/ ends = 0 =>
                2 * (2 - m) * ends = y * (2 - m) * ends
      BY <3>9
    <3>11. /\ Result'.width = 16 * input'.widthMbs - 2 * sides
           /\ m = 1 \/ ends = 0 =>
                Result'.height = 16 * (2 - m) * input'.heightUnits - 2 * (2 - m) * ends
           /\ Result'.end = Len(SpsBits(input'))
      BY <3>2, <3>3, <3>4, <3>5, <3>9, Zenon DEF SpsReadAs
    <3>12. SpsDimensions' <=>
             (HasRead("sps")' =>
                /\ x = 2 \/ sides = 0 => Result'.width = 16 * input'.widthMbs - x * sides
                /\ (y = 2 /\ 2 - m = 1) \/ ends = 0 =>
                     Result'.height = 16 * (2 - m) * input'.heightUnits - y * (2 - m) * ends
                /\ Result'.end = Len(SpsBits(input')))
      BY <3>2, <3>5, <3>9, Zenon DEF SpsDimensions
    <3> QED
      BY <3>6, <3>10, <3>11, <3>12, Zenon
  <2>2. CASE Forget
    BY <2>2 DEF Forget, SpsDimensions, HasRead
  <2>3. CASE UNCHANGED vars
    BY <2>3 DEF vars, SpsDimensions, HasRead, Result, CropOf, ChromaFormat, SubWidth, SubHeight
  <2> QED
    BY <2>1, <2>2, <2>3 DEF Next
<1> QED
  BY <1>1, <1>2, InputChosen, PTL DEF Spec

=============================================================================
