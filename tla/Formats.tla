------------------------------ MODULE Formats -------------------------------
(***************************************************************************)
(* The readers of H264Sps and RtpFormats against the formats they read.    *)
(* Each input is what a peer means (the fields of a header, a number, a    *)
(* bit rate); the definitions of the formats (RFC 3550, RFC 7741,          *)
(* draft-alvestrand-rmcat-remb, H.264) write it down, a step reads it.     *)
(***************************************************************************)
EXTENDS H264Sps, RtpFormats

CONSTANTS
  SpsInputs,         \* the fields of sequence parameter sets
  SliceInputs,       \* first macroblock, slice type and the bits behind
  CodeInputs,        \* a number, the bits before and behind its code
  ReadInputs,        \* some bits, where to read and how many
  DescriptorInputs,  \* the fields of VP8 descriptors
  RateInputs,        \* bit rates
  PacketInputs       \* the layout of RTP packets

VARIABLES
  kind,     \* the reader, which of its inputs
  input,
  read      \* what it has read, << >> before

vars == << kind, input, read >>

-----------------------------------------------------------------------------
(* The formats: how a writer puts things down. *)

(* n as so many bits, highest first. *)
Binary(n, bits) == [i \in 1 .. bits |-> (n \div 2 ^ (bits - i)) % 2]

Zeros(n) == [i \in 1 .. n |-> 0]

(* Exp-Golomb codes of H.264. *)
ExpBits(v) == CHOOSE b \in 0 .. 30 : 2 ^ b <= v + 1 /\ v + 1 < 2 ^ (b + 1)
Ue(v) == Zeros(ExpBits(v)) \o Binary(v + 1, ExpBits(v) + 1)
Se(v) == Ue(IF v > 0 THEN 2 * v - 1 ELSE -(2 * v))

Codes(values) == FoldLeft(LAMBDA bits, v : bits \o Ue(v), << >>, values)
SignedCodes(values) == FoldLeft(LAMBDA bits, v : bits \o Se(v), << >>, values)

Padded(bits) == bits \o Zeros((8 - (Len(bits) % 8)) % 8)

(* A sequence parameter set up to vui_parameters_present_flag.  f.lists    *)
(* are the scaling lists, empty where the default is used; << >> stands    *)
(* for no scaling matrix.  f.order is what comes with f.orderType.         *)
ScalingLists(f) ==
  IF f.lists = << >> THEN << 0 >>
  ELSE << 1 >> \o FoldLeft(LAMBDA bits, list :
                             bits \o IF list = << >> THEN << 0 >> ELSE << 1 >> \o SignedCodes(list),
                           << >>, f.lists)

(* Baseline, main and extended: they have no chroma format.                *)
PlainProfiles == {66, 77, 88}

HighFields(f) ==
  IF f.profile \in PlainProfiles THEN << >>
  ELSE Ue(f.chroma) \o (IF f.chroma = 3 THEN << 0 >> ELSE << >>)
         \o Codes(<< 0, 0 >>) \o << 0 >> \o ScalingLists(f)

OrderFields(f) ==
  CASE f.orderType = 0 -> Ue(4)
    [] f.orderType = 1 -> << 0 >> \o SignedCodes(<< -1, 2 >>)
                            \o Ue(Len(f.order)) \o SignedCodes(f.order)
    [] f.orderType = 2 -> << >>

CropFields(f) == IF f.crop = << >> THEN << 0 >> ELSE << 1 >> \o Codes(f.crop)

SpsBits(f) ==
  Binary(103, 8) \o Binary(f.profile, 8) \o Binary(0, 8) \o Binary(31, 8) \o Ue(0)
    \o HighFields(f) \o Ue(0) \o Ue(f.orderType) \o OrderFields(f)
    \o Ue(2) \o << 0 >> \o Ue(f.widthMbs - 1) \o Ue(f.heightUnits - 1)
    \o << f.frameMbsOnly >> \o (IF f.frameMbsOnly = 1 THEN << >> ELSE << 0 >>)
    \o << 1 >> \o CropFields(f)

SliceBits(s) == Padded(Codes(<< s.firstMb, s.type >>) \o s.rest)

CodeBits(c) == Padded(c.before \o Ue(c.number) \o c.behind)

(* A VP8 payload descriptor (RFC 7741) whose optional fields are -1 when   *)
(* they are not there. *)
Flag(on, value) == IF on THEN value ELSE 0

PictureIdField(d) ==
  CASE d.pictureId = -1 -> << >>
    [] d.pictureId # -1 /\ ~d.longId -> << d.pictureId >>
    [] OTHER -> << 128 + d.pictureId \div 256, d.pictureId % 256 >>

LayerField(d) ==
  IF d.tid = -1 /\ d.keyIdx = -1 THEN << >>
  ELSE << Flag(d.tid # -1, 64 * d.tid) + Flag(d.layerSync, 32) + Flag(d.keyIdx # -1, d.keyIdx) >>

HasOptional(d) == d.pictureId # -1 \/ d.tl0 # -1 \/ d.tid # -1 \/ d.keyIdx # -1

DescriptorBytes(d) ==
  << Flag(HasOptional(d), 128) + Flag(d.nonReference, 32) + Flag(d.start, 16) + d.partition >>
    \o IF ~HasOptional(d) THEN << >>
       ELSE << Flag(d.pictureId # -1, 128) + Flag(d.tl0 # -1, 64)
                 + Flag(d.tid # -1, 32) + Flag(d.keyIdx # -1, 16) >>
              \o PictureIdField(d)
              \o (IF d.tl0 = -1 THEN << >> ELSE << d.tl0 >>)
              \o LayerField(d)

(* The size of a packet: its header, its payload and its padding.          *)
PacketSize(p) ==
  12 + 4 * p.cc + (IF p.extWords = -1 THEN 0 ELSE 4 + 4 * p.extWords)
     + p.payload + p.paddingBytes

(* The last byte of the padding is its length. *)
PacketFields(p) ==
  [cc |-> p.cc, extWords |-> p.extWords, padding |-> p.paddingBytes > 0,
   lastByte |-> p.paddingBytes, size |-> PacketSize(p)]

-----------------------------------------------------------------------------
(* What a peer may mean, as far as the fields hold it.                     *)
Bits == Seq({0, 1})

MaxCode == 2147483646   \* the highest number of 30 leading zeros
MaxRate == 2147483647   \* what the 32 bits of the mantissa shifted hold
MaxWords == 65535       \* of an extension, whose length has 16 bits
MaxPictureId == 32767   \* of 15 bits

(* Deltas up to the one that brings the scale to zero, or size of them.    *)
ScaleAfter(list) == FoldLeft(NextScale, 8, list)

IsScalingList(list, size) ==
  /\ list \in Seq(-128 .. 127) /\ Len(list) <= size
  /\ \A i \in 1 .. Len(list) - 1 : ScaleAfter(SubSeq(list, 1, i)) # 0
  /\ Len(list) = size \/ ScaleAfter(list) = 0

(* 4:4:4 has twelve lists, of which the parser knows eight: its parameter  *)
(* sets are taken without a scaling matrix.                                *)
IsSps(f) ==
  /\ f.profile \in PlainProfiles \cup HighProfiles
  /\ f.chroma \in 0 .. 3
  /\ \/ f.lists = << >>
     \/ /\ f.chroma # 3 /\ f.lists \in Seq(Seq(-128 .. 127)) /\ Len(f.lists) = 8
        /\ \A i \in 1 .. 8 :
             f.lists[i] = << >> \/ IsScalingList(f.lists[i], IF i <= 6 THEN 16 ELSE 64)
  /\ f.orderType \in 0 .. 2 /\ f.order \in Seq(-MaxCode \div 2 .. MaxCode \div 2)
  /\ Len(f.order) \in 0 .. 255
  /\ f.widthMbs \in 1 .. MaxCode \div 16 /\ f.heightUnits \in 1 .. MaxCode \div 32
  /\ f.frameMbsOnly \in {0, 1}
  /\ f.crop \in {<< >>} \cup [1 .. 4 -> 0 .. MaxCode \div 8]

IsDescriptor(d) ==
  /\ d.nonReference \in BOOLEAN /\ d.start \in BOOLEAN /\ d.partition \in 0 .. 15
  /\ d.pictureId \in -1 .. MaxPictureId /\ d.longId \in BOOLEAN
  /\ d.pictureId > 127 => d.longId
  /\ d.tl0 \in -1 .. 255 /\ d.tid \in -1 .. 3 /\ d.keyIdx \in -1 .. 31
  /\ d.layerSync \in BOOLEAN /\ (d.tid = -1 => ~d.layerSync)

IsPacket(p) ==
  /\ p.cc \in 0 .. 15 /\ p.extWords \in -1 .. MaxWords
  /\ p.payload \in Nat /\ p.paddingBytes \in Byte

ASSUME FormatsAssumption ==
  /\ \A f \in SpsInputs : IsSps(f)
  /\ \A s \in SliceInputs : s.firstMb \in 0 .. MaxCode /\ s.type \in 0 .. 9 /\ s.rest \in Bits
  /\ \A c \in CodeInputs : c.number \in 0 .. MaxCode /\ c.before \in Bits /\ c.behind \in Bits
  /\ \A r \in ReadInputs :
       r.data \in Bits /\ Len(r.data) % 8 = 0 /\ r.pos \in Nat /\ r.count \in 0 .. 31
  /\ \A d \in DescriptorInputs : IsDescriptor(d)
  /\ RateInputs \subseteq 0 .. MaxRate
  /\ \A p \in PacketInputs : IsPacket(p)

Inputs ==
  [sps |-> SpsInputs, slice |-> SliceInputs, code |-> CodeInputs, bits |-> ReadInputs,
   descriptor |-> DescriptorInputs, rate |-> RateInputs, packet |-> PacketInputs,
   byte |-> Byte]

Init == /\ kind \in DOMAIN Inputs
        /\ input \in Inputs[kind]
        /\ read = << >>

ReadSps == kind = "sps" /\ read' = << H264ParseSps(SpsBits(input)) >>

ReadSlice == kind = "slice" /\ read' = << GetFrameType(SliceBits(input)) >>

ReadCode ==
  /\ kind = "code"
  /\ LET data == CodeBits(input)
         pos == Len(input.before)
     IN  read' = << [ue |-> bs_read_ue(data, pos),
                     golomb |-> exp_golomb_ue(data, pos),
                     signed |-> exp_golomb_se(data, pos)] >>

ReadBits == kind = "bits" /\ read' = << bs_read(input.data, input.pos, input.count) >>

(* The descriptor cut somewhere, and a packet of the whole of it.          *)
ReadDescriptor ==
  /\ kind = "descriptor"
  /\ LET whole == DescriptorBytes(input)
     IN  \E cut \in 0 .. Len(whole), first \in {0, 1} :
           read' = << [cut |-> cut, vp8 |-> ParseVP8Descriptor(SubSeq(whole, 1, cut)),
                       first |-> first, idr |-> IsIdrFrame(whole \o << first, 255 >>)] >>

ReadRate == kind = "rate" /\ read' = << getREMBBitRate(setREMBBitRate(input)) >>

ReadPacket ==
  /\ kind = "packet"
  /\ read' = << [header |-> getHeaderLength(PacketFields(input)),
                 padding |-> getRtpPaddingLength(PacketFields(input))] >>

ReadByte == kind = "byte" /\ read' = << << getPacketType(input), GetMediaType(input) >> >>

Parse == \/ ReadSps \/ ReadSlice \/ ReadCode \/ ReadBits
         \/ ReadDescriptor \/ ReadRate \/ ReadPacket \/ ReadByte

Read == read = << >> /\ Parse /\ UNCHANGED << kind, input >>

Forget == read # << >> /\ read' = << >> /\ UNCHANGED << kind, input >>

Next == Read \/ Forget

Spec == Init /\ [][Next]_vars

HasRead(k) == kind = k /\ read # << >>
Result == read[1]

-----------------------------------------------------------------------------
(* What the readers promise.                                               *)

(* The size of the picture is the one H.264 defines (7.4.2.1.1, 7-19 to    *)
(* 7-22), whatever optional fields stand before it, and the parser has     *)
(* read exactly the fields there are: one field read too many or too few   *)
(* puts it out of step with all that follow.  H264ParseSps takes every     *)
(* crop to be in units of two, in interlaced video doubles the crop and    *)
(* then the height (h264SpsDec.cc:173-186); so the width is not promised   *)
(* of monochrome and 4:4:4 cropped at the sides, nor the height of video   *)
(* cropped above or below that is interlaced or not 4:2:0.                 *)
CropOf(side) == IF input.crop = << >> THEN 0 ELSE input.crop[side]

ChromaFormat == IF input.profile \in PlainProfiles THEN 1 ELSE input.chroma
SubWidth == IF ChromaFormat \in {1, 2} THEN 2 ELSE 1
SubHeight == IF ChromaFormat = 1 THEN 2 ELSE 1

SpsDimensions ==
  HasRead("sps") =>
    LET fields == 2 - input.frameMbsOnly
        sides == CropOf(1) + CropOf(2)
        ends == CropOf(3) + CropOf(4)
    IN  /\ SubWidth = 2 \/ sides = 0 =>
             Result.width = 16 * input.widthMbs - SubWidth * sides
        /\ (SubHeight = 2 /\ fields = 1) \/ ends = 0 =>
             Result.height = 16 * fields * input.heightUnits - SubHeight * fields * ends
        /\ Result.end = Len(SpsBits(input))

(* A slice's type is told for each of the ten values of slice_type,        *)
(* whatever macroblock it starts with and whatever follows.                *)
FrameTypeExact ==
  HasRead("slice") =>
    Result = CASE input.type % 5 \in {0, 3} -> "P"
               [] input.type % 5 = 1 -> "B"
               [] input.type % 5 \in {2, 4} -> "I"

(* bs_read stops at the end of the data, wherever it starts in a byte: the *)
(* bits that are there come first, the missing ones are zero.              *)
StopsAtEnd ==
  LET there == CHOOSE n \in 0 .. input.count :
                 \A i \in 1 .. input.count : i <= n <=> input.pos + i <= Len(input.data)
      bits == SubSeq(input.data, input.pos + 1, input.pos + there)
  IN  Result = << Value(bits) * 2 ^ (input.count - there), input.pos + there >>

(* The two readers give back the number that was written, as it is and as  *)
(* a signed one, at any place in a byte, and end where its code ends.      *)
CodeRead ==
  LET end == Len(input.before \o Ue(input.number))
      signed == CHOOSE n \in -(input.number \div 2) .. (input.number + 1) \div 2 :
                  Se(n) = Ue(input.number)
  IN  /\ Result.ue = << input.number, end >>
      /\ Result.golomb = << input.number, end >>
      /\ Result.signed = << signed, end >>

(* The two bit readers agree on every stream that is whole, and the one    *)
(* that knows the end of the data stops there.                             *)
BitsExact ==
  /\ HasRead("bits") => StopsAtEnd
  /\ HasRead("code") => CodeRead

(* A media packet of a negotiated payload type is never taken for RTCP,    *)
(* with its marker or without, nor an RTCP packet for media; a datagram of *)
(* either is not taken for STUN or DTLS (its first byte has version 2).    *)
(* Header and padding taken off a packet of any layout leave its payload.  *)
PacketExact ==
  /\ HasRead("byte") =>
       /\ input \div 64 = 2 <=> Result[1] = "RTP"
       /\ input % 128 \in VideoTypes => Result[2] = "video"
       /\ input % 128 \in AudioTypes => Result[2] = "audio"
       /\ Result[2] = "rtcp" <=> input \in 192 .. 223
  /\ HasRead("packet") =>
       PacketSize(input) - Result.header - Result.padding = input.payload

(* A VP8 descriptor is read as it was written, whichever of its fields are *)
(* there; one that is cut anywhere is refused, nothing behind its end is   *)
(* read; and a packet is taken for the start of a key frame exactly when   *)
(* it is the first of partition 0 and the VP8 header says so.              *)
DescriptorExact ==
  HasRead("descriptor") =>
    LET size == Len(DescriptorBytes(input))
    IN  /\ Result.cut < size => Result.vp8 = [ret |-> -1]
        /\ Result.cut = size =>
             Result.vp8 =
               [ret |-> size,
                NonReference |-> input.nonReference,
                BeginningOfPartition |-> input.start,
                PartitionId |-> input.partition,
                PictureId |-> input.pictureId,
                Tl0PicIdx |-> input.tl0,
                TemporalIdx |-> IF input.tid = -1 THEN 255 ELSE input.tid,
                LayerSync |-> input.layerSync,
                KeyIdx |-> input.keyIdx]
        /\ Result.idr <=> input.start /\ input.partition = 0 /\ Result.first = 0

(* The bit rate a peer asks for survives the 18 bits of the mantissa: it   *)
(* never grows, loses at most one part in 2^17, and is kept whole while it *)
(* fits in the mantissa (but for the highest mantissa, 0x3FFFF).           *)
RembRoundsDown ==
  HasRead("rate") =>
    /\ Result <= input
    /\ (input - Result) * 2 ^ 10 <= input \div 2 ^ 7
    /\ input < 2 ^ 18 - 1 => Result = input

=============================================================================
