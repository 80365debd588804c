----------------------------- MODULE RtpFormats -----------------------------
(***************************************************************************)
(* How the bytes of a datagram are read: the demultiplexing of             *)
(* pc/peer_connection.h and rtp/rtp_parser.h, the parts of an RTP packet,  *)
(* the VP8 payload descriptor (rtp/pack_unpack/rtp_to_vp8.cc), and the     *)
(* bit rate in a REMB packet (rtp/rtcp/rtcp_parser.h).                     *)
(***************************************************************************)
EXTENDS Integers, Sequences, SequencesExt

Byte == 0 .. 255

(* Whether a bit, given as its value, is on. *)
On(byte, bit) == (byte \div bit) % 2 = 1

-----------------------------------------------------------------------------
(* The first byte of a datagram. *)
getPacketType(cSubCmd) ==
  CASE cSubCmd \in {0, 1} -> "STUN"
    [] cSubCmd \in 20 .. 64 -> "DTLS"
    [] cSubCmd \in 128 .. 191 -> "RTP"
    [] OTHER -> "UNKNOWN"

(* The second byte: the type of an RTCP packet, or marker and payload type *)
(* of RTP.  Mutant: up to the last value of a byte it is RTCP.             *)
isRtcpWide(packettype) == packettype >= 192
isRtcp(packettype) == packettype \in 192 .. 223

VideoTypes == (96 .. 101) \cup {106, 107, 116, 117, 125, 127}
AudioTypes == {103, 104, 111}

GetMediaType(byte) ==
  CASE isRtcp(byte) -> "rtcp"
    [] ~isRtcp(byte) /\ byte % 128 \in VideoTypes -> "video"
    [] ~isRtcp(byte) /\ byte % 128 \in AudioTypes -> "audio"
    [] OTHER -> ""

-----------------------------------------------------------------------------
(* An RTP packet of which the header fields are known: cc CSRCs, an        *)
(* extension of extWords words (-1: none), size bytes in all of which the  *)
(* last is lastByte.                                                       *)
kRtpHeaderLenByte == 12

getExtWholeLength(p) == 4 + 4 * p.extWords

getHeaderLength(p) ==
  kRtpHeaderLenByte + 4 * p.cc + IF p.extWords >= 0 THEN getExtWholeLength(p) ELSE 0

getRtpPaddingLength(p) == IF p.padding THEN p.lastByte ELSE 0

-----------------------------------------------------------------------------
(* ParseVP8Descriptor(data, data_length) with the data that long.  It      *)
(* returns the bytes parsed, or -1 when the data ends before the byte the  *)
(* next field starts with.                                                 *)

(* Mutant: a picture id is one byte. *)
PictureIdShort(data) == 1
PictureIdBytes(data) == IF On(data[3], 128) THEN 2 ELSE 1

(* The bytes of the optional fields, in their order, after the flags.      *)
OptionalBytes(data) ==
  LET flags == data[2]
  IN  << IF On(flags, 128) THEN IF Len(data) < 3 THEN 1 ELSE PictureIdBytes(data) ELSE 0,
         IF On(flags, 64) THEN 1 ELSE 0,
         IF On(flags, 32) \/ On(flags, 16) THEN 1 ELSE 0 >>

DescriptorSize(data) ==
  CASE data = << >> -> -1
    [] data # << >> /\ ~On(data[1], 128) -> 1
    [] Len(data) = 1 /\ On(data[1], 128) -> -1
    [] OTHER -> LET size == 2 + FoldLeft(LAMBDA n, b : n + b, 0, OptionalBytes(data))
                IN  IF Len(data) < size THEN -1 ELSE size

(* The fields, or only ret when the descriptor is cut off.  A field that   *)
(* is not there is left as the caller has set it: NO_PIC_IDX,              *)
(* NO_TL0_PIC_IDX and NO_KEY_IDX are -1, NO_TEMPORAL_IDX is 255.           *)
ParseVP8Descriptor(data) ==
  LET size == DescriptorSize(data)
      has(flag) == On(data[1], 128) /\ On(data[2], flag)
      tl0 == 3 + OptionalBytes(data)[1]
      tk == tl0 + OptionalBytes(data)[2]
  IN  IF size = -1 THEN [ret |-> -1]
      ELSE [ret |-> size,
            NonReference |-> On(data[1], 32),
            BeginningOfPartition |-> On(data[1], 16),
            PartitionId |-> data[1] % 16,
            PictureId |-> CASE ~has(128) -> -1
                            [] has(128) /\ PictureIdBytes(data) = 1 -> data[3] % 128
                            [] OTHER -> (data[3] % 128) * 256 + data[4],
            Tl0PicIdx |-> IF has(64) THEN data[tl0] ELSE -1,
            TemporalIdx |-> IF has(32) THEN data[tk] \div 64 ELSE 255,
            LayerSync |-> has(32) /\ On(data[tk], 32),
            KeyIdx |-> IF has(16) THEN data[tk] % 32 ELSE -1]

(* IsIdrFrame of a packet with this payload: the first packet of a frame   *)
(* whose VP8 header says key frame.                                        *)
IsIdrFrame(payload) ==
  LET vp8 == ParseVP8Descriptor(payload)
  IN  /\ vp8.ret # -1
      /\ vp8.PartitionId = 0 /\ vp8.BeginningOfPartition
      /\ Len(payload) > vp8.ret
      /\ ~On(payload[vp8.ret + 1], 1)

-----------------------------------------------------------------------------
(* The bit rate of a REMB packet: 18 bits of mantissa, 6 of exponent.      *)
maxMantissa == 262143   \* 0x3FFFF

(* Mutant: 19 bits are taken to fit.                                       *)
RembExpWide(bitRate) ==
  CHOOSE e \in 0 .. 63 : /\ bitRate < 524287 * 2 ^ e
                         /\ \A d \in 0 .. e - 1 : bitRate >= 524287 * 2 ^ d

(* The loop of setREMBBitRate for a rate of less than 2^31: the first      *)
(* exponent that the rate is below 0x3FFFF for.                            *)
RembExp(bitRate) ==
  CHOOSE e \in 0 .. 63 : /\ bitRate < maxMantissa * 2 ^ e
                         /\ \A d \in 0 .. e - 1 : bitRate >= maxMantissa * 2 ^ d

setREMBBitRate(bitRate) ==
  [exp |-> RembExp(bitRate) % 64, mantissa |-> (bitRate \div 2 ^ RembExp(bitRate)) % 262144]

(* The mantissa is shifted as a 32-bit number: enough for such a rate. *)
getREMBBitRate(remb) == remb.mantissa * 2 ^ remb.exp

=============================================================================
