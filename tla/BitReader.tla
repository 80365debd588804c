----------------------------- MODULE BitReader ------------------------------
(***************************************************************************)
(* The two readers of H.264 headers: bs_t (global_tmp/h264NaluDec.cc),     *)
(* which stops at the end of its buffer, and bit_buffer                    *)
(* (global_tmp/h264SpsDec.cc), which does not know where that is.          *)
(*                                                                         *)
(* A buffer is a sequence of bits.  Both readers keep a byte pointer and   *)
(* the place in that byte (i_left counts the bits left, read_bits those    *)
(* read); here that is one number, the bits read so far.  A read returns   *)
(* the value and the new place.                                            *)
(***************************************************************************)
EXTENDS Integers, Sequences, SequencesExt

(* The value of a sequence of bits, first bit highest. *)
Value(bits) == FoldLeft(LAMBDA v, b : 2 * v + b, 0, bits)

ByteAt(data, pos) == Value(SubSeq(data, 8 * (pos \div 8) + 1, 8 * (pos \div 8) + 8))

AtEnd(data, pos) == 8 * (pos \div 8) >= Len(data)

-----------------------------------------------------------------------------
(* bs_t *)

(* The low bits of the current byte, above the bits read, and below them   *)
(* those that are not asked for: i_left is 8 - (pos % 8).                    *)
FromByte(data, pos, count) ==
  (ByteAt(data, pos) \div 2 ^ (8 - (pos % 8) - count)) % 2 ^ count

(* Mutant: the bits of a byte are not moved in front of the next byte's. *)
bs_readUnshifted(data, start, i_count) ==
  LET read[n \in 0 .. i_count] ==
        LET pos == start + i_count - n
            i_left == 8 - (pos % 8)
        IN  IF n = 0 \/ AtEnd(data, pos) THEN << 0, pos >>
            ELSE IF i_left >= n THEN << FromByte(data, pos, n), pos + n >>
            ELSE LET rest == read[n - i_left]
                 IN  << FromByte(data, pos, i_left) + rest[1], rest[2] >>
  IN  read[i_count]

(* Up to 31 bits, byte by byte; n are still to be read. *)
bs_read(data, start, i_count) ==
  LET read[n \in 0 .. i_count] ==
        LET pos == start + i_count - n
            i_left == 8 - (pos % 8)
        IN  IF n = 0 \/ AtEnd(data, pos) THEN << 0, pos >>
            ELSE IF i_left >= n THEN << FromByte(data, pos, n), pos + n >>
            ELSE LET rest == read[n - i_left]
                 IN  << FromByte(data, pos, i_left) * 2 ^ (n - i_left) + rest[1],
                        rest[2] >>
  IN  read[i_count]

bs_read1(data, pos) ==
  IF AtEnd(data, pos) THEN << 0, pos >> ELSE << FromByte(data, pos, 1), pos + 1 >>

(* The zero bits counted and the place behind the bit that ends them: the  *)
(* first one, the last of the buffer, or the 33rd.                         *)
ZeroBits(data, start) ==
  LET count[i \in 0 .. 32] ==
        LET bit == bs_read1(data, start + i)
        IN  IF bit[1] = 0 /\ ~AtEnd(data, bit[2]) /\ i < 32
            THEN count[i + 1] ELSE << i, bit[2] >>
  IN  count[0]

bs_read_ue(data, pos) ==
  LET zeros == ZeroBits(data, pos)
      rest == bs_read(data, zeros[2], zeros[1])
  IN  << 2 ^ zeros[1] - 1 + rest[1], rest[2] >>

-----------------------------------------------------------------------------
(* bit_buffer *)

get_bit(data, pos) == << data[pos + 1], pos + 1 >>

get_bits(data, pos, nbits) == << Value(SubSeq(data, pos + 1, pos + nbits)), pos + nbits >>

skip_bits(pos, nbits) == pos + nbits

(* Of a code of at most 32 leading zeros; with more it returns 0.          *)
exp_golomb_ue(data, pos) ==
  LET zeros == CHOOSE z \in 0 .. Len(data) :
                 data[pos + z + 1] = 1 /\ \A i \in 1 .. z : data[pos + i] = 0
      rest == get_bits(data, pos + zeros + 1, zeros)
  IN  << 2 ^ zeros + rest[1] - 1, rest[2] >>

exp_golomb_se(data, pos) ==
  LET ue == exp_golomb_ue(data, pos)
  IN  << IF ue[1] % 2 = 0 THEN -(ue[1] \div 2) ELSE (ue[1] + 1) \div 2, ue[2] >>

=============================================================================
