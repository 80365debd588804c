------------------------------- MODULE H264Sps ------------------------------
(***************************************************************************)
(* What the client reads of H.264 headers: the size of the picture in a    *)
(* sequence parameter set (H264ParseSps, global_tmp/h264SpsDec.cc) and the *)
(* type of a slice (GetFrameType, global_tmp/h264NaluDec.cc).              *)
(***************************************************************************)
EXTENDS BitReader

(* The place behind n codes. *)
AfterCodes(data, start, n) ==
  LET after[k \in 0 .. n] == IF k = 0 THEN start ELSE exp_golomb_ue(data, after[k - 1])[2]
  IN  after[n]

(* The deltas of a scaling list end where the next scale is zero.  As long *)
(* as it is not, it is the last scale too.                                 *)
NextScale(scale, delta) == (scale + delta + 256) % 256

parse_scaling_list(data, start, size) ==
  LET list[i \in 0 .. size] ==
        IF i = 0 THEN << 8, start >>
        ELSE LET prior == list[i - 1]
                 delta == exp_golomb_se(data, prior[2])
             IN  IF prior[1] = 0 THEN prior
                 ELSE << NextScale(prior[1], delta[1]), delta[2] >>
  IN  list[size][2]

(* The scaling matrix: a flag for each of eight lists. *)
ScalingMatrix(data, start) ==
  LET after[i \in 0 .. 8] ==
        IF i = 0 THEN start
        ELSE LET flag == get_bit(data, after[i - 1])
             IN  IF flag[1] = 1
                 THEN parse_scaling_list(data, flag[2], IF i <= 6 THEN 16 ELSE 64)
                 ELSE flag[2]
  IN  after[8]

HighProfiles == {100, 110, 122, 144}

HighProfile(data, start) ==
  LET chroma == exp_golomb_ue(data, start)
      depths == AfterCodes(data, skip_bits(chroma[2], IF chroma[1] = 3 THEN 1 ELSE 0), 2)
      matrix == get_bit(data, skip_bits(depths, 1))
  IN  IF matrix[1] = 1 THEN ScalingMatrix(data, matrix[2]) ELSE matrix[2]

(* Mutant: the cycle of reference offsets is not read. *)
PicOrderCntNoCycle(data, start) ==
  LET type == exp_golomb_ue(data, start)
  IN  CASE type[1] = 0 -> AfterCodes(data, type[2], 1)
        [] type[1] = 1 -> AfterCodes(data, skip_bits(type[2], 1), 3)
        [] OTHER -> type[2]

PicOrderCnt(data, start) ==
  LET type == exp_golomb_ue(data, start)
      size == exp_golomb_ue(data, AfterCodes(data, skip_bits(type[2], 1), 2))
  IN  CASE type[1] = 0 -> AfterCodes(data, type[2], 1)
        [] type[1] = 1 -> AfterCodes(data, size[2], size[1])
        [] OTHER -> type[2]

(* What is cropped in pixels: left, right, top, bottom.                    *)
Cropped(side, value, frameMbsOnly) ==
  2 * value * (IF side > 2 /\ frameMbsOnly = 0 THEN 2 ELSE 1)

Cropping(data, start, frameMbsOnly) ==
  LET flag == get_bit(data, start)
      code(i) == exp_golomb_ue(data, AfterCodes(data, flag[2], i - 1))
  IN  IF flag[1] = 0 THEN [sides |-> << 0, 0, 0, 0 >>, end |-> flag[2]]
      ELSE [sides |-> [i \in 1 .. 4 |-> Cropped(i, code(i)[1], frameMbsOnly)],
            end |-> code(4)[2]]

(* end is the place behind the last thing read. *)
H264ParseSps(data) ==
  LET profile == get_bits(data, skip_bits(0, 8), 8)
      id == exp_golomb_ue(data, skip_bits(profile[2], 16))
      high == IF profile[1] \in HighProfiles THEN HighProfile(data, id[2]) ELSE id[2]
      order == PicOrderCnt(data, AfterCodes(data, high, 1))
      width == exp_golomb_ue(data, skip_bits(AfterCodes(data, order, 1), 1))
      height == exp_golomb_ue(data, width[2])
      frameMbsOnly == get_bit(data, height[2])
      crop == Cropping(data, skip_bits(frameMbsOnly[2], IF frameMbsOnly[1] = 1 THEN 1 ELSE 2),
                       frameMbsOnly[1])
  IN  [width |-> (width[1] + 1) * 16 - (crop.sides[1] + crop.sides[2]),
       height |-> ((height[1] + 1) * 16 - (crop.sides[3] + crop.sides[4]))
                    * (IF frameMbsOnly[1] = 1 THEN 1 ELSE 2),
       end |-> crop.end]

-----------------------------------------------------------------------------
(* Mutant: the second five slice types are not known. *)
GetFrameTypeLow(data) ==
  LET type == bs_read_ue(data, bs_read_ue(data, 0)[2])[1]
  IN  CASE type = 1 -> "B" [] type \in {2, 4} -> "I" [] OTHER -> "P"

(* data is the NAL unit without its first byte. *)
GetFrameType(data) ==
  LET type == bs_read_ue(data, bs_read_ue(data, 0)[2])[1]
  IN  CASE type \in {1, 6} -> "B" [] type \in {2, 7, 4, 9} -> "I" [] OTHER -> "P"

=============================================================================
