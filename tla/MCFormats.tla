----------------------------- MODULE MCFormats ------------------------------
(***************************************************************************)
(* Inputs for Formats: every combination of the fields that decide which   *)
(* other fields are there, a few values of the rest.                       *)
(***************************************************************************)
EXTENDS Formats

(* A scaling list ends early where the deltas bring the scale to zero, at  *)
(* once or later, or is written out.                                       *)
AtOnce == << -8 >>
Later == << 1, -9 >>
Flat(n) == [i \in 1 .. n |-> 0]

MatrixLists ==
  { << >>,
    << AtOnce, << >>, Flat(16), Later, << >>, Later, Flat(64), AtOnce >>,
    << << >>, Later, << >>, << >>, Flat(16), << >>, Later, << >> >> }

(* Every chroma format, cropped and not. *)
MCSpsInputs ==
  { [profile |-> high[1], chroma |-> high[2], lists |-> high[3],
     orderType |-> order[1], order |-> order[2],
     widthMbs |-> size[1], heightUnits |-> size[2],
     frameMbsOnly |-> progressive, crop |-> crop] :
      high \in {<< 66, 1, << >> >>, << 110, 0, << >> >>,
                 << 122, 2, << >> >>, << 144, 3, << >> >>}
                 \cup {<< 100, 1, lists >> : lists \in MatrixLists},
      order \in {<< 0, << >> >>, << 2, << >> >>, << 1, << >> >>, << 1, << 3, -2 >> >>},
      size \in {<< 20, 15 >>, << 120, 68 >>},
      progressive \in {0, 1},
      crop \in {<< >>, << 0, 0, 0, 4 >>, << 1, 2, 3, 0 >>, << 5, 0, 0, 0 >>} }

MCSliceInputs == [firstMb : {0, 1, 7, 98}, type : 0 .. 9, rest : {<< >>, << 1, 0, 1 >>}]

MCCodeInputs ==
  [number : 0 .. 40 \cup {255, 256, 65534},
   before : {Zeros(n) : n \in 0 .. 8}, behind : {<< >>, << 1, 1, 1 >>}]

MCReadInputs ==
  [data : {<< >>, Binary(181, 8), Binary(54321, 16), Binary(11259375, 24)},
   pos : {0}, count : 0 .. 30]
   \cup
  [data : {Binary(54321, 16), Binary(11259375, 24)}, pos : 1 .. 16, count : 0 .. 30]

(* layerSync comes with a temporal layer. *)
MCDescriptorInputs ==
  { d \in [nonReference : BOOLEAN, start : BOOLEAN, partition : {0, 7},
           pictureId : {-1, 0, 127, 200}, longId : BOOLEAN, tl0 : {-1, 0, 255},
           tid : {-1, 0, 3}, layerSync : BOOLEAN, keyIdx : {-1, 0, 31}] :
      /\ d.pictureId = -1 => ~d.longId
      /\ d.pictureId > 127 => d.longId
      /\ d.tid = -1 => ~d.layerSync }

Mantissa == 2 ^ 18
MCRateInputs ==
  (0 .. 3) \cup { m * 2 ^ e + d : m \in {Mantissa - 2, Mantissa - 1, Mantissa, 150000},
                                  e \in 0 .. 11, d \in {0, 1} }

MCPacketInputs ==
  [cc : {0, 1, 2, 15}, extWords : {-1, 0, 1, 3}, payload : {0, 1, 1200},
   paddingBytes : {0, 1, 4, 127, 128, 255}]

=============================================================================
