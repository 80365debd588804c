------------------------------ MODULE MCClient ------------------------------
(* An instance of Client for TLC: the frames the encoder may produce. *)
EXTENDS Client

KeyFrame ==
  [data |-> << [kind |-> "stapA", nalus |-> << "sps", "pps" >>, start |-> FALSE],
               [kind |-> "single", nalus |-> << "idr" >>, start |-> FALSE] >>,
   fecNum |-> 1]

DeltaFrame ==
  [data |-> << [kind |-> "single", nalus |-> << "slice" >>, start |-> FALSE] >>,
   fecNum |-> 2]

KeyAndDelta == {KeyFrame, DeltaFrame}

=============================================================================
