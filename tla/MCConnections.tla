--------------------------- MODULE MCConnections ----------------------------
(* Constants of Connections for model checking. *)
EXTENDS Connections

MCCompounds ==
  { << "other", "PLI", "TCC", "FIR", "truncated" >>, << "PLI", "NACK", "SLI" >> }

=============================================================================
