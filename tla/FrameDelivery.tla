--------------------------- MODULE FrameDelivery ----------------------------
(***************************************************************************)
(* What the receive path promises the decoder: of the frames the peer      *)
(* produces it delivers some, each whole and unchanged, each at most once  *)
(* and in the order they were produced.                                    *)
(***************************************************************************)
EXTENDS Naturals, Sequences

VARIABLES
  produced,   \* the frames produced so far, each the sequence of its units
  delivered   \* <<number, units>> of every frame handed to the decoder

vars == << produced, delivered >>

Init == produced = << >> /\ delivered = << >>

Produce ==
  /\ Len(produced') = Len(produced) + 1
  /\ \A n \in DOMAIN produced : produced'[n] = produced[n]
  /\ UNCHANGED delivered

LastNumber == IF delivered = << >> THEN 0 ELSE delivered[Len(delivered)][1]

Deliver ==
  /\ \E n \in LastNumber + 1 .. Len(produced) :
       delivered' = Append(delivered, << n, produced[n] >>)
  /\ UNCHANGED produced

Next == Produce \/ Deliver

Spec == Init /\ [][Next]_vars

=============================================================================
