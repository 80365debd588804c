-------------------------------- MODULE Nack --------------------------------
(***************************************************************************)
(* Negative acknowledgements (rtp/rtcp/rtcp_handler.cc, rtcp_parser.h): a  *)
(* block holds a sequence number pid and the bits blp of the numbers       *)
(* behind it.  The width of blp, 16 in the code, is BlpBits; a bit field   *)
(* is the set of its bits that are on.                                     *)
(***************************************************************************)
EXTENDS SeqNum, FiniteSets, FiniteSetsExt, Sequences, SequencesExt

CONSTANTS BlpBits, MaxNackBlocks

ASSUME NackAssumption == /\ BlpBits \in Nat \ {0}
                         /\ BlpBits < SeqSpan
                         /\ MaxNackBlocks \in Nat \ {0}

(* The bit of number x in a block of pid, in uint16_t arithmetic. *)
BlpBit(pid, x) == (x - pid - 1) % SeqSpan

(* Mutant of what follows: the bit behind the last one still fits. *)
FittingTooFar(lostSeqs, first) ==
  {x \in lostSeqs \ {first} :
     \A y \in lostSeqs : first < y /\ y <= x => BlpBit(first % SeqSpan, y) <= BlpBits}

(* The inner loop of CreateNackReportSend: the numbers behind the first    *)
(* one, in order, up to the one that does not fit.                         *)
Fitting(lostSeqs, first) ==
  {x \in lostSeqs \ {first} :
     \A y \in lostSeqs : first < y /\ y <= x => BlpBit(first % SeqSpan, y) < BlpBits}

(* A bit shifted out of the 16 bits of blp is lost. *)
Block(lostSeqs, first) ==
  [pid |-> first % SeqSpan,
   blp |-> {BlpBit(first % SeqSpan, x) : x \in Fitting(lostSeqs, first)}
             \cap (0 .. BlpBits - 1)]

(* The blocks CreateNackReportSend builds from the set of lost numbers,    *)
(* which it walks in ascending order.                                      *)
NackBlocks(lostSeqs) ==
  LET blocks[rest \in SUBSET lostSeqs] ==
        IF rest = {} THEN << >>
        ELSE LET first == Min(rest)
             IN  << Block(rest, first) >>
                   \o blocks[rest \ (Fitting(rest, first) \cup {first})]
  IN  blocks[lostSeqs]

(* SerializeNackSend_ refuses a packet of more than 2048 bytes. *)
Serializes(blocks) == Len(blocks) <= MaxNackBlocks

(* The numbers HandleNack reads out of the blocks. *)
SeqVect(blocks) ==
  UNION {{b.pid} \cup {(b.pid + i + 1) % SeqSpan : i \in b.blp} : b \in Range(blocks)}

=============================================================================
