----------------------------- MODULE PCManager ------------------------------
(***************************************************************************)
(* PCManager (global_tmp/global_tmp.cc) and the part of PeerConnection     *)
(* (pc/peer_connection.cc) it decides on.  client2PC_ is a function from   *)
(* the clients (an address, ordered as ClientSrcId orders them) that have  *)
(* a connection; an address is a number.                                   *)
(***************************************************************************)
EXTENDS Integers, FiniteSets, Functions

CONSTANTS Clients, kPCDeadTimeoutMs

ASSUME PCManagerAssumption == Clients \subseteq Nat \ {0} /\ kPCDeadTimeoutMs \in Nat

(* Mutant: the state is left at the first value of its type. *)
PeerConnectionZeroed(now) ==
  [stateMachine |-> "SDP_DONE", initTimeMs |-> now, lastActiveTimeMs |-> 0,
   upVideoSSRC |-> 0]

(* The constructor; the time of the last packet starts at zero. *)
PeerConnection(now) ==
  [stateMachine |-> "GOT_CANDIDATE", initTimeMs |-> now, lastActiveTimeMs |-> 0,
   upVideoSSRC |-> 0]

(* The map after a call; the connection found or made is its entry of a. *)
GetPeerConnection(client2PC, a, now) ==
  [c \in DOMAIN client2PC \cup {a} |->
     IF c \in DOMAIN client2PC THEN client2PC[c] ELSE PeerConnection(now)]

(* Mutants: a connection times out with its age, or at twice the time. *)
TimedOutByAge(pc, now) == pc.initTimeMs + kPCDeadTimeoutMs < now
TimedOutLate(pc, now) == pc.lastActiveTimeMs + 2 * kPCDeadTimeoutMs + 1 < now

TimedOut(pc, now) == pc.lastActiveTimeMs + kPCDeadTimeoutMs < now

(* Mutant: the loop ends at the first connection that has not timed out. *)
CleanFirst(client2PC, now) ==
  Restrict(client2PC, {c \in DOMAIN client2PC :
                         \E d \in DOMAIN client2PC : d <= c /\ ~TimedOut(client2PC[d], now)})

CleanTimeoutPeerConnection(client2PC, now) ==
  Restrict(client2PC, {c \in DOMAIN client2PC : ~TimedOut(client2PC[c], now)})

-----------------------------------------------------------------------------
(* Mutant: a client is its own peer. *)
CandidatesWithSelf(client2PC, a) ==
  {c \in DOMAIN client2PC : client2PC[c].stateMachine = "GOT_RTP"}

Candidates(client2PC, a) ==
  {c \in DOMAIN client2PC \ {a} : client2PC[c].stateMachine = "GOT_RTP"}

(* The connection made last among the others that have media; of several   *)
(* made in the same millisecond the first one of the map.  A set of one    *)
(* client, or empty for nullptr.                                           *)
FindPeerPC(client2PC, a) ==
  LET candidates == Candidates(client2PC, a)
      last == {c \in candidates :
                 \A d \in candidates : client2PC[d].initTimeMs <= client2PC[c].initTimeMs}
  IN  {c \in last : \A d \in last : c <= d}

=============================================================================
