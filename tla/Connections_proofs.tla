------------------------- MODULE Connections_proofs -------------------------
(***************************************************************************)
(* Theorems about Connections, for every set of clients, every time-out    *)
(* and clean-up period, and every packet of feedback.                      *)
(*                                                                         *)
(* The argument rests on what each action does to the table: a clean-up    *)
(* keeps some entries as they are, signalling adds a fresh one at most,    *)
(* and a packet adds or renews the entry of its sender.                    *)
(***************************************************************************)
EXTENDS Connections, LeastNumber

(* A connection of client c. *)
ConnectionOf(c) ==
  [stateMachine : {"GOT_CANDIDATE", "GOT_RTP"}, initTimeMs : Nat,
   lastActiveTimeMs : Nat, upVideoSSRC : {0, c}]

IsTable(t) == DOMAIN t \subseteq Clients /\ \A c \in DOMAIN t : t[c] \in ConnectionOf(c)

(* A client heard of lately has a connection that knows it. *)
HeardKnown == \A c \in Clients :
  Recent(c) => c \in DOMAIN client2PC /\ client2PC[c].lastActiveTimeMs = heardAt[c]

(* A client that has sent video and not been silent since is known by it.  *)
VideoKnown == \A c \in withVideo :
  c \in Clients /\ Recent(c) /\ c \in DOMAIN client2PC /\ client2PC[c].upVideoSSRC = c

(* A connection that has received a packet has survived the last clean-up, *)
(* and one with media has received a packet.                               *)
MediaLive == \A c \in DOMAIN client2PC :
  /\ client2PC[c].stateMachine = "GOT_RTP" => client2PC[c].lastActiveTimeMs > 0
  /\ client2PC[c].lastActiveTimeMs > 0 =>
       /\ client2PC[c].lastActiveTimeMs = heardAt[c]
       /\ heardAt[c] + kPCDeadTimeoutMs >= lastClean

ClockInv == 0 < now /\ lastClean <= now /\ now - lastClean <= CleanPeriod

(* An entry as the constructor leaves it. *)
Unheard(pc) == pc.stateMachine = "GOT_CANDIDATE" /\ pc.lastActiveTimeMs = 0

USE PCManagerAssumption, ConnectionsAssumption

-----------------------------------------------------------------------------
(* The table after each kind of step. *)

(* Signalling keeps what is there. *)
LEMMA TableGot ==
  ASSUME NEW t, IsTable(t), NEW a \in Clients, NEW n \in Nat
  PROVE  /\ IsTable(GetPeerConnection(t, a, n))
         /\ DOMAIN GetPeerConnection(t, a, n) = DOMAIN t \cup {a}
         /\ \A c \in DOMAIN t : GetPeerConnection(t, a, n)[c] = t[c]
BY DEF GetPeerConnection, PeerConnection, IsTable, ConnectionOf

LEMMA TableGotNew ==
  ASSUME NEW t, NEW a \in Clients, a \notin DOMAIN t, NEW n
  PROVE  Unheard(GetPeerConnection(t, a, n)[a])
BY DEF GetPeerConnection, PeerConnection, Unheard

(* A packet renews the entry of its sender. *)
LEMMA TableHandled ==
  ASSUME NEW t, IsTable(t), NEW a \in DOMAIN t, now \in Nat
  PROVE  /\ IsTable(HandlePacket(t, a))
         /\ DOMAIN HandlePacket(t, a) = DOMAIN t
         /\ \A c \in DOMAIN t \ {a} : HandlePacket(t, a)[c] = t[c]
         /\ HandlePacket(t, a)[a].lastActiveTimeMs = now
         /\ HandlePacket(t, a)[a].initTimeMs = t[a].initTimeMs
         /\ HandlePacket(t, a)[a].upVideoSSRC = t[a].upVideoSSRC
<1>1. /\ DOMAIN HandlePacket(t, a) = DOMAIN t
      /\ \A c \in DOMAIN t \ {a} : HandlePacket(t, a)[c] = t[c]
      /\ HandlePacket(t, a)[a] = [t[a] EXCEPT !.lastActiveTimeMs = now]
  BY DEF HandlePacket
<1>2. t[a] \in ConnectionOf(a)
  BY DEF IsTable
<1> QED
  BY <1>1, <1>2 DEF IsTable, ConnectionOf

(* Both, for a client that may be new. *)
LEMMA TableConnected ==
  ASSUME IsTable(client2PC), NEW a \in Clients, now \in Nat
  PROVE  /\ IsTable(Connected(a))
         /\ DOMAIN Connected(a) = DOMAIN client2PC \cup {a}
         /\ \A c \in DOMAIN client2PC \ {a} : Connected(a)[c] = client2PC[c]
         /\ Connected(a)[a].lastActiveTimeMs = now
         /\ a \in DOMAIN client2PC =>
              /\ Connected(a)[a].initTimeMs = client2PC[a].initTimeMs
              /\ Connected(a)[a].upVideoSSRC = client2PC[a].upVideoSSRC
<1> DEFINE u == GetPeerConnection(client2PC, a, now)
<1>0. \E t, n : t = client2PC /\ n = now
  BY Zenon
<1>6. PICK t, n : t = client2PC /\ n = now
  BY <1>0, Zenon
<1>7. IsTable(t) /\ n \in Nat
  BY <1>6
<1>8. IsTable(GetPeerConnection(t, a, n))
  BY <1>7, TableGot
<1>9. DOMAIN GetPeerConnection(t, a, n) = DOMAIN t \cup {a}
  BY <1>7, TableGot
<1>10. \A c \in DOMAIN t : GetPeerConnection(t, a, n)[c] = t[c]
  BY <1>7, TableGot
<1>1. /\ IsTable(u) /\ DOMAIN u = DOMAIN client2PC \cup {a}
      /\ \A c \in DOMAIN client2PC : u[c] = client2PC[c]
  BY <1>6, <1>8, <1>9, <1>10
<1>2. Connected(a) = HandlePacket(u, a)
  BY DEF Connected
<1> HIDE DEF u
<1>3. a \in DOMAIN u
  BY <1>1
<1>4. /\ IsTable(HandlePacket(u, a))
      /\ DOMAIN HandlePacket(u, a) = DOMAIN u
      /\ \A c \in DOMAIN u \ {a} : HandlePacket(u, a)[c] = u[c]
      /\ HandlePacket(u, a)[a].lastActiveTimeMs = now
      /\ HandlePacket(u, a)[a].initTimeMs = u[a].initTimeMs
      /\ HandlePacket(u, a)[a].upVideoSSRC = u[a].upVideoSSRC
  BY <1>1, <1>3, TableHandled
<1> QED
  BY <1>1, <1>2, <1>3, <1>4

(* A clean-up keeps what has not timed out. *)
LEMMA TableCleaned ==
  ASSUME NEW t, IsTable(t)
  PROVE  /\ IsTable(CleanTimeoutPeerConnection(t, now))
         /\ DOMAIN CleanTimeoutPeerConnection(t, now) = {c \in DOMAIN t : ~TimedOut(t[c], now)}
         /\ \A c \in DOMAIN t : ~TimedOut(t[c], now) =>
              CleanTimeoutPeerConnection(t, now)[c] = t[c]
BY DEF CleanTimeoutPeerConnection, Restrict, IsTable

(* Whoever is found as a peer is another client with media. *)
LEMMA PeerHasMedia ==
  ASSUME NEW t, NEW a, NEW p \in FindPeerPC(t, a)
  PROVE  p \in DOMAIN t /\ p # a /\ t[p].stateMachine = "GOT_RTP"
BY DEF FindPeerPC, Candidates

(* What a packet of video leaves. *)
LEMMA TableVideo ==
  ASSUME IsTable(client2PC), NEW a \in Clients, now \in Nat, Video(a)
  PROVE  /\ IsTable(client2PC')
         /\ DOMAIN client2PC' = DOMAIN client2PC \cup {a}
         /\ \A c \in DOMAIN client2PC \ {a} : client2PC'[c] = client2PC[c]
         /\ client2PC'[a].lastActiveTimeMs = now
         /\ client2PC'[a].upVideoSSRC = a
         /\ a \in DOMAIN client2PC => client2PC'[a].initTimeMs = client2PC[a].initTimeMs
<1> DEFINE u == Connected(a)
<1>1. /\ IsTable(u) /\ DOMAIN u = DOMAIN client2PC \cup {a}
      /\ \A c \in DOMAIN client2PC \ {a} : u[c] = client2PC[c]
      /\ u[a].lastActiveTimeMs = now
      /\ a \in DOMAIN client2PC => u[a].initTimeMs = client2PC[a].initTimeMs
  BY TableConnected
<1>2. client2PC' = [u EXCEPT ![a].upVideoSSRC = a]
  BY DEF Video
<1> HIDE DEF u
<1>3. u[a] \in ConnectionOf(a)
  BY <1>1 DEF IsTable
<1>4. /\ DOMAIN client2PC' = DOMAIN u
      /\ \A c \in DOMAIN u \ {a} : client2PC'[c] = u[c]
      /\ client2PC'[a] = [u[a] EXCEPT !.upVideoSSRC = a]
  BY <1>1, <1>2
<1>6. PICK r : r = u[a]
  OBVIOUS
<1>7. r \in ConnectionOf(a)
  BY <1>3, <1>6
<1>5. /\ client2PC'[a] \in ConnectionOf(a)
      /\ client2PC'[a].lastActiveTimeMs = u[a].lastActiveTimeMs
      /\ client2PC'[a].initTimeMs = u[a].initTimeMs
      /\ client2PC'[a].upVideoSSRC = a
  BY <1>4, <1>6, <1>7 DEF ConnectionOf
<1> QED
  BY <1>1, <1>4, <1>5 DEF IsTable

-----------------------------------------------------------------------------
(* What every step does to the table and to what is known of the clients,  *)
(* in a form the invariants need: where an entry of the new table comes    *)
(* from.                                                                   *)
Kept(c) == c \in DOMAIN client2PC /\ client2PC'[c] = client2PC[c] /\ heardAt'[c] = heardAt[c]

Renewed(c) ==
  /\ heardAt'[c] = now
  /\ client2PC'[c].lastActiveTimeMs = now
  /\ c \in DOMAIN client2PC =>
       /\ client2PC'[c].initTimeMs = client2PC[c].initTimeMs
       /\ client2PC[c].upVideoSSRC # 0 => client2PC'[c].upVideoSSRC # 0
  /\ \/ withVideo' = withVideo
     \/ withVideo' = withVideo \cup {c} /\ client2PC'[c].upVideoSSRC = c

(* The table of a step in which client a was heard of. *)
PacketEffect(a) ==
  /\ IsTable(client2PC')
  /\ DOMAIN client2PC' = DOMAIN client2PC \cup {a}
  /\ \A c \in DOMAIN client2PC \ {a} : Kept(c)
  /\ Renewed(a)
  /\ heardAt' = [heardAt EXCEPT ![a] = now]
  /\ UNCHANGED << now, lastClean >>

LEMMA VideoEffect ==
  ASSUME TypeOK, NEW a \in Clients, Video(a)
  PROVE  PacketEffect(a) /\ failed' = failed /\ forwarded' = {}
<1>1. IsTable(client2PC) /\ now \in Nat /\ heardAt \in [Clients -> Nat]
  BY DEF TypeOK, IsTable, ConnectionOf
<1>2. /\ heardAt' = [heardAt EXCEPT ![a] = now] /\ withVideo' = withVideo \cup {a}
      /\ UNCHANGED << now, lastClean, failed >> /\ forwarded' = {}
  BY DEF Video, Heard
<1>3. /\ IsTable(client2PC')
      /\ DOMAIN client2PC' = DOMAIN client2PC \cup {a}
      /\ \A c \in DOMAIN client2PC \ {a} : client2PC'[c] = client2PC[c]
      /\ client2PC'[a].lastActiveTimeMs = now
      /\ client2PC'[a].upVideoSSRC = a
      /\ a \in DOMAIN client2PC => client2PC'[a].initTimeMs = client2PC[a].initTimeMs
  BY <1>1, TableVideo
<1>4. a # 0
  BY DEF PCManagerAssumption
<1>5. Renewed(a)
  BY <1>1, <1>2, <1>3, <1>4 DEF Renewed
<1>6. \A c \in DOMAIN client2PC \ {a} : Kept(c)
  BY <1>1, <1>2, <1>3 DEF Kept, IsTable
<1> QED
  BY <1>2, <1>3, <1>5, <1>6 DEF PacketEffect

LEMMA ConnectedEffect ==
  ASSUME TypeOK, NEW a \in Clients,
         client2PC' = Connected(a), Heard(a), UNCHANGED << now, lastClean, withVideo >>
  PROVE  PacketEffect(a)
<1>1. IsTable(client2PC) /\ now \in Nat /\ heardAt \in [Clients -> Nat]
  BY DEF TypeOK, IsTable, ConnectionOf
<1>2. heardAt' = [heardAt EXCEPT ![a] = now]
  BY DEF Heard
<1>3. /\ IsTable(client2PC')
      /\ DOMAIN client2PC' = DOMAIN client2PC \cup {a}
      /\ \A c \in DOMAIN client2PC \ {a} : client2PC'[c] = client2PC[c]
      /\ client2PC'[a].lastActiveTimeMs = now
      /\ a \in DOMAIN client2PC =>
           /\ client2PC'[a].initTimeMs = client2PC[a].initTimeMs
           /\ client2PC'[a].upVideoSSRC = client2PC[a].upVideoSSRC
  BY <1>1, TableConnected
<1>4. Renewed(a)
  BY <1>1, <1>2, <1>3 DEF Renewed
<1>5. \A c \in DOMAIN client2PC \ {a} : Kept(c)
  BY <1>1, <1>2, <1>3 DEF Kept, IsTable
<1> QED
  BY <1>2, <1>3, <1>4, <1>5 DEF PacketEffect

-----------------------------------------------------------------------------
(* A packet of any kind is a step of that effect on the table; feedback    *)
(* goes to a client the new table gives media, and the assert fails on     *)
(* that client if it has sent no video.                                    *)
LEMMA OtherEffect ==
  ASSUME TypeOK, NEW a \in Clients, OtherPacket(a)
  PROVE  PacketEffect(a) /\ failed' = failed /\ forwarded' = {}
<1>1. client2PC' = Connected(a) /\ Heard(a) /\ UNCHANGED << now, lastClean, withVideo >>
  BY DEF OtherPacket
<1>2. PacketEffect(a)
  BY <1>1, ConnectedEffect
<1>3. failed' = failed /\ forwarded' = {}
  BY DEF OtherPacket
<1> QED
  BY <1>2, <1>3

LEMMA FeedbackEffect ==
  ASSUME TypeOK, NEW a \in Clients, NEW parts, HandleRtcpPacket(a, parts)
  PROVE  /\ PacketEffect(a)
         /\ \A p \in failed' :
              p \in FindPeerPC(client2PC', a) /\ client2PC'[p].upVideoSSRC = 0
         /\ \A f \in forwarded' : f.from = a /\ f.to \in FindPeerPC(client2PC', a)
<1>1. client2PC' = Connected(a) /\ Heard(a) /\ UNCHANGED << now, lastClean, withVideo >>
  BY DEF HandleRtcpPacket
<1>2. PacketEffect(a)
  BY <1>1, ConnectedEffect
<1>3. failed' = {p \in FindPeerPC(client2PC', a) :
                   client2PC'[p].upVideoSSRC = 0 /\ Rewritten(parts) # {}}
  BY <1>1 DEF HandleRtcpPacket
<1>4. \A f \in forwarded' : f.from = a /\ f.to \in FindPeerPC(client2PC', a)
  BY <1>1 DEF HandleRtcpPacket
<1> QED
  BY <1>2, <1>3, <1>4

-----------------------------------------------------------------------------
(* What a packet preserves: the invariant but for the assert.              *)
TableInv ==
  /\ now \in Nat /\ lastClean \in Nat /\ IsTable(client2PC)
  /\ heardAt \in [Clients -> Nat]
  /\ HeardKnown /\ VideoKnown /\ MediaLive /\ ClockInv

LEMMA PacketKeepsTable ==
  ASSUME TableInv, NEW a \in Clients, PacketEffect(a)
  PROVE  TableInv'
<1>0. /\ now \in Nat /\ lastClean \in Nat /\ heardAt \in [Clients -> Nat]
      /\ IsTable(client2PC)
  BY DEF TableInv
<1>1. /\ IsTable(client2PC')
      /\ DOMAIN client2PC' = DOMAIN client2PC \cup {a}
      /\ heardAt' = [heardAt EXCEPT ![a] = now]
      /\ UNCHANGED << now, lastClean >>
  BY DEF PacketEffect
<1>2. \A c \in DOMAIN client2PC \ {a} : client2PC'[c] = client2PC[c] /\ heardAt'[c] = heardAt[c]
  BY DEF PacketEffect, Kept
<1>3. /\ heardAt'[a] = now
      /\ client2PC'[a].lastActiveTimeMs = now
      /\ a \in DOMAIN client2PC /\ client2PC[a].upVideoSSRC # 0
           => client2PC'[a].upVideoSSRC # 0
      /\ \/ withVideo' = withVideo
         \/ withVideo' = withVideo \cup {a} /\ client2PC'[a].upVideoSSRC = a
  BY DEF PacketEffect, Renewed
<1>4. now' \in Nat /\ lastClean' \in Nat /\ IsTable(client2PC') /\ heardAt' \in [Clients -> Nat]
  BY <1>0, <1>1
<1>5. VideoKnown'
  <2> SUFFICES ASSUME NEW c \in withVideo'
               PROVE  /\ c \in Clients /\ Recent(c)'
                      /\ c \in DOMAIN client2PC' /\ client2PC'[c].upVideoSSRC = c
    BY DEF VideoKnown
  <2>1. c # a => c \in withVideo
    BY <1>3
  <2>2. c \in withVideo =>
          c \in Clients /\ Recent(c) /\ c \in DOMAIN client2PC /\ client2PC[c].upVideoSSRC = c
    BY DEF TableInv, VideoKnown
  <2>3. CASE c = a
    <3>1. Recent(a)'
      BY <1>0, <1>1, <1>3 DEF TableInv, ClockInv, Recent, HeardWithin, PCManagerAssumption
    <3>2. client2PC'[a].upVideoSSRC \in {0, a} /\ a # 0
      BY <1>1 DEF IsTable, ConnectionOf, PCManagerAssumption
    <3>3. client2PC'[a].upVideoSSRC = a
      BY <1>3, <2>2, <2>3, <3>2
    <3> QED
      BY <1>1, <2>3, <3>1, <3>3
  <2>4. CASE c # a
    <3>1. heardAt'[c] = heardAt[c] /\ client2PC'[c] = client2PC[c]
      BY <1>2, <2>1, <2>2, <2>4
    <3>2. Recent(c)'
      BY <1>1, <2>1, <2>2, <2>4, <3>1 DEF Recent, HeardWithin
    <3> QED
      BY <1>1, <2>1, <2>2, <2>4, <3>1, <3>2
  <2> QED
    BY <2>3, <2>4
<1>6. HeardKnown'
  <2> SUFFICES ASSUME NEW c \in Clients, Recent(c)'
               PROVE  c \in DOMAIN client2PC' /\ client2PC'[c].lastActiveTimeMs = heardAt'[c]
    BY DEF HeardKnown
  <2>1. CASE c = a
    BY <2>1, <1>1, <1>3
  <2>2. CASE c # a
    <3>1. heardAt'[c] = heardAt[c]
      BY <1>0, <1>1, <2>2
    <3>2. Recent(c)
      BY <1>1, <3>1 DEF Recent, HeardWithin
    <3>3. c \in DOMAIN client2PC /\ client2PC[c].lastActiveTimeMs = heardAt[c]
      BY <3>2 DEF TableInv, HeardKnown
    <3> QED
      BY <1>1, <1>2, <2>2, <3>3
  <2> QED
    BY <2>1, <2>2
<1>7. MediaLive'
  <2> SUFFICES ASSUME NEW c \in DOMAIN client2PC'
               PROVE  /\ client2PC'[c].stateMachine = "GOT_RTP" => client2PC'[c].lastActiveTimeMs > 0
                      /\ client2PC'[c].lastActiveTimeMs > 0 =>
                           /\ client2PC'[c].lastActiveTimeMs = heardAt'[c]
                           /\ heardAt'[c] + kPCDeadTimeoutMs >= lastClean'
    BY DEF MediaLive
  <2>1. CASE c = a
    <3>1. lastClean <= now /\ now > 0
      BY DEF TableInv, ClockInv
    <3> QED
      BY <2>1, <1>0, <1>1, <1>3, <3>1 DEF PCManagerAssumption
  <2>2. CASE c # a
    BY <1>1, <1>2, <2>2 DEF TableInv, MediaLive
  <2> QED
    BY <2>1, <2>2
<1>8. ClockInv'
  BY <1>1 DEF TableInv, ClockInv
<1> QED
  BY <1>4, <1>5, <1>6, <1>7, <1>8 DEF TableInv

LEMMA TickKeepsTable ==
  ASSUME TableInv, Tick
  PROVE  TableInv'
<1>0. now \in Nat /\ lastClean \in Nat /\ heardAt \in [Clients -> Nat]
  BY DEF TableInv
<1>1. /\ now' = now + 1 /\ now - lastClean < CleanPeriod
      /\ withVideo' = {c \in withVideo : HeardWithin(c, now + 1)}
      /\ UNCHANGED << client2PC, lastClean, heardAt >>
  BY DEF Tick
<1>2. HeardKnown'
  <2> SUFFICES ASSUME NEW c \in Clients, Recent(c)'
               PROVE  c \in DOMAIN client2PC' /\ client2PC'[c].lastActiveTimeMs = heardAt'[c]
    BY DEF HeardKnown
  <2>1. Recent(c)
    BY <1>0, <1>1 DEF Recent, HeardWithin, PCManagerAssumption
  <2> QED
    BY <1>1, <2>1 DEF TableInv, HeardKnown
<1>3. MediaLive'
  BY <1>1 DEF TableInv, MediaLive
<1>6. VideoKnown'
  BY <1>1 DEF TableInv, VideoKnown, Recent, HeardWithin
<1>4. ClockInv'
  BY <1>0, <1>1 DEF TableInv, ClockInv, ConnectionsAssumption
<1>5. now' \in Nat /\ lastClean' \in Nat /\ IsTable(client2PC') /\ heardAt' \in [Clients -> Nat]
  BY <1>1 DEF TableInv, IsTable
<1> QED
  BY <1>2, <1>3, <1>4, <1>5, <1>6 DEF TableInv

LEMMA CleanKeepsTable ==
  ASSUME TableInv, Clean
  PROVE  TableInv'
<1>0. now \in Nat /\ lastClean \in Nat /\ heardAt \in [Clients -> Nat] /\ IsTable(client2PC)
  BY DEF TableInv
<1>1. /\ client2PC' = CleanTimeoutPeerConnection(client2PC, now)
      /\ lastClean' = now /\ UNCHANGED << now, heardAt, withVideo >>
  BY DEF Clean
<1>2. /\ IsTable(client2PC')
      /\ DOMAIN client2PC' = {c \in DOMAIN client2PC : ~TimedOut(client2PC[c], now)}
      /\ \A c \in DOMAIN client2PC : ~TimedOut(client2PC[c], now) => client2PC'[c] = client2PC[c]
  BY <1>0, <1>1, TableCleaned
<1>3. \A c \in DOMAIN client2PC' :
        /\ c \in DOMAIN client2PC /\ client2PC'[c] = client2PC[c]
        /\ client2PC[c].lastActiveTimeMs + kPCDeadTimeoutMs >= now
  <2> SUFFICES ASSUME NEW c \in DOMAIN client2PC'
               PROVE  /\ c \in DOMAIN client2PC /\ client2PC'[c] = client2PC[c]
                      /\ client2PC[c].lastActiveTimeMs + kPCDeadTimeoutMs >= now
    OBVIOUS
  <2>1. c \in DOMAIN client2PC /\ ~TimedOut(client2PC[c], now) /\ client2PC'[c] = client2PC[c]
    BY <1>2
  <2>2. client2PC[c].lastActiveTimeMs \in Nat
    BY <1>0, <2>1 DEF IsTable, ConnectionOf
  <2> QED
    BY <1>0, <2>1, <2>2 DEF TimedOut, PCManagerAssumption
<1>4. \A c \in Clients : Recent(c) =>
        /\ client2PC[c].lastActiveTimeMs = heardAt[c]
        /\ c \in DOMAIN client2PC' /\ client2PC'[c] = client2PC[c]
  <2> SUFFICES ASSUME NEW c \in Clients, Recent(c)
               PROVE  /\ client2PC[c].lastActiveTimeMs = heardAt[c]
                      /\ c \in DOMAIN client2PC' /\ client2PC'[c] = client2PC[c]
    OBVIOUS
  <2>1. heardAt[c] + kPCDeadTimeoutMs >= now
    BY DEF Recent, HeardWithin
  <2>2. c \in DOMAIN client2PC /\ client2PC[c].lastActiveTimeMs = heardAt[c]
    BY DEF TableInv, HeardKnown
  <2>3. ~TimedOut(client2PC[c], now)
    BY <1>0, <2>1, <2>2 DEF TimedOut, PCManagerAssumption
  <2> QED
    BY <1>2, <2>2, <2>3
<1>5. HeardKnown' /\ VideoKnown'
  <2>1. \A c \in Clients : Recent(c)' <=> Recent(c)
    BY <1>1 DEF Recent, HeardWithin
  <2> QED
    BY <1>1, <1>4, <2>1 DEF TableInv, HeardKnown, VideoKnown
<1>6. MediaLive'
  <2> SUFFICES ASSUME NEW c \in DOMAIN client2PC'
               PROVE  /\ client2PC'[c].stateMachine = "GOT_RTP" => client2PC'[c].lastActiveTimeMs > 0
                      /\ client2PC'[c].lastActiveTimeMs > 0 =>
                           /\ client2PC'[c].lastActiveTimeMs = heardAt'[c]
                           /\ heardAt'[c] + kPCDeadTimeoutMs >= lastClean'
    BY DEF MediaLive
  <2>1. c \in DOMAIN client2PC /\ client2PC'[c] = client2PC[c]
        /\ client2PC[c].lastActiveTimeMs + kPCDeadTimeoutMs >= now
    BY <1>3
  <2>2. /\ client2PC[c].stateMachine = "GOT_RTP" => client2PC[c].lastActiveTimeMs > 0
        /\ client2PC[c].lastActiveTimeMs > 0 => client2PC[c].lastActiveTimeMs = heardAt[c]
    BY <2>1 DEF TableInv, MediaLive
  <2> QED
    BY <1>1, <2>1, <2>2
<1>7. ClockInv'
  BY <1>0, <1>1 DEF TableInv, ClockInv, ConnectionsAssumption
<1>8. now' \in Nat /\ lastClean' \in Nat /\ heardAt' \in [Clients -> Nat]
  BY <1>0, <1>1
<1> QED
  BY <1>2, <1>5, <1>6, <1>7, <1>8 DEF TableInv

LEMMA GotCandidateTable ==
  ASSUME TableInv, NEW a \in Clients, GotCandidate(a)
  PROVE  /\ IsTable(client2PC')
         /\ DOMAIN client2PC' = DOMAIN client2PC \cup {a}
         /\ \A c \in DOMAIN client2PC : client2PC'[c] = client2PC[c]
         /\ a \notin DOMAIN client2PC => Unheard(client2PC'[a])
<1>0. \E t, n : t = client2PC /\ n = now
  BY Zenon
<1>1. PICK t, n : t = client2PC /\ n = now
  BY <1>0, Zenon
<1>2. IsTable(t) /\ n \in Nat
  BY <1>1 DEF TableInv
<1>3. IsTable(GetPeerConnection(t, a, n))
  BY <1>2, TableGot
<1>5. DOMAIN GetPeerConnection(t, a, n) = DOMAIN t \cup {a}
  BY <1>2, TableGot
<1>6. \A c \in DOMAIN t : GetPeerConnection(t, a, n)[c] = t[c]
  BY <1>2, TableGot
<1>7. a \notin DOMAIN t => Unheard(GetPeerConnection(t, a, n)[a])
  BY TableGotNew
<1>4. client2PC' = GetPeerConnection(t, a, n)
  BY <1>1 DEF GotCandidate
<1> QED
  BY <1>1, <1>3, <1>4, <1>5, <1>6, <1>7

LEMMA GotCandidateKeepsTable ==
  ASSUME TableInv, NEW a \in Clients, GotCandidate(a)
  PROVE  TableInv'
<1>1. UNCHANGED << now, lastClean, heardAt, withVideo >>
  BY DEF GotCandidate
<1>2. /\ IsTable(client2PC')
      /\ DOMAIN client2PC' = DOMAIN client2PC \cup {a}
      /\ \A c \in DOMAIN client2PC : client2PC'[c] = client2PC[c]
      /\ a \notin DOMAIN client2PC => Unheard(client2PC'[a])
  BY GotCandidateTable
<1>3. MediaLive'
  BY <1>1, <1>2 DEF TableInv, MediaLive, Unheard
<1>4. HeardKnown' /\ VideoKnown'
  BY <1>1, <1>2 DEF TableInv, HeardKnown, VideoKnown, Recent, HeardWithin
<1>5. ClockInv'
  BY <1>1 DEF TableInv, ClockInv
<1> QED
  BY <1>1, <1>2, <1>3, <1>4, <1>5 DEF TableInv

(* The state alone moves. *)
LEMMA GotRtpTable ==
  ASSUME TableInv, NEW a \in Clients, GotRtp(a)
  PROVE  /\ IsTable(client2PC')
         /\ DOMAIN client2PC' = DOMAIN client2PC
         /\ client2PC[a].lastActiveTimeMs > 0
         /\ \A c \in DOMAIN client2PC :
              /\ c # a => client2PC'[c] = client2PC[c]
              /\ client2PC'[c].initTimeMs = client2PC[c].initTimeMs
              /\ client2PC'[c].lastActiveTimeMs = client2PC[c].lastActiveTimeMs
              /\ client2PC'[c].upVideoSSRC = client2PC[c].upVideoSSRC
<1>1. /\ a \in DOMAIN client2PC /\ client2PC[a].lastActiveTimeMs > 0
      /\ client2PC' = [client2PC EXCEPT ![a].stateMachine = "GOT_RTP"]
  BY DEF GotRtp
<1>2. /\ DOMAIN client2PC' = DOMAIN client2PC
      /\ \A c \in DOMAIN client2PC : c # a => client2PC'[c] = client2PC[c]
      /\ client2PC'[a] = [client2PC[a] EXCEPT !.stateMachine = "GOT_RTP"]
  BY <1>1
<1>3. PICK r : r = client2PC[a]
  OBVIOUS
<1>4. r \in ConnectionOf(a)
  BY <1>1, <1>3 DEF TableInv, IsTable
<1>5. /\ client2PC'[a] \in ConnectionOf(a)
      /\ client2PC'[a].initTimeMs = client2PC[a].initTimeMs
      /\ client2PC'[a].lastActiveTimeMs = client2PC[a].lastActiveTimeMs
      /\ client2PC'[a].upVideoSSRC = client2PC[a].upVideoSSRC
  BY <1>2, <1>3, <1>4 DEF ConnectionOf
<1>6. IsTable(client2PC')
  BY <1>2, <1>5 DEF TableInv, IsTable
<1> QED
  BY <1>1, <1>2, <1>5, <1>6

LEMMA GotRtpKeepsTable ==
  ASSUME TableInv, NEW a \in Clients, GotRtp(a)
  PROVE  TableInv'
<1>1. UNCHANGED << now, lastClean, heardAt, withVideo >>
  BY DEF GotRtp
<1>2. /\ IsTable(client2PC')
      /\ DOMAIN client2PC' = DOMAIN client2PC
      /\ client2PC[a].lastActiveTimeMs > 0
      /\ \A c \in DOMAIN client2PC :
           /\ c # a => client2PC'[c] = client2PC[c]
           /\ client2PC'[c].lastActiveTimeMs = client2PC[c].lastActiveTimeMs
           /\ client2PC'[c].upVideoSSRC = client2PC[c].upVideoSSRC
  BY GotRtpTable
<1>3. MediaLive'
  BY <1>1, <1>2 DEF TableInv, MediaLive
<1>4. HeardKnown' /\ VideoKnown'
  BY <1>1, <1>2 DEF TableInv, HeardKnown, VideoKnown, Recent, HeardWithin
<1>5. ClockInv'
  BY <1>1 DEF TableInv, ClockInv
<1> QED
  BY <1>1, <1>2, <1>3, <1>4, <1>5 DEF TableInv

-----------------------------------------------------------------------------
(* Every state.                                                            *)

(* The assert fails on a peer without video, and who has sent video and    *)
(* not been silent since has it.                                           *)
LEMMA FeedbackKeeps ==
  ASSUME TableInv, TypeOK, NEW a \in Clients, NEW parts,
         HandleRtcpPacket(a, parts)
  PROVE  TableInv' /\ failed' \subseteq Clients /\ failed' \cap withVideo' = {}
<1>1. /\ PacketEffect(a)
      /\ \A p \in failed' :
           p \in FindPeerPC(client2PC', a) /\ client2PC'[p].upVideoSSRC = 0
  BY FeedbackEffect
<1>2. TableInv'
  BY <1>1, PacketKeepsTable
<1>3. failed' \subseteq Clients
  BY <1>1, <1>2, PeerHasMedia DEF TableInv, IsTable
<1>4. \A p \in withVideo' : p \in Clients /\ client2PC'[p].upVideoSSRC = p
  BY <1>2 DEF TableInv, VideoKnown
<1>5. failed' \cap withVideo' = {}
  BY <1>1, <1>4 DEF PCManagerAssumption
<1> QED
  BY <1>2, <1>3, <1>5

(* The invariant with the assert. *)
FullInv == TableInv /\ failed \subseteq Clients /\ AssertHoldsWithVideo

LEMMA FullInvInit == Init => FullInv
<1> SUFFICES ASSUME Init PROVE FullInv
  OBVIOUS
<1>1. /\ now = Start /\ lastClean = Start /\ heardAt = [c \in Clients |-> 0]
      /\ withVideo = {} /\ failed = {}
  BY DEF Init
<1>2. DOMAIN client2PC = {}
  BY DEF Init
<1>3. \A c \in Clients : ~Recent(c)
  BY <1>1 DEF Recent
<1> QED
  BY <1>1, <1>2, <1>3 DEF FullInv, TableInv, IsTable, HeardKnown, VideoKnown, MediaLive,
    ClockInv, AssertHoldsWithVideo, PCManagerAssumption, ConnectionsAssumption

LEMMA FullInvTypes == FullInv => TypeOK
<1> SUFFICES ASSUME FullInv PROVE TypeOK
  OBVIOUS
<1>1. withVideo \subseteq Clients
  BY DEF FullInv, TableInv, VideoKnown
<1> QED
  BY <1>1 DEF FullInv, TableInv, TypeOK, IsTable, ConnectionOf

(* Every packet is a PacketEffect that keeps the invariant. *)
LEMMA PacketStep ==
  ASSUME FullInv, failed = {}, NEW a \in Clients, Packet(a)
  PROVE  PacketEffect(a) /\ FullInv'
<1>1. TypeOK /\ TableInv
  BY FullInvTypes DEF FullInv
<1>2. CASE Video(a)
  <2>1. PacketEffect(a) /\ failed' = failed
    BY <1>1, <1>2, VideoEffect
  <2>2. TableInv'
    BY <1>1, <2>1, PacketKeepsTable
  <2> QED
    BY <2>1, <2>2 DEF FullInv, AssertHoldsWithVideo
<1>3. CASE OtherPacket(a)
  <2>1. PacketEffect(a) /\ failed' = failed
    BY <1>1, <1>3, OtherEffect
  <2>2. TableInv'
    BY <1>1, <2>1, PacketKeepsTable
  <2> QED
    BY <2>1, <2>2 DEF FullInv, AssertHoldsWithVideo
<1>4. ASSUME NEW parts \in Compounds, HandleRtcpPacket(a, parts)
      PROVE  PacketEffect(a) /\ FullInv'
  <2>1. PacketEffect(a)
    BY <1>1, <1>4, FeedbackEffect
  <2>2. TableInv' /\ failed' \subseteq Clients /\ failed' \cap withVideo' = {}
    BY <1>1, <1>4, FeedbackKeeps
  <2> QED
    BY <2>1, <2>2 DEF FullInv, AssertHoldsWithVideo
<1> QED
  BY <1>2, <1>3, <1>4 DEF Packet

LEMMA FullInvStep == FullInv /\ [Next]_vars => FullInv'
<1> SUFFICES ASSUME FullInv, [Next]_vars PROVE FullInv'
  OBVIOUS
<1>1. TableInv
  BY DEF FullInv
<1>2. CASE UNCHANGED vars
  BY <1>2 DEF FullInv, TableInv, IsTable, HeardKnown, VideoKnown, MediaLive, ClockInv,
    Recent, HeardWithin, AssertHoldsWithVideo, vars
<1>3. ASSUME Next PROVE FullInv'
  <2>0. failed = {}
    BY <1>3 DEF Next
  <2>1. ASSUME TableInv', failed' = failed PROVE FullInv'
    BY <2>0, <2>1 DEF FullInv, AssertHoldsWithVideo
  <2>2. CASE Tick
    BY <1>1, <2>1, <2>2, TickKeepsTable DEF Tick
  <2>3. CASE Clean
    BY <1>1, <2>1, <2>3, CleanKeepsTable DEF Clean
  <2>4. ASSUME NEW a \in Clients, GotCandidate(a) PROVE FullInv'
    BY <1>1, <2>1, <2>4, GotCandidateKeepsTable DEF GotCandidate
  <2>5. ASSUME NEW a \in Clients, GotRtp(a) PROVE FullInv'
    BY <1>1, <2>1, <2>5, GotRtpKeepsTable DEF GotRtp
  <2>6. ASSUME NEW a \in Clients, Packet(a) PROVE FullInv'
    BY <2>0, <2>6, PacketStep
  <2> QED
    BY <1>3, <2>2, <2>3, <2>4, <2>5, <2>6 DEF Next
<1> QED
  BY <1>2, <1>3

(* The inductive invariant holds in every reachable state. *)
LEMMA Reachable == Spec => []FullInv
<1> QED
  BY FullInvInit, FullInvStep, PTL DEF Spec

(* The types of the table, the clock and the history. *)
THEOREM TypeCorrect == Spec => []TypeOK
<1> QED
  BY Reachable, FullInvTypes, PTL

(* The assert of HandleRtcpPacket on the peer's video SSRC never fails on  *)
(* a client that has sent video and not been silent for longer than the    *)
(* time-out since, whatever moves its state, and when.                     *)
THEOREM AssertHolds == Spec => []AssertHoldsWithVideo
<1>1. FullInv => AssertHoldsWithVideo
  BY DEF FullInv
<1> QED
  BY <1>1, Reachable, PTL

-----------------------------------------------------------------------------
(* The packet handed on. *)

(* Of a compound without a NACK that is reached, everything up to a        *)
(* truncated part is reached.                                              *)
LEMMA AllReached ==
  ASSUME NEW parts \in Compounds, ~ \E i \in Reached(parts) : parts[i] = "NACK",
         NEW i \in DOMAIN parts, parts[i] # "truncated"
  PROVE  i \in Reached(parts)
<1> DEFINE q == {j \in 1 .. i : parts[j] = "NACK"}
<1>0. parts \in Seq(Kinds) /\ DOMAIN parts = 1 .. Len(parts) /\ Len(parts) \in Nat
  BY DEF ConnectionsAssumption
<1>1. \A j \in 1 .. i : parts[j] # "truncated"
  <2> SUFFICES ASSUME NEW j \in 1 .. i, parts[j] = "truncated" PROVE FALSE
    OBVIOUS
  <2>1. j \in DOMAIN parts /\ j <= i /\ i <= Len(parts)
    BY <1>0
  <2>2. j = Len(parts)
    BY <2>1, TruncatedIsLast
  <2> QED
    BY <1>0, <2>1, <2>2
<1>2. CASE q = {}
  BY <1>0, <1>1, <1>2 DEF Reached
<1>3. CASE q # {}
  <2>1. q \subseteq Nat
    BY <1>0
  <2>2. PICK x \in q : \A y \in q : x <= y
    BY <1>3, <2>1, LeastExists
  <2>3. x \in DOMAIN parts /\ x \in 1 .. i /\ parts[x] = "NACK"
    BY <1>0
  <2>4. \A j \in 1 .. x : j < x => parts[j] # "NACK"
    BY <1>0, <2>2, <2>3
  <2>5. x \in Reached(parts)
    BY <1>0, <1>1, <2>3, <2>4 DEF Reached
  <2> QED
    BY <2>3, <2>5
<1> QED
  BY <1>2, <1>3

LEMMA RequestsStep ==
  FullInv /\ RequestsNameTheirSource /\ [Next]_vars => RequestsNameTheirSource'
<1> SUFFICES ASSUME FullInv, RequestsNameTheirSource, [Next]_vars
             PROVE  RequestsNameTheirSource'
  OBVIOUS
<1>1. CASE UNCHANGED vars
  BY <1>1 DEF RequestsNameTheirSource, vars
<1>2. CASE forwarded' = {}
  BY <1>2 DEF RequestsNameTheirSource
<1>3. ASSUME failed = {}, NEW a \in Clients, NEW parts \in Compounds, HandleRtcpPacket(a, parts)
      PROVE  RequestsNameTheirSource'
  <2> SUFFICES ASSUME NEW f \in forwarded', NEW i \in DOMAIN f.parts,
                      f.parts[i] \in KeyframeRequests
               PROVE  i \in DOMAIN f.media /\ f.media[i] = f.to
    BY DEF RequestsNameTheirSource
  <2>1. FullInv'
    BY <1>3, PacketStep DEF Packet
  <2>2. client2PC' = Connected(a)
    BY <1>3 DEF HandleRtcpPacket
  <2>3. PICK p \in FindPeerPC(client2PC', a) :
          f = [from |-> a, to |-> p, parts |-> parts,
               media |-> [j \in Rewritten(parts) |-> client2PC'[p].upVideoSSRC]]
    BY <1>3, <2>2 DEF HandleRtcpPacket
  <2>4. ~ \E j \in Reached(parts) : parts[j] = "NACK"
    BY <1>3, <2>2 DEF HandleRtcpPacket
  <2>5. i \in DOMAIN parts /\ parts[i] \in KeyframeRequests
    BY <2>3
  <2>6. parts[i] # "truncated"
    BY <2>5 DEF KeyframeRequests
  <2>7. i \in Rewritten(parts)
    BY <2>4, <2>5, <2>6, AllReached DEF Rewritten
  <2>8. client2PC'[p].upVideoSSRC # 0
    BY <1>3, <2>2, <2>7 DEF HandleRtcpPacket
  <2>9. client2PC'[p].upVideoSSRC = p
    BY <2>1, <2>8, PeerHasMedia DEF FullInv, TableInv, IsTable, ConnectionOf
  <2> QED
    BY <2>3, <2>7, <2>9
<1>4. Tick \/ Clean
        \/ (\E a \in Clients : GotCandidate(a) \/ GotRtp(a) \/ Video(a) \/ OtherPacket(a))
        => forwarded' = {}
  BY DEF Tick, Clean, GotCandidate, GotRtp, Video, OtherPacket
<1> QED
  BY <1>1, <1>2, <1>3, <1>4 DEF Next, Packet

(* In the packet handed on, every request for a key frame, wherever it     *)
(* stands in the compound, names the video of the client it goes to.       *)
THEOREM RequestsNamed == Spec => []RequestsNameTheirSource
<1>1. Init => RequestsNameTheirSource
  BY DEF Init, RequestsNameTheirSource
<1> QED
  BY <1>1, RequestsStep, Reachable, PTL DEF Spec

-----------------------------------------------------------------------------
(* What a step does to the connection of a client heard of lately. *)
KeptFor(a) ==
  Recent(a) /\ Recent(a)' =>
    /\ a \in DOMAIN client2PC /\ a \in DOMAIN client2PC'
    /\ client2PC'[a].initTimeMs = client2PC[a].initTimeMs
    /\ client2PC[a].upVideoSSRC # 0 => client2PC'[a].upVideoSSRC # 0

LEMMA StepKeeps ==
  ASSUME FullInv, Next, NEW a \in Clients
  PROVE  KeptFor(a)
<1> SUFFICES ASSUME Recent(a), Recent(a)'
             PROVE  /\ a \in DOMAIN client2PC /\ a \in DOMAIN client2PC'
                    /\ client2PC'[a].initTimeMs = client2PC[a].initTimeMs
                    /\ client2PC[a].upVideoSSRC # 0 => client2PC'[a].upVideoSSRC # 0
  BY DEF KeptFor
<1>0. TableInv /\ IsTable(client2PC) /\ now \in Nat /\ heardAt \in [Clients -> Nat]
  BY DEF FullInv, TableInv
<1>1. a \in DOMAIN client2PC /\ client2PC[a].lastActiveTimeMs = heardAt[a]
  BY <1>0 DEF TableInv, HeardKnown
<1>2. CASE Tick
  BY <1>1, <1>2 DEF Tick
<1>3. CASE Clean
  <2>1. ~TimedOut(client2PC[a], now)
    BY <1>0, <1>1 DEF Recent, HeardWithin, TimedOut, PCManagerAssumption
  <2>2. client2PC' = CleanTimeoutPeerConnection(client2PC, now)
    BY <1>3 DEF Clean
  <2>3. a \in DOMAIN client2PC' /\ client2PC'[a] = client2PC[a]
    BY <1>0, <1>1, <2>1, <2>2, TableCleaned
  <2> QED
    BY <1>1, <2>3
<1>4. ASSUME NEW b \in Clients, GotCandidate(b)
      PROVE  a \in DOMAIN client2PC' /\ client2PC'[a] = client2PC[a]
  BY <1>0, <1>1, <1>4, GotCandidateTable
<1>6. ASSUME NEW b \in Clients, GotRtp(b)
      PROVE  /\ a \in DOMAIN client2PC'
             /\ client2PC'[a].initTimeMs = client2PC[a].initTimeMs
             /\ client2PC[a].upVideoSSRC # 0 => client2PC'[a].upVideoSSRC # 0
  BY <1>0, <1>1, <1>6, GotRtpTable
<1>5. ASSUME NEW b \in Clients, Packet(b)
      PROVE  /\ a \in DOMAIN client2PC'
             /\ client2PC'[a].initTimeMs = client2PC[a].initTimeMs
             /\ client2PC[a].upVideoSSRC # 0 => client2PC'[a].upVideoSSRC # 0
  <2>1. PacketEffect(b)
    BY <1>5, PacketStep DEF Next
  <2>2. a \in DOMAIN client2PC'
    BY <1>1, <2>1 DEF PacketEffect
  <2>3. CASE a = b
    BY <1>1, <2>1, <2>2, <2>3 DEF PacketEffect, Renewed
  <2>4. CASE a # b
    BY <1>1, <2>1, <2>2, <2>4 DEF PacketEffect, Kept
  <2> QED
    BY <2>3, <2>4
<1> QED
  BY <1>1, <1>2, <1>3, <1>4, <1>5, <1>6 DEF Next

(* A client heard of less than the time-out ago keeps its connection, and  *)
(* the connection its video, in every step.                                *)
THEOREM ActiveKept == Spec => ActiveConnectionKept
<1>1. FullInv /\ [Next]_vars =>
        [\A a \in Clients :
           Recent(a) /\ Recent(a)' =>
             /\ a \in DOMAIN client2PC /\ a \in DOMAIN client2PC'
             /\ client2PC'[a].initTimeMs = client2PC[a].initTimeMs
             /\ client2PC[a].upVideoSSRC # 0 => client2PC'[a].upVideoSSRC # 0]_vars
  BY StepKeeps DEF KeptFor
<1> QED
  BY <1>1, Reachable, PTL DEF Spec, ActiveConnectionKept

-----------------------------------------------------------------------------
(* A client found as a peer of another was heard of since the last time    *)
(* the timer could have removed it.                                        *)
PeersHeard ==
  \A a \in Clients : \A p \in FindPeerPC(client2PC, a) :
    p # a /\ now - heardAt[p] <= kPCDeadTimeoutMs + CleanPeriod

LEMMA PeerHeard == TableInv => PeersHeard
<1> SUFFICES ASSUME TableInv, NEW a \in Clients, NEW p \in FindPeerPC(client2PC, a)
             PROVE  p # a /\ now - heardAt[p] <= kPCDeadTimeoutMs + CleanPeriod
  BY DEF PeersHeard
<1>1. p \in DOMAIN client2PC /\ p # a /\ client2PC[p].stateMachine = "GOT_RTP"
  BY PeerHasMedia
<1>2. heardAt[p] + kPCDeadTimeoutMs >= lastClean
  BY <1>1 DEF TableInv, MediaLive
<1>3. now \in Nat /\ lastClean \in Nat /\ heardAt[p] \in Nat /\ now - lastClean <= CleanPeriod
  BY <1>1 DEF TableInv, IsTable, ClockInv
<1> QED
  BY <1>1, <1>2, <1>3 DEF PCManagerAssumption, ConnectionsAssumption

LEMMA FeedbackStep ==
  FullInv /\ FeedbackReachesLivePeer /\ [Next]_vars => FeedbackReachesLivePeer'
<1> SUFFICES ASSUME FullInv, FeedbackReachesLivePeer, [Next]_vars
             PROVE  FeedbackReachesLivePeer'
  OBVIOUS
<1>1. CASE UNCHANGED vars
  BY <1>1 DEF FeedbackReachesLivePeer, vars
<1>2. CASE forwarded' = {}
  BY <1>2 DEF FeedbackReachesLivePeer
<1>3. ASSUME failed = {}, NEW a \in Clients, NEW parts \in Compounds, HandleRtcpPacket(a, parts)
      PROVE  FeedbackReachesLivePeer'
  <2>1. FullInv'
    BY <1>3, PacketStep DEF Packet
  <2>2. \A f \in forwarded' : f.from = a /\ f.to \in FindPeerPC(client2PC', a)
    BY <1>3, FullInvTypes, FeedbackEffect
  <2>3. TableInv'
    BY <2>1 DEF FullInv
  <2>4. PeersHeard'
    BY <2>3, PeerHeard, PTL
  <2> QED
    BY <2>2, <2>4 DEF FeedbackReachesLivePeer, PeersHeard
<1>4. Tick \/ Clean
        \/ (\E a \in Clients : GotCandidate(a) \/ GotRtp(a) \/ Video(a) \/ OtherPacket(a))
        => forwarded' = {}
  BY DEF Tick, Clean, GotCandidate, GotRtp, Video, OtherPacket
<1> QED
  BY <1>1, <1>2, <1>3, <1>4 DEF Next, Packet

(* Feedback is handed to another client heard of at most the time-out and  *)
(* one clean-up period ago.                                                *)
THEOREM FeedbackLive == Spec => []FeedbackReachesLivePeer
<1>1. Init => FeedbackReachesLivePeer
  BY DEF Init, FeedbackReachesLivePeer
<1> QED
  BY <1>1, FeedbackStep, Reachable, PTL DEF Spec

(* Two clients that alone have media are each other's peer.                *)
THEOREM PeersMutual == Spec => []PeersOfEachOther
<1>1. TypeOK => PeersOfEachOther
  <2> SUFFICES ASSUME TypeOK, NEW a \in WithMedia, NEW b \in WithMedia,
                      a # b, WithMedia = {a, b}
               PROVE  FindPeerPC(client2PC, a) = {b} /\ FindPeerPC(client2PC, b) = {a}
    BY DEF PeersOfEachOther
  <2>1. Candidates(client2PC, a) = {b} /\ Candidates(client2PC, b) = {a}
    BY DEF Candidates, WithMedia
  <2>2. /\ a \in Nat /\ b \in Nat
        /\ client2PC[a].initTimeMs \in Nat /\ client2PC[b].initTimeMs \in Nat
    BY DEF TypeOK, WithMedia, PCManagerAssumption
  <2> QED
    BY <2>1, <2>2 DEF FindPeerPC
<1> QED
  BY <1>1, TypeCorrect, PTL

=============================================================================
