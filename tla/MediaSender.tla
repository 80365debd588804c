---------------------------- MODULE MediaSender -----------------------------
(***************************************************************************)
(* The peer that streams to the client.  It is not part of the repository: *)
(* its packets are described by what RtpReceiver and H264Unpacketizer      *)
(* expect of them.  A video frame is a run of data packets of one          *)
(* timestamp, the last with the RTP marker, followed in the same sequence- *)
(* number space by FEC packets that name the protected run, the last of    *)
(* them with the marker again (RtpReceiver pops on it).                    *)
(***************************************************************************)
EXTENDS SeqNum, Sequences

PayloadKinds == {"single", "stapA", "badStapA", "fuA", "padding", "none"}

NaluTypes == {"empty", "sps", "pps", "longSps", "longPps", "idr", "slice",
              "sei", "stapA", "fuA"}

Payloads == [kind : PayloadKinds, nalus : Seq(NaluTypes), start : BOOLEAN]

NoPayload == [kind |-> "none", nalus |-> << >>, start |-> FALSE]

IsFrameShape(shape) ==
  /\ shape.data \in Seq(Payloads) /\ shape.data # << >>
  /\ shape.fecNum \in Nat \ {0}

Packets ==
  [id : Nat, seq : SeqNumbers, ts : Nat, marker : BOOLEAN, fec : BOOLEAN,
   first : SeqNumbers, last : SeqNumbers, num : Nat, payload : Payloads]

(* A packet at place pos of its stream: the 16-bit number is the place     *)
(* reduced modulo the number space.                                        *)
MediaPacket(pos, ts, marker, payload) ==
  [id |-> pos, seq |-> pos % SeqSpan, ts |-> ts, marker |-> marker,
   fec |-> FALSE, first |-> 0, last |-> 0, num |-> 0, payload |-> payload]

FecPacket(pos, ts, marker, first, last, num) ==
  [id |-> pos, seq |-> pos % SeqSpan, ts |-> ts, marker |-> marker,
   fec |-> TRUE, first |-> first % SeqSpan, last |-> last % SeqSpan,
   num |-> num, payload |-> NoPayload]

(* The packets of a frame whose first packet is at place pos.              *)
FramePackets(shape, pos, ts) ==
  LET n == Len(shape.data)
  IN  [i \in 1 .. n + shape.fecNum |->
         IF i <= n
         THEN MediaPacket(pos + i - 1, ts, i = n, shape.data[i])
         ELSE FecPacket(pos + i - 1, ts, i = n + shape.fecNum,
                        pos, pos + n - 1, shape.fecNum)]

=============================================================================
