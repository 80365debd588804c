# A verification project for tywebrtc-native-client

The program (`src/qt_proj/`) is a native WebRTC video client: it pings a media
server once a second, receives the server's RTP packets over UDP, puts them in
order, checks them against their FEC packets, assembles H.264 frames, decodes
and shows them. This directory holds TLA+ models of the code, TLC runs over
small instances and TLAPS proofs of the main facts for every instance.

Paths below are relative to `src/qt_proj/`. Asserts are active in the build
(`qt_video.pro` does not define `NDEBUG`), so a failed assert is the end of the
process, and the models treat it so.

## The system

    server --UDP--> UdpServer::readPendingDatagrams      videoplayer.cpp
                      PeerConnection::HandlePacket       pc/peer_connection.cc
                        RtpHandler::HandleRtpPacket      rtp/rtp_handler.cc
                          RtpReceiver::PushAndPop        transport/receiver/receiver.cc
                            TryRecoverFEC
                          RtpHandler::DumpPacket, once per packet popped
                            H264Unpacketizer::Unpacketize  rtp/pack_unpack/rtp_to_h264.cc
                            CodecDecoder::Decode           codec/video_codec.cc
                            emit sig_GetOneFrame  -->  MainWindow::slotGetOneFrame
    server <--UDP-- UdpServer::sendPing  <-- QTimer (1 s)

Everything runs in the Qt event loop of one thread (`VideoPlayer::run` and
`UdpServer`'s thread are empty), so one datagram is handled from beginning to
end before the next one. What is concurrent is the environment: the peer that
sends, and a network that loses, repeats and reorders. The user's button, the
timers and repaints are events between the datagrams.

The repository also holds the server side of the same author's program, from
which the client was cut: `RtpSender`, `RtcpHandler`, the NACK code, `PCManager` and the
H.264 readers. `qt_video.pro` does not build `sender.cc`, `rtcp_handler.cc`,
`rtcp_nack.cc`, `h264NaluDec.cc` and `h264SpsDec.cc`, and the calls into them are
commented out (`rtp_handler.cc:429-487`, `:515`, `receiver.cc:451`). They are
modelled as they stand; what would call them is described as external.

### Inventory

| Component | State | Operations | What makes it hard | What makes it correct |
|---|---|---|---|---|
| Sequence numbers (`rtp_parser.h`, `rtp_handler.cc:579-631`) | `biggestSeq`, `biggestCycle` per SSRC | `AheadOf`, `ForwardDiff`, extension to a 64-bit power sequence | wrap-around together with reordering; the start of a stream | every packet is filed under its true place |
| `RtpReceiver` | `jitterBuffer_`, `lastPoppedPowerSeq_`, `lastPoppedTs_` | `PushAndPop`, `TryRecoverFEC` | late, repeated and lost packets; frames popped only by their last FEC packet; many asserts | popped is popped; only complete frames leave; no assert fails |
| `H264Unpacketizer` | `frame_buffer_`, `expect_seq_num_`, `started_`, `sps`, `pps` | `Unpacketize` (single unit, STAP-A, FU-A) | gaps, frames refused half-way, parameter sets that come separately | one whole frame at a time, parameter sets before an IDR slice |
| `RtpHandler` | `ssrcInfoMap_`, `upAudioSSRC`, `upVideoSSRC`, `firstRtpVideoTs_`, `decoder` | `HandleRtpPacket`, `DumpPacket` | stale check between the two above; errors in the middle of a group | the decoder gets a subsequence of the frames sent, unchanged |
| `CodecDecoder` | FFmpeg context | `InitDecoder`, `Decode` | failure leaves the pointer set | a failing decoder breaks nothing else |
| `UdpServer`, `PeerConnection` | socket, one static connection | `readPendingDatagrams`, `HandlePacket`, `sendPing` | the connection belongs to the first sender | every pending datagram is handled |
| `MainWindow`, `VideoPlayer` | play state, picture, timers | push button, picture slot, `startPlay` | order of button, timer and picture events | no more timers than starts; no new picture while paused; every frame comes to the screen |
| `RtpSender` (not in the build) | send queue, `saveLast_` | `Enqueue`, `Dequeue`, `GetSeqPacket` | queue at its cap, iterator into it | retransmits what was asked for |
| RTCP, NACK (not called) | none of its own | `HandleRtcpPacket`, `HandleNack`, `SendReqNackPkt`, NACK blocks | 16-bit requests across a wrap-around; compound packets | every lost number is requested, the right packet is sent |
| `RtpDepacketizerVp8` (switched off) | raw frame, `PackSeqNo`, `RequestKeyFrame`, `is_key_frame` | `VideoUnPackVp8RtpStm` | losses hidden by padding, state left by early returns | only whole frames are decoded, starting at a key frame |
| `AudioPacketizer` (not instantiated) | sequence number, timestamp | packetize | wrap-around | numbers without gaps |
| `PCManager` (not called) | table of connections | get, clean up | clean-up racing the first packet | a live connection is not removed |
| Bit readers (`h264NaluDec`, `h264SpsDec`) | position in a buffer | Exp-Golomb, SPS fields | reads at the end of the buffer | agree with the definition of the code |
| RTP and RTCP layouts | none | getters, setters | widths, media-type classification | round trips |

Logging, build files and the `.ui` file have no state. The Reed-Solomon library
(`rsfec`), FFmpeg, Qt and the peer are external.

## The modules

| Module | Models |
|---|---|
| `SeqNum` | the sequence-number arithmetic of `rtp_parser.h` and the cycle extension (`Unwrap`); the modulus 2^16 is `2 * HalfSeq` |
| `RtpReceiver` | `PushAndPop` and `TryRecoverFEC` as operators on a receiver record; each returns the new receiver, the packets and the assert that failed, if any |
| `H264Unpacketizer` | `Unpacketize` as an operator on an unpacketizer record; a NAL unit is `<<type, id of its packet>>`, a parameter set the id of the packet that brought it |
| `MediaSender` | external: the packets of a frame as the receive path expects them - data packets of one timestamp, the marker on the last one, FEC packets behind them in the same number space, the marker on the last one again |
| `RtpHandler` | the state machine: the peer sends, the network delivers any packet in reach, `HandleRtpPacket` composes the modules above, one datagram per step |
| `FrameDelivery` | abstract: of the frames produced some are delivered, whole, once and in order |
| `Client` | `RtpHandler` between the ping timers and the window: `startPlay`, `sendPing`, the button, `slotGetOneFrame`, `paintEvent` |
| `RtpSender` | the send queue as an operator on a sender record: `Enqueue`, `GetSeqPacket`, `Dequeue` |
| `Nack` | NACK blocks: how `CreateNackReportSend` packs numbers, how `HandleNack` reads them |
| `Retransmission` | the state machine of the two: media, requests and answers on a network that loses, delays and repeats |
| `PCManager` | the table of connections, the clean-up, `FindPeerPC` |
| `Connections` | the state machine over `PCManager`: signalling, packets, the timer, `HandleRtcpPacket` on compound feedback |
| `BitReader`, `H264Sps` | the two bit readers; `H264ParseSps` and `GetFrameType` on them |
| `RtpFormats` | `getPacketType`, `GetMediaType`, header and padding lengths, `ParseVP8Descriptor`, `IsIdrFrame`, REMB rates |
| `Formats` | the readers of these two modules fed with what a writer of the format produces |
| `MCRtpHandler`, `MCClient`, `MCConnections`, `MCFormats` | constants for TLC: frame shapes, compound packets, header fields |
| `RtpDepacketizerVp8` | `VideoUnPackVp8RtpStm`, one action per return, with the popped packets as environment |
| `SeqNum_proofs`, `RtpHandler_proofs`, `Client_proofs`, `RtpDepacketizerVp8_proofs`, `Connections_proofs`, `Retransmission_proofs`, `Formats_proofs` | the theorems |
| `LeastNumber` | lemmas they share: a set of naturals that is not empty has a least element; what holds of 0 and of each next number holds up to any; the greatest of a set of indices |

`RtpHandler` extends `RtpReceiver`, `H264Unpacketizer` and `MediaSender`, and
implements `FrameDelivery` under the mapping `FD`.

How the state corresponds: `ssrcInfoMap[s]` is the `SSRCInfo` of an SSRC with its
receiver (`rcv`) and unpacketizer (`unp`); `aborted` holds the text of the assert
that ended the process; `decoder` is the pointer (`null`) and whether its codec
was opened. `sent` is the peer's stream; `newest`, `decoded` and `shown` are
history. A packet's `id` is its true place in the stream; the code never sees it,
`seq` is all that is on the wire.

`HandleRtpPacket(s, p)` is the whole handler: note the SSRC, extend the number
(`Unwrap`), drop stale packets (`IgnoreStale`) or push into the receiver, and dump
every packet popped until one fails (`PushAndDump`). `DumpVideo` has the order of
`DumpPacket`: first timestamp, unpacketize, `assert(media.size() == 1)`, create
the decoder on first use, decode, emit.

`RtpDepacketizerVp8` stands beside this path (`isvp8` is a constant `false` in
`DumpPacket`, but the member and its calls are there). What it is given is what a
receiver pops: packets in order, each once, with gaps of less than `Reach`. The
variables have the names of the members; `Vp8RawData` is the buffer up to
`m_RawDataLen`, with a payload as the id of its packet. The conditions of the
actions are those of the code's early returns in their order: `Padding`, (a
malformed descriptor is an assert and is never sent), `EmptyPayload`,
`ShortKeyFrame`, `AwaitKeyFrame`, `LosePackets`, and `Accept` with its two asserts
and three ends. The return value is left out: what is done with it belongs to
`DumpPacket`, where this branch is dead. (Were it alive, `rtp_handler.cc:240` would
take 0 for a picture, `assert(nullptr != yuvFrame)`, although a packet in the middle
of a frame returns 0 without one.)

`Client` adds the state of `MainWindow` to `RtpHandler`'s. `UdpServer` and
`VideoPlayer` are `QThread`s, but their objects live in the thread of the event
loop and nothing runs in their own, so `sig_GetOneFrame` is a direct call:
`readPendingDatagrams` hands a finished picture to `slotGetOneFrame` in the same
step. `update()` only marks the window (`dirty`), `paintEvent` is a later event. A
picture is the timestamp of its frame.

`Retransmission`: `snd` is the `RtpSender` with the two fields of its `SSRCInfo` that
`Enqueue` writes; a packet is its power sequence number. The receiver (`lost`, the
window it asks in) and the network are external; a request in flight carries the
blocks and, as history, the packets that were meant. `SendReqNackPkt` decides the
cycle of each 16-bit number from the newest number sent, as the code does.

`Connections`: `client2PC` is the map of `PCManager` by client; of a `PeerConnection`
it keeps `stateMachine`, `initTimeMs`, `lastActiveTimeMs` and `upVideoSSRC`. No code in
the repository moves `stateMachine_` beyond `GOT_CANDIDATE`. In the model an external
action of its own, `GotRtp`, moves it at any time for any connection that has received a
packet, whatever the packet was; `upVideoSSRC` is noted by video that is not FEC, as in
`rtp_handler.cc:543-551`. So a peer may have its media and no video, and then
`assert(upVideoSSRC != 0)` (`rtcp_handler.cc:239`) fails and ends the process: `failed`
holds that peer. `withVideo` is history: who has sent video and not been silent for
longer than the time-out since.
A NACK ends the handling of a compound packet, so what was in front of it is not
handed on; the comment at `rtcp_handler.cc:198` says as much. Feedback formats the
code does not know fail an assert (`:211`, `:260`) and are not sent.

`Formats` has one input per state: the fields a peer means are written down by the
definitions of the format (H.264, RFC 3550, RFC 7741, REMB) and read by the code's
operators. What they may mean is `FormatsAssumption`. A bit buffer is a sequence of bits, a reader's pointer and its place in
the byte are one number. Numbers stay below 2^31.

## The runs

| Run | Shows | Bounds |
|---|---|---|
| `handler_lossy` | under any loss, repetition and reordering, with a decoder that may fail: types, at most one frame under construction, popped packets stay out of the buffer, no assert fails, IDR slices come with their parameter sets, the popped position never moves back, and the refinement of `FrameDelivery` | one cycle of 64 numbers, 3 frames of all shapes, 1 audio packet, reach 20 (the whole stream) |
| `handler_wrap` | the extension is exact over two wrap-arounds, no packet is older than the first cycle, and `FrameDelivery` is still implemented - an abort may stop the stream but delivers nothing wrong | 8 numbers, 5 frames, reach 3 |
| `client_lossless` | from the ping to the screen: without loss and reordering every frame sent reaches the decoder, across wrap-arounds between frames, and unless the user pauses the screen; a paused window does not change; a window with no repaint pending is up to date; at most two ping timers run | 8 numbers, 5 frames, 1 audio packet |
| `retransmission` | only what a request meant is sent, and all of it that is queued; blocks stand for their numbers; the queue holds the newest packets and `Dequeue`'s iterator stays in it; what can be repaired is repaired | 10 numbers, packets 8 to 17, queue of 3, 2-bit `blp`, 1 request in flight, delays of up to 9 numbers |
| `connections` | an active client keeps its connection and the video noted in it, a silent one loses it in the end; feedback goes to another, live client and its key-frame requests name that client's video; the assert on the peer's video fails on no client that has sent video and not been silent since | 3 clients, 4 ticks, time-out 1, a clean-up at any moment and at least one per tick |
| `formats` | picture size and place in step, slice type, both Exp-Golomb readers, reads at the end, media types, VP8 descriptors whole and cut, REMB rates, payload bounds | see `MCFormats`; depth 2 |
| `stale_after_wrap` | violated: `lastPoppedPowerSeq_` loses the cycle, a repeated frame is popped again and an assert ends the process | 8 numbers |
| `fec_range_wrap` | violated: a frame across the wrap-around fails an assert | 8 numbers, start at 1 |
| `fec_lost` | violated: complete data is thrown away for want of a redundant FEC packet | 1 cycle |
| `vp8_gaps` | with gaps, padding and a decoder that works: a picture is a run of packets, starts a key frame or follows the last picture, begins where a frame begins; a frame that arrives whole is decoded; no assert fails | 4 numbers, 3 frames of up to 3 packets, 2 padding packets |
| `vp8_failing` | with a decoder that fails and packets refused half-way the raw data is still a run | 8 numbers, 3 frames, 2 fillers of any kind |
| `vp8_toobig` | violated: a frame that cannot be decoded stays in the buffer until it overflows and an assert fails | buffer of 3, frames of at most 2 |

**Bounds.** A number space of eight (`HalfSeq = 4`) makes every relation of two
16-bit numbers appear: equal, ahead and behind, with and without roll-over, at and
next to half the space. `Reach` is the farthest a datagram may be from the newest
one received; `Reach < HalfSeq` is the assumption every such protocol makes (in the
code half the space is 32768 packets, minutes of video). Three frames are enough
for a frame before, in and after the one whose packets are lost or late; frames of
two data packets and one or two FEC packets give every case of `TryRecoverFEC`.
`StartPos` is the first number of each stream; the passing runs satisfy
`FirstSeqAheadOfZero`, without which the code misfiles packets (see below).
The VP8 runs take four numbers, so that a stream of eleven packets wraps around
twice; `vp8_failing` takes eight, because packets refused half-way leave
`PackSeqNo` behind and the gaps add up: a gap of the whole number space cannot be
seen by the code, and `Reach` only bounds a single one.
In `retransmission` a request may be as late as a cycle less one number (`Reach = 9`
of 10) and the queue is shorter than half the space even when every second number
is skipped, as 1000 packets are; ten packets from 8 on wrap around in the middle of a
queue, of a block and of a request. In `connections` four ticks are two life times,
enough for a connection to be made, time out and be made again between two packets
of the others; two clients make a pair and the third disturbs it. Durations are in
units of the time-out, so `kPCDeadTimeoutMs` is 1; the server's clock starts beyond
it, since a real one does not start at zero. In `formats` every combination of the
flags that decide whether another field is there occurs, with few values of the
fields themselves.

**Fairness.** `ClientSpec` has weak fairness on taking a pending datagram off the
socket (`TakeDatagram`): `readPendingDatagrams` loops until none is pending and the
event loop calls it when data arrives. The network in that specification loses
nothing; no liveness is claimed of one that does. Fairness is stated on the change
of `newest` alone, which every receive step makes.

It adds that a window marked by `update()` is painted; nothing is assumed of
the user or of the timers. `FairSpec` of `Retransmission` describes a receiver that
keeps asking (strong fairness of `AskForAll`) and a network that drops a request in
the end and does not lose every request or every answer (strong fairness of
`AnswerAll`); the code itself has no retry loop, so without such a caller nothing
would be repaired. `FairSpec` of `Connections` says that time passes and that the timer
keeps cleaning: this is the caller's part (`global_tmp.h:99`, "clean up timed-out
sessions periodically").

**Deadlock.** Checked in `handler_lossy`, where the network can always repeat a
packet, in `client_lossless` and `formats`. Elsewhere the streams end or an assert ends the process, and it is switched off.

**Undefined or unspecified behaviour.** Whether `map::emplace` moves from an
argument it does not insert is left open by the C++ standard; it is the constant
`EmplaceMovesDuplicate`, `FALSE` in the runs. `receiver.cc:313` asserts that a repeated
packet was not moved from (with `TRUE`, `NoAssertFails` is violated by any repeated
packet); `sender.cc:15` asserts that the argument is empty after the same kind of call.
`Dequeue` with an iterator whose element `Enqueue` has erased is undefined; `CursorInQueue`
holds because the pacer of the model keeps up (`Paced`).

**Where the code falls short, without a run of its own.** A stream whose first number
is in the upper half of the space reaches the branch of `rtp_handler.cc:601` that is
commented as unreachable (`NothingBeforeFirstCycle` fails with `StartPos = 6`). An IDR
slice behind a SEI unit gets no parameter sets (`rtp_to_h264.cc:104`), so
`IdrCarriesParams` excludes such frames. A request of more than 2048 bytes is not sent
at all (`rtcp_handler.cc:726`). A connection made by signalling is removed by the next
clean-up if its first packet has not come (`global_tmp.cc:63`), so `ActiveConnectionKept`
begins with that packet. A peer is chosen by its state although it may have sent only
audio or FEC; then the assert of `rtcp_handler.cc:239` fails (`failed` of `Connections` is
not always empty), so `AssertHoldsWithVideo` is about peers that have sent video. Every crop
is taken to be in units of two pixels, which 4:2:2 has only across, monochrome and 4:4:4 not
at all, and in interlaced video it is doubled before the height is
(`h264SpsDec.cc:173-186`): `SpsDimensions` promises a width or a height only where nothing
is cropped in that direction or the units are right. Of the twelve scaling lists of 4:4:4
eight are read, emulation-prevention bytes are not removed, and newer high profiles are read
as if they had no chroma fields; the inputs of `Formats` are without these. `get_bit` does not check for the end.
RTP payload types 64 to 95 with the marker are taken for RTCP (`rtp_parser.h:671`). A REMB
rate of exactly 0x3FFFF loses its last bit (`rtcp_parser.h:447`), and `getREMBBitRate`
shifts 32 bits.

## What is proved

`SeqNum_proofs`, for every `HalfSeq`:

* `AheadOfDecides`: of two different numbers exactly one is ahead of the other.
  The case at distance `HalfSeq` is why `AheadOrAt` has its extra line.
* `UnwrapNear`, `UnwrapFirst`: the extension returns the true place of any packet
  less than `HalfSeq` from the newest, and of a first packet in the lower half.
  The argument writes the place as `d * SeqSpan + t`, shows that `d` is the newest
  cycle, the one before or the one after, and checks the three cases.

`RtpHandler_proofs`, for every number space, reach, start, set of well-formed
frame shapes and length of the streams (the assumptions are `HalfSeqAssumption`,
`ReceiverAssumption` and `HandlerAssumption`):

* `TypeCorrect`: `Spec => []TypeOK`.
* `ExtensionExact`: if `FirstSeqAheadOfZero` then `Spec => []UnwrapExact`. The
  inductive invariant `ExactInv` adds that streams are numbered on from `StartPos`
  (`Numbered`, from which the wire number follows) and that an SSRC without an
  `SSRCInfo` has received nothing (`NothingSeen`, the case of `UnwrapFirst`).
* `FirstCycleIsFirst`: if `FirstSeqAheadOfZero` then `Spec => []NothingBeforeFirstCycle`,
  from the same invariant: a number of the cycle before the newest's belongs to a packet
  that was sent, so there is such a cycle.
* `PoppedStaysPopped` and `PopsInOrder`: as long as the streams stay within the
  first cycle (`[]FirstCycle`), `[]JitterAfterPopped` and `NeverPopsBack`. The
  stale check lets a packet with exactly the number `lastPoppedPowerSeq_` through,
  so the invariant `PoppedInv` has to know that this number belongs to a packet
  that pops (`PoppedByLastFec`) and that the buffer never holds such a packet
  (`JitterFromStream`). That the hypothesis is needed is what `stale_after_wrap`
  shows.

The second half of `RtpHandler_proofs`, about the whole receive path, for the same values
of the constants and over the first cycle of the numbers (`[]FirstCycle`):

* `OneFrameAtATime`: `[]AtMostOneFrame`. `OneFrameInv` adds to `PoppedInv` how the video
  stream is laid out (`VideoLaidOut`: frame after frame of data and FEC packets, timestamps
  that rise, and what the FEC headers name), that the other stream has no FEC
  (`AudioPlain`), and that between two datagrams every unpacketizer has settled
  (`UnpsSettled`: it holds at most one unfinished frame and expects a number that was
  popped, so that the next group opens with a gap and what is unfinished is dropped).
  `GroupPops` shows that a group ended by the last FEC packet of a frame passes every
  assert and gives all the data packets of that frame or nothing (`ShapesFit`: no frame
  is larger than the FEC codec takes).
* `AssertsHold`: `[]NoAssertFails`, for every assert of the path at once, if `emplace`
  leaves an element it does not insert as it was, and as long as what may arrive is at
  most half the number space ahead of the number the unpacketizer expects
  (`[]NearExpected`; beyond it `AheadOf` says the reverse, and the unpacketizer takes a
  new frame for an old one).
* `ImplementsFrameDelivery`: `DeliversFrames`, the refinement of `FrameDelivery` with the
  mapping `FD`: the initial states map to the initial state, and every step produces a
  frame, delivers one, delivers nothing or stutters. `DeliveryInv` adds that frames are
  numbered by their timestamps and that every frame decoded is of a group popped
  (`DecodedPopped`), so the next one is later. `DumpAll` and `Unpacketize` are folds;
  what they make of a whole frame is shown packet by packet, for prefixes of the group,
  from the existence of the partial results (`LeastNumber` stands in for induction).
  `PayloadsFit` says that a payload has the units its kind has: a fragment at most one,
  padding none, the other whole ones at least one.
* `KeyFramesDecodable`: `[]IdrCarriesParams`, if the peer sends the two parameter sets of a
  frame together (`[]ParamsTogether`). `BuiltInv` says what every frame decoded is made of:
  the units sent, with the stored parameter sets in front if it opens with an IDR slice.

`FirstCycle` cannot be dropped: `lastPoppedPowerSeq_` keeps 16 bits of a number, so from
the second cycle on old packets are let in again (`stale_after_wrap`). The constants of
`handler_lossy` meet all these hypotheses, in every state.

`Client_proofs`:

* `PingTimers`: `ClientSpec => []TwoPingTimers`, for every value of the constants.
* `PauseHolds` and `WindowFollows`: over the first cycle `[]PauseFreezes` and
  `[]ScreenUpToDate`, from `ClientInv`, which is `DeliveryInv` with the window: the last
  picture emitted is of a frame decoded (`PicturesDecoded`), frames are decoded in order,
  hence a picture emitted after the pause is a later one than the window holds, and the
  window is never ahead of the last picture (`WindowInv`). A datagram of the in-order
  network is one of `RtpHandler`'s, if there is any reach at all (`Reach # 0`). The run
  `client_lossless` goes beyond the first cycle.

`RtpDepacketizerVp8_proofs`, for every number space, buffer size, frame length and
stream (`HalfSeqAssumption`, `Vp8Assumption`; `Reach < SeqSpan` says that no gap
is as long as the number space):

* `TypeCorrect`: `Spec => []TypeOK`; the runs leave this one to the proof.
* `PicturesFollow`: if nothing but padding is sent between frames (`OnlyPadding`)
  then `Spec => [](RawDataIsRun /\ ReferencesDecoded)`, whatever is lost and
  whether or not the decoder fails. `RunInv` adds what links the code's state to
  the stream (`Linked`): while a key frame is waited for nothing is kept and
  `is_key_frame` is off; otherwise `PackSeqNo` is the number of the newest packet,
  and the last payload accepted is that packet's or is hidden behind padding. That
  no loss counted means no loss is `NoLossIsNext`, modulo arithmetic again.
  Without `OnlyPadding` the linking fails: a refused packet leaves `PackSeqNo`
  behind, or `is_key_frame` on.
* `PicturesStartAtFrame`: under `OnlyPadding` `Spec => []StartsAtFrame`, whatever the decoder
  does. `StartInv` adds how frames lie in the stream (`Layout`) and that with nothing kept
  and no key frame waited for the newest packet ends a frame or is padding
  (`BetweenFrames`), so that the next payload accepted is the first of a frame.
* `BufferHolds`: under `OnlyPadding` `Spec /\ []NothingHidden => []NoAssertFails` if every
  frame fits the buffer (`FramesFit`) and the decoder does not fail. `BufferInv` says that what is kept is the
  beginning of one frame up to the newest packet (`KeptIsFrame`) and that the size of the
  picture is known unless a key frame is waited for (`SizeKnown`). `NothingHidden` says that no
  padding packet comes right behind a lost packet; without it the end of frame after frame may be
  lost unnoticed and all that is kept outgrow the buffer.
* `WholeFramesAreDecoded`: under `OnlyPadding` `Spec /\ []NoAssertFails => []WholeFramesDecoded`
  if the decoder does not fail. Of streams with refused packets between the frames it says
  nothing. `WholeInv` follows a frame that arrives whole packet by packet: up to its
  end all of it that came is kept, from its end on it is in a picture (`WholeFrames`); that
  its first packet is accepted needs that behind a picture no key frame is waited for until
  another packet of a frame comes (`EndsDecoded`).

`Retransmission_proofs`, for every number space, cap of the queue, gap between packets
and delay of a request below one cycle (`HalfSeqAssumption`, `SenderAssumption`,
`RetransmissionAssumption`; the last one says that the queue reaches back less than
half the number space, gaps included, as 1000 packets do):

* `TypeCorrect` and `QueueNewest`: `Spec => []TypeOK`, `Spec => []QueueHoldsNewest`. The
  invariant says what the sender's record is (`IsSender`): the queue is a finite set
  with the newest packet, every packet in it is at most `MaxGap + 1` behind per packet
  above it, and the `SSRCInfo` holds the newest packet's number and cycle. Dropping the
  oldest packet never drops the newest because the cap is at least one.
* `CursorValid`: `Spec => []CursorInQueue`. If `Enqueue` dropped the packet `saveLast_`
  points to, everything behind that packet would fill the queue, which a pacer that
  keeps up (`KeepsUp`) rules out.
* `BlocksCorrect`: `Spec => []BlocksExact`, for every set of numbers a request may ask for:
  a round of `CreateNackReportSend` takes the numbers that fit into one block and leaves
  fewer; `RoundExact` shows that the block stands for exactly those, on both sides of a
  wrap-around, and a smallest set of numbers for which the blocks were wrong cannot exist
  (`NackBlocksRounds`, `NackBlocksExact`).
* `AnswersCorrect`: `Spec => []AnswersWhatWasAsked`. `ItemIsFound` shows that a number sent
  less than a cycle ago is extended to its own place and one sent less than half a cycle
  ago is answered; `QueueIsYoung` that all of the queue is; `BlocksCorrect` that the request
  says what was meant.

`Connections_proofs`, for every set of clients, time-out, clean-up period and packets of
feedback (`PCManagerAssumption`, `ConnectionsAssumption`; the server's clock starts
beyond the time-out):

* `TypeCorrect`, `AssertHolds`, `ActiveKept`, `FeedbackLive`, `PeersMutual`: the properties
  `TypeOK`, `AssertHoldsWithVideo`, `ActiveConnectionKept`, `FeedbackReachesLivePeer` and
  `PeersOfEachOther` of the run, with nothing assumed of what moves a state to `GOT_RTP`
  but that the connection has received a packet. The inductive invariant `FullInv` needs
  three links between the table and what happened: a client heard of lately is known with
  the time of its last packet (`HeardKnown`, for the clean-up), one that has sent video and
  not been silent since is known by it (`VideoKnown`, for the assert), and a connection that
  has received a packet has survived the last clean-up (`MediaLive`, from which a peer's age
  follows). Each packet is reduced to its effect on the table (`PacketEffect`) first.
* `RequestsNamed`: `Spec => []RequestsNameTheirSource`. A compound packet whose truncated part
  is its last (`TruncatedIsLast`, an assumption on the constants: a part cut off has
  nothing behind it) is handled up to its first NACK, which is found as the least of the
  places of the NACKs.

`Formats_proofs`, for every set of inputs `FormatsAssumption` admits: all that the fields of
the formats can hold and 32-bit arithmetic carries. Numbers go up to `MaxCode` (30 leading
zeros) and bit rates to `MaxRate`, sizes and crops are bounded so that the picture fits
into 32 bits; the profiles are baseline, main, extended and the four of
`h264SpsDec.cc:109`; scaling lists, the cycle of reference offsets, the bits around a code and
the payload of a packet are of any length the format allows.

* `RatesRoundDown`, `PacketsTakenApart`: `Spec => []RembRoundsDown`, `Spec => []PacketExact`.
  The loop of `setREMBBitRate` stops at the least exponent that fits; each power of two is
  bounded once (`PowTable`), the rest is arithmetic.
* `DescriptorsRead`: `Spec => []DescriptorExact`. The bytes are laid out field by field
  (`DescriptorLaid`), a flag is the only bit of its weight in its byte, and what is cut
  ends before the byte the next field starts with.
* `BitsRead`: `Spec => []BitsExact`. What `bs_read` makes of a number of bits still to be read is
  the value of the bits there, shifted by those that are not: if that failed for some number it
  would fail for a least one, and the byte in front of it says otherwise. An Exp-Golomb code is
  told by its leading zeros, so no two numbers have the same (`UeInjective`), and both readers
  count the same zeros.
* `FrameTypesTold`: `Spec => []FrameTypeExact`, two such codes one after the other.
* `SpsSizeRight`: `Spec => []SpsDimensions`, for the parameter sets of `IsSps` (every chroma
  format and crop, 4:4:4 without a scaling matrix) as bits without emulation-prevention
  bytes. `Stands(data, pos, s, end)` says that the bits `s`
  stand in the data from `pos` to `end`; what stands joined stands part by part
  (`StandsJoined`), and each field has a lemma saying what its reader returns where its bits stand
  and that it ends where they end (`ByteStands`, `UeStands`, `ListStands`, `MatrixStands`,
  `HighStands`, `OrderStands`, `CropStands`). A row of codes of any length is a chain of places
  (`Chain`, `ChainPlaces`), a scaling list one in which the scale is followed from delta to
  delta and is not zero before the end. `SpsRead` puts the seventeen parts together.

The folds and recursive functions of these readers are reasoned about by their partial
results, with `CountUp` and `LeastExists` of `LeastNumber` in place of induction.

Only model-checked, and why:

* liveness - `EveryFrameDecoded`, `EveryFrameShown`, `EveryLossRepaired`,
  `SilentConnectionRemoved` - is out of the prover's reach;
* `RawDataIsRun` with packets that are refused (`vp8_failing`): the theorem has
  `OnlyPadding`, without which a gap may add up to a whole number space;
* everything about the receive path beyond the first cycle, where some of it holds only
  because a repeated packet ends the process (`handler_wrap`);
* what the runs that expect a violation show.

## Not modelled

* What is external: the Reed-Solomon decoder (a group with enough packets is taken to
  be restored), FFmpeg, Qt's event queue and sockets beyond what is said above, DTLS,
  SRTP and STUN, the encoder.
* The static `PeerConnection` of the first sender (`videoplayer.cpp:73`): datagrams of
  other senders are handled as if they came from it. The models have one server.
* `MainWindow`'s flip check boxes: they change how the next repaint draws, nothing else.
* `CreatePLIReportSend`: one stateless packet. The other reports are commented out.
* `AudioPacketizer`: not instantiated (`rtp_handler.h:31` is commented out); a counter and
  one header.
* `WriteWebmFile`, logging, the byte-layout setters of `rtp_parser.h`, the header-extension
  map and the printing of packets: formatting and output that nothing here decides on.
* `PCManager::GetPeerConnection` by file descriptor: it reads and returns `nullptr`.

## Plan

Done: the receive path, the VP8 depacketizer and its descriptor, the sender with NACK,
the connections, the window, and the pure readers, with the theorems above; every safety and
action property of a passing run is stated by a theorem, under the hypotheses named there.

Left:

1. **The unpacketizer alone**: every kind of payload (padding, truncated STAP-A,
   over-long parameter sets, empty units) in increasing order with gaps, against an
   abstract unpacketizer; the packet of padding that ends a frame (`rtp_to_h264.cc:418`).
2. **Clocked receiver**: `WaitTimeMs` as its comment says, the time-out pop.
3. **Proofs**: the abstract delivery beyond the first cycle for a network that repeats
   nothing; `RawDataIsRun` with refused packets, from a bound on the sum of the gaps.
