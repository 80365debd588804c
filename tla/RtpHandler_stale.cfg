\* After a wrap-around old packets are let in again.
SPECIFICATION Spec
CONSTANTS
  HalfSeq = 4
  MaxFecGroup = 255
  EmplaceMovesDuplicate = FALSE
  VideoSsrc = v
  AudioSsrc = a
  NoSsrc = none
  FrameShapes <- OnlyDelta
  StartPos = 2
  Reach = 3
  MaxVideoFrames = 4
  MaxAudioPackets = 0
  DecoderMayFail = FALSE
INVARIANTS NeverBehindExpectedSeq
CHECK_DEADLOCK FALSE
