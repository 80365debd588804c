\* A frame whose data packets straddle the wrap-around.
SPECIFICATION Spec
CONSTANTS
  HalfSeq = 4
  MaxFecGroup = 255
  EmplaceMovesDuplicate = FALSE
  VideoSsrc = v
  AudioSsrc = a
  NoSsrc = none
  FrameShapes <- KeyAndDelta
  StartPos = 1
  Reach = 3
  MaxVideoFrames = 4
  MaxAudioPackets = 0
  DecoderMayFail = FALSE
INVARIANTS ProtectedRangeNotEmpty
CHECK_DEADLOCK FALSE
