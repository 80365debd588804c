\* Two wrap-arounds of a number space of eight; the process may abort.
SPECIFICATION Spec
CONSTANTS
  HalfSeq = 4
  MaxFecGroup = 255
  EmplaceMovesDuplicate = FALSE
  VideoSsrc = v
  AudioSsrc = a
  NoSsrc = none
  FrameShapes <- KeyAndDelta
  StartPos = 2
  Reach = 3
  MaxVideoFrames = 5
  MaxAudioPackets = 0
  DecoderMayFail = FALSE
INVARIANTS UnwrapExact NothingBeforeFirstCycle
PROPERTIES DeliversFrames
CHECK_DEADLOCK FALSE
