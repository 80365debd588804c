\* Lossless, across wrap-arounds that no protected range crosses.
SPECIFICATION ClientSpec
CONSTANTS
  HalfSeq = 4
  MaxFecGroup = 255
  EmplaceMovesDuplicate = FALSE
  VideoSsrc = v
  AudioSsrc = a
  NoSsrc = none
  FrameShapes <- KeyAndDelta
  StartPos = 2
  Reach = 3
  MaxVideoFrames = 5
  MaxAudioPackets = 1
  DecoderMayFail = FALSE
INVARIANTS TwoPingTimers PauseFreezes ScreenUpToDate
PROPERTIES EveryFrameDecoded EveryFrameShown
