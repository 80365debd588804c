\* All data of a frame, one FEC packet lost.
SPECIFICATION Spec
CONSTANTS
  HalfSeq = 32
  MaxFecGroup = 255
  EmplaceMovesDuplicate = FALSE
  VideoSsrc = v
  AudioSsrc = a
  NoSsrc = none
  FrameShapes <- OnlyDelta
  StartPos = 2
  Reach = 20
  MaxVideoFrames = 2
  MaxAudioPackets = 0
  DecoderMayFail = FALSE
PROPERTIES CompleteDataDelivered
CHECK_DEADLOCK FALSE
