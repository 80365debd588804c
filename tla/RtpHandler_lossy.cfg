\* One cycle of the sequence numbers; the network does anything.
SPECIFICATION Spec
CONSTANTS
  HalfSeq = 32
  MaxFecGroup = 255
  EmplaceMovesDuplicate = FALSE
  VideoSsrc = v
  AudioSsrc = a
  NoSsrc = none
  FrameShapes <- AllShapes
  StartPos = 1
  Reach = 20
  MaxVideoFrames = 3
  MaxAudioPackets = 1
  DecoderMayFail = TRUE
INVARIANTS TypeOK AtMostOneFrame JitterAfterPopped NoAssertFails IdrCarriesParams
PROPERTIES NeverPopsBack DeliversFrames
