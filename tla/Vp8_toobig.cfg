\* A decoder that fails again and again; every frame fits the buffer.
SPECIFICATION Spec
CONSTANTS
  HalfSeq = 4
  VP8RawDataLen = 3
  FrameLengths = {1, 2}
  Fillers = {"padding"}
  Reach = 3
  MaxFrames = 4
  MaxFillers = 1
  DecoderMayFail = TRUE
INVARIANTS NoAssertFails
CHECK_DEADLOCK FALSE
