\* A decoder that may fail, and packets that are refused.
SPECIFICATION Spec
CONSTANTS
  HalfSeq = 4
  VP8RawDataLen = 20
  FrameLengths = {1, 2}
  Fillers = {"padding", "empty", "short"}
  Reach = 3
  MaxFrames = 3
  MaxFillers = 2
  DecoderMayFail = TRUE
INVARIANTS RawDataIsRun
CHECK_DEADLOCK FALSE
