\* Gaps and padding, a decoder that does not fail; the numbers wrap around.
SPECIFICATION Spec
CONSTANTS
  HalfSeq = 2
  VP8RawDataLen = 20
  FrameLengths = {1, 2, 3}
  Fillers = {"padding"}
  Reach = 3
  MaxFrames = 3
  MaxFillers = 2
  DecoderMayFail = FALSE
INVARIANTS RawDataIsRun ReferencesDecoded StartsAtFrame WholeFramesDecoded NoAssertFails
CHECK_DEADLOCK FALSE
