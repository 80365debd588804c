CONSTANTS
  SpsInputs <- MCSpsInputs
  SliceInputs <- MCSliceInputs
  CodeInputs <- MCCodeInputs
  ReadInputs <- MCReadInputs
  DescriptorInputs <- MCDescriptorInputs
  RateInputs <- MCRateInputs
  PacketInputs <- MCPacketInputs

SPECIFICATION Spec

INVARIANTS SpsDimensions FrameTypeExact BitsExact PacketExact DescriptorExact RembRoundsDown
