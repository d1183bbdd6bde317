SPECIFICATION ScanSpec
CONSTANTS
  Inputs <- MCInputs
  maxFrameSize = 9
  ReadSize = 3
INVARIANTS
  FramesFollowTheStream
  FramesAreWhole
  BufferIsBounded
CHECK_DEADLOCK FALSE
