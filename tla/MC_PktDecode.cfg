CONSTANTS
  FrameSize = 8
  Frames <- MCFrames
  L2Offset = 0
  MaxTags = 2
  HdrLens = {0, 20, 24}
  Shuffle = {2, 5, 8}
SPECIFICATION DecodeSpec
INVARIANTS WindowSound SameInBothLoops LayersSound DeliveredOnce
CHECK_DEADLOCK FALSE
