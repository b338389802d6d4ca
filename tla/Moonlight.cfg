SPECIFICATION Spec
CONSTRAINT Within
CONSTANTS
  FrameKinds <- MCFrameKinds
  NumFrames = 4
  FirstIndexes = {0, 26}
  IndexMod = 32
  ShortMod = 16
  Window = 2
  Events <- MCEvents
  MaxQueued = 3
  ShortMax = 2
  MaxEvents = 4
INVARIANTS FramesWhole GapsCovered InputExact
CHECK_DEADLOCK FALSE
