SPECIFICATION Spec
CONSTRAINT Within
CONSTANTS
  RxDescs = 3
  TxDescs = 5
  BufSizes = {2}
  MinShift = 1
  Fcs = 1
  Sizes = {1, 3}
  Jobs <- MCJobs
  MaxPackets = 3
  MaxJobs = 2
  None = None
INVARIANTS WholeInOrder NothingWaits SegmentsExact LinkKnown
