CONSTANTS
    CELL_SEGSIZE = 3
    CELL_NSEGMENT = 3
    FIRST_CELLSEGS = 1
    MinRecovered = 2
    VectorLengths = {4,6}
    MaxLocals = 3
    MaxDump = 1
    MaxAllocations = 3
SPECIFICATION Spec
INVARIANT FreeListExact
INVARIANT VectorsIntact
PROPERTY AllocKeepsLive
PROPERTY NoMemoryJustified
