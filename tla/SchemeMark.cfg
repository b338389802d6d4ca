CONSTANTS
    Cells <- MCCells
    Heaps <- MCHeaps
    Count = 4
    Vectors = {0, 1, 2}
SPECIFICATION Spec
INVARIANT MarkingSafe
PROPERTY Marked
CHECK_DEADLOCK FALSE
