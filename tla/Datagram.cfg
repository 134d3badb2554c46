SPECIFICATION FairSpec
CONSTANTS
    Slots = 2
    MaxBatch = 1
    MaxFill = 2
    MaxSegs = 2
    MaxDepth = 1
INVARIANTS DetachIsLast StoragePinned NoLostEdge
PROPERTIES CloseCompletes
CHECK_DEADLOCK FALSE
