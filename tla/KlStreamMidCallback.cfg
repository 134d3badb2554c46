SPECIFICATION Spec
CONSTANTS
    Cap = 2
    Lens = {1, 2}
    MaxTaken = 4
    MaxDepth = 8
    Modes <- AllModes
INVARIANTS
    DetachNotMidCallback
