SPECIFICATION FairSpec
CONSTANTS
    Slots = {c1}
    Requests <- OneClient
    Listen = Listen
    Watch = Watch
    TlsModes = {FALSE, TRUE}
    MaxSuspends = 2
    MaxBatch = 2
    MaxFrames = 3
INVARIANTS NoneStranded OneOutcome
PROPERTY RequestEnds
