SPECIFICATION Spec
CONSTANTS
    Slots = {c1}
    Requests <- OneClient
    Listen = Listen
    Watch = Watch
    TlsModes = {FALSE}
    MaxSuspends = 1
    MaxBatch = 2
    MaxFrames = 3
PROPERTY ReusedOnlyWhenRead
