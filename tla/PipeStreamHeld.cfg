SPECIFICATION Spec
CONSTANTS
    Streams = {s1}
    Models = {"duplex", "reads", "writes", "rdreads", "rdwrites"}
    WCap = 2
    Window = 0
    HeldFree = TRUE
INVARIANT NoUseAfterFinal
CHECK_DEADLOCK FALSE
