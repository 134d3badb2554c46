SPECIFICATION Spec
CONSTANTS
    Reqs = {q1}
    NNS = 1
    Attempts = 1
    MaxSearch = 0
INVARIANT UnsentIsWatched
CHECK_DEADLOCK FALSE
