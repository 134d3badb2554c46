SPECIFICATION Spec
CONSTANTS
    q1 = q1
    c1 = c1
    c2 = c2
    f1 = f1
    f2 = f2
    f3 = f3
    p1 = p1
INVARIANTS
    CallbacksAreLast
    NothingLeftBehind
    OpsBalanced
    HopCarries
    OutputGoesOut
    OnlyTheDeadDropped
PROPERTY SessionsEnd
CHECK_DEADLOCK FALSE
