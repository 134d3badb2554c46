SPECIFICATION Spec
CONSTANTS
    f1 = f1
    f2 = f2
    f3 = f3
    n1 = n1
    n2 = n2
    n3 = n3
    n4 = n4
    none = none
    b1 = b1
    w1 = w1
    w2 = w2
    s1 = s1
    s2 = s2
    c1 = c1
    c2 = c2
    d1 = d1
    d2 = d2
INVARIANTS
    WatchersKept
    Answered
    StorageHeld
    BytesInOrder
    WorkIsComing
    ResourcesConserved
PROPERTIES
    RefinesQueue
    TimersOnTime
SYMMETRY Symmetry
CHECK_DEADLOCK FALSE
