SPECIFICATION Spec
CONSTANTS
    q1 = q1
    q2 = q2
    k1 = k1
    k2 = k2
    k3 = k3
    c1 = c1
    c2 = c2
    Listen = Listen
    Watch = Watch
INVARIANTS
    CutAnywhere
    AgreesWithDefinition
    LookupsTracked
    ClientsKeptApart
PROPERTY BlockingClientThorough
CHECK_DEADLOCK FALSE
