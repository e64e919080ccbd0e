SPECIFICATION FairLinksSpec
CONSTANTS
    r1 = r1
    r2 = r2
    k1 = k1
    k2 = k2
    a = a
    Nil = Nil
    Ctl = {c1, c2}
    Conn = {}
    MaxTime = 3
    Life = 2
    Window = 1
    MaxPerRoute = 1
    MaxIncoming = 1
    MaxConnects = 1
    MaxFrames = 0
    MaxBuffered = 1
    MaxBudget = 1
    MaxFaults = 2
INVARIANTS
    NeverBehind
    PairingKept
PROPERTIES
    RouteComesBack
    OperationsSettle
    PortComesBack
CHECK_DEADLOCK FALSE
