SPECIFICATION FairServicesSpec
CONSTANTS
    o1 = o1
    o2 = o2
    Nil = Nil
    Op = {o1, o2}
    MaxRequests = 4
    MaxFaults = 1
    MaxStarts = 2
    MaxInstalls = 1
    MaxCrashes = 2
    MaxTurns = 1
    MaxCalls = 3
    None = None
INVARIANTS
    AppServerKept
PROPERTIES
    AccessSafety
    GateReleased
    RemovalFinishes
    OperationSettles
CHECK_DEADLOCK FALSE
