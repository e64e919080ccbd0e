SPECIFICATION StorageSpec
CONSTANTS
    a0 = a0
    a1 = a1
    a2 = a2
    a3 = a3
    p0 = p0
    p1 = p1
    p2 = p2
    p3 = p3
    near = near
    far = far
    w1 = w1
    w2 = w2
    w3 = w3
    c1 = c1
    c2 = c2
    Nil = Nil
    None = None
    Attempts = {a0, a1, a2, a3}
    Processes = {p0, p1, p2, p3}
    ProcessOf <- OwnProcess
    HostOf <- TwoHosts
    Gone = {p0}
    MaxSpares = 1
    MaxCrashes = 1
    MaxExpiries = 0
    Writers = {w1, w2, w3}
    MaxUpdates = 3
    MaxFaults = 1
SYMMETRY Symmetry
INVARIANTS
    LockSafety
    Exclusion
    UpdatesKept
PROPERTIES
    StoresKept
CHECK_DEADLOCK FALSE
