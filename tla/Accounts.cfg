SPECIFICATION Spec
CONSTANTS
    s1 = s1
    s2 = s2
    n1 = n1
    n2 = n2
    k1 = k1
    k2 = k2
    Session = {s1, s2}
    DeviceId = {d1}
    DevKey = {n1, n2}
    Key = {k1, k2}
    MaxRuns = 3
    None = None
    EphemeralLimit = 1
    AttemptLimit = 1
    MaxChallenges = 1
    MaxIssues = 3
    MaxConnections = 2
    Scenes <- AccountScenes
    IOFaults = TRUE
SYMMETRY Symmetry
INVARIANTS
    AccountsKept
CHECK_DEADLOCK FALSE
