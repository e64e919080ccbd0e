SPECIFICATION SessionsSpec
CONSTANTS
    u1 = u1
    u2 = u2
    r1 = r1
    r2 = r2
    w1 = w1
    w2 = w2
    n1 = n1
    n2 = n2
    q1 = q1
    q2 = q2
    k1 = k1
    k2 = k2
    a = a
    Title = Title
    Requests = {q1, q2}
    Composers = {q1}
    Keys = {k1, k2}
    KeyOf <- OwnKeys
    InputOf <- SameInput
    None = None
    TTL = 1
    MaxNow = 0
    MaxCrashes = 1
    MaxFaults = 1
    MaxLinks = 2
SYMMETRY Symmetry
INVARIANTS
    ReportsTruthful
    ChannelKept
PROPERTIES
    ReferencesKept
CHECK_DEADLOCK FALSE
