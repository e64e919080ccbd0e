SPECIFICATION TasksSpec
CONSTANTS
    t1 = t1
    t2 = t2
    u1 = u1
    u2 = u2
    u3 = u3
    Tasks = {t1, t2}
    Holders = {u1, u2, u3}
    Starters = {u3}
    TaskOf <- OpenedTask
    None = None
    maximumLeases = 1
    MaxClients = 2
    MaxFailures = 1
SYMMETRY Symmetry
INVARIANTS
    TurnsFollowed
PROPERTIES
    LeaseSafety
    PermissionsAgree
    ForkIsOwned
CHECK_DEADLOCK FALSE
