SPECIFICATION WebSpec
CONSTANTS
    t1 = t1
    t2 = t2
    u1 = u1
    u2 = u2
    c1 = c1
    c2 = c2
    Nil = Nil
SYMMETRY Symmetry
INVARIANTS
    PageTruthful
    SetupTruthful
    TunnelsAuthorized
    ScenarioKept
CHECK_DEADLOCK FALSE
