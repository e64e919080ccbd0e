SPECIFICATION FairProgressSpec
CONSTANTS
    r1 = r1
    r2 = r2
    r3 = r3
    k1 = k1
    a = a
    b = b
    t1 = t1
    t2 = t2
    h1 = h1
    h2 = h2
    Requests = {r1, r2, r3}
    Keys = {k1}
    KeyOf <- OneKey
    InputOf <- TwoInputs
    None = None
    TTL = 1
    MaxNow = 2
    MaxCrashes = 1
    MaxFaults = 2
INVARIANTS
    MutationInv
    ExecutedOnce
    AnswersTruthful
PROPERTIES
    RequestsAnswered
    ImplementsOperation
    MessagesProceed
    AcquisitionsReturn
CHECK_DEADLOCK FALSE
