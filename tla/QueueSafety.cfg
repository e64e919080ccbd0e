SPECIFICATION Spec
CONSTANTS
    Items = {1}
    t1 = t1
    Threads = {t1}
    ThreadOf <- OneThread
    Steerers = {s1}
    Dispatcher = Dispatcher
    Nobody = Nobody
    MaxRetries = 1
    MaxCrashes = 1
    MaxTurns = 1
    MaxFaults = 2
CHECK_DEADLOCK FALSE
INVARIANTS
    AtMostOnce
    ClaimOutlivesRequest
    CompletedMeansAccepted
    DeliveryInv
PROPERTIES
    RemovedNeverSent
