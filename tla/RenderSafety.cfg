CONSTANTS
    r1 = r1  r2 = r2  r3 = r3  r4 = r4
    k1 = k1  k2 = k2
    Requests = {r1, r2, r4}
    Keys = {k1, k2}
    NoKey = NoKey
    NoJob = NoJob
    KeyOf <- SharedKey
    Credits = 2
    Faults = {"database", "commit_reply", "redis", "publish_reply", "pop_reply", "expiry", "stop"}
    MaxFaults = 3
SPECIFICATION Spec
INVARIANTS
    TypeOK
    ChargeFitsStatus
    OneHolder
    NothingStranded
    OneChargePerKey
PROPERTIES
    KnownEndsAreFinal
    KeepsPromise
CHECK_DEADLOCK FALSE
