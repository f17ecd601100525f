CONSTANTS
    r1 = r1  r2 = r2  r3 = r3  r4 = r4
    k1 = k1  k2 = k2
    Requests = {r1, r2, r4}
    Keys = {k1, k2}
    NoKey = NoKey
    NoJob = NoJob
    KeyOf <- SharedKey
    Credits = 2
    Faults = {"database"}
    MaxFaults = 1
SPECIFICATION FairSpec
PROPERTIES
    FailuresAreRefunded
CHECK_DEADLOCK FALSE
