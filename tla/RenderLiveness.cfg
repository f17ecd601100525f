CONSTANTS
    r1 = r1  r2 = r2  r3 = r3  r4 = r4
    k1 = k1  k2 = k2
    Requests = {r1, r2, r4}
    Keys = {k1, k2}
    NoKey = NoKey
    NoJob = NoJob
    KeyOf <- SharedKey
    Credits = 2
    Faults = {"publish_reply", "redis", "expiry"}
    MaxFaults = 2
SPECIFICATION FairSpec
PROPERTIES
    ReservationsSettle
CHECK_DEADLOCK FALSE
