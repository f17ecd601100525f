CONSTANTS
    r1 = r1  r2 = r2  r3 = r3  r4 = r4  r5 = r5
    Requests = {r1, r2, r3, r4, r5}
    Limit = 2
    Window = 2
    CallsFail = TRUE
SPECIFICATION Spec
INVARIANTS
    TypeOK
    BurstIsBounded
    RefusedAtLimit
PROPERTIES
    CountersExpire
CHECK_DEADLOCK FALSE
