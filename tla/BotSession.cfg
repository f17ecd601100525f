CONSTANTS
    u1 = u1  u2 = u2
    Users = {u1, u2}
    MaxPhotos = 4
    SessionTTL = 3
    MaxPolls = 2
    Faults = {"telegram", "redis", "api", "api_reply", "stop"}
    MaxFaults = 1
SPECIFICATION Spec
INVARIANTS
    TypeOK
    JobsPairPhotos
    PhotoUsedOnce
    SentOnce
    CarPhotosAreKept
PROPERTIES
    EveryPhotoIsAnswered
CHECK_DEADLOCK FALSE
