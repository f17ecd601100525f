CONSTANTS
    u1 = u1  u2 = u2
    t1 = t1  t2 = t2
    Users = {u1, u2}
    Visitors = {u1}
    Tabs = {t1, t2}
    NoUser = NoUser
    MaxKey = 2
    JwksTtl = 1
    TokenTtl = 1
    InitDataAge = 0
    DevAuth = TRUE
SPECIFICATION Spec
INVARIANTS
    TypeOK
    LoginIsThisOne
    WhoIsInHasARow
    ActsForItsOwner
PROPERTIES
    DecisionsAreCurrent
    EveryLoginEnds
CHECK_DEADLOCK FALSE
