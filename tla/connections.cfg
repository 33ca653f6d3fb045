\* Five kinds of remote users, their connections, and up to two failures of the kinds below.
CONSTANTS
    t1 = t1
    t2 = t2
    c1 = c1
    c2 = c2
    f1 = f1
    f2 = f2
    f3 = f3
    Tokens = {t1, t2}
    Conns = {c1, c2}
    SmallFiles = {f1}
    NormalFiles = {f2, f3}
    MaxConns = 2
    Users <- SomeUsers
    Mishaps = {"late","connect","protocol","lose","force","drop","error","offline","full"}
SPECIFICATION FairSpec
CHECK_DEADLOCK FALSE
INVARIANTS
    TypeOK
    ActiveHasConnection
    IdlersAreIdle
PROPERTIES
    EventuallyServed
