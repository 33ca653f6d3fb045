\* A connection is lost and the next attempt refused.
CONSTANTS
    t1 = t1
    t2 = t2
    c1 = c1
    c2 = c2
    f1 = f1
    f2 = f2
    f3 = f3
    Tokens = {t1, t2}
    Conns = {c1, c2}
    SmallFiles = {f1}
    NormalFiles = {f2, f3}
    MaxConns = 2
    Users <- RefusedUser
    Mishaps = {"connect","drop"}
SPECIFICATION Spec
CHECK_DEADLOCK FALSE
PROPERTIES
    RequestForcesRetry
