\* One root with a directory, two disks.
CONSTANTS
    t1 = t1
    t2 = t2
    d1 = d1
    d2 = d2
    a = a
    b = b
    c = c
    Files = {a, b, c}
    Threads = {t1, t2}
    Devices = {d1, d2}
    DeviceOf <- TwoDisks
    MaxThreads = 2
    PerVolume = 1
    SubFiles = {b, c}
    Setups <- SomeSetups
    Mishaps = {}
SPECIFICATION FairSpec
CHECK_DEADLOCK FALSE
INVARIANTS
    TypeOK
    IndexExact
    PauserHolds
PROPERTIES
    EventuallyShared
    EventuallyDown
