\* A bundle of two files of two segments, and restarts.
CONSTANTS
    f1 = f1
    f2 = f2
    Files = {f1, f2}
    FileLeaves <- SomeLeaves
    Setups <- SomeSetups
    Mishaps = {}
SPECIFICATION FairSpec
CHECK_DEADLOCK FALSE
INVARIANTS
    TypeOK
    RestartRestores
    FinishedIsOnDisk
PROPERTIES
    PromiseSpec
    EventuallyInPlace
