\* One file that the user may add another one to, or two files.
CONSTANTS
    f1 = f1
    f2 = f2
    Files = {f1, f2}
    InitialFiles = {{f1}, {f1, f2}}
    UserActions = {"add","remove","removeBundle","share"}
    MaxActions = 2
    Width = 8
SPECIFICATION FairSpec
CHECK_DEADLOCK FALSE
INVARIANTS
    TypeOK
    QueueSizeExact
    CompletedIsReady
PROPERTIES
    PromiseSpec
    EventuallySettled
