\* Remote users that compete for one slot.
CONSTANTS
    u1 = u1
    u2 = u2
    u3 = u3
    u4 = u4
    c1 = c1
    c2 = c2
    c3 = c3
    c4 = c4
    f1 = f1
    f2 = f2
    l1 = l1
    s1 = s1
    Users = {u1, u2, u3}
    Conns = {c1, c2, c3}
    NormalFiles = {f1, f2}
    FileLists = {l1}
    SmallFiles = {s1}
    ExtraSlots = 1
    MaxSmall = 0
    PerUser = 0
    Setups <- SomeSetups
    Mishaps = {"retry","open","break","late","offline"}
SPECIFICATION FairSpec
CHECK_DEADLOCK FALSE
INVARIANTS
    TypeOK
    SlotCountsExact
    SlotsWithinLimit
PROPERTIES
    EventuallyServed
