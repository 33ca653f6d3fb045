\* Slow sources are overlapped.
CONSTANTS
    c1 = c1
    c2 = c2
    c3 = c3
    Size = 3
    Conns = {c1, c2}
    TreeSources = {}
    PartsOf <- FullSources
    Liars = {}
    MultiChunk = TRUE
    OverlapSlow = TRUE
    MaxSegments = 2
    ShortTail = FALSE
    Loaded <- NewFile
    Mishaps = {}
    MaxMishaps = 1
SPECIFICATION Spec
CHECK_DEADLOCK FALSE
CONSTRAINT FewRepetitions
INVARIANTS
    OverlapIsTakeover
