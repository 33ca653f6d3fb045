\* A source that may send wrong data, or a wrong tree, while connections break, the
\* user intervenes and the temporary file gets lost; the last leaf is short.
CONSTANTS
    c1 = c1
    c2 = c2
    c3 = c3
    Size = 2
    Conns = {c1, c2}
    TreeSources = {c1}
    PartsOf <- FullSources
    Liars = {c1}
    MultiChunk = TRUE
    OverlapSlow = FALSE
    MaxSegments = 2
    ShortTail = TRUE
    Loaded <- AnyNewFile
    Mishaps = {"drop", "remove", "pause", "vanish"}
    MaxMishaps = 2
SPECIFICATION Spec
CHECK_DEADLOCK FALSE
INVARIANTS
    VerifiedOnDisk
