\* Honest sources of a new or resumed file, whose tree may have to be
\* downloaded and whose temporary file may get lost; c2 has a part of it only.
CONSTANTS
    c1 = c1
    c2 = c2
    c3 = c3
    Size = 3
    Conns = {c1, c2}
    TreeSources = {c1}
    PartsOf <- TailSource
    Liars = {}
    MultiChunk = TRUE
    OverlapSlow = FALSE
    MaxSegments = 2
    ShortTail = FALSE
    Loaded <- AnyFile
    Mishaps = {"drop", "refuse", "remove", "pause", "vanish"}
    MaxMishaps = 2
SPECIFICATION Spec
CHECK_DEADLOCK FALSE
INVARIANTS
    TypeOK
    AccountingExact
    FinishedOnce
    NoLeftovers
    CompletedIsReady
PROPERTIES
    AssemblySpec
