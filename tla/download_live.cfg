\* Honest sources and one drop, refusal, removal or loss of the temporary file, with
\* fairness.
CONSTANTS
    c1 = c1
    c2 = c2
    c3 = c3
    Size = 3
    Conns = {c1, c2}
    TreeSources = {c1}
    PartsOf <- FullSources
    Liars = {}
    MultiChunk = TRUE
    OverlapSlow = FALSE
    MaxSegments = 2
    ShortTail = FALSE
    Loaded <- AnyNewFile
    Mishaps = {"drop", "refuse", "remove", "vanish"}
    MaxMishaps = 1
SPECIFICATION FairSpec
CHECK_DEADLOCK FALSE
PROPERTIES
    EventuallyCompleted
