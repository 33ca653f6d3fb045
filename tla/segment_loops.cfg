\* Leaves of two units and a short last leaf, two downloads; any segment may be
\* recorded.
CONSTANTS
    Size = 9
    Leaf = 2
    MaxRunning = 2
    Inserted <- MCInserted
SPECIFICATION LoopSpec
INVARIANTS
    MergeAgrees
    ScanAgrees
    NextIsUseful
