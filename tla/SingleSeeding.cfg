\* Two runs of three users (a batch of two and one of one, pages of three and less)
\* with two threads and a pool of two, one of which the walk holds.
CONSTANTS
    Keys <- MCKeys
    Count = 3
    BatchSize = 2
    PageSize = 3
    Threads = 2
    PoolSize = 2
    MaxRuns = 2
    MaxFaults = 1
SPECIFICATION FairSpec
CHECK_DEADLOCK FALSE
INVARIANTS
    TypeOK
    WalkIsExact
    CitusSeedsOnce
    WaitsForAWriter
PROPERTIES
    RunsEnd
    ImplementsContract
