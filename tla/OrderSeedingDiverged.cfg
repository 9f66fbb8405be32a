\* One run whose product phase may fail between two shards.
CONSTANTS
    Users <- MCUsers
    Home <- MCHome
    CreatedAt <- MCCreatedAt
    NumShards = 2
    PageSize = 3
    Threads = 2
    PerRun = 1
    MaxRuns = 1
SPECIFICATION Spec
INVARIANTS
    CatalogsAgreeAtRest
CHECK_DEADLOCK FALSE
