\* Two runs, pages of three users in one-user chunks for two threads.
CONSTANTS
    Users <- MCUsers
    Home <- MCHome
    CreatedAt <- MCCreatedAt
    NumShards = 2
    PageSize = 3
    Threads = 2
    PerRun = 1
    MaxRuns = 2
SPECIFICATION FairSpec
INVARIANTS
    TypeOK
    ExactlyOnce
    CatalogsAgree
PROPERTIES
    ChunkFailureAborts
    RunsEnd
CHECK_DEADLOCK FALSE
