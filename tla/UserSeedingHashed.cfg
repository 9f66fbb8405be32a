\* One hash-sharded run: a batch of three users in chunks of two and one, then a
\* batch smaller than the pool; scheduled fairly.
CONSTANTS
    u1 = u1
    u2 = u2
    u3 = u3
    u4 = u4
    u5 = u5
    u6 = u6
    Users <- FourUsers
    Home <- HomeOfFour
    NumShards = 2
    Threads = 2
    BatchSize = 3
    Count = 4
    UseLookup = FALSE
    MaxRuns = 1
SPECIFICATION FairSpec
INVARIANTS
    ExactTotal
PROPERTIES
    RunsEnd
