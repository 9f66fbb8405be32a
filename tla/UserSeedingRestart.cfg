\* Two lookup-mode runs over the same databases, each a batch of three users in
\* chunks of two and one; either run may fail at any commit or be killed.
CONSTANTS
    u1 = u1
    u2 = u2
    u3 = u3
    u4 = u4
    u5 = u5
    u6 = u6
    Users <- SixUsers
    Home <- HomeOfSix
    NumShards = 2
    Threads = 2
    BatchSize = 3
    Count = 3
    UseLookup = TRUE
    MaxRuns = 2
SPECIFICATION Spec
SYMMETRY SixSymmetry
INVARIANTS
    TypeOK
    RouteSound
    RoutedReadFinds
    SuccessReachable
    OwedIsFound
    ChunkAppearsAtOnce
PROPERTIES
    StillAfterExit
    ImplementsContract
