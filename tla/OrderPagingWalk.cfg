\* Two shards, pages of two or one read of another kind, one insert and one failing
\* query anywhere.
CONSTANTS
    Orders <- MCOrders
    IdBits = 3
    Date <- MixedDate
    NumShards = 2
    Buyer <- MCBuyer
    Home <- MCHome
    Size = 2
    Merged = TRUE
    ZoneShift = 0
    MaxInserts = 1
    MaxFailures = 1
SPECIFICATION FairSpec
INVARIANTS
    TypeOK
    OnceUnlessDisturbed
PROPERTIES
    PageButForTies
    ReadIsCurrent
    WalkEnds
CHECK_DEADLOCK FALSE
