\* Orders placed at the same instant on two shards, pages of one.
CONSTANTS
    Orders <- MCOrders
    IdBits = 3
    Date <- TiedDate
    NumShards = 2
    Buyer <- MCBuyer
    Home <- MCHome
    Size = 1
    Merged = TRUE
    ZoneShift = 0
    MaxInserts = 0
    MaxFailures = 0
SPECIFICATION Spec
INVARIANTS
    EachOrderOnce
CHECK_DEADLOCK FALSE
