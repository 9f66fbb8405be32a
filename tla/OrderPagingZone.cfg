\* The API two units of time ahead of UTC, orders one unit apart or more, pages of one.
CONSTANTS
    Orders <- MCOrders
    IdBits = 3
    Date <- ApartDate
    NumShards = 2
    Buyer <- MCBuyer
    Home <- MCHome
    Size = 1
    Merged = TRUE
    ZoneShift = 2
    MaxInserts = 0
    MaxFailures = 0
SPECIFICATION Spec
INVARIANTS
    EachOrderOnce
CHECK_DEADLOCK FALSE
