SPECIFICATION Spec
CONSTANTS
    Shards <- MCShards
    Order <- MCOrder
    MaxInvocations = 2
CHECK_DEADLOCK FALSE
INVARIANTS
    TypeOK
    MeasuredIsOwn
    
    SuccessTakesItsFilesDown
