\* One load after a generator that was killed.
CONSTANTS
    NumShards = 2
    Base = 4
    Ring = 16
    Size = 2
    Digest <- TwoUsers
    MaxLoads = 1
SPECIFICATION Spec
CHECK_DEADLOCK FALSE
INVARIANT SuccessLoadsAsked
