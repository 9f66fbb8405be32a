\* Two loads of a dataset of two users, the generator killed or still running,
\* in each of the three modes.  The run is over when the loads are used up.
CONSTANTS
    NumShards = 2
    Base = 4
    Ring = 16
    Size = 2
    Digest <- TwoUsers
    MaxLoads = 2
SPECIFICATION Spec
CHECK_DEADLOCK FALSE
INVARIANTS
    TypeOK
    CatalogWhole
    SuccessIsServed
    RoutedShardsLoaded
    SuccessIsOneLoad
