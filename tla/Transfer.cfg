SPECIFICATION FairSpec
CONSTANTS
    None = None
    Addrs = {a1, a2}
    Len0 <- ThreeVersions
    MaxRetries = 2
    MaxCulls = 1
    MaxProgress = 1
    MaxChanges = 1
INVARIANTS TypeOK PlacedRight WholeStream RotationsBounded
PROPERTIES Ends
CHECK_DEADLOCK FALSE
