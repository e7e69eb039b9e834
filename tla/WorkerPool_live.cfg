SPECIFICATION FairSpec
CONSTANTS
    Total = 3
    MinSize = 1
    Parts = 2
    MinParts = 1
    BufMax = 2
    MaxRetries = 1
    MaxRuns = 1
    MaxTicks = 1
INVARIANTS
    SidecarSound
    SidecarTiles
PROPERTIES
    Terminates
    RetireesLeave
