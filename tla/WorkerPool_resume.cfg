SPECIFICATION Spec
CONSTANTS
    Total = 3
    MinSize = 1
    Parts = 2
    MinParts = 2
    BufMax = 2
    MaxRetries = 1
    MaxRuns = 2
    MaxTicks = 0
INVARIANTS
    PoolInv
    SuccessMeansWhole
PROPERTIES
    ImplementsLedger
