SPECIFICATION Spec
CONSTANTS
    Total = 3
    MinSize = 1
    Parts = 3
    MinParts = 1
    BufMax = 2
    MaxRetries = 1
    MaxRuns = 1
    MaxTicks = 0
INVARIANTS
    TypeOK
    OnlyOvertakenStranded
    RetirementIsClean
    FlowLimit
    OneChunkEach
PROPERTIES
    ReporterContract
