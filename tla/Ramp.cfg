SPECIFICATION HostileSpec
CONSTANTS
    Parts = 4
    Floors <- AnyFloor
INVARIANTS
    TypeOK
    NoIdTwice
    JudgedAfterContribution
    FlowsWithinAdmitted
PROPERTIES
    DemotionSheds
    HostileHostSheds
