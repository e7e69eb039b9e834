SPECIFICATION Spec
CONSTANTS
    None = 0
    Workers = {w1, w2}
    Addrs = {1, 2}
    election = 1
    Answers <- AllOrElection
    Scenarios <- Encounters
SYMMETRY SymW
INVARIANTS
    TypeOK
    ConnsMatch
    NeverAllStruck
    CulledMoves
    AttributionHonest
PROPERTIES
    ClosedIsFinal
CHECK_DEADLOCK FALSE
