SPECIFICATION Spec
CONSTANTS
    None = 0
    Workers = {w1, w2}
    Addrs = {1, 2}
    election = 1
    Answers <- AllOrElection
    Scenarios <- Windows
PROPERTIES
    ProbeRestored
CHECK_DEADLOCK FALSE
