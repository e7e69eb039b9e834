SPECIFICATION FairSpec
CONSTANTS
    None = None
    Addrs = {a1, a2, a3}
INVARIANTS RaceSound
PROPERTIES DialsEnd
CHECK_DEADLOCK FALSE
