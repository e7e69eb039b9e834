SPECIFICATION Spec
CONSTANTS
    Calls <- ThreeCalls
    Procs <- TwoProcs
    home <- TwoHomes
    work <- Work
INVARIANTS
    OneWriter
    OneHolder
    SiblingsWait
    NoLeak
    NoTokenLost
