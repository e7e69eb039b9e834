SPECIFICATION Spec
CONSTANTS
    Total = 2
    Versions = 2
    Inodes <- ThreeInodes
    Policies <- OneWay
INVARIANTS
    SidecarHonest
    DestIsWhole
PROPERTIES
    NoClobber
