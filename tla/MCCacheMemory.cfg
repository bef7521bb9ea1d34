CONSTANTS
    NumSets = 2
    Assoc = 2
    SetBits = 1
    Addr = {0, 1, 2, 4}
    ClientPerms = {"Busy"}
    MaxTick = 2
SPECIFICATION Spec
INVARIANTS
    TypeOK
    TagIndexConsistent
    PolicyTracksResidents
    NoPointerFault
    RecencyAgrees
    GhostBounded
    TargetBounded
