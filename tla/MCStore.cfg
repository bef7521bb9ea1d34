CONSTANTS
    NumSets = 2
    Assoc = 3
    SetBits = 1
    Addr = {0, 2, 4, 6}
    ClientPerms = {"Invalid"}
    MaxTick = 2
SPECIFICATION Spec
INVARIANTS
    ScanFindsVictim
PROPERTIES
    ImplementsStore
