CONSTANTS
    NumSets = 2
    Assoc = 1
    SetBits = 1
    Addr = {0, 1, 2}
    ClientPerms = {"Busy", "Granted"}
    MaxTick = 1
    MaxRequests = 4
    NumTBEs = 3
SPECIFICATION HistorySpec
PROPERTY NewBlockEntersT1
