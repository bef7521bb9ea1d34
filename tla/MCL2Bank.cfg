CONSTANTS
    NumSets = 2
    Assoc = 2
    SetBits = 1
    Addr = {0, 2, 4}
    ClientPerms = {"Busy", "Granted"}
    MaxTick = 1
    MaxRequests = 3
    NumTBEs = 2
SPECIFICATION FairBankSpec
INVARIANTS
    BankTypeOK
    StateMatchesCache
    ParkedOnTransaction
    NoRequestDuplicated
    TBEsBounded
    
PROPERTIES
    EveryRequestServed
