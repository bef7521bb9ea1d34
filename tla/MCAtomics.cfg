CONSTANTS
    L1s = {c1, c2}
    Words = {w1}
    FirstWord = w1
    Kinds = {"LD", "ST", "Load_Linked", "Store_Conditional",
             "Locked_RMW_Read", "Locked_RMW_Write"}
    MaxOutstanding = 1
    MaxVersion = 2
    UseLlscLock = {c1}
    SendEvictions = TRUE
    EnablePrefetch = {}
    SharedStreams = FALSE
    L2Evicts = {}
    DmaReads = FALSE
    DmaWrites = {}
    MaxDma = 0
    None = None
SPECIFICATION Spec
INVARIANTS
    MonitorSound
    LockedRMWAtomic
    WaitersWaitForTransaction
