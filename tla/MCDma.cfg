CONSTANTS
    L1s = {c1}
    Words = {w1}
    FirstWord = w1
    Kinds = {"LD", "IFETCH", "ST"}
    MaxOutstanding = 1
    MaxVersion = 2
    UseLlscLock = {}
    SendEvictions = TRUE
    EnablePrefetch = {}
    SharedStreams = FALSE
    L2Evicts = {TRUE}
    DmaReads = TRUE
    DmaWrites = {{w1}}
    MaxDma = 3
    None = None
SPECIFICATION Spec
INVARIANTS
    DirectoryOwns
    DmaReadsFresh
    
