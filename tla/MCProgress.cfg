CONSTANTS
    L1s = {c1, c2}
    Words = {w1}
    FirstWord = w1
    Kinds = {"LD", "ST"}
    MaxOutstanding = 2
    MaxVersion = 1
    UseLlscLock = {}
    SendEvictions = TRUE
    EnablePrefetch = {}
    SharedStreams = FALSE
    L2Evicts = {TRUE}
    DmaReads = FALSE
    DmaWrites = {}
    MaxDma = 0
    None = None
SPECIFICATION FairSpec
INVARIANTS
    RequestInProgress
PROPERTIES
    ReadsFresh
    RequestsComplete
