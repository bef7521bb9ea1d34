CONSTANTS
    L1s = {c1, c2}
    Words = {w1}
    FirstWord = w1
    Kinds = {"LD", "ST"}
    MaxOutstanding = 1
    MaxVersion = 1
    UseLlscLock = {}
    SendEvictions = TRUE
    EnablePrefetch = {c1}
    SharedStreams = FALSE
    L2Evicts = {FALSE}
    DmaReads = FALSE
    DmaWrites = {}
    MaxDma = 0
    None = None
SPECIFICATION Spec
INVARIANTS
    CopiesAreLatest
    DirectoryOwns
    NoInvalidTransition
    RequestsPutAsideWait
