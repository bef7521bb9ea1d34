CONSTANTS
    L1s = {c1, c2, c3}
    Words = {w1}
    FirstWord = w1
    Kinds = {"LD", "ST"}
    MaxOutstanding = 1
    MaxVersion = 1
    UseLlscLock = {}
    SendEvictions = TRUE
    EnablePrefetch = {}
    SharedStreams = FALSE
    L2Evicts = {TRUE}
    DmaReads = FALSE
    DmaWrites = {}
    MaxDma = 0
    None = None
SPECIFICATION Spec
SYMMETRY Symmetry
INVARIANTS
    TypeOK
    SingleWriter
    CopiesAreLatest
    DirectoryOwns
    L2KnowsHolders
    WaitersWaitForTransaction
    NoInvalidTransition
PROPERTIES
    ImplementsCoherentLine
