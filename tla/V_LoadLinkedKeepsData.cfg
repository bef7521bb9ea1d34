CONSTANTS
    L1s = {c1, c2}
    Words = {w1}
    FirstWord = w1
    Kinds = {"ST", "Load_Linked"}
    MaxOutstanding = 1
    MaxVersion = 2
    UseLlscLock = {c1, c2}
    SendEvictions = TRUE
    EnablePrefetch = {}
    SharedStreams = FALSE
    L2Evicts = {FALSE, TRUE}
    DmaReads = FALSE
    DmaWrites = {}
    MaxDma = 0
    None = None
SPECIFICATION Spec
SYMMETRY Symmetry
INVARIANTS
    DirectoryOwns
