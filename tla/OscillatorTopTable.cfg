\* Block-split invariance when the frequency moves above the highest table.
CONSTANTS
    ISync = FALSE
    OSync = FALSE
    WithFreq = TRUE
    FmMode = "none"
    PwmMod = FALSE
    Pulse = FALSE
    PwmLevels = {0}
    FreqLevels = {2, 7, 9}
    ModLevels = {0}
    InputLen = 3
    MaxBlock = 3
    PosBits = 5
    Step = 1
    Transpose = 1
    FmStrength = 1
    SyncPos = 7
    SyncLevels = {0}
    TableMaxFreq <- MCTableMaxFreq
SPECIFICATION Spec
INVARIANT BlockSplitInvariant
