\* Block-split invariance and output sync pulses of the input- and output-synced,
\* frequency-tracking, linearly modulated pulse oscillator with pulse width modulation on an x86-64 build, and its phase advance,
\* frequencies within the tables.
CONSTANTS
    ISync = TRUE
    OSync = TRUE
    WithFreq = TRUE
    FmMode = "linear"
    PwmMod = TRUE
    Pulse = TRUE
    PwmLevels = {0, 1}
    FreqLevels = {2, 3, 5}
    ModLevels = {1}
    InputLen = 4
    MaxBlock = 3
    PosBits = 4
    Step = 1
    Transpose = 1
    FmStrength = 1
    SyncPos = 7
    SyncLevels = {0, 1}
    TableMaxFreq <- MCTableMaxFreq
SPECIFICATION Spec
INVARIANTS TypeOK BlockSplitInvariant SyncAtCrossings PulseOffsetCurrent
