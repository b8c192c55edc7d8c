SPECIFICATION BSpec
CONSTANTS
    Fp <- MCFp
    Types <- MCTypes
    size <- MCSize
    BLOCK = 2
    MaxRuns = 1
    Plain <- MCPlain
    enc <- MCEnc
    Type = "txt"
    THRESHOLD = 1
    overHold = 2
    Traces <- MCTraces
CHECK_DEADLOCK FALSE
INVARIANTS
    LostOnlyByKills
    SameBucket
    PairedOnce
    OutputCounted
    RatesAreShares
PROPERTIES
    StudyEnds
