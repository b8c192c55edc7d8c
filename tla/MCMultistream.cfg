SPECIFICATION MSpec
CONSTANTS
    RawTraces <- MCRaw
    MaxStarts = 2
    Fp <- MCFp
    size <- MCSize
    SEG_SIZE = 3
    Radii <- MCRadii
    SCALE = 6
    plog <- MCPlog
    U = 3
    RADIUS = 1
    T = 200
    MINP = 100
    Leftover <- MCLeft
    InferMod = 4
    Targets <- MCTargets
    KillAt = 4
    Retries <- MCRetries
CHECK_DEADLOCK FALSE
INVARIANTS
    MTypeOK
    NoneLost
    SegmentsAreTheFile
    SlicesAreClasses
    NearestKept
    ClassesAreClusters
    SlicesAreSimilar
    PairedOnce
    CorrectCounted
PROPERTIES
    IsAgglomerative
    ProgramsEnd
