SPECIFICATION SSpec
CONSTANTS
    None = 0
    Fp <- MCFp
    name <- Cut
    plog <- MCPlog
    Snapshots <- MCSnapshots
    Leaking <- Both
    Leftover <- MCLeft
    INIT_U = 2
    TH_K = 2
    QUEUE_LIMIT = 2
    RADIUS = 2
    THRESHOLD = 1000
CHECK_DEADLOCK FALSE
INVARIANTS
    STypeOK
    HeapIsTop
    InferredOnce
    PairsStayTogether
    RateAtMostOne
PROPERTIES
    CountsTheTrace
    Terminates
