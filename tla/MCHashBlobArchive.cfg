SPECIFICATION Spec
CONSTANTS
    w1 = w1
    w2 = w2
    h1 = h1
    h2 = h2
    h3 = h3
    u1 = u1
    u2 = u2
    a1 = a1
    a2 = a2
    a3 = a3
    None = None
    Default = u1
    Writer <- MCWriters
    Hash <- MCHashes3
    Uuid <- MCUuids2
    Archive <- MCArchive3
    BlockSz = 2
    PoolSize = 1
    Env <- MCSync
CHECK_DEADLOCK FALSE
SYMMETRY Symmetry
INVARIANTS
    TypeOK
    UploadComplete
    LeavesReported
PROPERTIES
    NeverDisplaced
