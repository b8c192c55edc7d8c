SPECIFICATION FairSpec
CONSTANTS
    w1 = w1
    w2 = w2
    h1 = h1
    h2 = h2
    h3 = h3
    u1 = u1
    u2 = u2
    a1 = a1
    a2 = a2
    a3 = a3
    None = None
    Default = u1
    Writer <- MCWriters
    Hash <- MCHashes2
    Uuid <- MCUuids1
    Archive <- MCArchive2
    BlockSz = 1
    PoolSize = 2
    Env <- MCClose
CHECK_DEADLOCK FALSE
PROPERTY CloseReturns
