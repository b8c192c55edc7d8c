SPECIFICATION StoreSpec
CONSTANTS
    h1 = h1
    h2 = h2
    a1 = a1
    a2 = a2
    None = None
    Hash <- MCHash
    Archive <- MCArchive
    References <- MCReferences
    rmthreashold = 0
    MaxCt = 1
    MaxTime = 2
    MapOpens <- MCEither
SYMMETRY Symmetry
INVARIANTS
    StoreTypeOK
    NoLoss
PROPERTIES
    DropsOnlyUnindexed
