SPECIFICATION Spec
CONSTANTS
    h1 = h1
    h2 = h2
    a1 = a1
    a2 = a2
    None = None
    Hash <- MCHash
    Archive <- MCArchive
    References <- MCReferences
    rmthreashold = 1
    MaxCt = 2
    MaxTime = 3
SYMMETRY Symmetry
INVARIANTS
    TypeOK
    TempAndDbDisjoint
    RefCountExact
    RemovalPositionCurrent
PROPERTIES
    OnlyDeadKeysLeave
