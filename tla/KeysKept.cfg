SPECIFICATION Spec
CONSTANTS
    p1 = p1  p2 = p2  p3 = p3  k1 = k1  k2 = k2  k3 = k3
    Processes <- MCProcesses
    Keys <- MCKeys
    InitialRows <- AnyRow
    ReadFaults = FALSE
    Corrupt = Corrupt
    None = None
SYMMETRY Symmetry
INVARIANTS
    TypeOK
    UsedKeysWereSaved
    JWKSVerifiesEveryToken
PROPERTIES
    RaceHeals
    StoredKeyIsKept
