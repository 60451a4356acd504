SPECIFICATION FairSpec
CONSTANTS
    c1 = c1  c2 = c2  u1 = u1  u2 = u2  a1 = a1  a2 = a2  d1 = d1
    p1 = p1  p2 = p2
    Procs = {p1, p2}
    Paths = {d1, Empty}
    ClientIDs = {c1, c2}
    Registrations = {u1, u2}
    Files <- MCFiles
    Envs <- MCEnvs
    DefaultAddress = a1  DefaultPath = d1  DefaultIssuer = a1
    Empty = Empty
    None = None
INVARIANTS
    TypeOK
    ServedAsConfigured
    MemoryHoldsItsOwn
PROPERTIES
    StartEnds
