SPECIFICATION FairSpec
CONSTANTS
    c1 = c1  c2 = c2  u1 = u1  u2 = u2  x1 = x1  x2 = x2  v1 = v1  v2 = v2
    AuthWorkers = {a1}
    CallbackWorkers = {b1, b2}
    TokenWorkers = {}
    FlowStates = {s1}
    Codes = {k1}
    DIDs = {d1}
    Clients = {c1, c2}
    URIs = {u1, u2}
    ParseableURIs = {u1}
    Secrets = {x1, x2}
    RPValues = {v1, v2}
    AuthRequests <- AllRequests
    TokenForms <- GoodForms
    Configs <- TwoConfigs
    AuthCodeTTL = 1
    MaxClock = 2
    MaxRestarts = 1
    Persistent = TRUE
    Absent = Absent
    None = None
INVARIANTS
    PendingExact
    RedirectOnlyToRegistered
    TakenFlowInHand
PROPERTY
    TakenFlowAnswered
