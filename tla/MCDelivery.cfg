SPECIFICATION DeliverySpec
CONSTANTS
    r1 = r1
    r2 = r2
    r3 = r3
    Replicas = {r1, r2, r3}
    NoOne = NoOne
    Off <- MCOff
    MaxSkew = 1
    Ttl = 3
    MaxSweep = 5
    MaxFaults = 1
    Relays = {s1, s2}
    Origins = {"o1"}
    Tokens = {k1, k2, k3}
    NoToken = NoToken
    Batch = 2
    MaxRevision = 2
    Servers = {s1, s2}
    Operations = {"p1"}
    NoServer = NoServer
    OutboxBatch = 2
    MaxAttempts = 2
    MaxMishaps = 2
    TenantOf <- MCTenantOf
    Manifests <- MCManifests
    Delta <- MCDelta
    Dispatchers = {r1, r2}
    Copies = 2
    DeadAfter = 3
    RetryLimit = 2
    MaxSlips = 1
INVARIANTS
    TypesOK
    
    NoOrphanBacklog
    NoResurrection
    DeliveredReceived
    
    SettlesOwnClaim
    
PROPERTIES
    RowsMoveForward
    WorkGetsDone
CHECK_DEADLOCK FALSE
