SPECIFICATION Spec
CONSTANTS
    r1 = r1
    r2 = r2
    n1 = n1
    n2 = n2
    Nobody = Nobody
    Memory <- MCMemory
    Runtime = {r1}
    Node = {n1, n2}
    EngineID <- OwnIDs
    Replicas = {1, 2}
    Quota = {1, 3}
    gracefulShutdownLimits = 2
    MaxConcurrentReconciles = 3
    MaxCreations = 1
    MaxEdits = 1
    MaxFailures = 1
    MaxInstallFailures = 1
    MaxTimeouts = 1
    MaxOutages = 0
    MaxCrashes = 1
    MaxProbes = 1
CHECK_DEADLOCK FALSE
INVARIANTS
    TypeOK
    
    ReleaseProtected
