SPECIFICATION FairSpec
CONSTANTS
    r1 = r1
    r2 = r2
    n1 = n1
    n2 = n2
    Nobody = Nobody
    Memory <- MCMemory
    Runtime = {r1}
    Node = {n1, n2}
    EngineID <- OwnIDs
    Replicas = {0, 1}
    Quota = {1}
    gracefulShutdownLimits = 2
    MaxConcurrentReconciles = 3
    MaxCreations = 1
    MaxEdits = 0
    MaxFailures = 1
    MaxInstallFailures = 0
    MaxTimeouts = 0
    MaxOutages = 1
    MaxCrashes = 1
    MaxProbes = 1
CHECK_DEADLOCK FALSE
PROPERTIES RuntimeDeletionCompletes RuntimeIsSetUp
