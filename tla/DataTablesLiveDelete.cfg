SPECIFICATION FairSpec
CONSTANTS
    d1 = d1
    d2 = d2
    t1 = t1
    p1 = p1
    p2 = p2
    DataTable = {d1}
    Table = {t1}
    Partition = {p1, p2}
    TableOf <- MCTableOf
    Specs <- OneObject
    Nobody = Nobody
    PatientUser = FALSE
    MaxConcurrentReconciles = 3
    RetrySteps = 2
    MaxCreations = 1
    MaxEdits = 1
    MaxFailures = 1
    MaxCrashes = 1
    MaxRuntimeChanges = 1
CHECK_DEADLOCK FALSE
INVARIANTS TypeOK
PROPERTIES DeletionCompletes KeptTablesStayCached
