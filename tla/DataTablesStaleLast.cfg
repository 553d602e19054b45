SPECIFICATION Spec
CONSTANTS
    d1 = d1
    d2 = d2
    t1 = t1
    p1 = p1
    p2 = p2
    DataTable = {d1, d2}
    Table = {t1}
    Partition = {}
    TableOf <- MCTableOf
    Specs <- OneTable
    Nobody = Nobody
    PatientUser = TRUE
    MaxConcurrentReconciles = 3
    RetrySteps = 2
    MaxCreations = 2
    MaxEdits = 0
    MaxFailures = 0
    MaxCrashes = 0
    MaxRuntimeChanges = 0
CHECK_DEADLOCK FALSE
PROPERTIES SomeoneIsLast
