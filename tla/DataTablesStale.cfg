SPECIFICATION Spec
CONSTANTS
    d1 = d1
    d2 = d2
    t1 = t1
    p1 = p1
    p2 = p2
    DataTable = {d1, d2}
    Table = {t1}
    Partition = {p1}
    TableOf <- MCTableOf
    Specs <- Mixed
    Nobody = Nobody
    PatientUser = FALSE
    MaxConcurrentReconciles = 3
    RetrySteps = 2
    MaxCreations = 2
    MaxEdits = 0
    MaxFailures = 0
    MaxCrashes = 1
    MaxRuntimeChanges = 0
CHECK_DEADLOCK FALSE
INVARIANTS RecoverExclusive FinalizerHeld LiveLabelsKept
PROPERTIES RestoredByDeletion RemovedOnlyWhenCleared ImplementsCachedUnits
