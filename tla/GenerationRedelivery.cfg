CONSTANTS
    r1 = r1
    r2 = r2
    r3 = r3
    w1 = w1
    w2 = w2
    NoJob = NoJob
    Requests <- TwoRequests
    Workers <- TwoWorkers
    FaultKinds <- AllFaultKinds
    MaxFaults = 2
SPECIFICATION FairSpec
CHECK_DEADLOCK FALSE
INVARIANTS
    CompletedIsPresentable
PROPERTIES
    DeletedStaysDeleted
    ServedTextStays
    QueueDrains
    KeepsItsPromises
    RedeliveryConverges
    TaskFollowsCourse
