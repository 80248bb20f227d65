CONSTANTS
    r1 = r1
    r2 = r2
    r3 = r3
    w1 = w1
    w2 = w2
    NoJob = NoJob
    Requests <- ThreeRequests
    Workers <- TwoWorkers
    FaultKinds <- SingleDeliveryFaults
    MaxFaults = 2
SPECIFICATION Spec
CHECK_DEADLOCK FALSE
SYMMETRY Symmetry
INVARIANTS
    TypeOK
    OneLossPerFailure
    SingleCarrier
    StatusesAgree
PROPERTIES
    ImplementsService
