CONSTANTS
    d1 = d1
    d2 = d2
    d3 = d3
    d4 = d4
    d5 = d5
    x1 = x1
    x2 = x2
    NoDoc = NoDoc
    Docs <- FourDocs
    Deleters <- TwoDeleters
    Size <- SizesOfDocs
    MaxFiles = 2
    MaxTotal = 3
    MaxFile = 3
    MaxConcurrent = 2
    FaultKinds <- AllFaultKinds
    MaxFaults = 2
SPECIFICATION Spec
CHECK_DEADLOCK FALSE
SYMMETRY Symmetry
INVARIANTS
    TypeOK
    OneLeakPerFailure
    DeletedOnce
    NoDanglingRow
