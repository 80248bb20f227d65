CONSTANTS
    d1 = d1
    d2 = d2
    d3 = d3
    d4 = d4
    d5 = d5
    x1 = x1
    x2 = x2
    NoDoc = NoDoc
    Docs <- ThreeDocs
    Deleters <- TwoDeleters
    Size <- SizesOfDocs
    MaxFiles = 1
    MaxTotal = 3
    MaxFile = 3
    MaxConcurrent = 2
    FaultKinds <- NoFaults
    MaxFaults = 0
SPECIFICATION Spec
CHECK_DEADLOCK FALSE
INVARIANTS
    FileLimit
