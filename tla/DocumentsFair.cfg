CONSTANTS
    d1 = d1
    d2 = d2
    d3 = d3
    d4 = d4
    d5 = d5
    x1 = x1
    x2 = x2
    NoDoc = NoDoc
    Docs <- FiveDocs
    Deleters <- OneDeleter
    Size <- SizesOfDocs
    MaxFiles = 2
    MaxTotal = 3
    MaxFile = 3
    MaxConcurrent = 2
    FaultKinds <- NoFaults
    MaxFaults = 0
SPECIFICATION FairSpec
CHECK_DEADLOCK FALSE
INVARIANTS
    OverrunIsBounded
    ByteOverrunIsBounded
PROPERTIES
    ObjectsFindRows
