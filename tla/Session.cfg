CONSTANTS
    c1 = c1
    c2 = c2
    h1 = h1
    h2 = h2
    Nothing = Nothing
    Calls <- TwoCalls
    Handlers <- TwoHandlers
    MaxPairs = 7
    MaxEndings = 1
    FaultKinds <- AllFaultKinds
    MaxFaults = 1
SPECIFICATION FairSpec
INVARIANTS
    TypeOK
    TokensAreBacked
    RotationIsBounded
PROPERTIES
    CallsEnd
    CallsRecover
