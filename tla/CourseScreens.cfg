CONSTANTS
    c1 = c1
    c2 = c2
    d1 = d1
    d2 = d2
    found = found
    NoQuery = NoQuery
    Courses <- TwoCourses
    Worked = {c1}
    Level <- TwoLevels
    Queries <- TwoQueries
    Matches <- OneMatch
    StatusFilters = {"all", "completed"}
    DifficultyFilters = {"all", "advanced"}
    Docs <- TwoDocs
    OldDocs <- OneOldDoc
    SourceTypes = {"articles"}
    Loads = {l1}
    PageLimit = 1
    MaxErrors = 1
SPECIFICATION Spec
CHECK_DEADLOCK FALSE
INVARIANTS
    TypeOK
    OneCoursePerForm
    SentDocuments
    WaitsForSomething
PROPERTIES
    UploadedIsListed
    AcceptedIsVisible
