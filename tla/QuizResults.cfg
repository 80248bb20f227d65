CONSTANTS
    t1 = t1
    t2 = t2
    Nothing = Nothing
    AllLessons <- Ids
    ModuleOf <- ModulesOfCourse
    FirstStatus <- StatusesOfCourse
    Parts <- PartsOfCourse
    Correct <- QuizzesOfCourse
    Options <- TwoOptions
    BlockKey <- BlocksOfCourse
    Queries <- TwoQueries
    Matches <- TitlesWith
    Texts <- TwoTexts
    MaxCopies = 2
    NoQuery <- NoQueryText
    Contents <- SomeContents
SPECIFICATION Spec
INVARIANTS
    ResultsFollow
