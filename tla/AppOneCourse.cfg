CONSTANTS
    c1 = c1
    c2 = c2
    l1 = l1
    l2 = l2
    p1 = p1
    NoCourse = NoCourse
    Courses <- OneCourse
    Loads <- TwoLoads
    Polls <- OnePoll
    MaxErrors = 1
SPECIFICATION FairSpec
CHECK_DEADLOCK FALSE
INVARIANTS
    TypeOK
    PollsUntilReady
PROPERTIES
    PageCatchesUp
    LibraryCatchesUp
