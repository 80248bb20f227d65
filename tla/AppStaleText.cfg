CONSTANTS
    c1 = c1
    c2 = c2
    l1 = l1
    l2 = l2
    p1 = p1
    NoCourse = NoCourse
    Courses <- TwoCourses
    Loads <- TwoLoads
    Polls <- OnePoll
    MaxErrors = 0
SPECIFICATION Spec
CHECK_DEADLOCK FALSE
INVARIANTS
    PollsUntilReady
