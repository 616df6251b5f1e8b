CONSTANTS
    u1 = u1
    u2 = u2
    s1 = s1
    s2 = s2
    Users = {u1, u2}
    Sockets = {s1, s2}
    MaxMessages = 1
    MaxJobs = 2
    PlanIds = {1, 2, 3}
    Names = {1, 2, 3}
    Prices = {1, 2}
    Times = {1, 2}
    MaxRuns = 2
    MaxWrites = 4
    PageSize = 2
    Sizes = {0, 1}
SPECIFICATION Spec
INVARIANTS TypeOK StatusAgrees ReceivedIsInHistory WalkShowsAll SeedsRepair
PROPERTIES JobsEnd
CONSTRAINT OneColumn
CHECK_DEADLOCK FALSE
