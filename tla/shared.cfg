SPECIFICATION Spec
CONSTANTS
    t1 = t1
    t2 = t2
    t3 = t3
    NoTask = NoTask
    Tasks = {t1, t2}
    Requests <- Pairs
    Guard = 2
    Device <- TwoChannels
    Failing = {t1, t2}
INVARIANTS TypeOK ClosedOnce OneReader RuntimeServed OneFeed
CHECK_DEADLOCK FALSE
