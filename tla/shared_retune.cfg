SPECIFICATION Spec
CONSTANTS
    t1 = t1
    t2 = t2
    t3 = t3
    NoTask = NoTask
    Tasks = {t1, t2, t3}
    Requests <- Row
    Guard = 2
    Device <- TwoChannels
    Failing = {}
INVARIANT SubBandsCurrent
CHECK_DEADLOCK FALSE
