SPECIFICATION Spec
CONSTANTS
    t1 = t1
    t2 = t2
    NoTask = NoTask
    Tasks <- OneTask
    PoolPorts <- TwoPorts
    MaxTasks = 1
    Mode <- OneMode
    HasExec <- OneExec
    Rank <- OneRank
    Channels <- OneChannel
    ClientPorts <- NoClient
    Streams <- TwoStreams
    MaxActs = 2
    Failing <- NoneFails
INVARIANTS IInv
CHECK_DEADLOCK FALSE
