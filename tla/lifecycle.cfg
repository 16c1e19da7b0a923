SPECIFICATION Spec
CONSTANTS
    t1 = t1
    t2 = t2
    NoTask = NoTask
    Tasks <- TwoTasks
    PoolPorts <- TwoPorts
    MaxTasks = 2
    Mode <- TwoModes
    HasExec <- NoExecs
    Rank <- TwoRanks
    Channels <- TwoChannels
    ClientPorts <- TwoClients
    Streams <- OneStreamEach
    MaxActs = 1
    Failing <- FirstFails
INVARIANTS TypeOK PortAccounting StreamsOwned
PROPERTIES EndIsFinal
