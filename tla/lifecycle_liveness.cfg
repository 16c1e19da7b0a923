SPECIFICATION FairSpec
CONSTANTS
    t1 = t1
    t2 = t2
    NoTask = NoTask
    Tasks <- TwoTasks
    PoolPorts <- OnePort
    MaxTasks = 1
    Mode <- StreamAndScan
    HasExec <- SecondScans
    Rank <- TwoRanks
    Channels <- OneChannelEach
    ClientPorts <- FirstBrings
    Streams <- OneStreamEach
    MaxActs = 1
    Failing <- NoneFails
INVARIANTS ShutdownClean 
PROPERTIES ContractSpec ShutdownCompletes ExpiryHonoured 
