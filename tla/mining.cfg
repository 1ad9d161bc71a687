SPECIFICATION Spec
CONSTANTS
    ForkHeight <- MCForkHeight
    NoFork = NoFork
    MinBaseFee = 2
    BaseFeeTargetBytes = 2
    BaseFeeMaxChangeDenom = 2
    TargetTime = 2
    DiffQuotient = 2
    DownSteps = 1
    BombEpoch = 100
    MinimumDiff = 1
    rewardEra = 2
    minReward = 2
    floatingReward = 10
    UncleMaxDepth = 2
    Miners = {"me", "other"}
    Me = "me"
    Txs = {"t1", "t2"}
    TxHeight <- MCTxHeight
    TxFrom <- MCTxFrom
    TxFee <- MCTxFee
    TxBytes <- MCTxBytes
    MaxBlockTxCount = 2
    MaxTxsPerPack = 2
    MaxUncles = 1
    TimestampDriftTolerance = 1
    NoRoot = NoRoot
    GenesisBlock <- MCGenesisBlock
    MaxStore = 4
    MaxHeight = 3
    MaxClock = 2
    MaxWorks = 1
INVARIANTS
    
    SupplyExact
    
CHECK_DEADLOCK FALSE
