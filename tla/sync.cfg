SPECIFICATION SyncSpec
CONSTANTS
    Blocks <- MCBlocks
    NoBlock = NoBlock
    Genesis = 0
    Prev <- MCPrev
    Height <- MCHeight
    MaxHeight <- MCMaxHeight
    CumWork <- MCCumWork
    Ancestors <- MCAncestors
    OnSlot <- MCBlocks
    OnTarget <- MCBlocks
    Valid <- MCBlocks
    Uncles <- MCUncles
    Txs <- MCTxs
    TxsOf <- MCTxsOf
    CheckRound = 2
    UncleMaxDepth = 2
    Peers = {p1, p2}
    Gossiped = {1, 3}
    RemoteStart = {6}
    ActualDiff <- MCActualDiff
    MaxBlocks = 3
    convergeBatchSize = 1
    maxOrphanBlocks = 2
    minDesiredPeerCount = 2
    FailureLimit = 1
    MaxFaults = 1
PROPERTIES
    
    
    
    RewriteNeedsPeers
CHECK_DEADLOCK FALSE
