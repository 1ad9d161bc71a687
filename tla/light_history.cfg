SPECIFICATION LightSpec
CONSTANTS
    Blocks <- MCBlocks
    NoBlock = NoBlock
    Genesis = 0
    Prev <- MCPrev
    Height <- MCHeight
    MaxHeight <- MCMaxHeight
    CumWork <- MCCumWork
    Ancestors <- MCAncestors
    OnSlot <- MCBlocks
    OnTarget <- MCBlocks
    Valid <- MCBlocks
    Uncles <- MCUncles
    Txs <- MCTxs
    TxsOf <- MCTxsOf
    CheckRound = 2
    UncleMaxDepth = 2
    Depth = 3
    Keys <- MCKeys
    CommitKeys = {"com"}
    ContractKeys = {"con"}
    Asked = {"acc", "com"}
    LeafPath <- MCLeafPath
    Writes <- MCWrites
INVARIANT HistoryServed
