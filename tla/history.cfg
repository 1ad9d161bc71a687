SPECIFICATION HistorySpec
CONSTANTS
    Blocks <- MCBlocks
    NoBlock = NoBlock
    Genesis = 0
    Prev <- MCPrev
    Height <- MCHeight
    MaxHeight <- MCMaxHeight
    CumWork <- MCCumWork
    Ancestors <- MCAncestors
    OnSlot <- MCOnTarget
    OnTarget <- MCOnTarget
    Valid <- MCValid
    Uncles <- NoUncles
    Txs <- HistoryTxs
    TxsOf <- HistoryTxsOf
    CheckRound = 2
    UncleMaxDepth = 2
    SnapshotRetention = 16
    LeftOut = {6, 8, 10, 11, 12}
    InvalidBlocks = {}
    OffTarget = {}
    Addrs = {"alice", "bob"}
    txAddresses <- MCAddresses
    TxRank <- MCRank
    receiptRetention = 1
    maxLogRange = 3
    maxAddrTxLimit = 1
INVARIANTS
    
    
    UnwindExact
