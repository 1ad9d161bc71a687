SPECIFICATION FeedSpec
CONSTANTS
    Blocks <- MCBlocks
    NoBlock = NoBlock
    Genesis = 0
    Prev <- MCPrev
    Height <- MCHeight
    MaxHeight <- MCMaxHeight
    CumWork <- MCCumWork
    Ancestors <- MCAncestors
    OnSlot <- MCOnTarget
    OnTarget <- MCOnTarget
    Valid <- MCValid
    Uncles <- MCUncles
    Txs <- MCTxs
    TxsOf <- MCTxsOf
    CheckRound = 2
    UncleMaxDepth = 2
    SnapshotRetention = 16
    LeftOut = {}
    InvalidBlocks = {11}
    OffTarget = {}
INVARIANTS
    IndexIsTipsChain
    
    WorkMemoExact
    StateFollowsChain
    TipIsBest
    
    UnclesPaidOnce
    CollectedUnclesFit
PROPERTIES
    FinalityKept
    ImplementsForkChoice
    ImplementsChainView
