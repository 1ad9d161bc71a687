SPECIFICATION FairSpec
CONSTANTS
    Hashes = {1, 2, 3}
    Froms = {1, 2, 3}
    NoOne = NoOne
    CommitWindow = 1
    MaxHeight = 2
    Commitments <- MCCommitments
    Reveals <- MCReveals
    Handed <- MCHanded
    Gossiped <- MCGossiped
    Mined <- MCMined
    Funds = 3
    MinFloor = 1
    HighFloor = 2
    TargetTxs = 0
    RelayFor = 1
    MaxSize = 2
    PackSize = 2
    Workers = {w1}
    MaxSpawned = 1
INVARIANTS
    PoolFresh
    
PROPERTIES
    EvictsCheapest
    
