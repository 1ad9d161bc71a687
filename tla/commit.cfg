SPECIFICATION Spec
CONSTANTS
    Hashes = {x}
    Froms = {alice, bob}
    NoOne = NoOne
    CommitWindow = 3
    CheckRound = 2
    MaxHeight = 7
INVARIANTS
    SingleInclusion
    PendingExact
    
    
