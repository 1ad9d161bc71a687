SPECIFICATION Spec
CONSTANTS
    Addrs = {1, 2}
    Escrow = 3
    plain = plain
    uses1 = uses1
    uses2 = uses2
    Codes = {plain, uses1, uses2}
    NoCode = NoCode
    Imports <- MCImports
    Exports <- MCExports
    Txs <- MCTxs
    Keys = {k}
    MaxBytes = 2
    Funds = 4
    Fee = 1
    RentHeight = 2
    QuietHooks = FALSE
    Payees = {1}
    MaxHeight = 3
    MaxRefs = 2
    MaxOps = 2
INVARIANTS
    EscrowCovers
