------------------------------ MODULE History ------------------------------
(***************************************************************************)
(* What a node can tell of past blocks: the receipts of the contract runs  *)
(* (ngstate receipt.go), the account history (ngblocks addr_index.go) and  *)
(* the queries over them (ng_getLogs, ng_getTxsByAddress).  Both stores    *)
(* are written inside the transactions of module Chain.  A transaction is  *)
(* bound to one height; every transaction here runs one contract.          *)
(***************************************************************************)
EXTENDS Chain

CONSTANTS
    Addrs,
    txAddresses,        \* transaction -> the addresses it touches
    TxRank,             \* transaction -> the order of its hash
    receiptRetention,   \* heights below the tip whose receipts are kept
    maxLogRange,        \* heights one log query may span
    maxAddrTxLimit      \* entries one account query may return

VARIABLES
    snapshotMode,       \* the node fetches snapshots
    receipts,           \* transaction -> contract runs on record
    addrTxs             \* account history: [addr, tx], keyed with the tx's height

histVars == <<vars, snapshotMode, receipts, addrTxs>>

RunCap == 2             \* bound: runs counted

ASSUME HistoryAssumption ==
    /\ txAddresses \in [Txs -> SUBSET Addrs] /\ TxRank \in [Txs -> Nat]
    /\ receiptRetention \in Nat /\ maxLogRange \in Nat \ {0} /\ maxAddrTxLimit \in Nat \ {0}
    /\ "refused" \notin Txs

TxHeight(t) == Height[CHOOSE b \in Blocks : t \in TxsOf[b]]

-----------------------------------------------------------------------------
(* appendContractRun for every transaction of the applied blocks. *)
AppendRuns(rec, blocks) ==
    [t \in Txs |-> LET n == rec[t] + Cardinality({b \in blocks : t \in TxsOf[b]})
                   IN  IF n > RunCap THEN RunCap ELSE n]

deleteReceiptsAbove(rec, h) == [t \in Txs |-> IF TxHeight(t) > h THEN 0 ELSE rec[t]]

ReceiptFloor(tip) == IF tip > receiptRetention THEN tip - receiptRetention ELSE 0

(* Checkpoint maintenance of a node that is not an archive. *)
PruneReceipts(rec, tip) ==
    IF IsHead(tip) /\ ~archive
    THEN [t \in Txs |-> IF TxHeight(t) < ReceiptFloor(Height[tip]) THEN 0 ELSE rec[t]]
    ELSE rec

PruneAddrTxIndex(idx, tip) ==
    IF IsHead(tip) /\ ~archive
    THEN {e \in idx : TxHeight(e.tx) >= ReceiptFloor(Height[tip])}
    ELSE idx

EntriesOf(blocks) ==
    {[addr |-> a, tx |-> t] : a \in Addrs, t \in UNION {TxsOf[b] : b \in blocks}}

(* putTxAddrIndex and delTxAddrIndex for all transactions of the blocks. *)
TxEntries(blocks) == {e \in EntriesOf(blocks) : e.addr \in txAddresses[e.tx]}

-----------------------------------------------------------------------------
OnExtend(b) ==
    /\ receipts' = PruneReceipts(AppendRuns(receipts, {b}), b)
    /\ addrTxs' = PruneAddrTxIndex(addrTxs \cup TxEntries({b}), b)

(* Faulty: the unwind leaves the receipts of the reverted heights. *)
ReappliedOver(p, n) ==
    IF CanUnwind(p) THEN AppendRuns(receipts, Path(p, n))
    ELSE AppendRuns([t \in Txs |-> 0], Ancestors[n])

(* An unwind drops the receipts above the fork point and the branch writes *)
(* its own; a replay starts from an empty bucket.                          *)
Reapplied(p, n) ==
    IF CanUnwind(p)
    THEN AppendRuns(IF Height[p] < Height[store.latest]
                THEN deleteReceiptsAbove(receipts, Height[p]) ELSE receipts, Path(p, n))
    ELSE AppendRuns([t \in Txs |-> 0], Ancestors[n])

(* Faulty: the branch is indexed before the replaced blocks are unlinked. *)
SwitchedAddrTxsLate(p, n) ==
    (addrTxs \cup TxEntries(Path(p, n))) \ TxEntries(CanonAbove(store, p))

SwitchedAddrTxs(p, n) ==
    (addrTxs \ TxEntries(CanonAbove(store, p))) \cup TxEntries(Path(p, n))

OnSwitch(p, n) ==
    /\ receipts' = PruneReceipts(Reapplied(p, n), n)
    /\ addrTxs' = PruneAddrTxIndex(SwitchedAddrTxs(p, n), n)

(* RebuildFromSheetTxn leaves the receipts alone. *)
OnSnapshot(p, n) ==
    /\ receipts' = receipts
    /\ addrTxs' = SwitchedAddrTxs(p, n)

(* BackfillArchive replays the chain. *)
OnRestart ==
    /\ receipts' = IF archive /\ Height[store.latest] > 0 /\ 1 \notin changesets
                   THEN AppendRuns([t \in Txs |-> 0], Ancestors[store.latest]) ELSE receipts
    /\ addrTxs' = addrTxs

-----------------------------------------------------------------------------
HistoryInit ==
    /\ Init
    /\ snapshotMode \in BOOLEAN
    /\ receipts = [t \in Txs |-> 0]
    /\ addrTxs = {}

HistoryNext ==
    /\ \/ \E b \in Blocks \ {Genesis} :
             \/ ExtendTip(b) /\ OnExtend(b)
             \/ StoreSide(b) /\ UNCHANGED <<receipts, addrTxs>>
             \/ \E p \in Ancestors[b] : Reorg(p, b) /\ OnSwitch(p, b)
       \/ \E p, n \in Blocks : ConvergeTo(p, n) /\ OnSwitch(p, n)
       \/ \E p, n \in Blocks :
             snapshotMode /\ IsHead(n) /\ ApplySnapshot(p, n) /\ OnSnapshot(p, n)
       \/ Restart(archive) /\ OnRestart
    /\ UNCHANGED snapshotMode

HistorySpec == HistoryInit /\ [][HistoryNext]_histVars

-----------------------------------------------------------------------------
Refused == {"refused"}

(* CollectLogsTxn: the runs <<height, tx, run>> of the canonical blocks of *)
(* the range.                                                              *)
CollectLogs(from, to) ==
    {e \in (from .. to) \X Txs \X (1 .. RunCap) :
        e[2] \in TxsOf[store.canon[e[1]]] /\ e[3] <= receipts[e[2]]}

(* The node answers for heights at or above the floor of its tip. *)
Retained(from, tip) == archive \/ from >= ReceiptFloor(tip)

(* GetLogs; a "to" of 0 is the tip. *)
GetLogs(from, upto) ==
    LET tip == Height[store.latest]
        to  == IF upto = 0 \/ upto > tip THEN tip ELSE upto
    IN  IF from > to THEN {}
        ELSE IF to - from >= maxLogRange \/ ~Retained(from, tip) THEN Refused
        ELSE CollectLogs(from, to)

(* GetTxsByAddress: the first entries of the range in the order of heights *)
(* and hashes; it fails on an entry whose transaction is not stored.       *)
Before(s, t) ==
    \/ TxHeight(s) < TxHeight(t)
    \/ TxHeight(s) = TxHeight(t) /\ TxRank[s] < TxRank[t]

FirstOf(txs, n) == {t \in txs : Cardinality({s \in txs : Before(s, t)}) < n}

GetTxsByAddress(a, from, to) ==
    LET txs == {e.tx : e \in {f \in addrTxs : /\ f.addr = a
                                              /\ TxHeight(f.tx) >= from
                                              /\ to = 0 \/ TxHeight(f.tx) <= to}}
        out == FirstOf(txs, maxAddrTxLimit)
    IN  IF \E t \in out : store.txBlock[t] = NoBlock THEN Refused ELSE out

-----------------------------------------------------------------------------
(* What the canonical chain says. *)
CanonTxs == UNION {TxsOf[b] : b \in Ancestors[store.latest]}

(* GetLogs is right or refuses: on a node that never took a snapshot an    *)
(* answer holds every run of the canonical blocks of the range once, after *)
(* any reorgs, prunings and restarts, with the runs of transactions that   *)
(* two branches share neither doubled nor lost.                            *)
LogsExact ==
    ~snapshotMode =>
        \A from, to \in Heights :
            \/ GetLogs(from, to) = Refused
            \/ GetLogs(from, to) =
                 {<<TxHeight(t), t, 1>> : t \in
                    {u \in CanonTxs : TxHeight(u) >= from /\ (to = 0 \/ TxHeight(u) <= to)}}

(* PruneAddrTxIndexTxn ran at a checkpoint with a floor above h. *)
PrunedBelow(h) == ~archive /\ \E c \in Heights : snap[c] # NoBlock /\ h < ReceiptFloor(c)

(* GetTxsByAddress never fails, never returns a transaction that is not on *)
(* the canonical chain, and returns the whole history except what a        *)
(* checkpoint of a non-archive node pruned: an account query after a reorg *)
(* or a snapshot still finds the transactions both branches share.         *)
AddrHistoryExact ==
    \A a \in Addrs, from \in Heights :
        LET answer == GetTxsByAddress(a, from, 0)
            truth  == {t \in CanonTxs : a \in txAddresses[t] /\ TxHeight(t) >= from}
        IN  /\ answer # Refused
            /\ answer \subseteq truth
            /\ PrunedBelow(from) \/ answer = FirstOf(truth, maxAddrTxLimit)

(* appendContractRun stays a plain append because the receipts of a        *)
(* replaced branch are cleared before its transactions run again: no       *)
(* transaction has more runs on record than it made.                       *)
RunsOnce == \A t \in Txs : receipts[t] <= 1
=============================================================================
