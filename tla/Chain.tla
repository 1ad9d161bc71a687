------------------------------- MODULE Chain -------------------------------
(***************************************************************************)
(* Block import, fork choice and reorg (package blockchain) over the block *)
(* store and the state.                                                    *)
(*                                                                         *)
(* Chain.mu and the bbolt write transaction make each import one atomic    *)
(* step; an error anywhere rolls the whole transaction back, so a refused  *)
(* import is a stuttering step.                                            *)
(***************************************************************************)
EXTENDS BlockStore

CONSTANT SnapshotRetention      \* checkpoint rounds of snapshots kept

ASSUME RetentionAssumption == SnapshotRetention \in Nat

VARIABLES
    store,       \* the block store
    archive,     \* State.Archive: pre-images of every applied block are kept
    applied,     \* height -> the block whose effects are in the state there
    changesets,  \* heights whose pre-images are recorded
    snap         \* height -> the block whose state sheet is stored

vars == <<store, archive, applied, changesets, snap>>

TypeOK ==
    /\ store \in Store
    /\ archive \in BOOLEAN
    /\ applied \in [Heights -> Blocks \cup {NoBlock}]
    /\ changesets \in SUBSET Heights
    /\ snap \in [Heights -> Blocks \cup {NoBlock}]

Init ==
    /\ store = GenesisStore
    /\ archive \in BOOLEAN
    /\ applied = ChainIndex(Genesis)
    /\ changesets = {0}
    /\ snap = [h \in Heights |-> NoBlock]

-----------------------------------------------------------------------------
(* PutSnapshotTxn: store the sheet of b and drop those past retention. *)
PutSnapshot(b) ==
    [h \in Heights |->
       IF h = Height[b] THEN b
       ELSE IF h < Height[b] - SnapshotRetention * CheckRound THEN NoBlock
       ELSE snap[h]]

(* A checkpoint tip gets a snapshot, and side blocks below the new prune   *)
(* line go.                                                                *)
Checkpoint(s, tip) ==
    IF IsHead(tip)
    THEN /\ store' = PruneSideBlocks(s, sideBlockPruneHeight(Height[tip]))
         /\ snap' = PutSnapshot(tip)
    ELSE /\ store' = s
         /\ snap' = snap

-----------------------------------------------------------------------------
(* The state at a reorg.  UnwindToTxn runs before the block store          *)
(* switches: when archive is on and the changeset of the first height      *)
(* above p exists, every recorded height from the tip down is reverted.    *)
CanUnwind(p) ==
    archive /\ (Height[p] >= Height[store.latest] \/ Height[p] + 1 \in changesets)

Reverted(p) == changesets \cap (Height[p] + 1 .. Height[store.latest])

Unwound(p) == [h \in Heights |-> IF h \in Reverted(p) THEN NoBlock ELSE applied[h]]

(* Faulty: the branch overwrites the heights it has and no other. *)
RolledOver(p, n) ==
    [h \in Heights |-> IF h \in Height[p] + 1 .. Height[n] THEN At(n, h) ELSE applied[h]]

(* ApplyBlocksTxn rolls the branch forward on what the unwind left ... *)
RolledForward(p, n) ==
    [h \in Heights |-> IF h \in Height[p] + 1 .. Height[n] THEN At(n, h) ELSE Unwound(p)[h]]

(* ... and records its pre-images. *)
Recorded(p, n) == (changesets \ Reverted(p)) \cup (Height[p] + 1 .. Height[n])

(* The state root in each header refuses the branch unless the unwound     *)
(* state is the one p left behind.                                         *)
UnwindAndApply(p, n) ==
    /\ Unwound(p) = ChainIndex(p)
    /\ Path(p, n) \subseteq Valid
    /\ applied' = RolledForward(p, n)
    /\ changesets' = Recorded(p, n)

(* RebuildFromBlockStoreTxn replays the new canonical index from genesis. *)
Replay(index, tip) ==
    /\ \A h \in 1 .. Height[tip] : index[h] \in Valid
    /\ applied' = index
    /\ changesets' = IF archive THEN 0 .. Height[tip] ELSE {}

(* switchToBranchTxn, from the store s the transaction has reached. *)
switchToBranchTxn(s, p, n) ==
    LET t == SwitchToBranch(s, p, n)
    IN  /\ IF CanUnwind(p) THEN UnwindAndApply(p, n) ELSE Replay(t.canon, n)
        /\ Checkpoint(t, n)
        /\ UNCHANGED archive

-----------------------------------------------------------------------------
checkBranchBlock(bodies, b) == b \in OnTarget /\ validateUncles(bodies, b)

(* The target of a block on the origin is not checked on the fast path. *)
checkBlockTxn(b) ==
    /\ Prev[b] # Genesis => b \in OnTarget
    /\ validateUncles(store.bodies, b)
    /\ b \in Valid

(* collectBranch: walking down from b over stored blocks that are not      *)
(* canonical, p is the first one that is.                                  *)
collectBranch(s, p, b) ==
    /\ isCanonical(s, p)
    /\ \A a \in Path(p, b) : ~isCanonical(s, a) /\ Prev[a] \in s.bodies

(* Faulty: on equal work the first block seen stays. *)
HeavierFirstSeen(work, b, tipWork, tip) == work > tipWork

(* Faulty: on equal work the last block seen wins. *)
HeavierLastSeen(work, b, tipWork, tip) == work > tipWork \/ (work = tipWork /\ b # tip)

(* The comparison of ApplyBlock and SwitchToBranch. *)
Heavier(work, b, tipWork, tip) == work > tipWork \/ (work = tipWork /\ b < tip)

(* ApplyBlock refuses a fork point below the finality line.  Faulty: the   *)
(* line is one round late.                                                 *)
BeyondLateFinality(p) == Height[p] < finalityHeight(Height[store.latest]) - CheckRound

BeyondFinality(p) == Height[p] < finalityHeight(Height[store.latest])

(* ApplyBlock, fast path: the block extends the tip. *)
ExtendTip(b) ==
    LET s == PutNewBlock(store, b)
    IN  /\ Prev[b] = store.latest
        /\ checkBlockTxn(b)
        /\ checkBlock(store, b)
        /\ WalkConnected(s, b)
        /\ applied' = [applied EXCEPT ![Height[b]] = b]
        /\ changesets' = IF archive THEN changesets \cup {Height[b]} ELSE changesets
        /\ Checkpoint(MemoWork(s, b), b)
        /\ UNCHANGED archive

(* ApplyBlock, side path: what precedes the fork choice. *)
SidePath(b, s, w) ==
    /\ Prev[b] # store.latest
    /\ Prev[b] \in store.bodies
    /\ checkBranchBlock(store.bodies, b)
    /\ WalkConnected(s, b)
    /\ WalkConnected(w, store.latest)

StoreSide(b) ==
    LET s == PutSideBlock(store, b)
        w == MemoWork(s, b)
    IN  /\ SidePath(b, s, w)
        /\ ~Heavier(cumulativeWork(s, b), b, cumulativeWork(w, store.latest), store.latest)
        /\ store' = MemoWork(w, store.latest)
        /\ UNCHANGED <<archive, applied, changesets, snap>>

Reorg(p, b) ==
    LET s == PutSideBlock(store, b)
        w == MemoWork(s, b)
    IN  /\ SidePath(b, s, w)
        /\ Heavier(cumulativeWork(s, b), b, cumulativeWork(w, store.latest), store.latest)
        /\ collectBranch(s, p, b)
        /\ ~BeyondFinality(p)
        /\ switchToBranchTxn(MemoWork(w, store.latest), p, b)

ApplyBlock(b) == ExtendTip(b) \/ StoreSide(b) \/ \E p \in Ancestors[b] : Reorg(p, b)

(* A fetched segment above p that ends in n passes the per-block checks    *)
(* and attaches to the canonical chain.                                    *)
SegmentOK(p, n) ==
    /\ p \in Ancestors[n] \ {n}
    /\ p \in store.bodies
    /\ \A b \in Path(p, n) : checkBranchBlock(store.bodies \cup Path(p, n), b)
    /\ isCanonical(store, p)

(* Chain.SwitchToBranch, used by converge: no finality line, same fork     *)
(* choice; the branch's work is summed but not memoised.                   *)
ConvergeTo(p, n) ==
    LET w == MemoWork(store, p)
    IN  /\ SegmentOK(p, n)
        /\ WalkConnected(store, p)
        /\ WalkConnected(w, store.latest)
        /\ Heavier(cumulativeWork(store, p) + (CumWork[n] - CumWork[p]), n,
                   cumulativeWork(w, store.latest), store.latest)
        /\ switchToBranchTxn(MemoWork(w, store.latest), p, n)

(* Faulty: the changesets of the chain before the snapshot stay. *)
SnapshotKeepingChangesets(p, n) ==
    LET s == SwitchToBranch(store, p, n)
    IN  /\ SegmentOK(p, n)
        /\ WalkConnected(s, n)
        /\ store' = MemoWork(s, n)
        /\ applied' = s.canon
        /\ snap' = PutSnapshot(n)
        /\ UNCHANGED <<changesets, archive>>

(* ApplySnapshot: the segment becomes canonical without fork choice, the   *)
(* state is the fetched sheet of its tip, and only the tip is announced.   *)
ApplySnapshot(p, n) ==
    LET s == SwitchToBranch(store, p, n)
    IN  /\ SegmentOK(p, n)
        /\ WalkConnected(s, n)
        /\ store' = MemoWork(s, n)
        /\ applied' = s.canon
        /\ changesets' = {}
        /\ snap' = PutSnapshot(n)
        /\ UNCHANGED archive

(* A restart picks the mode; BackfillArchive replays the chain when the    *)
(* first height has no changeset.                                          *)
Restart(mode) ==
    /\ archive' = mode
    /\ IF mode /\ Height[store.latest] > 0 /\ 1 \notin changesets
       THEN /\ \A h \in 1 .. Height[store.latest] : store.canon[h] \in Valid
            /\ applied' = store.canon
            /\ changesets' = 0 .. Height[store.latest]
       ELSE UNCHANGED <<applied, changesets>>
    /\ UNCHANGED <<store, snap>>

-----------------------------------------------------------------------------
(* A node in the default sync mode: gossip and mining import blocks,       *)
(* converge fetches branches, and it restarts in the mode it ran in.       *)
Next ==
    \/ \E b \in Blocks \ {Genesis} : ApplyBlock(b)
    \/ \E p, n \in Blocks : ConvergeTo(p, n)
    \/ Restart(archive)

Spec == Init /\ [][Next]_vars

(* A node started with --snapshot also applies fetched snapshots; peers    *)
(* serve the sheets of checkpoints.                                        *)
NextSnapshot == Next \/ \E p, n \in Blocks : IsHead(n) /\ ApplySnapshot(p, n)

SpecSnapshot == Init /\ [][NextSnapshot]_vars

(* An operator may change --prune from one start to the next. *)
NextModes == Next \/ \E mode \in BOOLEAN : Restart(mode)

SpecModes == Init /\ [][NextModes]_vars
-----------------------------------------------------------------------------
(* The height index is exactly the chain that ends in the latest block,    *)
(* and every block it names is stored: the walk CheckHealth makes at       *)
(* startup, and every GetBlockByHeight up to the tip, succeeds.            *)
IndexIsTipsChain ==
    /\ store.canon = ChainIndex(store.latest)
    /\ Ancestors[store.latest] \subseteq store.bodies

(* Every stored block off the canonical chain carries a side mark (so the  *)
(* pruner can reclaim it), and every side mark has its body (so            *)
(* ListSideBlocksInRange cannot fail).                                     *)
SideMarksExact ==
    /\ \A b \in store.bodies : ~isCanonical(store, b) => b \in store.side
    /\ store.side \subseteq store.bodies

(* The tx index names the canonical block that holds a transaction, also   *)
(* when a reorg replaces one block that holds it by another.               *)
TxIndexExact ==
    \A t \in Txs : \A b \in Blocks :
        store.txBlock[t] = b <=> (t \in TxsOf[b] /\ isCanonical(store, b))

(* A memoised work is the true cumulative work, whatever was pruned or     *)
(* re-imported since, and the tip's work can always be computed.           *)
WorkMemoExact ==
    /\ \A b \in Blocks : store.work[b] \in {NoWork, CumWork[b]}
    /\ WalkConnected(store, store.latest)

(* The state is the one the canonical chain produces, through extensions,  *)
(* unwinds, replays and snapshots.                                         *)
StateFollowsChain == applied = store.canon

(* Fork choice (ApplyBlock, SwitchToBranch): no stored block is heavier    *)
(* than the tip, or as heavy with a smaller hash.                          *)
TipIsBest ==
    /\ store.latest \in store.bodies
    /\ \A b \in store.bodies : ~Better(b, store.latest)

(* The uncle rules pay an uncle at most once on the canonical chain, and   *)
(* never a block that is itself on that chain.                             *)
UnclesPaidOnce ==
    LET chain == Ancestors[store.latest]
    IN  \A a \in chain : \A u \in Uncles[a] :
            /\ u \notin chain
            /\ \A c \in chain : u \in Uncles[c] => c = a

(* What CollectUncles offers a miner is what validateUncles accepts in a   *)
(* block on the current tip.                                               *)
CollectedUnclesFit ==
    \A u \in UncleCandidates(store) :
        /\ UncleFits(store.latest, Height[store.latest] + 1, u)
        /\ u \in OnSlot
        /\ UncleWindow(store.latest, Height[store.latest] + 1) \subseteq store.bodies

(* changesetCovers looks at one height and concludes that every height     *)
(* above it can be reverted, too: if so, unwinding to a canonical block    *)
(* yields the state that block left.                                       *)
UnwindExact ==
    \A p \in Ancestors[store.latest] : CanUnwind(p) => Unwound(p) = ChainIndex(p)

(* A stored state sheet is the sheet of the canonical block at its height, *)
(* as ReconstructAt takes for granted when it replays from the sheet.      *)
SnapshotsAreCanonical ==
    \A h \in Heights : snap[h] # NoBlock => snap[h] = store.canon[h]

(* No step but a converge switch rewrites a height at or below the         *)
(* finality line of the tip, and short of one the line never recedes, not  *)
(* even when a heavier branch is the shorter one (ApplyBlock's refusal of  *)
(* a fork point below finalityHeight).                                     *)
FinalityLine == finalityHeight(Height[store.latest])

FinalityKept ==
    [][\/ /\ \A h \in 0 .. FinalityLine : store'.canon[h] = store.canon[h]
          /\ FinalityLine' >= FinalityLine
       \/ \E p, n \in Blocks : ConvergeTo(p, n)]_vars

(* The chain implements the abstract fork choice.                          *)
FC == INSTANCE ForkChoice WITH known <- store.bodies, tip <- store.latest

ImplementsForkChoice == FC!Spec
=============================================================================
