------------------------------- MODULE Mining -------------------------------
(***************************************************************************)
(* Mining against a chain that moves: the assembly of a template (package  *)
(* consensus), the work pool of the RPC server, and the import of what a   *)
(* miner submits, beside blocks that arrive from the network.              *)
(*                                                                         *)
(* A template is put together from reads in transactions of their own: the *)
(* tip's height, its block, the uncles, the pool and the state its root is *)
(* computed on.  The tip may move between any two of them.                 *)
(*                                                                         *)
(* A block is its index in the store.  A state is what tells states apart  *)
(* here: the balances and, from the beacon's fork on, the hashes of the    *)
(* blocks below, which the seed folds in; a root is the state it hashes.   *)
(* A transaction burns its fee, taken from one miner's balance.            *)
(*                                                                         *)
(* While the sync lock is held a submission is refused, which is the same  *)
(* here as none.  The heights stay within one checkpoint round, so no      *)
(* finality line and no pruning comes in (module Chain has them).          *)
(***************************************************************************)
EXTENDS Rules, Sequences, FiniteSets, FiniteSetsExt, Functions

CONSTANTS
    Miners, Me,                 \* addresses, and the one the node mines for
    Txs, TxHeight, TxFrom, TxFee, TxBytes,
    MaxBlockTxCount, MaxTxsPerPack, MaxUncles,
    TimestampDriftTolerance,
    NoRoot,                     \* the zero root of a template whose dry run failed
    GenesisBlock,
    MaxStore,                   \* bound: blocks in the store
    MaxHeight,                  \* bound: height of a block
    MaxClock,                   \* bound: the clock
    MaxWorks                    \* bound: templates handed out

(* Times count from the genesis block's, which is before any other. *)
ASSUME MiningAssumption ==
    /\ GenesisBlock \in [prev : {0}, height : {0}, time : Int, diff : Nat, fee : Nat,
                         uncles : {{}}, txs : {{}}, gen : {GenesisBlock.gen},
                         rewards : {GenesisBlock.rewards}, root : {GenesisBlock.root}]
    /\ GenesisBlock.time <= 0
    /\ {MaxUncles, MaxClock} \subseteq Nat
    /\ IsFiniteSet(Miners) /\ Me \in Miners
    /\ IsFiniteSet(Txs) /\ TxFrom \in [Txs -> Miners] /\ TxFee \in [Txs -> Nat]

VARIABLES
    store,      \* the blocks, by index; the genesis block is the first
    tip,
    clock,
    pool,       \* txMap
    unreset,    \* a tip change whose pool reset has not run yet
    job,        \* the getWork or GetBlockTemplate in progress
    works       \* the templates handed out; the work pool never drops one

vars == <<store, tip, clock, pool, unreset, job, works>>

Genesis == 1
Stored == DOMAIN store
HeightOf(b) == store[b].height

(* b's chain, from the genesis block up to b. *)
ChainTo(b) ==
    LET up[c \in Stored] == IF c = Genesis THEN <<c>> ELSE Append(up[store[c].prev], c)
    IN  up[b]

OnChain(b) == Range(ChainTo(b))

-----------------------------------------------------------------------------
(* The state. *)

Minted(block, a) ==
    (IF block.gen.to = a THEN block.gen.value ELSE 0)
    + SumFunctionOnSet(block.rewards, {u \in block.uncles : store[u].gen.to = a})

Burnt(block, a) == SumFunctionOnSet(TxFee, {t \in block.txs : TxFrom[t] = a})

(* State.Upgrade and, for what it refuses, Affordable. *)
Upgrade(state, block) ==
    [balance |-> [a \in Miners |-> state.balance[a] + Minted(block, a) - Burnt(block, a)],
     beacon |-> IF IsForkActive("randomBeacon", block.height)
                THEN Append(state.beacon, block.prev) ELSE state.beacon]

Affordable(state, block) == \A t \in block.txs : TxFee[t] <= state.balance[TxFrom[t]]

StateAfter(b) ==
    LET up[c \in Stored] ==
          IF c = Genesis THEN [balance |-> [a \in Miners |-> 0], beacon |-> <<>>]
          ELSE Upgrade(up[store[c].prev], store[c])
    IN  up[b]

-----------------------------------------------------------------------------
(* The checks of a block. *)

BlockUsedBytes(block) == MapThenSumSet(LAMBDA t : TxBytes[t], block.txs)

FeeAbove(parent) == NextBaseFee(parent.height, parent.fee, BlockUsedBytes(parent))

(* The cap counts the generates, too. *)
WithinCap(block) == Cardinality(block.txs) + Cardinality(block.uncles) + 1 <= MaxBlockTxCount

(* FullBlock.CheckError, as far as a template can fail it. *)
CheckError(block) ==
    /\ WithinCap(block)
    /\ block.time <= clock + TimestampDriftTolerance
    /\ Cardinality(block.uncles) <= MaxUncles

checkBlockTarget(block) ==
    LET parent == store[block.prev]
    IN  /\ block.time > parent.time
        /\ block.diff = GetNextDiff(block.height, block.time, parent)
        /\ block.fee = FeeAbove(parent)

(* The blocks below a block at height h on p that its uncles may attach to. *)
Window(p, h) == {a \in OnChain(p) : HeightOf(a) + UncleMaxDepth + 1 >= h}

Referenced(p, h) == UNION {store[a].uncles : a \in Window(p, h)}

validateUncles(block) ==
    \A u \in block.uncles :
        /\ block.height - HeightOf(u) \in 1 .. UncleMaxDepth
        /\ store[u].prev \in Window(block.prev, block.height)
        /\ u \notin Window(block.prev, block.height)
        /\ u \notin Referenced(block.prev, block.height)
        /\ store[u].time > store[store[u].prev].time
        /\ store[u].diff = GetNextDiff(HeightOf(u), store[u].time, store[store[u].prev])

(* Faulty: the amount of the miner's generate is not compared. *)
checkGeneratesLoosely(block) ==
    \A u \in block.uncles : block.rewards[u] = UncleReward(HeightOf(u), block.height)

(* checkBlockGenerates; the generate's own height is not compared. *)
checkBlockGenerates(block) ==
    /\ block.gen.value = GetBlockReward(block.height)
    /\ \A u \in block.uncles : block.rewards[u] = UncleReward(HeightOf(u), block.height)

CheckBlockTxs(state, block) ==
    /\ checkBlockGenerates(block)
    /\ Affordable(state, block)
    /\ \A t \in block.txs :
          /\ TxHeight[t] = block.height
          /\ IsForkActive("feeMarket", block.height) => TxFee[t] >= block.fee * TxBytes[t]

(* Faulty: the root is not compared. *)
CheckNoStateRoot(state, block) == TRUE

CheckStateRoot(state, block) == block.root = Upgrade(state, block)

Applies(state, block) == CheckBlockTxs(state, block) /\ CheckStateRoot(state, block)

-----------------------------------------------------------------------------
(* Fork choice: declared difficulty, uncles included, summed to the genesis. *)
Work(b) ==
    MapThenSumSet(LAMBDA c : store[c].diff + MapThenSumSet(LAMBDA u : store[u].diff, store[c].uncles),
                  OnChain(b))

WorkAbove(block) ==
    Work(block.prev) + block.diff + MapThenSumSet(LAMBDA u : store[u].diff, block.uncles)

(* The block passes what its place in the store asks for: the check of the *)
(* target is skipped on the origin.                                        *)
Fits(block) ==
    /\ CheckError(block)
    /\ block.prev # Genesis => checkBlockTarget(block)
    /\ validateUncles(block)

(* The branch up to the block's parent, unwound to the fork point, applies. *)
BranchApplies(block) ==
    \A c \in OnChain(block.prev) \ OnChain(tip) : Applies(StateAfter(store[c].prev), store[c])

(* A block on the tip applies or is refused. *)
ExtendsTip(block) ==
    block.prev = tip /\ Fits(block) /\ Applies(StateAfter(tip), block)

(* A heavier block, or one that wins a tie by its pow hash, becomes the    *)
(* tip with its whole branch or is refused; a lighter one is stored.       *)
Reorganises(block) ==
    /\ block.prev # tip /\ Fits(block)
    /\ WorkAbove(block) >= Work(tip)
    /\ BranchApplies(block) /\ Applies(StateAfter(block.prev), block)

StaysAside(block) ==
    block.prev # tip /\ Fits(block) /\ WorkAbove(block) <= Work(tip)

(* Chain.ApplyBlock.  A moved tip is announced after the transaction: the  *)
(* pool is reset in a later step, and an assembly in progress is no longer *)
(* undisturbed.                                                            *)
Put(block) == store' = Append(store, block)

ApplyBlock(block) ==
    /\ Len(store) < MaxStore /\ block.height <= MaxHeight
    /\ \/ /\ ExtendsTip(block) \/ Reorganises(block)
          /\ Put(block)
          /\ tip' = Len(store) + 1
          /\ unreset' = TRUE
          /\ job' = [job EXCEPT !.quiet = FALSE]
       \/ /\ StaysAside(block)
          /\ Put(block)
          /\ UNCHANGED <<tip, unreset, job>>
    /\ UNCHANGED <<clock, pool, works>>

-----------------------------------------------------------------------------
(* A block from the network: another miner's, exact for its parent. *)
Exact(p, m, time, uncles, txs) ==
    LET height == HeightOf(p) + 1
        bare == [prev |-> p, height |-> height, time |-> time,
                 diff |-> GetNextDiff(height, time, store[p]), fee |-> FeeAbove(store[p]),
                 uncles |-> uncles, txs |-> txs,
                 gen |-> [to |-> m, height |-> height, value |-> GetBlockReward(height)],
                 rewards |-> [u \in uncles |-> UncleReward(HeightOf(u), height)], root |-> NoRoot]
    IN  [bare EXCEPT !.root = Upgrade(StateAfter(p), bare)]

Receive(p, m, time, txs) == ApplyBlock(Exact(p, m, time, {}, txs))

Tick ==
    /\ clock < MaxClock
    /\ clock' = clock + 1
    /\ UNCHANGED <<store, tip, pool, unreset, job, works>>

-----------------------------------------------------------------------------
(* PutTx admits what applies on the tip and pays the next base fee. *)
PutTx(t) ==
    /\ t \notin pool
    /\ TxHeight[t] = HeightOf(tip) + 1
    /\ TxFee[t] <= StateAfter(tip).balance[TxFrom[t]]
    /\ TxFee[t] >= FeeAbove(store[tip]) * TxBytes[t]
    /\ pool' = pool \cup {t}
    /\ UNCHANGED <<store, tip, clock, unreset, job, works>>

(* chain.OnTipChanged. *)
ResetPool ==
    /\ unreset
    /\ pool' = {} /\ unreset' = FALSE
    /\ UNCHANGED <<store, tip, clock, job, works>>

-----------------------------------------------------------------------------
(* Assembly.  quiet: the tip has not moved and the pool was fresh. *)
NoJob == [at |-> "idle", internal |-> FALSE, quiet |-> FALSE, height |-> 0, block |-> GenesisBlock]

Step(at) == job.at = at /\ UNCHANGED <<store, tip, clock, pool, unreset>>

Generate(height) == [to |-> Me, height |-> height, value |-> GetBlockReward(height)]

(* A miner client reads the height and signs its generate for the next     *)
(* one, before it asks for work; GetBlockTemplate makes the generate       *)
(* itself, later.                                                          *)
Ask(internal) ==
    /\ Step("idle") /\ Len(works) < MaxWorks
    /\ job' = [NoJob EXCEPT !.at = "height", !.internal = internal, !.quiet = TRUE,
                            !.block.gen = Generate(HeightOf(tip) + 1)]
    /\ UNCHANGED works

(* getLatestBlock, first half. *)
ReadHeight ==
    /\ Step("height")
    /\ job' = [job EXCEPT !.at = "block", !.height = HeightOf(tip)]
    /\ UNCHANGED works

(* Faulty: the clock alone. *)
templateTimeNow(parent) == clock

templateBlockTime(parent) == IF clock <= parent.time THEN parent.time + 1 ELSE clock

(* Second half: without a block at that height the genesis block is taken. *)
(* The header's fields follow from the parent.                             *)
ReadParent ==
    /\ Step("block")
    /\ LET p == IF job.height <= HeightOf(tip) THEN ChainTo(tip)[job.height + 1] ELSE Genesis
           parent == store[p]
           height == parent.height + 1
           time == templateBlockTime(parent)
       IN  job' = [job EXCEPT !.at = "uncles",
                     !.block.prev = p, !.block.height = height, !.block.time = time,
                     !.block.diff = GetNextDiff(height, time, parent),
                     !.block.fee = FeeAbove(parent),
                     !.block.gen = IF job.internal THEN Generate(height) ELSE @]
    /\ UNCHANGED works

(* The side blocks that fit the tip, the lowest first. *)
Candidates ==
    LET next == HeightOf(tip) + 1
    IN  {u \in Stored \ OnChain(tip) :
            /\ next - HeightOf(u) \in 1 .. UncleMaxDepth
            /\ store[u].prev \in OnChain(tip)
            /\ u \notin Referenced(tip, next)}

CollectUncles ==
    /\ Step("uncles")
    /\ \E uncles \in kSubset(Min({MaxUncles, Cardinality(Candidates)}), Candidates) :
          /\ \A u \in uncles, c \in Candidates \ uncles : HeightOf(u) <= HeightOf(c)
          /\ job' = [job EXCEPT !.at = "pack", !.block.uncles = uncles,
                        !.block.rewards = [u \in uncles |-> UncleReward(HeightOf(u), job.block.height)]]
    /\ UNCHANGED works

(* The dearest transactions of the height, up to the cap. *)
GetPack ==
    /\ Step("pack")
    /\ LET fit == {t \in pool : TxHeight[t] = job.block.height}
       IN  \E txs \in kSubset(Min({MaxTxsPerPack, Cardinality(fit)}), fit) :
             /\ \A t \in txs, o \in fit \ txs : TxFee[t] >= TxFee[o]
             /\ job' = [job EXCEPT !.at = "root", !.block.txs = txs, !.quiet = @ /\ ~unreset]
    /\ UNCHANGED works

Hand(root) == works' = Append(works, [block |-> [job.block EXCEPT !.root = root], quiet |-> job.quiet])

(* DryApplyRoot, on the state as it is now.  AssembleWork reports a        *)
(* failure; GetBlockTemplate hands the template out without a root.        *)
DryApplyRoot ==
    /\ Step("root")
    /\ job' = NoJob
    /\ \/ /\ Affordable(StateAfter(tip), job.block)
          /\ Hand(Upgrade(StateAfter(tip), job.block))
       \/ /\ ~Affordable(StateAfter(tip), job.block)
          /\ IF job.internal THEN Hand(NoRoot) ELSE UNCHANGED works

(* submitWork and MinedNewBlock: the stored template under a valid nonce,  *)
(* any number of times.                                                    *)
Submit(i) == ApplyBlock(works[i].block)

-----------------------------------------------------------------------------
Init ==
    /\ store = <<GenesisBlock>> /\ tip = Genesis
    /\ clock = 0
    /\ pool = {} /\ unreset = FALSE
    /\ job = NoJob /\ works = <<>>

Next ==
    \/ \E p \in Stored, m \in Miners \ {Me}, time \in 1 .. MaxClock, txs \in SUBSET Txs :
          Receive(p, m, time, txs)
    \/ Tick \/ ResetPool
    \/ \E t \in Txs : PutTx(t)
    \/ \E internal \in BOOLEAN : Ask(internal)
    \/ ReadHeight \/ ReadParent \/ CollectUncles \/ GetPack \/ DryApplyRoot
    \/ \E i \in DOMAIN works : Submit(i)

Spec == Init /\ [][Next]_vars

-----------------------------------------------------------------------------
(* Whatever was mined, every block of the tip's chain has the root of the  *)
(* state after it and the difficulty, base fee and time its parent asks    *)
(* for: a root that was computed on another state than the parent's never  *)
(* gets onto the chain.                                                    *)
ChainExact ==
    \A b \in OnChain(tip) \ {Genesis} :
        /\ store[b].root = StateAfter(b)
        /\ checkBlockTarget(store[b])

(* The rewards of a block's height and of its uncles' depths, less its fees. *)
Issued(block) ==
    GetBlockReward(block.height)
    + SumFunctionOnSet([u \in block.uncles |-> UncleReward(HeightOf(u), block.height)], block.uncles)
    - SumFunctionOnSet(TxFee, block.txs)

(* The money on the chain is what the heights of its blocks, the depths of *)
(* their uncles and their fees account for: a generate made for another    *)
(* height does not change what a block mints.                              *)
SupplyExact ==
    SumFunctionOnSet(StateAfter(tip).balance, Miners) =
        SumFunctionOnSet([b \in Stored |-> Issued(store[b])], OnChain(tip) \ {Genesis})

(* A template that was put together while the tip stood still is accepted  *)
(* whenever its parent is the tip, however many blocks came and went in    *)
(* between, once the clock has caught up with it: the assembly and the     *)
(* checks agree on time, difficulty, fee, uncles, rewards and root.        *)
FreshWorkAccepted ==
    \A i \in DOMAIN works :
        LET block == works[i].block
        IN  /\ works[i].quiet /\ block.prev = tip
            /\ block.time <= clock + TimestampDriftTolerance
            /\ WithinCap(block)
            => ExtendsTip(block)

(* "a template never exceeds a valid block" (ngpool pool_get.go). *)
TemplateWithinCap == \A i \in DOMAIN works : WithinCap(works[i].block)

(* "lock the tx on the specific height" (ngtypes tx.go): the generate of a *)
(* block on the chain was made for the block's height.                     *)
GenerateLocked == \A b \in OnChain(tip) : store[b].gen.height = HeightOf(b)
=============================================================================
