----------------------------- MODULE BlockTree -----------------------------
(***************************************************************************)
(* The tree of blocks a node may ever see, and the rules of the protocol   *)
(* that depend on the tree alone.                                          *)
(*                                                                         *)
(* A block is identified by its hash and a hash by a natural number, so    *)
(* bytes.Compare on two hashes is < on two blocks.  Every block of the     *)
(* tree has passed the context-free FullBlock.CheckError.  The pow target  *)
(* check against the parent (OnTarget), the transactions (Valid) and the   *)
(* uncle rules are decided separately, where the code decides them.        *)
(***************************************************************************)
EXTENDS Integers, FiniteSets

CONSTANTS
    Blocks,         \* the blocks of the tree, the genesis block included
    NoBlock,        \* "no such key" in an index
    Genesis,        \* the origin of the store
    Prev,           \* Prev[b]: the block b builds on
    Height,         \* Height[b]: the height in b's header
    MaxHeight,      \* bound: the greatest height of the tree
    CumWork,        \* CumWork[b]: declared difficulties summed from genesis to b
    Ancestors,      \* Ancestors[b]: b and every block below it
    OnSlot,         \* blocks whose timestamp and difficulty fit the parent
    OnTarget,       \* those whose pow meets the target and whose base fee fits, too
    Valid,          \* blocks whose transactions apply on the parent's state
    Uncles,         \* Uncles[b]: the uncle headers b carries
    Txs,            \* transactions
    TxsOf,          \* TxsOf[b]: the transactions of b
    CheckRound,     \* ngtypes.BlockCheckRound
    UncleMaxDepth   \* ngtypes.UncleMaxDepth

Heights == 0 .. MaxHeight

ASSUME TreeTypes ==
    /\ Blocks \subseteq Nat
    /\ NoBlock \notin Blocks
    /\ Genesis \in Blocks
    /\ MaxHeight \in Nat
    /\ Prev \in [Blocks \ {Genesis} -> Blocks]
    /\ Height \in [Blocks -> Heights]
    /\ CumWork \in [Blocks -> Nat]
    /\ Ancestors \in [Blocks -> SUBSET Blocks]
    /\ OnSlot \subseteq Blocks
    /\ OnTarget \subseteq OnSlot
    /\ Valid \subseteq Blocks
    /\ Uncles \in [Blocks -> SUBSET Blocks]
    /\ TxsOf \in [Blocks -> SUBSET Txs]
    /\ CheckRound \in Nat \ {0}
    /\ UncleMaxDepth \in Nat
    /\ Uncles[Genesis] = {}

(* Heights grow by one along Prev, and every block adds a positive difficulty. *)
ASSUME TreeShape ==
    /\ Height[Genesis] = 0
    /\ \A b \in Blocks \ {Genesis} :
          /\ Height[b] = Height[Prev[b]] + 1
          /\ CumWork[b] > CumWork[Prev[b]]

(* Ancestors is the reflexive, transitive closure of Prev. *)
ASSUME TreeClosure ==
    /\ Ancestors[Genesis] = {Genesis}
    /\ \A b \in Blocks \ {Genesis} : Ancestors[b] = {b} \cup Ancestors[Prev[b]]

(* A transaction is locked to one height (CheckTx), so two blocks that     *)
(* share one sit at the same height.                                       *)
ASSUME TxsAreHeightLocked ==
    /\ TxsOf[Genesis] = {}
    /\ \A a, b \in Blocks : TxsOf[a] \cap TxsOf[b] # {} => Height[a] = Height[b]

-----------------------------------------------------------------------------
(* The block of b's own chain at height h. *)
At(b, h) == CHOOSE a \in Ancestors[b] : Height[a] = h

(* The heights of the chain that ends in b, as an index. *)
ChainIndex(b) ==
    [h \in Heights |-> IF h <= Height[b] THEN At(b, h) ELSE NoBlock]

(* The blocks above p up to n: a branch that forks off p and ends in n. *)
Path(p, n) == Ancestors[n] \ Ancestors[p]

IsHead(b) == Height[b] % CheckRound = 0

(* The last checkpoint strictly below the tip. *)
finalityHeight(tip) ==
    IF tip = 0 THEN 0 ELSE ((tip - 1) \div CheckRound) * CheckRound

(* Side blocks below this height may be dropped. *)
sideBlockPruneHeight(tip) ==
    IF tip <= UncleMaxDepth THEN 0
    ELSE IF tip - UncleMaxDepth < finalityHeight(tip)
         THEN tip - UncleMaxDepth
         ELSE finalityHeight(tip)

(* Fork choice: more cumulative work, and on equal work the smaller hash. *)
Better(a, b) ==
    \/ CumWork[a] > CumWork[b]
    \/ CumWork[a] = CumWork[b] /\ a < b

-----------------------------------------------------------------------------
(* Uncles.  The ancestors validateUncles walks end UncleMaxDepth + 1       *)
(* heights below the block.                                                *)
UncleFloor(h) == IF h > UncleMaxDepth + 1 THEN h - (UncleMaxDepth + 1) ELSE 0

(* Proper ancestors of a block that would sit at height h on parent p, as  *)
(* far down as the uncle window reaches.                                   *)
UncleWindow(p, h) == {a \in Ancestors[p] : Height[a] >= UncleFloor(h)}

(* Faulty: an uncle may be referenced again. *)
UncleFitsTwice(p, h, u) ==
    /\ h - Height[u] \in 1 .. UncleMaxDepth
    /\ u # Genesis
    /\ Prev[u] \in UncleWindow(p, h)
    /\ u \notin UncleWindow(p, h)

(* u may be an uncle of a block at height h on parent p: its depth is in   *)
(* 1..UncleMaxDepth, it forks off p's chain, is not itself on that chain   *)
(* and was not referenced in the window.                                   *)
UncleFits(p, h, u) ==
    /\ h - Height[u] \in 1 .. UncleMaxDepth
    /\ u # Genesis
    /\ Prev[u] \in UncleWindow(p, h)
    /\ u \notin UncleWindow(p, h)
    /\ \A a \in UncleWindow(p, h) : u \notin Uncles[a]

UnclesFit(b) ==
    \A u \in Uncles[b] : UncleFits(Prev[b], Height[b], u) /\ u \in OnSlot
=============================================================================
