----------------------------- MODULE BlockStore -----------------------------
(***************************************************************************)
(* The block store (package ngblocks).  A store is a record; an operation  *)
(* takes a store and returns the next one, so a bbolt write transaction is *)
(* a composition of operations that an action commits as a whole.          *)
(***************************************************************************)
EXTENDS BlockTree

NoWork == -1

Store ==
    [ bodies  : SUBSET Blocks,                           \* hash -> block
      canon   : [Heights -> Blocks \cup {NoBlock}],      \* height -> hash
      latest  : Blocks,                                  \* the latest tags
      side    : SUBSET Blocks,                           \* "side:" marks
      work    : [Blocks -> Nat \cup {NoWork}],           \* "work:" memo
      txBlock : [Txs -> Blocks \cup {NoBlock}] ]         \* tx -> block

(* initWithGenesis: body, height index and tags; no work is memoised. *)
GenesisStore ==
    [ bodies  |-> {Genesis},
      canon   |-> [h \in Heights |-> IF h = 0 THEN Genesis ELSE NoBlock],
      latest  |-> Genesis,
      side    |-> {},
      work    |-> [b \in Blocks |-> NoWork],
      txBlock |-> [t \in Txs |-> NoBlock] ]

isCanonical(s, b) == s.canon[Height[b]] = b

-----------------------------------------------------------------------------
(* checkBlock: no block at this height yet, and the parent is stored. *)
checkBlock(s, b) ==
    /\ s.canon[Height[b]] \notin s.bodies
    /\ Prev[b] \in s.bodies

(* PutNewBlock: body, height index, transactions and latest tags; the      *)
(* block stops being a side block.                                         *)
PutNewBlock(s, b) ==
    [s EXCEPT !.bodies  = s.bodies \cup {b},
              !.canon   = [s.canon EXCEPT ![Height[b]] = b],
              !.side    = s.side \ {b},
              !.txBlock = [t \in Txs |-> IF t \in TxsOf[b] THEN b ELSE s.txBlock[t]],
              !.latest  = b]

(* PutSideBlock: by hash only, with a side mark - whatever b already is. *)
PutSideBlock(s, b) ==
    [s EXCEPT !.bodies = s.bodies \cup {b},
              !.side   = s.side \cup {b}]

(* The canonical blocks above p. *)
CanonAbove(s, p) ==
    {s.canon[h] : h \in Height[p] + 1 .. Height[s.latest]}

(* Faulty: the heights above the new tip stay linked. *)
IndexKeepingHeights(s, p, n) ==
    [h \in Heights |-> IF h \in Height[p] + 1 .. Height[n] THEN At(n, h) ELSE s.canon[h]]

(* SwitchToBranch, for the branch Path(p, n).  The branch is linked in the *)
(* height index and the heights above its tip are unlinked.                *)
SwitchedIndex(s, p, n) ==
    [h \in Heights |->
       IF h \in Height[p] + 1 .. Height[n] THEN At(n, h)
       ELSE IF h \in Height[n] + 1 .. Height[s.latest] THEN NoBlock
       ELSE s.canon[h]]

(* The replaced blocks get a side mark, the branch blocks lose theirs. *)
SwitchedSide(s, p, n) == (s.side \cup CanonAbove(s, p)) \ Path(p, n)

(* Faulty: the replaced blocks' transactions go last. *)
TxsUnlinkedLast(s, p, n) ==
    [t \in Txs |->
       IF \E b \in CanonAbove(s, p) : t \in TxsOf[b] THEN NoBlock
       ELSE IF \E b \in Path(p, n) : t \in TxsOf[b]
       THEN CHOOSE b \in Path(p, n) : t \in TxsOf[b]
       ELSE s.txBlock[t]]

(* The transactions of the replaced blocks go, then those of the branch    *)
(* are put.                                                                *)
SwitchedTxs(s, p, n) ==
    [t \in Txs |->
       IF \E b \in Path(p, n) : t \in TxsOf[b]
       THEN CHOOSE b \in Path(p, n) : t \in TxsOf[b]
       ELSE IF \E b \in CanonAbove(s, p) : t \in TxsOf[b] THEN NoBlock
       ELSE s.txBlock[t]]

SwitchToBranch(s, p, n) ==
    [s EXCEPT !.bodies  = s.bodies \cup Path(p, n),
              !.canon   = SwitchedIndex(s, p, n),
              !.side    = SwitchedSide(s, p, n),
              !.txBlock = SwitchedTxs(s, p, n),
              !.latest  = n]

(* What PruneSideBlocks deletes: side blocks below a height, unless the    *)
(* height index still names them ...                                       *)
Prunable(s, below) == {b \in s.side : Height[b] < below /\ ~isCanonical(s, b)}

(* ... with their work memo. *)
PruneSideBlocks(s, below) ==
    [s EXCEPT !.bodies = s.bodies \ Prunable(s, below),
              !.side   = s.side \ Prunable(s, below),
              !.work   = [b \in Blocks |->
                            IF b \in Prunable(s, below) THEN NoWork ELSE s.work[b]]]

-----------------------------------------------------------------------------
(* cumulativeWork walks down from b to the first block m whose work is     *)
(* known (or to the origin) ...                                            *)
WalkEnds(s, b, m) ==
    /\ s.work[m] # NoWork \/ m = Genesis
    /\ \A a \in Path(m, b) : s.work[a] = NoWork /\ Prev[a] \in s.bodies

WalkConnected(s, b) == \E m \in Ancestors[b] : WalkEnds(s, b, m)

WalkEnd(s, b) == CHOOSE m \in Ancestors[b] : WalkEnds(s, b, m)

(* Faulty: the walk's end is not counted. *)
WorkWithoutBase(s, m, a) ==
    IF s.work[m] = NoWork THEN CumWork[a] ELSE CumWork[a] - CumWork[m]

(* ... and adds up the difficulties above it, which on the way from m to a *)
(* sum to CumWork[a] - CumWork[m].                                         *)
WorkFrom(s, m, a) ==
    IF s.work[m] = NoWork THEN CumWork[a] ELSE s.work[m] + (CumWork[a] - CumWork[m])

cumulativeWork(s, b) == WorkFrom(s, WalkEnd(s, b), b)

(* The work of every block on the walk is stored back. *)
MemoWork(s, b) ==
    LET m == WalkEnd(s, b)
    IN  IF s.work[b] # NoWork THEN s ELSE
        [s EXCEPT !.work = [a \in Blocks |->
                              IF a \in Path(m, b) \cup {m} THEN WorkFrom(s, m, a)
                              ELSE s.work[a]]]

-----------------------------------------------------------------------------
(* validateUncles has to find every ancestor of its window stored (or in   *)
(* the branch being imported); a block without uncles is not walked.       *)
validateUncles(bodies, b) ==
    Uncles[b] # {} =>
        /\ UncleWindow(Prev[b], Height[b]) \subseteq bodies
        /\ UnclesFit(b)

(* Faulty: a side mark is taken as proof of being off the chain. *)
UncleCandidatesMarked(s) ==
    LET next == Height[s.latest] + 1
        low  == IF next > UncleMaxDepth THEN next - UncleMaxDepth ELSE 1
    IN  {c \in s.side : /\ Height[c] \in low .. Height[s.latest]
                        /\ s.canon[Height[c] - 1] = Prev[c]}

(* CollectUncles picks a few (ngtypes.MaxUncles) of these for a block on   *)
(* the tip.                                                                *)
UncleCandidates(s) ==
    LET next == Height[s.latest] + 1
        low  == IF next > UncleMaxDepth THEN next - UncleMaxDepth ELSE 1
        seen == UNION {Uncles[s.canon[h]] : h \in UncleFloor(next) + 1 .. Height[s.latest]}
    IN  {c \in s.side : /\ Height[c] \in low .. Height[s.latest]
                        /\ s.canon[Height[c] - 1] = Prev[c]
                        /\ ~isCanonical(s, c)
                        /\ c \notin seen}
=============================================================================
