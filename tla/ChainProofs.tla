---------------------------- MODULE ChainProofs ----------------------------
(***************************************************************************)
(* Safety of block import and of what the rest of a node relies on in it:  *)
(* the chain's invariants, fork choice and finality, the feed of logs, the *)
(* view that Sync and Light build on, and the answers about the past.  For *)
(* every block tree, every check round and uncle depth, and every          *)
(* retention.                                                              *)
(***************************************************************************)
EXTENDS LogFeed, History, StoreProofs

(* With archive on, the recorded heights reach up to the tip without a     *)
(* gap; with archive off there are none above genesis.                     *)
Covered ==
    IF archive THEN \A h \in changesets : h > 0 => h .. Height[store.latest] \subseteq changesets
               ELSE changesets \subseteq {0}

(* The inductive invariant. *)
ChainInv ==
    /\ TypeOK
    /\ StoreOK(store)
    /\ StateFollowsChain
    /\ Covered

(* The parts of the invariant the proofs below cite. *)
LEMMA ChainInvFacts ==
    ASSUME ChainInv
    PROVE  /\ store \in Store
           /\ store.latest \in Blocks
           /\ Height[store.latest] \in Nat
           /\ Height[store.latest] \in Heights
           /\ store.canon = ChainIndex(store.latest)
           /\ applied = ChainIndex(store.latest)
           /\ changesets \subseteq Heights
           /\ snap \in [Heights -> Blocks \cup {NoBlock}]
           /\ archive \in BOOLEAN
BY StoreFacts, TreeFacts, Zenon DEF ChainInv, TypeOK, StoreOK, StateFollowsChain

(* A freshly initialised node satisfies the invariant. *)
LEMMA InitInv == Init => ChainInv
<1> SUFFICES ASSUME Init PROVE ChainInv
  OBVIOUS
<1>1. store = GenesisStore /\ Genesis \in Blocks /\ Height[Genesis] = 0 /\ 0 \in Heights
  BY TreeFacts, TreeShape, Zenon DEF Init, Heights
<1>2. store \in Store
  BY <1>1, Zenon DEF GenesisStore, Store
<1>3. /\ store.bodies = {Genesis} /\ store.latest = Genesis /\ store.side = {}
      /\ store.work = [b \in Blocks |-> NoWork]
      /\ store.canon = [h \in Heights |-> IF h = 0 THEN Genesis ELSE NoBlock]
  BY <1>1, Zenon DEF GenesisStore
<1>4. store.canon = ChainIndex(Genesis)
  <2>1. ASSUME NEW h \in Heights PROVE store.canon[h] = ChainIndex(Genesis)[h]
    <3>1. h \in Nat
      BY DEF Heights
    <3>2. CASE h = 0
      BY <3>2, <1>1, <1>3, ChainFacts, ChainIndexFacts
    <3>3. CASE h > 0
      BY <3>3, <1>1, <1>3, ChainIndexFacts
    <3> QED BY <3>1, <3>2, <3>3
  <2> QED BY <2>1, <1>3, Zenon DEF ChainIndex
<1>5. Ancestors[Genesis] = {Genesis}
  BY TreeAncestors, Zenon
<1>6. isCanonical(store, Genesis)
  BY <1>1, <1>3, Zenon DEF isCanonical
<1>7. Checked(Genesis)
  BY TreeTypes, Zenon DEF UnclesFit, Checked
<1>8. TxsIndexed(store)
  <2>1. store.txBlock = [t \in Txs |-> NoBlock]
    BY <1>1, Zenon DEF GenesisStore
  <2>2. ASSUME NEW b \in Blocks, isCanonical(store, b) PROVE TxsOf[b] = {}
    <3>1. b = Genesis
      BY <2>2, <1>1, <1>4, <1>5, ChainIndexFacts, Zenon DEF isCanonical
    <3> QED BY <3>1, TxsAreHeightLocked, Zenon
  <2> QED BY <2>1, <2>2, TreeFacts, Zenon DEF TxsIndexed
<1>9. StoreOK(store)
  BY <1>2, <1>3, <1>4, <1>5, <1>6, <1>7, <1>8, Zenon DEF StoreOK
<1>10. StateFollowsChain
  BY <1>4, Zenon DEF Init, StateFollowsChain
<1>11. ChainIndex(Genesis) \in [Heights -> Blocks \cup {NoBlock}]
  BY <1>1, ChainIndexFacts, Zenon
<1>12. TypeOK
  BY <1>1, <1>2, <1>11, Zenon DEF Init, TypeOK
<1>13. Covered
  BY DEF Init, Covered
<1> QED BY <1>9, <1>10, <1>12, <1>13 DEF ChainInv

-----------------------------------------------------------------------------
(* The state after an unwind and the changesets after a roll forward. *)

(* UnwindExact follows: with no gap in the changesets, what CanUnwind      *)
(* reads off one height holds for all heights above it.                    *)
LEMMA UnwindIsExact == ChainInv => UnwindExact
<1> SUFFICES ASSUME ChainInv, NEW p \in Ancestors[store.latest], CanUnwind(p)
             PROVE  Unwound(p) = ChainIndex(p)
  BY Zenon DEF UnwindExact
<1> DEFINE l == store.latest
<1>1. /\ l \in Blocks /\ Height[l] \in Nat /\ Height[l] \in Heights
      /\ applied = ChainIndex(l) /\ changesets \subseteq Heights
  BY ChainInvFacts, Zenon
<1>2. p \in Blocks /\ Height[p] \in Nat /\ Height[p] <= Height[l]
  BY <1>1, AncestorFacts, Zenon
<1>3. \A h \in Height[p] + 1 .. Height[l] : h \in changesets
  <2>1. CASE Height[p] >= Height[l]
    BY <2>1, <1>1, <1>2
  <2>2. CASE Height[p] + 1 \in changesets
    <3>1. Height[p] + 1 .. Height[l] \subseteq changesets
      BY <2>2, <1>2 DEF ChainInv, Covered, CanUnwind
    <3> QED BY <3>1, Zenon
  <2> QED BY <2>1, <2>2, Zenon DEF CanUnwind
<1>4. ASSUME NEW h \in Heights PROVE Unwound(p)[h] = ChainIndex(p)[h]
  <2>1. h \in Nat /\ Unwound(p)[h] = IF h \in Reverted(p) THEN NoBlock ELSE ChainIndex(l)[h]
    BY <1>1 DEF Heights, Unwound
  <2>2. CASE h <= Height[p]
    <3>1. h \notin Reverted(p)
      BY <2>1, <2>2, <1>1, <1>2 DEF Reverted
    <3>2. h \in 0 .. Height[p] /\ h \in 0 .. Height[l]
      BY <2>1, <2>2, <1>1, <1>2
    <3> QED BY <3>1, <3>2, <2>1, <1>1, <1>2, ChainIndexFacts, AtBelow
  <2>3. CASE h > Height[p]
    <3>1. ChainIndex(p)[h] = NoBlock
      BY <2>3, <1>2, ChainIndexFacts, Zenon
    <3>2. CASE h <= Height[l]
      <4>1. h \in Reverted(p)
        BY <3>2, <2>1, <2>3, <1>1, <1>2, <1>3 DEF Reverted
      <4> QED BY <4>1, <3>1, <2>1, Zenon
    <3>3. CASE h > Height[l]
      <4>1. ChainIndex(l)[h] = NoBlock
        BY <3>3, <1>1, ChainIndexFacts, Zenon
      <4> QED BY <4>1, <3>1, <2>1, Zenon
    <3> QED BY <3>2, <3>3, <2>1, <1>1
  <2> QED BY <2>1, <2>2, <2>3, <1>2
<1> QED BY <1>4, Zenon DEF Unwound, ChainIndex

(* Rolling a branch forward on its fork point's state gives the branch     *)
(* tip's state.                                                            *)
LEMMA RolledForwardFacts ==
    ASSUME NEW n \in Blocks, NEW p \in Ancestors[n], Unwound(p) = ChainIndex(p)
    PROVE  RolledForward(p, n) = ChainIndex(n)
<1>1. p \in Blocks /\ Height[p] \in Nat /\ Height[n] \in Nat /\ Height[p] <= Height[n]
  BY AncestorFacts, Zenon
<1>2. ASSUME NEW h \in Heights PROVE RolledForward(p, n)[h] = ChainIndex(n)[h]
  <2>1. /\ h \in Nat
        /\ RolledForward(p, n)[h] = IF h \in Height[p] + 1 .. Height[n] THEN At(n, h)
                                    ELSE ChainIndex(p)[h]
    BY DEF Heights, RolledForward
  <2>2. CASE h <= Height[p]
    <3>1. h \in 0 .. Height[p] /\ h \in 0 .. Height[n] /\ h \notin Height[p] + 1 .. Height[n]
      BY <2>1, <2>2, <1>1
    <3> QED BY <3>1, <2>1, <1>1, ChainIndexFacts, AtBelow
  <2>3. CASE h > Height[p] /\ h <= Height[n]
    <3>1. h \in Height[p] + 1 .. Height[n] /\ h \in 0 .. Height[n]
      BY <2>1, <2>3, <1>1
    <3> QED BY <3>1, <2>1, ChainIndexFacts, Zenon
  <2>4. CASE h > Height[n]
    <3>1. h > Height[p] /\ h \notin Height[p] + 1 .. Height[n]
      BY <2>1, <2>4, <1>1
    <3> QED BY <3>1, <2>1, <2>4, <1>1, ChainIndexFacts
  <2> QED BY <2>1, <2>2, <2>3, <2>4, <1>1
<1> QED BY <1>2, Zenon DEF RolledForward, ChainIndex
-----------------------------------------------------------------------------
(* The checkpoint at the end of an import takes no block of the chain. *)
LEMMA CheckpointKeeps ==
    ASSUME NEW s, StoreOK(s), NEW tip \in Blocks, Checkpoint(s, tip), s.latest = tip,
           snap \in [Heights -> Blocks \cup {NoBlock}]
    PROVE  /\ StoreOK(store')
           /\ store'.latest = s.latest
           /\ store'.canon = s.canon
           /\ store'.bodies = PrunedBodies(s.bodies, tip)
           /\ snap' \in [Heights -> Blocks \cup {NoBlock}]
<1>1. PutSnapshot(tip) \in [Heights -> Blocks \cup {NoBlock}]
  BY Zenon DEF PutSnapshot
<1>2. CASE IsHead(tip)
  <2>1. store' = PruneSideBlocks(s, sideBlockPruneHeight(Height[tip])) /\ snap' = PutSnapshot(tip)
    BY <1>2, Zenon DEF Checkpoint
  <2>2. s \in Store
    BY Zenon DEF StoreOK
  <2>3. ASSUME NEW below
        PROVE  /\ StoreOK(PruneSideBlocks(s, below))
               /\ PruneSideBlocks(s, below).latest = s.latest
               /\ PruneSideBlocks(s, below).canon = s.canon
    BY <2>2, PruneSideBlocksKeeps, PruneSideBlocksFields, ZenonT(30)
  <2>4. store'.bodies = PrunedBodies(s.bodies, tip)
    BY <2>1, <1>2, PrunedBodiesFacts, Zenon
  <2> QED BY <2>1, <2>3, <2>4, <1>1, Zenon
<1>3. CASE ~IsHead(tip)
  BY <1>3, Zenon DEF Checkpoint, PrunedBodies
<1> QED BY <1>2, <1>3, Zenon

(* A switch from a sound store s with the chain of the current one. *)
LEMMA SwitchKeeps ==
    ASSUME ChainInv, NEW s, StoreOK(s), s.latest = store.latest,
           NEW n \in Blocks, NEW p \in Ancestors[n], p \in Ancestors[store.latest],
           \A a \in Path(p, n) : Checked(a),
           switchToBranchTxn(s, p, n)
    PROVE  /\ ChainInv'
           /\ store'.latest = n
           /\ store'.bodies = PrunedBodies(s.bodies \cup Path(p, n), n)
           /\ Path(p, n) \subseteq Valid
<1> DEFINE t == SwitchToBranch(s, p, n)
<1>1. /\ StoreOK(t) /\ t.latest = n /\ t.canon = ChainIndex(n)
      /\ t.bodies = s.bodies \cup Path(p, n)
  BY SwitchToBranchKeeps, SwitchToBranchFields
<1>2. /\ IF CanUnwind(p) THEN UnwindAndApply(p, n) ELSE Replay(t.canon, n)
      /\ Checkpoint(t, n)
      /\ archive' = archive
  BY Zenon DEF switchToBranchTxn
<1> HIDE DEF t
<1>3. /\ StoreOK(store') /\ store'.latest = n /\ store'.canon = ChainIndex(n)
      /\ store'.bodies = PrunedBodies(t.bodies, n)
      /\ snap' \in [Heights -> Blocks \cup {NoBlock}]
  BY <1>1, <1>2, CheckpointKeeps, ChainInvFacts, Zenon
<1>4. /\ p \in Blocks /\ Height[p] \in Nat /\ Height[n] \in Nat /\ Height[p] <= Height[n]
      /\ Height[n] \in Heights /\ Height[store.latest] \in Nat
      /\ changesets \subseteq Heights /\ archive \in BOOLEAN
      /\ Height[p] <= Height[store.latest]
  BY AncestorFacts, TreeFacts, ChainInvFacts, Zenon
<1>5. ChainIndex(n) \in [Heights -> Blocks \cup {NoBlock}]
  BY ChainIndexFacts, Zenon
<1>6. CASE CanUnwind(p)
  <2>1. /\ Unwound(p) = ChainIndex(p)
        /\ applied' = RolledForward(p, n)
        /\ changesets' = (changesets \ Reverted(p)) \cup (Height[p] + 1 .. Height[n])
        /\ archive /\ Path(p, n) \subseteq Valid
    BY <1>2, <1>6, Zenon DEF UnwindAndApply, CanUnwind, Recorded
  <2>2. applied' = ChainIndex(n)
    BY <2>1, RolledForwardFacts, Zenon
  <2>3. Height[p] + 1 .. Height[n] \subseteq Heights
    BY <1>4, TreeFacts DEF Heights
  <2>4. changesets' \subseteq Heights
    BY <2>1, <2>3, <1>4, Zenon
  <2>5. ASSUME NEW h \in changesets', h > 0, NEW k \in h .. Height[n] PROVE k \in changesets'
    <3>1. h \in Nat /\ k \in Nat
      BY <2>4, <2>5 DEF Heights
    <3>2. CASE k > Height[p]
      BY <3>1, <3>2, <2>1, <2>5, <1>4
    <3>3. CASE k <= Height[p]
      <4>1. h \notin Height[p] + 1 .. Height[n] /\ h \in changesets
        BY <3>1, <3>3, <2>1, <2>5, <1>4
      <4>2. k \in h .. Height[store.latest]
        BY <3>1, <3>3, <2>5, <1>4
      <4>3. k \in changesets
        BY <4>1, <4>2, <2>1, <2>5, Zenon DEF ChainInv, Covered
      <4>4. k \notin Reverted(p)
        BY <3>1, <3>3, <1>4 DEF Reverted
      <4> QED BY <4>3, <4>4, <2>1, Zenon
    <3> QED BY <3>1, <3>2, <3>3, <1>4
  <2>6. Covered'
    BY <2>1, <2>5, <1>2, <1>3, Zenon DEF Covered
  <2>7. TypeOK'
    BY <2>2, <2>4, <1>2, <1>3, <1>4, <1>5, Zenon DEF TypeOK, StoreOK
  <2> QED BY <2>1, <2>2, <2>6, <2>7, <1>1, <1>3, Zenon DEF ChainInv, StateFollowsChain
<1>7. CASE ~CanUnwind(p)
  <2>1. /\ applied' = ChainIndex(n)
        /\ changesets' = IF archive THEN 0 .. Height[n] ELSE {}
        /\ \A h \in 1 .. Height[n] : ChainIndex(n)[h] \in Valid
    BY <1>1, <1>2, <1>7, Zenon DEF Replay
  <2>2. 0 .. Height[n] \subseteq Heights
    BY <1>4, TreeFacts DEF Heights
  <2>3. Covered'
    BY <2>1, <1>2, <1>3, <1>4 DEF Covered
  <2>4. TypeOK'
    BY <2>1, <2>2, <1>2, <1>3, <1>4, <1>5, Zenon DEF TypeOK, StoreOK
  <2>5. ASSUME NEW a \in Path(p, n) PROVE a \in Valid
    <3>1. a \in Blocks /\ a \in Ancestors[n] /\ Height[a] \in 1 .. Height[n]
      BY <1>4, PathFacts DEF Path
    <3> QED BY <3>1, <2>1, ChainIndexFacts, Zenon
  <2> QED BY <2>1, <2>3, <2>4, <2>5, <1>1, <1>3, Zenon DEF ChainInv, StateFollowsChain
<1> QED BY <1>6, <1>7, Zenon

(* The fast path. *)
LEMMA ExtendTipKeeps ==
    ASSUME ChainInv, NEW b \in Blocks \ {Genesis}, ExtendTip(b)
    PROVE  /\ ChainInv'
           /\ store'.latest = b
           /\ store'.bodies = PrunedBodies(store.bodies \cup {b}, b)
           /\ store'.canon = [store.canon EXCEPT ![Height[b]] = b]
<1> DEFINE s == PutNewBlock(store, b)
<1>1. /\ Prev[b] = store.latest /\ Checked(b) /\ WalkConnected(s, b)
      /\ applied' = [applied EXCEPT ![Height[b]] = b]
      /\ changesets' = IF archive THEN changesets \cup {Height[b]} ELSE changesets
      /\ Checkpoint(MemoWork(s, b), b)
      /\ archive' = archive
  BY CheckedFacts, Zenon DEF ExtendTip, checkBlockTxn
<1>2. StoreOK(s)
  BY <1>1, PutNewBlockKeeps, Zenon DEF ChainInv
<1>3. s.bodies = store.bodies \cup {b} /\ s.latest = b /\ s.canon = [store.canon EXCEPT ![Height[b]] = b]
  <2>1. store \in Store
    BY ChainInvFacts, Zenon
  <2> QED BY <2>1, PutNewBlockFields, ZenonT(40)
<1> HIDE DEF s
<1>4. /\ StoreOK(MemoWork(s, b)) /\ MemoWork(s, b).bodies = s.bodies
      /\ MemoWork(s, b).canon = s.canon /\ MemoWork(s, b).latest = s.latest
  BY <1>1, <1>2, MemoWorkKeeps, Zenon
<1>5. /\ StoreOK(store') /\ store'.latest = b /\ store'.bodies = PrunedBodies(s.bodies, b)
      /\ store'.canon = s.canon
      /\ snap' \in [Heights -> Blocks \cup {NoBlock}]
  <2> DEFINE m == MemoWork(s, b)
  <2>1. StoreOK(m) /\ m.latest = b /\ m.bodies = s.bodies /\ m.canon = s.canon
    BY <1>3, <1>4, Zenon
  <2>2. Checkpoint(m, b) /\ snap \in [Heights -> Blocks \cup {NoBlock}]
    BY <1>1, ChainInvFacts, Zenon
  <2> HIDE DEF m
  <2> QED BY <2>1, <2>2, CheckpointKeeps, ZenonT(40)
<1>6. applied' = store'.canon
  BY <1>1, <1>3, <1>5, Zenon DEF ChainInv, StateFollowsChain
<1>7. store' \in Store /\ store'.canon \in [Heights -> Blocks \cup {NoBlock}]
  BY <1>5, StoreFacts, Zenon DEF StoreOK
<1>8. /\ Height[b] \in Heights /\ Height[b] \in Nat /\ Height[b] = Height[store.latest] + 1
      /\ Height[store.latest] \in Nat
      /\ changesets \subseteq Heights /\ archive \in BOOLEAN
  BY <1>1, TreeFacts, TreeShape, ChainInvFacts, Zenon
<1>9. TypeOK'
  BY <1>1, <1>5, <1>6, <1>7, <1>8, Zenon DEF TypeOK
<1>10. Covered'
  <2>1. CASE ~archive
    BY <2>1, <1>1, Zenon DEF ChainInv, Covered
  <2>2. CASE archive
    <3>1. ASSUME NEW h \in changesets', h > 0, NEW k \in h .. Height[b] PROVE k \in changesets'
      <4>1. h \in Nat /\ k \in Nat
        BY <3>1, <2>2, <1>1, <1>8 DEF Heights
      <4>2. CASE k = Height[b]
        BY <4>2, <2>2, <1>1, Zenon
      <4>3. CASE k # Height[b]
        <5>1. h \in changesets /\ k \in h .. Height[store.latest]
          BY <4>1, <4>3, <3>1, <2>2, <1>1, <1>8
        <5> QED BY <5>1, <3>1, <2>2, <1>1, Zenon DEF ChainInv, Covered
      <4> QED BY <4>2, <4>3, Zenon
    <3> QED BY <3>1, <2>2, <1>1, <1>5, Zenon DEF Covered
  <2> QED BY <2>1, <2>2, Zenon
<1> QED BY <1>3, <1>5, <1>6, <1>9, <1>10, Zenon DEF ChainInv, StateFollowsChain
-----------------------------------------------------------------------------
(* On true works the comparison of ApplyBlock is the fork choice. *)
LEMMA HeavierIsBetter ==
    ASSUME NEW a \in Blocks, NEW b \in Blocks
    PROVE  Heavier(CumWork[a], a, CumWork[b], b) <=> Better(a, b)
BY Zenon DEF Heavier, Better

(* The side path of ApplyBlock up to the fork choice. *)
LEMMA SidePathFacts ==
    ASSUME ChainInv, NEW b \in Blocks \ {Genesis},
           SidePath(b, PutSideBlock(store, b), MemoWork(PutSideBlock(store, b), b))
    PROVE  LET s == PutSideBlock(store, b)
               w == MemoWork(s, b)
               t == MemoWork(w, store.latest)
           IN  /\ Checked(b) /\ StoreOK(s) /\ StoreOK(t)
               /\ s.bodies = store.bodies \cup {b} /\ s.canon = store.canon
               /\ t.bodies = store.bodies \cup {b} /\ t.latest = store.latest
               /\ t.canon = store.canon
               /\ cumulativeWork(s, b) = CumWork[b]
               /\ cumulativeWork(w, store.latest) = CumWork[store.latest]
<1> DEFINE s == PutSideBlock(store, b)
           w == MemoWork(s, b)
           t == MemoWork(w, store.latest)
<1>1. Checked(b) /\ WalkConnected(s, b) /\ WalkConnected(w, store.latest)
  BY CheckedFacts, Zenon DEF SidePath, checkBranchBlock
<1>2. StoreOK(s)
  BY <1>1, PutSideBlockKeeps, Zenon DEF ChainInv
<1>3. s.bodies = store.bodies \cup {b} /\ s.canon = store.canon /\ s.latest = store.latest
  BY ChainInvFacts, PutSideBlockFields, Zenon
<1> HIDE DEF s
<1>4. StoreOK(w) /\ w.bodies = s.bodies /\ w.canon = s.canon /\ w.latest = s.latest
  BY <1>1, <1>2, MemoWorkKeeps, Zenon
<1>5. cumulativeWork(s, b) = CumWork[b]
  BY <1>1, <1>2, cumulativeWorkFacts, Zenon
<1> HIDE DEF w
<1>6. StoreOK(t) /\ t.bodies = w.bodies /\ t.canon = w.canon /\ t.latest = w.latest
  BY <1>1, <1>4, MemoWorkKeeps, ChainInvFacts, Zenon
<1>7. cumulativeWork(w, store.latest) = CumWork[store.latest]
  BY <1>1, <1>4, cumulativeWorkFacts, ChainInvFacts, Zenon
<1> HIDE DEF t
<1>8. /\ Checked(b) /\ StoreOK(s) /\ StoreOK(t)
      /\ s.bodies = store.bodies \cup {b} /\ s.canon = store.canon
      /\ t.bodies = store.bodies \cup {b} /\ t.latest = store.latest
      /\ t.canon = store.canon
      /\ cumulativeWork(s, b) = CumWork[b]
      /\ cumulativeWork(w, store.latest) = CumWork[store.latest]
  BY <1>1, <1>2, <1>3, <1>4, <1>5, <1>6, <1>7, Zenon
<1> QED BY <1>8, Zenon DEF s, w, t

(* A side block that does not win keeps the invariant. *)
LEMMA StoreSideKeeps ==
    ASSUME ChainInv, NEW b \in Blocks \ {Genesis}, StoreSide(b)
    PROVE  /\ ChainInv'
           /\ store'.latest = store.latest
           /\ store'.canon = store.canon
           /\ store'.bodies = store.bodies \cup {b}
           /\ ~Better(b, store.latest)
<1> DEFINE s == PutSideBlock(store, b)
           w == MemoWork(s, b)
           t == MemoWork(w, store.latest)
<1>1. /\ SidePath(b, s, w)
      /\ ~Heavier(cumulativeWork(s, b), b, cumulativeWork(w, store.latest), store.latest)
      /\ store' = t
      /\ UNCHANGED <<archive, applied, changesets, snap>>
  BY Zenon DEF StoreSide
<1>2. /\ StoreOK(t) /\ t.bodies = store.bodies \cup {b} /\ t.latest = store.latest
      /\ t.canon = store.canon
      /\ cumulativeWork(s, b) = CumWork[b]
      /\ cumulativeWork(w, store.latest) = CumWork[store.latest]
  BY <1>1, SidePathFacts, Zenon
<1> HIDE DEF s, w, t
<1>3. ~Better(b, store.latest)
  BY <1>1, <1>2, HeavierIsBetter, ChainInvFacts, Zenon
<1>4. store' \in Store
  BY <1>1, <1>2, Zenon DEF StoreOK
<1> QED BY <1>1, <1>2, <1>3, <1>4, Zenon DEF ChainInv, TypeOK, StateFollowsChain, Covered

(* So does a reorg of ApplyBlock ... *)
LEMMA ReorgKeeps ==
    ASSUME ChainInv, NEW b \in Blocks \ {Genesis}, NEW p \in Ancestors[b], Reorg(p, b)
    PROVE  /\ ChainInv'
           /\ store'.latest = b
           /\ store'.bodies = PrunedBodies(store.bodies \cup {b}, b)
           /\ Better(b, store.latest)
           /\ p \in Ancestors[store.latest]
           /\ ~BeyondFinality(p)
           /\ \A a \in Path(p, b) : /\ a \in Valid /\ a \notin Ancestors[store.latest]
                                   /\ Prev[a] \in store.bodies
<1> DEFINE s == PutSideBlock(store, b)
           w == MemoWork(s, b)
           t == MemoWork(w, store.latest)
<1>1. /\ SidePath(b, s, w)
      /\ Heavier(cumulativeWork(s, b), b, cumulativeWork(w, store.latest), store.latest)
      /\ collectBranch(s, p, b)
      /\ ~BeyondFinality(p)
      /\ switchToBranchTxn(t, p, b)
  BY Zenon DEF Reorg
<1>2. /\ Checked(b) /\ StoreOK(s) /\ s.bodies = store.bodies \cup {b} /\ s.canon = store.canon
      /\ StoreOK(t) /\ t.bodies = store.bodies \cup {b} /\ t.latest = store.latest
      /\ cumulativeWork(s, b) = CumWork[b]
      /\ cumulativeWork(w, store.latest) = CumWork[store.latest]
  BY <1>1, SidePathFacts, ZenonT(30)
<1> HIDE DEF s, w, t
<1>3. Better(b, store.latest)
  BY <1>1, <1>2, HeavierIsBetter, ChainInvFacts, ZenonT(30)
<1>4. p \in Blocks /\ p \in Ancestors[store.latest]
  <2>1. p \in Blocks
    BY TreeFacts, Zenon
  <2>2. isCanonical(store, p)
    BY <1>1, <1>2, ZenonT(30) DEF collectBranch, isCanonical
  <2> QED BY <2>1, <2>2, CanonicalFacts, Zenon DEF ChainInv
<1>5. ASSUME NEW a \in Path(p, b) PROVE a \in s.bodies /\ Checked(a)
  <2>1. CASE a = b
    BY <2>1, <1>2, Zenon
  <2>2. CASE a # b
    <3>1. PICK c \in Path(p, b) : c # Genesis /\ Prev[c] = a
      BY <2>2, PathSuccessor, Zenon
    <3>2. a \in s.bodies
      BY <3>1, <1>1, Zenon DEF collectBranch
    <3> QED BY <3>2, <1>2, Zenon DEF StoreOK
  <2> QED BY <2>1, <2>2, Zenon
<1>6. ASSUME NEW a \in Path(p, b)
      PROVE  a \notin Ancestors[store.latest] /\ Prev[a] \in store.bodies
  <2>1. a \in Blocks \ {Genesis} /\ Height[a] \in Nat /\ Height[a] <= Height[b] /\ Height[b] \in Nat
    BY PathFacts, AncestorFacts DEF Path
  <2>2. ~isCanonical(s, a) /\ Prev[a] \in s.bodies
    BY <1>1, Zenon DEF collectBranch
  <2>3. ~isCanonical(store, a)
    BY <2>2, <1>2, Zenon DEF isCanonical
  <2>4. a \notin Ancestors[store.latest]
    BY <2>1, <2>3, CanonicalFacts, Zenon DEF ChainInv
  <2>5. Prev[a] # b
    BY <2>1, TreeShape, TreeFacts
  <2> QED BY <2>2, <2>4, <2>5, <1>2, Zenon
<1>7. /\ ChainInv' /\ store'.latest = b /\ Path(p, b) \subseteq Valid
      /\ store'.bodies = PrunedBodies(t.bodies \cup Path(p, b), b)
  BY <1>1, <1>2, <1>4, <1>5, SwitchKeeps, ZenonT(40)
<1>8. t.bodies \cup Path(p, b) = store.bodies \cup {b}
  BY <1>2, <1>5, Zenon
<1> QED BY <1>1, <1>3, <1>4, <1>6, <1>7, <1>8, ZenonT(30)

(* A fetched segment forks off the canonical chain and is checked.     *)
LEMMA SegmentFacts ==
    ASSUME ChainInv, NEW n \in Blocks, NEW p \in Blocks, SegmentOK(p, n)
    PROVE  /\ p \in Ancestors[n]
           /\ p \in Ancestors[store.latest]
           /\ \A a \in Path(p, n) : Checked(a)
<1>1. p \in Ancestors[n] /\ isCanonical(store, p)
  BY Zenon DEF SegmentOK
<1>2. p \in Ancestors[store.latest]
  BY <1>1, CanonicalFacts, Zenon DEF ChainInv
<1>3. Path(p, n) \subseteq Blocks
  BY <1>1, PathFacts, Zenon
<1> QED BY <1>1, <1>2, <1>3, CheckedFacts, Zenon DEF SegmentOK, checkBranchBlock

(* ... a converge switch ... *)
LEMMA ConvergeToKeeps ==
    ASSUME ChainInv, NEW n \in Blocks, NEW p \in Blocks, ConvergeTo(p, n)
    PROVE  /\ ChainInv'
           /\ store'.latest = n
           /\ store'.bodies = PrunedBodies(store.bodies \cup Path(p, n), n)
           /\ Better(n, store.latest)
           /\ p \in Ancestors[n] /\ p \in Ancestors[store.latest]
           /\ Path(p, n) \subseteq Valid
<1> DEFINE w == MemoWork(store, p)
           t == MemoWork(w, store.latest)
<1>1. /\ SegmentOK(p, n) /\ WalkConnected(store, p) /\ WalkConnected(w, store.latest)
      /\ Heavier(cumulativeWork(store, p) + (CumWork[n] - CumWork[p]), n,
                 cumulativeWork(w, store.latest), store.latest)
      /\ switchToBranchTxn(t, p, n)
  BY Zenon DEF ConvergeTo
<1>2. StoreOK(store) /\ store.latest \in Blocks
  BY ChainInvFacts, Zenon DEF ChainInv
<1>3. StoreOK(w) /\ w.bodies = store.bodies /\ w.latest = store.latest
  BY <1>1, <1>2, MemoWorkKeeps, Zenon
<1> HIDE DEF w
<1>4. StoreOK(t) /\ t.bodies = store.bodies /\ t.latest = store.latest
  BY <1>1, <1>2, <1>3, MemoWorkKeeps, Zenon
<1>5. /\ cumulativeWork(store, p) = CumWork[p]
      /\ cumulativeWork(w, store.latest) = CumWork[store.latest]
  BY <1>1, <1>2, <1>3, cumulativeWorkFacts, Zenon
<1> HIDE DEF t
<1>6. CumWork[p] + (CumWork[n] - CumWork[p]) = CumWork[n]
  BY TreeFacts
<1>7. Better(n, store.latest)
  BY <1>1, <1>2, <1>5, <1>6, HeavierIsBetter, Zenon
<1>8. /\ p \in Ancestors[n] /\ p \in Ancestors[store.latest]
      /\ \A a \in Path(p, n) : Checked(a)
  BY <1>1, SegmentFacts, Zenon
<1>9. /\ ChainInv' /\ store'.latest = n /\ Path(p, n) \subseteq Valid
      /\ store'.bodies = PrunedBodies(t.bodies \cup Path(p, n), n)
  BY <1>1, <1>4, <1>8, SwitchKeeps, Zenon
<1> QED BY <1>4, <1>7, <1>8, <1>9, Zenon

(* ... a fetched snapshot ... *)
LEMMA ApplySnapshotKeeps ==
    ASSUME ChainInv, NEW n \in Blocks, NEW p \in Blocks, ApplySnapshot(p, n)
    PROVE  /\ ChainInv'
           /\ store'.latest = n
           /\ store'.bodies = store.bodies \cup Path(p, n)
           /\ p \in Ancestors[store.latest]
<1> DEFINE s == SwitchToBranch(store, p, n)
<1>1. /\ SegmentOK(p, n) /\ WalkConnected(s, n) /\ store' = MemoWork(s, n)
      /\ applied' = s.canon /\ changesets' = {} /\ snap' = PutSnapshot(n)
      /\ archive' = archive
  BY Zenon DEF ApplySnapshot
<1>2. /\ p \in Ancestors[n] /\ p \in Ancestors[store.latest]
      /\ \A a \in Path(p, n) : Checked(a)
  BY <1>1, SegmentFacts, Zenon
<1>3. /\ StoreOK(s) /\ s.canon = ChainIndex(n)
      /\ s.latest = n /\ s.bodies = store.bodies \cup Path(p, n)
  BY <1>2, SwitchToBranchKeeps, SwitchToBranchFields DEF ChainInv
<1> HIDE DEF s
<1>4. /\ StoreOK(store') /\ store'.canon = s.canon
      /\ store'.latest = s.latest /\ store'.bodies = s.bodies
  BY <1>1, <1>3, MemoWorkKeeps, Zenon
<1>5. store' \in Store /\ ChainIndex(n) \in [Heights -> Blocks \cup {NoBlock}]
  BY <1>4, ChainIndexFacts, Zenon DEF StoreOK
<1>6. PutSnapshot(n) \in [Heights -> Blocks \cup {NoBlock}]
  BY ChainInvFacts, Zenon DEF PutSnapshot
<1>7. TypeOK'
  BY <1>1, <1>3, <1>5, <1>6, ChainInvFacts, Zenon DEF TypeOK
<1>8. Covered'
  BY <1>1, Zenon DEF Covered
<1>9. ChainInv'
  BY <1>1, <1>4, <1>7, <1>8, Zenon DEF ChainInv, StateFollowsChain
<1> QED BY <1>2, <1>3, <1>4, <1>9, Zenon

(* ... and a restart in the same mode. *)
LEMMA RestartKeeps ==
    ASSUME ChainInv, Restart(archive)
    PROVE  ChainInv' /\ store' = store
<1>1. archive' = archive /\ store' = store /\ snap' = snap
  BY Zenon DEF Restart
<1>2. CASE archive /\ Height[store.latest] > 0 /\ 1 \notin changesets
  <2>1. applied' = store.canon /\ changesets' = 0 .. Height[store.latest]
    BY <1>2, Zenon DEF Restart
  <2>2. changesets' \subseteq Heights
    BY <2>1, ChainInvFacts, TreeFacts DEF Heights
  <2>3. TypeOK'
    BY <1>1, <2>1, <2>2, StoreFacts, Zenon DEF ChainInv, TypeOK
  <2>4. Covered'
    BY <1>1, <1>2, <2>1, ChainInvFacts DEF Covered
  <2> QED BY <1>1, <2>1, <2>3, <2>4, Zenon DEF ChainInv, StateFollowsChain
<1>3. CASE ~(archive /\ Height[store.latest] > 0 /\ 1 \notin changesets)
  <2>1. applied' = applied /\ changesets' = changesets
    BY <1>3, Zenon DEF Restart
  <2> QED BY <1>1, <2>1, Zenon DEF ChainInv, TypeOK, StateFollowsChain, Covered
<1> QED BY <1>1, <1>2, <1>3, Zenon

-----------------------------------------------------------------------------
(* The invariant is inductive. *)
LEMMA NextKeeps == ChainInv /\ [NextSnapshot]_vars => ChainInv'
<1> SUFFICES ASSUME ChainInv, [NextSnapshot]_vars PROVE ChainInv'
  BY Zenon
<1>1. ASSUME NEW b \in Blocks \ {Genesis}, ExtendTip(b) PROVE ChainInv'
  BY <1>1, ExtendTipKeeps, Zenon
<1>2. ASSUME NEW b \in Blocks \ {Genesis}, StoreSide(b) PROVE ChainInv'
  BY <1>2, StoreSideKeeps, Zenon
<1>3. ASSUME NEW b \in Blocks \ {Genesis}, NEW p \in Ancestors[b], Reorg(p, b) PROVE ChainInv'
  BY <1>3, ReorgKeeps, Zenon
<1>4. ASSUME NEW p \in Blocks, NEW n \in Blocks, ConvergeTo(p, n) PROVE ChainInv'
  BY <1>4, ConvergeToKeeps, Zenon
<1>5. ASSUME NEW p \in Blocks, NEW n \in Blocks, ApplySnapshot(p, n) PROVE ChainInv'
  BY <1>5, ApplySnapshotKeeps, Zenon
<1>6. ASSUME Restart(archive) PROVE ChainInv'
  BY <1>6, RestartKeeps, Zenon
<1>7. ASSUME UNCHANGED vars PROVE ChainInv'
  BY <1>7, Zenon DEF vars, ChainInv, TypeOK, StateFollowsChain, Covered
<1> QED BY <1>1, <1>2, <1>3, <1>4, <1>5, <1>6, <1>7, Zenon DEF NextSnapshot, Next, ApplyBlock

(* Every reachable state of a node that may also apply snapshots satisfies *)
(* the inductive invariant.                                                *)
THEOREM ChainInvariant == SpecSnapshot => []ChainInv
BY InitInv, NextKeeps, PTL DEF SpecSnapshot

(* Block import keeps every variable in its type. *)
THEOREM TypeCorrect == SpecSnapshot => []TypeOK
<1>1. ChainInv => TypeOK
  BY Zenon DEF ChainInv
<1> QED BY <1>1, ChainInvariant, PTL

(* The height index names exactly the chain of the latest block and the    *)
(* side marks are exact, through extensions, reorgs, converge switches,    *)
(* snapshots and restarts.                                                 *)
THEOREM IndexCorrect == SpecSnapshot => [](IndexIsTipsChain /\ SideMarksExact)
<1>1. ChainInv => IndexIsTipsChain /\ SideMarksExact
  BY Zenon DEF ChainInv, StoreOK, IndexIsTipsChain, SideMarksExact
<1> QED BY <1>1, ChainInvariant, PTL

(* The state is that of the canonical chain, through extensions, reorgs by *)
(* unwind or by replay, converge switches, snapshots and restarts.         *)
THEOREM StateCorrect == SpecSnapshot => []StateFollowsChain
<1>1. ChainInv => StateFollowsChain
  BY Zenon DEF ChainInv
<1> QED BY <1>1, ChainInvariant, PTL

(* The tx index names the canonical block of every transaction of the      *)
(* chain and of no other, through every reorg that replaces one block that *)
(* holds a transaction by another.                                         *)
THEOREM TxIndexCorrect == SpecSnapshot => []TxIndexExact
<1>1. ChainInv => TxIndexExact
  BY Zenon DEF ChainInv, StoreOK, TxsIndexed, TxIndexExact
<1> QED BY <1>1, ChainInvariant, PTL

(* Memoised works are true works, whatever was pruned, re-imported or      *)
(* fetched, and the tip's work can always be computed.                     *)
THEOREM WorkCorrect == SpecSnapshot => []WorkMemoExact
<1>1. ChainInv => WorkMemoExact
  <2> SUFFICES ASSUME ChainInv PROVE WorkMemoExact
    BY Zenon
  <2>1. StoreOK(store)
    BY Zenon DEF ChainInv
  <2> QED BY <2>1, TipWalkConnected, Zenon DEF StoreOK, WorkMemoExact
<1> QED BY <1>1, ChainInvariant, PTL

(* As long as the mode does not change, the one height changesetCovers     *)
(* looks at decides for all: an unwind is exact whenever it is attempted.  *)
THEOREM UnwindCorrect == SpecSnapshot => []UnwindExact
BY UnwindIsExact, ChainInvariant, PTL
-----------------------------------------------------------------------------
(* An uncle sits strictly below the block that names it, inside the window *)
(* that block checks, so the chain cannot name it twice.                   *)
LEMMA UnclesAreOnce == ChainInv => UnclesPaidOnce
<1> SUFFICES ASSUME ChainInv, NEW a \in Ancestors[store.latest], NEW u \in Uncles[a]
             PROVE  /\ u \notin Ancestors[store.latest]
                    /\ \A c \in Ancestors[store.latest] : u \in Uncles[c] => c = a
  BY Zenon DEF UnclesPaidOnce
<1> DEFINE l == store.latest
           chain == Ancestors[l]
<1>1. l \in Blocks /\ UncleMaxDepth \in Nat
  BY ChainInvFacts, TreeTypes, Zenon
<1>2. ASSUME NEW c \in chain, NEW x \in Uncles[c]
      PROVE  /\ c \in Blocks \ {Genesis} /\ x \in Blocks
             /\ Height[c] \in Nat /\ Height[x] \in Nat
             /\ Height[x] < Height[c] /\ UncleFloor(Height[c]) <= Height[x]
             /\ \A y \in chain : Height[y] < Height[c] /\ Height[y] >= UncleFloor(Height[c])
                   => y # x /\ x \notin Uncles[y]
  <2>1. c \in Blocks /\ c \in store.bodies /\ c # Genesis
    BY <1>1, <1>2, TreeFacts, TreeTypes, ZenonT(30) DEF ChainInv, StoreOK
  <2>2. x \in Blocks /\ Height[x] \in Nat /\ Height[c] \in Nat
    BY <2>1, <1>2, TreeFacts, TreeTypes, Zenon
  <2>3. UncleFits(Prev[c], Height[c], x)
    BY <2>1, <1>2, Zenon DEF ChainInv, StoreOK, Checked, UnclesFit
  <2>4. Height[c] - Height[x] \in 1 .. UncleMaxDepth
    BY <2>3, Zenon DEF UncleFits
  <2>5. Height[x] < Height[c] /\ UncleFloor(Height[c]) <= Height[x]
    BY <2>2, <2>4, <1>1 DEF UncleFloor
  <2>6. ASSUME NEW y \in chain, Height[y] < Height[c], Height[y] >= UncleFloor(Height[c])
        PROVE  y # x /\ x \notin Uncles[y]
    <3>1. y \in Ancestors[c]
      <4>1. y \in Blocks /\ Height[y] \in Nat /\ Height[y] \in 0 .. Height[c]
        BY <2>2, <2>6, <1>1, TreeFacts
      <4>2. At(c, Height[y]) \in Ancestors[c] /\ At(l, Height[y]) = At(c, Height[y])
        BY <4>1, <2>1, <1>1, AtFacts, AtBelow
      <4>3. Height[y] \in 0 .. Height[l]
        BY <4>1, <1>1, AncestorFacts
      <4> QED BY <4>1, <4>2, <4>3, <1>1, AtFacts
    <3>2. y # c
      BY <2>6, <2>2
    <3>3. y \in Ancestors[Prev[c]]
      BY <3>1, <3>2, <2>1, ChainFacts
    <3>4. y \in UncleWindow(Prev[c], Height[c])
      BY <3>3, <2>6, Zenon DEF UncleWindow
    <3> QED BY <3>4, <2>3, Zenon DEF UncleFits
  <2> QED BY <2>1, <2>2, <2>5, <2>6, Zenon
<1>3. u \notin chain
  BY <1>2, Zenon
<1>4. ASSUME NEW c \in chain, u \in Uncles[c], c # a PROVE FALSE
  <2>1. /\ Height[a] \in Nat /\ Height[c] \in Nat /\ Height[u] \in Nat
        /\ Height[u] < Height[a] /\ UncleFloor(Height[a]) <= Height[u]
        /\ Height[u] < Height[c] /\ UncleFloor(Height[c]) <= Height[u]
        /\ UncleFloor(Height[a]) \in Int /\ UncleFloor(Height[c]) \in Int
    BY <1>1, <1>2, <1>4 DEF UncleFloor
  <2>2. Height[a] # Height[c]
    BY <1>1, <1>4, TreeAncestors
  <2>3. CASE Height[a] < Height[c]
    BY <2>1, <2>3, <1>2, <1>4
  <2>4. CASE Height[c] < Height[a]
    BY <2>1, <2>4, <1>2, <1>4
  <2> QED BY <2>1, <2>2, <2>3, <2>4
<1> QED BY <1>3, <1>4, Zenon

(* ApplyBlock does not check the slot of a block on the origin; a block of *)
(* height one that would fail the check can be stored, replaced, and then  *)
(* offered as an uncle.                                                    *)
FirstBlocksOnSlot == \A b \in Blocks \ {Genesis} : Prev[b] = Genesis => b \in OnSlot

(* What the two walks of CollectUncles leave - the side blocks, and the    *)
(* uncles of the chain - is what validateUncles looks at in its one walk.  *)
LEMMA CandidatesFit ==
    ASSUME FirstBlocksOnSlot, ChainInv
    PROVE  CollectedUnclesFit
<1> DEFINE l == store.latest
           next == Height[l] + 1
           low == IF next > UncleMaxDepth THEN next - UncleMaxDepth ELSE 1
           seen == UNION {Uncles[store.canon[h]] : h \in UncleFloor(next) + 1 .. Height[l]}
<1> SUFFICES ASSUME NEW u \in UncleCandidates(store)
             PROVE  /\ UncleFits(l, next, u)
                    /\ u \in OnSlot
                    /\ UncleWindow(l, next) \subseteq store.bodies
  BY Zenon DEF CollectedUnclesFit
<1>1. /\ u \in store.side /\ Height[u] \in low .. Height[l]
      /\ store.canon[Height[u] - 1] = Prev[u]
      /\ ~isCanonical(store, u) /\ u \notin seen
  BY Zenon DEF UncleCandidates
<1>2. /\ StoreOK(store) /\ l \in Blocks /\ Height[l] \in Nat
      /\ store.canon = ChainIndex(l)
      /\ u \in Blocks /\ u \in store.bodies /\ Height[u] \in Nat
  <2>1. StoreOK(store) /\ store \in Store /\ u \in store.side
    BY <1>1, Zenon DEF ChainInv, StoreOK
  <2>2. u \in store.bodies /\ u \in Blocks
    BY <2>1, StoreFacts, Zenon DEF StoreOK
  <2> QED BY <2>1, <2>2, ChainInvFacts, TreeFacts, Zenon
<1>3. /\ UncleMaxDepth \in Nat /\ low >= 1 /\ low \in Nat
      /\ UncleFloor(next) \in Nat
      /\ UncleFloor(next) < low /\ UncleFloor(next) <= Height[l]
      /\ next - Height[u] \in 1 .. UncleMaxDepth
  BY <1>1, <1>2, TreeTypes DEF UncleFloor
<1> HIDE DEF low, seen
<1>4. u # Genesis /\ Prev[u] \in Blocks /\ Height[Prev[u]] = Height[u] - 1
  <2>1. u # Genesis
    BY <1>1, <1>2, <1>3, TreeShape
  <2>2. Prev[u] \in Blocks /\ Height[u] = Height[Prev[u]] + 1 /\ Height[Prev[u]] \in Nat
    BY <2>1, <1>2, TreeShape, TreeFacts, Zenon
  <2> QED BY <2>1, <2>2
<1>5. u \in OnSlot
  BY <1>2, <1>4, Zenon DEF StoreOK, Checked, FirstBlocksOnSlot
<1>6. Prev[u] \in UncleWindow(l, next)
  <2>1. Prev[u] \in Ancestors[l]
    BY <1>1, <1>2, <1>4, ChainIndexFacts
  <2>2. Height[Prev[u]] >= UncleFloor(next)
    BY <1>1, <1>2, <1>3, <1>4
  <2> QED BY <2>1, <2>2, Zenon DEF UncleWindow
<1>7. u \notin UncleWindow(l, next)
  BY <1>1, <1>2, CanonicalFacts, Zenon DEF UncleWindow
<1>8. ASSUME NEW a \in UncleWindow(l, next), u \in Uncles[a] PROVE FALSE
  <2>1. a \in Ancestors[l] /\ Height[a] >= UncleFloor(next)
    BY Zenon DEF UncleWindow
  <2>2. a \in Blocks /\ Height[a] \in Nat /\ Height[a] <= Height[l] /\ a \in store.bodies
    BY <2>1, <1>2, AncestorFacts, Zenon DEF StoreOK
  <2>3. a # Genesis /\ UncleFits(Prev[a], Height[a], u)
    BY <2>2, <1>2, <1>8, TreeTypes, Zenon DEF StoreOK, Checked, UnclesFit
  <2>4. Height[u] < Height[a]
    BY <2>2, <2>3, <1>2, <1>3 DEF UncleFits
  <2>5. Height[a] \in UncleFloor(next) + 1 .. Height[l]
    BY <2>1, <2>2, <2>4, <1>1, <1>2, <1>3
  <2>6. store.canon[Height[a]] = a
    BY <2>1, <2>2, <1>2, ChainIndexFacts
  <2>7. u \in seen
    BY <2>5, <2>6, <1>8, Zenon DEF seen
  <2> QED BY <2>7, <1>1, Zenon
<1>9. UncleFits(l, next, u)
  BY <1>3, <1>4, <1>6, <1>7, <1>8, Zenon DEF UncleFits
<1>10. UncleWindow(l, next) \subseteq store.bodies
  BY <1>2, Zenon DEF UncleWindow, StoreOK
<1> QED BY <1>5, <1>9, <1>10, Zenon

(* CollectUncles offers a miner nothing that validateUncles would refuse   *)
(* in a block on the tip, if the first blocks are on their slot.           *)
THEOREM OffersCorrect == FirstBlocksOnSlot => (SpecSnapshot => []CollectedUnclesFit)
<1> SUFFICES ASSUME FirstBlocksOnSlot PROVE SpecSnapshot => []CollectedUnclesFit
  BY Zenon
<1>1. ChainInv => CollectedUnclesFit
  BY CandidatesFit, Zenon
<1> QED BY <1>1, ChainInvariant, PTL

(* An uncle is paid at most once on the canonical chain and is never on    *)
(* it, whatever was pruned, reorganised or fetched before.                 *)
THEOREM UnclesCorrect == SpecSnapshot => []UnclesPaidOnce
BY UnclesAreOnce, ChainInvariant, PTL

-----------------------------------------------------------------------------
(* What is built on the chain. *)

(* A node in the default sync mode is a node that applies no snapshot. *)
LEMMA SpecInvariant == Spec => []ChainInv
<1>1. ChainInv /\ [Next]_vars => ChainInv'
  BY NextKeeps, Zenon DEF NextSnapshot
<1> QED BY <1>1, InitInv, PTL DEF Spec

(* What a step of the default mode does to the tip and to the held blocks. *)
LEMMA TipStep ==
    ASSUME ChainInv, TipIsBest, [Next]_vars
    PROVE  /\ TipIsBest'
           /\ store'.latest = store.latest \/ Better(store'.latest, store.latest)
           /\ store'.bodies \in SUBSET Blocks
<1> DEFINE l == store.latest
<1>1. l \in Blocks /\ store.bodies \in SUBSET Blocks
  BY ChainInvFacts, StoreFacts, Zenon
<1>2. ChainInv'
  BY NextKeeps, Zenon DEF NextSnapshot
<1>3. store'.bodies \in SUBSET Blocks /\ store'.latest \in Blocks /\ store'.latest \in store'.bodies
  BY <1>2, StoreFacts, ChainFacts, Zenon DEF ChainInv, StoreOK
<1>4. ASSUME NEW n \in Blocks, Better(n, l), store'.latest = n,
             \A a \in store'.bodies : a \in store.bodies \/ a \in Ancestors[n]
      PROVE  TipIsBest'
  <2> SUFFICES ASSUME NEW a \in store'.bodies PROVE ~Better(a, n)
    BY <1>3, <1>4, Zenon DEF TipIsBest
  <2>1. CASE a \in store.bodies
    BY <2>1, <1>1, <1>4, BetterFacts DEF TipIsBest
  <2>2. CASE a \in Ancestors[n]
    BY <2>2, BetterFacts, Zenon
  <2> QED BY <2>1, <2>2, <1>4, Zenon
<1>5. ASSUME NEW b \in Blocks \ {Genesis}, ExtendTip(b)
      PROVE  TipIsBest' /\ Better(store'.latest, l)
  <2>1. Prev[b] = l /\ store'.latest = b /\ store'.bodies = PrunedBodies(store.bodies \cup {b}, b)
    BY <1>5, ExtendTipKeeps, ZenonT(30) DEF ExtendTip
  <2>2. Better(b, l) /\ b \in Ancestors[b]
    BY <2>1, BetterFacts, ChainFacts, Zenon
  <2>3. store'.bodies \subseteq store.bodies \cup {b}
    BY <2>1, PrunedSubset
  <2> QED BY <2>1, <2>2, <2>3, <1>4, Zenon
<1>6. ASSUME NEW b \in Blocks \ {Genesis}, StoreSide(b)
      PROVE  TipIsBest' /\ store'.latest = l
  BY <1>3, <1>6, StoreSideKeeps, Zenon DEF TipIsBest
<1>7. ASSUME NEW b \in Blocks \ {Genesis}, NEW p \in Ancestors[b], Reorg(p, b)
      PROVE  TipIsBest' /\ Better(store'.latest, l)
  <2>1. /\ store'.latest = b /\ Better(b, l)
        /\ store'.bodies = PrunedBodies(store.bodies \cup {b}, b)
    BY <1>7, ReorgKeeps, Zenon
  <2>2. \A a \in store'.bodies : a \in store.bodies \/ a \in Ancestors[b]
    BY <2>1, PrunedSubset, ChainFacts
  <2> QED BY <2>1, <2>2, <1>4, Zenon
<1>8. ASSUME NEW p \in Blocks, NEW n \in Blocks, ConvergeTo(p, n)
      PROVE  TipIsBest' /\ Better(store'.latest, l)
  <2>1. /\ store'.latest = n /\ Better(n, l)
        /\ store'.bodies = PrunedBodies(store.bodies \cup Path(p, n), n)
    BY <1>8, ConvergeToKeeps, Zenon
  <2>2. \A a \in store'.bodies : a \in store.bodies \/ a \in Ancestors[n]
    BY <2>1, PrunedSubset DEF Path
  <2> QED BY <2>1, <2>2, <1>4, Zenon
<1>9. ASSUME Restart(archive) PROVE TipIsBest' /\ store'.latest = l
  BY <1>9, RestartKeeps, Zenon DEF TipIsBest
<1>10. ASSUME UNCHANGED vars PROVE TipIsBest' /\ store'.latest = l
  BY <1>10, Zenon DEF TipIsBest, vars
<1> QED BY <1>3, <1>5, <1>6, <1>7, <1>8, <1>9, <1>10 DEF Next, ApplyBlock

(* Genesis is the best of the one block a new node holds. *)
LEMMA InitBest == Init => TipIsBest
BY TreeFacts, BetterFacts DEF Init, TipIsBest, GenesisStore

(* Fork choice: in the default sync mode no block a node holds is better   *)
(* than its tip, through any sequence of imports, refused reorgs, prunes,  *)
(* converge switches and restarts.                                         *)
THEOREM ForkChoiceCorrect == Spec => []TipIsBest
<1>1. ChainInv /\ TipIsBest /\ [Next]_vars => TipIsBest'
  BY TipStep, Zenon
<1> QED BY <1>1, InitBest, SpecInvariant, PTL DEF Spec

(* Block import implements the abstract fork choice. *)
THEOREM Refinement == Spec => ImplementsForkChoice
<1>1. Init => FC!Init
  BY DEF Init, GenesisStore, FC!Init
<1>2. ChainInv /\ TipIsBest /\ [Next]_vars => [FC!Next]_<<store.bodies, store.latest>>
  <2> SUFFICES ASSUME ChainInv, TipIsBest, [Next]_vars PROVE FC!Next
    BY Zenon
  <2> QED BY TipStep, Zenon DEF FC!Next, FC!BestOf, TipIsBest
<1> QED BY <1>1, <1>2, SpecInvariant, ForkChoiceCorrect, PTL DEF Spec, ImplementsForkChoice, FC!Spec
-----------------------------------------------------------------------------
(* ApplyBlock never rewrites the chain at or below the finality line, and  *)
(* never moves that line down.                                             *)
LEMMA FinalityStep ==
    ASSUME ChainInv, [Next]_vars
    PROVE  \/ /\ \A h \in 0 .. FinalityLine : store'.canon[h] = store.canon[h]
              /\ FinalityLine' >= FinalityLine
           \/ \E p, n \in Blocks : ConvergeTo(p, n)
<1> DEFINE l == store.latest
           line == finalityHeight(Height[l])
           Kept == /\ \A h \in 0 .. line : store'.canon[h] = store.canon[h]
                   /\ finalityHeight(Height[store'.latest]) >= line
<1>1. l \in Blocks /\ Height[l] \in Nat /\ store.canon = ChainIndex(l)
  BY ChainInvFacts, Zenon
<1>2. line \in Nat /\ line <= Height[l]
  BY <1>1, FinalityFacts, Zenon
<1>3. store'.latest = l /\ store'.canon = store.canon => Kept
  BY <1>2
<1>4. ASSUME NEW b \in Blocks \ {Genesis}, ExtendTip(b) PROVE Kept
  <2>1. /\ Prev[b] = l /\ store'.latest = b
        /\ store'.canon = [store.canon EXCEPT ![Height[b]] = b]
    BY <1>4, ExtendTipKeeps, ZenonT(30) DEF ExtendTip
  <2>2. Height[b] = Height[l] + 1 /\ Height[b] \in Nat
    BY <2>1, TreeShape, TreeFacts, Zenon
  <2>3. ASSUME NEW h \in 0 .. line PROVE store'.canon[h] = store.canon[h]
    <3>1. h # Height[b] /\ h \in Heights
      BY <2>2, <2>3, <1>1, <1>2, ChainInvFacts, TreeFacts DEF Heights
    <3>2. store.canon \in [Heights -> Blocks \cup {NoBlock}]
      BY ChainInvFacts, StoreFacts, Zenon
    <3> QED BY <3>1, <3>2, <2>1, Zenon
  <2>4. Height[l] <= Height[b]
    BY <2>2, <1>1
  <2>5. finalityHeight(Height[b]) \in Nat /\ line <= finalityHeight(Height[b])
    BY <2>2, <2>4, <1>1, FinalityFacts
  <2> QED BY <2>1, <2>3, <2>5, <1>2
<1>5. ASSUME NEW b \in Blocks \ {Genesis}, StoreSide(b) PROVE Kept
  BY <1>3, <1>5, StoreSideKeeps, Zenon
<1>6. ASSUME NEW b \in Blocks \ {Genesis}, NEW p \in Ancestors[b], Reorg(p, b) PROVE Kept
  <2>1. /\ ChainInv' /\ store'.latest = b /\ p \in Ancestors[l] /\ ~BeyondFinality(p)
        /\ Better(b, l)
    BY <1>6, ReorgKeeps, Zenon
  <2>2. store'.canon = ChainIndex(b)
    BY <2>1, ZenonT(30) DEF ChainInv, StoreOK
  <2>3. /\ p \in Blocks /\ Height[p] \in Nat /\ Height[b] \in Nat
        /\ Height[p] <= Height[b] /\ Height[p] <= Height[l] /\ line <= Height[p]
    BY <2>1, <1>1, <1>2, AncestorFacts DEF BeyondFinality
  <2>4. ASSUME NEW h \in 0 .. line PROVE store'.canon[h] = store.canon[h]
    <3>1. h \in 0 .. Height[p] /\ h \in 0 .. Height[b] /\ h \in 0 .. Height[l]
      BY <2>3, <2>4, <1>1, <1>2
    <3>2. At(b, h) = At(p, h) /\ At(l, h) = At(p, h)
      BY <3>1, <2>1, <1>1, AtBelow
    <3> QED BY <3>1, <3>2, <2>2, <1>1, ChainIndexFacts
  <2>5. line < Height[b]
    <3>1. CASE b = p
      BY <3>1, <2>1, <1>1, BetterFacts, Zenon
    <3>2. CASE b # p
      <4>1. Height[p] # Height[b]
        BY <3>2, TreeAncestors, ChainFacts, Zenon
      <4> QED BY <4>1, <2>3, <1>2
    <3> QED BY <3>1, <3>2, Zenon
  <2>6. finalityHeight(Height[b]) \in Nat /\ line <= finalityHeight(Height[b])
    BY <2>3, <2>5, <1>1, FinalityFacts
  <2> QED BY <2>1, <2>4, <2>6, <1>2
<1>7. ASSUME Restart(archive) PROVE Kept
  BY <1>3, <1>7, RestartKeeps, Zenon
<1>8. ASSUME UNCHANGED vars PROVE Kept
  BY <1>3, <1>8, Zenon DEF vars
<1>9. Kept \/ \E p, n \in Blocks : ConvergeTo(p, n)
  BY <1>4, <1>5, <1>6, <1>7, <1>8, Zenon DEF Next, ApplyBlock
<1> QED BY <1>9, Zenon DEF FinalityLine

(* No step of the default mode but a converge switch rewrites a height at  *)
(* or below the finality line, for every check round.                      *)
THEOREM FinalityCorrect == Spec => FinalityKept
<1>1. ChainInv /\ [Next]_vars =>
        [\/ /\ \A h \in 0 .. FinalityLine : store'.canon[h] = store.canon[h]
            /\ FinalityLine' >= FinalityLine
         \/ \E p, n \in Blocks : ConvergeTo(p, n)]_vars
  BY FinalityStep, Zenon
<1> QED BY <1>1, SpecInvariant, PTL DEF Spec, FinalityKept

-----------------------------------------------------------------------------
(* The log feed, and the chain as its users see it. *)

(* With a subscriber attached the chain takes the steps it takes alone. *)
LEMMA FeedSteps == [FeedNext]_feedVars => [Next]_vars
BY Zenon DEF FeedNext, feedVars, Next, ApplyBlock

(* So the invariant of the chain holds there, too. *)
LEMMA FeedChainInv == FeedSpec => []ChainInv
<1>1. FeedInit => ChainInv
  BY InitInv, Zenon DEF FeedInit
<1>2. ChainInv /\ [FeedNext]_feedVars => ChainInv'
  BY FeedSteps, NextKeeps, Zenon DEF NextSnapshot
<1> QED BY <1>1, <1>2, PTL DEF FeedSpec

(* What a switch announces: a block of both branches is removed and added  *)
(* again, and the tip comes once.                                          *)
LEMMA SwitchFeed ==
    ASSUME ChainInv, FeedFollowsChain, NEW n \in Blocks, NEW p \in Ancestors[n],
           p \in Ancestors[store.latest], Better(n, store.latest),
           NotifySwitch(p, n), ChainInv', store'.latest = n
    PROVE  FeedFollowsChain'
<1> DEFINE l == store.latest
<1>1. StoreOK(store) /\ StoreOK(store') /\ l \in Blocks
  BY ChainInvFacts, Zenon DEF ChainInv
<1>2. CanonAbove(store, p) = Path(p, l)
  BY <1>1, CanonAboveFacts, Zenon
<1>3. /\ Ancestors[n] = Path(p, n) \cup Ancestors[p]
      /\ Ancestors[l] = Path(p, l) \cup Ancestors[p]
  BY <1>1, PathFacts, Zenon
<1>4. n \in Path(p, n)
  BY <1>1, <1>3, ChainFacts, BetterFacts
<1>5. ASSUME NEW c \in Blocks \ {Genesis}
      PROVE  feed'[c] = IF isCanonical(store', c) THEN 1 ELSE 0
  <2>1. feed[c] = IF c \in Ancestors[l] THEN 1 ELSE 0
    BY <1>1, CanonicalFacts, Zenon DEF FeedFollowsChain
  <2>2. isCanonical(store', c) <=> c \in Ancestors[n]
    BY <1>1, CanonicalFacts, Zenon
  <2>3. feed'[c] =
          LET kept == IF c \in Path(p, l) /\ feed[c] > 0 THEN feed[c] - 1 ELSE feed[c]
              sent == kept + (IF c \in Path(p, n) \ {n} THEN 1 ELSE 0) + (IF c = n THEN 1 ELSE 0)
          IN  IF sent > 2 THEN 2 ELSE sent
    BY <1>2, Zenon DEF NotifySwitch, Deliver, FeedCap
  <2>4. CASE c \in Path(p, n)
    <3>1. c \notin Ancestors[p] /\ c \in Ancestors[n]
      BY <2>4, Zenon DEF Path
    <3> QED BY <3>1, <2>1, <2>2, <2>3, <2>4, <1>3
  <2>5. CASE c \in Ancestors[p]
    <3>1. c \notin Path(p, l) /\ c \notin Path(p, n) /\ c # n
      BY <2>5, <1>4, Zenon DEF Path
    <3> QED BY <3>1, <2>1, <2>2, <2>3, <2>5, <1>3
  <2>6. CASE c \notin Path(p, n) /\ c \notin Ancestors[p]
    BY ONLY <2>1, <2>2, <2>3, <2>6, <1>3, <1>4
  <2> QED BY <2>4, <2>5, <2>6, Zenon
<1> QED BY <1>5, Zenon DEF FeedFollowsChain

(* A block on the tip is announced once, and was not held before. *)
LEMMA ExtendFeed ==
    ASSUME ChainInv, FeedFollowsChain, NEW b \in Blocks \ {Genesis}, ExtendTip(b), NotifyTip(b)
    PROVE  FeedFollowsChain'
<1> DEFINE l == store.latest
<1>1. ChainInv' /\ store'.latest = b /\ Prev[b] = l
  BY ExtendTipKeeps, Zenon DEF ExtendTip
<1>2. StoreOK(store) /\ StoreOK(store') /\ l \in Blocks
  BY <1>1, ChainInvFacts, Zenon DEF ChainInv
<1>3. Ancestors[b] = {b} \cup Ancestors[l] /\ b \notin Ancestors[l]
  BY <1>1, <1>2, ChainFacts, BetterFacts, Zenon
<1>4. ASSUME NEW c \in Blocks \ {Genesis}
      PROVE  feed'[c] = IF isCanonical(store', c) THEN 1 ELSE 0
  <2>1. feed[c] = IF c \in Ancestors[l] THEN 1 ELSE 0
    BY <1>2, CanonicalFacts, Zenon DEF FeedFollowsChain
  <2>2. isCanonical(store', c) <=> c \in Ancestors[b]
    BY <1>1, <1>2, CanonicalFacts, Zenon
  <2>3. feed'[c] = LET sent == feed[c] + 0 + (IF c = b THEN 1 ELSE 0)
                   IN  IF sent > 2 THEN 2 ELSE sent
    BY Zenon DEF NotifyTip, Deliver, FeedCap
  <2> QED BY <2>1, <2>2, <2>3, <1>3
<1> QED BY <1>4, Zenon DEF FeedFollowsChain

(* A log subscriber holds exactly one copy of the logs of every canonical  *)
(* block after any sequence of imports, reorgs and converge switches,      *)
(* those included that switch to a branch which contains canonical blocks. *)
THEOREM FeedCorrect == FeedSpec => []FeedFollowsChain
<1>1. FeedInit => FeedFollowsChain
  <2> SUFFICES ASSUME FeedInit, NEW b \in Blocks \ {Genesis}
               PROVE  feed[b] = IF isCanonical(store, b) THEN 1 ELSE 0
    BY Zenon DEF FeedFollowsChain
  <2>1. StoreOK(store) /\ store.latest = Genesis /\ feed[b] = 0
    BY InitInv, Zenon DEF FeedInit, Init, GenesisStore, ChainInv
  <2>2. ~isCanonical(store, b)
    BY <2>1, CanonicalFacts, TreeAncestors, Zenon
  <2> QED BY <2>1, <2>2, Zenon
<1>2. ChainInv /\ FeedFollowsChain /\ [FeedNext]_feedVars => FeedFollowsChain'
  <2> SUFFICES ASSUME ChainInv, FeedFollowsChain, [FeedNext]_feedVars PROVE FeedFollowsChain'
    BY Zenon
  <2>1. ASSUME NEW b \in Blocks \ {Genesis}, ExtendTip(b), NotifyTip(b) PROVE FeedFollowsChain'
    BY <2>1, ExtendFeed, Zenon
  <2>2. ASSUME NEW b \in Blocks \ {Genesis}, StoreSide(b), UNCHANGED feed PROVE FeedFollowsChain'
    BY <2>2, StoreSideKeeps, Zenon DEF FeedFollowsChain, isCanonical
  <2>3. ASSUME NEW b \in Blocks \ {Genesis}, NEW p \in Ancestors[b], Reorg(p, b), NotifySwitch(p, b)
        PROVE  FeedFollowsChain'
    BY <2>3, ReorgKeeps, SwitchFeed, Zenon
  <2>4. ASSUME NEW p \in Blocks, NEW n \in Blocks, ConvergeTo(p, n), NotifySwitch(p, n)
        PROVE  FeedFollowsChain'
    BY <2>4, ConvergeToKeeps, SwitchFeed, Zenon
  <2>5. ASSUME Restart(archive),
               feed' = [b \in Blocks |-> IF b # Genesis /\ isCanonical(store, b) THEN 1 ELSE 0]
        PROVE  FeedFollowsChain'
    BY <2>5, Zenon DEF Restart, FeedFollowsChain
  <2>6. ASSUME UNCHANGED feedVars PROVE FeedFollowsChain'
    BY <2>6, Zenon DEF feedVars, vars, FeedFollowsChain
  <2> QED BY <2>1, <2>2, <2>3, <2>4, <2>5, <2>6 DEF FeedNext
<1> QED BY <1>1, <1>2, FeedChainInv, PTL DEF FeedSpec

-----------------------------------------------------------------------------
(* Pruning at a checkpoint in the view. *)
LEMMA ViewPruned ==
    ASSUME NEW bodies, NEW n
    PROVE  Pruned([bodies |-> bodies, tip |-> n]) = [bodies |-> PrunedBodies(bodies, n), tip |-> n]
BY Zenon DEF Pruned, PrunedBodies

(* What SwitchToBranch checks of a segment. *)
LEMMA ViewAttaches ==
    ASSUME NEW bodies, NEW tip, NEW p, NEW n
    PROVE  Attaches([bodies |-> bodies, tip |-> tip], p, n) <=>
             /\ p \in Ancestors[n] \ {n}
             /\ p \in Ancestors[tip]
             /\ \A b \in Path(p, n) : b \in OnTarget /\ validateUncles(bodies \cup Path(p, n), b)
BY Zenon DEF Attaches, BlockFits

(* The block at which collectBranch stops is the highest one the branch    *)
(* shares with the chain.                                                  *)
LEMMA ForkPointFacts ==
    ASSUME NEW b \in Blocks, NEW l \in Blocks, NEW p \in Ancestors[b], p \in Ancestors[l],
           \A a \in Path(p, b) : a \notin Ancestors[l], NEW bodies
    PROVE  ForkPoint([bodies |-> bodies, tip |-> l], b) = p
<1> DEFINE both == Ancestors[b] \cap Ancestors[l]
           q == CHOOSE a \in both : \A c \in both : Height[c] <= Height[a]
<1>1. p \in both /\ p \in Blocks /\ Height[p] \in Nat
  BY AncestorFacts, Zenon
<1>2. ASSUME NEW c \in both PROVE Height[c] <= Height[p] /\ Height[c] \in Nat
  <2>1. c \in Ancestors[p]
    BY Zenon DEF Path
  <2> QED BY <2>1, <1>1, AncestorFacts, Zenon
<1>3. q \in both /\ \A c \in both : Height[c] <= Height[q]
  BY <1>1, <1>2, Zenon
<1> HIDE DEF q
<1>4. Height[q] = Height[p]
  BY <1>1, <1>2, <1>3
<1>5. q = p
  BY <1>1, <1>3, <1>4, TreeAncestors, Zenon
<1> QED BY <1>5, Zenon DEF ForkPoint, q

(* A step of the chain is a step of the view, or changes neither the       *)
(* stored blocks nor the tip.                                              *)
LEMMA ViewStep ==
    ASSUME ChainInv, [Next]_vars
    PROVE  [CV!Next]_[bodies |-> store.bodies, tip |-> store.latest]
<1> DEFINE c == [bodies |-> store.bodies, tip |-> store.latest]
<1>1. ASSUME NEW b \in Blocks \ {Genesis}, ExtendTip(b)
      PROVE  CanApply(c, b) /\ c' = Applied(c, b)
  <2>1. /\ Prev[b] = store.latest /\ b \in Valid
        /\ Prev[b] # Genesis => b \in OnTarget
        /\ validateUncles(store.bodies, b)
    BY <1>1, Zenon DEF ExtendTip, checkBlockTxn
  <2>2. CanApply(c, b)
    BY <2>1, Zenon DEF CanApply, ExtendsTip
  <2>3. c' = [bodies |-> PrunedBodies(store.bodies \cup {b}, b), tip |-> b]
    BY <1>1, ExtendTipKeeps, Zenon
  <2>4. Applied(c, b) = Pruned([bodies |-> store.bodies \cup {b}, tip |-> b])
    BY <2>1, Zenon DEF Applied
  <2> QED BY <2>2, <2>3, <2>4, ViewPruned, Zenon
<1>2. ASSUME NEW b \in Blocks \ {Genesis}, StoreSide(b)
      PROVE  CanApply(c, b) /\ c' = Applied(c, b)
  <2>1. /\ Prev[b] # store.latest /\ Prev[b] \in store.bodies
        /\ b \in OnTarget /\ validateUncles(store.bodies, b)
    BY <1>2, Zenon DEF StoreSide, SidePath, checkBranchBlock
  <2>2. /\ ~Better(b, store.latest)
        /\ store'.latest = store.latest /\ store'.bodies = store.bodies \cup {b}
    BY <1>2, StoreSideKeeps, Zenon
  <2>3. CanApply(c, b)
    BY <2>1, <2>2, Zenon DEF CanApply, JoinsSide, BlockFits
  <2>4. Applied(c, b) = [bodies |-> store.bodies \cup {b}, tip |-> store.latest]
    BY <2>1, <2>2, Zenon DEF Applied
  <2> QED BY <2>2, <2>3, <2>4, Zenon
<1>3. ASSUME NEW b \in Blocks \ {Genesis}, NEW p \in Ancestors[b], Reorg(p, b)
      PROVE  CanApply(c, b) /\ c' = Applied(c, b)
  <2>1. /\ Prev[b] # store.latest /\ Prev[b] \in store.bodies
        /\ b \in OnTarget /\ validateUncles(store.bodies, b)
    BY <1>3, Zenon DEF Reorg, SidePath, checkBranchBlock
  <2>2. /\ store'.latest = b /\ store'.bodies = PrunedBodies(store.bodies \cup {b}, b)
        /\ Better(b, store.latest) /\ p \in Ancestors[store.latest] /\ ~BeyondFinality(p)
        /\ \A a \in Path(p, b) : /\ a \in Valid /\ a \notin Ancestors[store.latest]
                                /\ Prev[a] \in store.bodies
    BY <1>3, ReorgKeeps, Zenon
  <2>3. ForkPoint(c, b) = p
    BY <2>2, ForkPointFacts, ChainInvFacts, ZenonT(40)
  <2>4. Height[p] >= finalityHeight(Height[store.latest])
    <3>1. Height[p] \in Nat /\ finalityHeight(Height[store.latest]) \in Nat
      BY AncestorFacts, FinalityFacts, ChainInvFacts, Zenon
    <3> QED BY <3>1, <2>2 DEF BeyondFinality
  <2>5. JoinsSide(c, b)
    BY <2>1, <2>2, <2>3, <2>4, Zenon DEF JoinsSide, BlockFits
  <2>6. Applied(c, b) = Pruned([bodies |-> store.bodies \cup {b}, tip |-> b])
    BY <2>2, Zenon DEF Applied
  <2>7. c' = [bodies |-> PrunedBodies(store.bodies \cup {b}, b), tip |-> b]
    BY <2>2, Zenon
  <2> QED BY <2>5, <2>6, <2>7, ViewPruned, Zenon DEF CanApply
<1>4. ASSUME NEW p \in Blocks, NEW n \in Blocks, ConvergeTo(p, n)
      PROVE  CanSwitch(c, p, n) /\ c' = Switched(c, p, n)
  <2>1. /\ p \in Ancestors[n] \ {n}
        /\ \A b \in Path(p, n) : /\ b \in OnTarget
                                /\ validateUncles(store.bodies \cup Path(p, n), b)
    BY <1>4, Zenon DEF ConvergeTo, SegmentOK, checkBranchBlock
  <2>2. /\ store'.latest = n
        /\ store'.bodies = PrunedBodies(store.bodies \cup Path(p, n), n)
        /\ Better(n, store.latest) /\ p \in Ancestors[store.latest]
        /\ Path(p, n) \subseteq Valid
    BY <1>4, ConvergeToKeeps, Zenon
  <2>3. Attaches(c, p, n)
    BY <2>1, <2>2, ViewAttaches, Zenon
  <2>4. CanSwitch(c, p, n)
    BY <2>2, <2>3, Zenon DEF CanSwitch
  <2>5. Switched(c, p, n) = Pruned([bodies |-> store.bodies \cup Path(p, n), tip |-> n])
    BY Zenon DEF Switched, Extended
  <2>6. c' = [bodies |-> PrunedBodies(store.bodies \cup Path(p, n), n), tip |-> n]
    BY <2>2, Zenon
  <2> QED BY <2>4, <2>5, <2>6, ViewPruned, Zenon
<1>5. ASSUME Restart(archive) PROVE c' = c
  BY <1>5, RestartKeeps, Zenon
<1>6. ASSUME UNCHANGED vars PROVE c' = c
  BY <1>6, Zenon DEF vars
<1> QED BY <1>1, <1>2, <1>3, <1>4, <1>5, <1>6, Zenon DEF Next, ApplyBlock, CV!Next

(* Block import implements the chain as its users see it: what it accepts, *)
(* and what the stored blocks and the tip become, follows from the stored  *)
(* blocks and the tip alone, so that Sync and Light, which are built over  *)
(* the view, are about the chain.                                          *)
THEOREM ViewRefinement == FeedSpec => ImplementsChainView
<1>1. FeedInit => CV!Init
  BY DEF FeedInit, Init, GenesisStore, CV!Init, GenesisView
<1>2. ChainInv /\ [FeedNext]_feedVars => [CV!Next]_[bodies |-> store.bodies, tip |-> store.latest]
  BY FeedSteps, ViewStep, Zenon
<1> QED BY <1>1, <1>2, FeedChainInv, PTL DEF FeedSpec, ImplementsChainView, CV!Spec

(* A snapshot is a step of the view, too. *)
LEMMA ViewSnapshotStep ==
    ASSUME ChainInv, [NextSnapshot]_vars
    PROVE  [CV!NextSnapshot]_[bodies |-> store.bodies, tip |-> store.latest]
<1> DEFINE c == [bodies |-> store.bodies, tip |-> store.latest]
<1>1. ASSUME NEW p \in Blocks, NEW n \in Blocks, ApplySnapshot(p, n)
      PROVE  Attaches(c, p, n) /\ c' = Extended(c, p, n)
  <2>1. /\ p \in Ancestors[n] \ {n}
        /\ \A b \in Path(p, n) : /\ b \in OnTarget
                                /\ validateUncles(store.bodies \cup Path(p, n), b)
    BY <1>1, Zenon DEF ApplySnapshot, SegmentOK, checkBranchBlock
  <2>2. /\ store'.latest = n /\ store'.bodies = store.bodies \cup Path(p, n)
        /\ p \in Ancestors[store.latest]
    BY <1>1, ApplySnapshotKeeps, Zenon
  <2>3. Attaches(c, p, n)
    BY <2>1, <2>2, ViewAttaches, Zenon
  <2> QED BY <2>2, <2>3, Zenon DEF Extended
<1>2. [Next]_vars => [CV!Next]_c
  BY ViewStep, Zenon
<1> QED BY <1>1, <1>2, Zenon DEF NextSnapshot, CV!NextSnapshot

(* ... so a node that also applies fetched snapshots implements the view   *)
(* with snapshots, on which Sync and Light let such a node run.            *)
THEOREM SnapshotViewRefinement == SpecSnapshot => CV!SpecSnapshot
<1>1. Init => CV!Init
  BY DEF Init, GenesisStore, CV!Init, GenesisView
<1>2. ChainInv /\ [NextSnapshot]_vars =>
        [CV!NextSnapshot]_[bodies |-> store.bodies, tip |-> store.latest]
  BY ViewSnapshotStep, Zenon
<1> QED BY <1>1, <1>2, ChainInvariant, PTL DEF SpecSnapshot, CV!SpecSnapshot

-----------------------------------------------------------------------------
(* History: the receipts and the account index beside the chain. *)

(* The transactions of the chain that ends in b. *)
Held(b) == UNION {TxsOf[a] : a \in Ancestors[b]}

(* The height a transaction is locked to is that of any block with it. *)
LEMMA TxHeightFacts ==
    ASSUME NEW b \in Blocks, NEW t \in TxsOf[b]
    PROVE  t \in Txs /\ TxHeight(t) = Height[b] /\ TxHeight(t) \in Nat
<1> DEFINE c == CHOOSE a \in Blocks : t \in TxsOf[a]
<1>1. c \in Blocks /\ t \in TxsOf[c]
  BY Zenon
<1>2. Height[c] = Height[b]
  BY <1>1, TxsAreHeightLocked, Zenon
<1>3. TxHeight(t) = Height[c]
  BY Zenon DEF TxHeight
<1>4. t \in Txs
  BY TreeTypes, Zenon
<1> QED BY <1>2, <1>3, <1>4, TreeFacts, Zenon

(* A branch splits the transactions of its chain at the height of p. *)
LEMMA HeldSplit ==
    ASSUME NEW n \in Blocks, NEW p \in Ancestors[n]
    PROVE  /\ \A t : t \in Held(n) <=> t \in Held(p) \/ \E b \in Path(p, n) : t \in TxsOf[b]
           /\ \A t \in Held(p) : t \in Txs /\ TxHeight(t) \in 0 .. Height[p]
           /\ \A b \in Path(p, n) : \A t \in TxsOf[b] :
                 t \in Txs /\ TxHeight(t) \in Height[p] + 1 .. Height[n]
<1>1. p \in Blocks /\ Height[p] \in Nat /\ Height[n] \in Nat
  BY AncestorFacts, Zenon
<1>2. /\ Ancestors[n] = Path(p, n) \cup Ancestors[p]
      /\ Path(p, n) \subseteq Blocks
      /\ \A a \in Path(p, n) : Height[a] \in Height[p] + 1 .. Height[n]
  BY PathFacts, Zenon
<1>3. \A t : t \in Held(n) <=> t \in Held(p) \/ \E b \in Path(p, n) : t \in TxsOf[b]
  BY <1>2, Zenon DEF Held
<1>4. ASSUME NEW t \in Held(p) PROVE t \in Txs /\ TxHeight(t) \in 0 .. Height[p]
  <2>1. PICK a \in Ancestors[p] : t \in TxsOf[a]
    BY Zenon DEF Held
  <2>2. a \in Blocks /\ Height[a] \in Nat /\ Height[a] <= Height[p]
    BY <1>1, AncestorFacts, Zenon
  <2> QED BY <2>1, <2>2, <1>1, TxHeightFacts
<1>5. ASSUME NEW b \in Path(p, n), NEW t \in TxsOf[b]
      PROVE  t \in Txs /\ TxHeight(t) \in Height[p] + 1 .. Height[n]
  <2>1. b \in Blocks /\ Height[b] \in Height[p] + 1 .. Height[n]
    BY <1>2, Zenon
  <2> QED BY <2>1, TxHeightFacts, Zenon
<1> QED BY <1>3, <1>4, <1>5, Zenon

(* On the chain every transaction sits at a height up to the tip's. *)
LEMMA HeldFacts ==
    ASSUME NEW n \in Blocks
    PROVE  \A t \in Held(n) : t \in Txs /\ TxHeight(t) \in 0 .. Height[n]
BY ChainFacts, HeldSplit

-----------------------------------------------------------------------------
(* rec holds the runs of the chain that ends in b: one of every            *)
(* transaction at or above the floor, and none of another branch.          *)
RunsOf(rec, b, floor) ==
    \A t \in Txs :
        /\ rec[t] \in {0, 1}
        /\ rec[t] = 1 => t \in Held(b)
        /\ t \in Held(b) /\ TxHeight(t) >= floor => rec[t] = 1

(* f counts the subsets of S, as Cardinality does. *)
Counts(S, f) ==
    f = [T \in SUBSET S |-> IF T = {} THEN 0 ELSE 1 + f[T \ {CHOOSE x : x \in T}]]

(* How many an empty set has, and a set of one. *)
LEMMA CountIs ==
    ASSUME NEW S, NEW g, Counts(S, g)
    PROVE  \E f : Counts(S, f) /\ Cardinality(S) = f[S]
<1> DEFINE f == CHOOSE f : Counts(S, f)
<1>1. Counts(S, f)
  BY Zenon
<1>2. Cardinality(S) = f[S]
  BY Zenon DEF Cardinality, Counts
<1> QED BY <1>1, <1>2, Zenon

(* An empty set counts nothing. *)
LEMMA CountNone == Cardinality({}) = 0
<1>1. Counts({}, [T \in SUBSET {} |-> 0])
  <2>1. \A T \in SUBSET {} : T = {}
    BY Zenon
  <2> QED BY <2>1 DEF Counts
<1>2. PICK f : Counts({}, f) /\ Cardinality({}) = f[{}]
  BY <1>1, CountIs, Zenon
<1> QED BY <1>2 DEF Counts

(* A set of one counts one. *)
LEMMA CountOne == ASSUME NEW b PROVE Cardinality({b}) = 1
<1> DEFINE g == [T \in SUBSET {b} |-> IF T = {} THEN 0 ELSE 1]
<1>1. \A T \in SUBSET {b} : T # {} => T = {b} /\ T \ {CHOOSE x : x \in T} = {}
  <2> TAKE T \in SUBSET {b}
  <2> HAVE T # {}
  <2>1. T = {b}
    BY Zenon
  <2>2. (CHOOSE x : x \in T) \in T
    BY <2>1, Zenon
  <2> QED BY <2>1, <2>2
<1>2. Counts({b}, g)
  <2>1. \A T \in SUBSET {b} : T # {} => g[T \ {CHOOSE x : x \in T}] = 0
    <3>1. g[{}] = 0
      OBVIOUS
    <3> QED BY <1>1, <3>1, Zenon
  <2> HIDE DEF g
  <2>2. \A T \in SUBSET {b} :
          (IF T = {} THEN 0 ELSE 1) = (IF T = {} THEN 0 ELSE 1 + g[T \ {CHOOSE x : x \in T}])
    BY <2>1
  <2>3. g = [T \in SUBSET {b} |-> IF T = {} THEN 0 ELSE 1]
    BY DEF g
  <2> QED BY <2>2, <2>3, Zenon DEF Counts
<1>3. PICK f : Counts({b}, f) /\ Cardinality({b}) = f[{b}]
  BY <1>2, CountIs, Zenon
<1>4. {b} \ {CHOOSE x : x \in {b}} = {} /\ {b} # {} /\ {b} \in SUBSET {b} /\ {} \in SUBSET {b}
  BY <1>1
<1>5. f[{}] = 0 /\ f[{b}] = 1 + f[{}]
  BY <1>3, <1>4 DEF Counts
<1> QED BY <1>3, <1>5

(* Running a branch on the receipts of its fork point. *)
LEMMA AppendRunsFacts ==
    ASSUME NEW n \in Blocks, NEW p \in Ancestors[n], NEW rec, NEW floor, RunsOf(rec, p, floor)
    PROVE  RunsOf(AppendRuns(rec, Path(p, n)), n, floor)
<1> DEFINE out == AppendRuns(rec, Path(p, n))
<1> SUFFICES ASSUME NEW t \in Txs
             PROVE  /\ out[t] \in {0, 1}
                    /\ out[t] = 1 => t \in Held(n)
                    /\ t \in Held(n) /\ TxHeight(t) >= floor => out[t] = 1
  BY Zenon DEF RunsOf
<1> DEFINE S == {b \in Path(p, n) : t \in TxsOf[b]}
<1>1. out[t] = IF rec[t] + Cardinality(S) > 2 THEN 2 ELSE rec[t] + Cardinality(S)
  BY Zenon DEF AppendRuns, RunCap
<1>2. /\ rec[t] \in {0, 1}
      /\ rec[t] = 1 => t \in Held(p)
      /\ t \in Held(p) /\ TxHeight(t) >= floor => rec[t] = 1
  BY Zenon DEF RunsOf
<1>3. t \in Held(n) <=> t \in Held(p) \/ S # {}
  BY HeldSplit, Zenon
<1>4. CASE S = {}
  <2>1. Cardinality(S) = 0
    BY <1>4, CountNone, Zenon
  <2>2. out[t] = rec[t]
    BY <2>1, <1>1, <1>2
  <2> QED BY <2>2, <1>2, <1>3, <1>4, Zenon
<1>5. CASE S # {}
  <2>1. PICK b \in Path(p, n) : t \in TxsOf[b]
    BY <1>5, Zenon
  <2>2. \A c \in S : c = b
    BY <2>1, TxsOfChain, Zenon DEF Path
  <2>3. S = {b}
    BY <2>1, <2>2, Zenon
  <2>4. Cardinality(S) = 1
    BY <2>3, CountOne, Zenon
  <2>5. t \notin Held(p)
    <3>1. Height[p] \in Nat /\ Height[n] \in Nat
      BY AncestorFacts, Zenon
    <3>2. TxHeight(t) \in Height[p] + 1 .. Height[n]
      BY <2>1, HeldSplit, Zenon
    <3>3. t \in Held(p) => TxHeight(t) \in 0 .. Height[p]
      BY HeldSplit, Zenon
    <3> QED BY <3>1, <3>2, <3>3
  <2>6. rec[t] = 0
    BY <2>5, <1>2, Zenon
  <2>7. out[t] = 1
    BY <2>4, <2>6, <1>1
  <2> QED BY <2>7, <1>3, <1>5
<1> QED BY <1>4, <1>5, Zenon

(* A replay starts from nothing. *)
LEMMA ReplayRunsFacts ==
    ASSUME NEW n \in Blocks
    PROVE  RunsOf(AppendRuns([t \in Txs |-> 0], Ancestors[n]), n, 0)
<1> DEFINE none == [t \in Txs |-> 0]
<1>1. Genesis \in Ancestors[n] /\ Genesis \in Blocks /\ Ancestors[Genesis] = {Genesis}
  BY ChainFacts, TreeFacts, TreeAncestors
<1>2. \A t : t \notin Held(Genesis)
  BY <1>1, TxsAreHeightLocked, Zenon DEF Held
<1>3. RunsOf(none, Genesis, 0)
  BY <1>2 DEF RunsOf
<1>4. RunsOf(AppendRuns(none, Path(Genesis, n)), n, 0)
  BY <1>1, <1>3, AppendRunsFacts, Zenon
<1>5. ASSUME NEW t
      PROVE  {b \in Ancestors[n] : t \in TxsOf[b]} = {b \in Path(Genesis, n) : t \in TxsOf[b]}
  BY <1>1, TxsAreHeightLocked, Zenon DEF Path
<1>6. AppendRuns(none, Ancestors[n]) = AppendRuns(none, Path(Genesis, n))
  BY <1>5, Zenon DEF AppendRuns
<1> QED BY <1>4, <1>6, Zenon

(* The height below which a tip leaves no receipts. *)
RunFloor(tip) == IF archive THEN 0 ELSE ReceiptFloor(Height[tip])

(* The floor follows the tip. *)
LEMMA FloorFacts ==
    ASSUME NEW a \in Nat, NEW b \in Nat
    PROVE  /\ ReceiptFloor(a) \in Nat
           /\ a <= b => ReceiptFloor(a) <= ReceiptFloor(b)
BY HistoryAssumption DEF ReceiptFloor

(* The maintenance of a checkpoint keeps what a query may ask for. *)
LEMMA PruneReceiptsFacts ==
    ASSUME NEW n \in Blocks, NEW rec, NEW floor \in Nat, floor <= RunFloor(n),
           archive \in BOOLEAN, RunsOf(rec, n, floor)
    PROVE  RunsOf(PruneReceipts(rec, n), n, RunFloor(n))
<1> DEFINE out == PruneReceipts(rec, n)
<1> SUFFICES ASSUME NEW t \in Txs
             PROVE  /\ out[t] \in {0, 1}
                    /\ out[t] = 1 => t \in Held(n)
                    /\ t \in Held(n) /\ TxHeight(t) >= RunFloor(n) => out[t] = 1
  BY Zenon DEF RunsOf
<1>1. /\ rec[t] \in {0, 1}
      /\ rec[t] = 1 => t \in Held(n)
      /\ t \in Held(n) /\ TxHeight(t) >= floor => rec[t] = 1
  BY Zenon DEF RunsOf
<1>2. Height[n] \in Nat /\ ReceiptFloor(Height[n]) \in Nat /\ RunFloor(n) \in Nat
  BY TreeFacts, FloorFacts, Zenon DEF RunFloor
<1>3. t \in Held(n) => TxHeight(t) \in Nat
  BY <1>2, HeldFacts
<1>4. CASE IsHead(n) /\ ~archive
  <2>1. out[t] = IF TxHeight(t) < RunFloor(n) THEN 0 ELSE rec[t]
    BY <1>4, Zenon DEF PruneReceipts, RunFloor
  <2> QED BY <2>1, <1>1, <1>2, <1>3
<1>5. CASE ~(IsHead(n) /\ ~archive)
  <2>1. out = rec
    BY <1>5, Zenon DEF PruneReceipts
  <2> QED BY <2>1, <1>1, <1>2, <1>3
<1> QED BY <1>4, <1>5, Zenon
-----------------------------------------------------------------------------
(* The account history names transactions of the chain under addresses     *)
(* they touch, and lacks only what a checkpoint pruned.                    *)
EntryOf(a, t) == [addr |-> a, tx |-> t]

EntriesSound(idx, b) ==
    \A e \in idx : \E a \in Addrs, t \in Held(b) : e = EntryOf(a, t) /\ a \in txAddresses[t]

EntriesFull ==
    \A a \in Addrs, t \in Held(store.latest) :
        a \in txAddresses[t] => EntryOf(a, t) \in addrTxs \/ PrunedBelow(TxHeight(t))

(* The entries of a set of blocks. *)
LEMMA TxEntriesFacts ==
    ASSUME NEW blocks
    PROVE  /\ \A a \in Addrs : \A b \in blocks : \A t \in TxsOf[b] :
                 a \in txAddresses[t] => EntryOf(a, t) \in TxEntries(blocks)
           /\ \A e \in TxEntries(blocks) : \E a \in Addrs : \E b \in blocks : \E t \in TxsOf[b] :
                 e = EntryOf(a, t) /\ a \in txAddresses[t]
<1>1. \A e : e \in EntriesOf(blocks) <=>
        \E a \in Addrs : \E b \in blocks : \E t \in TxsOf[b] : e = EntryOf(a, t)
  BY DEF EntriesOf, EntryOf
<1>2. \A a, t : EntryOf(a, t).addr = a /\ EntryOf(a, t).tx = t
  BY Zenon DEF EntryOf
<1>3. ASSUME NEW a \in Addrs, NEW b \in blocks, NEW t \in TxsOf[b], a \in txAddresses[t]
      PROVE  EntryOf(a, t) \in TxEntries(blocks)
  <2>1. EntryOf(a, t) \in EntriesOf(blocks)
    BY <1>1, Zenon
  <2> QED BY <2>1, <1>2, <1>3 DEF TxEntries
<1>4. ASSUME NEW e \in TxEntries(blocks)
      PROVE  \E a \in Addrs : \E b \in blocks : \E t \in TxsOf[b] :
                 e = EntryOf(a, t) /\ a \in txAddresses[t]
  <2>1. e \in EntriesOf(blocks) /\ e.addr \in txAddresses[e.tx]
    BY Zenon DEF TxEntries
  <2>2. PICK a \in Addrs : \E b \in blocks : \E t \in TxsOf[b] : e = EntryOf(a, t)
    BY <2>1, <1>1
  <2>3. PICK b \in blocks : \E t \in TxsOf[b] : e = EntryOf(a, t)
    BY <2>2
  <2>4. PICK t \in TxsOf[b] : e = EntryOf(a, t)
    BY <2>3
  <2> QED BY <2>1, <2>4, <1>2
<1> QED BY <1>3, <1>4

(* What was pruned stays pruned: a sheet that retention drops is below the *)
(* one that drops it.                                                      *)
LEMMA PrunedStays ==
    ASSUME ChainInv, NEW n \in Blocks, archive' = archive,
           snap' = snap \/ snap' = PutSnapshot(n), NEW h \in Nat, PrunedBelow(h)
    PROVE  PrunedBelow(h)'
<1>1. ~archive /\ Height[n] \in Heights /\ Height[n] \in Nat /\ NoBlock \notin Blocks
  BY TreeFacts DEF PrunedBelow
<1>2. PICK c \in Heights : snap[c] # NoBlock /\ h < ReceiptFloor(c)
  BY Zenon DEF PrunedBelow
<1>3. c \in Nat
  BY DEF Heights
<1>4. CASE snap' = snap
  BY <1>1, <1>2, <1>4 DEF PrunedBelow
<1>5. CASE snap' = PutSnapshot(n)
  <2>1. SnapshotRetention * CheckRound \in Nat
    BY RetentionAssumption, TreeTypes
  <2>2. snap'[Height[n]] = n
    BY <1>1, <1>5 DEF PutSnapshot
  <2>3. CASE snap'[c] # NoBlock
    BY <2>3, <1>1, <1>2 DEF PrunedBelow
  <2>4. CASE snap'[c] = NoBlock
    <3>1. c < Height[n] - SnapshotRetention * CheckRound
      BY <2>4, <1>1, <1>2, <1>5 DEF PutSnapshot
    <3>2. c <= Height[n]
      BY <3>1, <2>1, <1>1, <1>3
    <3>3. h < ReceiptFloor(Height[n])
      BY <3>2, <1>1, <1>2, <1>3, FloorFacts
    <3> QED BY <3>3, <2>2, <1>1 DEF PrunedBelow
  <2> QED BY <2>3, <2>4
<1> QED BY <1>4, <1>5

(* The account history after an import that adds the blocks of Path(p, n)  *)
(* to the entries of p's chain.                                            *)
LEMMA IndexFacts ==
    ASSUME ChainInv, EntriesFull, EntriesSound(addrTxs, store.latest),
           NEW n \in Blocks, NEW p \in Ancestors[n], p \in Ancestors[store.latest],
           NEW idx, idx = SwitchedAddrTxs(p, n)
    PROVE  /\ EntriesSound(idx, n)
           /\ \A a \in Addrs, t \in Held(n) :
                a \in txAddresses[t] => EntryOf(a, t) \in idx \/ PrunedBelow(TxHeight(t))
<1> DEFINE l == store.latest
<1>1. l \in Blocks /\ p \in Blocks /\ Height[p] \in Nat /\ Height[l] \in Nat /\ Height[n] \in Nat
  BY ChainInvFacts, AncestorFacts
<1>2. CanonAbove(store, p) = Path(p, l)
  BY CanonAboveFacts DEF ChainInv
<1>3. idx = (addrTxs \ TxEntries(Path(p, l))) \cup TxEntries(Path(p, n))
  BY <1>2, Zenon DEF SwitchedAddrTxs
<1>4. ASSUME NEW e \in idx
      PROVE  \E a \in Addrs, t \in Held(n) : e = EntryOf(a, t) /\ a \in txAddresses[t]
  <2>1. CASE e \in TxEntries(Path(p, n))
    <3>1. PICK a \in Addrs : \E b \in Path(p, n) : \E t \in TxsOf[b] :
            e = EntryOf(a, t) /\ a \in txAddresses[t]
      BY ONLY <2>1, TxEntriesFacts
    <3>2. PICK b \in Path(p, n) : \E t \in TxsOf[b] : e = EntryOf(a, t) /\ a \in txAddresses[t]
      BY <3>1
    <3>3. PICK t \in TxsOf[b] : e = EntryOf(a, t) /\ a \in txAddresses[t]
      BY <3>2, Zenon
    <3>4. t \in Held(n)
      BY <3>3, HeldSplit, Zenon
    <3> QED BY <3>3, <3>4, Zenon
  <2>2. CASE e \in addrTxs /\ e \notin TxEntries(Path(p, l))
    <3>1. PICK a \in Addrs, t \in Held(l) : e = EntryOf(a, t) /\ a \in txAddresses[t]
      BY <2>2, Zenon DEF EntriesSound
    <3>2. ASSUME NEW b \in Path(p, l), t \in TxsOf[b] PROVE FALSE
      BY <3>1, <3>2, <2>2, TxEntriesFacts, Zenon
    <3>3. t \in Held(p)
      BY <3>1, <3>2, <1>1, HeldSplit, Zenon
    <3>4. t \in Held(n)
      BY <3>3, HeldSplit, Zenon
    <3> QED BY <3>1, <3>4, Zenon
  <2> QED BY <2>1, <2>2, <1>3, Zenon
<1>5. ASSUME NEW a \in Addrs, NEW t \in Held(n), a \in txAddresses[t]
      PROVE  EntryOf(a, t) \in idx \/ PrunedBelow(TxHeight(t))
  <2>1. CASE \E b \in Path(p, n) : t \in TxsOf[b]
    BY <2>1, <1>3, <1>5, TxEntriesFacts, Zenon
  <2>2. CASE t \in Held(p)
    <3>1. t \in Held(l)
      BY <2>2, <1>1, HeldSplit, Zenon
    <3>2. CASE EntryOf(a, t) \in TxEntries(Path(p, l))
      <4>1. PICK b \in Path(p, l) : \E c \in Addrs : \E u \in TxsOf[b] : EntryOf(a, t) = EntryOf(c, u)
        BY ONLY <3>2, TxEntriesFacts
      <4>2. PICK c \in Addrs, u \in TxsOf[b] : EntryOf(a, t) = EntryOf(c, u)
        BY <4>1, Zenon
      <4>3. u = t
        BY <4>2, Zenon DEF EntryOf
      <4>4. TxHeight(t) \in Height[p] + 1 .. Height[l]
        BY <4>3, <1>1, HeldSplit, Zenon
      <4>5. TxHeight(t) \in 0 .. Height[p]
        BY <2>2, HeldSplit, Zenon
      <4> QED BY ONLY <4>4, <4>5, <1>1
    <3>3. CASE EntryOf(a, t) \notin TxEntries(Path(p, l))
      BY <3>1, <3>3, <1>3, <1>5, Zenon DEF EntriesFull
    <3> QED BY <3>2, <3>3, Zenon
  <2> QED BY <2>1, <2>2, HeldSplit, Zenon
<1> QED BY <1>4, <1>5 DEF EntriesSound

(* The maintenance of a checkpoint prunes what it then counts as pruned. *)
LEMMA PruneIndexFacts ==
    ASSUME ChainInv, NEW n \in Blocks, archive' = archive, store'.latest = n,
           IF IsHead(n) THEN snap' = PutSnapshot(n) ELSE snap' = snap,
           NEW idx, EntriesSound(idx, n), addrTxs' = PruneAddrTxIndex(idx, n),
           \A a \in Addrs, t \in Held(n) :
               a \in txAddresses[t] => EntryOf(a, t) \in idx \/ PrunedBelow(TxHeight(t))
    PROVE  EntriesSound(addrTxs', n) /\ EntriesFull'
<1>1. addrTxs' \subseteq idx
  BY Zenon DEF PruneAddrTxIndex
<1>2. EntriesSound(addrTxs', n)
  BY <1>1, Zenon DEF EntriesSound
<1>3. ASSUME NEW a \in Addrs, NEW t \in Held(n), a \in txAddresses[t], EntryOf(a, t) \notin addrTxs'
      PROVE  PrunedBelow(TxHeight(t))'
  <2>1. TxHeight(t) \in Nat /\ Height[n] \in Nat /\ Height[n] \in Heights /\ NoBlock \notin Blocks
    BY ONLY HeldFacts, TreeFacts
  <2>2. CASE PrunedBelow(TxHeight(t))
    BY <2>1, <2>2, PrunedStays, Zenon
  <2>3. CASE EntryOf(a, t) \in idx
    <3>1. IsHead(n) /\ ~archive /\ ~(TxHeight(t) >= ReceiptFloor(Height[n]))
      BY <2>3, <1>3, Zenon DEF PruneAddrTxIndex, EntryOf
    <3>2. snap'[Height[n]] = n
      BY <3>1, <2>1, Zenon DEF PutSnapshot
    <3>3. TxHeight(t) < ReceiptFloor(Height[n])
      BY ONLY <3>1, <2>1, FloorFacts
    <3> QED BY <3>1, <3>2, <3>3, <2>1, Zenon DEF PrunedBelow
  <2> QED BY <2>2, <2>3, <1>3, Zenon
<1>4. EntriesFull'
  BY <1>3, Zenon DEF EntriesFull
<1> QED BY <1>2, <1>4, Zenon
(* Together: the account history after an import. *)
LEMMA ImportIndexFacts ==
    ASSUME ChainInv, EntriesFull, EntriesSound(addrTxs, store.latest),
           NEW n \in Blocks, NEW p \in Ancestors[n], p \in Ancestors[store.latest],
           archive' = archive, store'.latest = n,
           IF IsHead(n) THEN snap' = PutSnapshot(n) ELSE snap' = snap,
           addrTxs' = PruneAddrTxIndex(SwitchedAddrTxs(p, n), n)
    PROVE  EntriesSound(addrTxs', n) /\ EntriesFull'
<1> DEFINE idx == SwitchedAddrTxs(p, n)
<1>1. /\ EntriesSound(idx, n)
      /\ \A a \in Addrs, t \in Held(n) :
            a \in txAddresses[t] => EntryOf(a, t) \in idx \/ PrunedBelow(TxHeight(t))
  BY IndexFacts, Zenon
<1> QED BY <1>1, PruneIndexFacts, Zenon

-----------------------------------------------------------------------------
(* The inductive invariant: on top of the chain's, the receipts of a node  *)
(* that never takes a snapshot and the account history of any node follow  *)
(* the chain of the latest block.                                          *)
HistoryInv ==
    /\ ChainInv
    /\ snapshotMode \in BOOLEAN
    /\ ~snapshotMode => RunsOf(receipts, store.latest, RunFloor(store.latest))
    /\ EntriesSound(addrTxs, store.latest)
    /\ EntriesFull

(* Both stores start empty. *)
LEMMA HistoryInitial == HistoryInit => HistoryInv
<1> SUFFICES ASSUME HistoryInit PROVE HistoryInv
  BY Zenon
<1>1. ChainInv /\ store.latest = Genesis /\ receipts = [t \in Txs |-> 0] /\ addrTxs = {}
      /\ snapshotMode \in BOOLEAN
  BY InitInv, Zenon DEF HistoryInit, Init, GenesisStore
<1>2. \A t : t \notin Held(Genesis)
  BY TreeAncestors, TxsAreHeightLocked DEF Held
<1> QED BY <1>1, <1>2 DEF HistoryInv, RunsOf, EntriesSound, EntriesFull

(* What the end of a write transaction does with sheets. *)
LEMMA SheetFacts ==
    ASSUME NEW s, NEW n, Checkpoint(s, n)
    PROVE  IF IsHead(n) THEN snap' = PutSnapshot(n) ELSE snap' = snap
BY Zenon DEF Checkpoint

(* The invariant after a step, by what the step did. *)
LEMMA HistoryNextState ==
    ASSUME NEW n, ChainInv', store'.latest = n, snapshotMode' \in BOOLEAN,
           ~snapshotMode' => RunsOf(receipts', n, RunFloor(n)'),
           EntriesSound(addrTxs', n), EntriesFull'
    PROVE  HistoryInv'
BY Zenon DEF HistoryInv

(* A block on the tip. *)
LEMMA ExtendKeepsHistory ==
    ASSUME HistoryInv, NEW b \in Blocks \ {Genesis}, ExtendTip(b), OnExtend(b),
           snapshotMode' = snapshotMode
    PROVE  HistoryInv'
<1> DEFINE l == store.latest
<1>1. ChainInv' /\ store'.latest = b /\ Prev[b] = l /\ archive' = archive
  BY ExtendTipKeeps, Zenon DEF ExtendTip, HistoryInv
<1>2. /\ ChainInv /\ snapshotMode \in BOOLEAN /\ archive \in BOOLEAN /\ l \in Blocks
      /\ EntriesSound(addrTxs, l) /\ EntriesFull
      /\ ~snapshotMode => RunsOf(receipts, l, RunFloor(l))
  BY ChainInvFacts, Zenon DEF HistoryInv
<1>3. Ancestors[b] = {b} \cup Ancestors[l] /\ b \notin Ancestors[l] /\ l \in Ancestors[l]
  BY <1>1, <1>2, ChainFacts, BetterFacts, Zenon
<1>4. Path(l, b) = {b} /\ l \in Ancestors[b] /\ Path(l, l) = {}
  BY <1>3 DEF Path
<1>5. Height[l] \in Nat /\ Height[b] \in Nat /\ Height[l] <= Height[b]
  BY <1>1, <1>2, <1>4, AncestorFacts, Zenon
<1>6. IF IsHead(b) THEN snap' = PutSnapshot(b) ELSE snap' = snap
  BY SheetFacts, Zenon DEF ExtendTip
<1>7. ASSUME ~snapshotMode PROVE RunsOf(receipts', b, RunFloor(b)')
  <2>1. RunsOf(AppendRuns(receipts, {b}), b, RunFloor(l))
    BY <1>2, <1>4, <1>7, AppendRunsFacts, Zenon
  <2>2. RunFloor(l) \in Nat /\ RunFloor(l) <= RunFloor(b)
    BY <1>5, FloorFacts DEF RunFloor
  <2>3. RunsOf(receipts', b, RunFloor(b))
    BY <2>1, <2>2, <1>2, PruneReceiptsFacts DEF OnExtend
  <2> QED BY <2>3, <1>1, Zenon DEF RunFloor
<1>8. SwitchedAddrTxs(l, b) = addrTxs \cup TxEntries({b})
  <2>1. CanonAbove(store, l) = {}
    BY <1>2, <1>3, <1>4, CanonAboveFacts, Zenon DEF ChainInv
  <2>2. TxEntries({}) = {}
    BY TxEntriesFacts
  <2> QED BY <2>1, <2>2, <1>4, Zenon DEF SwitchedAddrTxs
<1>9. EntriesSound(addrTxs', b) /\ EntriesFull'
  <2>1. addrTxs' = PruneAddrTxIndex(SwitchedAddrTxs(l, b), b)
    BY <1>8 DEF OnExtend
  <2> QED BY <2>1, <1>1, <1>2, <1>3, <1>4, <1>6, ImportIndexFacts, ZenonT(40)
<1> QED BY <1>1, <1>2, <1>7, <1>9, HistoryNextState, Zenon

(* The receipts of a switch are those of the new chain, whole: an unwind   *)
(* happens on an archive, and a replay writes all of them again.           *)
LEMMA ReappliedFacts ==
    ASSUME HistoryInv, ~snapshotMode, NEW n \in Blocks, NEW p \in Ancestors[n],
           p \in Ancestors[store.latest]
    PROVE  RunsOf(Reapplied(p, n), n, 0)
<1> DEFINE l == store.latest
           base == IF Height[p] < Height[l] THEN deleteReceiptsAbove(receipts, Height[p])
                   ELSE receipts
<1>1. /\ l \in Blocks /\ p \in Blocks /\ Height[p] \in Nat /\ Height[l] \in Nat
      /\ Height[p] <= Height[l] /\ RunsOf(receipts, l, RunFloor(l))
  BY ChainInvFacts, AncestorFacts, Zenon DEF HistoryInv
<1>2. CASE ~CanUnwind(p)
  BY <1>2, ReplayRunsFacts, Zenon DEF Reapplied
<1>3. CASE CanUnwind(p)
  <2>1. archive /\ RunFloor(l) = 0
    BY <1>3 DEF CanUnwind, RunFloor
  <2>2. RunsOf(base, p, 0)
    <3> SUFFICES ASSUME NEW t \in Txs
                 PROVE  /\ base[t] \in {0, 1}
                        /\ base[t] = 1 => t \in Held(p)
                        /\ t \in Held(p) /\ TxHeight(t) >= 0 => base[t] = 1
      BY Zenon DEF RunsOf
    <3>1. /\ receipts[t] \in {0, 1}
          /\ receipts[t] = 1 => t \in Held(l)
          /\ t \in Held(l) /\ TxHeight(t) >= 0 => receipts[t] = 1
      BY <2>1, <1>1 DEF RunsOf
    <3>2. t \in Held(p) => t \in Held(l) /\ TxHeight(t) \in 0 .. Height[p]
      BY <1>1, HeldSplit, Zenon
    <3>3. t \in Held(l) /\ t \notin Held(p) => TxHeight(t) \in Height[p] + 1 .. Height[l]
      BY <1>1, HeldSplit, Zenon
    <3>4. CASE Height[p] < Height[l]
      <4>1. base[t] = IF TxHeight(t) > Height[p] THEN 0 ELSE receipts[t]
        BY <3>4, Zenon DEF deleteReceiptsAbove
      <4> QED BY ONLY <4>1, <3>1, <3>2, <3>3, <1>1
    <3>5. CASE ~(Height[p] < Height[l])
      <4>1. base[t] = receipts[t]
        BY <3>5
      <4> QED BY ONLY <4>1, <3>1, <3>2, <3>3, <3>5, <1>1
    <3> QED BY <3>4, <3>5, Zenon
  <2> HIDE DEF base
  <2>3. RunsOf(AppendRuns(base, Path(p, n)), n, 0)
    BY <2>2, AppendRunsFacts, Zenon
  <2> QED BY <2>3, <1>3, Zenon DEF Reapplied, base
<1> QED BY <1>2, <1>3, Zenon
(* A switch to a branch. *)
LEMMA SwitchKeepsHistory ==
    ASSUME HistoryInv, NEW n \in Blocks, NEW p \in Ancestors[n], p \in Ancestors[store.latest],
           ChainInv', store'.latest = n, NEW s, switchToBranchTxn(s, p, n), OnSwitch(p, n),
           snapshotMode' = snapshotMode
    PROVE  HistoryInv'
<1>1. /\ ChainInv /\ snapshotMode \in BOOLEAN /\ archive \in BOOLEAN /\ store.latest \in Blocks
      /\ EntriesSound(addrTxs, store.latest) /\ EntriesFull
  BY ChainInvFacts, Zenon DEF HistoryInv
<1>2. archive' = archive /\ Checkpoint(SwitchToBranch(s, p, n), n)
  BY Zenon DEF switchToBranchTxn
<1>3. IF IsHead(n) THEN snap' = PutSnapshot(n) ELSE snap' = snap
  BY <1>2, SheetFacts, Zenon
<1>4. ASSUME ~snapshotMode PROVE RunsOf(receipts', n, RunFloor(n)')
  <2>1. RunsOf(Reapplied(p, n), n, 0)
    BY <1>4, ReappliedFacts, Zenon
  <2>2. 0 <= RunFloor(n)
    BY TreeFacts, FloorFacts DEF RunFloor
  <2>3. RunsOf(receipts', n, RunFloor(n))
    BY <2>1, <2>2, <1>1, PruneReceiptsFacts, Zenon DEF OnSwitch
  <2> QED BY <2>3, <1>2, Zenon DEF RunFloor
<1>5. addrTxs' = PruneAddrTxIndex(SwitchedAddrTxs(p, n), n)
  BY Zenon DEF OnSwitch
<1>6. EntriesSound(addrTxs', n) /\ EntriesFull'
  BY <1>1, <1>2, <1>3, <1>5, ImportIndexFacts, ZenonT(40)
<1> QED BY <1>1, <1>4, <1>6, HistoryNextState, Zenon

(* A snapshot keeps the account history as a switch does. *)
LEMMA SnapshotKeepsHistory ==
    ASSUME HistoryInv, NEW p \in Blocks, NEW n \in Blocks, snapshotMode, ApplySnapshot(p, n),
           OnSnapshot(p, n), snapshotMode' = snapshotMode
    PROVE  HistoryInv'
<1>1. /\ ChainInv /\ EntriesSound(addrTxs, store.latest) /\ EntriesFull
      /\ snapshotMode \in BOOLEAN
  BY Zenon DEF HistoryInv
<1>2. /\ ChainInv' /\ store'.latest = n /\ p \in Ancestors[store.latest] /\ p \in Ancestors[n]
  BY <1>1, ApplySnapshotKeeps, SegmentFacts, Zenon DEF ApplySnapshot
<1>3. snap' = PutSnapshot(n) /\ archive' = archive /\ addrTxs' = SwitchedAddrTxs(p, n)
  BY Zenon DEF ApplySnapshot, OnSnapshot
<1>4. /\ EntriesSound(addrTxs', n)
      /\ \A a \in Addrs, t \in Held(n) :
            a \in txAddresses[t] => EntryOf(a, t) \in addrTxs' \/ PrunedBelow(TxHeight(t))
  BY <1>1, <1>2, <1>3, IndexFacts, ZenonT(40)
<1>5. \A t \in Held(n) : TxHeight(t) \in Nat
  <2>1. \A t \in Held(n) : TxHeight(t) \in 0 .. Height[n]
    BY HeldFacts, Zenon
  <2> QED BY <2>1
<1>6. \A t \in Held(n) : PrunedBelow(TxHeight(t)) => PrunedBelow(TxHeight(t))'
  BY <1>1, <1>3, <1>5, PrunedStays
<1>7. EntriesFull'
  BY <1>2, <1>4, <1>6, Zenon DEF EntriesFull
<1> QED BY <1>1, <1>2, <1>4, <1>7, HistoryNextState, Zenon

(* A restart may replay the chain. *)
LEMMA RestartKeepsHistory ==
    ASSUME HistoryInv, Restart(archive), OnRestart, snapshotMode' = snapshotMode
    PROVE  HistoryInv'
<1>1. ChainInv' /\ store' = store /\ archive' = archive /\ snap' = snap /\ addrTxs' = addrTxs
  BY RestartKeeps, Zenon DEF HistoryInv, Restart, OnRestart
<1>2. store.latest \in Blocks /\ archive \in BOOLEAN
  BY ChainInvFacts, Zenon DEF HistoryInv
<1>3. RunFloor(store.latest)' = RunFloor(store.latest)
  BY <1>1, Zenon DEF RunFloor
<1>4. ASSUME ~snapshotMode PROVE RunsOf(receipts', store.latest, RunFloor(store.latest))
  <2>1. CASE archive /\ Height[store.latest] > 0 /\ 1 \notin changesets
    BY <2>1, <1>2, ReplayRunsFacts DEF OnRestart, RunFloor
  <2>2. CASE ~(archive /\ Height[store.latest] > 0 /\ 1 \notin changesets)
    BY <2>2, <1>4, Zenon DEF OnRestart, HistoryInv
  <2> QED BY <2>1, <2>2, Zenon
<1>5. EntriesSound(addrTxs', store.latest) /\ EntriesFull'
  BY <1>1, Zenon DEF HistoryInv, EntriesFull, PrunedBelow
<1> QED BY <1>1, <1>3, <1>4, <1>5 DEF HistoryInv

(* The invariant is inductive. *)
LEMMA HistoryKeeps == HistoryInv /\ [HistoryNext]_histVars => HistoryInv'
<1> SUFFICES ASSUME HistoryInv, [HistoryNext]_histVars PROVE HistoryInv'
  BY Zenon
<1> USE DEF HistoryInv
<1>1. ASSUME NEW b \in Blocks \ {Genesis}, ExtendTip(b), OnExtend(b), UNCHANGED snapshotMode
      PROVE  HistoryInv'
  BY <1>1, ExtendKeepsHistory, Zenon
<1>2. ASSUME NEW b \in Blocks \ {Genesis}, StoreSide(b),
             UNCHANGED <<receipts, addrTxs, snapshotMode>>
      PROVE  HistoryInv'
  <2>1. ChainInv' /\ store'.latest = store.latest /\ archive' = archive /\ snap' = snap
    BY <1>2, StoreSideKeeps, Zenon DEF StoreSide
  <2>2. EntriesFull' /\ (~snapshotMode => RunsOf(receipts', store.latest, RunFloor(store.latest)'))
    BY <2>1, <1>2, Zenon DEF RunFloor, EntriesFull, PrunedBelow
  <2> QED BY <2>1, <2>2, <1>2, HistoryNextState, Zenon
<1>3. ASSUME NEW b \in Blocks \ {Genesis}, NEW p \in Ancestors[b], Reorg(p, b), OnSwitch(p, b),
             UNCHANGED snapshotMode
      PROVE  HistoryInv'
  <2>1. ChainInv' /\ store'.latest = b /\ p \in Ancestors[store.latest]
    BY <1>3, ReorgKeeps, Zenon
  <2>2. \E s : switchToBranchTxn(s, p, b)
    BY <1>3, Zenon DEF Reorg
  <2> QED BY <2>1, <2>2, <1>3, SwitchKeepsHistory, Zenon
<1>4. ASSUME NEW p \in Blocks, NEW n \in Blocks, ConvergeTo(p, n), OnSwitch(p, n),
             UNCHANGED snapshotMode
      PROVE  HistoryInv'
  <2>1. ChainInv' /\ store'.latest = n /\ p \in Ancestors[n] /\ p \in Ancestors[store.latest]
    BY <1>4, ConvergeToKeeps, Zenon
  <2>2. \E s : switchToBranchTxn(s, p, n)
    BY <1>4, Zenon DEF ConvergeTo
  <2> QED BY <2>1, <2>2, <1>4, SwitchKeepsHistory, Zenon
<1>5. ASSUME NEW p \in Blocks, NEW n \in Blocks, snapshotMode, ApplySnapshot(p, n),
             OnSnapshot(p, n), UNCHANGED snapshotMode
      PROVE  HistoryInv'
  BY <1>5, SnapshotKeepsHistory, Zenon
<1>6. ASSUME Restart(archive), OnRestart, UNCHANGED snapshotMode PROVE HistoryInv'
  BY <1>6, RestartKeepsHistory, Zenon
<1>7. ASSUME UNCHANGED histVars PROVE HistoryInv'
  <2>1. ChainInv'
    BY <1>7, NextKeeps DEF histVars
  <2>2. EntriesFull' /\ (~snapshotMode => RunsOf(receipts', store.latest, RunFloor(store.latest)'))
    BY <1>7, Zenon DEF histVars, vars, RunFloor, EntriesFull, PrunedBelow
  <2>3. UNCHANGED <<store, receipts, addrTxs, snapshotMode>>
    BY <1>7, Zenon DEF histVars, vars
  <2> QED BY <2>1, <2>2, <2>3, HistoryNextState, Zenon
<1> HIDE DEF HistoryInv
<1> QED BY <1>1, <1>2, <1>3, <1>4, <1>5, <1>6, <1>7, Zenon DEF HistoryNext
-----------------------------------------------------------------------------
(* The answers.  A query over a range at or above the floor finds the one  *)
(* run of each transaction of the range.                                   *)
LEMMA CollectLogsFacts ==
    ASSUME ChainInv, NEW floor, RunsOf(receipts, store.latest, floor),
           NEW from \in Nat, NEW to \in Nat, to <= Height[store.latest], floor <= from, floor \in Nat
    PROVE  CollectLogs(from, to) =
             {<<TxHeight(t), t, 1>> : t \in {u \in CanonTxs : TxHeight(u) \in from .. to}}
<1> DEFINE l == store.latest
           truth == {<<TxHeight(t), t, 1>> : t \in {u \in CanonTxs : TxHeight(u) \in from .. to}}
<1>1. /\ l \in Blocks /\ Height[l] \in Nat /\ store.canon = ChainIndex(l) /\ CanonTxs = Held(l)
  BY ChainInvFacts, Zenon DEF CanonTxs, Held
<1>2. ASSUME NEW e \in CollectLogs(from, to) PROVE e \in truth
  <2>1. /\ e = <<e[1], e[2], e[3]>> /\ e[1] \in from .. to /\ e[2] \in Txs /\ e[3] \in 1 .. 2
        /\ e[2] \in TxsOf[store.canon[e[1]]] /\ e[3] <= receipts[e[2]]
    BY DEF CollectLogs, RunCap
  <2>2. e[1] \in 0 .. Height[l]
    BY <2>1, <1>1
  <2>3. /\ store.canon[e[1]] = At(l, e[1]) /\ At(l, e[1]) \in Ancestors[l]
        /\ At(l, e[1]) \in Blocks /\ Height[At(l, e[1])] = e[1]
    <3>1. \A h \in 0 .. Height[l] : /\ At(l, h) \in Ancestors[l] /\ At(l, h) \in Blocks
                                     /\ Height[At(l, h)] = h
      BY <1>1, AtFacts, Zenon
    <3>2. \A h \in 0 .. Height[l] : store.canon[h] = At(l, h)
      BY <1>1, ChainIndexFacts, Zenon
    <3> QED BY <2>2, <3>1, <3>2, Zenon
  <2>4. e[2] \in Held(l) /\ TxHeight(e[2]) = e[1]
    BY <2>1, <2>3, TxHeightFacts, ZenonT(40) DEF Held
  <2>5. receipts[e[2]] \in {0, 1}
    BY <2>1, Zenon DEF RunsOf
  <2>6. e[3] = 1
    BY <2>1, <2>5
  <2>7. e = <<TxHeight(e[2]), e[2], 1>>
    BY <2>1, <2>4, <2>6
  <2> QED BY <2>1, <2>4, <2>7, <1>1
<1>3. ASSUME NEW t \in CanonTxs, TxHeight(t) \in from .. to
      PROVE  <<TxHeight(t), t, 1>> \in CollectLogs(from, to)
  <2>1. PICK a \in Ancestors[l] : t \in TxsOf[a]
    BY <1>1, Zenon DEF Held
  <2>2. a \in Blocks /\ Height[a] \in 0 .. Height[l]
    BY <1>1, AncestorFacts
  <2>3. t \in Txs /\ TxHeight(t) = Height[a]
    BY <2>1, <2>2, TxHeightFacts, Zenon
  <2>4. store.canon[Height[a]] = a
    <3>1. At(l, Height[a]) \in Ancestors[l] /\ Height[At(l, Height[a])] = Height[a]
      BY <2>2, <1>1, AtFacts, Zenon
    <3>2. At(l, Height[a]) = a
      BY ONLY <3>1, <1>1, TreeAncestors
    <3> QED BY ONLY <3>2, <2>2, <1>1, ChainIndexFacts
  <2>5. receipts[t] = 1
    <3>1. TxHeight(t) >= floor
      BY <1>3
    <3> QED BY <3>1, <2>3, <1>1 DEF RunsOf
  <2> QED BY ONLY <2>1, <2>3, <2>4, <2>5, <1>3 DEF CollectLogs, RunCap
<1> QED BY <1>2, <1>3, Zenon

(* The receipts answer log queries. *)
LEMMA RunsAnswer == HistoryInv => LogsExact
<1> SUFFICES ASSUME HistoryInv, ~snapshotMode, NEW from \in Heights, NEW to \in Heights,
                    GetLogs(from, to) # Refused
             PROVE  GetLogs(from, to) =
                      {<<TxHeight(t), t, 1>> : t \in
                        {u \in CanonTxs : TxHeight(u) >= from /\ (to = 0 \/ TxHeight(u) <= to)}}
  BY Zenon DEF LogsExact
<1> DEFINE l == store.latest
           tip == Height[l]
           end == IF to = 0 \/ to > tip THEN tip ELSE to
<1>1. /\ ChainInv /\ l \in Blocks /\ tip \in Nat /\ archive \in BOOLEAN
      /\ RunsOf(receipts, l, RunFloor(l)) /\ CanonTxs = Held(l)
  BY ChainInvFacts, Zenon DEF HistoryInv, CanonTxs, Held
<1>2. from \in Nat /\ to \in Nat /\ end \in Nat /\ end <= tip
  BY ONLY <1>1 DEF Heights
<1>3. \A u \in CanonTxs : TxHeight(u) \in 0 .. tip
  BY <1>1, HeldFacts
<1>4. \A u \in CanonTxs : (TxHeight(u) >= from /\ (to = 0 \/ TxHeight(u) <= to))
                            <=> TxHeight(u) \in from .. end
  BY ONLY <1>1, <1>2, <1>3
<1>5. {u \in CanonTxs : TxHeight(u) >= from /\ (to = 0 \/ TxHeight(u) <= to)}
        = {u \in CanonTxs : TxHeight(u) \in from .. end}
  BY <1>4
<1>6. GetLogs(from, to) = IF from > end THEN {}
                          ELSE IF end - from >= maxLogRange \/ ~Retained(from, tip) THEN Refused
                          ELSE CollectLogs(from, end)
  BY Zenon DEF GetLogs
<1> HIDE DEF end
<1>7. CASE from > end
  <2>1. {u \in CanonTxs : TxHeight(u) \in from .. end} = {}
    BY <1>2, <1>7
  <2> QED BY <2>1, <1>5, <1>6, <1>7, Zenon
<1>8. CASE ~(from > end)
  <2>1. Retained(from, tip) /\ GetLogs(from, to) = CollectLogs(from, end)
    BY <1>6, <1>8
  <2>2. RunFloor(l) \in Nat /\ RunFloor(l) <= from
    BY ONLY <2>1, <1>1, <1>2, FloorFacts DEF Retained, RunFloor
  <2>3. CollectLogs(from, end) =
          {<<TxHeight(t), t, 1>> : t \in {u \in CanonTxs : TxHeight(u) \in from .. end}}
    BY ONLY <2>2, <1>1, <1>2, CollectLogsFacts
  <2> QED BY <2>1, <2>3, <1>5, Zenon
<1> QED BY <1>7, <1>8

(* The entries answer account queries. *)
LEMMA EntriesAnswer == HistoryInv => AddrHistoryExact
<1> SUFFICES ASSUME HistoryInv, NEW a \in Addrs, NEW from \in Heights
             PROVE  LET answer == GetTxsByAddress(a, from, 0)
                        truth  == {t \in CanonTxs : a \in txAddresses[t] /\ TxHeight(t) >= from}
                    IN  /\ answer # Refused
                        /\ answer \subseteq truth
                        /\ PrunedBelow(from) \/ answer = FirstOf(truth, maxAddrTxLimit)
  BY Zenon DEF AddrHistoryExact
<1> DEFINE l == store.latest
           truth == {t \in CanonTxs : a \in txAddresses[t] /\ TxHeight(t) >= from}
           txs == {e.tx : e \in {f \in addrTxs : /\ f.addr = a
                                                 /\ TxHeight(f.tx) >= from
                                                 /\ 0 = 0 \/ TxHeight(f.tx) <= 0}}
           out == FirstOf(txs, maxAddrTxLimit)
<1>1. /\ ChainInv /\ StoreOK(store) /\ l \in Blocks /\ Height[l] \in Nat
      /\ EntriesSound(addrTxs, l) /\ EntriesFull /\ CanonTxs = Held(l)
  BY ChainInvFacts, Zenon DEF HistoryInv, CanonTxs, Held, ChainInv
<1>2. from \in Nat
  BY DEF Heights
<1>3. \A c, t : EntryOf(c, t).addr = c /\ EntryOf(c, t).tx = t
  BY DEF EntryOf
<1>4. ASSUME NEW t \in txs PROVE t \in truth
  <2>1. PICK e \in addrTxs : e.addr = a /\ TxHeight(e.tx) >= from /\ t = e.tx
    OBVIOUS
  <2>2. PICK c \in Addrs, u \in Held(l) : e = EntryOf(c, u) /\ c \in txAddresses[u]
    BY <2>1, <1>1, Zenon DEF EntriesSound
  <2> QED BY ONLY <2>1, <2>2, <1>1, <1>3
<1>5. out \subseteq txs
  BY Zenon DEF FirstOf
<1>6. ASSUME NEW t \in truth PROVE t \in Txs /\ store.txBlock[t] # NoBlock
  <2>1. PICK b \in Ancestors[l] : t \in TxsOf[b]
    BY <1>1, Zenon DEF Held
  <2>2. b \in Blocks /\ t \in Txs /\ isCanonical(store, b)
    BY <2>1, <1>1, AncestorFacts, TxHeightFacts, CanonicalFacts, Zenon
  <2>3. store.txBlock[t] = b
    BY <2>1, <2>2, <1>1, Zenon DEF StoreOK, TxsIndexed
  <2> QED BY <2>2, <2>3, TreeFacts, Zenon
<1>7. GetTxsByAddress(a, from, 0) = out
  <2>1. ~\E t \in out : store.txBlock[t] = NoBlock
    BY <1>4, <1>5, <1>6, Zenon
  <2> QED BY <2>1, Zenon DEF GetTxsByAddress
<1>8. out # Refused
  BY <1>4, <1>5, <1>6, HistoryAssumption, Zenon DEF Refused
<1>9. ASSUME ~PrunedBelow(from) PROVE txs = truth
  <2>1. ASSUME NEW t \in truth PROVE t \in txs
    <3>1. TxHeight(t) \in Nat /\ TxHeight(t) >= from /\ t \in Held(l) /\ a \in txAddresses[t]
      BY ONLY <1>1, HeldFacts
    <3>2. ~PrunedBelow(TxHeight(t))
      <4> SUFFICES ASSUME PrunedBelow(TxHeight(t)) PROVE FALSE
        OBVIOUS
      <4>1. ~archive
        BY Zenon DEF PrunedBelow
      <4>2. PICK c \in Heights : snap[c] # NoBlock /\ TxHeight(t) < ReceiptFloor(c)
        BY Zenon DEF PrunedBelow
      <4>3. from < ReceiptFloor(c)
        BY <4>2, <3>1, <1>2, FloorFacts DEF Heights
      <4> QED BY <4>1, <4>2, <4>3, <1>9, Zenon DEF PrunedBelow
    <3>3. EntryOf(a, t) \in addrTxs
      BY <3>1, <3>2, <1>1, Zenon DEF EntriesFull
    <3> QED BY ONLY <3>1, <3>3, <1>3
  <2> QED BY <2>1, <1>4
<1> HIDE DEF txs
<1>10. PrunedBelow(from) \/ out = FirstOf(truth, maxAddrTxLimit)
  BY <1>9
<1> QED BY <1>4, <1>5, <1>7, <1>8, <1>10, Zenon

(* The receipts and the account history follow the chain in every          *)
(* reachable state.                                                        *)
THEOREM HistoryInvariant == HistorySpec => []HistoryInv
BY HistoryInitial, HistoryKeeps, PTL DEF HistorySpec

(* ng_getLogs is right or refuses, for any tree, retention and range       *)
(* limit: an answer of a node that never took a snapshot holds every run   *)
(* of the canonical blocks of the range once.                              *)
THEOREM LogsCorrect == HistorySpec => []LogsExact
BY HistoryInvariant, RunsAnswer, PTL

(* ng_getTxsByAddress answers with transactions of the canonical chain,    *)
(* and with the whole history above what a checkpoint pruned.              *)
THEOREM AddrHistoryCorrect == HistorySpec => []AddrHistoryExact
BY HistoryInvariant, EntriesAnswer, PTL
=============================================================================
