---------------------------- MODULE StoreProofs ----------------------------
(***************************************************************************)
(* Lemmas about the block tree and about the operations of the block       *)
(* store, for every tree.                                                  *)
(***************************************************************************)
EXTENDS BlockStore, TLAPS, WellFoundedInduction

(* The conjuncts of the assumptions, in the form the proofs below cite. *)
LEMMA TreeFacts ==
    /\ Blocks \subseteq Nat
    /\ Genesis \in Blocks
    /\ NoBlock \notin Blocks
    /\ MaxHeight \in Nat
    /\ \A b \in Blocks : Height[b] \in Heights /\ Height[b] \in Nat
    /\ \A b \in Blocks : CumWork[b] \in Nat
    /\ \A b \in Blocks : Ancestors[b] \subseteq Blocks
    /\ \A b \in Blocks \ {Genesis} : Prev[b] \in Blocks
BY TreeTypes DEF Heights

(* A set of numbers has a least one: a statement about all blocks follows  *)
(* when none can be the lowest at which it fails.                          *)
LEMMA LeastNumber ==
    ASSUME NEW S \in SUBSET Nat, S # {}
    PROVE  \E d \in S : \A e \in S : d <= e
<1>1. PICK d \in S : \A e \in S : ~(<<e, d>> \in OpToRel(<, Nat))
  BY NatLessThanWellFounded, WFMin, Zenon
<1>2. \A e \in Nat : e < d => <<e, d>> \in OpToRel(<, Nat)
  BY DEF OpToRel
<1>3. \A e \in S : ~(e < d) /\ e \in Nat /\ d \in Nat
  BY <1>1, <1>2, Zenon
<1> QED BY <1>3

(* A chain has one block at every height up to its tip's, and the chains   *)
(* of its blocks are parts of it, with less work.                          *)
ChainShape(b) ==
    /\ \A h \in 0 .. Height[b] : \E a \in Ancestors[b] : Height[a] = h
    /\ \A a \in Ancestors[b] :
          /\ Ancestors[a] \subseteq Ancestors[b]
          /\ \A c \in Ancestors[b] : Height[c] = Height[a] => c = a
          /\ Height[a] <= Height[b]
          /\ a # b => CumWork[a] < CumWork[b]

(* The genesis block has the shape, and a block on one that has it. *)
LEMMA ChainShapeGrows ==
    /\ ChainShape(Genesis)
    /\ \A b \in Blocks \ {Genesis} : ChainShape(Prev[b]) => ChainShape(b)
<1>1. ChainShape(Genesis)
  BY TreeClosure, TreeShape DEF ChainShape
<1>2. ASSUME NEW b \in Blocks \ {Genesis}, ChainShape(Prev[b]) PROVE ChainShape(b)
  <2> DEFINE p == Prev[b]
  <2>1. /\ p \in Blocks /\ Height[p] \in Nat /\ Height[b] = Height[p] + 1
        /\ CumWork[p] \in Nat /\ CumWork[b] \in Nat /\ CumWork[p] < CumWork[b]
    BY TreeFacts, TreeShape, Zenon
  <2>2. Ancestors[b] = {b} \cup Ancestors[p] /\ Ancestors[p] \subseteq Blocks
    BY <2>1, TreeClosure, TreeFacts
  <2>3. \A a \in Ancestors[p] :
          /\ a \in Blocks /\ Height[a] \in Nat /\ CumWork[a] \in Nat
          /\ Ancestors[a] \subseteq Ancestors[p]
          /\ \A c \in Ancestors[p] : Height[c] = Height[a] => c = a
          /\ Height[a] <= Height[p]
          /\ a # p => CumWork[a] < CumWork[p]
    BY <1>2, <2>2, TreeFacts, Zenon DEF ChainShape
  <2>4. ASSUME NEW h \in 0 .. Height[b] PROVE \E a \in Ancestors[b] : Height[a] = h
    <3>1. CASE h = Height[b]
      BY <3>1, <2>2
    <3>2. CASE h # Height[b]
      <4>1. h \in 0 .. Height[p]
        BY <3>2, <2>1
      <4> QED BY <4>1, <1>2, <2>2, Zenon DEF ChainShape
    <3> QED BY <3>1, <3>2
  <2>5. ASSUME NEW a \in Ancestors[b]
        PROVE  /\ Ancestors[a] \subseteq Ancestors[b]
               /\ \A c \in Ancestors[b] : Height[c] = Height[a] => c = a
               /\ Height[a] <= Height[b]
               /\ a # b => CumWork[a] < CumWork[b]
    BY <2>1, <2>2, <2>3
  <2> QED BY <2>4, <2>5 DEF ChainShape
<1> QED BY <1>1, <1>2

(* Every chain has the shape: the lowest block without it would be one on  *)
(* a block that has it.                                                    *)
LEMMA TreeAncestors ==
    /\ Ancestors[Genesis] = {Genesis}
    /\ \A b \in Blocks \ {Genesis} : Ancestors[b] = {b} \cup Ancestors[Prev[b]]
    /\ \A b \in Blocks : \A h \in 0 .. Height[b] :
          \E a \in Ancestors[b] : Height[a] = h
    /\ \A b \in Blocks : \A a \in Ancestors[b] :
          /\ Ancestors[a] \subseteq Ancestors[b]
          /\ \A c \in Ancestors[b] : Height[c] = Height[a] => c = a
          /\ Height[a] <= Height[b]
          /\ a # b => CumWork[a] < CumWork[b]
<1> DEFINE Bad == {h \in Nat : \E b \in Blocks : Height[b] = h /\ ~ChainShape(b)}
<1>1. ASSUME Bad # {} PROVE FALSE
  <2>1. PICK h \in Bad : \A g \in Bad : h <= g
    BY <1>1, LeastNumber, Zenon
  <2>2. PICK b \in Blocks : Height[b] = h /\ ~ChainShape(b)
    BY <2>1
  <2>3. b # Genesis /\ ~ChainShape(Prev[b])
    BY <2>2, ChainShapeGrows
  <2>4. Prev[b] \in Blocks /\ Height[Prev[b]] \in Nat /\ Height[b] = Height[Prev[b]] + 1
    BY <2>3, TreeFacts, TreeShape, Zenon
  <2>5. Height[Prev[b]] \in Bad
    BY <2>3, <2>4
  <2> QED BY <2>1, <2>2, <2>4, <2>5
<1>2. \A b \in Blocks : ChainShape(b)
  BY <1>1, TreeFacts
<1> QED BY <1>2, TreeClosure DEF ChainShape

(* A block's own chain: it holds the block, and the parent's chain. *)
LEMMA ChainFacts ==
    /\ \A b \in Blocks : b \in Ancestors[b] /\ Genesis \in Ancestors[b]
    /\ \A b \in Blocks \ {Genesis} : Ancestors[b] = {b} \cup Ancestors[Prev[b]]
    /\ \A b \in Blocks : \A a \in Ancestors[b] : Ancestors[a] \subseteq Ancestors[b]
<1>1. \A b \in Blocks : b \in Ancestors[b]
  BY TreeAncestors, TreeTypes
<1>2. \A b \in Blocks : Genesis \in Ancestors[b]
  <2> SUFFICES ASSUME NEW b \in Blocks PROVE Genesis \in Ancestors[b]
    OBVIOUS
  <2>1. PICK g \in Ancestors[b] : Height[g] = 0
    BY TreeAncestors, TreeFacts
  <2>2. ASSUME g # Genesis PROVE FALSE
    <3>1. g \in Blocks \ {Genesis} /\ Prev[g] \in Blocks
      BY <2>1, <2>2, TreeFacts, Zenon
    <3>2. Height[g] = Height[Prev[g]] + 1 /\ Height[Prev[g]] \in Nat
      BY <3>1, TreeFacts, TreeShape, Zenon
    <3> QED BY <2>1, <3>2
  <2> QED BY <2>1, <2>2
<1> QED BY <1>1, <1>2, TreeAncestors, Zenon

(* The facts about Ancestors, one quantifier each. *)
LEMMA AncestorFacts ==
    ASSUME NEW b \in Blocks, NEW a \in Ancestors[b]
    PROVE  /\ a \in Blocks
           /\ Height[a] \in Nat
           /\ Height[b] \in Nat
           /\ Height[a] <= Height[b]
           /\ Ancestors[a] \subseteq Ancestors[b]
           /\ a # b => CumWork[a] < CumWork[b]
<1>1. a \in Blocks
  BY TreeFacts
<1> QED BY <1>1, TreeFacts, TreeAncestors, Zenon

(* The block at a height of a chain is on that chain, and the only one. *)
LEMMA AtFacts ==
    ASSUME NEW b \in Blocks, NEW h \in 0 .. Height[b]
    PROVE  /\ At(b, h) \in Ancestors[b]
           /\ At(b, h) \in Blocks
           /\ Height[At(b, h)] = h
           /\ \A a \in Ancestors[b] : Height[a] = h => a = At(b, h)
<1>1. \E a \in Ancestors[b] : Height[a] = h
  BY TreeAncestors, Zenon
<1>2. At(b, h) \in Ancestors[b] /\ Height[At(b, h)] = h
  BY <1>1 DEF At
<1> QED BY <1>2, TreeAncestors, TreeFacts

(* Below a block of the chain, the chain is that block's own. *)
LEMMA AtBelow ==
    ASSUME NEW b \in Blocks, NEW a \in Ancestors[b], NEW h \in 0 .. Height[a]
    PROVE  At(b, h) = At(a, h)
<1>1. a \in Blocks /\ Height[a] <= Height[b] /\ h \in 0 .. Height[b]
  BY AncestorFacts
<1>2. At(a, h) \in Ancestors[b] /\ Height[At(a, h)] = h
  BY <1>1, AtFacts, ChainFacts, Zenon
<1> QED BY <1>1, <1>2, AtFacts, Zenon

(* A branch lies strictly above its fork point. *)
LEMMA PathFacts ==
    ASSUME NEW n \in Blocks, NEW p \in Ancestors[n]
    PROVE  /\ Ancestors[n] = Path(p, n) \cup Ancestors[p]
           /\ Path(p, n) \subseteq Blocks
           /\ \A a \in Path(p, n) : Height[a] \in Height[p] + 1 .. Height[n]
           /\ \A h \in Height[p] + 1 .. Height[n] : At(n, h) \in Path(p, n)
           /\ Genesis \notin Path(p, n)
<1>1. p \in Blocks /\ Height[p] <= Height[n] /\ Ancestors[p] \subseteq Ancestors[n]
  BY AncestorFacts
<1>2. ASSUME NEW a \in Path(p, n) PROVE Height[a] \in Height[p] + 1 .. Height[n]
  <2>1. a \in Ancestors[n] /\ a \notin Ancestors[p] /\ a \in Blocks /\ Height[a] <= Height[n]
    BY <1>2, TreeAncestors, TreeFacts DEF Path
  <2>2. ASSUME Height[a] <= Height[p] PROVE FALSE
    <3>1. Height[a] \in 0 .. Height[p]
      BY <2>1, <2>2, <1>1, TreeFacts
    <3>2. At(p, Height[a]) \in Ancestors[p] /\ Height[At(p, Height[a])] = Height[a]
      BY <1>1, <3>1, AtFacts, Zenon
    <3> QED BY <3>2, <2>1, <1>1, TreeAncestors
  <2>3. Height[a] \in Nat /\ Height[p] \in Nat /\ Height[n] \in Nat
    BY <2>1, <1>1, TreeFacts
  <2> QED BY <2>1, <2>2, <2>3
<1>3. ASSUME NEW h \in Height[p] + 1 .. Height[n] PROVE At(n, h) \in Path(p, n)
  <2>1. h \in 0 .. Height[n] /\ Height[p] < h
    BY <1>1, TreeFacts
  <2>2. At(n, h) \in Ancestors[n] /\ Height[At(n, h)] = h
    BY <2>1, AtFacts, Zenon
  <2>3. \A a \in Ancestors[p] : Height[a] <= Height[p] /\ Height[a] \in Nat
    BY <1>1, TreeAncestors, TreeFacts, Zenon
  <2> QED BY <2>1, <2>2, <2>3, <1>1, TreeFacts DEF Path
<1> QED BY <1>1, <1>2, <1>3, TreeFacts, ChainFacts, Zenon DEF Path

(* Every block of a branch but its tip is the parent of another. *)
LEMMA PathSuccessor ==
    ASSUME NEW n \in Blocks, NEW p \in Ancestors[n], NEW a \in Path(p, n), a # n
    PROVE  \E c \in Path(p, n) : c # Genesis /\ Prev[c] = a
<1> DEFINE c == At(n, Height[a] + 1)
<1>1. /\ p \in Blocks /\ a \in Ancestors[n] /\ a \in Blocks
      /\ Height[a] \in Nat /\ Height[n] \in Nat /\ Height[p] \in Nat
      /\ Height[a] <= Height[n] /\ Height[a] >= Height[p] + 1
  BY PathFacts, AncestorFacts DEF Path
<1>2. Height[a] # Height[n]
  BY <1>1, ChainFacts, TreeAncestors, Zenon
<1>3. Height[a] + 1 \in 0 .. Height[n] /\ Height[a] + 1 \in Height[p] + 1 .. Height[n]
  BY <1>1, <1>2
<1>4. c \in Ancestors[n] /\ c \in Blocks /\ Height[c] = Height[a] + 1 /\ c \in Path(p, n)
  BY <1>3, AtFacts, PathFacts, Zenon
<1> HIDE DEF c
<1>5. c # Genesis
  BY <1>4, <1>1, TreeShape
<1>6. Prev[c] \in Ancestors[n] /\ Height[Prev[c]] \in Nat /\ Height[c] = Height[Prev[c]] + 1
  <2>1. Prev[c] \in Blocks
    BY <1>4, <1>5, TreeFacts, Zenon
  <2>2. Prev[c] \in Ancestors[c]
    BY <1>4, <1>5, <2>1, ChainFacts
  <2>3. Ancestors[c] \subseteq Ancestors[n]
    BY <1>4, AncestorFacts, Zenon
  <2> QED BY <2>1, <2>2, <2>3, <1>4, <1>5, TreeShape, TreeFacts, Zenon
<1>7. Height[Prev[c]] = Height[a]
  BY <1>4, <1>6, <1>1
<1>8. Prev[c] = a
  BY <1>1, <1>6, <1>7, TreeAncestors
<1> QED BY <1>4, <1>5, <1>8

(* Fork choice is a strict order in which a block beats its ancestors. *)
LEMMA BetterFacts ==
    /\ \A a \in Blocks : ~Better(a, a)
    /\ \A a, b, c \in Blocks : ~Better(a, b) /\ (c = b \/ Better(c, b)) => ~Better(a, c)
    /\ \A b \in Blocks : \A a \in Ancestors[b] : ~Better(a, b)
    /\ \A b \in Blocks \ {Genesis} : Better(b, Prev[b])
<1>1. \A a \in Blocks : a \in Nat /\ CumWork[a] \in Nat
  BY TreeFacts, Zenon
<1>2. \A a \in Blocks : ~Better(a, a)
  BY <1>1 DEF Better
<1>3. \A a, b, c \in Blocks : ~Better(a, b) /\ (c = b \/ Better(c, b)) => ~Better(a, c)
  BY <1>1 DEF Better
<1>4. ASSUME NEW b \in Blocks, NEW a \in Ancestors[b] PROVE ~Better(a, b)
  BY <1>1, AncestorFacts DEF Better
<1>5. \A b \in Blocks \ {Genesis} : Better(b, Prev[b])
  BY <1>1, TreeShape, Zenon DEF Better
<1> QED BY <1>2, <1>3, <1>4, <1>5, Zenon

-----------------------------------------------------------------------------
(* A block that was checked before it was stored.  The slot of a block on  *)
(* the origin is not checked on the fast path.                             *)
Checked(b) ==
    /\ UnclesFit(b)
    /\ b # Genesis /\ Prev[b] # Genesis => b \in OnSlot

(* The tx index names the block of the chain that holds a transaction. *)
TxsIndexed(s) ==
    \A t \in Txs : \A b \in Blocks :
        s.txBlock[t] = b <=> (t \in TxsOf[b] /\ isCanonical(s, b))

(* What every operation keeps: the index is the chain of the latest block, *)
(* whose blocks are stored; the memo holds true works; every stored block  *)
(* off the chain has a side mark and every side mark a body; every stored  *)
(* block was checked; the transactions of the chain are indexed.           *)
StoreOK(s) ==
    /\ s \in Store
    /\ s.canon = ChainIndex(s.latest)
    /\ Ancestors[s.latest] \subseteq s.bodies
    /\ \A b \in Blocks : s.work[b] \in {NoWork, CumWork[b]}
    /\ \A b \in s.bodies : ~isCanonical(s, b) => b \in s.side
    /\ s.side \subseteq s.bodies
    /\ \A b \in s.bodies : Checked(b)
    /\ TxsIndexed(s)

(* The fields of a sound store. *)
LEMMA StoreFacts ==
    ASSUME NEW s \in Store
    PROVE  /\ s.bodies \in SUBSET Blocks
           /\ s.canon \in [Heights -> Blocks \cup {NoBlock}]
           /\ s.latest \in Blocks
           /\ s.side \in SUBSET Blocks
           /\ s.work \in [Blocks -> Nat \cup {NoWork}]
           /\ s.txBlock \in [Txs -> Blocks \cup {NoBlock}]
BY Zenon DEF Store

(* What PutSideBlock writes. *)
LEMMA PutSideBlockFields ==
    ASSUME NEW s \in Store, NEW b \in Blocks
    PROVE  /\ PutSideBlock(s, b) \in Store
           /\ PutSideBlock(s, b).bodies = s.bodies \cup {b}
           /\ PutSideBlock(s, b).canon = s.canon
           /\ PutSideBlock(s, b).latest = s.latest
           /\ PutSideBlock(s, b).side = s.side \cup {b}
           /\ PutSideBlock(s, b).work = s.work
           /\ PutSideBlock(s, b).txBlock = s.txBlock
BY Zenon DEF Store, PutSideBlock
(* The index of a chain names exactly the blocks of the chain. *)
LEMMA ChainIndexFacts ==
    ASSUME NEW b \in Blocks
    PROVE  /\ ChainIndex(b) \in [Heights -> Blocks \cup {NoBlock}]
           /\ \A h \in 0 .. Height[b] : ChainIndex(b)[h] = At(b, h)
           /\ \A h \in Heights : h > Height[b] => ChainIndex(b)[h] = NoBlock
           /\ \A a \in Blocks : ChainIndex(b)[Height[a]] = a <=> a \in Ancestors[b]
<1>1. Height[b] \in Nat /\ Height[b] \in Heights /\ 0 .. Height[b] \subseteq Heights
  BY TreeFacts DEF Heights
<1>2. \A h \in 0 .. Height[b] : At(b, h) \in Blocks
  BY AtFacts, Zenon
<1>3. \A h \in Heights : h \in Nat
  BY DEF Heights
<1>4. ChainIndex(b) \in [Heights -> Blocks \cup {NoBlock}]
  BY <1>1, <1>2, <1>3 DEF ChainIndex
<1>5. \A h \in 0 .. Height[b] : ChainIndex(b)[h] = At(b, h)
  BY <1>1 DEF ChainIndex
<1>6. \A h \in Heights : h > Height[b] => ChainIndex(b)[h] = NoBlock
  BY <1>1, <1>3 DEF ChainIndex
<1>7. ASSUME NEW a \in Blocks PROVE ChainIndex(b)[Height[a]] = a <=> a \in Ancestors[b]
  <2>1. Height[a] \in Nat /\ Height[a] \in Heights
    BY TreeFacts, Zenon
  <2>2. CASE Height[a] <= Height[b]
    <3>1. Height[a] \in 0 .. Height[b]
      BY <2>1, <2>2, <1>1
    <3> QED BY <3>1, <1>5, AtFacts
  <2>3. CASE Height[a] > Height[b]
    <3>1. ChainIndex(b)[Height[a]] = NoBlock
      BY <2>1, <2>3, <1>6
    <3>2. a \notin Ancestors[b]
      BY <2>1, <2>3, <1>1, AncestorFacts
    <3> QED BY <3>1, <3>2, TreeFacts
  <2> QED BY <2>1, <2>2, <2>3, <1>1
<1> QED BY <1>4, <1>5, <1>6, <1>7, Zenon

(* A block is canonical exactly when it is on the chain of the latest. *)
LEMMA CanonicalFacts ==
    ASSUME NEW s, StoreOK(s), NEW a \in Blocks
    PROVE  isCanonical(s, a) <=> a \in Ancestors[s.latest]
BY StoreFacts, ChainIndexFacts DEF StoreOK, isCanonical

-----------------------------------------------------------------------------
(* PutSideBlock keeps the store sound when the block was checked. *)
LEMMA PutSideBlockKeeps ==
    ASSUME NEW s, StoreOK(s), NEW b \in Blocks, Checked(b)
    PROVE  StoreOK(PutSideBlock(s, b))
<1> DEFINE t == PutSideBlock(s, b)
<1>1. s \in Store
  BY DEF StoreOK
<1>2. /\ t \in Store
      /\ t.bodies = s.bodies \cup {b}
      /\ t.canon = s.canon
      /\ t.latest = s.latest
      /\ t.side = s.side \cup {b}
      /\ t.work = s.work
      /\ t.txBlock = s.txBlock
  BY <1>1, PutSideBlockFields, Zenon
<1> HIDE DEF t
<1>3. StoreOK(t)
  BY <1>2 DEF StoreOK, isCanonical, TxsIndexed
<1> QED BY <1>3 DEF t

(* A transaction is in one block of a chain, being locked to a height. *)
LEMMA TxsOfChain ==
    ASSUME NEW b \in Blocks, NEW a \in Ancestors[b], NEW c \in Ancestors[b],
           NEW t \in TxsOf[a], t \in TxsOf[c]
    PROVE  a = c
<1>1. a \in Blocks /\ c \in Blocks
  BY TreeFacts, Zenon
<1>2. Height[a] = Height[c]
  BY <1>1, TxsAreHeightLocked, Zenon
<1> QED BY <1>2, TreeAncestors

(* What PutNewBlock writes. *)
LEMMA PutNewBlockFields ==
    ASSUME NEW s \in Store, NEW b \in Blocks
    PROVE  /\ PutNewBlock(s, b) \in Store
           /\ PutNewBlock(s, b).bodies = s.bodies \cup {b}
           /\ PutNewBlock(s, b).canon = [s.canon EXCEPT ![Height[b]] = b]
           /\ PutNewBlock(s, b).latest = b
           /\ PutNewBlock(s, b).side = s.side \ {b}
           /\ PutNewBlock(s, b).work = s.work
           /\ PutNewBlock(s, b).txBlock =
                [t \in Txs |-> IF t \in TxsOf[b] THEN b ELSE s.txBlock[t]]
BY TreeFacts, Zenon DEF Store, PutNewBlock

(* The index of a chain that grows by a block. *)
LEMMA ChainIndexExtends ==
    ASSUME NEW b \in Blocks \ {Genesis}
    PROVE  ChainIndex(b) = [ChainIndex(Prev[b]) EXCEPT ![Height[b]] = b]
<1> DEFINE q == Prev[b]
<1>1. /\ q \in Blocks /\ b \in Ancestors[b] /\ q \in Ancestors[b]
      /\ Height[b] = Height[q] + 1 /\ Height[q] \in Nat /\ Height[b] \in Heights
  BY TreeFacts, ChainFacts, TreeShape, ZenonT(30)
<1>2. /\ ChainIndex(b) \in [Heights -> Blocks \cup {NoBlock}]
      /\ ChainIndex(q) \in [Heights -> Blocks \cup {NoBlock}]
  BY <1>1, ChainIndexFacts, Zenon
<1>3. ASSUME NEW h \in Heights, h # Height[b] PROVE ChainIndex(b)[h] = ChainIndex(q)[h]
  <2>1. h \in Nat
    BY DEF Heights
  <2>2. CASE h <= Height[q]
    <3>1. h \in 0 .. Height[q] /\ h \in 0 .. Height[b]
      BY <2>1, <2>2, <1>1
    <3> QED BY <3>1, <1>1, ChainIndexFacts, AtBelow
  <2>3. CASE h > Height[q]
    <3>1. h > Height[b]
      BY <2>1, <2>3, <1>1, <1>3
    <3> QED BY <3>1, <2>3, <1>1, ChainIndexFacts
  <2> QED BY <2>1, <2>2, <2>3, <1>1
<1>4. ChainIndex(b)[Height[b]] = b
  BY <1>1, ChainIndexFacts, Zenon
<1> QED BY <1>1, <1>2, <1>3, <1>4, Zenon

(* PutNewBlock keeps the store sound when the block extends the tip. *)
LEMMA PutNewBlockKeeps ==
    ASSUME NEW s, StoreOK(s), NEW b \in Blocks \ {Genesis}, Prev[b] = s.latest, Checked(b)
    PROVE  StoreOK(PutNewBlock(s, b))
<1> DEFINE t == PutNewBlock(s, b)
<1>1. s \in Store /\ s.canon = ChainIndex(s.latest)
  BY Zenon DEF StoreOK
<1>2. /\ t \in Store
      /\ t.bodies = s.bodies \cup {b}
      /\ t.canon = [s.canon EXCEPT ![Height[b]] = b]
      /\ t.latest = b
      /\ t.side = s.side \ {b}
      /\ t.work = s.work
      /\ t.txBlock = [x \in Txs |-> IF x \in TxsOf[b] THEN b ELSE s.txBlock[x]]
  BY <1>1, PutNewBlockFields
<1> HIDE DEF t
<1>3. t.canon = ChainIndex(b)
  BY <1>1, <1>2, ChainIndexExtends
<1>4. Ancestors[b] \subseteq t.bodies
  BY <1>2, ChainFacts DEF StoreOK
<1>5. ASSUME NEW c \in t.bodies, ~isCanonical(t, c) PROVE c \in t.side
  <2>0. c \in Blocks /\ t.canon[Height[c]] # c
    BY <1>2, <1>5, StoreFacts, Zenon DEF isCanonical
  <2>1. c \notin Ancestors[b]
    BY <2>0, <1>3, ChainIndexFacts
  <2>2. c # b /\ c \notin Ancestors[s.latest]
    BY <2>1, ChainFacts
  <2> QED BY <1>2, <2>0, <2>2, CanonicalFacts, Zenon DEF StoreOK
<1>6. b \notin t.side /\ t.side \subseteq t.bodies
  BY <1>2, Zenon DEF StoreOK
<1>7. \A c \in t.bodies : Checked(c)
  BY <1>2, Zenon DEF StoreOK
<1>8. \A c \in Blocks : t.work[c] \in {NoWork, CumWork[c]}
  BY <1>2, Zenon DEF StoreOK
<1>9. ASSUME NEW x \in Txs, NEW c \in Blocks
      PROVE  t.txBlock[x] = c <=> (x \in TxsOf[c] /\ isCanonical(t, c))
  <2>1. isCanonical(t, c) <=> c \in Ancestors[b]
    BY <1>3, ChainIndexFacts DEF isCanonical
  <2>2. isCanonical(s, c) <=> c \in Ancestors[s.latest]
    BY CanonicalFacts, Zenon
  <2>3. CASE x \in TxsOf[b]
    <3>1. t.txBlock[x] = b
      BY <2>3, <1>2, Zenon
    <3>2. b \in Ancestors[b]
      BY ChainFacts, Zenon
    <3>3. ASSUME x \in TxsOf[c], c \in Ancestors[b] PROVE b = c
      BY <3>2, <3>3, <2>3, TxsOfChain, Zenon
    <3> QED BY <3>1, <3>2, <3>3, <2>1, <2>3, Zenon
  <2>4. CASE x \notin TxsOf[b]
    <3>1. t.txBlock[x] = s.txBlock[x]
      BY <2>4, <1>2, Zenon
    <3>2. Ancestors[b] = {b} \cup Ancestors[s.latest]
      BY ChainFacts, Zenon
    <3> QED BY <3>1, <3>2, <2>1, <2>2, <2>4 DEF StoreOK, TxsIndexed
  <2> QED BY <2>3, <2>4, Zenon
<1>10. StoreOK(t)
  BY <1>2, <1>3, <1>4, <1>5, <1>6, <1>7, <1>8, <1>9, Zenon DEF StoreOK, TxsIndexed
<1> QED BY <1>10, Zenon DEF t
-----------------------------------------------------------------------------
(* The blocks a switch replaces are those of the old chain above p. *)
LEMMA CanonAboveFacts ==
    ASSUME NEW s, StoreOK(s), NEW p \in Ancestors[s.latest]
    PROVE  CanonAbove(s, p) = Path(p, s.latest)
<1>1. s.latest \in Blocks /\ s.canon = ChainIndex(s.latest)
  BY StoreFacts, Zenon DEF StoreOK
<1>2. p \in Blocks /\ Height[p] \in Nat /\ Height[s.latest] \in Nat
  BY <1>1, TreeFacts, Zenon
<1>3. ASSUME NEW h \in Height[p] + 1 .. Height[s.latest]
      PROVE  s.canon[h] \in Path(p, s.latest)
  <2>1. h \in 0 .. Height[s.latest]
    BY <1>2
  <2> QED BY <1>1, <2>1, ChainIndexFacts, PathFacts
<1>4. ASSUME NEW a \in Path(p, s.latest)
      PROVE  \E h \in Height[p] + 1 .. Height[s.latest] : a = s.canon[h]
  <2>1. Height[a] \in Height[p] + 1 .. Height[s.latest]
    BY <1>1, PathFacts, Zenon
  <2>2. a \in Blocks /\ a \in Ancestors[s.latest]
    BY <1>1, TreeFacts, Zenon DEF Path
  <2>3. s.canon[Height[a]] = a
    BY <1>1, <2>2, ChainIndexFacts, Zenon
  <2> QED BY <2>1, <2>3, Zenon
<1> QED BY <1>3, <1>4, Zenon DEF CanonAbove

(* The switched index is the index of the new chain. *)
LEMMA SwitchedIndexFacts ==
    ASSUME NEW s, StoreOK(s), NEW n \in Blocks, NEW p \in Ancestors[n], p \in Ancestors[s.latest]
    PROVE  SwitchedIndex(s, p, n) = ChainIndex(n)
<1> DEFINE l == s.latest
           i == SwitchedIndex(s, p, n)
<1>1. l \in Blocks /\ s.canon = ChainIndex(l)
  BY StoreFacts, Zenon DEF StoreOK
<1>2. /\ p \in Blocks /\ Height[p] \in Nat /\ Height[l] \in Nat /\ Height[n] \in Nat
      /\ Height[p] <= Height[n] /\ Height[p] <= Height[l]
  BY <1>1, AncestorFacts, Zenon
<1>3. ASSUME NEW h \in Heights PROVE i[h] = ChainIndex(n)[h]
  <2>1. h \in Nat
    BY DEF Heights
  <2>2. i[h] = IF h \in Height[p] + 1 .. Height[n] THEN At(n, h)
               ELSE IF h \in Height[n] + 1 .. Height[l] THEN NoBlock ELSE s.canon[h]
    BY Zenon DEF SwitchedIndex
  <2>3. CASE h <= Height[p]
    <3>1. h \in 0 .. Height[p] /\ h \in 0 .. Height[n] /\ h \in 0 .. Height[l]
      BY <2>1, <2>3, <1>2
    <3>2. i[h] = s.canon[h]
      BY <2>1, <2>2, <2>3, <1>2
    <3>3. At(l, h) = At(p, h) /\ At(n, h) = At(p, h)
      BY <3>1, <1>1, AtBelow, Zenon
    <3> QED BY <3>1, <3>2, <3>3, <1>1, ChainIndexFacts
  <2>4. CASE h > Height[p] /\ h <= Height[n]
    <3>1. h \in Height[p] + 1 .. Height[n] /\ h \in 0 .. Height[n]
      BY <2>1, <2>4, <1>2
    <3> QED BY <3>1, <2>2, ChainIndexFacts, Zenon
  <2>5. CASE h > Height[n]
    <3>1. h \notin Height[p] + 1 .. Height[n] /\ ChainIndex(n)[h] = NoBlock
      BY <2>1, <2>5, <1>2, ChainIndexFacts
    <3>2. CASE h <= Height[l]
      BY <3>1, <3>2, <2>1, <2>2, <2>5, <1>2
    <3>3. CASE h > Height[l]
      <4>1. ChainIndex(l)[h] = NoBlock
        BY <3>3, <1>1, ChainIndexFacts, Zenon
      <4>2. h \notin Height[n] + 1 .. Height[l]
        BY <3>3, <2>1, <1>2
      <4> QED BY <4>1, <4>2, <3>1, <2>2, <1>1, Zenon
    <3> QED BY <3>2, <3>3, <2>1, <1>2
  <2> QED BY <2>1, <2>3, <2>4, <2>5, <1>2
<1>4. i = [h \in Heights |-> i[h]] /\ ChainIndex(n) = [h \in Heights |-> ChainIndex(n)[h]]
  BY Zenon DEF SwitchedIndex, ChainIndex
<1> HIDE DEF i
<1>5. i = ChainIndex(n)
  BY <1>3, <1>4, Zenon
<1> QED BY <1>5, Zenon DEF i

(* What SwitchToBranch writes. *)
LEMMA SwitchToBranchFields ==
    ASSUME NEW s, StoreOK(s), NEW n \in Blocks, NEW p \in Ancestors[n], p \in Ancestors[s.latest]
    PROVE  /\ SwitchToBranch(s, p, n) \in Store
           /\ SwitchToBranch(s, p, n).bodies = s.bodies \cup Path(p, n)
           /\ SwitchToBranch(s, p, n).canon = ChainIndex(n)
           /\ SwitchToBranch(s, p, n).latest = n
           /\ SwitchToBranch(s, p, n).side = (s.side \cup Path(p, s.latest)) \ Path(p, n)
           /\ SwitchToBranch(s, p, n).work = s.work
           /\ SwitchToBranch(s, p, n).txBlock = SwitchedTxs(s, p, n)
<1>1. s \in Store /\ s.latest \in Blocks
  BY StoreFacts, Zenon DEF StoreOK
<1>2. Path(p, n) \subseteq Blocks /\ Path(p, s.latest) \subseteq Blocks
  BY <1>1, PathFacts, Zenon
<1>3. SwitchedSide(s, p, n) = (s.side \cup Path(p, s.latest)) \ Path(p, n)
  BY CanonAboveFacts, Zenon DEF SwitchedSide
<1>4. SwitchedIndex(s, p, n) = ChainIndex(n) /\ ChainIndex(n) \in [Heights -> Blocks \cup {NoBlock}]
  BY SwitchedIndexFacts, ChainIndexFacts, Zenon
<1>5. SwitchedTxs(s, p, n) \in [Txs -> Blocks \cup {NoBlock}]
  <2> SUFFICES ASSUME NEW t \in Txs
               PROVE  SwitchedTxs(s, p, n)[t] \in Blocks \cup {NoBlock}
    BY Zenon DEF SwitchedTxs
  <2>1. s.txBlock[t] \in Blocks \cup {NoBlock}
    BY <1>1, StoreFacts, Zenon
  <2>2. CASE \E b \in Path(p, n) : t \in TxsOf[b]
    <3>1. (CHOOSE b \in Path(p, n) : t \in TxsOf[b]) \in Path(p, n)
      BY <2>2, Zenon
    <3> QED BY <2>2, <3>1, <1>2, Zenon DEF SwitchedTxs
  <2>3. CASE ~\E b \in Path(p, n) : t \in TxsOf[b]
    BY <2>1, <2>3, Zenon DEF SwitchedTxs
  <2> QED BY <2>2, <2>3, Zenon
<1> QED BY <1>1, <1>2, <1>3, <1>4, <1>5, Zenon DEF Store, SwitchToBranch

(* After the switch the tx index names the blocks of the new chain, the    *)
(* transactions of both branches included.                                 *)
LEMMA SwitchedTxsFacts ==
    ASSUME NEW s, StoreOK(s), NEW n \in Blocks, NEW p \in Ancestors[n], p \in Ancestors[s.latest],
           NEW t \in Txs, NEW c \in Blocks
    PROVE  SwitchedTxs(s, p, n)[t] = c <=> (t \in TxsOf[c] /\ c \in Ancestors[n])
<1> DEFINE l == s.latest
           new == {b \in Path(p, n) : t \in TxsOf[b]}
           old == {b \in Path(p, l) : t \in TxsOf[b]}
<1>1. l \in Blocks /\ CanonAbove(s, p) = Path(p, l)
  BY CanonAboveFacts, StoreFacts, Zenon DEF StoreOK
<1>2. /\ Ancestors[n] = Path(p, n) \cup Ancestors[p]
      /\ Ancestors[l] = Path(p, l) \cup Ancestors[p]
  BY <1>1, PathFacts, Zenon
<1>3. s.txBlock[t] = c <=> (t \in TxsOf[c] /\ c \in Ancestors[l])
  BY CanonicalFacts, Zenon DEF StoreOK, TxsIndexed
<1>4. SwitchedTxs(s, p, n)[t] = IF new # {} THEN CHOOSE b \in Path(p, n) : t \in TxsOf[b]
                                ELSE IF old # {} THEN NoBlock ELSE s.txBlock[t]
  BY <1>1, Zenon DEF SwitchedTxs
<1>5. CASE new # {}
  <2>1. PICK b \in Path(p, n) : t \in TxsOf[b] /\ SwitchedTxs(s, p, n)[t] = b
    BY <1>4, <1>5, Zenon
  <2> QED BY <2>1, <1>2, TxsOfChain, Zenon
<1>6. CASE new = {} /\ old # {}
  <2>1. PICK b \in Path(p, l) : t \in TxsOf[b]
    BY <1>6, Zenon
  <2>2. ASSUME c \in Ancestors[p], t \in TxsOf[c] PROVE FALSE
    <3>1. b = c
      BY <2>1, <2>2, <1>1, <1>2, TxsOfChain, Zenon
    <3> QED BY <3>1, <2>2, Zenon DEF Path
  <2> QED BY <2>2, <1>2, <1>4, <1>6, TreeFacts, Zenon
<1>7. CASE new = {} /\ old = {}
  BY <1>2, <1>3, <1>4, <1>7, Zenon
<1> QED BY <1>5, <1>6, <1>7, Zenon

(* SwitchToBranch keeps the store sound when the branch forks off the      *)
(* canonical chain and its blocks were checked.                            *)
LEMMA SwitchToBranchKeeps ==
    ASSUME NEW s, StoreOK(s), NEW n \in Blocks, NEW p \in Ancestors[n], p \in Ancestors[s.latest],
           \A a \in Path(p, n) : Checked(a)
    PROVE  StoreOK(SwitchToBranch(s, p, n))
<1> DEFINE t == SwitchToBranch(s, p, n)
<1>1. /\ t \in Store
      /\ t.bodies = s.bodies \cup Path(p, n)
      /\ t.canon = ChainIndex(n)
      /\ t.latest = n
      /\ t.side = (s.side \cup Path(p, s.latest)) \ Path(p, n)
      /\ t.work = s.work
      /\ t.txBlock = SwitchedTxs(s, p, n)
  BY SwitchToBranchFields
<1> HIDE DEF t
<1>2. s.latest \in Blocks /\ Ancestors[s.latest] \subseteq s.bodies /\ s.side \subseteq s.bodies
  BY StoreFacts, Zenon DEF StoreOK
<1>3. /\ Ancestors[n] = Path(p, n) \cup Ancestors[p]
      /\ Ancestors[p] \subseteq Ancestors[s.latest]
      /\ Ancestors[s.latest] = Path(p, s.latest) \cup Ancestors[p]
  BY <1>2, PathFacts, AncestorFacts, Zenon
<1>4. Ancestors[n] \subseteq t.bodies /\ t.side \subseteq t.bodies
  BY <1>1, <1>2, <1>3, Zenon
<1>5. ASSUME NEW c \in t.bodies, ~isCanonical(t, c) PROVE c \in t.side
  <2>1. c \in Blocks /\ t.canon[Height[c]] # c
    BY <1>1, <1>5, StoreFacts, Zenon DEF isCanonical
  <2>2. c \notin Ancestors[n]
    BY <2>1, <1>1, ChainIndexFacts
  <2>3. c \in s.bodies /\ c \notin Ancestors[p] /\ c \notin Path(p, n)
    BY <2>2, <1>1, <1>3, Zenon
  <2>4. CASE c \in Ancestors[s.latest]
    BY <2>3, <2>4, <1>1, <1>3, Zenon
  <2>5. CASE c \notin Ancestors[s.latest]
    <3>1. ~isCanonical(s, c)
      BY <2>1, <2>5, CanonicalFacts, Zenon
    <3> QED BY <3>1, <2>3, <1>1, Zenon DEF StoreOK
  <2> QED BY <2>4, <2>5, Zenon
<1>6. \A c \in t.bodies : Checked(c)
  BY <1>1, Zenon DEF StoreOK
<1>7. \A c \in Blocks : t.work[c] \in {NoWork, CumWork[c]}
  BY <1>1, Zenon DEF StoreOK
<1>8. ASSUME NEW x \in Txs, NEW c \in Blocks
      PROVE  t.txBlock[x] = c <=> (x \in TxsOf[c] /\ isCanonical(t, c))
  <2>1. isCanonical(t, c) <=> c \in Ancestors[n]
    BY <1>1, ChainIndexFacts DEF isCanonical
  <2> QED BY <2>1, <1>1, SwitchedTxsFacts
<1>9. StoreOK(t)
  BY <1>1, <1>4, <1>5, <1>6, <1>7, <1>8, Zenon DEF StoreOK, TxsIndexed
<1> QED BY <1>9, Zenon DEF t
-----------------------------------------------------------------------------
(* What PruneSideBlocks writes. *)
LEMMA PruneSideBlocksFields ==
    ASSUME NEW s \in Store, NEW below
    PROVE  /\ PruneSideBlocks(s, below) \in Store
           /\ PruneSideBlocks(s, below).bodies = s.bodies \ Prunable(s, below)
           /\ PruneSideBlocks(s, below).canon = s.canon
           /\ PruneSideBlocks(s, below).latest = s.latest
           /\ PruneSideBlocks(s, below).side = s.side \ Prunable(s, below)
           /\ PruneSideBlocks(s, below).work =
                [b \in Blocks |-> IF b \in Prunable(s, below) THEN NoWork ELSE s.work[b]]
           /\ PruneSideBlocks(s, below).txBlock = s.txBlock
BY Zenon DEF Store, PruneSideBlocks

(* PruneSideBlocks keeps the store sound: it takes no block of the chain. *)
LEMMA PruneSideBlocksKeeps ==
    ASSUME NEW s, StoreOK(s), NEW below
    PROVE  StoreOK(PruneSideBlocks(s, below))
<1> DEFINE t == PruneSideBlocks(s, below)
           v == Prunable(s, below)
<1>1. s \in Store /\ s.latest \in Blocks
  BY StoreFacts, Zenon DEF StoreOK
<1>2. /\ t \in Store
      /\ t.bodies = s.bodies \ v
      /\ t.canon = s.canon
      /\ t.latest = s.latest
      /\ t.side = s.side \ v
      /\ t.work = [b \in Blocks |-> IF b \in v THEN NoWork ELSE s.work[b]]
      /\ t.txBlock = s.txBlock
  BY <1>1, PruneSideBlocksFields, Zenon
<1>3. \A a \in v : ~isCanonical(s, a)
  BY Zenon DEF Prunable
<1> HIDE DEF t, v
<1>4. ASSUME NEW a \in Ancestors[s.latest] PROVE a \in t.bodies
  <2>1. a \in Blocks
    BY <1>1, TreeFacts, Zenon
  <2>2. a \in s.bodies /\ isCanonical(s, a)
    BY <2>1, CanonicalFacts, Zenon DEF StoreOK
  <2> QED BY <2>2, <1>2, <1>3, Zenon
<1>5. \A b \in t.bodies : ~isCanonical(t, b) => b \in t.side
  BY <1>2, Zenon DEF StoreOK, isCanonical
<1>6. \A b \in Blocks : t.work[b] \in {NoWork, CumWork[b]}
  BY <1>2, Zenon DEF StoreOK
<1>7. /\ t.side \subseteq t.bodies /\ \A b \in t.bodies : Checked(b)
      /\ TxsIndexed(t)
  BY <1>2 DEF StoreOK, TxsIndexed, isCanonical
<1>8. StoreOK(t)
  BY <1>2, <1>4, <1>5, <1>6, <1>7, Zenon DEF StoreOK
<1> QED BY <1>8, Zenon DEF t

-----------------------------------------------------------------------------
(* From a sound memo the walk of cumulativeWork computes true works. *)
LEMMA WorkFromFacts ==
    ASSUME NEW s, StoreOK(s), NEW b \in Blocks, NEW m \in Ancestors[b], NEW a \in Blocks
    PROVE  WorkFrom(s, m, a) = CumWork[a]
<1>1. m \in Blocks /\ CumWork[m] \in Nat /\ CumWork[a] \in Nat
  BY TreeFacts, Zenon
<1>2. s.work[m] \in {NoWork, CumWork[m]}
  BY <1>1, Zenon DEF StoreOK
<1> QED BY <1>1, <1>2 DEF WorkFrom

(* cumulativeWork computes the true work. *)
LEMMA cumulativeWorkFacts ==
    ASSUME NEW s, StoreOK(s), NEW b \in Blocks, WalkConnected(s, b)
    PROVE  cumulativeWork(s, b) = CumWork[b]
<1>1. WalkEnd(s, b) \in Ancestors[b]
  BY Zenon DEF WalkConnected, WalkEnd
<1> QED BY <1>1, WorkFromFacts, Zenon DEF cumulativeWork

(* MemoWork writes nothing but true works. *)
LEMMA MemoWorkKeeps ==
    ASSUME NEW s, StoreOK(s), NEW b \in Blocks, WalkConnected(s, b)
    PROVE  /\ StoreOK(MemoWork(s, b))
           /\ MemoWork(s, b).bodies = s.bodies
           /\ MemoWork(s, b).canon = s.canon
           /\ MemoWork(s, b).latest = s.latest
           /\ MemoWork(s, b).side = s.side
           /\ MemoWork(s, b).txBlock = s.txBlock
<1> DEFINE t == MemoWork(s, b)
           m == WalkEnd(s, b)
<1>1. s \in Store /\ s.work \in [Blocks -> Nat \cup {NoWork}]
  BY StoreFacts, Zenon DEF StoreOK
<1>2. m \in Ancestors[b]
  BY Zenon DEF WalkConnected, WalkEnd
<1>3. CASE s.work[b] # NoWork
  BY <1>3 DEF MemoWork
<1>4. CASE s.work[b] = NoWork
  <2> DEFINE w == [a \in Blocks |-> IF a \in Path(m, b) \cup {m} THEN WorkFrom(s, m, a)
                                    ELSE s.work[a]]
  <2>1. \A a \in Blocks : w[a] = CumWork[a] \/ w[a] = s.work[a]
    BY <1>2, WorkFromFacts, Zenon
  <2>2. w \in [Blocks -> Nat \cup {NoWork}]
    BY <1>1, <2>1, TreeFacts, Zenon
  <2>3. \A a \in Blocks : w[a] \in {NoWork, CumWork[a]}
    BY <2>1, Zenon DEF StoreOK
  <2>4. t = [s EXCEPT !.work = w]
    BY <1>4 DEF MemoWork
  <2> HIDE DEF w, t
  <2>5. /\ t \in Store
        /\ t.bodies = s.bodies /\ t.canon = s.canon /\ t.latest = s.latest
        /\ t.side = s.side /\ t.work = w /\ t.txBlock = s.txBlock
    BY <1>1, <2>2, <2>4, Zenon DEF Store
  <2>6. StoreOK(t)
    BY <2>3, <2>5 DEF StoreOK, isCanonical, TxsIndexed
  <2> QED BY <2>5, <2>6, Zenon DEF t
<1> QED BY <1>3, <1>4, Zenon

(* The walk from the tip always ends: the chain is stored down to genesis, *)
(* so there is a highest block on it whose work is known, or genesis.      *)
LEMMA TipWalkConnected ==
    ASSUME NEW s, StoreOK(s)
    PROVE  WalkConnected(s, s.latest)
<1> DEFINE l == s.latest
           ends == {a \in Ancestors[l] : s.work[a] # NoWork \/ a = Genesis}
           depths == {Height[l] - Height[a] : a \in ends}
<1>1. l \in Blocks /\ Ancestors[l] \subseteq s.bodies /\ Genesis \in ends
  BY StoreFacts, ChainFacts, Zenon DEF StoreOK
<1>2. depths \subseteq Nat /\ depths # {}
  BY <1>1, AncestorFacts
<1>3. PICK d \in depths : \A e \in depths : d <= e
  BY <1>2, LeastNumber, Zenon
<1>4. PICK m \in ends : d = Height[l] - Height[m]
  BY Zenon
<1>5. ASSUME NEW a \in Path(m, l) PROVE s.work[a] = NoWork /\ Prev[a] \in s.bodies
  <2>1. a \in Ancestors[l] /\ a \in Blocks /\ a # Genesis /\ Height[a] \in Height[m] + 1 .. Height[l]
    BY <1>1, <1>4, PathFacts DEF Path
  <2>2. Prev[a] \in Ancestors[l]
    <3>1. Prev[a] \in Ancestors[a]
      BY <2>1, ChainFacts, TreeFacts, ZenonT(40)
    <3> QED BY <3>1, <2>1, <1>1, AncestorFacts, Zenon
  <2>3. a \notin ends
    <3>1. Height[l] \in Nat /\ Height[m] \in Nat /\ Height[a] \in Nat
      BY <2>1, <1>1, <1>4, AncestorFacts, Zenon
    <3>2. a \in ends => d <= Height[l] - Height[a]
      BY <1>3, Zenon
    <3> QED BY <3>1, <3>2, <2>1, <1>4
  <2> QED BY <2>1, <2>2, <2>3, <1>1, Zenon
<1> QED BY <1>4, <1>5, Zenon DEF WalkConnected, WalkEnds

(* A block that passes validateUncles, and the check of its slot unless it *)
(* sits on the origin, is checked.                                         *)
LEMMA CheckedFacts ==
    ASSUME NEW bodies, NEW b \in Blocks, validateUncles(bodies, b),
           b \in OnTarget \/ Prev[b] = Genesis
    PROVE  Checked(b)
BY TreeTypes, Zenon DEF validateUncles, UnclesFit, Checked

-----------------------------------------------------------------------------
(* Rounding down to a multiple of r. *)
LEMMA RoundDown ==
    ASSUME NEW r \in Nat \ {0}, NEW a \in Nat, NEW b \in Nat
    PROVE  /\ (a \div r) * r \in Nat
           /\ (a \div r) * r <= a
           /\ (a \div r) * r <= b => (a \div r) * r <= (b \div r) * r
<1> DEFINE q == a \div r
           k == b \div r
<1>1. q \in Nat /\ q * r <= a
  BY Z3
<1>2. k \in Nat /\ b < k * r + r
  BY Z3
<1> HIDE DEF q, k
<1>3. q * r \in Nat /\ k * r \in Nat
  BY <1>1, <1>2
<1>4. ASSUME q * r <= b, ~(q * r <= k * r) PROVE FALSE
  <2>1. q > k
    BY <1>1, <1>2, <1>4, Z3
  <2>2. q >= k + 1
    BY <2>1, <1>1, <1>2
  <2>3. q * r >= (k + 1) * r
    BY <2>2, <1>1, <1>2, Z3
  <2>4. (k + 1) * r = k * r + r
    BY <1>2, Z3
  <2> QED BY <2>3, <2>4, <1>2, <1>3, <1>4
<1>5. q * r \in Nat /\ q * r <= a /\ (q * r <= b => q * r <= k * r)
  BY <1>1, <1>3, <1>4, Zenon
<1> QED BY <1>5, Zenon DEF q, k

(* The finality line lies at or below the tip's parent, and a tip above it *)
(* has its own line no lower.                                              *)
LEMMA FinalityFacts ==
    ASSUME NEW t \in Nat, NEW n \in Nat
    PROVE  /\ finalityHeight(t) \in Nat
           /\ finalityHeight(t) <= t
           /\ t > 0 => finalityHeight(t) < t
           /\ finalityHeight(t) < n \/ t <= n => finalityHeight(t) <= finalityHeight(n)
<1>1. CheckRound \in Nat \ {0}
  BY TreeTypes, Zenon
<1>2. CASE t = 0
  <2>1. finalityHeight(t) = 0
    BY <1>2, Zenon DEF finalityHeight
  <2>2. n > 0 => finalityHeight(n) \in Nat
    BY <1>1, RoundDown DEF finalityHeight
  <2>3. n = 0 => finalityHeight(n) = 0
    BY DEF finalityHeight
  <2> QED BY <2>1, <2>2, <2>3, <1>2
<1>3. CASE t > 0
  <2>1. finalityHeight(t) = ((t - 1) \div CheckRound) * CheckRound /\ t - 1 \in Nat
    BY <1>3 DEF finalityHeight
  <2>2. finalityHeight(t) \in Nat /\ finalityHeight(t) <= t - 1
    BY <2>1, <1>1, RoundDown, Zenon
  <2>3. ASSUME finalityHeight(t) < n \/ t <= n PROVE finalityHeight(t) <= finalityHeight(n)
    <3>1. n > 0 /\ n - 1 \in Nat /\ finalityHeight(t) <= n - 1
      BY <2>2, <2>3, <1>3
    <3>2. finalityHeight(n) = ((n - 1) \div CheckRound) * CheckRound
      BY <3>1 DEF finalityHeight
    <3> QED BY <3>1, <3>2, <2>1, <1>1, RoundDown, SMTT(30)
  <2> QED BY <2>2, <2>3, <1>3
<1> QED BY <1>2, <1>3

(* What maintenance at a tip leaves of the stored blocks: at a checkpoint, *)
(* the chain and what is not below the prune line.                         *)
PrunedBodies(bodies, tip) ==
    IF IsHead(tip)
    THEN {b \in bodies : \/ b \in Ancestors[tip]
                        \/ Height[b] >= sideBlockPruneHeight(Height[tip])}
    ELSE bodies

(* Maintenance only removes. *)
LEMMA PrunedSubset ==
    ASSUME NEW bodies, NEW tip
    PROVE  PrunedBodies(bodies, tip) \subseteq bodies
BY Zenon DEF PrunedBodies

(* In a sound store every block off the chain has its mark, so that        *)
(* PruneSideBlocks finds all of them.                                      *)
LEMMA PrunedBodiesFacts ==
    ASSUME NEW s, StoreOK(s), IsHead(s.latest)
    PROVE  PruneSideBlocks(s, sideBlockPruneHeight(Height[s.latest])).bodies
             = PrunedBodies(s.bodies, s.latest)
<1> DEFINE below == sideBlockPruneHeight(Height[s.latest])
<1>1. /\ s \in Store /\ s.latest \in Blocks /\ s.bodies \subseteq Blocks
      /\ Height[s.latest] \in Nat /\ UncleMaxDepth \in Nat
      /\ \A b \in Blocks : Height[b] \in Nat
  BY StoreFacts, TreeFacts, TreeTypes, Zenon DEF StoreOK
<1>2. below \in Int
  BY <1>1, FinalityFacts DEF sideBlockPruneHeight
<1>3. PruneSideBlocks(s, below).bodies = s.bodies \ Prunable(s, below)
  BY <1>1, PruneSideBlocksFields, Zenon
<1> HIDE DEF below
<1>4. ASSUME NEW b \in s.bodies
      PROVE  b \notin Prunable(s, below) <=> (b \in Ancestors[s.latest] \/ Height[b] >= below)
  <2>1. b \in Blocks /\ Height[b] \in Nat
    BY <1>1, Zenon
  <2>2. isCanonical(s, b) <=> b \in Ancestors[s.latest]
    BY <2>1, CanonicalFacts, Zenon
  <2>3. ~isCanonical(s, b) => b \in s.side
    BY Zenon DEF StoreOK
  <2>4. Height[b] < below <=> ~(Height[b] >= below)
    BY <2>1, <1>2
  <2> QED BY <2>2, <2>3, <2>4, Zenon DEF Prunable
<1>5. s.bodies \ Prunable(s, below)
        = {b \in s.bodies : b \in Ancestors[s.latest] \/ Height[b] >= below}
  BY <1>4, Zenon
<1> QED BY <1>3, <1>5, Zenon DEF PrunedBodies, below
=============================================================================
