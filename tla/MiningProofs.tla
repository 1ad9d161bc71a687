---------------------------- MODULE MiningProofs ----------------------------
(***************************************************************************)
(* The blocks a node assembles and the chain they end up in, for every set *)
(* of miners and transactions: each block on the main chain has the header *)
(* and the state root that its parent determines, a template on the latest *)
(* block is a block ApplyBlock takes, and the balances are what the blocks *)
(* issued.  ChainTo, StateAfter and the rewards are recursive functions;   *)
(* what one step of them computes is derived here from a least             *)
(* counterexample, since the store numbers its blocks.                     *)
(***************************************************************************)
EXTENDS Mining, TLAPS, WellFoundedInduction

(* A set of numbers has a least one. *)
LEMMA LeastNumber ==
    ASSUME NEW S \in SUBSET Nat, S # {}
    PROVE  \E d \in S : \A e \in S : d <= e
<1>1. PICK d \in S : \A e \in S : ~(<<e, d>> \in OpToRel(<, Nat))
  BY NatLessThanWellFounded, WFMin, Zenon
<1>2. \A e \in Nat : e < d => <<e, d>> \in OpToRel(<, Nat)
  BY DEF OpToRel
<1>3. \A e \in S : ~(e < d) /\ e \in Nat /\ d \in Nat
  BY <1>1, <1>2, Zenon
<1> QED BY <1>3

-----------------------------------------------------------------------------
(* Every block but the first is above its parent in the store. *)
Linked ==
    /\ Len(store) \in Nat \ {0} /\ Stored = 1 .. Len(store)
    /\ \A c \in Stored \ {Genesis} : store[c].prev \in 1 .. (c - 1)

(* The chains of the blocks up to k can be tabulated. *)
LEMMA ChainTable ==
    ASSUME Linked
    PROVE  \E f : f = [c \in Stored |-> IF c = Genesis THEN <<c>> ELSE Append(f[store[c].prev], c)]
<1> DEFINE Solves(f, k) ==
             f = [c \in 1 .. k |-> IF c = Genesis THEN <<c>> ELSE Append(f[store[c].prev], c)]
           Bad == {k \in 0 .. Len(store) : ~\E f : Solves(f, k)}
<1>1. Len(store) \in Nat \ {0} /\ Stored = 1 .. Len(store)
  BY Zenon DEF Linked
<1>2. \E f : Solves(f, 0)
  <2>1. Solves([c \in 1 .. 0 |-> c], 0)
    OBVIOUS
  <2> QED BY <2>1
<1>3. ASSUME NEW k \in Nat, k < Len(store), NEW f, Solves(f, k)
      PROVE  \E g : Solves(g, k + 1)
  <2> DEFINE g == [c \in 1 .. (k + 1) |-> IF c = Genesis THEN <<c>> ELSE Append(f[store[c].prev], c)]
  <2>1. ASSUME NEW c \in 1 .. k PROVE g[c] = f[c]
    <3>1. c \in 1 .. (k + 1)
      OBVIOUS
    <3> QED BY <3>1, <1>3, Zenon
  <2>2. ASSUME NEW c \in 1 .. (k + 1), c # Genesis PROVE store[c].prev \in 1 .. k
    BY <2>2, <1>1, <1>3 DEF Linked
  <2>3. ASSUME NEW c \in 1 .. (k + 1), c # Genesis PROVE g[store[c].prev] = f[store[c].prev]
    BY <2>1, <2>2, <2>3, Zenon
  <2>4. ASSUME NEW c \in 1 .. (k + 1)
        PROVE  g[c] = IF c = Genesis THEN <<c>> ELSE Append(g[store[c].prev], c)
    BY <2>3, Zenon
  <2>5. DOMAIN g = 1 .. (k + 1) /\ g = [c \in 1 .. (k + 1) |-> g[c]]
    BY Zenon
  <2> HIDE DEF g
  <2>6. Solves(g, k + 1)
    BY <2>4, <2>5, Zenon
  <2> QED BY <2>6, Zenon
<1> HIDE DEF Solves
<1>4. ASSUME Bad # {} PROVE FALSE
  <2>0. Bad \in SUBSET Nat
    BY <1>1
  <2>1. PICK k \in Bad : \A j \in Bad : k <= j
    BY <2>0, <1>4, LeastNumber, Zenon
  <2>2. k # 0
    BY <1>2, <2>1
  <2>3. k - 1 \in Nat /\ k - 1 < Len(store) /\ k - 1 \notin Bad /\ (k - 1) + 1 = k
    BY <2>1, <2>2, <1>1
  <2>4. \E f : Solves(f, k - 1)
    BY <2>3, <1>1
  <2> QED BY <2>1, <2>3, <2>4, <1>3
<1>5. \E f : Solves(f, Len(store))
  BY <1>1, <1>4
<1> QED BY <1>1, <1>5, Zenon DEF Solves

(* ChainTo puts a block on top of its parent's chain. *)
ChainUnfolds ==
    Linked => \A b \in Stored :
        ChainTo(b) = IF b = Genesis THEN <<b>> ELSE Append(ChainTo(store[b].prev), b)

(* ... which the table shows, ... *)
LEMMA ChainUnfold == ChainUnfolds
<1> SUFFICES ASSUME Linked PROVE
      \A b \in Stored : ChainTo(b) = IF b = Genesis THEN <<b>> ELSE Append(ChainTo(store[b].prev), b)
  BY Zenon DEF ChainUnfolds
<1> DEFINE up == CHOOSE f : f = [c \in Stored |-> IF c = Genesis THEN <<c>> ELSE Append(f[store[c].prev], c)]
<1>1. up = [c \in Stored |-> IF c = Genesis THEN <<c>> ELSE Append(up[store[c].prev], c)]
  BY ChainTable, Zenon
<1>2. \A c : ChainTo(c) = up[c]
  BY Zenon DEF ChainTo
<1> HIDE DEF up
<1> QED BY <1>1, <1>2, Zenon
(* What a block mints to a, reading the uncles from the store s. *)
MintedIn(s, block, a) ==
    (IF block.gen.to = a THEN block.gen.value ELSE 0)
    + SumFunctionOnSet(block.rewards, {u \in block.uncles : s[u].gen.to = a})

(* Upgrade, reading the uncles from the store s. *)
UpgradeIn(s, state, block) ==
    [balance |-> [a \in Miners |-> state.balance[a] + MintedIn(s, block, a) - Burnt(block, a)],
     beacon |-> IF IsForkActive("randomBeacon", block.height)
                THEN Append(state.beacon, block.prev) ELSE state.beacon]

(* The state before the genesis block. *)
NoState == [balance |-> [a \in Miners |-> 0], beacon |-> <<>>]

(* So can the states after the blocks. *)
LEMMA StateTable ==
    ASSUME Linked
    PROVE  \E f : f = [c \in Stored |-> IF c = Genesis THEN NoState ELSE UpgradeIn(store, f[store[c].prev], store[c])]
<1> DEFINE Solves(f, k) ==
             f = [c \in 1 .. k |-> IF c = Genesis THEN NoState ELSE UpgradeIn(store, f[store[c].prev], store[c])]
           Bad == {k \in 0 .. Len(store) : ~\E f : Solves(f, k)}
<1>1. Len(store) \in Nat \ {0} /\ Stored = 1 .. Len(store)
  BY Zenon DEF Linked
<1>2. \E f : Solves(f, 0)
  <2>1. Solves([c \in 1 .. 0 |-> c], 0)
    OBVIOUS
  <2> QED BY <2>1
<1>3. ASSUME NEW k \in Nat, k < Len(store), NEW f, Solves(f, k)
      PROVE  \E g : Solves(g, k + 1)
  <2> DEFINE g == [c \in 1 .. (k + 1) |-> IF c = Genesis THEN NoState ELSE UpgradeIn(store, f[store[c].prev], store[c])]
  <2>1. ASSUME NEW c \in 1 .. k PROVE g[c] = f[c]
    <3>1. c \in 1 .. (k + 1)
      OBVIOUS
    <3> QED BY <3>1, <1>3, Zenon
  <2>2. ASSUME NEW c \in 1 .. (k + 1), c # Genesis PROVE store[c].prev \in 1 .. k
    BY <2>2, <1>1, <1>3 DEF Linked
  <2>3. ASSUME NEW c \in 1 .. (k + 1), c # Genesis PROVE g[store[c].prev] = f[store[c].prev]
    BY <2>1, <2>2, <2>3, Zenon
  <2>4. ASSUME NEW c \in 1 .. (k + 1)
        PROVE  g[c] = IF c = Genesis THEN NoState ELSE UpgradeIn(store, g[store[c].prev], store[c])
    BY <2>3, Zenon
  <2>5. DOMAIN g = 1 .. (k + 1) /\ g = [c \in 1 .. (k + 1) |-> g[c]]
    BY Zenon
  <2> HIDE DEF g
  <2>6. Solves(g, k + 1)
    BY <2>4, <2>5, Zenon
  <2> QED BY <2>6, Zenon
<1> HIDE DEF Solves
<1>4. ASSUME Bad # {} PROVE FALSE
  <2>0. Bad \in SUBSET Nat
    BY <1>1
  <2>1. PICK k \in Bad : \A j \in Bad : k <= j
    BY <2>0, <1>4, LeastNumber, Zenon
  <2>2. k # 0
    BY <1>2, <2>1
  <2>3. k - 1 \in Nat /\ k - 1 < Len(store) /\ k - 1 \notin Bad /\ (k - 1) + 1 = k
    BY <2>1, <2>2, <1>1
  <2>4. \E f : Solves(f, k - 1)
    BY <2>3, <1>1
  <2> QED BY <2>1, <2>3, <2>4, <1>3
<1>5. \E f : Solves(f, Len(store))
  BY <1>1, <1>4
<1> QED BY <1>1, <1>5, Zenon DEF Solves

(* StateAfter upgrades the state after the parent. *)
StateUnfolds ==
    Linked => \A b \in Stored :
        StateAfter(b) = IF b = Genesis THEN NoState ELSE UpgradeIn(store, StateAfter(store[b].prev), store[b])

(* ... which the table shows. *)
LEMMA StateUnfold == StateUnfolds
<1> SUFFICES ASSUME Linked PROVE
      \A b \in Stored : StateAfter(b) = IF b = Genesis THEN NoState ELSE UpgradeIn(store, StateAfter(store[b].prev), store[b])
  BY Zenon DEF StateUnfolds
<1> DEFINE up == CHOOSE f : f = [c \in Stored |-> IF c = Genesis THEN NoState ELSE UpgradeIn(store, f[store[c].prev], store[c])]
<1>1. up = [c \in Stored |-> IF c = Genesis THEN NoState ELSE UpgradeIn(store, up[store[c].prev], store[c])]
  BY StateTable, Zenon
<1>2. \A c : StateAfter(c) = up[c]
  BY Zenon DEF StateAfter, NoState, Upgrade, UpgradeIn, Minted, MintedIn
<1> HIDE DEF up
<1> QED BY <1>1, <1>2, Zenon

(* Both hold in every state, so after a step. *)
LEMMA ChainUnfoldNext == ChainUnfolds'
BY ChainUnfold, PTL

(* ... the states too. *)
LEMMA StateUnfoldNext == StateUnfolds'
BY StateUnfold, PTL

-----------------------------------------------------------------------------
(* What ApplyBlock lets into the store: a block one above its parent, with *)
(* the time, the difficulty and the base fee that the parent asks for.     *)
StoreOK ==
    /\ store \in Seq(Range(store)) /\ Linked /\ store[Genesis] = GenesisBlock
    /\ \A c \in Stored : /\ HeightOf(c) \in Nat /\ store[c].time \in Int
                         /\ store[c].uncles \subseteq Stored
    /\ \A c \in Stored \ {Genesis} : /\ HeightOf(c) = HeightOf(store[c].prev) + 1
                                     /\ checkBlockTarget(store[c])

(* The elements of a sequence with one more at its end. *)
LEMMA AppendRange ==
    ASSUME NEW s \in Seq(Nat), NEW e \in Nat
    PROVE  Range(Append(s, e)) = Range(s) \cup {e}
<1>1. /\ Append(s, e) \in Seq(Nat) /\ Len(Append(s, e)) = Len(s) + 1 /\ Len(s) \in Nat
      /\ \A i \in 1 .. Len(s) : Append(s, e)[i] = s[i]
      /\ Append(s, e)[Len(s) + 1] = e
  OBVIOUS
<1> QED BY <1>1, SMTT(30) DEF Range

(* A chain has a block at every height up to its last one's. *)
Shape(b) ==
    /\ ChainTo(b) \in Seq(Nat) /\ Len(ChainTo(b)) = HeightOf(b) + 1
    /\ \A i \in 1 .. Len(ChainTo(b)) :
          ChainTo(b)[i] \in 1 .. b /\ HeightOf(ChainTo(b)[i]) = i - 1
    /\ ChainTo(b)[Len(ChainTo(b))] = b

(* Every stored block's chain has that shape. *)
LEMMA ChainShape ==
    ASSUME StoreOK
    PROVE  \A b \in Stored : Shape(b)
<1> DEFINE Bad == {b \in Stored : ~Shape(b)}
<1>1. /\ Linked /\ Len(store) \in Nat \ {0} /\ Stored = 1 .. Len(store)
      /\ \A c \in Stored \ {Genesis} : store[c].prev \in 1 .. (c - 1)
  BY Zenon DEF StoreOK, Linked
<1>2. \A b \in Stored : HeightOf(b) \in Nat
  BY Zenon DEF StoreOK
<1>3. Shape(Genesis)
  <2>1. Genesis \in Stored /\ HeightOf(Genesis) = 0
    BY <1>1, MiningAssumption DEF StoreOK, HeightOf, Genesis
  <2>2. ChainTo(Genesis) = <<1>>
    BY <1>1, <2>1, ChainUnfold, Zenon DEF ChainUnfolds, Genesis
  <2> QED BY <2>1, <2>2 DEF Shape, Genesis
<1>4. ASSUME NEW b \in Stored \ {Genesis}, Shape(store[b].prev) PROVE Shape(b)
  <2> DEFINE p == store[b].prev
             up == ChainTo(p)
  <2>1. /\ p \in 1 .. (b - 1) /\ p \in Nat /\ b \in Nat /\ HeightOf(p) \in Nat
        /\ HeightOf(b) = HeightOf(p) + 1
    BY <1>1, <1>2 DEF StoreOK
  <2>2. ChainTo(b) = Append(up, b)
    BY <1>1, ChainUnfold, Zenon DEF ChainUnfolds
  <2>3. /\ up \in Seq(Nat) /\ Len(up) = HeightOf(p) + 1
        /\ \A i \in 1 .. Len(up) : up[i] \in 1 .. p /\ HeightOf(up[i]) = i - 1
    BY <1>4, Zenon DEF Shape
  <2> HIDE DEF p, up
  <2>4. /\ ChainTo(b) \in Seq(Nat) /\ Len(ChainTo(b)) = Len(up) + 1
        /\ \A i \in 1 .. Len(up) : ChainTo(b)[i] = up[i]
        /\ ChainTo(b)[Len(up) + 1] = b
    BY <2>1, <2>2, <2>3
  <2>5. Len(up) \in Nat /\ Len(ChainTo(b)) = HeightOf(b) + 1 /\ HeightOf(b) \in Nat
    BY <2>1, <2>3, <2>4
  <2>6. ASSUME NEW i \in 1 .. Len(ChainTo(b))
        PROVE  ChainTo(b)[i] \in 1 .. b /\ HeightOf(ChainTo(b)[i]) = i - 1
    <3>1. CASE i = Len(up) + 1
      <4>1. ChainTo(b)[i] = b /\ i - 1 = Len(up)
        BY <2>4, <2>5, <3>1
      <4> QED BY <4>1, <2>1, <2>3
    <3>2. CASE i # Len(up) + 1
      <4>1. i \in 1 .. Len(up)
        BY <2>4, <2>5, <3>2
      <4>2. up[i] \in 1 .. p /\ HeightOf(up[i]) = i - 1 /\ ChainTo(b)[i] = up[i]
        BY <4>1, <2>3, <2>4, Zenon
      <4> QED BY <4>2, <2>1
    <3> QED BY <3>1, <3>2, Zenon
  <2> QED BY <2>4, <2>5, <2>6, Zenon DEF Shape
<1> HIDE DEF Shape
<1>5. ASSUME Bad # {} PROVE FALSE
  <2>1. Bad \in SUBSET Nat
    BY <1>1
  <2>2. PICK b \in Bad : \A c \in Bad : b <= c
    BY <1>5, <2>1, LeastNumber, Zenon
  <2>3. b \in Stored /\ b # Genesis /\ ~Shape(store[b].prev)
    BY <2>2, <1>3, <1>4, Zenon
  <2>4. store[b].prev \in Stored /\ store[b].prev < b /\ b \in Nat /\ store[b].prev \in Nat
    BY <1>1, <2>3
  <2> QED BY <2>2, <2>3, <2>4
<1> QED BY <1>5

(* The blocks of a chain: the block's own, and its parent's chain. *)
LEMMA OnChainFacts ==
    ASSUME StoreOK, NEW b \in Stored
    PROVE  /\ OnChain(b) \subseteq 1 .. b /\ OnChain(b) \subseteq Stored
           /\ OnChain(b) = IF b = Genesis THEN {b} ELSE OnChain(store[b].prev) \cup {b}
<1>1. /\ Linked /\ Len(store) \in Nat \ {0} /\ Stored = 1 .. Len(store)
      /\ \A c \in Stored \ {Genesis} : store[c].prev \in 1 .. (c - 1)
  BY Zenon DEF StoreOK, Linked
<1>2. /\ ChainTo(b) \in Seq(Nat)
      /\ \A i \in 1 .. Len(ChainTo(b)) : ChainTo(b)[i] \in 1 .. b
  BY ChainShape, Zenon DEF Shape
<1>3. OnChain(b) \subseteq 1 .. b
  BY <1>2 DEF OnChain, Range
<1>4. OnChain(b) \subseteq Stored
  BY <1>1, <1>3
<1>5. ASSUME b = Genesis PROVE OnChain(b) = {b}
  <2>1. ChainTo(b) = <<b>>
    BY <1>1, <1>5, ChainUnfold, Zenon DEF ChainUnfolds
  <2> QED BY <2>1 DEF OnChain, Range
<1>6. ASSUME b # Genesis PROVE OnChain(b) = OnChain(store[b].prev) \cup {b}
  <2>1. ChainTo(b) = Append(ChainTo(store[b].prev), b)
    BY <1>1, <1>6, ChainUnfold, Zenon DEF ChainUnfolds
  <2>2. store[b].prev \in Stored /\ b \in Nat
    BY <1>1, <1>6
  <2>3. ChainTo(store[b].prev) \in Seq(Nat)
    BY <2>2, ChainShape, Zenon DEF Shape
  <2> QED BY <2>1, <2>2, <2>3, AppendRange, Zenon DEF OnChain
<1> QED BY <1>3, <1>4, <1>5, <1>6, Zenon

-----------------------------------------------------------------------------
(* The store grows at its end. *)
LEMMA PutFacts ==
    ASSUME StoreOK, NEW block, Put(block)
    PROVE  /\ store' \in Seq(Range(store')) /\ Len(store') = Len(store) + 1
           /\ Stored' = 1 .. (Len(store) + 1) /\ Stored' = Stored \cup {Len(store) + 1}
           /\ \A c \in Stored : c # Len(store) + 1 /\ store'[c] = store[c]
           /\ store'[Len(store) + 1] = block
<1> DEFINE S == Range(store) \cup {block}
           n == Len(store)
<1>1. store \in Seq(S) /\ block \in S /\ store' = Append(store, block)
  BY DEF StoreOK, Put
<1>2. n \in Nat /\ Stored = 1 .. n
  BY Zenon DEF StoreOK, Linked
<1> HIDE DEF S
<1>3. /\ store' \in Seq(S) /\ Len(store') = n + 1
      /\ \A c \in 1 .. n : store'[c] = store[c]
      /\ store'[n + 1] = block
  BY <1>1
<1>4. DOMAIN store' = 1 .. (n + 1)
  BY <1>2, <1>3
<1>5. store' \in Seq(Range(store'))
  BY <1>3, <1>4 DEF Range
<1>6. 1 .. (n + 1) = Stored \cup {n + 1} /\ \A c \in Stored : c # n + 1
  BY <1>2
<1> QED BY <1>2, <1>3, <1>4, <1>5, <1>6, Zenon DEF Stored

(* What a block mints depends on the uncles it names, which stay. *)
LEMMA UpgradeSame ==
    ASSUME NEW s, NEW t, NEW block, \A u \in block.uncles : s[u] = t[u], NEW state
    PROVE  UpgradeIn(s, state, block) = UpgradeIn(t, state, block)
<1>1. ASSUME NEW a
      PROVE  {u \in block.uncles : s[u].gen.to = a} = {u \in block.uncles : t[u].gen.to = a}
  OBVIOUS
<1>2. \A a : MintedIn(s, block, a) = MintedIn(t, block, a)
  BY <1>1, Zenon DEF MintedIn
<1> QED BY <1>2, Zenon DEF UpgradeIn

(* Upgrade reads the store there is. *)
UpgradeReads == \A state, block : Upgrade(state, block) = UpgradeIn(store, state, block)

(* It does so now ... *)
LEMMA UpgradeIs == UpgradeReads
BY Zenon DEF UpgradeReads, Upgrade, UpgradeIn, Minted, MintedIn

(* ... and after a step. *)
LEMMA UpgradeIsNext == UpgradeReads'
BY UpgradeIs, PTL

(* The chains and the states of the blocks that are there do not change    *)
(* when the store grows.                                                   *)
LEMMA Stable ==
    ASSUME StoreOK, Linked', Stored \subseteq Stored', \A c \in Stored : store'[c] = store[c],
           NEW b \in Stored
    PROVE  /\ ChainTo(b)' = ChainTo(b) /\ OnChain(b)' = OnChain(b)
           /\ StateAfter(b)' = StateAfter(b) /\ HeightOf(b)' = HeightOf(b)
<1> DEFINE Same(c) == ChainTo(c)' = ChainTo(c) /\ StateAfter(c)' = StateAfter(c)
           Bad == {c \in Stored : ~Same(c)}
<1>1. /\ Linked /\ Len(store) \in Nat \ {0} /\ Stored = 1 .. Len(store)
      /\ \A c \in Stored \ {Genesis} : store[c].prev \in 1 .. (c - 1)
      /\ \A c \in Stored : store[c].uncles \subseteq Stored
  BY Zenon DEF StoreOK, Linked
<1>2. ASSUME NEW c \in Stored, c # Genesis => Same(store[c].prev) PROVE Same(c)
  <2> DEFINE p == store[c].prev
  <2>1. c \in Stored' /\ store'[c] = store[c]
    OBVIOUS
  <2>2. /\ ChainTo(c) = IF c = Genesis THEN <<c>> ELSE Append(ChainTo(p), c)
        /\ ChainTo(c)' = IF c = Genesis THEN <<c>> ELSE Append(ChainTo(p)', c)
    BY <1>1, <2>1, ChainUnfold, ChainUnfoldNext, Zenon DEF ChainUnfolds, Genesis
  <2>3. /\ StateAfter(c) = IF c = Genesis THEN NoState
                           ELSE UpgradeIn(store, StateAfter(p), store[c])
        /\ StateAfter(c)' = IF c = Genesis THEN NoState
                            ELSE UpgradeIn(store', StateAfter(p)', store[c])
    BY <1>1, <2>1, StateUnfold, StateUnfoldNext, Zenon DEF StateUnfolds, Genesis
  <2>4. \A u \in store[c].uncles : store[u] = store'[u]
    BY <1>1, Zenon
  <2>5. \A st : UpgradeIn(store, st, store[c]) = UpgradeIn(store', st, store[c])
    BY <2>4, UpgradeSame
  <2> QED BY <1>2, <2>2, <2>3, <2>5, Zenon
<1> HIDE DEF Same
<1>3. ASSUME Bad # {} PROVE FALSE
  <2>1. Bad \in SUBSET Nat
    BY <1>1
  <2>2. PICK c \in Bad : \A d \in Bad : c <= d
    BY <1>3, <2>1, LeastNumber, Zenon
  <2>3. c \in Stored /\ c # Genesis /\ ~Same(store[c].prev)
    BY <2>2, <1>2, Zenon
  <2>4. store[c].prev \in Stored /\ store[c].prev < c /\ c \in Nat /\ store[c].prev \in Nat
    BY <1>1, <2>3
  <2> QED BY <2>2, <2>3, <2>4
<1>4. Same(b)
  BY <1>3
<1> QED BY <1>4 DEF Same, OnChain, HeightOf

-----------------------------------------------------------------------------
(* The inductive invariant. *)

(* What every block has that is assembled, handed out or received: its     *)
(* header's fields are exact for its parent, wherever the tip is.          *)
Template(block) ==
    /\ block.prev \in Stored /\ block.height = HeightOf(block.prev) + 1
    /\ block.time \in Int /\ block.uncles \subseteq Stored
    /\ checkBlockTarget(block)

(* A transaction that a block on the tip may carry. *)
Paid(t) ==
    /\ TxHeight[t] = HeightOf(tip) + 1
    /\ TxFee[t] <= StateAfter(tip).balance[TxFrom[t]]
    /\ TxFee[t] >= FeeAbove(store[tip]) * TxBytes[t]

(* What else a block needs that is put on its parent while that is the tip. *)
Ready(block) ==
    /\ Cardinality(block.uncles) <= MaxUncles /\ validateUncles(block)
    /\ Applies(StateAfter(block.prev), block)

(* A block as the store holds it. *)
IsBlock(b) ==
    b = [prev |-> b.prev, height |-> b.height, time |-> b.time, diff |-> b.diff, fee |-> b.fee,
         uncles |-> b.uncles, txs |-> b.txs, gen |-> b.gen, rewards |-> b.rewards, root |-> b.root]

(* The blocks on the main chain carry the roots of the states after them. *)
TipOK ==
    /\ tip \in Stored /\ clock \in Nat
    /\ \A c \in OnChain(tip) \ {Genesis} : store[c].root = StateAfter(c)

(* What the pool holds once its Reset has run can be paid. *)
PoolOK == unreset \in BOOLEAN /\ (~unreset => \A t \in pool : Paid(t))

(* What the assembly has read so far, at each of its steps. *)
JobShape ==
    /\ job = [at |-> job.at, internal |-> job.internal, quiet |-> job.quiet,
              height |-> job.height, block |-> job.block]
    /\ job.at \in {"idle", "height", "block", "uncles", "pack", "root"}
    /\ job.internal \in BOOLEAN /\ job.quiet \in BOOLEAN
    /\ IsBlock(job.block) /\ job.block.uncles \subseteq Stored
    /\ job.height \in Nat

(* An assembly that the tip has not disturbed. *)
QuietJob ==
    /\ ~job.internal => job.block.gen = Generate(HeightOf(tip) + 1)
    /\ job.at = "block" => job.height = HeightOf(tip)
    /\ job.at \in {"uncles", "pack", "root"} =>
          job.block.prev = tip /\ job.block.gen = Generate(HeightOf(tip) + 1)
    /\ job.at \in {"pack", "root"} =>
          /\ Cardinality(job.block.uncles) <= MaxUncles /\ validateUncles(job.block)
          /\ \A u \in job.block.uncles :
                job.block.rewards[u] = UncleReward(HeightOf(u), job.block.height)
    /\ job.at = "root" => \A t \in job.block.txs : Paid(t)

(* The assembly has its shape and is undisturbed while the tip is the same. *)
JobOK ==
    /\ JobShape
    /\ job.at \in {"uncles", "pack", "root"} => Template(job.block)
    /\ job.quiet => QuietJob

(* A template handed out is exact, and fits while its parent is the tip. *)
WorksOK ==
    /\ works \in Seq(Range(works))
    /\ \A i \in DOMAIN works : /\ Template(works[i].block)
                               /\ works[i].quiet => Ready(works[i].block)

(* The inductive invariant. *)
MiningInv == StoreOK /\ TipOK /\ PoolOK /\ JobOK /\ WorksOK

-----------------------------------------------------------------------------
(* The blocks that are in the store stay as they are. *)
Kept == Linked' /\ Stored \subseteq Stored' /\ \A c \in Stored : store'[c] = store[c]

(* A header that is exact for its parent stays exact. *)
LEMMA TemplateStays ==
    ASSUME StoreOK, Kept, NEW b, Template(b)
    PROVE  Template(b)'
BY Zenon DEF Kept, Template, checkBlockTarget, HeightOf

(* What the state at the tip pays for depends on the tip only. *)
LEMMA PaidStays ==
    ASSUME StoreOK, Kept, tip \in Stored, tip' = tip, NEW t, Paid(t)
    PROVE  Paid(t)'
<1>1. StateAfter(tip)' = StateAfter(tip) /\ HeightOf(tip)' = HeightOf(tip) /\ store'[tip] = store[tip]
  BY Stable, Zenon DEF Kept
<1> QED BY <1>1, Zenon DEF Paid

(* The blocks that a block's uncles are looked for among stay the same. *)
LEMMA WindowStays ==
    ASSUME StoreOK, Kept, NEW p \in Stored, NEW h
    PROVE  /\ Window(p, h)' = Window(p, h) /\ Window(p, h) \subseteq Stored
           /\ Referenced(p, h)' = Referenced(p, h)
<1>1. OnChain(p)' = OnChain(p) /\ OnChain(p) \subseteq Stored
  BY Stable, OnChainFacts, Zenon DEF Kept
<1>2. \A a \in Stored : HeightOf(a)' = HeightOf(a) /\ store'[a] = store[a]
  BY Zenon DEF Kept, HeightOf
<1>3. Window(p, h)' = Window(p, h) /\ Window(p, h) \subseteq Stored
  BY <1>1, <1>2, Zenon DEF Window
<1>4. \A a \in Window(p, h) : store'[a].uncles = store[a].uncles
  BY <1>2, <1>3, Zenon
<1> QED BY <1>3, <1>4, Zenon DEF Referenced

(* Uncles that suit a block suit it when the store grows. *)
LEMMA UnclesStay ==
    ASSUME StoreOK, Kept, NEW b, Template(b), validateUncles(b)
    PROVE  validateUncles(b)'
<1>1. b.prev \in Stored /\ b.uncles \subseteq Stored
  BY Zenon DEF Template
<1>2. /\ Window(b.prev, b.height)' = Window(b.prev, b.height)
      /\ Window(b.prev, b.height) \subseteq Stored
      /\ Referenced(b.prev, b.height)' = Referenced(b.prev, b.height)
  BY <1>1, WindowStays, Zenon
<1>3. \A a \in Stored : HeightOf(a)' = HeightOf(a) /\ store'[a] = store[a]
  BY Zenon DEF Kept, HeightOf
<1>4. \A u \in b.uncles : u \in Stored /\ store[u].prev \in Stored
  BY <1>1, <1>2, Zenon DEF validateUncles
<1> QED BY <1>2, <1>3, <1>4 DEF validateUncles

(* So does the state that a block is applied to. *)
LEMMA AppliesStays ==
    ASSUME StoreOK, Kept, NEW b, Template(b), NEW st, Applies(st, b)
    PROVE  Applies(st, b)'
<1>1. \A u \in b.uncles : HeightOf(u)' = HeightOf(u) /\ store[u] = store'[u]
  BY Zenon DEF Template, Kept, HeightOf
<1>2. b.root = UpgradeIn(store, st, b)
  BY UpgradeIs, Zenon DEF UpgradeReads, Applies, CheckStateRoot
<1>3. UpgradeIn(store, st, b) = UpgradeIn(store', st, b)
  BY <1>1, UpgradeSame
<1>4. CheckStateRoot(st, b)'
  BY <1>2, <1>3, UpgradeIsNext, Zenon DEF UpgradeReads, CheckStateRoot
<1>5. CheckBlockTxs(st, b)'
  BY <1>1, Zenon DEF Applies, CheckBlockTxs, checkBlockGenerates, Affordable
<1> QED BY <1>4, <1>5, Zenon DEF Applies

(* A block that may be put on the tip still may. *)
LEMMA ReadyStays ==
    ASSUME StoreOK, Kept, NEW b, Template(b), Ready(b)
    PROVE  Ready(b)'
<1>1. b.prev \in Stored
  BY Zenon DEF Template
<1>2. StateAfter(b.prev)' = StateAfter(b.prev)
  BY <1>1, Stable, Zenon DEF Kept
<1>3. validateUncles(b)'
  BY UnclesStay, Zenon DEF Ready
<1>4. Applies(StateAfter(b.prev), b)'
  <2> DEFINE st == StateAfter(b.prev)
  <2>1. \A x : Applies(x, b) => Applies(x, b)'
    BY AppliesStays, Zenon
  <2> QED BY <1>2, <2>1, Zenon DEF Ready, Applies, CheckBlockTxs, CheckStateRoot, Affordable
<1> QED BY <1>3, <1>4, Zenon DEF Ready

-----------------------------------------------------------------------------
(* A block that is exact for its parent may be put into the store. *)
LEMMA PutKeeps ==
    ASSUME StoreOK, NEW b, Template(b), Put(b)
    PROVE  Kept /\ StoreOK'
<1> DEFINE n == Len(store)
<1>1. /\ store' \in Seq(Range(store')) /\ Len(store') = n + 1
      /\ Stored' = 1 .. (n + 1) /\ Stored' = Stored \cup {n + 1}
      /\ \A c \in Stored : c # n + 1 /\ store'[c] = store[c]
      /\ store'[n + 1] = b
  BY PutFacts, Zenon
<1>2. /\ n \in Nat \ {0} /\ Stored = 1 .. n
      /\ \A c \in Stored \ {Genesis} : store[c].prev \in 1 .. (c - 1)
  BY Zenon DEF StoreOK, Linked
<1>3. b.prev \in Stored /\ b.height = HeightOf(b.prev) + 1 /\ b.time \in Int /\ b.uncles \subseteq Stored
  BY Zenon DEF Template
<1> HIDE DEF n
<1>4. Linked'
  <2>1. ASSUME NEW c \in Stored' \ {Genesis} PROVE store'[c].prev \in 1 .. (c - 1)
    <3>1. CASE c \in Stored
      BY <3>1, <1>1, <1>2, Zenon
    <3>2. CASE c = n + 1
      BY <3>2, <1>1, <1>2, <1>3
    <3> QED BY <2>1, <3>1, <3>2, <1>1, Zenon
  <2> QED BY <2>1, <1>1, <1>2 DEF Linked, Genesis
<1>5. Kept
  BY <1>1, <1>4, Zenon DEF Kept
<1>6. store'[Genesis] = GenesisBlock
  BY <1>1, <1>2 DEF StoreOK, Genesis
<1>7. \A c \in Stored : /\ HeightOf(c) \in Nat /\ store[c].time \in Int /\ store[c].uncles \subseteq Stored
  BY Zenon DEF StoreOK
<1>8. ASSUME NEW c \in Stored'
      PROVE  HeightOf(c)' \in Nat /\ store'[c].time \in Int /\ store'[c].uncles \subseteq Stored'
  <2>1. CASE c \in Stored
    BY <2>1, <1>1, <1>7, Zenon DEF HeightOf
  <2>2. CASE c = n + 1
    <3>1. b.height \in Nat
      BY <1>3, <1>7
    <3> QED BY <2>2, <3>1, <1>1, <1>3, Zenon DEF HeightOf
  <2> QED BY <2>1, <2>2, <1>1, Zenon
<1>9. ASSUME NEW c \in Stored' \ {Genesis}
      PROVE  HeightOf(c)' = HeightOf(store[c].prev)' + 1 /\ checkBlockTarget(store[c])'
  <2>1. CASE c \in Stored
    <3>1. /\ store[c].prev \in Stored /\ HeightOf(c) = HeightOf(store[c].prev) + 1
          /\ checkBlockTarget(store[c])
      BY <2>1, <1>2 DEF StoreOK
    <3> QED BY <2>1, <3>1, <1>1, Zenon DEF HeightOf, checkBlockTarget
  <2>2. CASE c = n + 1
    BY <2>2, <1>1, <1>3, Zenon DEF HeightOf, checkBlockTarget, Template
  <2> QED BY <2>1, <2>2, <1>1, Zenon
<1> QED BY <1>1, <1>4, <1>5, <1>6, <1>8, <1>9, Zenon DEF StoreOK, Genesis

(* The chain of a new block and the state after it. *)
LEMMA NewBlock ==
    ASSUME StoreOK, NEW b, Template(b), Put(b), NEW n, n = Len(store) + 1
    PROVE  /\ OnChain(n)' = OnChain(b.prev) \cup {n}
           /\ StateAfter(n)' = Upgrade(StateAfter(b.prev), b)
<1>1. /\ n \in Stored' /\ \A c \in Stored : c # n /\ store'[c] = store[c]
      /\ store'[n] = b /\ n # 1 /\ n \in Nat
  <2>1. /\ Stored' = Stored \cup {n} /\ store'[n] = b
        /\ \A c \in Stored : c # n /\ store'[c] = store[c]
    BY PutFacts, Zenon
  <2>2. Len(store) \in Nat \ {0}
    BY Zenon DEF StoreOK, Linked
  <2>3. n # 1 /\ n \in Nat
    BY <2>2
  <2> QED BY <2>1, <2>3, Zenon
<1>2. Kept
  BY PutKeeps, Zenon
<1>3. b.prev \in Stored /\ b.uncles \subseteq Stored
  BY Zenon DEF Template
<1>4. /\ ChainTo(b.prev)' = ChainTo(b.prev) /\ StateAfter(b.prev)' = StateAfter(b.prev)
  BY <1>2, <1>3, Stable, Zenon DEF Kept
<1>5. ChainTo(b.prev) \in Seq(Nat)
  BY <1>3, ChainShape, Zenon DEF Shape
<1>6. ChainTo(n)' = Append(ChainTo(b.prev), n)
  BY <1>1, <1>2, <1>4, ChainUnfoldNext, Zenon DEF ChainUnfolds, Genesis, Kept
<1>7. OnChain(n)' = OnChain(b.prev) \cup {n}
  BY <1>1, <1>5, <1>6, AppendRange, Zenon DEF OnChain
<1>8. StateAfter(n)' = UpgradeIn(store', StateAfter(b.prev), b)
  BY <1>1, <1>2, <1>4, StateUnfoldNext, Zenon DEF StateUnfolds, Genesis, Kept
<1>9. \A u \in b.uncles : store[u] = store'[u]
  BY <1>1, <1>3, Zenon
<1>10. \A st : UpgradeIn(store, st, b) = UpgradeIn(store', st, b)
  BY <1>9, UpgradeSame, ZenonT(40)
<1>11. StateAfter(n)' = Upgrade(StateAfter(b.prev), b)
  BY <1>8, <1>10, UpgradeIs, Zenon DEF UpgradeReads
<1> QED BY <1>7, <1>11, Zenon

(* The tip moves only to a block whose whole branch has exact roots. *)
LEMMA TipMoves ==
    ASSUME StoreOK, TipOK, NEW b, Template(b), Put(b), NEW n, n = Len(store) + 1, tip' = n,
           clock' = clock,
           ExtendsTip(b) \/ Reorganises(b)
    PROVE  TipOK'
<1>1. /\ n \in Stored' /\ \A c \in Stored : c # n /\ store'[c] = store[c]
      /\ store'[n] = b
  BY PutFacts, Zenon DEF StoreOK, Linked
<1>2. Kept /\ b.prev \in Stored /\ tip \in Stored
  BY PutKeeps, Zenon DEF Template, TipOK
<1>3. /\ OnChain(n)' = OnChain(b.prev) \cup {n} /\ StateAfter(n)' = Upgrade(StateAfter(b.prev), b)
      /\ OnChain(b.prev) \subseteq Stored /\ OnChain(tip) \subseteq Stored
  BY <1>2, NewBlock, OnChainFacts, Zenon
<1>4. b.root = Upgrade(StateAfter(b.prev), b)
  BY Zenon DEF ExtendsTip, Reorganises, Applies, CheckStateRoot
<1>5. ASSUME NEW c \in OnChain(b.prev) \ {Genesis} PROVE store[c].root = StateAfter(c)
  <2>1. CASE c \in OnChain(tip)
    BY <2>1, <1>5, Zenon DEF TipOK
  <2>2. CASE c \notin OnChain(tip)
    <3>1. store[c].root = Upgrade(StateAfter(store[c].prev), store[c])
      BY <2>2, <1>5, Zenon DEF ExtendsTip, Reorganises, BranchApplies, Applies, CheckStateRoot
    <3>2. StateAfter(c) = UpgradeIn(store, StateAfter(store[c].prev), store[c])
      BY <1>3, <1>5, StateUnfold, Zenon DEF StateUnfolds, StoreOK
    <3> QED BY <3>1, <3>2, UpgradeIs, Zenon DEF UpgradeReads
  <2> QED BY <2>1, <2>2, Zenon
<1>6. \A c \in Stored : StateAfter(c)' = StateAfter(c)
  BY <1>2, Stable, Zenon DEF Kept
<1>7. ASSUME NEW c \in OnChain(n)' \ {Genesis} PROVE store'[c].root = StateAfter(c)'
  <2>1. CASE c = n
    BY <2>1, <1>1, <1>3, <1>4, Zenon
  <2>2. CASE c \in OnChain(b.prev)
    BY <2>2, <1>1, <1>3, <1>5, <1>6, <1>7, Zenon
  <2> QED BY <2>1, <2>2, <1>3, <1>7, Zenon
<1>8. tip' = n /\ clock' \in Nat
  BY Zenon DEF TipOK
<1> QED BY <1>1, <1>7, <1>8, Zenon DEF TipOK, Genesis

-----------------------------------------------------------------------------
(* What the other parts of the invariant keep when the store grows. *)
LEMMA WorksStay ==
    ASSUME StoreOK, Kept, WorksOK, works' = works
    PROVE  WorksOK'
<1>1. \A b : Template(b) => Template(b)'
  BY TemplateStays, Zenon
<1>2. \A b : Template(b) /\ Ready(b) => Ready(b)'
  BY ReadyStays, Zenon
<1> QED BY <1>1, <1>2, Zenon DEF WorksOK

(* The pool. *)
LEMMA PoolStays ==
    ASSUME StoreOK, Kept, TipOK, PoolOK, tip' = tip, pool' = pool, unreset' = unreset
    PROVE  PoolOK'
<1>1. \A t : Paid(t) => Paid(t)'
  BY PaidStays, Zenon DEF TipOK
<1> QED BY <1>1, Zenon DEF PoolOK

(* An assembly goes on; it is undisturbed as long as the tip is the same. *)
LEMMA JobStays ==
    ASSUME StoreOK, Kept, TipOK, JobOK,
           \/ tip' = tip /\ job' = job
           \/ job' = [job EXCEPT !.quiet = FALSE]
    PROVE  JobOK'
<1>1. /\ job'.at = job.at /\ job'.internal = job.internal /\ job'.block = job.block
      /\ job'.height = job.height
      /\ job' = [at |-> job'.at, internal |-> job'.internal, quiet |-> job'.quiet,
                 height |-> job'.height, block |-> job'.block]
      /\ job'.quiet = FALSE \/ (tip' = tip /\ job' = job)
  BY Zenon DEF JobOK, JobShape
<1>2. Stored \subseteq Stored' /\ tip \in Stored
  BY Zenon DEF Kept, TipOK
<1>3. JobShape'
  BY <1>1, <1>2, Zenon DEF JobOK, JobShape, IsBlock
<1>4. ASSUME job.at \in {"uncles", "pack", "root"} PROVE Template(job.block)'
  <2>1. \A b : Template(b) => Template(b)'
    BY TemplateStays, Zenon
  <2> QED BY <1>1, <1>4, <2>1, Zenon DEF JobOK
<1>5. ASSUME tip' = tip, job' = job, job.quiet PROVE QuietJob'
  <2>1. \A b : Template(b) /\ validateUncles(b) => validateUncles(b)'
    BY UnclesStay, Zenon
  <2>2. \A t : Paid(t) => Paid(t)'
    BY <1>2, <1>5, PaidStays, Zenon
  <2>3. \A u \in Stored : HeightOf(u)' = HeightOf(u)
    BY Zenon DEF Kept, HeightOf
  <2>4. HeightOf(tip)' = HeightOf(tip)
    BY <1>2, <1>5, Zenon DEF Kept, HeightOf
  <2>5. QuietJob /\ job.block.uncles \subseteq Stored
        /\ (job.at \in {"uncles", "pack", "root"} => Template(job.block))
    BY <1>5, Zenon DEF JobOK, JobShape
  <2>6. ASSUME job.at \in {"pack", "root"}
        PROVE  /\ validateUncles(job.block)'
               /\ \A u \in job.block.uncles :
                     job.block.rewards[u] = UncleReward(HeightOf(u)', job.block.height)
    BY <1>5, <2>1, <2>3, <2>5, <2>6, Zenon DEF QuietJob
  <2> QED BY <1>5, <2>2, <2>4, <2>5, <2>6, Zenon DEF QuietJob, Generate
<1> QED BY <1>1, <1>3, <1>4, <1>5, Zenon DEF JobOK

(* ApplyBlock keeps the invariant for a block that is exact for its parent. *)
LEMMA ApplyKeeps ==
    ASSUME MiningInv, NEW b, Template(b), ApplyBlock(b)
    PROVE  MiningInv'
<1>1. StoreOK /\ TipOK /\ PoolOK /\ JobOK /\ WorksOK
  BY Zenon DEF MiningInv
<1>2. Put(b) /\ clock' = clock /\ pool' = pool /\ works' = works
  BY Zenon DEF ApplyBlock
<1>3. Kept /\ StoreOK'
  BY <1>1, <1>2, PutKeeps, Zenon
<1>4. WorksOK'
  BY <1>1, <1>2, <1>3, WorksStay, Zenon
<1>5. CASE /\ ExtendsTip(b) \/ Reorganises(b)
           /\ tip' = Len(store) + 1 /\ unreset' = TRUE /\ job' = [job EXCEPT !.quiet = FALSE]
  <2>1. TipOK'
    BY <1>1, <1>2, <1>5, TipMoves, Zenon
  <2>2. PoolOK'
    BY <1>5, Zenon DEF PoolOK
  <2>3. JobOK'
    BY <1>1, <1>3, <1>5, JobStays, Zenon
  <2> QED BY <1>3, <1>4, <2>1, <2>2, <2>3, Zenon DEF MiningInv
<1>6. CASE tip' = tip /\ unreset' = unreset /\ job' = job
  <2>1. tip \in Stored /\ OnChain(tip) \subseteq Stored
    BY <1>1, OnChainFacts, Zenon DEF TipOK
  <2>2. /\ OnChain(tip)' = OnChain(tip)
        /\ \A c \in Stored : StateAfter(c)' = StateAfter(c) /\ store'[c] = store[c] /\ c \in Stored'
    BY <1>1, <1>3, <1>6, <2>1, Stable, Zenon DEF Kept
  <2>3. TipOK'
    BY <1>1, <1>2, <1>6, <2>1, <2>2, Zenon DEF TipOK, Genesis
  <2>4. PoolOK' /\ JobOK'
    BY <1>1, <1>2, <1>3, <1>6, PoolStays, JobStays, Zenon
  <2> QED BY <1>3, <1>4, <2>3, <2>4, Zenon DEF MiningInv
<1> QED BY <1>5, <1>6, Zenon DEF ApplyBlock

(* A step that leaves the store and the tip alone. *)
LEMMA SameStore ==
    ASSUME MiningInv, store' = store, tip' = tip
    PROVE  /\ Kept /\ StoreOK' /\ StoreOK
           /\ clock' \in Nat => TipOK'
<1>1. StoreOK /\ TipOK
  BY Zenon DEF MiningInv
<1>2. Linked'
  BY <1>1, Zenon DEF StoreOK, Linked, Stored, Genesis
<1>3. Kept
  BY <1>2, Zenon DEF Kept, Stored
<1>4. StoreOK'
  BY <1>1, <1>2, Zenon DEF StoreOK, Stored, HeightOf, checkBlockTarget, Genesis
<1>5. tip \in Stored /\ OnChain(tip) \subseteq Stored
  BY <1>1, OnChainFacts, Zenon DEF TipOK
<1>6. /\ OnChain(tip)' = OnChain(tip)
      /\ \A c \in Stored : StateAfter(c)' = StateAfter(c) /\ c \in Stored'
  BY <1>1, <1>3, <1>5, Stable, Zenon DEF Kept
<1>7. ASSUME clock' \in Nat PROVE TipOK'
  BY <1>1, <1>5, <1>6, <1>7, Zenon DEF TipOK, Genesis
<1> QED BY <1>1, <1>3, <1>4, <1>7, Zenon

-----------------------------------------------------------------------------
(* One lemma per action.  A block that is received is exact for its parent. *)
LEMMA ReceivedFits ==
    ASSUME MiningInv, NEW p \in Stored, NEW m, NEW time \in 1 .. MaxClock, NEW txs,
           Receive(p, m, time, txs)
    PROVE  Template(Exact(p, m, time, {}, txs)) /\ ApplyBlock(Exact(p, m, time, {}, txs))
<1> DEFINE b == Exact(p, m, time, {}, txs)
<1>1. ApplyBlock(b)
  BY Zenon DEF Receive
<1>2. /\ b.prev = p /\ b.height = HeightOf(p) + 1 /\ b.time = time /\ b.uncles = {}
      /\ b.diff = GetNextDiff(b.height, b.time, store[p]) /\ b.fee = FeeAbove(store[p])
  BY Zenon DEF Exact
<1> HIDE DEF b
<1>3. p = Genesis \/ checkBlockTarget(b)
  BY <1>1, <1>2, Zenon DEF ApplyBlock, ExtendsTip, Reorganises, StaysAside, Fits
<1>4. time \in Int /\ time >= 1
  OBVIOUS
<1>5. ASSUME p = Genesis PROVE checkBlockTarget(b)
  <2>1. store[p].time \in Int /\ store[p].time <= 0
    BY <1>5, MiningAssumption, Zenon DEF MiningInv, StoreOK
  <2> QED BY <1>2, <1>4, <2>1 DEF checkBlockTarget
<1>6. Template(b)
  BY <1>2, <1>3, <1>4, <1>5, Zenon DEF Template
<1> QED BY <1>1, <1>6, Zenon DEF b

(* So it keeps the invariant. *)
LEMMA ReceiveKeeps ==
    ASSUME MiningInv, NEW p \in Stored, NEW m, NEW time \in 1 .. MaxClock, NEW txs,
           Receive(p, m, time, txs)
    PROVE  MiningInv'
BY ReceivedFits, ApplyKeeps, Zenon

(* A block a miner solved is a template that was handed out. *)
LEMMA SubmitKeeps ==
    ASSUME MiningInv, NEW i \in DOMAIN works, Submit(i)
    PROVE  MiningInv'
<1>1. Template(works[i].block) /\ ApplyBlock(works[i].block)
  BY Zenon DEF MiningInv, WorksOK, Submit
<1> QED BY <1>1, ApplyKeeps, Zenon

(* The steps that do not touch the assembly. *)
LEMMA OthersKeep ==
    ASSUME MiningInv, Tick \/ ResetPool \/ (\E t \in Txs : PutTx(t)) \/ UNCHANGED vars
    PROVE  MiningInv'
<1>1. /\ store' = store /\ tip' = tip /\ job' = job /\ works' = works
      /\ StoreOK /\ TipOK /\ PoolOK /\ JobOK /\ WorksOK
  BY Zenon DEF MiningInv, Tick, ResetPool, PutTx, vars
<1>2. clock' \in Nat
  BY <1>1 DEF TipOK, Tick, ResetPool, PutTx, vars
<1>3. Kept /\ StoreOK' /\ TipOK'
  BY <1>1, <1>2, SameStore, Zenon
<1>4. JobOK' /\ WorksOK'
  BY <1>1, <1>3, JobStays, WorksStay, Zenon
<1>5. PoolOK'
  <2>1. CASE Tick \/ UNCHANGED vars
    BY <2>1, <1>1, <1>3, PoolStays, Zenon DEF Tick, vars
  <2>2. CASE ResetPool
    BY <2>2, Zenon DEF ResetPool, PoolOK
  <2>3. ASSUME NEW t \in Txs, PutTx(t) PROVE PoolOK'
    <3>1. \A o : Paid(o) => Paid(o)'
      BY <1>1, <1>3, PaidStays, Zenon DEF TipOK
    <3>2. Paid(t) /\ pool' = pool \cup {t} /\ unreset' = unreset
      BY <2>3, Zenon DEF PutTx, Paid
    <3> QED BY <1>1, <3>1, <3>2, Zenon DEF PoolOK
  <2> QED BY <2>1, <2>2, <2>3, Zenon
<1> QED BY <1>3, <1>4, <1>5, Zenon DEF MiningInv

(* A step of the assembly changes the job, and the last one the works. *)
LEMMA StepFacts ==
    ASSUME MiningInv, NEW at, Step(at)
    PROVE  /\ Kept /\ StoreOK' /\ TipOK' /\ PoolOK' /\ job.at = at
           /\ store' = store /\ tip' = tip /\ unreset' = unreset
           /\ StoreOK /\ TipOK /\ PoolOK /\ JobOK /\ WorksOK
           /\ works' = works => WorksOK'
<1>1. /\ store' = store /\ tip' = tip /\ clock' = clock /\ pool' = pool /\ unreset' = unreset
      /\ job.at = at /\ StoreOK /\ TipOK /\ PoolOK /\ JobOK /\ WorksOK
  BY Zenon DEF MiningInv, Step
<1>2. Kept /\ StoreOK' /\ TipOK'
  BY <1>1, SameStore, Zenon DEF TipOK
<1> QED BY <1>1, <1>2, PoolStays, WorksStay, Zenon

(* GetBlockTemplate is called. *)
LEMMA AskKeeps ==
    ASSUME MiningInv, NEW internal \in BOOLEAN, Ask(internal)
    PROVE  MiningInv'
<1>1. /\ Kept /\ StoreOK' /\ TipOK' /\ PoolOK' /\ WorksOK' /\ tip' = tip
      /\ store' = store /\ StoreOK /\ TipOK
  BY StepFacts, Zenon DEF Ask
<1>2. /\ job'.at = "height" /\ job'.internal = internal /\ job'.quiet = TRUE /\ job'.height = 0
      /\ job'.block = [GenesisBlock EXCEPT !.gen = Generate(HeightOf(tip) + 1)]
      /\ job' = [at |-> job'.at, internal |-> job'.internal, quiet |-> job'.quiet,
                 height |-> job'.height, block |-> job'.block]
  BY Zenon DEF Ask, NoJob
<1>3. /\ IsBlock(job'.block) /\ job'.block.uncles = {}
      /\ job'.block.gen = Generate(HeightOf(tip) + 1)
  BY <1>2, MiningAssumption DEF IsBlock
<1>4. JobShape'
  <2>1. 0 \in Nat
    BY Zenon
  <2> QED BY <1>2, <1>3, <2>1, Zenon DEF JobShape
<1>5. QuietJob'
  BY <1>1, <1>2, <1>3, Zenon DEF QuietJob, HeightOf
<1>6. JobOK'
  BY <1>2, <1>4, <1>5, Zenon DEF JobOK
<1> QED BY <1>1, <1>6, Zenon DEF MiningInv

(* The height of the tip is read. *)
LEMMA ReadHeightKeeps ==
    ASSUME MiningInv, ReadHeight
    PROVE  MiningInv'
<1>1. /\ Kept /\ StoreOK' /\ TipOK' /\ PoolOK' /\ WorksOK' /\ tip' = tip /\ job.at = "height"
      /\ store' = store /\ StoreOK /\ TipOK /\ JobOK
  BY StepFacts, Zenon DEF ReadHeight
<1>2. /\ job'.at = "block" /\ job'.internal = job.internal /\ job'.quiet = job.quiet
      /\ job'.height = HeightOf(tip) /\ job'.block = job.block
      /\ job' = [at |-> job'.at, internal |-> job'.internal, quiet |-> job'.quiet,
                 height |-> job'.height, block |-> job'.block]
  BY <1>1, Zenon DEF ReadHeight, JobOK, JobShape
<1>3. HeightOf(tip) \in Nat /\ Stored' = Stored
  BY <1>1, Zenon DEF StoreOK, TipOK, Stored
<1>4. JobShape'
  BY <1>1, <1>2, <1>3, Zenon DEF JobOK, JobShape, IsBlock
<1>5. ASSUME job.quiet PROVE QuietJob'
  BY <1>1, <1>2, <1>5, Zenon DEF JobOK, QuietJob, HeightOf
<1>6. JobOK'
  BY <1>2, <1>4, <1>5, Zenon DEF JobOK
<1> QED BY <1>1, <1>6, Zenon DEF MiningInv

(* The main chain starts at the genesis block. *)
LEMMA GenesisOnChain ==
    ASSUME StoreOK, NEW b \in Stored
    PROVE  Genesis \in OnChain(b)
<1>1. Shape(b) /\ HeightOf(b) \in Nat /\ b \in Nat
  BY ChainShape DEF StoreOK, Linked
<1>2. 1 \in DOMAIN ChainTo(b) /\ ChainTo(b)[1] \in 1 .. b /\ HeightOf(ChainTo(b)[1]) = 0
  BY <1>1 DEF Shape
<1>3. ChainTo(b)[1] \in OnChain(b) /\ ChainTo(b)[1] \in Stored
  BY <1>2, OnChainFacts, Zenon DEF OnChain, Range
<1>4. \A c \in Stored \ {Genesis} : HeightOf(c) # 0
  <2>1. \A c \in Stored \ {Genesis} : store[c].prev \in Stored
    BY DEF StoreOK, Linked
  <2> QED BY <2>1 DEF StoreOK
<1> QED BY <1>2, <1>3, <1>4, Zenon

(* The header of a template follows from the block it was put on. *)
LEMMA ReadParentKeeps ==
    ASSUME MiningInv, ReadParent
    PROVE  MiningInv'
<1> DEFINE p == IF job.height <= HeightOf(tip) THEN ChainTo(tip)[job.height + 1] ELSE Genesis
           height == store[p].height + 1
           time == templateBlockTime(store[p])
<1>1. /\ Kept /\ StoreOK' /\ TipOK' /\ PoolOK' /\ WorksOK' /\ tip' = tip /\ job.at = "block"
      /\ store' = store /\ StoreOK /\ TipOK /\ JobOK /\ JobShape
  BY StepFacts, Zenon DEF ReadParent, JobOK
<1>2. tip \in Stored /\ clock \in Nat /\ job.height \in Nat /\ HeightOf(tip) \in Nat
  BY <1>1, Zenon DEF TipOK, JobShape, StoreOK
<1>3. p \in Stored
  <2>1. CASE job.height <= HeightOf(tip)
    <3>1. job.height + 1 \in 1 .. Len(ChainTo(tip))
      BY <1>1, <1>2, <2>1, ChainShape DEF Shape
    <3>2. ChainTo(tip)[job.height + 1] \in 1 .. tip
      BY <1>1, <1>2, <3>1, ChainShape, Zenon DEF Shape
    <3> QED BY <1>1, <1>2, <2>1, <3>2 DEF StoreOK, Linked
  <2>2. CASE ~(job.height <= HeightOf(tip))
    BY <1>1, <2>2 DEF StoreOK, Linked, Genesis
  <2> QED BY <2>1, <2>2, Zenon
<1>4. ASSUME job.quiet PROVE p = tip
  <2>1. job.height = HeightOf(tip)
    BY <1>1, <1>4, Zenon DEF JobOK, QuietJob
  <2>2. ChainTo(tip)[HeightOf(tip) + 1] = tip
    BY <1>1, <1>2, ChainShape, Zenon DEF Shape
  <2> QED BY <1>2, <2>1, <2>2
<1>5. job' = [job EXCEPT !.at = "uncles",
                !.block.prev = p, !.block.height = height, !.block.time = time,
                !.block.diff = GetNextDiff(height, time, store[p]),
                !.block.fee = FeeAbove(store[p]),
                !.block.gen = IF job.internal THEN Generate(height) ELSE @]
  BY Zenon DEF ReadParent
<1>6. HeightOf(p) = store[p].height /\ store[p].time \in Int
  BY <1>1, <1>3, Zenon DEF StoreOK, HeightOf
<1>7. time \in Int /\ time > store[p].time
  BY <1>2, <1>6 DEF templateBlockTime
<1> HIDE DEF p, height, time
<1>8. /\ job'.at = "uncles" /\ job'.internal = job.internal /\ job'.quiet = job.quiet
      /\ job'.height = job.height
      /\ job' = [at |-> job'.at, internal |-> job'.internal, quiet |-> job'.quiet,
                 height |-> job'.height, block |-> job'.block]
      /\ job'.block = [job.block EXCEPT !.prev = p, !.height = height, !.time = time,
                         !.diff = GetNextDiff(height, time, store[p]),
                         !.fee = FeeAbove(store[p]),
                         !.gen = IF job.internal THEN Generate(height) ELSE @]
  BY <1>1, <1>5, Zenon DEF JobShape
<1> DEFINE b == job'.block
<1>9. /\ IsBlock(b) /\ b.prev = p /\ b.height = height /\ b.time = time
      /\ b.diff = GetNextDiff(height, time, store[p]) /\ b.fee = FeeAbove(store[p])
      /\ b.gen = (IF job.internal THEN Generate(height) ELSE job.block.gen)
      /\ b.uncles = job.block.uncles
  BY <1>1, <1>8, ZenonT(40) DEF JobShape, IsBlock
<1>10. Stored' = Stored /\ store' = store /\ HeightOf(p) + 1 = height
  BY <1>1, <1>6, Zenon DEF Stored, height
<1>11. JobShape'
  BY <1>1, <1>8, <1>9, <1>10, Zenon DEF JobShape
<1>12. Template(job.block)'
  BY <1>1, <1>3, <1>7, <1>9, <1>10, Zenon DEF Template, JobShape, checkBlockTarget, HeightOf
<1>13. ASSUME job.quiet PROVE QuietJob'
  <2>1. p = tip /\ height = HeightOf(tip) + 1
    BY <1>4, <1>10, <1>13, Zenon
  <2>2. ~job.internal => job.block.gen = Generate(HeightOf(tip) + 1)
    BY <1>1, <1>13, Zenon DEF JobOK, QuietJob
  <2>3. job'.block.gen = Generate(HeightOf(tip) + 1)
    BY <1>9, <2>1, <2>2, Zenon
  <2>4. HeightOf(tip)' = HeightOf(tip)
    BY <1>1, Zenon DEF HeightOf
  <2> QED BY <1>1, <1>8, <1>9, <2>1, <2>3, <2>4 DEF QuietJob
<1>14. JobOK'
  BY <1>8, <1>11, <1>12, <1>13, Zenon DEF JobOK
<1> QED BY <1>1, <1>14, Zenon DEF MiningInv

(* The candidates suit a block on the tip: validateUncles accepts them. *)
LEMMA CandidatesSuit ==
    ASSUME StoreOK, tip \in Stored, NEW b, b.prev = tip, b.height = HeightOf(tip) + 1,
           b.uncles \subseteq Candidates
    PROVE  validateUncles(b)
<1> DEFINE next == HeightOf(tip) + 1
<1>1. /\ Genesis \in OnChain(tip) /\ OnChain(tip) \subseteq Stored
      /\ \A c \in Stored : HeightOf(c) \in Nat
  BY GenesisOnChain, OnChainFacts, Zenon DEF StoreOK
<1> SUFFICES ASSUME NEW u \in b.uncles
             PROVE  /\ b.height - HeightOf(u) \in 1 .. UncleMaxDepth
                    /\ store[u].prev \in Window(b.prev, b.height)
                    /\ u \notin Window(b.prev, b.height)
                    /\ u \notin Referenced(b.prev, b.height)
                    /\ store[u].time > store[store[u].prev].time
                    /\ store[u].diff = GetNextDiff(HeightOf(u), store[u].time, store[store[u].prev])
  BY Zenon DEF validateUncles
<1>2. /\ u \in Stored \ OnChain(tip) /\ next - HeightOf(u) \in 1 .. UncleMaxDepth
      /\ store[u].prev \in OnChain(tip) /\ u \notin Referenced(tip, next)
  BY Zenon DEF Candidates
<1>3. u # Genesis
  BY <1>1, <1>2, Zenon
<1>4. HeightOf(u) = HeightOf(store[u].prev) + 1 /\ checkBlockTarget(store[u])
  BY <1>2, <1>3, Zenon DEF StoreOK
<1>5. UncleMaxDepth \in Nat
  BY RulesAssumption, Zenon
<1>6. HeightOf(store[u].prev) + UncleMaxDepth + 1 >= next
  BY <1>1, <1>2, <1>4, <1>5
<1>7. store[u].prev \in Window(tip, next) /\ u \notin Window(tip, next)
  BY <1>2, <1>6, Zenon DEF Window
<1> QED BY <1>2, <1>4, <1>7, Zenon DEF checkBlockTarget, HeightOf

INSTANCE SumLemmas

(* No more uncles are taken than a block may have. *)
LEMMA UnclesTaken ==
    ASSUME StoreOK, NEW uncles \in kSubset(Min({MaxUncles, Cardinality(Candidates)}), Candidates)
    PROVE  /\ uncles \subseteq Candidates /\ Candidates \subseteq Stored
           /\ Cardinality(uncles) <= MaxUncles
<1>1. Candidates \subseteq Stored
  BY Zenon DEF Candidates
<1>2. IsFiniteSet(Stored)
  BY FS_Interval DEF StoreOK, Linked
<1>3. Cardinality(Candidates) \in Nat
  BY <1>1, <1>2, FS_Subset, FS_CardinalityType, Zenon
<1>4. MaxUncles \in Nat
  BY MiningAssumption, Zenon
<1> DEFINE k == Cardinality(Candidates)
           m == Min({MaxUncles, k})
<1> HIDE DEF k
<1>5. k \in Nat
  BY <1>3, Zenon DEF k
<1>6. \E x \in {MaxUncles, k} : \A y \in {MaxUncles, k} : x <= y
  BY <1>4, <1>5
<1>7. m <= MaxUncles
  BY <1>6, Zenon DEF Min
<1>8. uncles \subseteq Candidates /\ Cardinality(uncles) = m
  BY Zenon DEF kSubset, k
<1> QED BY <1>1, <1>7, <1>8, Zenon

(* The uncles are collected for the tip of that moment. *)
LEMMA CollectUnclesKeeps ==
    ASSUME MiningInv, CollectUncles
    PROVE  MiningInv'
<1>1. /\ Kept /\ StoreOK' /\ TipOK' /\ PoolOK' /\ WorksOK' /\ tip' = tip /\ job.at = "uncles"
      /\ store' = store /\ StoreOK /\ TipOK /\ JobOK /\ JobShape
  BY StepFacts, Zenon DEF CollectUncles, JobOK
<1>2. PICK uncles \in kSubset(Min({MaxUncles, Cardinality(Candidates)}), Candidates) :
        job' = [job EXCEPT !.at = "pack", !.block.uncles = uncles,
                  !.block.rewards = [u \in uncles |-> UncleReward(HeightOf(u), job.block.height)]]
  BY Zenon DEF CollectUncles
<1> DEFINE rewards == [u \in uncles |-> UncleReward(HeightOf(u), job.block.height)]
<1>3. /\ uncles \subseteq Candidates /\ uncles \subseteq Stored /\ Cardinality(uncles) <= MaxUncles
  BY <1>1, UnclesTaken, Zenon
<1>4. \A u \in uncles : rewards[u] = UncleReward(HeightOf(u), job.block.height)
  BY Zenon
<1> HIDE DEF rewards
<1>5. /\ job'.at = "pack" /\ job'.internal = job.internal /\ job'.quiet = job.quiet
      /\ job'.height = job.height
      /\ job' = [at |-> job'.at, internal |-> job'.internal, quiet |-> job'.quiet,
                 height |-> job'.height, block |-> job'.block]
      /\ job'.block = [job.block EXCEPT !.uncles = uncles, !.rewards = rewards]
  BY <1>1, <1>2, Zenon DEF JobShape, rewards
<1> DEFINE b == job'.block
<1>6. /\ IsBlock(b) /\ b.prev = job.block.prev /\ b.height = job.block.height
      /\ b.time = job.block.time /\ b.diff = job.block.diff /\ b.fee = job.block.fee
      /\ b.gen = job.block.gen /\ b.uncles = uncles /\ b.rewards = rewards
  BY <1>1, <1>5, Zenon DEF JobShape, IsBlock
<1>7. Stored' = Stored /\ Template(job.block)
  BY <1>1, Zenon DEF Stored, JobOK
<1>8. JobShape'
  BY <1>1, <1>3, <1>5, <1>6, <1>7, Zenon DEF JobShape
<1>9. Template(job.block)'
  BY <1>1, <1>3, <1>6, <1>7, Zenon DEF Template, checkBlockTarget, HeightOf
<1>10. ASSUME job.quiet PROVE QuietJob'
  <2>1. job.block.prev = tip /\ job.block.gen = Generate(HeightOf(tip) + 1)
    BY <1>1, <1>10, Zenon DEF JobOK, QuietJob
  <2>2. b.prev = tip /\ b.height = HeightOf(tip) + 1 /\ b.uncles \subseteq Candidates
    BY <1>3, <1>6, <1>7, <2>1, Zenon DEF Template
  <2>3. validateUncles(b)
    BY <1>1, <2>2, CandidatesSuit DEF TipOK
  <2>4. Template(b)
    BY <1>3, <1>6, <1>7, Zenon DEF Template, checkBlockTarget
  <2>5. \A x : Template(x) /\ validateUncles(x) => validateUncles(x)'
    BY <1>1, UnclesStay, Zenon
  <2>6. validateUncles(job.block)'
    BY <2>3, <2>4, <2>5, Zenon
  <2>7. HeightOf(tip)' = HeightOf(tip) /\ \A u \in uncles : HeightOf(u)' = HeightOf(u)
    BY <1>1, Zenon DEF HeightOf
  <2> QED BY <1>1, <1>3, <1>4, <1>5, <1>6, <2>1, <2>6, <2>7 DEF QuietJob
<1>11. JobOK'
  BY <1>5, <1>8, <1>9, <1>10, Zenon DEF JobOK
<1> QED BY <1>1, <1>11, Zenon DEF MiningInv

(* The transactions are taken from the pool. *)
LEMMA GetPackKeeps ==
    ASSUME MiningInv, GetPack
    PROVE  MiningInv'
<1>1. /\ Kept /\ StoreOK' /\ TipOK' /\ PoolOK' /\ WorksOK' /\ tip' = tip /\ job.at = "pack"
      /\ store' = store /\ StoreOK /\ TipOK /\ JobOK /\ JobShape /\ PoolOK
  BY StepFacts, Zenon DEF GetPack, JobOK
<1>2. PICK txs : /\ txs \subseteq pool
                 /\ job' = [job EXCEPT !.at = "root", !.block.txs = txs, !.quiet = @ /\ ~unreset]
  BY Zenon DEF GetPack, kSubset
<1>3. unreset \in BOOLEAN /\ job.quiet \in BOOLEAN
  BY <1>1, Zenon DEF PoolOK, JobShape
<1>4. /\ job'.at = "root" /\ job'.internal = job.internal
      /\ job'.quiet = (job.quiet /\ ~unreset) /\ job'.height = job.height
      /\ job' = [at |-> job'.at, internal |-> job'.internal, quiet |-> job'.quiet,
                 height |-> job'.height, block |-> job'.block]
      /\ job'.block = [job.block EXCEPT !.txs = txs]
  BY <1>1, <1>2, Zenon DEF JobShape
<1> DEFINE b == job'.block
<1>5. /\ IsBlock(b) /\ b.prev = job.block.prev /\ b.height = job.block.height
      /\ b.time = job.block.time /\ b.diff = job.block.diff /\ b.fee = job.block.fee
      /\ b.gen = job.block.gen /\ b.uncles = job.block.uncles /\ b.rewards = job.block.rewards
      /\ b.txs = txs
  BY <1>1, <1>4, Zenon DEF JobShape, IsBlock
<1>6. Stored' = Stored /\ Template(job.block)
  BY <1>1, Zenon DEF Stored, JobOK
<1>7. JobShape'
  BY <1>1, <1>3, <1>4, <1>5, <1>6, Zenon DEF JobShape
<1>8. Template(job.block)'
  BY <1>1, <1>5, <1>6, Zenon DEF Template, checkBlockTarget, HeightOf
<1>9. ASSUME job.quiet, ~unreset PROVE QuietJob'
  <2>1. QuietJob
    BY <1>1, <1>9, Zenon DEF JobOK
  <2>2. validateUncles(b) /\ Template(b)
    BY <1>1, <1>5, <1>6, <2>1, Zenon DEF QuietJob, validateUncles, Template, checkBlockTarget
  <2>3. \A x : Template(x) /\ validateUncles(x) => validateUncles(x)'
    BY <1>1, UnclesStay, Zenon
  <2>4. validateUncles(job.block)'
    BY <2>2, <2>3, Zenon
  <2>5. HeightOf(tip)' = HeightOf(tip) /\ \A u \in b.uncles : HeightOf(u)' = HeightOf(u)
    BY <1>1, Zenon DEF HeightOf
  <2>6. \A t \in txs : Paid(t)
    BY <1>1, <1>2, <1>9, Zenon DEF PoolOK
  <2>7. \A t : Paid(t) => Paid(t)'
    BY <1>1, PaidStays, Zenon DEF TipOK
  <2> QED BY <1>1, <1>4, <1>5, <2>1, <2>4, <2>5, <2>6, <2>7 DEF QuietJob
<1>10. JobOK'
  BY <1>4, <1>7, <1>8, <1>9, Zenon DEF JobOK
<1> QED BY <1>1, <1>10, Zenon DEF MiningInv

(* The root is not part of the state that it hashes. *)
LEMMA UpgradeRootless ==
    ASSUME NEW s, NEW state, NEW x, NEW y, x.gen = y.gen, x.rewards = y.rewards, x.txs = y.txs,
           x.uncles = y.uncles, x.height = y.height, x.prev = y.prev
    PROVE  UpgradeIn(s, state, x) = UpgradeIn(s, state, y)
BY Zenon DEF UpgradeIn, MintedIn, Burnt

(* A template that was assembled undisturbed is ready for its parent. *)
LEMMA QuietIsReady ==
    ASSUME MiningInv, job.at = "root", job.quiet, NEW b,
           b = [job.block EXCEPT !.root = Upgrade(StateAfter(tip), job.block)]
    PROVE  Affordable(StateAfter(tip), job.block) /\ Ready(b)
<1> DEFINE j == job.block
           st == StateAfter(tip)
<1>1. /\ QuietJob /\ Template(j) /\ IsBlock(j)
  BY Zenon DEF MiningInv, JobOK, JobShape
<1>2. /\ j.prev = tip /\ j.gen = Generate(HeightOf(tip) + 1)
      /\ Cardinality(j.uncles) <= MaxUncles /\ validateUncles(j)
      /\ \A u \in j.uncles : j.rewards[u] = UncleReward(HeightOf(u), j.height)
      /\ \A t \in j.txs : Paid(t)
      /\ j.height = HeightOf(tip) + 1 /\ j.fee = FeeAbove(store[tip])
  BY <1>1, Zenon DEF QuietJob, Template, checkBlockTarget
<1>3. /\ b.gen = j.gen /\ b.rewards = j.rewards /\ b.txs = j.txs /\ b.uncles = j.uncles
      /\ b.height = j.height /\ b.prev = j.prev /\ b.fee = j.fee /\ b.root = Upgrade(st, j)
  BY <1>1, Zenon DEF IsBlock
<1> HIDE DEF j
<1>4. Affordable(st, j)
  BY <1>2, Zenon DEF Affordable, Paid
<1>5. CheckBlockTxs(st, b)
  <2>1. j.gen.value = GetBlockReward(j.height)
    BY <1>2 DEF Generate
  <2>2. checkBlockGenerates(b)
    BY <1>2, <1>3, <2>1, ZenonT(40) DEF checkBlockGenerates
  <2> QED BY <1>2, <1>3, <1>4, <2>2, Zenon DEF CheckBlockTxs, Affordable, Paid
<1>6. CheckStateRoot(st, b)
  <2>1. \A x, y : /\ x.gen = y.gen /\ x.rewards = y.rewards /\ x.txs = y.txs
                  /\ x.uncles = y.uncles /\ x.height = y.height /\ x.prev = y.prev
                  => UpgradeIn(store, st, x) = UpgradeIn(store, st, y)
    BY UpgradeRootless
  <2>2. UpgradeIn(store, st, b) = UpgradeIn(store, st, j)
    BY <1>3, <2>1, Zenon
  <2> QED BY <1>3, <2>2, UpgradeIs, Zenon DEF CheckStateRoot, UpgradeReads
<1>7. validateUncles(b)
  BY <1>2, <1>3, Zenon DEF validateUncles
<1> QED BY <1>2, <1>3, <1>4, <1>5, <1>6, <1>7, Zenon DEF Ready, Applies, j

(* A template that is handed out joins the works. *)
LEMMA HandKeeps ==
    ASSUME StoreOK, Kept, WorksOK, NEW w, works' = Append(works, w), Template(w.block),
           w.quiet => Ready(w.block)
    PROVE  WorksOK'
<1> DEFINE S == Range(works) \cup {w}
           n == Len(works)
<1>1. works \in Seq(S) /\ w \in S
  BY DEF WorksOK
<1> HIDE DEF S
<1>2. /\ works' \in Seq(S) /\ DOMAIN works' = 1 .. (n + 1) /\ DOMAIN works = 1 .. n /\ n \in Nat
      /\ \A i \in 1 .. n : works'[i] = works[i]
      /\ works'[n + 1] = w
  BY <1>1
<1>3. works' \in Seq(Range(works'))
  BY <1>2 DEF Range
<1>4. \A b : Template(b) => Template(b)'
  BY TemplateStays, Zenon
<1>5. \A b : Template(b) /\ Ready(b) => Ready(b)'
  BY ReadyStays, Zenon
<1>6. ASSUME NEW i \in DOMAIN works'
      PROVE  \/ i \in DOMAIN works /\ works'[i] = works[i]
             \/ works'[i] = w
  BY <1>2
<1>7. ASSUME NEW i \in DOMAIN works'
      PROVE  Template(works'[i].block) /\ (works'[i].quiet => Ready(works'[i].block))
  BY <1>6, Zenon DEF WorksOK
<1> QED BY <1>3, <1>4, <1>5, <1>7, Zenon DEF WorksOK

(* There is no assembly. *)
LEMMA NoJobOK ==
    ASSUME job' = NoJob
    PROVE  JobOK'
<1>1. /\ job'.at = "idle" /\ job'.internal = FALSE /\ job'.quiet = FALSE /\ job'.height = 0
      /\ job'.block = GenesisBlock
      /\ job' = [at |-> job'.at, internal |-> job'.internal, quiet |-> job'.quiet,
                 height |-> job'.height, block |-> job'.block]
  BY Zenon DEF NoJob
<1>2. IsBlock(GenesisBlock) /\ GenesisBlock.uncles = {} /\ 0 \in Nat
  BY MiningAssumption, Zenon DEF IsBlock
<1>3. JobShape'
  BY <1>1, <1>2, Zenon DEF JobShape
<1> QED BY <1>1, <1>3, Zenon DEF JobOK

(* The root is computed, and the template is handed out or given up. *)
LEMMA DryApplyRootKeeps ==
    ASSUME MiningInv, DryApplyRoot
    PROVE  MiningInv'
<1>1. /\ Kept /\ StoreOK' /\ TipOK' /\ PoolOK' /\ tip' = tip /\ job.at = "root"
      /\ StoreOK /\ TipOK /\ JobOK /\ JobShape /\ WorksOK /\ (works' = works => WorksOK')
  BY StepFacts, Zenon DEF DryApplyRoot, JobOK
<1>2. JobOK'
  BY NoJobOK, Zenon DEF DryApplyRoot
<1>3. ASSUME NEW root, Hand(root),
             job.quiet => root = Upgrade(StateAfter(tip), job.block)
      PROVE  WorksOK'
  <2> DEFINE b == [job.block EXCEPT !.root = root]
             w == [block |-> b, quiet |-> job.quiet]
  <2>1. works' = Append(works, w) /\ w.block = b /\ w.quiet = job.quiet
    BY <1>3, Zenon DEF Hand
  <2>2. Template(job.block) /\ IsBlock(job.block)
    BY <1>1, Zenon DEF JobOK, JobShape
  <2>3. /\ b.prev = job.block.prev /\ b.height = job.block.height /\ b.time = job.block.time
        /\ b.diff = job.block.diff /\ b.fee = job.block.fee /\ b.uncles = job.block.uncles
    BY <2>2, Zenon DEF IsBlock
  <2>4. job.quiet => Ready(b)
    BY <1>1, <1>3, QuietIsReady, Zenon
  <2> HIDE DEF b, w
  <2>5. Template(b)
    BY <2>2, <2>3, Zenon DEF Template, checkBlockTarget
  <2> QED BY <1>1, <2>1, <2>4, <2>5, HandKeeps, Zenon
<1>4. ASSUME Affordable(StateAfter(tip), job.block) PROVE WorksOK'
  BY <1>3, <1>4, Zenon DEF DryApplyRoot
<1>5. ASSUME ~Affordable(StateAfter(tip), job.block) PROVE WorksOK'
  <2>1. ~job.quiet
    BY <1>1, <1>5, QuietIsReady, Zenon
  <2>2. Hand(NoRoot) \/ works' = works
    BY <1>5, Zenon DEF DryApplyRoot
  <2> QED BY <1>1, <1>3, <2>1, <2>2, Zenon
<1>6. WorksOK'
  BY <1>4, <1>5, Zenon
<1> QED BY <1>1, <1>2, <1>6, Zenon DEF MiningInv

(* A node that starts has the genesis block only. *)
LEMMA MiningInitial == Init => MiningInv
<1> SUFFICES ASSUME Init PROVE MiningInv
  OBVIOUS
<1>1. /\ store = <<GenesisBlock>> /\ tip = 1 /\ clock = 0 /\ pool = {} /\ unreset = FALSE
      /\ job = NoJob /\ works = <<>>
  BY Zenon DEF Init, Genesis
<1>2. GenesisBlock.height = 0 /\ GenesisBlock.time \in Int /\ GenesisBlock.uncles = {}
  BY MiningAssumption, Zenon
<1>3. Len(store) = 1 /\ Stored = {1} /\ store[1] = GenesisBlock /\ 1 .. 1 = {1}
  BY <1>1 DEF Stored
<1>4. Linked
  BY <1>3 DEF Linked, Genesis
<1>5. store \in Seq(Range(store))
  BY <1>1 DEF Range
<1>6. StoreOK
  BY <1>2, <1>3, <1>4, <1>5 DEF StoreOK, HeightOf, Genesis
<1>7. TipOK
  BY <1>1, <1>3, <1>6, OnChainFacts, Zenon DEF TipOK, Genesis
<1>8. PoolOK /\ WorksOK
  <2>1. works \in Seq(Range(works)) /\ DOMAIN works = {}
    BY <1>1
  <2> QED BY <1>1, <2>1, Zenon DEF PoolOK, WorksOK
<1>9. JobOK
  <2>1. /\ job.at = "idle" /\ job.internal = FALSE /\ job.quiet = FALSE /\ job.height = 0
        /\ job.block = GenesisBlock
        /\ job = [at |-> job.at, internal |-> job.internal, quiet |-> job.quiet,
                  height |-> job.height, block |-> job.block]
    BY <1>1, Zenon DEF NoJob
  <2>2. IsBlock(GenesisBlock) /\ 0 \in Nat
    BY MiningAssumption, Zenon DEF IsBlock
  <2>3. JobShape
    BY <1>2, <2>1, <2>2, Zenon DEF JobShape
  <2> QED BY <2>1, <2>3, Zenon DEF JobOK
<1> QED BY <1>6, <1>7, <1>8, <1>9, Zenon DEF MiningInv

(* Every step keeps the invariant. *)
LEMMA MiningKeeps ==
    ASSUME MiningInv, [Next]_vars
    PROVE  MiningInv'
<1>1. ASSUME NEW p \in Stored, NEW m \in Miners \ {Me}, NEW time \in 1 .. MaxClock,
             NEW txs \in SUBSET Txs, Receive(p, m, time, txs)
      PROVE  MiningInv'
  BY <1>1, ReceiveKeeps, Zenon
<1>2. CASE Tick \/ ResetPool \/ (\E t \in Txs : PutTx(t)) \/ UNCHANGED vars
  BY <1>2, OthersKeep, Zenon
<1>3. ASSUME NEW internal \in BOOLEAN, Ask(internal) PROVE MiningInv'
  BY <1>3, AskKeeps, Zenon
<1>4. CASE ReadHeight
  BY <1>4, ReadHeightKeeps, Zenon
<1>5. CASE ReadParent
  BY <1>5, ReadParentKeeps, Zenon
<1>6. CASE CollectUncles
  BY <1>6, CollectUnclesKeeps, Zenon
<1>7. CASE GetPack
  BY <1>7, GetPackKeeps, Zenon
<1>8. CASE DryApplyRoot
  BY <1>8, DryApplyRootKeeps, Zenon
<1>9. ASSUME NEW i \in DOMAIN works, Submit(i) PROVE MiningInv'
  BY <1>9, SubmitKeeps, Zenon
<1> QED BY <1>1, <1>2, <1>3, <1>4, <1>5, <1>6, <1>7, <1>8, <1>9, Zenon DEF Next

(* A node that assembles, receives and mines blocks always satisfies the   *)
(* invariant: its store, its tip, its pool, the template it is assembling  *)
(* and the templates it handed out agree.                                  *)
THEOREM MiningInvariant == Spec => []MiningInv
<1>1. MiningInv /\ [Next]_vars => MiningInv'
  BY MiningKeeps, Zenon
<1> QED BY <1>1, MiningInitial, PTL DEF Spec

(* Whatever is mined while the tip moves, every block of the tip's chain   *)
(* has the root of the state after it and the header its parent asks for.  *)
THEOREM ChainExactCorrect == Spec => []ChainExact
<1>1. MiningInv => ChainExact
  <2> SUFFICES ASSUME MiningInv, NEW b \in OnChain(tip) \ {Genesis}
               PROVE  store[b].root = StateAfter(b) /\ checkBlockTarget(store[b])
    BY Zenon DEF ChainExact
  <2>1. StoreOK /\ TipOK /\ OnChain(tip) \subseteq Stored
    BY OnChainFacts, Zenon DEF MiningInv, TipOK
  <2> QED BY <2>1, Zenon DEF StoreOK, TipOK
<1> QED BY <1>1, MiningInvariant, PTL

(* A template assembled while the tip stood still is accepted by           *)
(* ApplyBlock whenever its parent is the tip again.                        *)
THEOREM FreshWorkCorrect == Spec => []FreshWorkAccepted
<1>1. MiningInv => FreshWorkAccepted
  <2> SUFFICES ASSUME MiningInv, NEW i \in DOMAIN works, NEW block, block = works[i].block,
                      works[i].quiet, block.prev = tip,
                      block.time <= clock + TimestampDriftTolerance, WithinCap(block)
               PROVE  ExtendsTip(block)
    BY Zenon DEF FreshWorkAccepted
  <2>1. Template(block) /\ Ready(block)
    BY Zenon DEF MiningInv, WorksOK
  <2>2. Fits(block)
    BY <2>1, Zenon DEF Fits, CheckError, Template, Ready
  <2> QED BY <2>1, <2>2, Zenon DEF ExtendsTip, Ready
<1> QED BY <1>1, MiningInvariant, PTL

-----------------------------------------------------------------------------
(* The supply.  The rewards of the eras can be tabulated up to any era ... *)
Tabulates(f, k) ==
    f = [era \in 0 .. k |-> IF era = 0 THEN floatingReward ELSE f[era - 1] - f[era - 1] \div 10]

(* The rewards of the eras can be tabulated. *)
LEMMA RewardTables ==
    ASSUME NEW k \in Nat
    PROVE  \E f : Tabulates(f, k)
<1> DEFINE Bad == {j \in Nat : ~\E f : Tabulates(f, j)}
<1> SUFFICES ASSUME Bad # {} PROVE FALSE
  BY Zenon
<1>1. PICK j \in Bad : \A i \in Bad : j <= i
  BY LeastNumber, Zenon
<1>2. CASE j = 0
  <2> DEFINE f == [era \in 0 .. 0 |-> floatingReward]
  <2>1. Tabulates(f, 0)
    BY DEF Tabulates
  <2> QED BY <1>1, <1>2, <2>1, Zenon
<1>3. CASE j # 0
  <2>1. j - 1 \in Nat /\ j - 1 \notin Bad /\ 0 .. (j - 1) \subseteq 0 .. j
    BY <1>1, <1>3
  <2>2. PICK f : Tabulates(f, j - 1)
    BY <2>1, Zenon
  <2> DEFINE g == [era \in 0 .. j |-> IF era = 0 THEN floatingReward
                                      ELSE f[era - 1] - f[era - 1] \div 10]
  <2>3. \A era \in 0 .. (j - 1) : f[era] = IF era = 0 THEN floatingReward
                                           ELSE f[era - 1] - f[era - 1] \div 10
    BY <2>2, Zenon DEF Tabulates
  <2>4. ASSUME NEW era \in 0 .. (j - 1) PROVE g[era] = f[era]
    BY <2>1, <2>3, Zenon
  <2>5. \A era \in 0 .. j : era # 0 => era - 1 \in 0 .. (j - 1)
    BY <1>1
  <2>6. \A era \in 0 .. j : g[era] = IF era = 0 THEN floatingReward
                                     ELSE g[era - 1] - g[era - 1] \div 10
    BY <2>4, <2>5, Zenon
  <2>7. g = [era \in 0 .. j |-> g[era]]
    BY Zenon
  <2> HIDE DEF g
  <2>8. Tabulates(g, j)
    BY <2>6, <2>7, Zenon DEF Tabulates
  <2> QED BY <1>1, <2>8, Zenon
<1> QED BY <1>2, <1>3, Zenon

(* ... in one way only, ... *)
LEMMA RewardTablesAgree ==
    ASSUME NEW k \in Nat, NEW j \in Nat, NEW f, NEW g, Tabulates(f, k), Tabulates(g, j),
           NEW e \in Nat, e <= k, e <= j
    PROVE  f[e] = g[e]
<1> DEFINE Bad == {d \in Nat : d <= k /\ d <= j /\ f[d] # g[d]}
<1> SUFFICES ASSUME Bad # {} PROVE FALSE
  BY Zenon
<1>1. PICK d \in Bad : \A i \in Bad : d <= i
  BY LeastNumber, Zenon
<1>2. d \in 0 .. k /\ d \in 0 .. j
  BY <1>1
<1>3. /\ f[d] = IF d = 0 THEN floatingReward ELSE f[d - 1] - f[d - 1] \div 10
      /\ g[d] = IF d = 0 THEN floatingReward ELSE g[d - 1] - g[d - 1] \div 10
  BY <1>2, Zenon DEF Tabulates
<1>4. d # 0 /\ f[d] # g[d]
  BY <1>1, <1>3, Zenon
<1>5. d - 1 \in Nat /\ d - 1 <= k /\ d - 1 <= j /\ ~(d <= d - 1)
  BY <1>1, <1>4
<1>6. d - 1 \notin Bad
  BY <1>1, <1>5, Zenon
<1>7. f[d - 1] = g[d - 1]
  BY <1>5, <1>6, Zenon
<1> QED BY <1>3, <1>4, <1>7, Zenon

(* ... so Floating is what its definition says in every era, ... *)
LEMMA FloatingStep ==
    \A era \in Nat : Floating[era] = IF era = 0 THEN floatingReward
                                     ELSE Floating[era - 1] - Floating[era - 1] \div 10
<1> DEFINE T(k) == CHOOSE f : Tabulates(f, k)
           F == [era \in Nat |-> T(era)[era]]
<1>1. \A k \in Nat : Tabulates(T(k), k)
  BY RewardTables, Zenon
<1> HIDE DEF T
<1>2. F = [era \in Nat |-> F[era]] /\ \A k \in Nat : F[k] = T(k)[k]
  BY Zenon
<1> HIDE DEF F
<1>3. ASSUME NEW k \in Nat
      PROVE  F[k] = IF k = 0 THEN floatingReward ELSE F[k - 1] - F[k - 1] \div 10
  <2>1. k \in 0 .. k
    OBVIOUS
  <2>2. T(k)[k] = IF k = 0 THEN floatingReward ELSE T(k)[k - 1] - T(k)[k - 1] \div 10
    BY <1>1, <2>1, Zenon DEF Tabulates
  <2>3. ASSUME k # 0 PROVE T(k)[k - 1] = F[k - 1]
    <3>1. k - 1 \in Nat /\ k - 1 <= k /\ k - 1 <= k - 1
      BY <2>3
    <3>2. Tabulates(T(k), k) /\ Tabulates(T(k - 1), k - 1)
      BY <3>1, <1>1, Zenon
    <3>3. T(k)[k - 1] = T(k - 1)[k - 1]
      BY <3>1, <3>2, RewardTablesAgree
    <3> QED BY <3>1, <3>3, <1>2, Zenon
  <2> QED BY <1>2, <2>2, <2>3, Zenon
<1>4. F = [era \in Nat |-> IF era = 0 THEN floatingReward ELSE F[era - 1] - F[era - 1] \div 10]
  BY <1>2, <1>3, Zenon
<1>5. Floating = [era \in Nat |-> IF era = 0 THEN floatingReward
                                  ELSE Floating[era - 1] - Floating[era - 1] \div 10]
  BY <1>4, Zenon DEF Floating
<1> QED BY <1>5, Zenon

(* ... and rewards are amounts. *)
LEMMA RewardType ==
    /\ \A h \in Nat : GetBlockReward(h) \in Nat
    /\ \A h \in Nat, n \in Nat : UncleReward(h, n) \in Int
<1>1. \A era \in Nat : Floating[era] \in Nat
  <2> DEFINE Bad == {e \in Nat : Floating[e] \notin Nat}
  <2> SUFFICES ASSUME Bad # {} PROVE FALSE
    BY Zenon
  <2>1. PICK e \in Bad : \A i \in Bad : e <= i
    BY LeastNumber, Zenon
  <2>2. CASE e = 0
    BY <2>1, <2>2, FloatingStep, RulesAssumption, Zenon
  <2>3. CASE e # 0
    <3>1. e - 1 \in Nat /\ ~(e <= e - 1)
      BY <2>1, <2>3
    <3>2. Floating[e - 1] \in Nat
      BY <3>1, <2>1, Zenon
    <3>3. Floating[e] = Floating[e - 1] - Floating[e - 1] \div 10
      BY <2>1, <2>3, FloatingStep, Zenon
    <3>4. \A x \in Nat : x - x \div 10 \in Nat
      OBVIOUS
    <3> QED BY <2>1, <3>2, <3>3, <3>4, Zenon
  <2> QED BY <2>2, <2>3, Zenon
<1>2. rewardEra \in Nat \ {0} /\ minReward \in Nat /\ UncleMaxDepth \in Nat
  BY RulesAssumption, Zenon
<1>3. \A h \in Nat : h \div rewardEra \in Nat
  BY <1>2
<1>4. \A h \in Nat : GetBlockReward(h) \in Nat
  <2>1. \A x \in Nat : x + minReward \in Nat
    BY <1>2
  <2> QED BY <1>1, <1>3, <2>1, Zenon DEF GetBlockReward
<1>5. ASSUME NEW h \in Nat, NEW n \in Nat PROVE UncleReward(h, n) \in Int
  <2> DEFINE r == GetBlockReward(h)
             k == UncleMaxDepth + 1
             left == UncleMaxDepth + 1 - (n - h)
  <2>1. r \in Int /\ left \in Int /\ k \in Int /\ k > 0
    BY <1>2, <1>4, <1>5
  <2>2. CASE n - h \notin 1 .. UncleMaxDepth
    BY <2>2 DEF UncleReward
  <2>3. CASE n - h \in 1 .. UncleMaxDepth
    <3>1. UncleReward(h, n) = (r * left) \div k
      BY <2>3, Zenon DEF UncleReward
    <3> HIDE DEF r, k, left
    <3>2. r * left \in Int
      BY <2>1
    <3>3. (r * left) \div k \in Int
      BY <2>1, <3>2
    <3> QED BY <3>1, <3>3, Zenon
  <2> QED BY <2>2, <2>3, Zenon
<1> QED BY <1>4, <1>5, Zenon

(* A block that credits the node's accounts and carries its transactions. *)
Known(b) == b.gen.to \in Miners /\ b.txs \subseteq Txs

(* What a block adds to the balances is what it issues. *)
LEMMA BlockSupply ==
    ASSUME NEW b, Known(b), checkBlockGenerates(b), b.height \in Nat, IsFiniteSet(b.uncles),
           \A u \in b.uncles : HeightOf(u) \in Nat /\ store[u].gen.to \in Miners,
           NEW st, \A a \in Miners : st.balance[a] \in Int
    PROVE  /\ \A a \in Miners : Upgrade(st, b).balance[a] \in Int
           /\ SumFunctionOnSet(Upgrade(st, b).balance, Miners) =
                 SumFunctionOnSet(st.balance, Miners) + Issued(b)
           /\ SumFunctionOnSet(st.balance, Miners) \in Int /\ Issued(b) \in Int
<1> DEFINE sum(f, S) == SumFunctionOnSet(f, S)
           to == [u \in b.uncles |-> store[u].gen.to]
           own == [a \in Miners |-> IF b.gen.to = a THEN b.gen.value ELSE 0]
           aside == [a \in Miners |-> sum(b.rewards, {u \in b.uncles : to[u] = a})]
           none == [a \in Miners |-> 0]
           minted == [a \in Miners |-> Minted(b, a)]
           burnt == [a \in Miners |-> sum(TxFee, {t \in b.txs : TxFrom[t] = a})]
           rewards == [u \in b.uncles |-> UncleReward(HeightOf(u), b.height)]
           after == Upgrade(st, b).balance
<1>1. /\ IsFiniteSet(Miners) /\ IsFiniteSet(b.txs) /\ b.gen.to \in Miners
      /\ \A t \in b.txs : TxFee[t] \in Int /\ TxFrom[t] \in Miners
  BY MiningAssumption, FS_Subset DEF Known
<1>2. /\ b.gen.value \in Int /\ b.gen.value = GetBlockReward(b.height)
      /\ \A u \in b.uncles : b.rewards[u] \in Int /\ b.rewards[u] = rewards[u]
  <2>1. /\ b.gen.value = GetBlockReward(b.height)
        /\ \A u \in b.uncles : b.rewards[u] = UncleReward(HeightOf(u), b.height)
    BY Zenon DEF checkBlockGenerates
  <2>2. GetBlockReward(b.height) \in Int /\ \A u \in b.uncles : UncleReward(HeightOf(u), b.height) \in Int
    BY RewardType
  <2> QED BY <2>1, <2>2, Zenon
<1>3. \A a \in Miners : {u \in b.uncles : to[u] = a} = {u \in b.uncles : store[u].gen.to = a}
  BY Zenon
<1>4. \A a \in Miners : /\ IsFiniteSet({u \in b.uncles : to[u] = a})
                        /\ IsFiniteSet({t \in b.txs : TxFrom[t] = a})
  BY <1>1, FS_Subset, Zenon
<1>5. \A a \in Miners : aside[a] \in Int /\ burnt[a] \in Int /\ own[a] \in Int /\ none[a] = 0
  <2>1. ASSUME NEW a \in Miners PROVE aside[a] \in Int
    BY <1>2, <1>4, SumInteger, Zenon
  <2>2. ASSUME NEW a \in Miners PROVE burnt[a] \in Int
    BY <1>1, <1>4, SumInteger, Zenon
  <2>3. 0 \in Int
    OBVIOUS
  <2>4. ASSUME NEW a \in Miners PROVE own[a] \in Int /\ none[a] = 0
    BY <1>2, <2>3, Zenon
  <2> QED BY <2>1, <2>2, <2>4, Zenon
<1>6. \A a \in Miners : minted[a] = own[a] + aside[a] /\ burnt[a] = Burnt(b, a)
  BY <1>3, Zenon DEF Minted, Burnt
<1>7. \A a \in Miners : after[a] = st.balance[a] + minted[a] - burnt[a]
  <2>1. after = [a \in Miners |-> st.balance[a] + Minted(b, a) - Burnt(b, a)]
    BY Zenon DEF Upgrade
  <2> HIDE DEF after, burnt
  <2> QED BY <2>1, <1>6, Zenon
<1>8. sum(own, Miners) = b.gen.value
  <2>1. own[b.gen.to] = b.gen.value /\ own[b.gen.to] \in Int /\ \A a \in Miners \ {b.gen.to} : own[a] = 0
    BY <1>1, <1>2, Zenon
  <2> HIDE DEF own
  <2> QED BY <1>1, <2>1, SumOne
<1>9. sum(aside, Miners) = sum(b.rewards, b.uncles)
  <2>1. \A u \in b.uncles : to[u] \in Miners
    BY Zenon
  <2>2. \A u \in b.uncles : b.rewards[u] \in Int
    BY <1>2, Zenon
  <2> HIDE DEF to
  <2> QED BY <1>1, <2>1, <2>2, SumGroups
<1>10. sum(b.rewards, b.uncles) = sum(rewards, b.uncles)
  BY <1>2, SumSame, Zenon
<1>11. sum(burnt, Miners) = sum(TxFee, b.txs)
  BY <1>1, SumGroups, SMTT(30)
<1>12. sum(none, Miners) = 0
  <2> HIDE DEF none
  <2> QED BY <1>1, <1>5, SumZero, Zenon
<1>13. Issued(b) = GetBlockReward(b.height) + sum(rewards, b.uncles) - sum(TxFee, b.txs)
  BY Zenon DEF Issued
<1> HIDE DEF own, aside, none, minted, burnt, after, rewards, to
<1>14. \A a \in Miners : minted[a] \in Int /\ minted[a] = own[a] + aside[a] - none[a]
  BY <1>5, <1>6
<1>15. sum(minted, Miners) = sum(own, Miners) + sum(aside, Miners) - sum(none, Miners)
  <2>1. \A a \in Miners : /\ own[a] \in Int /\ aside[a] \in Int /\ none[a] \in Int
                          /\ minted[a] = own[a] + aside[a] - none[a]
    BY <1>5, <1>14
  <2> QED BY <1>1, <2>1, SumLinear
<1>16. sum(after, Miners) = sum(st.balance, Miners) + sum(minted, Miners) - sum(burnt, Miners)
  <2> DEFINE bal == st.balance
  <2>1. \A a \in Miners : /\ bal[a] \in Int /\ minted[a] \in Int /\ burnt[a] \in Int
                          /\ after[a] = bal[a] + minted[a] - burnt[a]
    BY <1>5, <1>7, <1>14, Zenon
  <2> HIDE DEF bal
  <2>2. sum(after, Miners) = sum(bal, Miners) + sum(minted, Miners) - sum(burnt, Miners)
    BY ONLY <1>1, <2>1, SumLinear
  <2> QED BY <2>2, Zenon DEF bal
<1>17. /\ sum(st.balance, Miners) \in Int /\ sum(rewards, b.uncles) \in Int
       /\ sum(TxFee, b.txs) \in Int
  <2>1. \A u \in b.uncles : rewards[u] \in Int
    BY <1>2, Zenon
  <2> QED BY <1>1, <2>1, SumInteger, Zenon
<1>18. \A a \in Miners : after[a] \in Int
  BY <1>5, <1>7, <1>14
<1>19. /\ sum(after, Miners) = sum(st.balance, Miners) + Issued(b) /\ Issued(b) \in Int
  <2>1. Issued(b) = b.gen.value + sum(rewards, b.uncles) - sum(TxFee, b.txs)
    BY <1>2, <1>13, Zenon
  <2>2. sum(minted, Miners) = b.gen.value + sum(rewards, b.uncles) - 0
    BY <1>8, <1>9, <1>10, <1>12, <1>15, Zenon
  <2>3. sum(after, Miners) = sum(st.balance, Miners) + sum(minted, Miners) - sum(TxFee, b.txs)
    BY <1>11, <1>16, Zenon
  <2> HIDE DEF sum
  <2> QED BY ONLY <2>1, <2>2, <2>3, <1>2, <1>17
<1> QED BY <1>17, <1>18, <1>19, Zenon DEF after

(* checkBlockGenerates, reading the uncles from the store s. *)
GeneratesIn(s, b) ==
    /\ b.gen.value = GetBlockReward(b.height)
    /\ \A u \in b.uncles : b.rewards[u] = UncleReward(s[u].height, b.height)

(* On the main chain the generates are those of the heights. *)
SupplyOK ==
    /\ \A c \in Stored \ {Genesis} : Known(store[c]) /\ \A u \in store[c].uncles : u # Genesis
    /\ \A c \in OnChain(tip) \ {Genesis} : GeneratesIn(store, store[c])
    /\ pool \subseteq Txs
    /\ job.at # "idle" => Known(job.block)
    /\ \A i \in DOMAIN works : Known(works[i].block)

(* The supply follows block by block. *)
LEMMA ChainSupply ==
    ASSUME MiningInv, SupplyOK
    PROVE  SupplyExact
<1> DEFINE issued == [b \in Stored |-> Issued(store[b])]
           above(c) == OnChain(c) \ {Genesis}
           Right(c) == /\ \A a \in Miners : StateAfter(c).balance[a] \in Int
                       /\ \A x \in above(c) : issued[x] \in Int
                       /\ SumFunctionOnSet(StateAfter(c).balance, Miners) =
                             SumFunctionOnSet(issued, above(c))
           Bad == {c \in Stored : OnChain(c) \subseteq OnChain(tip) /\ ~Right(c)}
<1>1. StoreOK /\ TipOK /\ Linked /\ tip \in Stored /\ Len(store) \in Nat /\ Stored = 1 .. Len(store)
  BY Zenon DEF MiningInv, TipOK, StoreOK, Linked
<1>2. OnChain(tip) \subseteq Stored /\ IsFiniteSet(Stored)
  BY <1>1, OnChainFacts, FS_Interval
<1>3. Right(Genesis)
  <2>1. StateAfter(Genesis) = NoState /\ OnChain(Genesis) = {Genesis}
    BY <1>1, StateUnfold, OnChainFacts DEF StateUnfolds, Linked, Genesis
  <2>2. \A a \in Miners : StateAfter(Genesis).balance[a] = 0
    BY <2>1 DEF NoState
  <2>3. SumFunctionOnSet(StateAfter(Genesis).balance, Miners) = 0
    BY <2>2, SumZero, MiningAssumption
  <2>4. SumFunctionOnSet(issued, above(Genesis)) = 0
    <3>1. above(Genesis) = {}
      BY <2>1, Zenon
    <3> HIDE DEF issued, above
    <3> QED BY <3>1, SumStep, FS_EmptySet, Zenon
  <2>5. 0 \in Int
    OBVIOUS
  <2>6. above(Genesis) = {}
    BY <2>1
  <2> HIDE DEF issued, above
  <2> QED BY <2>2, <2>3, <2>4, <2>5, <2>6, Zenon
<1>4. ASSUME NEW c \in Stored, OnChain(c) \subseteq OnChain(tip), c # Genesis, Right(store[c].prev) PROVE Right(c)
  <2> DEFINE b == store[c]
             p == b.prev
  <2>1. /\ c \in OnChain(tip) /\ p \in Stored /\ OnChain(c) = OnChain(p) \cup {c} /\ OnChain(p) \subseteq 1 .. p
        /\ c \notin OnChain(p) /\ OnChain(c) \subseteq Stored
    BY <1>1, <1>2, <1>4, OnChainFacts DEF Linked
  <2>2. StateAfter(c) = Upgrade(StateAfter(p), b)
    BY <1>1, <1>4, <2>1, StateUnfold, UpgradeIs, Zenon DEF StateUnfolds, UpgradeReads
  <2>3. /\ Known(b) /\ checkBlockGenerates(b) /\ b.height \in Nat /\ b.uncles \subseteq Stored
        /\ \A u \in b.uncles : u # Genesis
    BY <1>1, <1>4, <2>1, Zenon DEF SupplyOK, StoreOK, HeightOf, checkBlockGenerates, GeneratesIn
  <2>4. IsFiniteSet(b.uncles)
    BY <1>2, <2>3, FS_Subset, Zenon
  <2>5. \A u \in b.uncles : HeightOf(u) \in Nat /\ store[u].gen.to \in Miners
    BY <1>1, <2>3, Zenon DEF StoreOK, SupplyOK, Known
  <2>6. \A a \in Miners : StateAfter(p).balance[a] \in Int
    BY <1>4, Zenon
  <2> DEFINE st == StateAfter(p)
             total(s) == SumFunctionOnSet(s.balance, Miners)
  <2>7. /\ \A a \in Miners : Upgrade(st, b).balance[a] \in Int
        /\ total(Upgrade(st, b)) = total(st) + Issued(b)
        /\ total(st) \in Int /\ Issued(b) \in Int
    BY <2>3, <2>4, <2>5, <2>6, BlockSupply, Zenon
  <2>8. issued[c] = Issued(b)
    BY <2>1, Zenon
  <2>9. \A x \in above(c) : issued[x] \in Int
    BY <1>4, <2>1, <2>7, <2>8, Zenon
  <2>10. SumFunctionOnSet(issued, above(c)) = issued[c] + SumFunctionOnSet(issued, above(p))
    <3>1. /\ c \in above(c) /\ above(c) \ {c} = above(p) /\ above(c) \subseteq Stored
      BY <1>4, <2>1, Zenon
    <3>2. IsFiniteSet(above(c)) /\ IsFiniteSet(above(c) \ {c})
      BY <1>2, <3>1, FS_Subset, Zenon
    <3>3. \A x \in above(c) : issued[x] \in Int
      BY <2>9, Zenon
    <3> HIDE DEF issued, above
    <3> QED BY <3>1, <3>2, <3>3, SumTake
  <2>11. total(st) = SumFunctionOnSet(issued, above(p))
    BY <1>4, Zenon
  <2> DEFINE before == SumFunctionOnSet(issued, above(p))
  <2>12. total(StateAfter(c)) = before + Issued(b) /\ before \in Int /\ Issued(b) \in Int
    BY <2>2, <2>7, <2>11, Zenon
  <2>13. SumFunctionOnSet(issued, above(c)) = Issued(b) + before
    BY <2>10, <2>8, Zenon
  <2>14. total(StateAfter(c)) = SumFunctionOnSet(issued, above(c))
    <3> HIDE DEF total, before, issued, above
    <3> QED BY <2>12, <2>13
  <2> QED BY <2>2, <2>7, <2>14, <2>9, Zenon
<1> HIDE DEF Right
<1>5. ASSUME Bad # {} PROVE FALSE
  <2>1. Bad \in SUBSET Nat
    BY <1>1, <1>2
  <2>2. PICK c \in Bad : \A d \in Bad : c <= d
    BY <1>5, <2>1, LeastNumber, Zenon
  <2>3. c \in Stored /\ OnChain(c) \subseteq OnChain(tip) /\ c # Genesis /\ ~Right(store[c].prev)
    BY <2>2, <1>3, <1>4, Zenon
  <2>4. store[c].prev \in 1 .. (c - 1)
    BY <1>1, <2>3, Zenon DEF Linked
  <2>5. store[c].prev \in Stored /\ ~(c <= store[c].prev)
    BY <1>1, <2>3, <2>4
  <2>6. OnChain(store[c].prev) \subseteq OnChain(tip)
    BY <1>1, <2>3, OnChainFacts
  <2> QED BY <2>2, <2>3, <2>5, <2>6, Zenon
<1>6. Right(tip)
  BY <1>1, <1>5, Zenon
<1> QED BY <1>6, Zenon DEF Right, SupplyExact

(* A block that is applied keeps it, ... *)
LEMMA ApplySupply ==
    ASSUME MiningInv, SupplyOK, NEW b, Template(b), Known(b), ApplyBlock(b),
           NEW n, n = Len(store) + 1
    PROVE  SupplyOK'
<1>1. /\ StoreOK /\ TipOK /\ Linked /\ tip \in Stored /\ OnChain(tip) \subseteq Stored
      /\ b.prev \in Stored /\ OnChain(b.prev) \subseteq Stored /\ b.uncles \subseteq Stored
  BY OnChainFacts, Zenon DEF MiningInv, TipOK, StoreOK, Template
<1>2. Put(b) /\ pool' = pool /\ works' = works /\ Fits(b)
  BY Zenon DEF ApplyBlock, ExtendsTip, Reorganises, StaysAside
<1>3. /\ Kept /\ n \in Stored' /\ Stored' = Stored \cup {n} /\ store'[n] = b
      /\ \A c \in Stored : c # n /\ store'[c] = store[c]
  BY <1>1, <1>2, PutFacts, PutKeeps, Zenon
<1>4. \A u \in b.uncles : u # Genesis
  <2>1. \A u \in b.uncles : store[u].prev \in OnChain(b.prev)
    BY <1>2, Zenon DEF Fits, validateUncles, Window
  <2>2. store[Genesis].prev = 0 /\ 0 \notin Stored
    BY <1>1, MiningAssumption DEF StoreOK, Linked
  <2> QED BY <1>1, <2>1, <2>2, Zenon
<1>5. \A c \in Stored' \ {Genesis} : Known(store'[c]) /\ \A u \in store'[c].uncles : u # Genesis
  BY <1>3, <1>4, Zenon DEF SupplyOK
<1>6. ASSUME NEW x, x.uncles \subseteq Stored, GeneratesIn(store, x) PROVE GeneratesIn(store', x)
  <2>1. \A u \in x.uncles : store'[u].height = store[u].height
    BY <1>3, <1>6, Zenon
  <2> QED BY <1>6, <2>1, Zenon DEF GeneratesIn
<1>7. \A c \in Stored : store[c].uncles \subseteq Stored
  BY <1>1, Zenon DEF StoreOK
<1>8. ASSUME NEW c \in OnChain(tip)', c # Genesis PROVE GeneratesIn(store', store'[c])
  <2>1. CASE tip' = tip
    <3>1. OnChain(tip)' = OnChain(tip)
      BY <1>1, <1>3, <2>1, Stable, Zenon DEF Kept
    <3>2. c \in Stored /\ GeneratesIn(store, store[c])
      BY <1>1, <1>8, <3>1, Zenon DEF SupplyOK
    <3> QED BY <1>3, <1>6, <1>7, <3>2, Zenon
  <2>2. CASE (ExtendsTip(b) \/ Reorganises(b)) /\ tip' = n
    <3>1. OnChain(n)' = OnChain(b.prev) \cup {n}
      BY <1>1, <1>2, NewBlock, Zenon
    <3>2. c = n \/ c \in OnChain(b.prev)
      <4>1. OnChain(tip)' = OnChain(n)'
        BY <2>2, Zenon DEF OnChain, ChainTo
      <4> QED BY <1>8, <3>1, <4>1, Zenon
    <3>3. checkBlockGenerates(b)
      BY <2>2, Zenon DEF ExtendsTip, Reorganises, Applies, CheckBlockTxs
    <3>4. CASE c = n
      <4>1. GeneratesIn(store, b)
        BY <3>3, Zenon DEF GeneratesIn, checkBlockGenerates, HeightOf
      <4> QED BY <1>1, <1>3, <1>6, <3>4, <4>1
    <3>5. CASE c \in OnChain(b.prev)
      <4>1. c \in Stored
        BY <1>1, <3>5, Zenon
      <4>2. CASE c \in OnChain(tip)
        BY <1>3, <1>6, <1>7, <1>8, <4>1, <4>2 DEF SupplyOK
      <4>3. CASE c \notin OnChain(tip)
        <5>1. checkBlockGenerates(store[c])
          BY <2>2, <3>5, <4>3, Zenon
             DEF ExtendsTip, Reorganises, BranchApplies, Applies, CheckBlockTxs
        <5>2. GeneratesIn(store, store[c])
          BY <5>1, Zenon DEF GeneratesIn, checkBlockGenerates, HeightOf
        <5> QED BY <1>3, <1>6, <1>7, <4>1, <5>2
      <4> QED BY <4>2, <4>3, Zenon
    <3> QED BY <3>2, <3>4, <3>5, Zenon
  <2> QED BY <2>1, <2>2, Zenon DEF ApplyBlock
<1>9. job'.at = job.at /\ job'.block = job.block
  <2>1. job' = job \/ job' = [job EXCEPT !.quiet = FALSE]
    BY Zenon DEF ApplyBlock
  <2> QED BY <2>1, Zenon DEF MiningInv, JobOK, JobShape
<1>10. (job'.at # "idle" => Known(job'.block)) /\ \A i \in DOMAIN works' : Known(works'[i].block)
  BY <1>2, <1>9, Zenon DEF SupplyOK
<1>11. pool' \subseteq Txs
  BY <1>2, Zenon DEF SupplyOK
<1> QED BY <1>5, <1>8, <1>10, <1>11 DEF SupplyOK, Known, Genesis

(* ... and so does a step that leaves the store and the tip alone. *)
LEMMA SameSupply ==
    ASSUME MiningInv, SupplyOK, store' = store, tip' = tip, pool' \subseteq Txs,
           job'.at # "idle" => Known(job'.block), \A i \in DOMAIN works' : Known(works'[i].block)
    PROVE  SupplyOK'
<1>1. Kept /\ StoreOK /\ tip \in Stored /\ OnChain(tip) \subseteq Stored
  BY SameStore, OnChainFacts, Zenon DEF MiningInv, TipOK
<1>2. OnChain(tip)' = OnChain(tip) /\ Stored' = Stored
  BY <1>1, Stable, Zenon DEF Kept, Stored
<1>3. /\ \A c \in OnChain(tip)' : c # Genesis => GeneratesIn(store', store'[c])
      /\ \A c \in Stored' : c # Genesis => Known(store'[c]) /\ \A u \in store'[c].uncles : u # Genesis
  BY <1>2, Zenon DEF SupplyOK
<1> QED BY <1>3, Zenon DEF SupplyOK, Known, Genesis

(* A template starts with a generate of the node's and no transactions, ... *)
LEMMA AskSupply ==
    ASSUME MiningInv, SupplyOK, NEW internal \in BOOLEAN, Ask(internal)
    PROVE  SupplyOK'
<1>1. store' = store /\ tip' = tip /\ pool' = pool /\ works' = works
  BY Zenon DEF Ask, Step
<1>2. job'.block = [GenesisBlock EXCEPT !.gen = Generate(HeightOf(tip) + 1)]
  BY Zenon DEF Ask, NoJob
<1>3. job'.block.gen = Generate(HeightOf(tip) + 1) /\ job'.block.txs = {}
  BY <1>2, MiningAssumption, Zenon
<1>4. Known(job'.block)
  BY <1>3, MiningAssumption DEF Known, Generate
<1> QED BY <1>1, <1>4, SameSupply, Zenon DEF SupplyOK

(* ... keeps a generate of the node's, ... *)
LEMMA ReadSupply ==
    ASSUME MiningInv, SupplyOK, ReadHeight \/ ReadParent \/ CollectUncles
    PROVE  SupplyOK'
<1>1. /\ store' = store /\ tip' = tip /\ pool' = pool /\ works' = works /\ job.at # "idle"
      /\ JobShape
  BY Zenon DEF ReadHeight, ReadParent, CollectUncles, Step, MiningInv, JobOK
<1>2. /\ job'.block.txs = job.block.txs
      /\ job'.block.gen = job.block.gen \/ \E h : job'.block.gen = Generate(h)
  <2>1. CASE ReadHeight
    BY <1>1, <2>1, Zenon DEF ReadHeight, JobShape
  <2>2. CASE ReadParent
    <3>1. PICK p, h, t, d, f :
             job' = [job EXCEPT !.at = "uncles", !.block.prev = p, !.block.height = h,
                                !.block.time = t, !.block.diff = d, !.block.fee = f,
                                !.block.gen = IF job.internal THEN Generate(h) ELSE @]
      BY <2>2, Zenon DEF ReadParent
    <3> DEFINE g == IF job.internal THEN Generate(h) ELSE job.block.gen
    <3>2. job'.block = [job.block EXCEPT !.prev = p, !.height = h, !.time = t, !.diff = d,
                                         !.fee = f, !.gen = g]
      BY <1>1, <3>1, Zenon DEF JobShape
    <3>3. g = job.block.gen \/ g = Generate(h)
      BY Zenon
    <3> HIDE DEF g
    <3>4. job'.block.txs = job.block.txs /\ job'.block.gen = g
      BY <1>1, <3>2, Zenon DEF JobShape, IsBlock
    <3> QED BY <3>3, <3>4, Zenon
  <2>3. CASE CollectUncles
    <3>1. PICK us, rs :
             job' = [job EXCEPT !.at = "pack", !.block.uncles = us, !.block.rewards = rs]
      BY <2>3, Zenon DEF CollectUncles
    <3>2. job'.block = [job.block EXCEPT !.uncles = us, !.rewards = rs]
      BY <1>1, <3>1, Zenon DEF JobShape
    <3> QED BY <1>1, <3>2, Zenon DEF JobShape, IsBlock
  <2> QED BY <2>1, <2>2, <2>3, Zenon
<1>3. \A h : Generate(h).to \in Miners
  BY MiningAssumption, Zenon DEF Generate
<1>4. Known(job'.block)
  BY <1>1, <1>2, <1>3, Zenon DEF SupplyOK, Known
<1> QED BY <1>1, <1>4, SameSupply, Zenon DEF SupplyOK

(* ... takes its transactions from the pool, ... *)
LEMMA PackSupply ==
    ASSUME MiningInv, SupplyOK, GetPack
    PROVE  SupplyOK'
<1>1. store' = store /\ tip' = tip /\ pool' = pool /\ works' = works /\ job.at # "idle" /\ JobShape
  BY Zenon DEF GetPack, Step, MiningInv, JobOK
<1>2. PICK txs : /\ txs \subseteq pool
                 /\ job' = [job EXCEPT !.at = "root", !.block.txs = txs, !.quiet = @ /\ ~unreset]
  BY Zenon DEF GetPack, kSubset
<1>3. job'.block = [job.block EXCEPT !.txs = txs]
  BY <1>1, <1>2, Zenon DEF JobShape
<1>4. job'.block.gen = job.block.gen /\ job'.block.txs = txs
  BY <1>1, <1>3, Zenon DEF JobShape, IsBlock
<1>5. Known(job'.block)
  BY <1>1, <1>2, <1>4, Zenon DEF SupplyOK, Known
<1> QED BY <1>1, <1>5, SameSupply, Zenon DEF SupplyOK

(* ... and is handed out as it is. *)
LEMMA RootSupply ==
    ASSUME MiningInv, SupplyOK, DryApplyRoot
    PROVE  SupplyOK'
<1>1. /\ store' = store /\ tip' = tip /\ pool' = pool /\ job.at # "idle" /\ job' = NoJob
      /\ IsBlock(job.block) /\ works \in Seq(Range(works))
  BY Zenon DEF DryApplyRoot, Step, MiningInv, JobOK, JobShape, WorksOK
<1>2. job'.at = "idle"
  BY <1>1, Zenon DEF NoJob
<1>3. ASSUME NEW root, Hand(root) PROVE \A i \in DOMAIN works' : Known(works'[i].block)
  <2> DEFINE b == [job.block EXCEPT !.root = root]
             w == [block |-> b, quiet |-> job.quiet]
             S == Range(works) \cup {w}
  <2>1. Known(b)
    BY <1>1, Zenon DEF IsBlock, Known, SupplyOK
  <2>2. works' = Append(works, w) /\ w.block = b
    BY <1>3, Zenon DEF Hand
  <2>3. works \in Seq(S) /\ w \in S
    BY <1>1
  <2> HIDE DEF S, w, b
  <2>4. ASSUME NEW i \in DOMAIN works'
        PROVE  (i \in DOMAIN works /\ works'[i] = works[i]) \/ works'[i] = w
    BY <2>2, <2>3
  <2> QED BY <2>1, <2>2, <2>4, Zenon DEF SupplyOK
<1>4. works' = works \/ \E root : Hand(root)
  BY Zenon DEF DryApplyRoot
<1>5. \A i \in DOMAIN works' : Known(works'[i].block)
  BY <1>3, <1>4, Zenon DEF SupplyOK
<1> QED BY <1>1, <1>2, <1>5, SameSupply, Zenon DEF SupplyOK

(* Every step keeps it. *)
LEMMA SupplyKeeps ==
    ASSUME MiningInv, SupplyOK, [Next]_vars
    PROVE  SupplyOK'
<1>1. ASSUME NEW p \in Stored, NEW m \in Miners \ {Me}, NEW time \in 1 .. MaxClock,
             NEW txs \in SUBSET Txs, Receive(p, m, time, txs)
      PROVE  SupplyOK'
  <2> DEFINE b == Exact(p, m, time, {}, txs)
  <2>1. Template(b) /\ ApplyBlock(b)
    BY <1>1, ReceivedFits, Zenon
  <2>2. Known(b)
    BY Zenon DEF Exact, Known
  <2> QED BY <2>1, <2>2, ApplySupply, Zenon
<1>2. ASSUME NEW i \in DOMAIN works, Submit(i) PROVE SupplyOK'
  <2>1. Template(works[i].block) /\ ApplyBlock(works[i].block) /\ Known(works[i].block)
    BY <1>2, Zenon DEF MiningInv, WorksOK, Submit, SupplyOK
  <2> QED BY <2>1, ApplySupply, Zenon
<1>3. ASSUME Tick \/ ResetPool \/ (\E t \in Txs : PutTx(t)) \/ UNCHANGED vars PROVE SupplyOK'
  <2>1. store' = store /\ tip' = tip /\ job' = job /\ works' = works
    BY <1>3, Zenon DEF Tick, ResetPool, PutTx, vars
  <2>2. pool' \subseteq Txs
    BY <1>3, Zenon DEF Tick, ResetPool, PutTx, vars, SupplyOK
  <2> QED BY <2>1, <2>2, SameSupply, Zenon DEF SupplyOK
<1> QED BY <1>1, <1>2, <1>3, AskSupply, ReadSupply, PackSupply, RootSupply, Zenon DEF Next

(* However templates are assembled, and whatever generate a miner made     *)
(* beforehand, the balances on the chain sum up to the rewards of its      *)
(* heights and of its uncles' depths less the fees.                        *)
THEOREM SupplyCorrect == Spec => []SupplyExact
<1>1. Init => SupplyOK
  <2> SUFFICES ASSUME Init PROVE SupplyOK
    BY Zenon
  <2>1. MiningInv /\ store = <<GenesisBlock>> /\ tip = Genesis /\ pool = {} /\ job = NoJob /\ works = <<>>
    BY MiningInitial, Zenon DEF Init
  <2>2. Stored = {Genesis} /\ DOMAIN works = {} /\ job.at = "idle"
    BY <2>1 DEF Stored, Genesis, NoJob
  <2>3. OnChain(tip) \subseteq {Genesis}
    BY <2>1, <2>2, OnChainFacts, Zenon DEF MiningInv, TipOK
  <2> QED BY <2>1, <2>2, <2>3, Zenon DEF SupplyOK
<1>2. MiningInv /\ SupplyOK /\ [Next]_vars => SupplyOK'
  BY SupplyKeeps, Zenon
<1>3. MiningInv /\ SupplyOK => SupplyExact
  BY ChainSupply, Zenon
<1> QED BY <1>1, <1>2, <1>3, MiningInvariant, PTL DEF Spec
=============================================================================
