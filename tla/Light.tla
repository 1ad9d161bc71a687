------------------------------- MODULE Light -------------------------------
(***************************************************************************)
(* State proofs for light clients: the trie that commits to the state      *)
(* (ngstate statetrie.go), the proofs a node serves from it (wired_proof   *)
(* over ReconstructAt) and their verification against a trusted header     *)
(* (package lightclient).                                                  *)
(*                                                                         *)
(* Block import is atomic (module ChainView).  A request is served by a    *)
(* goroutine of its own: the tip's height, the block, the base sheet and   *)
(* every replayed block are read in transactions of their own, between     *)
(* which the chain may move.                                               *)
(*                                                                         *)
(* A state maps keys to numbers and 0 is the absent entry.  A balance, a   *)
(* commitment or a registered key changes by addition: a write that would  *)
(* fall below 0 (an overdraft, a reveal without its commitment) fails.     *)
(***************************************************************************)
EXTENDS ImportRules, StateTrie, SequencesExt

CONSTANTS
    Keys,           \* a key stands for its domain and raw key
    CommitKeys,     \* those of the commit domain, which a sheet leaves out
    ContractKeys,   \* those of the contract domain
    Asked,          \* keys that are asked for
    LeafPath,       \* key -> path
    Writes          \* Writes[b]: the state writes of b's Upgrade, in order

VARIABLES
    chain,          \* the stored blocks and the tip: [bodies, tip]
    snapshotMode,   \* the node fetches snapshots (and then keeps no changesets)
    db,             \* the live state and its trie
    sheets,         \* height -> the block whose sheet is stored
    query,          \* the request being served
    reply           \* the last answer sent

lightVars == <<chain, snapshotMode, db, sheets, query, reply>>

ASSUME LightAssumption ==
    /\ LeafPath \in [Keys -> [1 .. Depth -> {0, 1}]]
    /\ \A j, k \in Keys : LeafPath[j] = LeafPath[k] => j = k
    /\ CommitKeys \subseteq Keys /\ ContractKeys \subseteq Keys /\ Asked \subseteq Keys
    /\ \A b \in Blocks : Writes[b] \in Seq([key : Keys, add : Int])

-----------------------------------------------------------------------------
HashOf(value) == IF value = 0 THEN ZeroHash ELSE ValueHash(value)

(* trieSetLeaf, which every write of a bucket is followed by. *)
trieSetLeaf(trie, key, value) == Update(trie, LeafPath[key], HashOf(value))

SetEntry(d, key, value) ==
    [ok |-> d.ok /\ value >= 0,
     state |-> [d.state EXCEPT ![key] = value],
     trie |-> IF value >= 0 THEN trieSetLeaf(d.trie, key, value) ELSE d.trie]

(* State.Upgrade for one block. *)
Upgrade(d, b) == FoldLeft(LAMBDA e, w : SetEntry(e, w.key, e.state[w.key] + w.add), d, Writes[b])

(* RebuildTrie: the live entries of all buckets, from an empty trie. *)
RebuildTrie(state) ==
    FoldLeft(LAMBDA t, k : trieSetLeaf(t, k, state[k]), EmptyTrie,
             SetToSeq({k \in Keys : state[k] # 0}))

NoState == [k \in Keys |-> 0]

(* initFromSheet fills the buckets; of the tries only the leaves of        *)
(* contracts are written on the way.                                       *)
initFromSheet(state) ==
    [ok |-> TRUE, state |-> state,
     trie |-> RebuildTrie([k \in Keys |-> IF k \in ContractKeys THEN state[k] ELSE 0])]

(* The genesis sheet is empty; the genesis block is applied on top of it. *)
GenesisDB == Upgrade(initFromSheet(NoState), Genesis)

(* What the chain that ends in b makes of the state. *)
StateAfter[b \in Blocks] ==
    IF b = Genesis THEN GenesisDB.state
    ELSE Upgrade([ok |-> TRUE, state |-> StateAfter[Prev[b]], trie |-> EmptyTrie], b).state

Leaves(state) ==
    [p \in {LeafPath[k] : k \in {j \in Keys : state[j] # 0}} |->
        HashOf(state[CHOOSE k \in Keys : LeafPath[k] = p])]

(* The state root in the header of b. *)
HeaderRoot == [b \in Blocks |-> Root(TrieOf(Leaves(StateAfter[b])))]

CheckStateRoot(d, b) == d.ok /\ Root(d.trie) = HeaderRoot[b]

-----------------------------------------------------------------------------
(* The blocks above p up to n, from the bottom. *)
Branch(p, n) == [i \in 1 .. Height[n] - Height[p] |-> At(n, Height[p] + i)]

RolledForward(d, branch) == FoldLeft(LAMBDA e, b : Upgrade(e, b), d, branch)

(* ApplyBlocksTxn, and the replay: the root of every block is checked. *)
Applies(d, branch) ==
    \A i \in DOMAIN branch :
        CheckStateRoot(RolledForward(d, SubSeq(branch, 1, i)), branch[i])

(* The unwind puts the pre-images of the keys above p back, in any order. *)
Touched(p) ==
    {k \in Keys : \E b \in Path(p, chain.tip) : \E i \in DOMAIN Writes[b] : Writes[b][i].key = k}

Unwound(p, order) ==
    FoldLeft(LAMBDA d, k : SetEntry(d, k, StateAfter[p][k]), db, order)

(* The state under a branch above p: unwound, or replayed from genesis     *)
(* after a rebuild of the trie.                                            *)
Switch(p, n) ==
    \/ /\ ~snapshotMode
       /\ \E order \in SetToSeqs(Touched(p)) :
             /\ Applies(Unwound(p, order), Branch(p, n))
             /\ db' = RolledForward(Unwound(p, order), Branch(p, n))
    \/ /\ Applies(GenesisDB, Branch(Genesis, n))
       /\ db' = RolledForward(GenesisDB, Branch(Genesis, n))

(* A checkpoint tip gets a sheet: every bucket but the commitments. *)
PutSheet(n) == sheets' = IF IsHead(n) THEN [sheets EXCEPT ![Height[n]] = n] ELSE sheets

SheetOf(b) == [k \in Keys |-> IF k \in CommitKeys THEN 0 ELSE StateAfter[b][k]]

(* A chain move under a request is noted: "still" means none happened. *)
Moved == query' = [query EXCEPT !.still = @ /\ query.at = "idle"]

-----------------------------------------------------------------------------
(* ApplyBlock: on the tip, to the side, or with a reorg. *)
Import(b) ==
    /\ CanApply(chain, b)
    /\ chain' = Applied(chain, b)
    /\ IF chain'.tip = chain.tip THEN UNCHANGED <<db, sheets, query>>
       ELSE /\ IF Prev[b] = chain.tip
               THEN CheckStateRoot(Upgrade(db, b), b) /\ db' = Upgrade(db, b)
               ELSE Switch(ForkPoint(chain, b), b)
            /\ PutSheet(b)
            /\ Moved
    /\ UNCHANGED <<snapshotMode, reply>>

(* Chain.SwitchToBranch. *)
Converge(p, n) ==
    /\ CanSwitch(chain, p, n)
    /\ chain' = Switched(chain, p, n)
    /\ Switch(p, n)
    /\ PutSheet(n)
    /\ Moved
    /\ UNCHANGED <<snapshotMode, reply>>

(* Chain.ApplySnapshot: the fetched sheet becomes the state, with a trie   *)
(* of its own; the header's root is not compared.                          *)
Snapshot(p, n) ==
    /\ snapshotMode /\ IsHead(n)
    /\ Attaches(chain, p, n)
    /\ chain' = Extended(chain, p, n)
    /\ db' = [ok |-> TRUE, state |-> SheetOf(n), trie |-> RebuildTrie(SheetOf(n))]
    /\ PutSheet(n)
    /\ Moved
    /\ UNCHANGED <<snapshotMode, reply>>

-----------------------------------------------------------------------------
(* A query runs through: "tip" (buildProof reads the tip's height), "now"  *)
(* (buildTipProof) or "block" (buildHistoricalProof reads the block),      *)
(* "base" (ReconstructAt takes the base sheet), "replay" and "prove".      *)
Idle == [at |-> "idle", key |-> CHOOSE k \in Asked : TRUE, height |-> 0,
         header |-> NoBlock, next |-> 0, db |-> GenesisDB, still |-> TRUE]

NoReply == [height |-> 0, header |-> NoBlock]

Request(k, h) ==
    /\ query.at = "idle"
    /\ query' = [Idle EXCEPT !.at = "tip", !.key = k, !.height = h]
    /\ reply' = NoReply
    /\ UNCHANGED <<chain, snapshotMode, db, sheets>>

(* The requester is told the request was rejected. *)
Reject == query' = Idle

(* Height 0 asks for the tip, whichever block that is by then. *)
ReadTip ==
    /\ query.at = "tip"
    /\ \/ /\ query.height \in {0, Height[chain.tip]}
          /\ query' = [query EXCEPT !.at = "now"]
       \/ query.height > Height[chain.tip] /\ Reject
       \/ /\ query.height \in 1 .. Height[chain.tip] - 1
          /\ query' = [query EXCEPT !.at = "block"]
    /\ UNCHANGED <<chain, snapshotMode, db, sheets, reply>>

(* StateProof over a database, in the envelope that names the header b. *)
StateProof(d, b, k) ==
    [height |-> Height[b], header |-> b, root |-> HeaderRoot[b], path |-> LeafPath[k],
     value |-> d.state[k], valueHash |-> HashOf(d.state[k]),
     proof |-> Prove(d.trie, LeafPath[k]), found |-> d.state[k] # 0]

(* Faulty: the proof is sent whatever its root. *)
AnswerUnbound(d, b) == reply' = StateProof(d, b, query.key) /\ Reject

(* A proof is only sent if its root is the one of the header. *)
Answer(d, b) ==
    /\ reply' = IF Root(d.trie) = HeaderRoot[b] THEN StateProof(d, b, query.key) ELSE reply
    /\ query' = Idle

(* buildTipProof: the block and the state in one transaction. *)
buildTipProof ==
    /\ query.at = "now"
    /\ Answer(db, chain.tip)
    /\ UNCHANGED <<chain, snapshotMode, db, sheets>>

ReadBlock ==
    /\ query.at = "block"
    /\ IF query.height > Height[chain.tip] THEN Reject
       ELSE query' = [query EXCEPT !.at = "base", !.header = At(chain.tip, query.height)]
    /\ UNCHANGED <<chain, snapshotMode, db, sheets, reply>>

(* GetSnapshotByHeight: the nearest sheet at or below the height. *)
GetSnapshotByHeight(h) ==
    LET stored == {g \in 1 .. h : sheets[g] # NoBlock}
    IN  IF stored = {} THEN [height |-> 0, state |-> NoState]
        ELSE LET g == CHOOSE g \in stored : \A f \in stored : f <= g
             IN  [height |-> g, state |-> SheetOf(sheets[g])]

(* ReconstructAt: its own check of the tip, then the base. *)
ReadBase ==
    /\ query.at = "base"
    /\ LET sheet == GetSnapshotByHeight(query.height)
       IN  IF query.height > Height[chain.tip] THEN Reject
           ELSE query' = [query EXCEPT !.at = "replay", !.next = sheet.height + 1,
                                       !.db = initFromSheet(sheet.state)]
    /\ UNCHANGED <<chain, snapshotMode, db, sheets, reply>>

(* One block of the replay, from the live chain as it is now. *)
ReplayBlock ==
    /\ query.at = "replay"
    /\ query.next <= query.height
    /\ IF query.next > Height[chain.tip] THEN Reject
       ELSE LET d == Upgrade(query.db, At(chain.tip, query.next))
            IN  IF ~d.ok THEN Reject
                ELSE query' = [query EXCEPT !.next = @ + 1, !.db = d]
    /\ UNCHANGED <<chain, snapshotMode, db, sheets, reply>>

HistoricalProof ==
    /\ query.at = "replay"
    /\ query.next > query.height
    /\ Answer(query.db, query.header)
    /\ UNCHANGED <<chain, snapshotMode, db, sheets>>

-----------------------------------------------------------------------------
LightInit ==
    /\ chain = GenesisView
    /\ snapshotMode \in BOOLEAN
    /\ db = GenesisDB
    /\ sheets = [h \in Heights |-> NoBlock]
    /\ query = Idle
    /\ reply = NoReply

Serve == ReadTip \/ buildTipProof \/ ReadBlock \/ ReadBase \/ ReplayBlock \/ HistoricalProof

LightNext ==
    \/ \E b \in Blocks \ {Genesis} : Import(b)
    \/ \E p, n \in Blocks : Converge(p, n) \/ Snapshot(p, n)
    \/ \E k \in Asked, h \in Heights : Request(k, h)
    \/ Serve

LightSpec == LightInit /\ [][LightNext]_lightVars

-----------------------------------------------------------------------------
(* Faulty: the value is not bound to the leaf. *)
VerifyProofUnbound(b, r) ==
    /\ r.root = HeaderRoot[b] /\ r.header = b
    /\ r.found <=> r.value # 0
    /\ Verify(r.root, r.path, r.valueHash, r.proof)

(* lightclient.VerifyProof against the trusted header of b. *)
VerifyProof(b, r) ==
    /\ r.root = HeaderRoot[b]
    /\ r.header = b
    /\ r.found <=> r.value # 0
    /\ r.valueHash = HashOf(r.value)
    /\ Verify(r.root, r.path, r.valueHash, r.proof)

(* The incremental trie is the one a rebuild from the live entries gives,  *)
(* after every sequence of imports, unwinds in any order of the keys,      *)
(* replays and snapshots: two nodes with the same state have the same      *)
(* root, however they came to it.                                          *)
TrieCanonical == db.trie = TrieOf(Leaves(db.state))

(* An answer verifies against the header it names, and its value is the    *)
(* one the chain of that block gives the key, although the chain moved     *)
(* while the answer was made.                                              *)
ServedVerifies ==
    reply # NoReply =>
        /\ VerifyProof(reply.header, reply)
        /\ \A k \in Keys : reply.path = LeafPath[k] => reply.value = StateAfter[reply.header][k]

(* What VerifyProof accepts for a header is true of that header's state,   *)
(* whichever fields of an answer are exchanged for those of the true       *)
(* answers for other keys and other blocks.                                *)
ProofSound ==
    reply # NoReply =>
        \A b \in Blocks, k \in Keys :
            LET other == StateProof([state |-> StateAfter[b], trie |-> TrieOf(Leaves(StateAfter[b]))], b, k)
            IN  \A from \in SUBSET {"header", "path", "value", "valueHash", "proof"} :
                    LET mixed == [f \in DOMAIN reply |->
                                    IF \/ f \in from
                                       \/ f \in {"root", "height"} /\ "header" \in from
                                       \/ f = "found" /\ "value" \in from
                                    THEN other[f] ELSE reply[f]]
                    IN  VerifyProof(mixed.header, mixed) =>
                          \A j \in Keys : mixed.path = LeafPath[j] =>
                              mixed.value = StateAfter[mixed.header][j]

(* ReconstructAt "rebuilds the FULL state as of `height`": when the chain  *)
(* did not move under the request, the replay ends with the root of the    *)
(* block's header, so that the request can be answered.                    *)
HistoryServed ==
    /\ query.at = "replay" /\ query.next > query.height
    /\ query.still /\ ~snapshotMode
    => Root(query.db.trie) = HeaderRoot[query.header]
=============================================================================
