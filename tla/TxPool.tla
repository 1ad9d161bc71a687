------------------------------- MODULE TxPool -------------------------------
(***************************************************************************)
(* The pool of pending commitments and reveals, and the relay that submits *)
(* held ones again on every tip (ngpool/), beside a chain that extends and *)
(* reorganises.                                                            *)
(*                                                                         *)
(* The chain's transaction commits first; its hook then resets the pool    *)
(* and starts a relay goroutine.  Between the two, and between reading the *)
(* height and inserting (PutTx, PutCommitment), other threads run: only    *)
(* the pool mutex and Chain.mu order them.                                 *)
(***************************************************************************)
EXTENDS CommitStore, FiniteSetsExt, FiniteSets

CONSTANTS
    Commitments,    \* the signed commitments that exist: [from, hash, fee]
    Reveals,        \* the signed reveals: [from, hash, fee, expense]
    Handed,         \* the halves that wallets hand to the relay
    Gossiped,       \* bound: the halves that peers send
    Mined,          \* bound: what blocks carry
    Funds,          \* the balance of every address at genesis
    MinFloor,       \* the fee floor after a block with few reveals ...
    HighFloor,      \* ... and after a full one (NextBaseFee, in two levels)
    TargetTxs,      \* a block with more reveals is full
    RelayFor,       \* heights a held half is retried: 2 * CommitWindow
    MaxSize,        \* TxPool.MaxSize
    PackSize,       \* MaxTxsPerPack
    Workers,        \* bound: the threads that relay at once
    MaxSpawned      \* bound: the goroutines waiting to run

ASSUME PoolAssumption ==
    /\ Froms \subseteq Nat
    /\ Commitments \subseteq [from : Froms, hash : Hashes, fee : Nat]
    /\ Reveals \subseteq [from : Froms, hash : Hashes, fee : Nat, expense : Nat]
    /\ Handed \subseteq Commitments \cup Reveals
    /\ Gossiped \subseteq Commitments \cup Reveals
    /\ Mined \subseteq [commits : SUBSET Commitments, reveals : SUBSET Reveals]
    /\ Funds \in Nat /\ MinFloor \in Nat /\ HighFloor \in Nat /\ RelayFor \in Nat
    /\ MaxSize \in Nat \ {0} /\ PackSize \in Nat
    /\ NoOne \notin [item : Commitments \cup Reveals, height : Nat]

VARIABLES
    latestHeight,   \* height of the canonical tip
    blocks,         \* height -> what the canonical block carries
    chain,          \* height -> the state after it: commit store and balances
    hook,           \* the tip moved and OnTipChanged has not reset the pool yet
    txMap,          \* address -> queued reveal and the height it is locked to
    commitMap,      \* address -> queued commitment and its height
    commitQueue,    \* address -> commitment held for relay, and its expiry
    revealQueue,    \* address -> reveal held for relay, and its expiry
    lock,           \* the Put that holds the pool mutex
    worker,         \* the relay threads
    spawned,        \* relay goroutines that have not begun to run
    asked           \* the halves that wallets handed to the relay

chainVars == <<latestHeight, blocks, chain>>
mapVars   == <<txMap, commitMap>>
queueVars == <<commitQueue, revealQueue, asked>>
poolVars  == <<txMap, commitMap, commitQueue, revealQueue, lock, worker,
               spawned, asked>>
nodeVars  == <<latestHeight, blocks, chain, hook, txMap, commitMap, commitQueue,
               revealQueue, lock, worker,
               spawned, asked>>

Halves == Commitments \cup Reveals

Blocks == [commits : SUBSET Commitments, reveals : SUBSET Reveals]

EmptyBlock == [commits |-> {}, reveals |-> {}]

Genesis == [store |-> EmptyStore, balance |-> [f \in Froms |-> Funds]]

NoEntries == [f \in Froms |-> NoOne]

Free == [by |-> NoOne, item |-> NoOne, height |-> 0, next |-> 0]

Idle == [pc |-> "idle", next |-> 0, todo |-> {}, both |-> FALSE]

Nexts == 1 .. MaxHeight + 1

Queued(items) == [item : items, height : Nat] \cup {NoOne}

PoolTypeOK ==
    /\ latestHeight \in Heights
    /\ blocks \in [Heights -> Blocks]
    /\ chain \in [Heights -> [store : CommitStores, balance : [Froms -> Nat]]]
    /\ hook \in BOOLEAN
    /\ txMap \in [Froms -> Queued(Reveals)]
    /\ commitMap \in [Froms -> Queued(Commitments)]
    /\ commitQueue \in [Froms -> Queued(Commitments)]
    /\ revealQueue \in [Froms -> Queued(Reveals)]
    /\ lock \in [by : Workers \cup {"net"}, item : Halves, height : Nexts, next : Nexts]
                \cup {Free}
    /\ worker \in [Workers ->
         [pc : {"idle", "readC", "snapC", "putC", "readR", "snapR", "putR"},
          next : Nexts \cup {0}, todo : SUBSET Halves, both : BOOLEAN]]
    /\ spawned \in Nat
    /\ asked \subseteq Halves

PoolInit ==
    /\ latestHeight = 0
    /\ blocks = [h \in Heights |-> EmptyBlock]
    /\ chain = [h \in Heights |-> Genesis]
    /\ hook = FALSE
    /\ txMap = NoEntries /\ commitMap = NoEntries
    /\ commitQueue = NoEntries /\ revealQueue = NoEntries
    /\ lock = Free
    /\ worker = [w \in Workers |-> Idle]
    /\ spawned = 0
    /\ asked = {}

-----------------------------------------------------------------------------
(* The chain beside the pool. *)

(* GetLatestBlockHeight() + 1. *)
next == latestHeight + 1

(* A block has a hash once among its commitments and once among its txs. *)
Distinct(S) == \A c, d \in S : c.hash = d.hash => c = d

Carries(S) ==
    [x \in Hashes |-> IF \E c \in S : c.hash = x
                      THEN (CHOOSE c \in S : c.hash = x).from ELSE NoOne]

(* What an address pays in a block. *)
Spend(b, f) ==
    MapThenSumSet(LAMBDA c : c.fee, {c \in b.commits : c.from = f})
      + MapThenSumSet(LAMBDA r : r.expense, {r \in b.reveals : r.from = f})

(* The floor the child of a block has to pay: the relay policy, or the     *)
(* base fee that rises after a full block.                                 *)
effectiveFloor(b) ==
    IF Cardinality(b.reveals) > TargetTxs THEN HighFloor ELSE MinFloor

(* The block b applies on the block at height p. *)
CanApply(p, b) ==
    /\ Distinct(b.commits) /\ Distinct(b.reveals)
    /\ \A r \in b.reveals : r.fee >= effectiveFloor(blocks[p])
    /\ CanUpgrade(chain[p].store, Carries(b.commits), Carries(b.reveals), p + 1)
    /\ \A f \in Froms : Spend(b, f) <= chain[p].balance[f]

(* The state after it.  The journal of consumed commitments serves         *)
(* unwinding only; here each height has its state.                         *)
Applied(p, b) ==
    [ store   |-> [ pending |-> Upgrade(chain[p].store, Carries(b.commits),
                                        Carries(b.reveals), p + 1).pending,
                    spent   |-> EmptyStore.spent ],
      balance |-> [f \in Froms |-> chain[p].balance[f] - Spend(b, f)] ]

(* ApplyBlock on the tip, or a reorg to a branch off height p; Chain.mu is *)
(* free again only after the hook of the block before.                     *)
ApplyBlock(p, b) ==
    /\ ~hook
    /\ p <= latestHeight /\ p < MaxHeight
    /\ p < latestHeight => b # blocks[p + 1]
    /\ CanApply(p, b)
    /\ latestHeight' = p + 1
    /\ blocks' = [h \in Heights |->
         IF h = p + 1 THEN b ELSE IF h > p + 1 THEN EmptyBlock ELSE blocks[h]]
    /\ chain' = [h \in Heights |->
         IF h = p + 1 THEN Applied(p, b) ELSE IF h > p + 1 THEN Genesis ELSE chain[h]]
    /\ hook' = TRUE
    /\ UNCHANGED poolVars

-----------------------------------------------------------------------------
(* Admission. *)

(* CheckCommitment at height t. *)
CheckCommitment(s, c, t) ==
    /\ ~commitFromPending(s.store, c.from, c.hash, t)
    /\ s.balance[c.from] >= c.fee

(* CheckTx of a reveal locked to height t. *)
CheckTx(s, r, t) ==
    /\ InWindow(s.store, r.from, r.hash, t) # {}
    /\ s.balance[r.from] >= r.expense

Held(map) == {f \in Froms : map[f] # NoOne}

(* Faulty: the dearest. *)
dearestEntry(map) ==
    CHOOSE f \in Held(map) : \A g \in Held(map) : map[f].item.fee >= map[g].item.fee

(* cheapestEntry: the lowest fee, then the higher address. *)
cheapestEntry(map) ==
    CHOOSE f \in Held(map) : \A g \in Held(map) :
        \/ map[f].item.fee < map[g].item.fee
        \/ map[f].item.fee = map[g].item.fee /\ f >= g

Entry(item, t) == [item |-> item, height |-> t]

(* Only a higher fee replaces what the address has queued. *)
Outbids(map, c) == map[c.from] # NoOne => map[c.from].item.fee < c.fee

(* PutCommitment after it has read the height, to its end. *)
PutCommitment ==
    LET c == lock.item
    IN  /\ lock # Free /\ c \in Commitments
        /\ lock' = Free
        /\ commitMap' =
             IF /\ lock.height = lock.next
                /\ CheckCommitment(chain[latestHeight], c, lock.next)
                /\ c.fee >= effectiveFloor(blocks[latestHeight])
                /\ Outbids(commitMap, c)
             THEN [commitMap EXCEPT ![c.from] = Entry(c, lock.height)]
             ELSE commitMap
        /\ UNCHANGED <<chainVars, hook, txMap, queueVars, worker, spawned>>

(* The pool with the reveal r: in place of the sender's last one, in a     *)
(* free place, or in the place of the cheapest entry it outbids.           *)
Inserted(map, r, t) ==
    LET with == [map EXCEPT ![r.from] = Entry(r, t)]
        e    == cheapestEntry(map)
    IN  IF map[r.from] # NoOne THEN IF Outbids(map, r) THEN with ELSE map
        ELSE IF Cardinality(Held(map)) < MaxSize THEN with
        ELSE IF map[e].item.fee < r.fee THEN [with EXCEPT ![e] = NoOne]
        ELSE map

(* PutTx after it has read the height, to its end. *)
PutTx ==
    LET r == lock.item
    IN  /\ lock # Free /\ r \in Reveals
        /\ lock' = Free
        /\ txMap' =
             IF /\ lock.height = lock.next
                /\ r.fee >= effectiveFloor(blocks[latestHeight])
                /\ CheckTx(chain[latestHeight], r, lock.height)
             THEN Inserted(txMap, r, lock.height)
             ELSE txMap
        /\ UNCHANGED <<chainVars, hook, commitMap, queueVars, worker, spawned>>

(* A Put takes the mutex and reads the height. *)
Lock(by, item, t) ==
    /\ lock = Free
    /\ lock' = [by |-> by, item |-> item, height |-> t, next |-> next]

(* PutNewTxFromRemote, PutNewCommitmentFromRemote, and their RPC twins. *)
PutNew(item) ==
    /\ Lock("net", item, next)
    /\ UNCHANGED <<chainVars, hook, mapVars, queueVars, worker, spawned>>
-----------------------------------------------------------------------------
(* The relay. *)

(* The thread has submitted all it copied from the queue. *)
Finished(w) == worker[w].todo = {} /\ lock.by # w

relayExpiry(t) == t + RelayFor

(* Faulty: the hook only starts the relay. *)
OnTipChangedKeeping ==
    /\ hook /\ lock = Free /\ spawned < MaxSpawned
    /\ hook' = FALSE
    /\ spawned' = spawned + 1
    /\ UNCHANGED <<chainVars, mapVars, queueVars, lock, worker>>

(* Faulty: no relay. *)
OnTipChangedSilent ==
    /\ hook /\ lock = Free /\ spawned < MaxSpawned
    /\ hook' = FALSE
    /\ txMap' = NoEntries
    /\ commitMap' = NoEntries
    /\ UNCHANGED <<chainVars, queueVars, lock, worker, spawned>>

(* OnTipChanged, called under Chain.mu: Reset, and a goroutine that relays *)
(* commitments and then reveals.                                           *)
OnTipChanged ==
    /\ hook /\ lock = Free /\ spawned < MaxSpawned
    /\ hook' = FALSE
    /\ txMap' = NoEntries
    /\ commitMap' = NoEntries
    /\ spawned' = spawned + 1
    /\ UNCHANGED <<chainVars, queueVars, lock, worker>>

(* The goroutine begins to run. *)
RelayStart(w) ==
    /\ worker[w].pc = "idle" /\ spawned > 0
    /\ spawned' = spawned - 1
    /\ worker' = [worker EXCEPT ![w] = [Idle EXCEPT !.pc = "readC", !.both = TRUE]]
    /\ UNCHANGED <<chainVars, hook, mapVars, queueVars, lock>>

(* A half needs a free place, unless its address holds one already. *)
Full(queue, item) == queue[item.from] = NoOne /\ Cardinality(Held(queue)) >= MaxSize

(* RelayCommit: a wallet hands a commitment over, once.  The check before  *)
(* the mutex only gates and the height read there only sets the expiry:    *)
(* they are one step with the insertion.  A full queue is an error.  The   *)
(* caller's thread then runs relayCommits.                                 *)
RelayCommit(w, c) ==
    /\ worker[w].pc = "idle"
    /\ c \in Commitments \ asked
    /\ CheckCommitment(chain[latestHeight], c, next)
    /\ lock = Free
    /\ ~Full(commitQueue, c)
    /\ commitQueue' = [commitQueue EXCEPT ![c.from] = Entry(c, relayExpiry(next))]
    /\ asked' = asked \cup {c}
    /\ worker' = [worker EXCEPT ![w] = [Idle EXCEPT !.pc = "readC"]]
    /\ UNCHANGED <<chainVars, hook, mapVars, revealQueue, lock, spawned>>

(* RelayReveal: the same for a reveal, whose commitment need not be on the *)
(* chain yet.                                                              *)
RelayReveal(w, r) ==
    /\ worker[w].pc = "idle"
    /\ r \in Reveals \ asked
    /\ chain[latestHeight].balance[r.from] >= r.expense
    /\ lock = Free
    /\ ~Full(revealQueue, r)
    /\ revealQueue' = [revealQueue EXCEPT ![r.from] = Entry(r, relayExpiry(next))]
    /\ asked' = asked \cup {r}
    /\ worker' = [worker EXCEPT ![w] = [Idle EXCEPT !.pc = "readR"]]
    /\ UNCHANGED <<chainVars, hook, mapVars, commitQueue, lock, spawned>>

(* relayCommits and relayReveals first read the height; the hook's         *)
(* goroutine goes on with the reveals when the commitments are done ...    *)
RelayRead(w) ==
    /\ worker' = [worker EXCEPT ![w].next = next,
                                ![w].pc = IF @ = "readC" THEN "snapC" ELSE "snapR"]
    /\ \/ worker[w].pc \in {"readC", "readR"}
       \/ worker[w].pc = "putC" /\ worker[w].both /\ Finished(w)
    /\ UNCHANGED <<chainVars, hook, mapVars, queueVars, lock, spawned>>

(* What is left of a queue at height t: an entry goes when t is past its   *)
(* expiry.                                                                 *)
Unexpired(queue, t) ==
    [f \in Froms |-> IF queue[f] # NoOne /\ t > queue[f].height THEN NoOne ELSE queue[f]]

(* ... then drop the expired entries and copy the others, under the mutex. *)
RelaySnap(w) ==
    /\ lock = Free
    /\ \/ /\ worker[w].pc = "snapC"
          /\ commitQueue' = Unexpired(commitQueue, worker[w].next)
          /\ worker' = [worker EXCEPT ![w].pc = "putC",
                          ![w].todo = {commitQueue'[f].item : f \in Held(commitQueue')}]
          /\ UNCHANGED revealQueue
       \/ /\ worker[w].pc = "snapR"
          /\ revealQueue' = Unexpired(revealQueue, worker[w].next)
          /\ worker' = [worker EXCEPT ![w].pc = "putR",
                          ![w].todo = {revealQueue'[f].item : f \in Held(revealQueue')}]
          /\ UNCHANGED commitQueue
    /\ UNCHANGED <<chainVars, hook, mapVars, lock, asked, spawned>>

(* CommitOnChain: a commitment that has landed is not submitted again. *)
Landed(w, item) ==
    /\ worker[w].pc = "putC"
    /\ commitFromPending(chain[latestHeight].store, item.from, item.hash, worker[w].next)

(* Each template in turn, in the order of a Go map: skipped, or given to   *)
(* PutCommitment or PutTx for the height read before.                      *)
RelayPut(w, item) ==
    /\ worker[w].pc \in {"putC", "putR"} /\ item \in worker[w].todo
    /\ lock.by # w
    /\ \/ Landed(w, item) /\ UNCHANGED lock
       \/ ~Landed(w, item) /\ Lock(w, item, worker[w].next)
    /\ worker' = [worker EXCEPT ![w].todo = @ \ {item}]
    /\ UNCHANGED <<chainVars, hook, mapVars, queueVars, spawned>>

RelayDone(w) ==
    /\ worker[w].pc = "putR" \/ (worker[w].pc = "putC" /\ ~worker[w].both)
    /\ Finished(w)
    /\ worker' = [worker EXCEPT ![w] = Idle]
    /\ UNCHANGED <<chainVars, hook, mapVars, queueVars, lock, spawned>>

RelayTx(w) ==
    \/ RelayStart(w) \/ RelayRead(w) \/ RelaySnap(w) \/ RelayDone(w)
    \/ \E item \in Halves : RelayPut(w, item)

Put == PutCommitment \/ PutTx

PoolNext ==
    \/ \E p \in Heights : \E b \in Mined : ApplyBlock(p, b)
    \/ \E item \in Gossiped : PutNew(item)
    \/ Put
    \/ OnTipChanged
    \/ \E w \in Workers : RelayTx(w)
    \/ \E w \in Workers : \E item \in Handed : RelayCommit(w, item) \/ RelayReveal(w, item)

(* Threads run on, and sync.Mutex hands the lock to a thread that waits    *)
(* long (its starvation mode).                                             *)
Fairness ==
    /\ WF_nodeVars(Put)
    /\ SF_nodeVars(OnTipChanged)
    /\ \A w \in Workers : SF_nodeVars(RelayTx(w))

PoolSpec == PoolInit /\ [][PoolNext]_nodeVars

FairSpec == PoolSpec /\ Fairness

-----------------------------------------------------------------------------
(* Block templates. *)

(* What the map has for height t. *)
Locked(map, t) == {map[f].item : f \in {g \in Held(map) : map[g].height = t}}

(* Faulty: no deduplication. *)
noDedup(S) == {S}

(* dedupByKey on the entries in order of their fees: one of the best paid  *)
(* per hash.  Equals are in no order, so which of them stays is open.      *)
dedupByKey(S) ==
    {D \in SUBSET S :
        /\ Distinct(D)
        /\ \A c \in S : \E d \in D : d.hash = c.hash
        /\ \A d \in D : \A c \in S : c.hash = d.hash => c.fee <= d.fee}

Before(c, d) == c.fee > d.fee \/ (c.fee = d.fee /\ c.hash < d.hash)

(* The first PackSize of them. *)
Pack(D) == {c \in D : Cardinality({d \in D : Before(d, c)}) < PackSize}

GetPack(t) == {Pack(D) : D \in dedupByKey(Locked(txMap, t))}

GetCommitPack(t) == {Pack(D) : D \in dedupByKey(Locked(commitMap, t))}

(* What GetBlockTemplate may put in a block on the tip. *)
Templates == [commits : GetCommitPack(next), reveals : GetPack(next)]

(* The wallets' halves only, and nobody else mines: what the relay does by *)
(* itself.                                                                 *)
NextRelay ==
    \/ \E b \in Templates : ApplyBlock(latestHeight, b)
    \/ Put
    \/ OnTipChanged
    \/ \E w \in Workers : RelayTx(w)
    \/ \E w \in Workers : \E item \in Handed : RelayCommit(w, item) \/ RelayReveal(w, item)

SpecRelay == PoolInit /\ [][NextRelay]_nodeVars

-----------------------------------------------------------------------------
(* Once the hook of the last tip is done, whatever the pool holds is for   *)
(* the next block and admissible on the tip's state: no interleaving of    *)
(* admission, import and Reset leaves an entry of an earlier tip.          *)
PoolFresh ==
    ~hook => \A f \in Froms :
        /\ txMap[f] # NoOne =>
             /\ txMap[f].height = next /\ txMap[f].item.from = f
             /\ CheckTx(chain[latestHeight], txMap[f].item, next)
             /\ txMap[f].item.fee >= effectiveFloor(blocks[latestHeight])
        /\ commitMap[f] # NoOne =>
             /\ commitMap[f].height = next /\ commitMap[f].item.from = f
             /\ CheckCommitment(chain[latestHeight], commitMap[f].item, next)
             /\ commitMap[f].item.fee >= effectiveFloor(blocks[latestHeight])

(* A template is a block that applies, as far as each address affords its  *)
(* commitment and its reveal together: colliding hashes, fees below the    *)
(* floor or reveals without a commitment never spoil it.                   *)
PackApplies ==
    ~hook => \A b \in Templates :
        (\A f \in Froms : Spend(b, f) <= chain[latestHeight].balance[f]) => CanApply(latestHeight, b)

(* Between two tips a sender's reveal leaves the pool only for a better    *)
(* paid one, and then nothing cheaper stays.                               *)
EvictsCheapest ==
    [][hook' = hook => \A f \in Held(txMap) :
         txMap'[f] # txMap[f] =>
             \E g \in Held(txMap') :
                 /\ txMap'[g].item.fee > txMap[f].item.fee
                 /\ txMap'[f] = NoOne => \A e \in Held(txMap) :
                      txMap[e].item.fee >= txMap[f].item.fee]_nodeVars

(* The reveal held for f passes PutTx on the tip. *)
Admissible(f) ==
    /\ revealQueue[f] # NoOne /\ next <= revealQueue[f].height
    /\ CheckTx(chain[latestHeight], revealQueue[f].item, next)
    /\ revealQueue[f].item.fee >= effectiveFloor(blocks[latestHeight])

(* It is in the pool, or no cheaper entry is. *)
InPool(f) ==
    \/ txMap[f] # NoOne /\ txMap[f].item.fee >= revealQueue[f].item.fee
    \/ /\ Cardinality(Held(txMap)) = MaxSize
       /\ \A g \in Held(txMap) : txMap[g].item.fee >= revealQueue[f].item.fee

(* If the chain rests, a held reveal that is admissible is in the pool in  *)
(* the end, unless equally or better paid ones keep it out: no race of the *)
(* hook's goroutine with Reset, RPCs or other goroutines loses it.         *)
RelayReachesPool ==
    \/ []<><<TRUE>>_chainVars
    \/ \A f \in Froms : <>[](Admissible(f) => InPool(f))

(* "A commitment is single-inclusion, so it is never double-charged": the  *)
(* relay of a commitment handed over once puts it on the chain once.       *)
ChargedOnce ==
    \A c \in Commitments : \A g, h \in 1 .. latestHeight :
        c \in blocks[g].commits /\ c \in blocks[h].commits => g = h
=============================================================================
