---------------------------- MODULE RelayProofs -----------------------------
(***************************************************************************)
(* Safety of the ways of a transaction before it is in a block: of the     *)
(* pool of pending halves and its relay, for every set of halves, every    *)
(* window, every pool size and every number of threads; and of the stems   *)
(* between routers, for every graph of them.                               *)
(***************************************************************************)
EXTENDS TxPool, Dandelion, TLAPS

(* What keeps PoolFresh through the gap between the chain's commit and the *)
(* hook: a Put that holds the mutex read the height before the hook could  *)
(* run, so the height is stale only while the hook is still to come.       *)
PoolInv ==
    /\ latestHeight \in Nat
    /\ hook \in BOOLEAN
    /\ DOMAIN txMap = Froms /\ DOMAIN commitMap = Froms
    /\ PoolFresh
    /\ ~hook /\ lock # Free => lock.next = next

(* What PoolFresh says of one reveal and of one commitment. *)
FreshTx(f, e) ==
    /\ e.height = next /\ e.item.from = f
    /\ CheckTx(chain[latestHeight], e.item, next)
    /\ e.item.fee >= effectiveFloor(blocks[latestHeight])

FreshCommit(f, e) ==
    /\ e.height = next /\ e.item.from = f
    /\ CheckCommitment(chain[latestHeight], e.item, next)
    /\ e.item.fee >= effectiveFloor(blocks[latestHeight])

(* PoolFresh, entry by entry. *)
LEMMA FreshEntries ==
    PoolFresh <=>
        (~hook => \A f \in Froms :
            /\ txMap[f] # NoOne => FreshTx(f, txMap[f])
            /\ commitMap[f] # NoOne => FreshCommit(f, commitMap[f]))
  BY Zenon DEF PoolFresh, FreshTx, FreshCommit

(* PutTx leaves an entry alone, drops it, or puts the reveal under its     *)
(* sender.                                                                 *)
LEMMA InsertedEntries ==
    ASSUME NEW map, DOMAIN map = Froms, NEW r \in Reveals, NEW t, NEW f \in Froms
    PROVE  /\ DOMAIN Inserted(map, r, t) = Froms
           /\ \/ Inserted(map, r, t)[f] = map[f]
              \/ Inserted(map, r, t)[f] = NoOne
              \/ f = r.from /\ Inserted(map, r, t)[f] = Entry(r, t)
  <1> DEFINE with == [map EXCEPT ![r.from] = Entry(r, t)]
             e == cheapestEntry(map)
             without == [with EXCEPT ![e] = NoOne]
  <1>1. r.from \in Froms
    BY PoolAssumption, Zenon
  <1>2. DOMAIN with = Froms /\ (with[f] = map[f] \/ (f = r.from /\ with[f] = Entry(r, t)))
    BY <1>1, Zenon
  <1>3. DOMAIN without = Froms /\ (without[f] = with[f] \/ without[f] = NoOne)
    BY <1>2, Zenon
  <1>4. Inserted(map, r, t) \in {with, map, without}
    BY Zenon DEF Inserted
  <1> HIDE DEF with, without
  <1> QED
    BY <1>2, <1>3, <1>4, Zenon
(* An import step sets the hook; what the pool holds no longer matters     *)
(* until it has run.                                                       *)
LEMMA ApplyKeepsInv ==
    ASSUME PoolInv, NEW p \in Heights, NEW b, ApplyBlock(p, b)
    PROVE  PoolInv'
  <1>1. p \in Nat
    BY DEF Heights
  <1>2. latestHeight' \in Nat /\ hook' = TRUE /\ txMap' = txMap /\ commitMap' = commitMap
    BY <1>1 DEF ApplyBlock, poolVars
  <1>3. PoolFresh'
    BY <1>2, Zenon DEF PoolFresh
  <1> QED
    BY <1>2, <1>3, Zenon DEF PoolInv

(* Steps that touch neither the chain nor the maps. *)
LEMMA RestKeepsInv ==
    ASSUME PoolInv, UNCHANGED <<chainVars, hook, mapVars>>,
           lock' # Free => lock' = lock \/ lock'.next = next
    PROVE  PoolInv'
  <1>1. UNCHANGED <<latestHeight, blocks, chain, hook, txMap, commitMap>>
    BY Zenon DEF chainVars, mapVars
  <1>2. next' = next /\ Free' = Free
    BY <1>1, Zenon DEF next, Free
  <1>3. PoolFresh'
    BY <1>1 DEF PoolInv, PoolFresh, next
  <1> QED
    BY <1>1, <1>2, <1>3 DEF PoolInv

(* A Put reads the height when it has the mutex, so what it goes on with   *)
(* is the next height of that moment.                                      *)
LEMMA LockSets ==
    ASSUME NEW by, NEW item, NEW t, Lock(by, item, t)
    PROVE  lock'.next = next
  BY Zenon DEF Lock

(* A relay thread has the mutex only with a height it just read. *)
LEMMA RelayLocks ==
    ASSUME NEW w \in Workers, RelayTx(w)
    PROVE  lock' = lock \/ lock'.next = next
  <1>1. CASE \E item \in Halves : RelayPut(w, item)
    <2>1. PICK item \in Halves : RelayPut(w, item)
      BY <1>1, Zenon
    <2>2. lock' = lock \/ Lock(w, item, worker[w].next)
      BY <2>1, Zenon DEF RelayPut
    <2> QED
      BY <2>2, LockSets, Zenon
  <1>2. CASE RelayStart(w) \/ RelayRead(w) \/ RelaySnap(w) \/ RelayDone(w)
    BY <1>2, Zenon DEF RelayStart, RelayRead, RelaySnap, RelayDone
  <1> QED
    BY <1>1, <1>2, Zenon DEF RelayTx

(* Every step of a relay thread is of that kind. *)
LEMMA RelayKeepsInv ==
    ASSUME PoolInv, NEW w \in Workers, RelayTx(w)
    PROVE  PoolInv'
  <1>1. UNCHANGED <<chainVars, hook, mapVars>>
    BY Zenon DEF RelayTx, RelayStart, RelayRead, RelaySnap, RelayDone, RelayPut
  <1>2. lock' = lock \/ lock'.next = next
    BY RelayLocks, Zenon
  <1> QED
    BY <1>1, <1>2, RestKeepsInv, Zenon

(* PutCommitment checks on the current state, and for the current height   *)
(* unless the hook is to come.                                             *)
LEMMA PutCommitmentKeepsInv ==
    ASSUME PoolInv, PutCommitment
    PROVE  PoolInv'
  <1> DEFINE c == lock.item
             new == [commitMap EXCEPT ![c.from] = Entry(c, lock.height)]
             ok == /\ lock.height = lock.next
                   /\ CheckCommitment(chain[latestHeight], c, lock.next)
                   /\ c.fee >= effectiveFloor(blocks[latestHeight])
  <1>1. UNCHANGED <<latestHeight, blocks, chain, hook, txMap>> /\ lock' = Free
    BY Zenon DEF PutCommitment, chainVars
  <1>2. commitMap' = commitMap \/ (ok /\ commitMap' = new)
    BY Zenon DEF PutCommitment
  <1>3. next' = next /\ Free' = Free
    BY <1>1, Zenon DEF next, Free
  <1>4. c.from \in Froms /\ lock # Free
    BY PoolAssumption, Zenon DEF PutCommitment
  <1>5. DOMAIN commitMap' = Froms
    BY <1>2, Zenon DEF PoolInv
  <1>6. ASSUME ~hook, NEW f \in Froms, commitMap'[f] # NoOne
        PROVE  FreshCommit(f, commitMap'[f])
    <2>1. CASE commitMap'[f] = commitMap[f]
      BY <1>6, <2>1, FreshEntries, Zenon DEF PoolInv
    <2>2. CASE commitMap'[f] # commitMap[f]
      <3>1. ok /\ f = c.from /\ commitMap'[f] = Entry(c, lock.height)
        BY <1>2, <1>4, <2>2, Zenon DEF PoolInv
      <3>2. lock.next = next
        BY <1>4, <1>6, Zenon DEF PoolInv
      <3> HIDE DEF c
      <3> QED
        BY <3>1, <3>2 DEF FreshCommit, Entry
    <2> QED
      BY <2>1, <2>2, Zenon
  <1>7. PoolFresh'
    <2>1. \A f \in Froms : ~hook /\ txMap[f] # NoOne => FreshTx(f, txMap[f])
      BY FreshEntries, Zenon DEF PoolInv
    <2> QED
      BY <1>1, <1>6, <2>1, Zenon DEF PoolFresh, FreshTx, FreshCommit, next
  <1> QED
    BY <1>1, <1>3, <1>5, <1>7, Zenon DEF PoolInv
(* The same for PutTx. *)
LEMMA PutTxKeepsInv ==
    ASSUME PoolInv, PutTx
    PROVE  PoolInv'
  <1> DEFINE r == lock.item
             new == Inserted(txMap, r, lock.height)
             ok == /\ lock.height = lock.next
                   /\ r.fee >= effectiveFloor(blocks[latestHeight])
                   /\ CheckTx(chain[latestHeight], r, lock.height)
  <1>1. UNCHANGED <<latestHeight, blocks, chain, hook, commitMap>> /\ lock' = Free
    BY Zenon DEF PutTx, chainVars
  <1>2. txMap' = txMap \/ (ok /\ txMap' = new)
    BY Zenon DEF PutTx
  <1>3. next' = next /\ Free' = Free
    BY <1>1, Zenon DEF next, Free
  <1>4. r \in Reveals /\ lock # Free
    BY Zenon DEF PutTx
  <1> HIDE DEF new
  <1>5. ASSUME NEW f \in Froms
        PROVE  /\ DOMAIN new = Froms
               /\ \/ new[f] = txMap[f]
                  \/ new[f] = NoOne
                  \/ f = r.from /\ new[f] = Entry(r, lock.height)
    BY <1>4, <1>5, InsertedEntries DEF PoolInv, new
  <1>6. DOMAIN new = Froms
    <2>1. r.from \in Froms
      BY <1>4, PoolAssumption, Zenon
    <2> QED
      BY <1>5, <2>1, Zenon
  <1>7. ASSUME ~hook, NEW f \in Froms, txMap'[f] # NoOne
        PROVE  FreshTx(f, txMap'[f])
    <2>1. CASE txMap'[f] = txMap[f]
      BY <1>7, <2>1, FreshEntries, Zenon DEF PoolInv
    <2>2. CASE txMap'[f] # txMap[f]
      <3>1. ok /\ f = r.from /\ txMap'[f] = Entry(r, lock.height)
        BY <1>2, <1>5, <1>7, <2>2, Zenon
      <3>2. lock.next = next
        BY <1>4, <1>7, Zenon DEF PoolInv
      <3> HIDE DEF r
      <3> QED
        BY <3>1, <3>2 DEF FreshTx, Entry
    <2> QED
      BY <2>1, <2>2, Zenon
  <1>8. PoolFresh'
    <2>1. \A f \in Froms : ~hook /\ commitMap[f] # NoOne => FreshCommit(f, commitMap[f])
      BY FreshEntries, Zenon DEF PoolInv
    <2> QED
      BY <1>1, <1>7, <2>1, Zenon DEF PoolFresh, FreshTx, FreshCommit, next
  <1> QED
    BY <1>1, <1>2, <1>3, <1>6, <1>8, Zenon DEF PoolInv

(* Reset empties both maps; nobody holds the mutex. *)
LEMMA ResetKeepsInv ==
    ASSUME PoolInv, OnTipChanged
    PROVE  PoolInv'
  <1>1. /\ latestHeight' = latestHeight /\ hook' = FALSE /\ lock' = lock /\ lock = Free
        /\ txMap' = NoEntries /\ commitMap' = NoEntries
    BY Zenon DEF OnTipChanged, chainVars
  <1>2. DOMAIN NoEntries = Froms /\ \A f \in Froms : NoEntries[f] = NoOne
    BY Zenon DEF NoEntries
  <1>3. PoolFresh'
    BY <1>1, <1>2, Zenon DEF PoolFresh
  <1> QED
    BY <1>1, <1>2, <1>3, Zenon DEF PoolInv, Free

(* The pool never holds, once a tip's hook is done, anything that the tip  *)
(* has made stale (TxPool, OnTipChanged, PutTx, PutCommitment).            *)
THEOREM PoolInvariant == PoolSpec => []PoolInv
  <1>1. PoolInit => PoolInv
    <2> SUFFICES ASSUME PoolInit PROVE PoolInv
      OBVIOUS
    <2>1. DOMAIN NoEntries = Froms /\ \A f \in Froms : NoEntries[f] = NoOne
      BY Zenon DEF NoEntries
    <2>2. latestHeight = 0 /\ hook = FALSE /\ lock = Free /\ txMap = NoEntries /\ commitMap = NoEntries
      BY Zenon DEF PoolInit
    <2>3. PoolFresh
      BY <2>1, <2>2, Zenon DEF PoolFresh
    <2> QED
      BY <2>1, <2>2, <2>3, Zenon DEF PoolInv
  <1>2. PoolInv /\ [PoolNext]_nodeVars => PoolInv'
    <2> SUFFICES ASSUME PoolInv, [PoolNext]_nodeVars
                 PROVE  PoolInv'
      BY Zenon
    <2>1. CASE \E p \in Heights : \E b \in Mined : ApplyBlock(p, b)
      BY <2>1, ApplyKeepsInv, Zenon
    <2>2. CASE \E item \in Gossiped : PutNew(item)
      BY <2>2, LockSets, RestKeepsInv, Zenon DEF PutNew
    <2>3. CASE Put
      BY <2>3, PutCommitmentKeepsInv, PutTxKeepsInv, Zenon DEF Put
    <2>4. CASE OnTipChanged
      BY <2>4, ResetKeepsInv, Zenon
    <2>5. CASE \E w \in Workers : RelayTx(w)
      BY <2>5, RelayKeepsInv, Zenon
    <2>6. CASE \E w \in Workers : \E item \in Handed :
                 RelayCommit(w, item) \/ RelayReveal(w, item)
      <3>1. UNCHANGED <<chainVars, hook, mapVars>> /\ lock' = lock
        BY <2>6, Zenon DEF RelayCommit, RelayReveal
      <3> QED
        BY <3>1, RestKeepsInv, Zenon
    <2>7. CASE UNCHANGED nodeVars
      <3>1. UNCHANGED <<chainVars, hook, mapVars>> /\ lock' = lock
        BY <2>7, Zenon DEF nodeVars, chainVars, mapVars
      <3> QED
        BY <3>1, RestKeepsInv, Zenon
    <2> QED
      BY <2>1, <2>2, <2>3, <2>4, <2>5, <2>6, <2>7, Zenon DEF PoolNext
  <1> QED
    BY <1>1, <1>2, PTL DEF PoolSpec

(* PoolFresh for every instance. *)
THEOREM PoolFreshCorrect == PoolSpec => []PoolFresh
  <1>1. PoolInv => PoolFresh
    BY Zenon DEF PoolInv
  <1> QED
    BY <1>1, PoolInvariant, PTL
(* A pack has a hash once, and all of it is in the map. *)
LEMMA PackFacts ==
    ASSUME NEW map, NEW t, NEW D \in dedupByKey(Locked(map, t))
    PROVE  /\ Distinct(Pack(D))
           /\ \A c \in Pack(D) : \E f \in Froms :
                map[f] # NoOne /\ map[f].height = t /\ map[f].item = c
  <1>1. D \subseteq Locked(map, t) /\ Distinct(D)
    BY Zenon DEF dedupByKey
  <1>2. Pack(D) \subseteq D
    BY Zenon DEF Pack
  <1>3. \A c \in Locked(map, t) : \E f \in Froms :
          map[f] # NoOne /\ map[f].height = t /\ map[f].item = c
    BY Zenon DEF Locked, Held
  <1> QED
    BY <1>1, <1>2, <1>3, Zenon DEF Distinct

(* The sender Carries gives for a hash is that of an entry with the hash.  *)
LEMMA CarriesFacts ==
    ASSUME NEW S, NEW x \in Hashes, Carries(S)[x] # NoOne
    PROVE  \E c \in S : c.hash = x /\ Carries(S)[x] = c.from
  <1>1. PICK d \in S : d.hash = x
    BY Zenon DEF Carries
  <1> DEFINE c == CHOOSE e \in S : e.hash = x
  <1>2. c \in S /\ c.hash = x
    BY <1>1, Zenon
  <1>3. Carries(S)[x] = c.from
    BY <1>1, Zenon DEF Carries
  <1> HIDE DEF c
  <1> QED
    BY <1>2, <1>3, Zenon

(* What the pool packs for the next block applies on the tip, if each      *)
(* address affords what it has in the pack (GetPack, GetCommitPack,        *)
(* GetBlockTemplate).                                                      *)
THEOREM PackAppliesCorrect == PoolSpec => []PackApplies
  <1>1. PoolInv => PackApplies
    <2> SUFFICES ASSUME PoolInv, ~hook, NEW b \in Templates,
                        \A f \in Froms : Spend(b, f) <= chain[latestHeight].balance[f]
                 PROVE  CanApply(latestHeight, b)
      BY Zenon DEF PackApplies
    <2>1. PICK C \in dedupByKey(Locked(commitMap, next)) : b.commits = Pack(C)
      BY Zenon DEF Templates, GetCommitPack
    <2>2. PICK R \in dedupByKey(Locked(txMap, next)) : b.reveals = Pack(R)
      BY Zenon DEF Templates, GetPack
    <2>3. Distinct(b.commits) /\ \A c \in b.commits : FreshCommit(c.from, Entry(c, next))
      <3>1. /\ Distinct(b.commits)
            /\ \A c \in b.commits : \E f \in Froms :
                 commitMap[f] # NoOne /\ commitMap[f].height = next /\ commitMap[f].item = c
        BY <2>1, PackFacts
      <3>2. \A f \in Froms : commitMap[f] # NoOne => FreshCommit(f, commitMap[f])
        BY FreshEntries, Zenon DEF PoolInv
      <3> QED
        BY <3>1, <3>2, Zenon DEF FreshCommit, Entry
    <2>4. Distinct(b.reveals) /\ \A r \in b.reveals : FreshTx(r.from, Entry(r, next))
      <3>1. /\ Distinct(b.reveals)
            /\ \A r \in b.reveals : \E f \in Froms :
                 txMap[f] # NoOne /\ txMap[f].height = next /\ txMap[f].item = r
        BY <2>2, PackFacts
      <3>2. \A f \in Froms : txMap[f] # NoOne => FreshTx(f, txMap[f])
        BY FreshEntries, Zenon DEF PoolInv
      <3> QED
        BY <3>1, <3>2, Zenon DEF FreshTx, Entry
    <2>5. \A r \in b.reveals : r.fee >= effectiveFloor(blocks[latestHeight])
      BY <2>4, Zenon DEF FreshTx, Entry
    <2>6. \A c \in b.commits : ~commitFromPending(chain[latestHeight].store, c.from, c.hash, next)
      BY <2>3, Zenon DEF FreshCommit, Entry, CheckCommitment
    <2>7. \A r \in b.reveals : InWindow(chain[latestHeight].store, r.from, r.hash, next) # {}
      BY <2>4, Zenon DEF FreshTx, Entry, CheckTx
    <2>8. CanUpgrade(chain[latestHeight].store, Carries(b.commits), Carries(b.reveals), next)
      <3> SUFFICES ASSUME NEW x \in Hashes
                   PROVE  /\ Carries(b.commits)[x] # NoOne =>
                               ~commitFromPending(chain[latestHeight].store, Carries(b.commits)[x], x, next)
                          /\ Carries(b.reveals)[x] # NoOne =>
                               InWindow(chain[latestHeight].store, Carries(b.reveals)[x], x, next) # {}
        BY Zenon DEF CanUpgrade
      <3>1. ASSUME Carries(b.commits)[x] # NoOne
            PROVE  ~commitFromPending(chain[latestHeight].store, Carries(b.commits)[x], x, next)
        <4>1. PICK c \in b.commits : c.hash = x /\ Carries(b.commits)[x] = c.from
          BY <3>1, CarriesFacts, ZenonT(40)
        <4> QED
          BY <2>6, <4>1, Zenon
      <3>2. ASSUME Carries(b.reveals)[x] # NoOne
            PROVE  InWindow(chain[latestHeight].store, Carries(b.reveals)[x], x, next) # {}
        <4>1. PICK r \in b.reveals : r.hash = x /\ Carries(b.reveals)[x] = r.from
          BY <3>2, CarriesFacts, ZenonT(40)
        <4> QED
          BY <2>7, <4>1, Zenon
      <3> QED
        BY <3>1, <3>2, Zenon
    <2> QED
      BY <2>3, <2>4, <2>5, <2>8, Zenon DEF CanApply, next
  <1> QED
    BY <1>1, PoolInvariant, PTL

-----------------------------------------------------------------------------
(* Dandelion: no submission is lost between two critical sections of a     *)
(* router.  The induction needs what makes it safe to leave an item alone: *)
(* a seen item is flooded or about to be, and an entry of the stempool     *)
(* stands for a timer that runs or has expired.                            *)
StemInv == StemTypeOK /\ SeenFlooded /\ StempoolSound /\ Covered

(* The routers start with the invariant. *)
LEMMA StemStart == StemInit => StemInv
  BY StemAssumption, Zenon
  DEF StemInit, StemInv, StemTypeOK, SeenFlooded, StempoolSound, Covered, Stem

(* What moving a call on does to the set of calls. *)
LEMMA MovedFacts ==
    ASSUME calls \subseteq Call, NEW c \in calls, NEW at \in {"arm", "send", "dismiss", "mark"}
    PROVE  /\ Moved(c, at) \subseteq Call
           /\ \E d \in Moved(c, at) : d.node = c.node /\ d.item = c.item /\ d.at = at
           /\ \A d \in calls : d # c => d \in Moved(c, at)
<1> DEFINE r == [node |-> c.node, item |-> c.item, at |-> at, to |-> c.to, ttl |-> c.ttl]
<1>1. c \in Call
  BY Zenon
<1>2. r \in Call
  BY <1>1, Zenon DEF Call
<1>3. r.node = c.node /\ r.item = c.item /\ r.at = at
  BY Zenon
<1>4. Moved(c, at) = (calls \ {c}) \cup {r}
  BY Zenon DEF Moved
<1> HIDE DEF r
<1> QED BY <1>2, <1>3, <1>4, Zenon

(* Types, one action at a time. *)
LEMMA TypeStep == StemTypeOK /\ [StemNext]_stemVars => StemTypeOK'
<1> SUFFICES ASSUME StemTypeOK, [StemNext]_stemVars PROVE StemTypeOK'
  BY Zenon
<1> USE DEF StemTypeOK
<1>1. ASSUME NEW c \in calls, scheduleFailsafe(c) PROVE StemTypeOK'
  <2>1. c.node \in Nodes /\ c.item \in Items
    BY Zenon DEF Call
  <2>2. calls' \subseteq Call
    BY <1>1, MovedFacts, Zenon DEF scheduleFailsafe
  <2> QED BY <1>1, <2>1, <2>2 DEF scheduleFailsafe, markSeenLocked
<1>2. ASSUME NEW c \in calls, SendStem(c) PROVE StemTypeOK'
  <2>1. [to |-> c.to, item |-> c.item, ttl |-> c.ttl] \in Stem
    BY Zenon DEF Call, Stem
  <2> QED BY <1>2, <2>1, Zenon DEF SendStem
<1>3. ASSUME NEW c \in calls, SendFails(c) PROVE StemTypeOK'
  BY <1>3, MovedFacts, Zenon DEF SendFails
<1>4. ASSUME NEW c \in calls, dismissFailsafe(c) PROVE StemTypeOK'
  <2>1. c.node \in Nodes /\ c.item \in Items
    BY DEF Call
  <2>2. calls' \subseteq Call
    BY <1>4, MovedFacts, Zenon DEF dismissFailsafe
  <2> QED BY <1>4, <2>1, <2>2 DEF dismissFailsafe, cancel
<1>5. ASSUME NEW c \in calls, fluffQuietly(c) PROVE StemTypeOK'
  <2>1. c.node \in Nodes /\ c.item \in Items
    BY DEF Call
  <2> QED BY <1>5, <2>1 DEF fluffQuietly, markSeen, markSeenLocked, cancel
<1>6. ASSUME NEW m \in stems, Relay(m) PROVE StemTypeOK'
  <2>1. m.to \in Nodes /\ m.item \in Items /\ m.ttl \in Nat
    BY Zenon DEF Stem
  <2>2. calls' \subseteq Call
    <3>1. CASE calls' = calls
      BY <3>1, Zenon
    <3>2. CASE calls' = calls \cup {[node |-> m.to, item |-> m.item, at |-> "mark",
                                     to |-> m.to, ttl |-> 0]}
      BY <3>2, <2>1 DEF Call
    <3>3. ASSUME m.ttl # 0, NEW p \in Nodes,
                 calls' = calls \cup {[node |-> m.to, item |-> m.item, at |-> "arm",
                                       to |-> p, ttl |-> m.ttl - 1]}
          PROVE  calls' \subseteq Call
      BY <3>3, <2>1 DEF Call
    <3> QED BY <1>6, <3>1, <3>2, <3>3 DEF Relay
  <2> QED BY <1>6, <2>2, Zenon DEF Relay
<1>7. ASSUME NEW m \in stems, Lose(m) PROVE StemTypeOK'
  BY <1>7, Zenon DEF Lose
<1>8. ASSUME NEW n \in Nodes, NEW i \in Items, Originate(n, i) PROVE StemTypeOK'
  <2>1. calls' \subseteq Call
    BY <1>8, StemAssumption DEF Originate, Call
  <2> QED BY <1>8, <2>1 DEF Originate
<1>9. ASSUME NEW n \in Nodes, NEW i \in Items, Expire(n, i) PROVE StemTypeOK'
  BY <1>9 DEF Expire
<1>10. ASSUME NEW n \in Nodes, NEW i \in Items, Failsafe(n, i) PROVE StemTypeOK'
  BY <1>10 DEF Failsafe, markSeenLocked
<1>11. ASSUME NEW n \in Nodes, NEW i \in Items, Publish(n, i) PROVE StemTypeOK'
  BY <1>11 DEF Publish
<1>12. ASSUME NEW n \in Nodes, NEW i \in Items, Hear(n, i) PROVE StemTypeOK'
  BY <1>12 DEF Hear, markSeen, markSeenLocked, cancel
<1>13. ASSUME NEW n \in Nodes, Close(n) PROVE StemTypeOK'
  BY <1>13 DEF Close
<1>14. CASE UNCHANGED stemVars
  BY <1>14 DEF stemVars
<1> QED
  BY <1>1, <1>2, <1>3, <1>4, <1>5, <1>6, <1>7, <1>8, <1>9, <1>10, <1>11, <1>12, <1>13, <1>14, Zenon
  DEF StemNext, CallStep

(* SeenFlooded, StempoolSound and Covered, for one node and item. *)
SeenOK(n, i) == i \in seen[n] /\ ~closed[n] => i \in flooded \/ <<n, i>> \in fluffing

PoolOK(n, i) ==
    i \in timers[n] => /\ i \in armed[n] \/ <<n, i>> \in expired
                       /\ i \notin seen[n] /\ ~closed[n]

SubmissionOK(n, i) ==
    <<n, i>> \in submitted /\ ~closed[n] => i \in flooded \/ InHand(n, i)

ItemOK(n, i) == SeenOK(n, i) /\ PoolOK(n, i) /\ SubmissionOK(n, i)

(* The invariant, by node and item. *)
LEMMA PerItem ==
    ASSUME StemTypeOK
    PROVE  SeenFlooded /\ StempoolSound /\ Covered
              <=> \A n \in Nodes, i \in Items : ItemOK(n, i)
  BY DEF StemTypeOK, SeenFlooded, StempoolSound, Covered, ItemOK, SeenOK, PoolOK, SubmissionOK

(* Every action keeps an item covered at every node. *)
LEMMA ItemStep ==
    ASSUME StemTypeOK, StemTypeOK', [StemNext]_stemVars, NEW k \in Nodes, NEW j \in Items,
           ItemOK(k, j)
    PROVE  ItemOK(k, j)'
<1> USE DEF StemTypeOK, ItemOK, SeenOK, PoolOK, SubmissionOK, InHand
<1>1. ASSUME NEW c \in calls, scheduleFailsafe(c) PROVE ItemOK(k, j)'
  <2>1. c.node \in Nodes /\ c.item \in Items
    BY Zenon DEF Call
  <2>2. \A d \in calls : d # c => d \in calls'
    BY <1>1, MovedFacts DEF scheduleFailsafe
  <2>3. CASE c.node = k /\ c.item = j
    BY <1>1, <2>1, <2>2, <2>3 DEF scheduleFailsafe, markSeenLocked
  <2>4. CASE ~(c.node = k /\ c.item = j)
    BY <1>1, <2>1, <2>2, <2>4 DEF scheduleFailsafe, markSeenLocked
  <2> QED BY <2>3, <2>4
<1>2. ASSUME NEW c \in calls, SendStem(c) PROVE ItemOK(k, j)'
  BY <1>2, Zenon DEF SendStem
<1>3. ASSUME NEW c \in calls, SendFails(c) PROVE ItemOK(k, j)'
  <2>1. \A d \in calls : d # c => d \in calls'
    BY <1>3, MovedFacts, Zenon DEF SendFails
  <2> QED BY <1>3, <2>1 DEF SendFails
<1>4. ASSUME NEW c \in calls, dismissFailsafe(c) PROVE ItemOK(k, j)'
  <2>1. c.node \in Nodes /\ c.item \in Items
    BY DEF Call
  <2>2. \A d \in calls : d # c => d \in calls'
    BY <1>4, MovedFacts, Zenon DEF dismissFailsafe
  <2>3. \E d \in calls' : d.node = c.node /\ d.item = c.item /\ d.at = "mark"
    BY <1>4, MovedFacts, Zenon DEF dismissFailsafe
  <2> QED BY <1>4, <2>1, <2>2, <2>3 DEF dismissFailsafe, cancel
<1>5. ASSUME NEW c \in calls, fluffQuietly(c) PROVE ItemOK(k, j)'
  <2>1. c.node \in Nodes /\ c.item \in Items
    BY DEF Call
  <2> QED BY <1>5, <2>1 DEF fluffQuietly, markSeen, markSeenLocked, cancel
<1>6. ASSUME NEW m \in stems, Relay(m) PROVE ItemOK(k, j)'
  <2>1. calls \subseteq calls'
    BY <1>6, Zenon DEF Relay
  <2> QED BY <1>6, <2>1, Zenon DEF Relay
<1>7. ASSUME NEW m \in stems, Lose(m) PROVE ItemOK(k, j)'
  BY <1>7, Zenon DEF Lose
<1>8. ASSUME NEW n \in Nodes, NEW i \in Items, Originate(n, i) PROVE ItemOK(k, j)'
  <2>1. calls \subseteq calls'
    BY <1>8, Zenon DEF Originate
  <2>2. \E d \in calls' : d.node = n /\ d.item = i /\ d.at # "send"
    <3>1. ASSUME NEW d, d.node = n, d.item = i, d.at # "send", calls' = calls \cup {d}
          PROVE  \E e \in calls' : e.node = n /\ e.item = i /\ e.at # "send"
      BY <3>1, Zenon
    <3>2. ASSUME NEW p \in Nodes,
                 calls' = calls \cup {[node |-> n, item |-> i, at |-> "arm",
                                       to |-> p, ttl |-> InitialTTL]}
          PROVE  \E e \in calls' : e.node = n /\ e.item = i /\ e.at # "send"
      BY <3>2, <3>1, Zenon
    <3>3. ASSUME calls' = calls \cup {[node |-> n, item |-> i, at |-> "mark", to |-> n, ttl |-> 0]}
          PROVE  \E e \in calls' : e.node = n /\ e.item = i /\ e.at # "send"
      BY <3>3, <3>1, Zenon
    <3> QED BY <1>8, <3>2, <3>3, Zenon DEF Originate
  <2> QED BY <1>8, <2>1, <2>2, Zenon DEF Originate
<1>9. ASSUME NEW n \in Nodes, NEW i \in Items, Expire(n, i) PROVE ItemOK(k, j)'
  BY <1>9, Zenon DEF Expire
<1>10. ASSUME NEW n \in Nodes, NEW i \in Items, Failsafe(n, i) PROVE ItemOK(k, j)'
  BY <1>10 DEF Failsafe, markSeenLocked
<1>11. ASSUME NEW n \in Nodes, NEW i \in Items, Publish(n, i) PROVE ItemOK(k, j)'
  BY <1>11, Zenon DEF Publish
<1>12. ASSUME NEW n \in Nodes, NEW i \in Items, Hear(n, i) PROVE ItemOK(k, j)'
  BY <1>12, Zenon DEF Hear, markSeen, markSeenLocked, cancel
<1>13. ASSUME NEW n \in Nodes, Close(n) PROVE ItemOK(k, j)'
  BY <1>13, Zenon DEF Close
<1>14. CASE UNCHANGED stemVars
  BY <1>14, Zenon DEF stemVars
<1> QED
  BY <1>1, <1>2, <1>3, <1>4, <1>5, <1>6, <1>7, <1>8, <1>9, <1>10, <1>11, <1>12, <1>13, <1>14, Zenon
  DEF StemNext, CallStep

(* Every step of a router keeps the invariant. *)
LEMMA StemStep == StemInv /\ [StemNext]_stemVars => StemInv'
<1> SUFFICES ASSUME StemInv, [StemNext]_stemVars PROVE StemInv'
  OBVIOUS
<1>1. StemTypeOK /\ StemTypeOK'
  BY TypeStep, Zenon DEF StemInv
<1>2. \A n \in Nodes, i \in Items : ItemOK(n, i)
  BY <1>1, PerItem, Zenon DEF StemInv
<1>3. \A n \in Nodes, i \in Items : ItemOK(n, i)'
  BY <1>1, <1>2, ItemStep, Zenon
<1>4. (SeenFlooded /\ StempoolSound /\ Covered)'
  <2>1. (SeenFlooded /\ StempoolSound /\ Covered
            <=> \A n \in Nodes, i \in Items : ItemOK(n, i))'
    BY <1>1, PerItem, PTL
  <2> QED BY <2>1, <1>3, Zenon
<1> QED BY <1>1, <1>4, Zenon DEF StemInv

(* A submission to the router is flooded or its origin still answers for   *)
(* it, for any number of nodes and items, any caps and any hop budget.     *)
THEOREM SubmissionsCovered == StemSpec => []Covered
<1>1. StemInv => Covered
  BY Zenon DEF StemInv
<1> QED BY <1>1, StemStart, StemStep, PTL DEF StemSpec

(* No fail-safe is forgotten in the stempool. *)
THEOREM StempoolIsSound == StemSpec => []StempoolSound
<1>1. StemInv => StempoolSound
  BY Zenon DEF StemInv
<1> QED BY <1>1, StemStart, StemStep, PTL DEF StemSpec

-----------------------------------------------------------------------------
(* What the pool at its limit gives up. *)

INSTANCE FiniteSetTheorems

(* f is the entry of map that goes first, among those of U. *)
Cheapest(map, U, f) ==
    \A g \in U : \/ map[f].item.fee < map[g].item.fee
                 \/ map[f].item.fee = map[g].item.fee /\ f >= g

(* Some entry of a finite map with one goes first: otherwise take a        *)
(* smallest set of entries without it, and one element out of it.          *)
LEMMA CheapestExists ==
    ASSUME NEW map, NEW S \in SUBSET Froms, IsFiniteSet(S), S # {},
           \A f \in S : map[f].item.fee \in Nat
    PROVE  \E f \in S : Cheapest(map, S, f)
  <1> DEFINE T == {U \in SUBSET S : U # {} /\ ~\E f \in U : Cheapest(map, U, f)}
  <1> SUFFICES ASSUME T # {} PROVE FALSE
    BY Zenon
  <1>1. IsWellFoundedOn(StrictSubsetOrdering(S), FiniteSubsetsOf(S)) /\ T \subseteq FiniteSubsetsOf(S)
    BY FS_StrictSubsetOrderingWellFounded, FS_FiniteSubsetsOfFinite, Zenon
  <1>2. PICK U \in T : \A V \in T : ~(<<V, U>> \in StrictSubsetOrdering(S))
    BY <1>1, WFMin, Zenon
  <1>3. PICK x \in U : TRUE
    OBVIOUS
  <1>4. U \ {x} \notin T
    BY <1>2, <1>3, Zenon DEF StrictSubsetOrdering
  <1>5. x \in Nat /\ map[x].item.fee \in Nat
    BY PoolAssumption
  <1>6. CASE U \ {x} = {}
    <2>1. U = {x}
      BY <1>6
    <2> QED BY <1>5, <2>1 DEF Cheapest
  <1>7. CASE U \ {x} # {}
    <2>1. PICK y \in U \ {x} : Cheapest(map, U \ {x}, y)
      BY <1>4, <1>7, Zenon
    <2>2. y \in Nat /\ map[y].item.fee \in Nat
      BY PoolAssumption
    <2>3. \A g \in U : g \in Nat /\ map[g].item.fee \in Nat
      BY PoolAssumption
    <2>4. Cheapest(map, U, x) \/ Cheapest(map, U, y)
      <3>1. CASE map[x].item.fee < map[y].item.fee \/ (map[x].item.fee = map[y].item.fee /\ x >= y)
        <4> SUFFICES ASSUME NEW g \in U
                     PROVE  map[x].item.fee < map[g].item.fee \/ (map[x].item.fee = map[g].item.fee /\ x >= g)
          BY Zenon DEF Cheapest
        <4>1. g = x \/ map[y].item.fee < map[g].item.fee \/ (map[y].item.fee = map[g].item.fee /\ y >= g)
          BY <2>1, Zenon DEF Cheapest
        <4>2. g \in Nat /\ map[g].item.fee \in Nat
          BY <2>3, Zenon
        <4> QED BY <1>5, <2>2, <3>1, <4>1, <4>2
      <3>2. CASE ~(map[x].item.fee < map[y].item.fee \/ (map[x].item.fee = map[y].item.fee /\ x >= y))
        <4> SUFFICES ASSUME NEW g \in U
                     PROVE  map[y].item.fee < map[g].item.fee \/ (map[y].item.fee = map[g].item.fee /\ y >= g)
          BY Zenon DEF Cheapest
        <4>1. g = x \/ map[y].item.fee < map[g].item.fee \/ (map[y].item.fee = map[g].item.fee /\ y >= g)
          BY <2>1, Zenon DEF Cheapest
        <4>2. g \in Nat /\ map[g].item.fee \in Nat
          BY <2>3, Zenon
        <4> QED BY <1>5, <2>2, <3>2, <4>1, <4>2
      <3> QED BY <3>1, <3>2, Zenon
    <2> QED BY <2>1, <2>4, Zenon
  <1> QED BY <1>6, <1>7, Zenon

(* The pool holds reveals of finitely many senders. *)
HeldOK(map) ==
    /\ DOMAIN map = Froms /\ IsFiniteSet(Held(map))
    /\ \A f \in Held(map) : map[f].item \in Reveals

(* An insertion keeps that; and it takes an entry away only for a better   *)
(* paid one, of the same sender or, then, at the cost of the cheapest.     *)
LEMMA InsertedEvicts ==
    ASSUME NEW map, HeldOK(map), NEW r \in Reveals, NEW t \in Nat
    PROVE  LET new == Inserted(map, r, t)
           IN  /\ HeldOK(new)
               /\ \A f \in Held(map) : new[f] # map[f] =>
                    \E g \in Held(new) :
                        /\ new[g].item.fee > map[f].item.fee
                        /\ new[f] = NoOne => \A e \in Held(map) : map[e].item.fee >= map[f].item.fee
  <1> DEFINE with == [map EXCEPT ![r.from] = Entry(r, t)]
             e == cheapestEntry(map)
             without == [with EXCEPT ![e] = NoOne]
             new == Inserted(map, r, t)
  <1>1. /\ r.from \in Froms /\ r.fee \in Nat /\ Entry(r, t) # NoOne /\ Entry(r, t).item = r
        /\ \A f \in Held(map) : f \in Froms /\ map[f] # NoOne /\ map[f].item.fee \in Nat
    BY PoolAssumption DEF HeldOK, Held, Entry, Halves
  <1>2. /\ DOMAIN with = Froms /\ with[r.from] = Entry(r, t)
        /\ \A f \in Froms \ {r.from} : with[f] = map[f]
    BY <1>1, Zenon DEF HeldOK
  <1>3. DOMAIN without = Froms /\ \A f \in Froms : without[f] = IF f = e THEN NoOne ELSE with[f]
    BY <1>2, Zenon
  <1> HIDE DEF with, without
  <1>4. Held(with) = Held(map) \cup {r.from} /\ HeldOK(with)
    <2>1. Held(with) = Held(map) \cup {r.from}
      BY <1>1, <1>2, Zenon DEF Held
    <2>2. IsFiniteSet(Held(with))
      BY <2>1, FS_AddElement DEF HeldOK
    <2> QED BY <1>1, <1>2, <2>1, <2>2, Zenon DEF HeldOK, Held
  <1>5. CASE new = map
    BY <1>5, Zenon
  <1>6. CASE new = with /\ (map[r.from] = NoOne \/ map[r.from].item.fee < r.fee)
    <2>1. ASSUME NEW f \in Held(map), with[f] # map[f]
          PROVE  f = r.from /\ with[f] # NoOne /\ with[f].item.fee > map[f].item.fee
      <3>1. f = r.from /\ map[f] # NoOne
        BY <1>1, <1>2, <2>1, Zenon
      <3> QED BY <1>1, <1>2, <1>6, <3>1
    <2>2. \A f \in Held(map) : with[f] # map[f] => f \in Held(with)
      BY <1>4, Zenon
    <2> QED BY <1>4, <1>6, <2>1, <2>2, Zenon
  <1>7. CASE /\ new = without /\ map[r.from] = NoOne /\ map[e].item.fee < r.fee
             /\ ~(Cardinality(Held(map)) < MaxSize)
    <2>1. Held(map) # {}
      <3> SUFFICES ASSUME Held(map) = {} PROVE FALSE
        BY Zenon
      <3>1. Cardinality(Held(map)) = 0
        BY FS_EmptySet, Zenon
      <3>2. ~(0 < MaxSize)
        BY <1>7, <3>1, Zenon
      <3> QED BY <3>2, PoolAssumption
    <2>2. e \in Held(map) /\ Cheapest(map, Held(map), e)
      <3>1. \E f \in Held(map) : Cheapest(map, Held(map), f)
        <4>1. Held(map) \in SUBSET Froms
          BY Zenon DEF Held
        <4> QED BY <1>1, <2>1, <4>1, CheapestExists, Zenon DEF HeldOK
      <3> QED BY <3>1, Zenon DEF cheapestEntry, Cheapest
    <2> HIDE DEF e
    <2>3. e # r.from
      BY <1>7, <2>2, Zenon DEF Held
    <2>4. Held(without) = (Held(map) \ {e}) \cup {r.from} /\ HeldOK(without)
      <3>1. Held(without) = (Held(map) \ {e}) \cup {r.from}
        <4>1. without[r.from] = Entry(r, t) /\ without[e] = NoOne
          BY <1>1, <1>2, <1>3, <2>2, <2>3, Zenon
        <4>2. \A f \in Froms \ {r.from, e} : without[f] = map[f]
          BY <1>2, <1>3, Zenon
        <4> QED BY <1>1, <2>3, <4>1, <4>2, Zenon DEF Held
      <3>2. IsFiniteSet(Held(without))
        <4>1. Held(without) \subseteq Held(with)
          BY <1>4, <3>1
        <4> QED BY <1>4, <4>1, FS_Subset DEF HeldOK
      <3> QED BY <1>1, <1>2, <1>3, <3>1, <3>2, Zenon DEF HeldOK, Held
    <2>5. ASSUME NEW f \in Held(map), without[f] # map[f] PROVE f = e
      BY <1>1, <1>2, <1>3, <1>7, <2>5, Zenon
    <2>6. r.from \in Held(without) /\ without[r.from].item.fee > map[e].item.fee
      BY <1>1, <1>2, <1>3, <1>7, <2>2, <2>3, <2>4
    <2>7. \A g \in Held(map) : map[g].item.fee >= map[e].item.fee
      BY <1>1, <2>2 DEF Cheapest
    <2> QED BY <1>7, <2>4, <2>5, <2>6, <2>7, Zenon
  <1>8. new = map \/ (new = with /\ (map[r.from] = NoOne \/ map[r.from].item.fee < r.fee))
        \/ (new = without /\ map[r.from] = NoOne /\ map[e].item.fee < r.fee
            /\ ~(Cardinality(Held(map)) < MaxSize))
    BY Zenon DEF Inserted, Outbids, with, without
  <1> QED BY <1>5, <1>6, <1>7, <1>8, Zenon

(* The pool holds what a Put that had the mutex inserted for a height. *)
PoolHeld == HeldOK(txMap) /\ (lock # Free => lock.next \in Nat)

(* What a step does to the queued reveals and to the mutex. *)
LEMMA MapStep ==
    ASSUME PoolInv, PoolHeld, [PoolNext]_nodeVars
    PROVE  /\ \/ txMap' = txMap
              \/ hook' = hook /\ \E r \in Reveals : \E t \in Nat : txMap' = Inserted(txMap, r, t)
              \/ hook' # hook /\ txMap' = NoEntries
           /\ lock' = lock \/ lock' = Free \/ lock'.next = next
  <1>1. CASE \E p \in Heights : \E b \in Mined : ApplyBlock(p, b)
    BY <1>1, Zenon DEF ApplyBlock, poolVars
  <1>2. CASE \E item \in Gossiped : PutNew(item)
    BY <1>2, LockSets, Zenon DEF PutNew, mapVars
  <1>3. CASE PutCommitment
    BY <1>3, Zenon DEF PutCommitment
  <1>4. CASE PutTx
    <2>1. hook' = hook /\ lock.item \in Reveals /\ lock # Free /\ lock' = Free
      BY <1>4, Zenon DEF PutTx
    <2>2. txMap' = txMap \/ (lock.height = lock.next /\ txMap' = Inserted(txMap, lock.item, lock.height))
      BY <1>4, Zenon DEF PutTx
    <2>3. lock.next \in Nat
      BY <2>1, Zenon DEF PoolHeld
    <2> QED BY <2>1, <2>2, <2>3, Zenon
  <1>5. CASE OnTipChanged
    BY <1>5, Zenon DEF OnTipChanged
  <1>6. CASE \E w \in Workers : RelayTx(w)
    <2>1. PICK w \in Workers : RelayTx(w)
      BY <1>6, Zenon
    <2>2. UNCHANGED <<chainVars, hook, mapVars>>
      BY <2>1, Zenon DEF RelayTx, RelayStart, RelayRead, RelaySnap, RelayDone, RelayPut
    <2>3. lock' = lock \/ lock'.next = next
      BY <2>1, RelayLocks
    <2> QED BY <2>2, <2>3, Zenon DEF mapVars
  <1>7. CASE \E w \in Workers : \E item \in Handed : RelayCommit(w, item) \/ RelayReveal(w, item)
    BY <1>7, Zenon DEF RelayCommit, RelayReveal, mapVars
  <1>8. CASE UNCHANGED nodeVars
    BY <1>8, Zenon DEF nodeVars
  <1> QED BY <1>1, <1>2, <1>3, <1>4, <1>5, <1>6, <1>7, <1>8, Zenon DEF PoolNext, Put

(* For any senders, fees and size of the pool: between two tips a reveal   *)
(* leaves the pool only for a better paid one, and if it makes room for    *)
(* another sender's, nothing cheaper stays (PutTx, cheapestEntry).         *)
THEOREM EvictionCorrect == PoolSpec => EvictsCheapest
  <1>1. HeldOK(NoEntries)
    <2>1. DOMAIN NoEntries = Froms /\ Held(NoEntries) = {}
      BY Zenon DEF NoEntries, Held
    <2> QED BY <2>1, FS_EmptySet, Zenon DEF HeldOK
  <1>2. PoolInit => PoolHeld
    BY <1>1, Zenon DEF PoolInit, PoolHeld
  <1>3. PoolInv /\ PoolHeld /\ [PoolNext]_nodeVars => PoolHeld'
    <2> SUFFICES ASSUME PoolInv, PoolHeld, [PoolNext]_nodeVars PROVE PoolHeld'
      BY Zenon
    <2>1. HeldOK(txMap')
      BY <1>1, MapStep, InsertedEvicts, Zenon DEF PoolHeld
    <2>2. lock' # Free => lock'.next \in Nat
      <3>1. next \in Nat
        BY DEF PoolInv, next
      <3> QED BY <3>1, MapStep, Zenon DEF PoolHeld
    <2> QED BY <2>1, <2>2, Zenon DEF PoolHeld, HeldOK, Held, Free
  <1> DEFINE Evicts == hook' = hook => \A f \in Held(txMap) :
                 txMap'[f] # txMap[f] =>
                     \E g \in Held(txMap') :
                         /\ txMap'[g].item.fee > txMap[f].item.fee
                         /\ txMap'[f] = NoOne => \A e \in Held(txMap) :
                              txMap[e].item.fee >= txMap[f].item.fee
  <1>4. PoolInv /\ PoolHeld /\ [PoolNext]_nodeVars => [Evicts]_nodeVars
    BY MapStep, InsertedEvicts, Zenon DEF PoolHeld
  <1> QED
    BY <1>2, <1>3, <1>4, PoolInvariant, PTL DEF PoolSpec, EvictsCheapest
=============================================================================
