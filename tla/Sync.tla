-------------------------------- MODULE Sync --------------------------------
(***************************************************************************)
(* Keeping up with the network (package consensus): the gossip importer    *)
(* with its orphan pool, and the sync loop that fetches chains from peers, *)
(* over the chain as module ChainView shows it.  A peer is a node as the   *)
(* wired protocol shows it: its canonical chain and the blocks it can look *)
(* up by hash.                                                             *)
(*                                                                         *)
(* Two goroutines of the node run here, the block receiver of eventLoop    *)
(* and the sync loop.  Chain operations are atomic (Chain.mu), requests to *)
(* peers and the test of the sync locker are not.  The node runs in strict *)
(* mode, the default: bootstrap does not replace the origin block.         *)
(***************************************************************************)
EXTENDS ImportRules, Sequences

CONSTANTS
    Peers,
    Gossiped,               \* blocks that gossip delivers
    RemoteStart,            \* the tips peers may start with
    ActualDiff,             \* ActualDiff[b]: the rank of b's pow hash
    MaxBlocks,              \* defaults.MaxBlocks: the blocks of one reply
    convergeBatchSize,      \* hashes compared in one converging request
    maxOrphanBlocks,        \* the room of the orphan pool
    minDesiredPeerCount,    \* remotes needed before the chain is rewritten
    FailureLimit,           \* failures in a row before a record cools down
    MaxFaults               \* bound: requests that stay unanswered

VARIABLES
    chain,          \* the stored blocks and the tip: [bodies, tip]
    snapshotMode,   \* PoWork.SnapshotMode
    remote,         \* peer -> its tip and the blocks it stores
    record,         \* peer -> RemoteRecord
    orphans,        \* orphanPool
    importing,      \* the blocks the gossip importer has in hand
    sync,           \* the sync loop
    faults

syncVars == <<snapshotMode, remote, record, orphans, importing, sync, faults>>
allVars == <<chain, syncVars>>

(* The chain: its initial view, and what an operation may do to it. *)
INSTANCE ChainView

ASSUME SyncAssumption ==
    /\ IsFiniteSet(Peers)
    /\ Gossiped \subseteq Blocks \ {Genesis} /\ RemoteStart \subseteq Blocks
    /\ ActualDiff \in [Blocks -> Nat]
    /\ MaxBlocks \in Nat \ {0} /\ convergeBatchSize \in Nat \ {0}
    /\ maxOrphanBlocks \in Nat /\ minDesiredPeerCount \in Nat
    /\ FailureLimit \in Nat /\ MaxFaults \in Nat

RemoteRecord ==
    [ known      : BOOLEAN,             \* the peer has answered a ping
      latest     : Heights,
      checkpoint : Blocks,              \* its hash and, by it, its rank
      failureNum : 0 .. FailureLimit + 1,
      cooling    : BOOLEAN ]            \* within syncRetryCooldown of a failure

NoRecord == [known |-> FALSE, latest |-> 0, checkpoint |-> Genesis,
             failureNum |-> 0, cooling |-> FALSE]

(* The loop is idle, works through the records of MustSync or MustConverge *)
(* or retries parked blocks; bootstrap ends in "down" when it panics.      *)
SyncState ==
    [ boot  : BOOLEAN,                                  \* in bootstrap()
      phase : {"idle", "sync", "converge", "drain", "down"},
      at    : {"pick", "ask", "apply", "switch", "range", "sheet"},
      todo  : Seq(Peers),                               \* records left to try
      batch : Seq(Blocks),                              \* blocks fetched so far
      cursor: 0 .. MaxHeight + 1,                       \* next height to ask for
      err   : BOOLEAN,                                  \* the last attempt failed
      drain : SUBSET Blocks ]                           \* importOrphanChildren's queue

Idle == [boot |-> FALSE, phase |-> "idle", at |-> "pick", todo |-> <<>>,
         batch |-> <<>>, cursor |-> 0, err |-> FALSE, drain |-> {}]

SyncTypeOK ==
    /\ snapshotMode \in BOOLEAN
    /\ remote \in [Peers -> [tip : Blocks, bodies : SUBSET Blocks]]
    /\ record \in [Peers -> RemoteRecord]
    /\ orphans \in SUBSET Blocks
    /\ importing \in SUBSET Blocks
    /\ sync \in SyncState
    /\ faults \in 0 .. MaxFaults

(* SyncMod.Locker is held from the first request to a peer until the       *)
(* attempt with that peer ends.                                            *)
Locked == sync.phase \in {"sync", "converge"} /\ sync.at # "pick"

Latest == chain.tip
LatestHeight == Height[chain.tip]

Round(h) == h \div CheckRound

GetLatestCheckpoint(b) == At(b, Round(Height[b]) * CheckRound)

-----------------------------------------------------------------------------
(* What a peer answers (package wired).  onGetChain looks hashes up among  *)
(* all blocks the peer stores and answers with its canonical blocks.       *)
RemoteChain(p, from, to) == [i \in 1 .. to - from + 1 |-> At(remote[p].tip, from + i - 1)]

ChainAbove(p, h) ==
    LET top == Height[remote[p].tip]
    IN  IF h >= top THEN <<>>
        ELSE RemoteChain(p, h + 1, IF h + MaxBlocks < top THEN h + MaxBlocks ELSE top)

(* Converging mode: the highest of the requester's hashes the peer has,    *)
(* and its chain above that height; no blocks if it has none of them.      *)
SharedHeights(p, from, to) == {h \in from .. to : At(chain.tip, h) \in remote[p].bodies}

Highest(S) == CHOOSE h \in S : \A g \in S : g <= h

(* Faulty: the reply starts one block above the fork point's child. *)
ConvergeReplyLate(p, from, to) ==
    LET shared == SharedHeights(p, from, to)
    IN  IF shared = {} THEN <<>> ELSE ChainAbove(p, Highest(shared) + 1)

ConvergeReply(p, from, to) ==
    LET shared == SharedHeights(p, from, to)
    IN  IF shared = {} THEN <<>> ELSE ChainAbove(p, Highest(shared))

(* Fetching mode is rejected unless every height of the range exists. *)
ServesRange(p, to) == to <= Height[remote[p].tip]

(* onGetSheet: the sheet of a checkpoint the peer has on its chain. *)
ServesSheet(p, b) == b \in Ancestors[remote[p].tip]

-----------------------------------------------------------------------------
(* The orphan pool: full or duplicate blocks are not added. *)
CanAdd(b) == Cardinality(orphans) < maxOrphanBlocks /\ b \notin orphans

Add(b) == orphans' = IF CanAdd(b) THEN orphans \cup {b} ELSE orphans

Children(b) == {c \in orphans : Prev[c] = b}

(* Chain.ApplyBlock, and its failure, which rolls the transaction back. *)
ApplyBlock(b) == CanApply(chain, b) /\ chain' = Applied(chain, b)

Refused(b) == ~CanApply(chain, b) /\ UNCHANGED chain

(* ImportBlock, up to the test of the locker: the block is parked while a  *)
(* sync runs, else it goes on to ApplyBlock.                               *)
ImportBlock(b) ==
    /\ importing = {}
    /\ ~sync.boot
    /\ IF Locked THEN Add(b) /\ importing' = {}
                 ELSE importing' = {b} /\ orphans' = orphans
    /\ UNCHANGED <<chain, snapshotMode, remote, record, sync, faults>>

(* ImportBlock and importOrphanChildren from there on, one ApplyBlock at a *)
(* time: an applied block releases its parked children.  A block whose     *)
(* parent is unknown is parked (a released child always knows its parent). *)
ImportApplies(b) ==
    /\ ApplyBlock(b)
    /\ importing' = (importing \ {b}) \cup Children(b)
    /\ orphans' = orphans \ Children(b)

ImportFails(b) ==
    /\ Refused(b)
    /\ importing' = importing \ {b}
    /\ IF Prev[b] \notin chain.bodies THEN Add(b) ELSE UNCHANGED orphans

ImportStep ==
    /\ \E b \in importing : ImportApplies(b) \/ ImportFails(b)
    /\ UNCHANGED <<snapshotMode, remote, record, sync, faults>>

-----------------------------------------------------------------------------
(* RemoteRecord. *)
shouldSync(r) ==
    /\ r.known /\ ~r.cooling
    /\ Round(r.latest) > Round(LatestHeight)

(* Faulty: a remote that is rounds ahead is left to MustSync. *)
shouldConvergeSameRound(r) ==
    /\ r.known /\ ~r.cooling
    /\ r.checkpoint # GetLatestCheckpoint(Latest)
    /\ r.latest > LatestHeight
    /\ Round(r.latest) = Round(LatestHeight)
    /\ ActualDiff[r.checkpoint] > ActualDiff[GetLatestCheckpoint(Latest)]

shouldConverge(r) ==
    /\ r.known /\ ~r.cooling
    /\ r.checkpoint # GetLatestCheckpoint(Latest)
    /\ r.latest > LatestHeight
    /\ \/ Round(r.latest) > Round(LatestHeight)
       \/ /\ Round(r.latest) = Round(LatestHeight)
          /\ ActualDiff[r.checkpoint] > ActualDiff[GetLatestCheckpoint(Latest)]

recordFailure(r) ==
    LET n == IF r.failureNum > FailureLimit THEN r.failureNum ELSE r.failureNum + 1
    IN  [r EXCEPT !.failureNum = n, !.cooling = n > FailureLimit \/ r.cooling]

recordSuccess(r) == [r EXCEPT !.failureNum = 0, !.cooling = FALSE]

(* getRemoteStatus: the peer's pong refreshes (or creates) its record. *)
upsertRemote(p) ==
    [record[p] EXCEPT !.known = TRUE, !.latest = Height[remote[p].tip],
                      !.checkpoint = GetLatestCheckpoint(remote[p].tip)]

(* The records in the order the loop tries them: highest first, equal      *)
(* heights in any order (by lastChatTime, then as the map yields them).    *)
Sorted(rec, S) ==
    {q \in [1 .. Cardinality(S) -> S] :
        \A i, j \in DOMAIN q : i < j => q[i] # q[j] /\ rec[q[i]].latest >= rec[q[j]].latest}

MustSync(rec) == {p \in Peers : shouldSync(rec[p])}

Known == {p \in Peers : record[p].known}

(* Faulty: the count of remotes does not matter. *)
MustConvergeUngated == {p \in Peers : shouldConverge(record[p])}

MustConverge ==
    IF Cardinality(Known) < minDesiredPeerCount THEN {}
    ELSE {p \in Peers : shouldConverge(record[p])}

-----------------------------------------------------------------------------
(* One round of the loop (and bootstrap, which does the same once).  The   *)
(* peers that answer the ping get a fresh record; when no peer is a round  *)
(* ahead the loop is done, without converging or retrying parked blocks.   *)
Tick ==
    /\ sync.phase = "idle"
    /\ \E silent \in SUBSET Peers :
         LET rec == [p \in Peers |-> IF p \in silent THEN record[p] ELSE upsertRemote(p)]
         IN  /\ Cardinality(silent) <= MaxFaults - faults
             /\ faults' = faults + Cardinality(silent)
             /\ record' = rec
             /\ IF MustSync(rec) = {} /\ ~sync.boot
                THEN sync' = Idle
                ELSE \E q \in Sorted(rec, MustSync(rec)) :
                       sync' = [Idle EXCEPT !.boot = sync.boot, !.phase = "sync", !.todo = q]
    /\ UNCHANGED <<chain, snapshotMode, remote, orphans, importing>>

Peer == Head(sync.todo)
Rec == record[Peer]

(* The end of a round: parked children of the tip are taken ... *)
DrainFromTip ==
    /\ sync' = [Idle EXCEPT !.phase = "drain", !.drain = Children(chain'.tip)]
    /\ orphans' = orphans \ Children(chain'.tip)

(* ... while bootstrap ends without that, in a panic if err is set. *)
EndRound(err) ==
    IF sync.boot
    THEN /\ sync' = [Idle EXCEPT !.phase = IF err THEN "down" ELSE "idle"]
         /\ UNCHANGED orphans
    ELSE DrainFromTip

(* The attempt with the peer failed: the next record is tried. *)
Fail ==
    /\ record' = IF sync.phase = "converge"
                 THEN [record EXCEPT ![Peer] = recordFailure(@)] ELSE record
    /\ sync' = [sync EXCEPT !.at = "pick", !.todo = Tail(@), !.batch = <<>>,
                            !.cursor = 0, !.err = TRUE]
    /\ UNCHANGED orphans

(* It succeeded: the loop is done, and only a converge retries the parked  *)
(* blocks.  Bootstrap goes on to the converge check.                       *)
Succeed ==
    /\ record' = IF sync.boot THEN record ELSE [record EXCEPT ![Peer] = recordSuccess(@)]
    /\ CASE sync.phase = "sync" /\ ~sync.boot -> sync' = Idle /\ UNCHANGED orphans
         [] sync.phase = "sync" /\ sync.boot ->
              /\ sync' = [sync EXCEPT !.at = "pick", !.todo = <<>>, !.batch = <<>>,
                                      !.cursor = 0, !.err = FALSE]
              /\ UNCHANGED orphans
         [] sync.phase = "converge" -> EndRound(FALSE)

(* A request is out that the peer does not answer in time. *)
Asking ==
    \/ sync.at \in {"range", "sheet"}
    \/ sync.at = "ask" /\ sync.phase = "sync" /\ ~snapshotMode /\ LatestHeight < Rec.latest
    \/ sync.at = "ask" /\ sync.phase = "converge" /\ sync.cursor # 0

Unanswered ==
    /\ Asking
    /\ faults < MaxFaults
    /\ faults' = faults + 1
    /\ Fail
    /\ UNCHANGED <<chain, snapshotMode, remote, importing>>

(* The next record is picked and the locker taken; after the last one the  *)
(* converge check follows, and after that the end of the round.            *)
Pick ==
    /\ sync.phase \in {"sync", "converge"} /\ sync.at = "pick"
    /\ UNCHANGED chain
    /\ IF sync.todo # <<>>
       THEN /\ sync' = [sync EXCEPT !.at = "ask", !.cursor = LatestHeight]
            /\ UNCHANGED orphans
       ELSE IF sync.phase = "sync" /\ MustConverge # {}
       THEN /\ \E q \in Sorted(record, MustConverge) :
                   sync' = [sync EXCEPT !.phase = "converge", !.todo = q]
            /\ UNCHANGED orphans
       ELSE EndRound(sync.err)
    /\ UNCHANGED <<snapshotMode, remote, record, importing, faults>>

-----------------------------------------------------------------------------
(* doSync: blocks above the local tip are asked for until the recorded     *)
(* height is reached or the peer has none; a peer that does not know the   *)
(* tip rejects.                                                            *)
SyncAsk ==
    /\ sync.phase = "sync" /\ sync.at = "ask" /\ ~snapshotMode
    /\ IF LatestHeight >= Rec.latest THEN Succeed
       ELSE IF Latest \notin remote[Peer].bodies THEN Fail
       ELSE IF ChainAbove(Peer, LatestHeight) = <<>> THEN Succeed
       ELSE /\ sync' = [sync EXCEPT !.at = "apply", !.batch = ChainAbove(Peer, LatestHeight)]
            /\ UNCHANGED <<record, orphans>>
    /\ UNCHANGED <<chain, snapshotMode, remote, importing, faults>>

SyncApply ==
    /\ sync.at = "apply"
    /\ \/ /\ ApplyBlock(Head(sync.batch))
          /\ sync' = [sync EXCEPT !.batch = Tail(@),
                                  !.at = IF Len(sync.batch) = 1 THEN "ask" ELSE "apply"]
          /\ UNCHANGED <<record, orphans>>
       \/ Refused(Head(sync.batch)) /\ Fail
    /\ UNCHANGED <<snapshotMode, remote, importing, faults>>

(* Where the next batch of hashes ends.  Faulty: at the batch just tried. *)
CursorStuck(from) == from

NextCursor(from) == from - 1

(* getBlocksForConverging: the canonical hashes from the cursor down, one  *)
(* batch at a time, until the peer returns its chain above a shared one.   *)
(* The cursor starts at 0 only when the local chain is its origin.         *)
ConvergeAsk ==
    LET to   == sync.cursor
        from == IF to <= convergeBatchSize THEN 0 ELSE to - convergeBatchSize + 1
        reply == ConvergeReply(Peer, from, to)
    IN  /\ sync.phase = "converge" /\ sync.at = "ask"
        /\ IF to = 0 \/ LatestHeight < to THEN Fail
           ELSE IF reply # <<>>
           THEN /\ sync' = [sync EXCEPT !.at = "switch", !.batch = reply]
                /\ UNCHANGED <<record, orphans>>
           ELSE IF from = 0 THEN Fail
           ELSE /\ sync' = [sync EXCEPT !.cursor = NextCursor(from)]
                /\ UNCHANGED <<record, orphans>>
        /\ UNCHANGED <<chain, snapshotMode, remote, importing, faults>>

First == Head(sync.batch)
Final == sync.batch[Len(sync.batch)]

Linked == \A i \in 1 .. Len(sync.batch) - 1 : Prev[sync.batch[i + 1]] = sync.batch[i]

(* doConverging: SwitchToBranch decides. *)
ConvergeSwitch ==
    /\ sync.at = "switch" /\ ~snapshotMode
    /\ IF CanSwitch(chain, Prev[First], Final)
       THEN chain' = Switched(chain, Prev[First], Final) /\ Succeed
       ELSE UNCHANGED chain /\ Fail
    /\ UNCHANGED <<snapshotMode, remote, importing, faults>>

-----------------------------------------------------------------------------
Checkpoint0 == Height[Rec.checkpoint]

(* doSnapshotSync: nothing to do at or above the peer's checkpoint, else   *)
(* the range up to it is fetched.                                          *)
SnapshotAsk ==
    /\ sync.phase = "sync" /\ sync.at = "ask" /\ snapshotMode
    /\ IF LatestHeight >= Checkpoint0 THEN Succeed
       ELSE /\ sync' = [sync EXCEPT !.at = "range", !.cursor = LatestHeight + 1]
            /\ UNCHANGED <<record, orphans>>
    /\ UNCHANGED <<chain, snapshotMode, remote, importing, faults>>

(* doSnapshotConverging: the branch is cut at the checkpoint or extended   *)
(* to it.                                                                  *)
SnapshotCut ==
    /\ sync.at = "switch" /\ snapshotMode
    /\ IF Height[First] > Checkpoint0 THEN Fail
       ELSE /\ sync' =
                 IF Height[Final] >= Checkpoint0
                 THEN [sync EXCEPT !.at = "sheet",
                           !.batch = SubSeq(@, 1, Checkpoint0 - Height[First] + 1)]
                 ELSE [sync EXCEPT !.at = "range", !.cursor = Height[Final] + 1]
            /\ UNCHANGED <<record, orphans>>
    /\ UNCHANGED <<chain, snapshotMode, remote, importing, faults>>

(* fetchRemoteRange, one reply of at most MaxBlocks. *)
FetchRange ==
    LET to == IF sync.cursor + MaxBlocks - 1 < Checkpoint0
              THEN sync.cursor + MaxBlocks - 1 ELSE Checkpoint0
    IN  /\ sync.at = "range"
        /\ IF ~ServesRange(Peer, to) THEN Fail
           ELSE /\ sync' = [sync EXCEPT
                              !.batch = @ \o RemoteChain(Peer, sync.cursor, to),
                              !.cursor = to + 1,
                              !.at = IF to = Checkpoint0 THEN "sheet" ELSE "range"]
                /\ UNCHANGED <<record, orphans>>
        /\ UNCHANGED <<chain, snapshotMode, remote, importing, faults>>

(* The sheet of the recorded checkpoint, then Chain.ApplySnapshot, which   *)
(* requires that the segment is a chain that ends in the sheet's block.    *)
SnapshotSheet ==
    /\ sync.at = "sheet"
    /\ IF /\ ServesSheet(Peer, Rec.checkpoint)
          /\ Final = Rec.checkpoint /\ Linked
          /\ Attaches(chain, Prev[First], Final)
       THEN chain' = Extended(chain, Prev[First], Final) /\ Succeed
       ELSE UNCHANGED chain /\ Fail
    /\ UNCHANGED <<snapshotMode, remote, importing, faults>>

-----------------------------------------------------------------------------
(* importOrphanChildren at the end of a round. *)
Drain ==
    /\ sync.phase = "drain"
    /\ \/ /\ sync.drain = {} /\ sync' = Idle
          /\ UNCHANGED <<chain, orphans>>
       \/ \E b \in sync.drain :
            \/ /\ ApplyBlock(b)
               /\ sync' = [sync EXCEPT !.drain = (@ \ {b}) \cup Children(b)]
               /\ orphans' = orphans \ Children(b)
            \/ /\ Refused(b)
               /\ sync' = [sync EXCEPT !.drain = @ \ {b}]
               /\ UNCHANGED orphans
    /\ UNCHANGED <<snapshotMode, remote, record, importing, faults>>

(* syncRetryCooldown passes. *)
CoolDown(p) ==
    /\ record[p].cooling
    /\ record' = [record EXCEPT ![p].cooling = FALSE]
    /\ UNCHANGED <<chain, snapshotMode, remote, orphans, importing, sync, faults>>

(* A peer's chain grows by one block ... *)
PeerExtends(p, b) ==
    /\ b # Genesis /\ Prev[b] = remote[p].tip
    /\ remote' = [remote EXCEPT ![p] = [tip |-> b, bodies |-> @.bodies \cup {b}]]
    /\ UNCHANGED <<chain, snapshotMode, record, orphans, importing, sync, faults>>

(* ... or it stores a block off its chain. *)
PeerStoresSide(p, b) ==
    /\ b \notin remote[p].bodies
    /\ Prev[b] \in remote[p].bodies
    /\ ~Better(b, remote[p].tip)
    /\ remote' = [remote EXCEPT ![p].bodies = @ \cup {b}]
    /\ UNCHANGED <<chain, snapshotMode, record, orphans, importing, sync, faults>>

-----------------------------------------------------------------------------
SyncStep ==
    \/ Tick \/ Pick \/ SyncAsk \/ SyncApply \/ ConvergeAsk \/ ConvergeSwitch
    \/ SnapshotAsk \/ SnapshotCut \/ FetchRange \/ SnapshotSheet \/ Drain \/ Unanswered

(* The node starts on the genesis block, with bootstrap or (with           *)
(* DisableConnectingBootstraps) without.                                   *)
SyncInit ==
    /\ Init
    /\ snapshotMode \in BOOLEAN
    /\ remote \in [Peers -> {[tip |-> b, bodies |-> Ancestors[b]] : b \in RemoteStart}]
    /\ record = [p \in Peers |-> NoRecord]
    /\ orphans = {}
    /\ importing = {}
    /\ sync \in {[Idle EXCEPT !.boot = boot] : boot \in BOOLEAN}
    /\ faults = 0

SyncNext ==
    \/ \E b \in Gossiped : ImportBlock(b)
    \/ ImportStep
    \/ SyncStep
    \/ \E p \in Peers : CoolDown(p)
    \/ \E p \in Peers, b \in Blocks : PeerExtends(p, b)

(* Both goroutines keep running and time passes.  Nothing is asked of      *)
(* gossip or of the peers' growth, and at most MaxFaults requests stay     *)
(* unanswered.                                                             *)
SyncFairness ==
    /\ WF_allVars(SyncStep)
    /\ WF_allVars(ImportStep)
    /\ \A p \in Peers : WF_allVars(CoolDown(p))

SyncSpec == SyncInit /\ [][SyncNext]_allVars /\ SyncFairness

(* Peers that also hold blocks off their chain. *)
SyncNextSide == SyncNext \/ \E p \in Peers, b \in Blocks \ {Genesis} : PeerStoresSide(p, b)

SyncSpecSide == SyncInit /\ [][SyncNextSide]_allVars /\ SyncFairness

-----------------------------------------------------------------------------
(* doSync, doConverging and their snapshot forms, with the cooldown: a     *)
(* node does not stay a whole round behind a peer whose chain is the       *)
(* better one, whichever fork it was on, whatever order gossip delivered   *)
(* and although some requests were lost, unless bootstrap panicked.        *)
CatchesUp ==
    <>[](\/ sync.phase = "down"
         \/ \A p \in Peers :
              Round(Height[remote[p].tip]) > Round(LatestHeight)
                  => Better(Latest, remote[p].tip))

(* The locker that parks gossip and refuses mined blocks is released: no   *)
(* attempt of doSync or doConverging goes on for ever.                     *)
LockReleased == Locked ~> ~Locked

(* getBlocksForConverging: what the peer returns attaches to a block the   *)
(* requester stores and has on its chain, however the two chains fork and  *)
(* in whatever batches the hashes were sent.                               *)
ReplyAttaches ==
    [][sync.at = "ask" /\ sync'.at = "switch"
       => Prev[Head(sync'.batch)] \in chain.bodies \cap Ancestors[Latest]]_allVars

(* "converging rewrites the local chain, so on public networks it requires *)
(* enough independent remotes" (MustConverge): a branch of several fetched *)
(* blocks replaces the tip only on a node that knows enough peers.  Gossip *)
(* replaces it block by block and not below the finality line.  A snapshot *)
(* replaces whatever tip it meets, also when it was fetched to catch up,   *)
(* which no count gates.                                                   *)
RewriteNeedsPeers ==
    [][/\ ~snapshotMode
       /\ Latest \notin Ancestors[chain'.tip]
       /\ Cardinality(chain'.bodies \ chain.bodies) > 1
       => Cardinality(Known) >= minDesiredPeerCount]_allVars

=============================================================================
