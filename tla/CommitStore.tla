---------------------------- MODULE CommitStore ----------------------------
(***************************************************************************)
(* The commit store of the state (ngstate/commit.go): the pending blind    *)
(* commitments of commit-reveal and the journal of the consumed ones.      *)
(*                                                                         *)
(* A commitment is a blind hash and its committer.  The hash is public, so *)
(* a second committer may copy it.  A block carries a hash at most once    *)
(* among its commitments (FullBlock.CheckError) and at most once among its *)
(* reveals (two reveals of one hash are one txid), so each is a function   *)
(* from hashes to committers.                                              *)
(***************************************************************************)
EXTENDS Integers

CONSTANTS
    Hashes,         \* blind hashes
    Froms,          \* committers
    NoOne,          \* "no such key" in a bucket
    CommitWindow,   \* ngtypes.CommitWindow
    MaxHeight       \* bound: the greatest height

Heights == 0 .. MaxHeight

ASSUME CommitAssumption ==
    /\ CommitWindow \in Nat \ {0}
    /\ MaxHeight \in Nat
    /\ NoOne \notin Froms

(* The commitments of a block, or its reveals. *)
Carried == [Hashes -> Froms \cup {NoOne}]

(* A journal entry: which record a reveal consumed, and whose it was. *)
Consumed == [record : Heights, from : Froms]

NotConsumed == [record |-> -1, from |-> NoOne]

CommitStores ==
    [ pending : [Heights -> Carried],                           \* mempool:commit
      spent   : [Heights -> [Hashes -> Consumed \cup {NotConsumed}]] ]

EmptyStore ==
    [ pending |-> [h \in Heights |-> [x \in Hashes |-> NoOne]],
      spent   |-> [h \in Heights |-> [x \in Hashes |-> NotConsumed]] ]

(* The lowest height of a window of w heights below height t. *)
LowOf(t, w) == IF t > w THEN t - w ELSE 0

-----------------------------------------------------------------------------
(* Where findCommit may find the commitment a reveal at height t spends:   *)
(* recorded strictly below t and within the window.                        *)
InWindow(c, from, x, t) ==
    {h \in LowOf(t, CommitWindow) .. t - 1 : c.pending[h][x] = from}

(* findCommit: the lowest of them. *)
findCommit(c, from, x, t) ==
    CHOOSE h \in InWindow(c, from, x, t) : \A g \in InWindow(c, from, x, t) : h <= g

(* Faulty: the scan starts inside the window. *)
commitFromPendingShort(c, from, x, t) ==
    \E h \in LowOf(t, CommitWindow - 1) .. t - 1 : c.pending[h][x] = from

(* commitFromPending scans one height past the window. *)
commitFromPending(c, from, x, t) ==
    \E h \in LowOf(t, CommitWindow + 1) .. t - 1 : c.pending[h][x] = from

-----------------------------------------------------------------------------
(* A block with these commitments and reveals applies at height t.         *)
(* handleCommits refuses a committer's own pending duplicate; checkReveal  *)
(* and consumeReveal refuse a reveal without a commitment.                 *)
CanUpgrade(c, commits, reveals, t) ==
    \A x \in Hashes :
        /\ commits[x] # NoOne => ~commitFromPending(c, commits[x], x, t)
        /\ reveals[x] # NoOne => InWindow(c, reveals[x], x, t) # {}

(* handleCommits: putCommit each commitment at the block's height. *)
handleCommits(c, commits, t) ==
    [ pending |-> [h \in Heights |-> [x \in Hashes |->
         IF h = t /\ commits[x] # NoOne THEN commits[x] ELSE c.pending[h][x]]],
      spent   |-> c.spent ]

(* Faulty: the commitment stays. *)
consumeCommitNever(c, reveals, t) == c.pending

(* consumeCommit for every reveal of the block ... *)
consumeCommit(c, reveals, t) ==
    [h \in Heights |-> [x \in Hashes |->
       IF reveals[x] # NoOne /\ h = findCommit(c, reveals[x], x, t)
       THEN NoOne ELSE c.pending[h][x]]]

(* Faulty: nothing is journaled. *)
journalNothing(c, reveals, t) == c.spent

(* ... and journalConsumed, under the reveal's height. *)
journalConsumed(c, reveals, t) ==
    [h \in Heights |-> [x \in Hashes |->
       IF h = t /\ reveals[x] # NoOne
       THEN [record |-> findCommit(c, reveals[x], x, t), from |-> reveals[x]]
       ELSE c.spent[h][x]]]

consumeReveals(c, reveals, t) ==
    [pending |-> consumeCommit(c, reveals, t), spent |-> journalConsumed(c, reveals, t)]

(* Faulty: what the cutoff itself holds goes, too. *)
pruneCommitsAtCutoff(c, t) ==
    LET cutoff == LowOf(t, CommitWindow)
    IN  [ pending |-> [h \in Heights |-> [x \in Hashes |->
                        IF h <= cutoff THEN NoOne ELSE c.pending[h][x]]],
          spent   |-> [h \in Heights |-> [x \in Hashes |->
                        IF h <= cutoff THEN NotConsumed ELSE c.spent[h][x]]] ]

(* pruneCommits drops both buckets' entries below the window. *)
pruneCommits(c, t) ==
    LET cutoff == LowOf(t, CommitWindow)
    IN  [ pending |-> [h \in Heights |-> [x \in Hashes |->
                        IF h < cutoff THEN NoOne ELSE c.pending[h][x]]],
          spent   |-> [h \in Heights |-> [x \in Hashes |->
                        IF h < cutoff THEN NotConsumed ELSE c.spent[h][x]]] ]

(* State.Upgrade, as far as the commit store goes: commitments first, then *)
(* the reveals, then the prune.                                            *)
Upgrade(c, commits, reveals, t) ==
    pruneCommits(consumeReveals(handleCommits(c, commits, t), reveals, t), t)

-----------------------------------------------------------------------------
(* The reveals above p that consumed what was recorded at height h. *)
SpentAbove(c, p, tip, h, x) == {r \in p + 1 .. tip : c.spent[r][x].record = h}

(* Unwinding from the tip to p with unwindHeightTxn, height by height:     *)
(* deleteCommitsAtHeight leaves nothing above p, and                       *)
(* restoreConsumedAtHeight puts back, at its recording height, what the    *)
(* reveals above p consumed - the lowest reveal is unwound last.           *)
Unwind(c, p, tip) ==
    [ pending |-> [h \in Heights |-> [x \in Hashes |->
         IF h \in p + 1 .. tip THEN NoOne
         ELSE IF SpentAbove(c, p, tip, h, x) # {}
         THEN c.spent[CHOOSE r \in SpentAbove(c, p, tip, h, x) :
                        \A s \in SpentAbove(c, p, tip, h, x) : r <= s][x].from
         ELSE c.pending[h][x]]],
      spent |-> [h \in Heights |->
         IF h \in p + 1 .. tip THEN [x \in Hashes |-> NotConsumed] ELSE c.spent[h]] ]
=============================================================================
