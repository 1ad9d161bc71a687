---------------------------- MODULE CommitReveal ----------------------------
(***************************************************************************)
(* Commit-reveal on a chain that reorganises.  The node is an archive      *)
(* node: a reorg unwinds its state.  Pending commitments are leaves of the *)
(* state commitment, so every header fixes what the store holds after the  *)
(* block; the miner of a block computed that by applying the whole chain.  *)
(***************************************************************************)
EXTENDS CommitStore

CONSTANT CheckRound     \* ngtypes.BlockCheckRound

ASSUME RoundAssumption == CheckRound \in Nat \ {0}

VARIABLES
    tip,        \* height of the canonical tip
    commits,    \* height -> the commitments of the canonical block
    reveals,    \* height -> the reveals of the canonical block
    replayed,   \* height -> the store after applying the chain from genesis
    store,      \* the store of the node
    high        \* the highest tip so far

vars == <<tip, commits, reveals, replayed, store, high>>

Nothing == [x \in Hashes |-> NoOne]

TypeOK ==
    /\ tip \in Heights
    /\ high \in Heights
    /\ commits \in [Heights -> Carried]
    /\ reveals \in [Heights -> Carried]
    /\ replayed \in [Heights -> CommitStores]
    /\ store \in CommitStores

Init ==
    /\ tip = 0
    /\ high = 0
    /\ commits = [h \in Heights |-> Nothing]
    /\ reveals = [h \in Heights |-> Nothing]
    /\ replayed = [h \in Heights |-> EmptyStore]
    /\ store = EmptyStore

(* CheckStateRoot: the header of the block at height t. *)
CheckStateRoot(c, root) == c.pending = root.pending

(* A block on height p, applied to what the node holds there.  A block     *)
(* whose root differs is refused and the transaction rolls back.           *)
Apply(c, p, com, rev) ==
    LET t    == p + 1
        root == Upgrade(replayed[p], com, rev, t)
    IN  /\ t <= MaxHeight
        /\ CanUpgrade(replayed[p], com, rev, t)     \* a valid block
        /\ CanUpgrade(c, com, rev, t)
        /\ CheckStateRoot(Upgrade(c, com, rev, t), root)
        /\ store' = Upgrade(c, com, rev, t)
        /\ replayed' = [h \in Heights |->
             IF h = t THEN root ELSE IF h > t THEN EmptyStore ELSE replayed[h]]
        /\ commits' = [h \in Heights |->
             IF h = t THEN com ELSE IF h > t THEN Nothing ELSE commits[h]]
        /\ reveals' = [h \in Heights |->
             IF h = t THEN rev ELSE IF h > t THEN Nothing ELSE reveals[h]]
        /\ tip' = t
        /\ high' = IF t > high THEN t ELSE high

Extend == \E com, rev \in Carried : Apply(store, tip, com, rev)

(* A reorg to a branch off height p; its further blocks extend the first,  *)
(* as ApplyBlocksTxn applies them.                                         *)
Reorg(p) == p < tip /\ \E com, rev \in Carried : Apply(Unwind(store, p, tip), p, com, rev)

Next == Extend \/ \E p \in Heights : Reorg(p)

Spec == Init /\ [][Next]_vars

(* A snapshot node takes its state from the sheet of a checkpoint; a sheet *)
(* has balances, contracts, keys and the beacon, but no commitments.       *)
ApplySnapshot ==
    /\ tip > 0 /\ tip % CheckRound = 0
    /\ store' = EmptyStore
    /\ UNCHANGED <<tip, commits, reveals, replayed, high>>

SpecSnapshot == Init /\ [][Next \/ ApplySnapshot]_vars

-----------------------------------------------------------------------------
(* commitFromPending "caps their commitment at ONE on-chain inclusion": no *)
(* committer has two unspent commitments with one hash, through any reorg. *)
SingleInclusion ==
    \A x \in Hashes : \A f \in Froms : \A g, h \in Heights :
        store.pending[g][x] = f /\ store.pending[h][x] = f => g = h

(* What is pending is what the chain's blocks say is pending: committed in *)
(* the window and not revealed since.                                      *)
PendingExact ==
    \A h \in Heights : \A x \in Hashes : \A f \in Froms :
        store.pending[h][x] = f <=>
            /\ h \in LowOf(tip, CommitWindow) .. tip
            /\ commits[h][x] = f
            /\ \A t \in h + 1 .. tip : reveals[t][x] # f

(* Every reveal of the chain has a commitment of its own, strictly below   *)
(* it and in its window (the anti-same-block rule of findCommit): between  *)
(* that commitment and the reveal there is no other reveal of it.          *)
RevealsCommitted ==
    \A t \in 1 .. tip : \A x \in Hashes :
        reveals[t][x] # NoOne =>
            \E h \in LowOf(t, CommitWindow) .. t - 1 :
                /\ commits[h][x] = reveals[t][x]
                /\ \A u \in h + 1 .. t - 1 : reveals[u][x] # reveals[t][x]

(* Unwinding restores the commitments the chain had pending at the fork    *)
(* point, as far down as nothing was ever pruned: a dropped reveal gives   *)
(* its commitment back (restoreConsumedAtHeight).                          *)
UnwindExactInWindow ==
    \A p \in 0 .. tip : \A h \in LowOf(high, CommitWindow) .. MaxHeight :
        Unwind(store, p, tip).pending[h] = replayed[p].pending[h]

(* A branch can be applied to the unwound store as its miners applied it   *)
(* to the replayed one: the two agree on every height the branch's first   *)
(* block keeps.                                                            *)
UnwindExact ==
    \A p \in 0 .. tip : \A h \in LowOf(p + 1, CommitWindow) .. MaxHeight :
        Unwind(store, p, tip).pending[h] = replayed[p].pending[h]

(* A node that starts from a snapshot is in the state of its tip. *)
SnapshotExact == store.pending = replayed[tip].pending
=============================================================================
