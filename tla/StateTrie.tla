----------------------------- MODULE StateTrie -----------------------------
(***************************************************************************)
(* The sparse Merkle tree of package statetrie over a store of nodes.  A   *)
(* path is a sequence of Depth bits and a node key its prefix.  Hashes are *)
(* terms: two hashes are equal when they hash the same, tagged, content.   *)
(***************************************************************************)
EXTENDS Naturals, Sequences

CONSTANT Depth

ASSUME DepthAssumption == Depth \in Nat \ {0}

ZeroHash == <<"zero">>

ValueHash(value) == <<"value", value>>

leafHash(path, valueHash) ==
    IF valueHash = ZeroHash THEN ZeroHash ELSE <<"leaf", path, valueHash>>

internalHash(left, right) == <<"internal", left, right>>

(* defaults[h]: the hash of an empty subtree of height h. *)
defaults[h \in 0 .. Depth] ==
    IF h = 0 THEN ZeroHash ELSE internalHash(defaults[h - 1], defaults[h - 1])

(* Only nodes that are not a default are stored. *)
EmptyTrie == [key \in {} |-> ZeroHash]

nodeKey(depth, path) == SubSeq(path, 1, depth)

siblingKey(depth, path) == [nodeKey(depth, path) EXCEPT ![depth] = 1 - path[depth]]

getNode(store, key, height) == IF key \in DOMAIN store THEN store[key] ELSE defaults[height]

Put(store, key, val) ==
    [k \in DOMAIN store \cup {key} |-> IF k = key THEN val ELSE store[k]]

Delete(store, key) == [k \in DOMAIN store \ {key} |-> store[k]]

(* Faulty: a node that became a default stays in the store. *)
setNodeKeeping(store, key, height, val) == Put(store, key, val)

setNode(store, key, height, val) ==
    IF val = defaults[height] THEN Delete(store, key) ELSE Put(store, key, val)

(* The hash of a node on the path from those of its child and of the       *)
(* child's sibling at the given depth.                                     *)
Joined(path, depth, cur, sib) ==
    IF path[depth] = 0 THEN internalHash(cur, sib) ELSE internalHash(sib, cur)

(* Update: the leaf is set (ZeroHash deletes it) and the branch rehashed up *)
(* to the root, one node at a time.                                        *)
Update(store, path, valueHash) ==
    LET up[d \in 0 .. Depth] ==
          IF d = Depth
          THEN LET leaf == leafHash(path, valueHash)
               IN  [cur |-> leaf, store |-> setNode(store, path, 0, leaf)]
          ELSE LET below == up[d + 1]
                   sib == getNode(below.store, siblingKey(d + 1, path), Depth - d - 1)
                   cur == Joined(path, d + 1, below.cur, sib)
               IN  [cur |-> cur,
                    store |-> setNode(below.store, nodeKey(d, path), Depth - d, cur)]
    IN  up[0].store

Root(store) == getNode(store, <<>>, Depth)

(* Prove: the siblings of the path, bottom up. *)
Prove(store, path) ==
    [i \in 1 .. Depth |-> getNode(store, siblingKey(Depth - i + 1, path), i - 1)]

(* Verify: the leaf folds through the siblings into the root. *)
Verify(root, path, valueHash, proof) ==
    LET fold[i \in 0 .. Depth] ==
          IF i = 0 THEN leafHash(path, valueHash)
          ELSE Joined(path, Depth - i + 1, fold[i - 1], proof[i])
    IN  fold[Depth] = root

-----------------------------------------------------------------------------
(* The reference: what the nodes are, for a function from the paths of the *)
(* live leaves to their value hashes.  A node is stored when a live leaf   *)
(* lies below it.                                                          *)
NodePrefixes(leaves) == {SubSeq(p, 1, d) : p \in DOMAIN leaves, d \in 0 .. Depth}

TrieOf(leaves) ==
    LET bits(d) == [1 .. d -> {0, 1}]
        hash[d \in 0 .. Depth] ==
          [key \in bits(d) |->
             IF d = Depth
             THEN IF key \in DOMAIN leaves THEN leafHash(key, leaves[key]) ELSE ZeroHash
             ELSE internalHash(hash[d + 1][Append(key, 0)], hash[d + 1][Append(key, 1)])]
    IN  [key \in NodePrefixes(leaves) |-> hash[Len(key)][key]]
=============================================================================
