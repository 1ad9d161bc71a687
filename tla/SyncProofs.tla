---------------------------- MODULE SyncProofs -----------------------------
(***************************************************************************)
(* Proofs about a node that follows its peers, for every tree of blocks,   *)
(* every set of peers and every size of a batch.                           *)
(***************************************************************************)
EXTENDS Sync, StoreProofs

-----------------------------------------------------------------------------

(* The chain as its users see it: a tip whose chain is stored. *)
ViewOK(c) ==
    /\ c \in [bodies : SUBSET Blocks, tip : Blocks]
    /\ Ancestors[c.tip] \subseteq c.bodies

(* Pruning keeps the tip's chain. *)
LEMMA PrunedKeeps ==
    ASSUME NEW c, ViewOK(c)
    PROVE  ViewOK(Pruned(c)) /\ Pruned(c).tip = c.tip /\ Pruned(c).bodies \subseteq c.bodies
<1>1. c.bodies \in SUBSET Blocks /\ c.tip \in Blocks /\ Ancestors[c.tip] \subseteq c.bodies
  BY Zenon DEF ViewOK
<1>2. CASE ~IsHead(c.tip)
  BY <1>2, Zenon DEF Pruned
<1>3. CASE IsHead(c.tip)
  <2> DEFINE kept == {b \in c.bodies : \/ b \in Ancestors[c.tip]
                                      \/ Height[b] >= sideBlockPruneHeight(Height[c.tip])}
  <2>1. Pruned(c) = [bodies |-> kept, tip |-> c.tip]
    BY <1>3, Zenon DEF Pruned, ViewOK
  <2>2. kept \in SUBSET Blocks /\ kept \subseteq c.bodies /\ Ancestors[c.tip] \subseteq kept
    BY <1>1, Zenon
  <2> HIDE DEF kept
  <2> QED BY <1>1, <2>1, <2>2 DEF ViewOK
<1> QED BY <1>2, <1>3, Zenon

(* The chains of two blocks share a highest block. *)
LEMMA ForkPointExists ==
    ASSUME NEW c, ViewOK(c), NEW b \in Blocks
    PROVE  ForkPoint(c, b) \in Ancestors[b] /\ ForkPoint(c, b) \in Ancestors[c.tip]
<1> DEFINE both == Ancestors[b] \cap Ancestors[c.tip]
           depths == {Height[b] - Height[a] : a \in both}
<1>1. c.tip \in Blocks /\ Genesis \in both
  BY ChainFacts, Zenon DEF ViewOK
<1>2. \A a \in both : Height[a] \in Nat /\ Height[b] \in Nat /\ Height[a] <= Height[b]
  BY AncestorFacts, Zenon
<1>3. depths \in SUBSET Nat /\ depths # {}
  BY <1>1, <1>2
<1>4. PICK d \in depths : \A e \in depths : d <= e
  BY <1>3, LeastNumber, Zenon
<1>5. PICK p \in both : d = Height[b] - Height[p]
  BY <1>4, Zenon
<1>6. ASSUME NEW a \in both PROVE Height[a] <= Height[p]
  <2>1. d <= Height[b] - Height[a]
    BY <1>4
  <2> QED BY <2>1, <1>2, <1>5
<1> HIDE DEF depths
<1>7. \E q \in both : \A a \in both : Height[a] <= Height[q]
  BY <1>6
<1> QED BY <1>7, Zenon DEF ForkPoint

(* A block that ApplyBlock takes is the only one that is new, and the tip  *)
(* keeps a stored chain.                                                   *)
LEMMA AppliedKeeps ==
    ASSUME NEW c, ViewOK(c), NEW b \in Blocks \ {Genesis}, CanApply(c, b)
    PROVE  ViewOK(Applied(c, b)) /\ Applied(c, b).bodies \subseteq c.bodies \cup {b}
<1> DEFINE d == [bodies |-> c.bodies \cup {b}, tip |-> b]
<1>1. c.bodies \in SUBSET Blocks /\ c.tip \in Blocks /\ Ancestors[c.tip] \subseteq c.bodies
  BY Zenon DEF ViewOK
<1>2. ASSUME Ancestors[b] \subseteq c.bodies \cup {b}
      PROVE  ViewOK(Pruned(d)) /\ Pruned(d).bodies \subseteq c.bodies \cup {b}
  <2>1. ViewOK(d) /\ d.bodies = c.bodies \cup {b}
    BY <1>1, <1>2, Zenon DEF ViewOK
  <2> HIDE DEF d
  <2> QED BY <2>1, PrunedKeeps
<1>3. CASE Prev[b] = c.tip
  <2>1. Ancestors[b] \subseteq c.bodies \cup {b}
    BY <1>1, <1>3, ChainFacts
  <2> QED BY <2>1, <1>2, <1>3, Zenon DEF Applied
<1>4. CASE Prev[b] # c.tip /\ Better(b, c.tip)
  <2> DEFINE p == ForkPoint(c, b)
  <2>1. p \in Ancestors[b] /\ p \in Ancestors[c.tip] /\ \A a \in Path(p, b) : Prev[a] \in c.bodies
    BY <1>4, ForkPointExists DEF CanApply, ExtendsTip, JoinsSide
  <2> HIDE DEF p
  <2>2. ASSUME NEW a \in Ancestors[b], a # b PROVE a \in c.bodies
    <3>1. CASE a \in Ancestors[p]
      BY <3>1, <2>1, <1>1, AncestorFacts
    <3>2. CASE a \notin Ancestors[p]
      <4>1. a \in Path(p, b)
        BY <3>2 DEF Path
      <4> QED BY <4>1, <2>1, <2>2, PathSuccessor
    <3> QED BY <3>1, <3>2
  <2>3. Ancestors[b] \subseteq c.bodies \cup {b}
    BY <2>2, Zenon
  <2> QED BY <2>3, <1>2, <1>4 DEF Applied
<1>5. CASE Prev[b] # c.tip /\ ~Better(b, c.tip)
  <2>1. Applied(c, b) = [bodies |-> c.bodies \cup {b}, tip |-> c.tip]
    BY <1>5, Zenon DEF Applied, ViewOK
  <2> QED BY <2>1, <1>1 DEF ViewOK
<1> QED BY <1>3, <1>4, <1>5

(* A segment that attaches brings its whole chain. *)
LEMMA ExtendedKeeps ==
    ASSUME NEW c, ViewOK(c), NEW p \in Blocks, NEW n \in Blocks, Attaches(c, p, n)
    PROVE  ViewOK(Extended(c, p, n)) /\ ViewOK(Switched(c, p, n))
<1>1. c.bodies \in SUBSET Blocks /\ c.tip \in Blocks /\ Ancestors[c.tip] \subseteq c.bodies
  BY Zenon DEF ViewOK
<1>2. p \in Ancestors[n] /\ p \in Ancestors[c.tip]
  BY Zenon DEF Attaches
<1>3. Ancestors[n] = Path(p, n) \cup Ancestors[p] /\ Path(p, n) \subseteq Blocks
  BY <1>2, PathFacts
<1>4. Ancestors[p] \subseteq c.bodies
  BY <1>1, <1>2, AncestorFacts
<1>5. ViewOK(Extended(c, p, n))
  BY <1>1, <1>3, <1>4 DEF ViewOK, Extended
<1> QED BY <1>5, PrunedKeeps DEF Switched

-----------------------------------------------------------------------------
(* What a peer sends: its canonical blocks, at consecutive heights. *)
Segment(q) ==
    /\ q \in Seq(Blocks \ {Genesis})
    /\ \A i \in 1 .. Len(q) : Height[q[i]] = Height[q[1]] + i - 1

(* A part of a peer's chain above the genesis block is a segment. *)
PartOf(p, from, to, q) ==
    /\ Segment(q)
    /\ from <= to => /\ Len(q) = to - from + 1 /\ q # <<>>
                     /\ \A i \in 1 .. Len(q) : q[i] = At(remote[p].tip, from + i - 1)
                     /\ Height[q[1]] = from /\ Height[q[Len(q)]] = to
    /\ from > to => q = <<>>

(* RemoteChain serves such a part. *)
LEMMA RemoteChainFacts ==
    ASSUME NEW p \in Peers, remote[p].tip \in Blocks,
           NEW from \in Nat \ {0}, NEW to \in Nat, to <= Height[remote[p].tip]
    PROVE  PartOf(p, from, to, RemoteChain(p, from, to))
<1> DEFINE q == RemoteChain(p, from, to)
           t == remote[p].tip
           n == to - from + 1
<1>1. q = [i \in 1 .. n |-> At(t, from + i - 1)]
  BY Zenon DEF RemoteChain
<1>2. Height[t] \in Nat
  BY TreeFacts, Zenon
<1>3. ASSUME NEW i \in 1 .. n
      PROVE  At(t, from + i - 1) \in Blocks \ {Genesis} /\ Height[At(t, from + i - 1)] = from + i - 1
  <2>1. from + i - 1 \in 0 .. Height[t] /\ from + i - 1 # 0
    BY <1>2
  <2> QED BY <2>1, AtFacts, TreeShape
<1>4. CASE from > to
  <2>1. 1 .. n = {}
    BY <1>4
  <2>2. q = <<>>
    BY <1>1, <2>1
  <2> QED BY <2>2, <1>4 DEF Segment, PartOf
<1>5. CASE from <= to
  <2>1. n \in Nat /\ n >= 1
    BY <1>5
  <2> HIDE DEF n
  <2>2. q \in Seq(Blocks \ {Genesis}) /\ Len(q) = n
    BY <1>1, <1>3, <2>1
  <2>3. \A i \in 1 .. n : q[i] = At(t, from + i - 1) /\ Height[q[i]] = from + i - 1
    BY <1>1, <1>3
  <2>4. from + 1 - 1 = from /\ from + n - 1 = to /\ 1 \in 1 .. n /\ n \in 1 .. n
    BY <2>1 DEF n
  <2>5. Height[q[1]] = from /\ Height[q[n]] = to
    BY <2>3, <2>4
  <2>6. q # <<>>
    BY <2>1, <2>2
  <2>7. Segment(q)
    BY <2>2, <2>3, <2>5 DEF Segment
  <2> QED BY <1>5, <2>2, <2>3, <2>4, <2>5, <2>6, <2>7 DEF n, PartOf
<1> QED BY <1>4, <1>5

(* The reply above a height starts just above it. *)
LEMMA ChainAboveFacts ==
    ASSUME NEW p \in Peers, remote[p].tip \in Blocks, NEW h \in Nat
    PROVE  LET q == ChainAbove(p, h)
           IN  /\ Segment(q)
               /\ q # <<>> => /\ h + 1 \in 0 .. Height[remote[p].tip]
                              /\ Head(q) = At(remote[p].tip, h + 1)
<1> DEFINE q == ChainAbove(p, h)
           top == Height[remote[p].tip]
           to == IF h + MaxBlocks < top THEN h + MaxBlocks ELSE top
<1>1. top \in Nat /\ MaxBlocks \in Nat \ {0}
  BY TreeFacts, SyncAssumption, Zenon
<1>2. CASE h >= top
  BY ONLY <1>2 DEF ChainAbove, Segment
<1>3. CASE ~(h >= top)
  <2>1. q = RemoteChain(p, h + 1, to)
    BY <1>3 DEF ChainAbove
  <2>2. to \in Nat /\ to <= top /\ h + 1 <= to /\ h + 1 \in Nat \ {0}
    BY <1>1, <1>3
  <2> HIDE DEF to
  <2> DEFINE from == h + 1
             r == RemoteChain(p, from, to)
  <2> HIDE DEF from
  <2>6. /\ Segment(r) /\ Len(r) = to - from + 1 /\ r # <<>>
        /\ \A i \in 1 .. Len(r) : r[i] = At(remote[p].tip, from + i - 1)
    <3>1. from \in Nat \ {0} /\ to \in Nat /\ to <= Height[remote[p].tip] /\ from <= to
      BY <2>2 DEF from
    <3>2. PartOf(p, from, to, r)
      BY <3>1, RemoteChainFacts, Zenon
    <3> QED BY <3>1, <3>2, Zenon DEF PartOf
  <2> HIDE DEF r
  <2>3. /\ Segment(q) /\ Len(q) = to - (h + 1) + 1 /\ q # <<>>
        /\ \A i \in 1 .. Len(q) : q[i] = At(remote[p].tip, (h + 1) + i - 1)
    BY <2>1, <2>6 DEF r, from
  <2>4. 1 \in 1 .. Len(q) /\ (h + 1) + 1 - 1 = h + 1
    BY <2>2, <2>3
  <2>5. Head(q) = q[1]
    BY <2>3 DEF Segment
  <2> QED BY <1>1, <1>3, <2>2, <2>3, <2>4, <2>5
<1> QED BY <1>2, <1>3

(* What is used of sequences. *)
LEMMA EmptySeq ==
    ASSUME NEW S, NEW q \in Seq(S)
    PROVE  /\ Len(<<>>) = 0 /\ Len(q) \in Nat
           /\ q # <<>> => Len(q) \in Nat \ {0}
OBVIOUS

(* Without its first element. *)
LEMMA TailSeq ==
    ASSUME NEW S, NEW q \in Seq(S), q # <<>>
    PROVE  /\ Tail(q) \in Seq(S) /\ Len(Tail(q)) = Len(q) - 1
           /\ \A i \in 1 .. Len(Tail(q)) : Tail(q)[i] = q[i + 1]
OBVIOUS

(* Two sequences as one. *)
LEMMA ConcatSeq ==
    ASSUME NEW S, NEW q \in Seq(S), NEW r \in Seq(S)
    PROVE  /\ q \o r \in Seq(S) /\ Len(q \o r) = Len(q) + Len(r)
           /\ \A i \in 1 .. Len(q) + Len(r) :
                (q \o r)[i] = IF i <= Len(q) THEN q[i] ELSE r[i - Len(q)]
           /\ q = <<>> => q \o r = r
           /\ r = <<>> => q \o r = q
<1>1. q = <<>> => q \o r = r
  OBVIOUS
<1>2. r = <<>> => q \o r = q
  OBVIOUS
<1> QED BY <1>1, <1>2

(* Parts of segments, and segments that follow on each other. *)
LEMMA SegmentTail ==
    ASSUME NEW q, Segment(q), q # <<>>
    PROVE  /\ Segment(Tail(q)) /\ Head(q) = q[1] /\ q[1] \in Blocks \ {Genesis}
           /\ q[Len(q)] \in Blocks \ {Genesis} /\ Len(q) \in Nat \ {0}
           /\ Height[q[Len(q)]] = Height[q[1]] + Len(q) - 1
           /\ Len(q) = 1 => Tail(q) = <<>>
           /\ Len(q) # 1 => Tail(q) # <<>>
<1>1. q \in Seq(Blocks \ {Genesis}) /\ Len(q) \in Nat \ {0}
  BY EmptySeq DEF Segment
<1>2. \A i \in 1 .. Len(q) : q[i] \in Blocks \ {Genesis} /\ Height[q[i]] = Height[q[1]] + i - 1
  BY <1>1 DEF Segment
<1>3. /\ Tail(q) \in Seq(Blocks \ {Genesis}) /\ Len(Tail(q)) = Len(q) - 1
      /\ \A i \in 1 .. Len(Tail(q)) : Tail(q)[i] = q[i + 1]
  BY <1>1, TailSeq
<1>4. Height[q[1]] \in Nat
  <2>1. 1 \in 1 .. Len(q)
    BY <1>1
  <2>2. q[1] \in Blocks
    BY <1>2, <2>1
  <2> QED BY <2>2, TreeFacts, Zenon
<1>5. ASSUME NEW i \in 1 .. Len(Tail(q)) PROVE Height[Tail(q)[i]] = Height[Tail(q)[1]] + i - 1
  <2>1. Tail(q)[i] = q[i + 1] /\ Tail(q)[1] = q[2] /\ i + 1 \in 1 .. Len(q) /\ 2 \in 1 .. Len(q)
    BY <1>1, <1>3
  <2>2. Height[q[i + 1]] = Height[q[1]] + (i + 1) - 1 /\ Height[q[2]] = Height[q[1]] + 2 - 1
    BY <1>2, <2>1
  <2> QED BY <2>1, <2>2, <1>4
<1>6. Segment(Tail(q))
  BY <1>3, <1>5 DEF Segment
<1>7. ASSUME Len(q) = 1 PROVE Tail(q) = <<>>
  <2>1. Len(Tail(q)) = 0
    BY <1>3, <1>7
  <2> QED BY <1>3, <2>1, EmptySeq, Zenon
<1>8. ASSUME Tail(q) = <<>> PROVE Len(q) = 1
  <2>1. Len(Tail(q)) = 0
    BY <1>3, <1>8, EmptySeq, Zenon
  <2>2. Len(Tail(q)) = Len(q) - 1 /\ Len(q) \in Nat
    BY <1>1, <1>3, Zenon
  <2> QED BY <2>1, <2>2
<1> QED BY <1>1, <1>2, <1>6, <1>7, <1>8

(* A segment goes on with one that starts just above it. *)
LEMMA SegmentConcat ==
    ASSUME NEW q, Segment(q), NEW r, Segment(r),
           q # <<>> /\ r # <<>> => Height[r[1]] = Height[q[Len(q)]] + 1
    PROVE  Segment(q \o r)
<1>1. q \in Seq(Blocks \ {Genesis}) /\ r \in Seq(Blocks \ {Genesis})
  BY Zenon DEF Segment
<1>2. Len(q) \in Nat /\ Len(r) \in Nat
  BY <1>1
<1>3. CASE q = <<>> \/ r = <<>>
  <2>1. (q = <<>> => q \o r = r) /\ (r = <<>> => q \o r = q)
    BY <1>1, ConcatSeq, ZenonT(40)
  <2> QED BY <1>3, <2>1, Zenon
<1>4. CASE q # <<>> /\ r # <<>>
  <2>1. Len(q) \in Nat \ {0} /\ Len(r) \in Nat \ {0}
    BY <1>1, <1>4, EmptySeq, Zenon
  <2>2. /\ q \o r \in Seq(Blocks \ {Genesis}) /\ Len(q \o r) = Len(q) + Len(r)
        /\ \A i \in 1 .. Len(q) + Len(r) :
             (q \o r)[i] = IF i <= Len(q) THEN q[i] ELSE r[i - Len(q)]
    BY <1>1, ConcatSeq, Zenon
  <2>3. Height[q[1]] \in Nat /\ Height[r[1]] = Height[q[1]] + Len(q)
    <3>1. q[1] \in Blocks /\ Height[q[Len(q)]] = Height[q[1]] + Len(q) - 1
      BY <1>4, SegmentTail, Zenon
    <3>2. Height[q[1]] \in Nat
      BY <3>1, TreeFacts, Zenon
    <3> QED BY <1>4, <2>1, <3>1, <3>2
  <2>4. ASSUME NEW i \in 1 .. Len(q \o r) PROVE Height[(q \o r)[i]] = Height[(q \o r)[1]] + i - 1
    <3>1. (q \o r)[1] = q[1]
      BY <2>1, <2>2
    <3>2. CASE i <= Len(q)
      <4>1. i \in 1 .. Len(q) /\ (q \o r)[i] = q[i]
        BY <2>1, <2>2, <3>2
      <4> QED BY <3>1, <4>1, Zenon DEF Segment
    <3>3. CASE ~(i <= Len(q))
      <4>1. i - Len(q) \in 1 .. Len(r) /\ (q \o r)[i] = r[i - Len(q)]
        BY <2>1, <2>2, <3>3
      <4>2. Height[r[i - Len(q)]] = Height[r[1]] + (i - Len(q)) - 1
        BY <4>1, Zenon DEF Segment
      <4>3. i \in Nat /\ Len(q) \in Nat /\ Height[q[1]] \in Nat
        BY <2>1, <2>2, <2>3
      <4> QED BY <3>1, <4>1, <4>2, <4>3, <2>3, SMTT(30)
    <3> QED BY <3>2, <3>3, Zenon
  <2> QED BY <2>2, <2>4, Zenon DEF Segment
<1> QED BY <1>3, <1>4, Zenon

(* The start of a segment. *)
LEMMA SegmentCut ==
    ASSUME NEW q, Segment(q), NEW n \in 1 .. Len(q)
    PROVE  Segment(SubSeq(q, 1, n)) /\ SubSeq(q, 1, n) # <<>>
<1>1. q \in Seq(Blocks \ {Genesis}) /\ Len(q) \in Nat /\ n \in Nat
  BY DEF Segment
<1>2. \A i \in 1 .. n : q[i] \in Blocks \ {Genesis} /\ Height[q[i]] = Height[q[1]] + i - 1
  BY <1>1 DEF Segment
<1>3. /\ SubSeq(q, 1, n) \in Seq(Blocks \ {Genesis})
      /\ Len(SubSeq(q, 1, n)) = n
      /\ \A i \in 1 .. n : SubSeq(q, 1, n)[i] = q[i]
  BY <1>1, <1>2
<1> QED BY <1>1, <1>2, <1>3 DEF Segment

-----------------------------------------------------------------------------
(* The inductive invariant.  The peers' records have their type, a node    *)
(* that converges knows enough peers ...                                   *)
EnoughKnown(rec) == Cardinality({p \in Peers : rec[p].known}) >= minDesiredPeerCount

(* ... and the loop's own state fits together: blocks are at hand where    *)
(* one is applied, and the next height to fetch lies below the recorded    *)
(* checkpoint and just above what has been fetched.                        *)
RangeOK(s, rec) ==
    /\ s.cursor >= 1 /\ s.cursor <= Height[rec[s.todo[1]].checkpoint]
    /\ s.batch # <<>> => s.cursor = Height[s.batch[Len(s.batch)]] + 1

LoopOK(s, rec, mode) ==
    /\ s \in SyncState
    /\ Genesis \notin s.drain
    /\ Segment(s.batch)
    /\ s.at # "pick" => s.todo # <<>> /\ s.phase \in {"sync", "converge"}
    /\ s.at \in {"apply", "switch", "sheet"} => s.batch # <<>>
    /\ s.at \in {"pick", "ask"} => s.batch = <<>>
    /\ s.at = "switch" => s.phase = "converge"
    /\ s.at \in {"range", "sheet"} => mode
    /\ s.at = "range" => RangeOK(s, rec)
    /\ s.phase = "converge" => EnoughKnown(rec)

SyncInv ==
    /\ SyncTypeOK
    /\ ViewOK(chain)
    /\ \A p \in Peers : remote[p].bodies = Ancestors[remote[p].tip]
    /\ Genesis \notin importing \cup orphans
    /\ LoopOK(sync, record, snapshotMode)

(* The records may change in what the loop does not hold on to. *)
SameRecords(rec, r) ==
    /\ r \in [Peers -> RemoteRecord]
    /\ \A p \in Peers : r[p].known = rec[p].known /\ r[p].checkpoint = rec[p].checkpoint

(* Records that know the same peers serve the loop as well. *)
LEMMA LoopKeepsRecords ==
    ASSUME NEW s, NEW rec, NEW r, NEW mode, LoopOK(s, rec, mode), SameRecords(rec, r)
    PROVE  LoopOK(s, r, mode)
<1>1. {p \in Peers : r[p].known} = {p \in Peers : rec[p].known}
  BY Zenon DEF SameRecords
<1>2. EnoughKnown(r) <=> EnoughKnown(rec)
  BY <1>1, Zenon DEF EnoughKnown
<1>3. ASSUME s.at = "range" PROVE RangeOK(s, r)
  <2>1. s.todo # <<>> /\ s.todo \in Seq(Peers) /\ RangeOK(s, rec)
    BY <1>3 DEF LoopOK, SyncState
  <2>2. s.todo[1] \in Peers
    BY <2>1
  <2> QED BY <2>1, <2>2 DEF RangeOK, SameRecords
<1> QED BY <1>2, <1>3 DEF LoopOK

(* The checkpoint below a block. *)
LEMMA CheckpointFacts ==
    ASSUME NEW b \in Blocks
    PROVE  GetLatestCheckpoint(b) \in Blocks /\ Height[b] \in Heights
<1>1. Height[b] \in Heights /\ Height[b] \in Nat /\ CheckRound \in Nat \ {0}
  BY TreeTypes, TreeFacts
<1>2. /\ (Height[b] \div CheckRound) * CheckRound \in Nat
      /\ (Height[b] \div CheckRound) * CheckRound <= Height[b]
  BY <1>1, RoundDown, Zenon
<1>3. (Height[b] \div CheckRound) * CheckRound \in 0 .. Height[b]
  BY <1>1, <1>2
<1> QED BY <1>1, <1>3, AtFacts DEF GetLatestCheckpoint, Round

(* Records keep their type. *)
LEMMA RecordKeeps ==
    ASSUME record \in [Peers -> RemoteRecord], NEW p \in Peers
    PROVE  /\ recordFailure(record[p]) \in RemoteRecord
           /\ recordFailure(record[p]).known = record[p].known
           /\ recordFailure(record[p]).checkpoint = record[p].checkpoint
           /\ recordSuccess(record[p]) \in RemoteRecord
           /\ recordSuccess(record[p]).known = record[p].known
           /\ recordSuccess(record[p]).checkpoint = record[p].checkpoint
<1> DEFINE r == record[p]
           n == IF r.failureNum > FailureLimit THEN r.failureNum ELSE r.failureNum + 1
<1>1. r \in RemoteRecord /\ FailureLimit \in Nat
  BY SyncAssumption, Zenon
<1>2. n \in 0 .. FailureLimit + 1 /\ (n > FailureLimit \/ r.cooling) \in BOOLEAN
  BY <1>1 DEF RemoteRecord
<1>3. recordFailure(r) = [r EXCEPT !.failureNum = n, !.cooling = n > FailureLimit \/ r.cooling]
  BY Zenon DEF recordFailure
<1> HIDE DEF n, r
<1>4. /\ recordFailure(r) \in RemoteRecord
      /\ recordFailure(r).known = r.known /\ recordFailure(r).checkpoint = r.checkpoint
  BY <1>1, <1>2, <1>3, Zenon DEF RemoteRecord
<1>5. /\ recordSuccess(r) \in RemoteRecord
      /\ recordSuccess(r).known = r.known /\ recordSuccess(r).checkpoint = r.checkpoint
  <2>1. recordSuccess(r) = [r EXCEPT !.failureNum = 0, !.cooling = FALSE]
    BY Zenon DEF recordSuccess
  <2>2. 0 \in 0 .. FailureLimit + 1 /\ FALSE \in BOOLEAN
    BY <1>1
  <2> QED BY <1>1, <2>1, <2>2, Zenon DEF RemoteRecord
<1> QED BY <1>4, <1>5 DEF r

(* One record changes, and its peer stays known. *)
LEMMA UpdateRecord ==
    ASSUME NEW rec, rec \in [Peers -> RemoteRecord], NEW p \in Peers, NEW r \in RemoteRecord,
           r.known = rec[p].known, r.checkpoint = rec[p].checkpoint
    PROVE  SameRecords(rec, [rec EXCEPT ![p] = r])
BY Zenon DEF SameRecords

(* An idle loop, and one that has only its phase, its queue of records or  *)
(* its parked blocks to work on.                                           *)
LEMMA RestingLoop ==
    ASSUME NEW s, NEW rec, NEW mode, s \in SyncState, s.at = "pick", s.batch = <<>>,
           Genesis \notin s.drain, s.phase = "converge" => EnoughKnown(rec)
    PROVE  LoopOK(s, rec, mode)
<1>1. Segment(<<>>)
  BY DEF Segment
<1> QED BY <1>1, Zenon DEF LoopOK

(* The loop at rest. *)
LEMMA IdleFacts ==
    /\ Idle \in SyncState /\ Idle.at = "pick" /\ Idle.batch = <<>> /\ Idle.drain = {}
    /\ Idle.phase = "idle" /\ Idle.todo = <<>>
<1>1. 0 \in 0 .. MaxHeight + 1
  BY TreeTypes
<1> QED BY <1>1 DEF Idle, SyncState

(* The record the loop works with. *)
LEMMA PeerFacts ==
    ASSUME SyncInv, sync.at # "pick"
    PROVE  /\ sync.todo \in Seq(Peers) /\ sync.todo # <<>> /\ sync.phase \in {"sync", "converge"}
           /\ Peer = sync.todo[1] /\ Peer \in Peers /\ Tail(sync.todo) \in Seq(Peers)
           /\ Rec \in RemoteRecord /\ Rec.checkpoint \in Blocks
           /\ Checkpoint0 = Height[record[sync.todo[1]].checkpoint] /\ Checkpoint0 \in Heights
           /\ remote[Peer].tip \in Blocks /\ remote[Peer].bodies = Ancestors[remote[Peer].tip]
<1>1. sync.todo # <<>> /\ sync.phase \in {"sync", "converge"} /\ sync.todo \in Seq(Peers)
  BY Zenon DEF SyncInv, LoopOK, SyncTypeOK, SyncState
<1>2. Peer = sync.todo[1] /\ Peer \in Peers /\ Tail(sync.todo) \in Seq(Peers)
  BY <1>1 DEF Peer
<1>3. Rec \in RemoteRecord /\ Rec.checkpoint \in Blocks
  BY <1>2, Zenon DEF Rec, SyncInv, SyncTypeOK, RemoteRecord
<1>4. Checkpoint0 = Height[record[sync.todo[1]].checkpoint] /\ Checkpoint0 \in Heights
  BY <1>2, <1>3, TreeTypes, Zenon DEF Checkpoint0, Rec
<1>5. remote[Peer].tip \in Blocks /\ remote[Peer].bodies = Ancestors[remote[Peer].tip]
  BY <1>2, Zenon DEF SyncInv, SyncTypeOK
<1> QED BY <1>1, <1>2, <1>3, <1>4, <1>5

(* Fail leaves a loop at rest, and what it holds on to of the records.     *)
LEMMA FailKeeps ==
    ASSUME SyncInv, sync.at # "pick", Fail
    PROVE  /\ SameRecords(record, record')
           /\ LoopOK(sync', record', snapshotMode)
           /\ sync'.at = "pick" /\ orphans' = orphans
<1>1. record \in [Peers -> RemoteRecord] /\ sync \in SyncState /\ Peer \in Peers
  BY PeerFacts, Zenon DEF SyncInv, SyncTypeOK
<1>2. SameRecords(record, record')
  <2>1. CASE sync.phase = "converge"
    <3>1. record' = [record EXCEPT ![Peer] = recordFailure(record[Peer])]
      BY <2>1, Zenon DEF Fail
    <3> QED BY <1>1, <3>1, RecordKeeps, UpdateRecord, Zenon
  <2>2. CASE sync.phase # "converge"
    BY <2>2, <1>1, Zenon DEF Fail, SameRecords
  <2> QED BY <2>1, <2>2
<1>3. sync' = [sync EXCEPT !.at = "pick", !.todo = Tail(@), !.batch = <<>>, !.cursor = 0, !.err = TRUE]
  BY Zenon DEF Fail
<1>4. 0 \in 0 .. MaxHeight + 1 /\ <<>> \in Seq(Blocks) /\ Tail(sync.todo) \in Seq(Peers)
  BY TreeTypes, PeerFacts
<1>5. sync' \in SyncState
  BY <1>1, <1>3, <1>4, Zenon DEF SyncState
<1>6. sync'.at = "pick" /\ sync'.batch = <<>> /\ sync'.drain = sync.drain /\ sync'.phase = sync.phase
  BY <1>1, <1>3, Zenon DEF SyncState
<1>7. Genesis \notin sync'.drain /\ (sync'.phase = "converge" => EnoughKnown(record))
  BY <1>6, Zenon DEF SyncInv, LoopOK
<1>8. LoopOK(sync', record, snapshotMode)
  BY <1>5, <1>6, <1>7, RestingLoop
<1> QED BY <1>2, <1>6, <1>8, LoopKeepsRecords DEF Fail

(* The end of a round, with the chain as it is by then. *)
LEMMA EndRoundKeeps ==
    ASSUME SyncInv, chain'.tip \in Blocks, NEW err \in BOOLEAN, EndRound(err), NEW rec
    PROVE  /\ LoopOK(sync', rec, snapshotMode) /\ sync'.at = "pick"
           /\ orphans' \subseteq orphans
<1>1. orphans \in SUBSET Blocks /\ Genesis \notin orphans
  BY Zenon DEF SyncInv, SyncTypeOK
<1>2. ASSUME NEW ph \in {"down", "idle"} PROVE LoopOK([Idle EXCEPT !.phase = ph], rec, snapshotMode)
                                              /\ [Idle EXCEPT !.phase = ph].at = "pick"
  <2> DEFINE s == [Idle EXCEPT !.phase = ph]
  <2>1. s \in SyncState /\ s.at = "pick" /\ s.batch = <<>> /\ s.drain = {} /\ s.phase # "converge"
    BY IdleFacts, Zenon DEF SyncState
  <2> HIDE DEF s
  <2>2. LoopOK(s, rec, snapshotMode)
    BY <2>1, RestingLoop, Zenon
  <2> QED BY <2>1, <2>2, Zenon DEF s
<1>3. CASE sync.boot
  <2>1. sync' = [Idle EXCEPT !.phase = IF err THEN "down" ELSE "idle"] /\ orphans' = orphans
    BY <1>3, Zenon DEF EndRound
  <2> QED BY <1>2, <2>1, Zenon
<1>4. CASE ~sync.boot
  <2> DEFINE c == Children(chain'.tip)
             s == [Idle EXCEPT !.phase = "drain", !.drain = c]
  <2>1. c \in SUBSET Blocks /\ Genesis \notin c
    BY <1>1, Zenon DEF Children
  <2>2. sync' = s /\ orphans' = orphans \ c
    BY <1>4, Zenon DEF EndRound, DrainFromTip
  <2> HIDE DEF c
  <2>3. s \in SyncState /\ s.at = "pick" /\ s.batch = <<>> /\ s.drain = c /\ s.phase = "drain"
    BY <2>1, IdleFacts, Zenon DEF SyncState
  <2> HIDE DEF s
  <2>4. LoopOK(s, rec, snapshotMode)
    BY <2>1, <2>3, RestingLoop, Zenon
  <2> QED BY <2>2, <2>3, <2>4, Zenon
<1> QED BY <1>3, <1>4, Zenon

(* Succeed leaves a loop at rest, too. *)
LEMMA SucceedKeeps ==
    ASSUME SyncInv, chain'.tip \in Blocks, sync.at # "pick", Succeed
    PROVE  /\ SameRecords(record, record')
           /\ LoopOK(sync', record', snapshotMode)
           /\ sync'.at = "pick" /\ orphans' \subseteq orphans
<1>1. /\ record \in [Peers -> RemoteRecord] /\ sync \in SyncState /\ Peer \in Peers
      /\ sync.phase \in {"sync", "converge"}
  BY PeerFacts, Zenon DEF SyncInv, SyncTypeOK
<1>2. SameRecords(record, record')
  <2>1. CASE sync.boot
    BY <2>1, <1>1, Zenon DEF Succeed, SameRecords
  <2>2. CASE ~sync.boot
    <3>1. record' = [record EXCEPT ![Peer] = recordSuccess(record[Peer])]
      BY <2>2, Zenon DEF Succeed
    <3> QED BY <1>1, <3>1, RecordKeeps, UpdateRecord, Zenon
  <2> QED BY <2>1, <2>2, Zenon
<1>3. CASE sync.phase = "sync" /\ ~sync.boot
  <2>1. sync' = Idle /\ orphans' = orphans
    BY <1>3, Zenon DEF Succeed
  <2>2. LoopOK(Idle, record', snapshotMode)
    BY IdleFacts, RestingLoop, Zenon
  <2> QED BY <1>2, <2>1, <2>2, IdleFacts
<1>4. CASE sync.phase = "sync" /\ sync.boot
  <2>1. /\ sync' = [sync EXCEPT !.at = "pick", !.todo = <<>>, !.batch = <<>>, !.cursor = 0, !.err = FALSE]
        /\ orphans' = orphans
    BY <1>4, Zenon DEF Succeed
  <2>2. 0 \in 0 .. MaxHeight + 1 /\ <<>> \in Seq(Blocks) /\ <<>> \in Seq(Peers)
    BY TreeTypes
  <2>3. sync' \in SyncState
    BY <1>1, <2>1, <2>2, Zenon DEF SyncState
  <2>4. sync'.at = "pick" /\ sync'.batch = <<>> /\ sync'.drain = sync.drain /\ sync'.phase = "sync"
    BY <1>1, <1>4, <2>1 DEF SyncState
  <2>5. Genesis \notin sync'.drain
    BY <2>4, Zenon DEF SyncInv, LoopOK
  <2>6. LoopOK(sync', record', snapshotMode)
    BY <2>3, <2>4, <2>5, RestingLoop
  <2> QED BY <1>2, <2>1, <2>4, <2>6
<1>5. CASE sync.phase = "converge"
  <2>1. EndRound(FALSE)
    BY <1>5, Zenon DEF Succeed
  <2> QED BY <1>2, <2>1, EndRoundKeeps, Zenon
<1> QED BY <1>1, <1>3, <1>4, <1>5

(* Where the loop goes on with the same record, only the place, the blocks *)
(* at hand and the next height change.                                     *)
CanMove(at, q, n) ==
    /\ at \in {"ask", "apply", "switch", "range", "sheet"} /\ Segment(q) /\ n \in 0 .. MaxHeight + 1
    /\ at \in {"apply", "switch", "sheet"} => q # <<>>
    /\ at = "ask" => q = <<>>
    /\ at = "switch" => sync.phase = "converge"
    /\ at \in {"range", "sheet"} => snapshotMode
    /\ at = "range" => /\ n >= 1 /\ n <= Checkpoint0
                       /\ q # <<>> => n = Height[q[Len(q)]] + 1

(* The loop goes on with one peer. *)
LEMMA LoopMoves ==
    ASSUME SyncInv, sync.at # "pick", NEW at, NEW q, NEW n, CanMove(at, q, n),
           sync' = [sync EXCEPT !.at = at, !.batch = q, !.cursor = n]
    PROVE  LoopOK(sync', record, snapshotMode)
<1>1. sync \in SyncState /\ LoopOK(sync, record, snapshotMode)
  BY Zenon DEF SyncInv, SyncTypeOK
<1>2. q \in Seq(Blocks)
  BY DEF Segment, CanMove
<1>3. sync' \in SyncState
  BY <1>1, <1>2, Zenon DEF SyncState, CanMove
<1>4. /\ sync'.at = at /\ sync'.batch = q /\ sync'.cursor = n
      /\ sync'.phase = sync.phase /\ sync'.todo = sync.todo /\ sync'.drain = sync.drain
  BY <1>1, Zenon DEF SyncState
<1>5. at = "range" => RangeOK(sync', record)
  BY <1>4, PeerFacts, Zenon DEF RangeOK, CanMove
<1>6. /\ Genesis \notin sync.drain /\ sync.todo # <<>> /\ sync.phase \in {"sync", "converge"}
      /\ sync.phase = "converge" => EnoughKnown(record)
  BY <1>1, Zenon DEF LoopOK
<1> QED BY <1>3, <1>4, <1>5, <1>6 DEF LoopOK, CanMove

(* What a step of the loop leaves, apart from the chain. *)
LoopStepOK ==
    /\ record' \in [Peers -> RemoteRecord]
    /\ LoopOK(sync', record', snapshotMode)
    /\ orphans' \subseteq orphans

(* A peer that failed is passed over. *)
LEMMA FailOK ==
    ASSUME SyncInv, sync.at # "pick", Fail PROVE LoopStepOK
BY FailKeeps, Zenon DEF LoopStepOK, SameRecords

(* A peer that was followed is done with. *)
LEMMA SucceedOK ==
    ASSUME SyncInv, chain'.tip \in Blocks, sync.at # "pick", Succeed PROVE LoopStepOK
BY SucceedKeeps, Zenon DEF LoopStepOK, SameRecords

(* The loop goes on, and nothing else changes. *)
LEMMA MovesOK ==
    ASSUME SyncInv, LoopOK(sync', record, snapshotMode), UNCHANGED <<record, orphans>>
    PROVE  LoopStepOK
BY Zenon DEF LoopStepOK, SyncInv, SyncTypeOK

(* doSync. *)
LEMMA SyncAskKeeps ==
    ASSUME SyncInv, SyncAsk PROVE LoopStepOK
<1>1. sync.at = "ask" /\ sync.phase = "sync" /\ chain' = chain /\ sync \in SyncState
  BY Zenon DEF SyncAsk, SyncInv, SyncTypeOK
<1>2. chain'.tip \in Blocks /\ LatestHeight \in Nat
  BY <1>1, TreeFacts, Zenon DEF SyncInv, ViewOK, LatestHeight
<1> DEFINE q == ChainAbove(Peer, LatestHeight)
<1>3. CASE Fail
  BY <1>1, <1>3, FailOK
<1>4. CASE Succeed
  BY <1>1, <1>2, <1>4, SucceedOK
<1>5. CASE q # <<>> /\ sync' = [sync EXCEPT !.at = "apply", !.batch = q] /\ UNCHANGED <<record, orphans>>
  <2>1. Segment(q)
    BY <1>1, <1>2, PeerFacts, ChainAboveFacts
  <2> HIDE DEF q
  <2>2. sync' = [sync EXCEPT !.at = "apply", !.batch = q, !.cursor = sync.cursor]
    BY <1>1, <1>5, Zenon DEF SyncState
  <2>3. sync.cursor \in 0 .. MaxHeight + 1
    BY <1>1, Zenon DEF SyncState
  <2>4. CanMove("apply", q, sync.cursor)
    BY <1>5, <2>1, <2>3 DEF CanMove
  <2>5. LoopOK(sync', record, snapshotMode)
    BY <1>1, <2>2, <2>4, LoopMoves, Zenon
  <2> QED BY <1>5, <2>5, MovesOK
<1> QED BY <1>3, <1>4, <1>5 DEF SyncAsk

(* A block of the batch is applied. *)
LEMMA SyncApplyKeeps ==
    ASSUME SyncInv, SyncApply
    PROVE  LoopStepOK /\ ViewOK(chain') /\ [Next]_chain
           /\ \E b : chain'.bodies \subseteq chain.bodies \cup {b}
<1>1. /\ sync.at = "apply" /\ sync.at # "pick" /\ sync \in SyncState /\ ViewOK(chain)
      /\ Segment(sync.batch) /\ sync.batch # <<>>
  BY Zenon DEF SyncApply, SyncInv, SyncTypeOK, LoopOK
<1>2. /\ Segment(Tail(sync.batch)) /\ Head(sync.batch) \in Blocks \ {Genesis}
      /\ Len(sync.batch) \in Nat \ {0} /\ (Len(sync.batch) = 1 => Tail(sync.batch) = <<>>)
  BY <1>1, SegmentTail
<1>3. CASE ApplyBlock(Head(sync.batch))
           /\ sync' = [sync EXCEPT !.batch = Tail(@),
                                   !.at = IF Len(sync.batch) = 1 THEN "ask" ELSE "apply"]
           /\ UNCHANGED <<record, orphans>>
  <2> DEFINE at == IF Len(sync.batch) = 1 THEN "ask" ELSE "apply"
             q == Tail(sync.batch)
  <2>1. CanApply(chain, Head(sync.batch)) /\ chain' = Applied(chain, Head(sync.batch))
    BY <1>3, Zenon DEF ApplyBlock
  <2>2. /\ ViewOK(chain') /\ chain'.bodies \subseteq chain.bodies \cup {Head(sync.batch)}
        /\ [Next]_chain
    BY <1>1, <1>2, <2>1, AppliedKeeps DEF Next
  <2>3. sync' = [sync EXCEPT !.at = at, !.batch = q, !.cursor = sync.cursor]
    BY <1>1, <1>3, Zenon DEF SyncState
  <2>4. Len(sync.batch) # 1 => q # <<>>
    BY <1>1, SegmentTail, Zenon
  <2>5. CanMove(at, q, sync.cursor)
    <3>1. sync.cursor \in 0 .. MaxHeight + 1
      BY <1>1, Zenon DEF SyncState
    <3> QED BY <1>2, <2>4, <3>1 DEF CanMove
  <2> HIDE DEF at, q
  <2>6. LoopOK(sync', record, snapshotMode)
    BY <1>1, <2>3, <2>5, LoopMoves, Zenon
  <2> QED BY <1>3, <2>2, <2>6, MovesOK
<1>4. CASE Refused(Head(sync.batch)) /\ Fail
  <2>1. chain' = chain /\ LoopStepOK
    BY <1>1, <1>4, FailOK DEF Refused
  <2> QED BY <1>1, <2>1, Zenon
<1> QED BY <1>3, <1>4, Zenon DEF SyncApply

(* getBlocksForConverging.  The shared hash lies on both chains, and the   *)
(* reply starts above it.                                                  *)
LEMMA ConvergeReplyFacts ==
    ASSUME NEW p \in Peers, remote[p].tip \in Blocks, remote[p].bodies = Ancestors[remote[p].tip],
           ViewOK(chain), NEW from \in Nat, NEW to \in Nat, to <= LatestHeight
    PROVE  LET q == ConvergeReply(p, from, to)
           IN  /\ Segment(q)
               /\ q # <<>> => Prev[Head(q)] \in chain.bodies \cap Ancestors[Latest]
<1> DEFINE q == ConvergeReply(p, from, to)
           t == remote[p].tip
           shared == SharedHeights(p, from, to)
           h == Highest(shared)
<1>1. chain.tip \in Blocks /\ Ancestors[chain.tip] \subseteq chain.bodies
      /\ LatestHeight = Height[chain.tip] /\ LatestHeight \in Nat
  BY TreeFacts, Zenon DEF ViewOK, LatestHeight
<1>2. CASE shared = {}
  BY <1>2 DEF ConvergeReply, Segment
<1>3. CASE shared # {}
  <2>1. h \in shared
    <3> DEFINE gaps == {to - g : g \in shared}
    <3>1. \A g \in shared : g \in Nat /\ g <= to
      BY DEF SharedHeights
    <3>2. gaps \in SUBSET Nat /\ gaps # {}
      BY <1>3, <3>1
    <3>3. PICK d \in gaps : \A e \in gaps : d <= e
      BY <3>2, LeastNumber, Zenon
    <3>4. PICK m \in shared : d = to - m
      BY <3>3, Zenon
    <3>5. ASSUME NEW g \in shared PROVE g <= m
      <4>1. d <= to - g
        BY <3>3, Zenon
      <4> QED BY <4>1, <3>1, <3>4
    <3> HIDE DEF gaps, shared
    <3>6. \E k \in shared : \A g \in shared : g <= k
      BY <3>5, Zenon
    <3> QED BY <3>6, Zenon DEF Highest
  <2>2. h \in Nat /\ h \in 0 .. LatestHeight /\ At(chain.tip, h) \in Ancestors[t]
    BY <2>1, <1>1 DEF SharedHeights
  <2>3. q = ChainAbove(p, h)
    BY <1>3, Zenon DEF ConvergeReply
  <2> HIDE DEF h, shared
  <2>4. Segment(q) /\ (q # <<>> => h + 1 \in 0 .. Height[t] /\ Head(q) = At(t, h + 1))
    BY <2>2, <2>3, ChainAboveFacts, Zenon
  <2>5. ASSUME q # <<>> PROVE Prev[Head(q)] \in chain.bodies \cap Ancestors[Latest]
    <3> DEFINE a == At(chain.tip, h)
               c == At(t, h + 1)
    <3>1. a \in Ancestors[chain.tip] /\ Height[a] = h
      BY <1>1, <2>2, AtFacts
    <3>2. c \in Ancestors[t] /\ Height[c] = h + 1 /\ Head(q) = c
      BY <2>4, <2>5, AtFacts
    <3> HIDE DEF a, c
    <3>3. c \in Blocks \ {Genesis}
      BY <2>2, <3>2, AncestorFacts, TreeShape
    <3>4. Prev[c] \in Blocks /\ Height[Prev[c]] = h
      <4>1. Prev[c] \in Blocks /\ Height[c] = Height[Prev[c]] + 1
        BY <3>3, TreeFacts, TreeShape
      <4>2. Height[Prev[c]] \in Nat
        BY <4>1, TreeFacts, Zenon
      <4> QED BY <2>2, <3>2, <4>1, <4>2
    <3>5. Prev[c] \in Ancestors[t]
      BY <3>2, <3>3, <3>4, ChainFacts
    <3>6. h \in 0 .. Height[t] /\ a \in Ancestors[t]
      <4>1. h + 1 \in 0 .. Height[t]
        BY <2>4, <2>5
      <4>2. Height[t] \in Nat
        BY TreeFacts, Zenon
      <4>3. h \in 0 .. Height[t]
        BY <2>2, <4>1, <4>2
      <4> QED BY <2>2, <4>3, Zenon DEF a
    <3>7. Prev[c] = a
      BY <3>1, <3>4, <3>5, <3>6, AtFacts
    <3> QED BY <1>1, <3>1, <3>2, <3>7, Zenon DEF Latest
  <2> QED BY <2>4, <2>5, Zenon
<1> QED BY <1>2, <1>3, Zenon

(* A converging reply arrives. *)
LEMMA ConvergeAskKeeps ==
    ASSUME SyncInv, ConvergeAsk
    PROVE  /\ LoopStepOK
           /\ sync'.at = "switch" => Prev[Head(sync'.batch)] \in chain.bodies \cap Ancestors[Latest]
<1> DEFINE to == sync.cursor
           from == IF to <= convergeBatchSize THEN 0 ELSE to - convergeBatchSize + 1
           q == ConvergeReply(Peer, from, to)
<1>1. /\ sync.at = "ask" /\ sync.phase = "converge" /\ sync \in SyncState /\ ViewOK(chain)
      /\ Segment(sync.batch) /\ sync.batch = <<>>
  BY Zenon DEF ConvergeAsk, SyncInv, SyncTypeOK, LoopOK
<1>2. to \in 0 .. MaxHeight + 1 /\ MaxHeight \in Nat /\ convergeBatchSize \in Nat \ {0}
  BY <1>1, SyncAssumption, TreeTypes DEF SyncState
<1>3. from \in Nat /\ to \in Nat /\ from <= to + 1
  BY <1>2
<1>4. LatestHeight \in Nat
  BY <1>1, TreeFacts, Zenon DEF ViewOK, LatestHeight
<1>5. CASE Fail
  <2>1. LoopStepOK /\ sync'.at = "pick"
    BY <1>1, <1>5, FailOK, FailKeeps
  <2> QED BY <2>1, Zenon
<1>6. CASE ~(to = 0 \/ LatestHeight < to) /\ q # <<>>
           /\ sync' = [sync EXCEPT !.at = "switch", !.batch = q] /\ UNCHANGED <<record, orphans>>
  <2>1. to <= LatestHeight
    BY <1>3, <1>4, <1>6
  <2> HIDE DEF from, to
  <2>2. Segment(q) /\ Prev[Head(q)] \in chain.bodies \cap Ancestors[Latest]
    BY <1>1, <1>3, <1>6, <2>1, PeerFacts, ConvergeReplyFacts
  <2> HIDE DEF q
  <2>3. /\ sync' = [sync EXCEPT !.at = "switch", !.batch = q, !.cursor = to]
        /\ sync'.batch = q
    BY <1>1, <1>6, Zenon DEF SyncState, to
  <2>4. CanMove("switch", q, to)
    BY <1>1, <1>2, <1>6, <2>2 DEF CanMove
  <2>5. LoopOK(sync', record, snapshotMode)
    BY <1>1, <2>3, <2>4, LoopMoves, Zenon
  <2> QED BY <1>6, <2>2, <2>3, <2>5, MovesOK
<1>7. CASE from # 0 /\ sync' = [sync EXCEPT !.cursor = NextCursor(from)] /\ UNCHANGED <<record, orphans>>
  <2>1. from - 1 \in 0 .. MaxHeight + 1 /\ NextCursor(from) = from - 1
    BY <1>2, <1>3, <1>7 DEF NextCursor
  <2> HIDE DEF from, to
  <2>2. sync' = [sync EXCEPT !.at = "ask", !.batch = <<>>, !.cursor = from - 1] /\ sync'.at = "ask"
    BY <1>1, <1>7, <2>1, Zenon DEF SyncState
  <2>3. CanMove("ask", <<>>, from - 1)
    BY <1>1, <2>1, Zenon DEF CanMove
  <2>4. LoopOK(sync', record, snapshotMode)
    BY <1>1, <2>2, <2>3, LoopMoves, Zenon
  <2> QED BY <1>7, <2>2, <2>4, MovesOK
<1> QED BY <1>5, <1>6, <1>7 DEF ConvergeAsk

(* doConverging. *)
LEMMA ConvergeSwitchKeeps ==
    ASSUME SyncInv, ConvergeSwitch
    PROVE  LoopStepOK /\ ViewOK(chain') /\ [Next]_chain /\ EnoughKnown(record)
<1>1. /\ sync.at = "switch" /\ sync.at # "pick" /\ sync \in SyncState /\ ViewOK(chain)
      /\ Segment(sync.batch) /\ sync.batch # <<>> /\ EnoughKnown(record)
  BY Zenon DEF ConvergeSwitch, SyncInv, SyncTypeOK, LoopOK
<1>2. Prev[First] \in Blocks /\ Final \in Blocks
  BY <1>1, SegmentTail, TreeFacts, Zenon DEF First, Final
<1>3. CASE CanSwitch(chain, Prev[First], Final) /\ chain' = Switched(chain, Prev[First], Final) /\ Succeed
  <2>1. Attaches(chain, Prev[First], Final)
    BY <1>3, Zenon DEF CanSwitch
  <2>2. ViewOK(chain') /\ [Next]_chain
    BY <1>1, <1>2, <1>3, <2>1, ExtendedKeeps DEF Next
  <2>3. chain'.tip \in Blocks
    BY <2>2, Zenon DEF ViewOK
  <2> QED BY <1>1, <1>3, <2>2, <2>3, SucceedOK
<1>4. CASE chain' = chain /\ Fail
  BY <1>1, <1>4, FailOK, Zenon
<1> QED BY <1>3, <1>4, Zenon DEF ConvergeSwitch

(* doSnapshotSync and doSnapshotConverging. *)
LEMMA SnapshotAskKeeps ==
    ASSUME SyncInv, SnapshotAsk PROVE LoopStepOK
<1>1. /\ sync.at = "ask" /\ sync.at # "pick" /\ sync.phase = "sync" /\ chain' = chain /\ snapshotMode
      /\ sync \in SyncState /\ sync.batch = <<>>
  BY Zenon DEF SnapshotAsk, SyncInv, SyncTypeOK, LoopOK
<1>2. chain'.tip \in Blocks /\ LatestHeight \in Nat
  BY <1>1, TreeFacts, Zenon DEF SyncInv, ViewOK, LatestHeight
<1>3. CASE Succeed
  BY <1>1, <1>2, <1>3, SucceedOK
<1>4. CASE ~(LatestHeight >= Checkpoint0)
           /\ sync' = [sync EXCEPT !.at = "range", !.cursor = LatestHeight + 1]
           /\ UNCHANGED <<record, orphans>>
  <2>1. Checkpoint0 \in 0 .. MaxHeight /\ MaxHeight \in Nat
    BY <1>1, PeerFacts, TreeTypes DEF Heights
  <2>2. LatestHeight + 1 \in 0 .. MaxHeight + 1 /\ LatestHeight + 1 >= 1 /\ LatestHeight + 1 <= Checkpoint0
    BY <1>2, <1>4, <2>1
  <2>3. sync' = [sync EXCEPT !.at = "range", !.batch = <<>>, !.cursor = LatestHeight + 1]
    BY <1>1, <1>4, Zenon DEF SyncState
  <2>4. CanMove("range", <<>>, LatestHeight + 1)
    <3>1. Segment(<<>>)
      BY DEF Segment
    <3> QED BY <1>1, <2>2, <3>1 DEF CanMove
  <2>5. LoopOK(sync', record, snapshotMode)
    BY <1>1, <2>3, <2>4, LoopMoves, Zenon
  <2> QED BY <1>4, <2>5, MovesOK
<1> QED BY <1>3, <1>4, Zenon DEF SnapshotAsk

(* The chain up to the checkpoint is cut out. *)
LEMMA SnapshotCutKeeps ==
    ASSUME SyncInv, SnapshotCut PROVE LoopStepOK
<1> DEFINE q == sync.batch
           n == Checkpoint0 - Height[First] + 1
<1>1. /\ sync.at = "switch" /\ sync.at # "pick" /\ sync.phase = "converge" /\ snapshotMode
      /\ sync \in SyncState /\ Segment(q) /\ q # <<>>
  BY Zenon DEF SnapshotCut, SyncInv, SyncTypeOK, LoopOK
<1>2. /\ First = q[1] /\ Final = q[Len(q)] /\ Len(q) \in Nat \ {0}
      /\ First \in Blocks /\ Final \in Blocks /\ Height[Final] = Height[First] + Len(q) - 1
  BY <1>1, SegmentTail, Zenon DEF First, Final
<1>3. /\ Height[First] \in Nat /\ Height[Final] \in Nat /\ MaxHeight \in Nat
      /\ Checkpoint0 \in 0 .. MaxHeight
  BY <1>1, <1>2, PeerFacts, TreeFacts, SMTT(30) DEF Heights
<1>4. CASE Fail
  BY <1>1, <1>4, FailOK
<1>5. CASE /\ ~(Height[First] > Checkpoint0) /\ Height[Final] >= Checkpoint0
           /\ sync' = [sync EXCEPT !.at = "sheet", !.batch = SubSeq(@, 1, n)]
           /\ UNCHANGED <<record, orphans>>
  <2>1. n \in 1 .. Len(q)
    <3>1. ~(Height[First] > Checkpoint0) /\ Height[Final] >= Checkpoint0
      BY <1>5, Zenon
    <3>2. Len(q) \in Nat \ {0} /\ Height[Final] = Height[First] + Len(q) - 1
      BY <1>2, Zenon
    <3> HIDE DEF q
    <3> QED BY <1>3, <3>1, <3>2
  <2> DEFINE r == SubSeq(q, 1, n)
  <2>2. Segment(r) /\ r # <<>>
    BY <1>1, <2>1, SegmentCut
  <2>3. sync' = [sync EXCEPT !.at = "sheet", !.batch = r, !.cursor = sync.cursor]
    BY <1>1, <1>5, Zenon DEF SyncState
  <2> HIDE DEF r
  <2>4. sync.cursor \in 0 .. MaxHeight + 1
    BY <1>1, Zenon DEF SyncState
  <2>5. CanMove("sheet", r, sync.cursor)
    BY <1>1, <2>2, <2>4 DEF CanMove
  <2>6. LoopOK(sync', record, snapshotMode)
    BY <1>1, <2>3, <2>5, LoopMoves, Zenon
  <2> QED BY <1>5, <2>6, MovesOK
<1>6. CASE /\ ~(Height[Final] >= Checkpoint0)
           /\ sync' = [sync EXCEPT !.at = "range", !.cursor = Height[Final] + 1]
           /\ UNCHANGED <<record, orphans>>
  <2> DEFINE m == Height[Final] + 1
  <2>1. m \in 0 .. MaxHeight + 1 /\ m >= 1 /\ m <= Checkpoint0 /\ m = Height[q[Len(q)]] + 1
    <3>1. ~(Height[Final] >= Checkpoint0) /\ Final = q[Len(q)]
      BY <1>2, <1>6, Zenon
    <3> HIDE DEF q
    <3> QED BY <1>3, <3>1
  <2>2. sync' = [sync EXCEPT !.at = "range", !.batch = q, !.cursor = m]
    BY <1>1, <1>6, Zenon DEF SyncState
  <2> HIDE DEF m
  <2>3. CanMove("range", q, m)
    BY <1>1, <2>1, Zenon DEF CanMove
  <2>4. LoopOK(sync', record, snapshotMode)
    BY <1>1, <2>2, <2>3, LoopMoves, Zenon
  <2> QED BY <1>6, <2>4, MovesOK
<1> QED BY <1>4, <1>5, <1>6 DEF SnapshotCut

(* fetchRemoteRange. *)
LEMMA FetchRangeKeeps ==
    ASSUME SyncInv, FetchRange PROVE LoopStepOK
<1> DEFINE q == sync.batch
           from == sync.cursor
           to == IF from + MaxBlocks - 1 < Checkpoint0 THEN from + MaxBlocks - 1 ELSE Checkpoint0
           r == RemoteChain(Peer, from, to)
           at == IF to = Checkpoint0 THEN "sheet" ELSE "range"
<1>1. /\ sync.at = "range" /\ sync.at # "pick" /\ snapshotMode /\ sync \in SyncState
      /\ Segment(q) /\ RangeOK(sync, record)
  BY Zenon DEF FetchRange, SyncInv, SyncTypeOK, LoopOK
<1>2. /\ Checkpoint0 \in 0 .. MaxHeight /\ MaxHeight \in Nat /\ MaxBlocks \in Nat \ {0}
      /\ from \in 0 .. MaxHeight + 1 /\ Peer \in Peers /\ remote[Peer].tip \in Blocks
  BY <1>1, PeerFacts, TreeTypes, SyncAssumption, Zenon DEF Heights, SyncState
<1>3. from >= 1 /\ from <= Checkpoint0 /\ (q # <<>> => from = Height[q[Len(q)]] + 1)
  BY <1>1, PeerFacts, Zenon DEF RangeOK
<1>4. /\ from \in Nat \ {0} /\ to \in Nat /\ from <= to /\ to <= Checkpoint0
      /\ to + 1 \in 0 .. MaxHeight + 1
  BY <1>2, <1>3
<1>5. CASE Fail
  BY <1>1, <1>5, FailOK
<1>6. CASE /\ ServesRange(Peer, to)
           /\ sync' = [sync EXCEPT !.batch = @ \o r, !.cursor = to + 1, !.at = at]
           /\ UNCHANGED <<record, orphans>>
  <2>1. to <= Height[remote[Peer].tip]
    BY <1>6, Zenon DEF ServesRange
  <2> HIDE DEF from, to
  <2>2. Segment(r) /\ r # <<>> /\ Height[r[1]] = from /\ Height[r[Len(r)]] = to
    <3>1. Peer \in Peers /\ remote[Peer].tip \in Blocks
      BY <1>2, Zenon
    <3>2. from \in Nat \ {0} /\ to \in Nat /\ from <= to
      BY <1>4, Zenon
    <3>3. PartOf(Peer, from, to, r)
      BY <2>1, <3>1, <3>2, RemoteChainFacts, Zenon
    <3> QED BY <3>2, <3>3, Zenon DEF PartOf
  <2> HIDE DEF r
  <2>3. Segment(q \o r)
    BY <1>1, <1>3, <2>2, SegmentConcat
  <2>4. q \o r # <<>> /\ Height[(q \o r)[Len(q \o r)]] = to
    <3>1. q \in Seq(Blocks) /\ r \in Seq(Blocks)
      BY <1>1, <2>2 DEF Segment
    <3>2. Len(q) \in Nat /\ Len(r) \in Nat \ {0}
      BY <3>1, <2>2, EmptySeq
    <3>3. Len(q \o r) = Len(q) + Len(r) /\ (q \o r)[Len(q) + Len(r)] = r[Len(r)]
      <4>1. Len(q) + Len(r) \in 1 .. Len(q) + Len(r) /\ ~(Len(q) + Len(r) <= Len(q))
            /\ (Len(q) + Len(r)) - Len(q) = Len(r)
        BY <3>2
      <4> QED BY <3>1, <4>1, ConcatSeq
    <3>4. q \o r # <<>>
      <4>1. Len(q \o r) # 0
        BY <3>2, <3>3
      <4> QED BY <3>1, <4>1, EmptySeq, Zenon
    <3> QED BY <2>2, <3>3, <3>4
  <2>5. sync' = [sync EXCEPT !.at = at, !.batch = q \o r, !.cursor = to + 1]
    BY <1>1, <1>6, Zenon DEF SyncState
  <2>6. CanMove(at, q \o r, to + 1)
    <3>1. at = "sheet" \/ (at = "range" /\ to # Checkpoint0)
      BY Zenon
    <3>2. at = "range" => to + 1 >= 1 /\ to + 1 <= Checkpoint0
      BY <1>2, <1>4, <3>1
    <3> HIDE DEF at
    <3> QED BY <1>1, <1>4, <2>3, <2>4, <3>1, <3>2 DEF CanMove
  <2> HIDE DEF at
  <2>7. LoopOK(sync', record, snapshotMode)
    BY <1>1, <2>5, <2>6, LoopMoves, Zenon
  <2> QED BY <1>6, <2>7, MovesOK
<1> QED BY <1>5, <1>6, Zenon DEF FetchRange

(* The sheet, and ApplySnapshot. *)
LEMMA SnapshotSheetKeeps ==
    ASSUME SyncInv, SnapshotSheet
    PROVE  LoopStepOK /\ ViewOK(chain') /\ [NextSnapshot]_chain /\ snapshotMode
<1>1. /\ sync.at = "sheet" /\ sync.at # "pick" /\ sync \in SyncState /\ ViewOK(chain)
      /\ Segment(sync.batch) /\ sync.batch # <<>> /\ snapshotMode
  BY Zenon DEF SnapshotSheet, SyncInv, SyncTypeOK, LoopOK
<1>2. Prev[First] \in Blocks /\ Final \in Blocks
  BY <1>1, SegmentTail, TreeFacts, Zenon DEF First, Final
<1>3. CASE Attaches(chain, Prev[First], Final) /\ chain' = Extended(chain, Prev[First], Final) /\ Succeed
  <2>1. ViewOK(chain') /\ [NextSnapshot]_chain
    BY <1>1, <1>2, <1>3, ExtendedKeeps DEF NextSnapshot
  <2>2. chain'.tip \in Blocks
    BY <2>1 DEF ViewOK
  <2> QED BY <1>1, <1>3, <2>1, <2>2, SucceedOK, Zenon
<1>4. CASE chain' = chain /\ Fail
  BY <1>1, <1>4, FailOK
<1> QED BY <1>3, <1>4 DEF SnapshotSheet

(* importOrphanChildren at the end of a round. *)
LEMMA DrainKeeps ==
    ASSUME SyncInv, Drain
    PROVE  LoopStepOK /\ ViewOK(chain') /\ [Next]_chain
           /\ \E b : chain'.bodies \subseteq chain.bodies \cup {b}
<1>1. /\ sync.phase = "drain" /\ sync \in SyncState /\ LoopOK(sync, record, snapshotMode) /\ ViewOK(chain)
      /\ record' = record /\ record \in [Peers -> RemoteRecord]
      /\ orphans \in SUBSET Blocks /\ Genesis \notin orphans
  BY Zenon DEF Drain, SyncInv, SyncTypeOK
<1>2. sync.at = "pick" /\ sync.batch = <<>> /\ Genesis \notin sync.drain /\ sync.drain \in SUBSET Blocks
  BY <1>1, Zenon DEF LoopOK, SyncState
<1>3. ASSUME NEW d \in SUBSET Blocks, Genesis \notin d, sync' = [sync EXCEPT !.drain = d],
             orphans' \subseteq orphans
      PROVE  LoopStepOK
  <2>1. sync' \in SyncState
    BY <1>1, <1>3 DEF SyncState
  <2>2. sync'.at = "pick" /\ sync'.batch = <<>> /\ sync'.drain = d /\ sync'.phase = "drain"
    BY <1>1, <1>2, <1>3 DEF SyncState
  <2>3. LoopOK(sync', record, snapshotMode)
    BY <1>3, <2>1, <2>2, RestingLoop, Zenon
  <2> QED BY <1>1, <1>3, <2>3 DEF LoopStepOK
<1>4. CASE sync.drain = {} /\ sync' = Idle /\ UNCHANGED <<chain, orphans>>
  <2>1. LoopOK(Idle, record, snapshotMode)
    BY IdleFacts, RestingLoop
  <2> QED BY <1>1, <1>4, <2>1 DEF LoopStepOK
<1>5. ASSUME NEW b \in sync.drain, ApplyBlock(b),
             sync' = [sync EXCEPT !.drain = (@ \ {b}) \cup Children(b)],
             orphans' = orphans \ Children(b)
      PROVE  LoopStepOK /\ ViewOK(chain') /\ [Next]_chain /\ chain'.bodies \subseteq chain.bodies \cup {b}
  <2> DEFINE d == (sync.drain \ {b}) \cup Children(b)
  <2>1. d \in SUBSET Blocks /\ Genesis \notin d /\ b \in Blocks \ {Genesis}
    BY <1>1, <1>2, Zenon DEF Children
  <2>2. sync' = [sync EXCEPT !.drain = d] /\ orphans' \subseteq orphans
    BY <1>5, Zenon
  <2>3. LoopStepOK
    BY <1>3, <2>1, <2>2
  <2>4. CanApply(chain, b) /\ chain' = Applied(chain, b)
    BY <1>5, Zenon DEF ApplyBlock
  <2> QED BY <1>1, <2>1, <2>3, <2>4, AppliedKeeps DEF Next
<1>6. ASSUME NEW b \in sync.drain, Refused(b), sync' = [sync EXCEPT !.drain = @ \ {b}], UNCHANGED orphans
      PROVE  LoopStepOK /\ chain' = chain
  <2> DEFINE d == sync.drain \ {b}
  <2>1. d \in SUBSET Blocks /\ Genesis \notin d /\ sync' = [sync EXCEPT !.drain = d]
        /\ orphans' \subseteq orphans /\ chain' = chain
    BY <1>2, <1>6, Zenon DEF Refused
  <2> QED BY <1>3, <2>1, Zenon
<1> QED BY <1>1, <1>4, <1>5, <1>6 DEF Drain

-----------------------------------------------------------------------------
(* The gossip importer. *)
LEMMA AddKeeps ==
    ASSUME orphans \in SUBSET Blocks, Genesis \notin orphans, NEW b \in Blocks \ {Genesis}, Add(b)
    PROVE  orphans' \in SUBSET Blocks /\ Genesis \notin orphans'
BY Zenon DEF Add

(* A gossiped block is imported. *)
LEMMA ImportKeeps ==
    ASSUME SyncInv, ImportStep
    PROVE  /\ ViewOK(chain') /\ [Next]_chain
           /\ importing' \cup orphans' \in SUBSET Blocks /\ Genesis \notin importing' \cup orphans'
           /\ \E b : chain'.bodies \subseteq chain.bodies \cup {b}
<1>1. /\ importing \in SUBSET Blocks /\ orphans \in SUBSET Blocks /\ ViewOK(chain)
      /\ Genesis \notin importing \cup orphans
  BY Zenon DEF SyncInv, SyncTypeOK
<1>2. PICK b \in importing : ImportApplies(b) \/ ImportFails(b)
  BY Zenon DEF ImportStep
<1>3. b \in Blocks \ {Genesis}
  BY <1>1, Zenon
<1>4. CASE ImportApplies(b)
  <2>1. CanApply(chain, b) /\ chain' = Applied(chain, b)
    BY <1>4, Zenon DEF ImportApplies, ApplyBlock
  <2>2. ViewOK(chain') /\ [Next]_chain /\ chain'.bodies \subseteq chain.bodies \cup {b}
    BY <1>1, <1>3, <2>1, AppliedKeeps, Zenon DEF Next
  <2>3. Children(b) \subseteq orphans
    BY Zenon DEF Children
  <2>4. importing' = (importing \ {b}) \cup Children(b) /\ orphans' = orphans \ Children(b)
    BY <1>4, Zenon DEF ImportApplies
  <2> QED BY <1>1, <2>2, <2>3, <2>4, Zenon
<1>5. CASE ImportFails(b)
  <2>1. chain' = chain /\ importing' = importing \ {b} /\ (Add(b) \/ orphans' = orphans)
    BY <1>5, Zenon DEF ImportFails, Refused
  <2>2. orphans' \in SUBSET Blocks /\ Genesis \notin orphans'
    BY <1>1, <1>3, <2>1, AddKeeps
  <2> QED BY <1>1, <2>1, <2>2
<1> QED BY <1>2, <1>4, <1>5, Zenon

(* One step of the specification. *)
LEMMA SyncInvHolds ==
    ASSUME SyncInv, LoopStepOK, ViewOK(chain'), faults' \in 0 .. MaxFaults,
           UNCHANGED <<snapshotMode, remote, importing>>
    PROVE  SyncInv'
<1>1. orphans' \in SUBSET Blocks /\ Genesis \notin orphans'
  BY Zenon DEF SyncInv, SyncTypeOK, LoopStepOK
<1> QED BY <1>1, Zenon DEF SyncInv, SyncTypeOK, LoopStepOK, LoopOK

INSTANCE FiniteSetTheorems

(* The records to work through are a sequence of peers. *)
LEMMA SortedFacts ==
    ASSUME NEW rec, NEW S \in SUBSET Peers, NEW q \in Sorted(rec, S)
    PROVE  q \in Seq(Peers)
<1>1. Cardinality(S) \in Nat
  BY SyncAssumption, FS_Subset, FS_CardinalityType
<1>2. q \in [1 .. Cardinality(S) -> S]
  BY Zenon DEF Sorted
<1> HIDE DEF Sorted
<1> QED BY <1>1, <1>2

(* The loop wakes and asks its peers for their status. *)
LEMMA TickKeeps ==
    ASSUME SyncInv, Tick PROVE LoopStepOK /\ faults' \in 0 .. MaxFaults
<1>1. /\ record \in [Peers -> RemoteRecord] /\ faults \in 0 .. MaxFaults /\ MaxFaults \in Nat
      /\ sync \in SyncState /\ orphans' = orphans
  BY SyncAssumption, Zenon DEF Tick, SyncInv, SyncTypeOK
<1>2. PICK silent \in SUBSET Peers :
         LET rec == [p \in Peers |-> IF p \in silent THEN record[p] ELSE upsertRemote(p)]
         IN  /\ Cardinality(silent) <= MaxFaults - faults
             /\ faults' = faults + Cardinality(silent)
             /\ record' = rec
             /\ IF MustSync(rec) = {} /\ ~sync.boot
                THEN sync' = Idle
                ELSE \E q \in Sorted(rec, MustSync(rec)) :
                       sync' = [Idle EXCEPT !.boot = sync.boot, !.phase = "sync", !.todo = q]
  BY Zenon DEF Tick
<1> DEFINE rec == [p \in Peers |-> IF p \in silent THEN record[p] ELSE upsertRemote(p)]
<1>3. Cardinality(silent) \in Nat
  BY SyncAssumption, FS_Subset, FS_CardinalityType
<1>4. faults' \in 0 .. MaxFaults
  <2>1. Cardinality(silent) <= MaxFaults - faults /\ faults' = faults + Cardinality(silent)
    BY <1>2, Zenon
  <2> QED BY <1>1, <1>3, <2>1
<1>5. rec \in [Peers -> RemoteRecord]
  <2>1. ASSUME NEW p \in Peers PROVE upsertRemote(p) \in RemoteRecord
    <3>1. remote[p].tip \in Blocks
      BY Zenon DEF SyncInv, SyncTypeOK
    <3>2. GetLatestCheckpoint(remote[p].tip) \in Blocks /\ Height[remote[p].tip] \in Heights
      BY <3>1, CheckpointFacts
    <3> QED BY <1>1, <3>2, Zenon DEF upsertRemote, RemoteRecord
  <2> QED BY <1>1, <2>1, Zenon
<1>6. record' = rec
  BY <1>2, Zenon
<1> HIDE DEF rec
<1>7. CASE sync' = Idle
  <2>1. LoopOK(Idle, rec, snapshotMode)
    BY IdleFacts, RestingLoop, Zenon
  <2> QED BY <1>1, <1>4, <1>5, <1>6, <1>7, <2>1 DEF LoopStepOK
<1>8. ASSUME NEW q \in Sorted(rec, MustSync(rec)),
             sync' = [Idle EXCEPT !.boot = sync.boot, !.phase = "sync", !.todo = q]
      PROVE  LoopStepOK
  <2>1. q \in Seq(Peers)
    BY SortedFacts, Zenon DEF MustSync
  <2>2. sync' \in SyncState
    BY <1>1, <1>8, <2>1, IdleFacts, Zenon DEF SyncState
  <2>3. sync'.at = "pick" /\ sync'.batch = <<>> /\ sync'.drain = {} /\ sync'.phase = "sync"
    BY <1>8, IdleFacts DEF SyncState
  <2>4. LoopOK(sync', rec, snapshotMode)
    BY <2>2, <2>3, RestingLoop
  <2> QED BY <1>1, <1>5, <1>6, <2>4 DEF LoopStepOK
<1> QED BY <1>2, <1>4, <1>7, <1>8, Zenon DEF rec

(* The loop takes up the next record, or the next phase. *)
LEMMA PickKeeps ==
    ASSUME SyncInv, Pick PROVE LoopStepOK
<1>1. /\ sync.phase \in {"sync", "converge"} /\ sync.at = "pick" /\ sync \in SyncState
      /\ LoopOK(sync, record, snapshotMode) /\ chain' = chain /\ chain.tip \in Blocks
      /\ record' = record /\ record \in [Peers -> RemoteRecord]
  BY Zenon DEF Pick, SyncInv, SyncTypeOK, ViewOK
<1>2. sync.batch = <<>> /\ Genesis \notin sync.drain /\ (sync.phase = "converge" => EnoughKnown(record))
  BY <1>1, Zenon DEF LoopOK
<1>3. CASE sync.todo # <<>> /\ sync' = [sync EXCEPT !.at = "ask", !.cursor = LatestHeight] /\ orphans' = orphans
  <2>1. LatestHeight \in 0 .. MaxHeight + 1
    <3>1. LatestHeight \in Heights /\ MaxHeight \in Nat
      BY <1>1, TreeFacts, Zenon DEF LatestHeight
    <3> QED BY <3>1 DEF Heights
  <2>2. sync' \in SyncState
    BY <1>1, <1>3, <2>1, Zenon DEF SyncState
  <2>3. /\ sync'.at = "ask" /\ sync'.batch = <<>> /\ sync'.drain = sync.drain
        /\ sync'.phase = sync.phase /\ sync'.todo = sync.todo
    BY <1>1, <1>2, <1>3 DEF SyncState
  <2>4. Segment(<<>>)
    BY DEF Segment
  <2>5. LoopOK(sync', record, snapshotMode)
    BY <1>1, <1>2, <1>3, <2>2, <2>3, <2>4 DEF LoopOK
  <2> QED BY <1>1, <1>3, <2>5 DEF LoopStepOK
<1>4. ASSUME MustConverge # {}, NEW q \in Sorted(record, MustConverge),
             sync' = [sync EXCEPT !.phase = "converge", !.todo = q], orphans' = orphans
      PROVE  LoopStepOK
  <2>1. EnoughKnown(record)
    <3>1. ~(Cardinality(Known) < minDesiredPeerCount)
      BY <1>4, Zenon DEF MustConverge
    <3>2. Cardinality(Known) \in Nat
      BY SyncAssumption, FS_Subset, FS_CardinalityType, Zenon DEF Known
    <3> QED BY <3>1, <3>2, SyncAssumption DEF EnoughKnown, Known
  <2>2. q \in Seq(Peers)
    BY <1>4, SortedFacts, Zenon DEF MustConverge
  <2>3. sync' \in SyncState
    BY <1>1, <1>4, <2>2, Zenon DEF SyncState
  <2>4. sync'.at = "pick" /\ sync'.batch = <<>> /\ sync'.drain = sync.drain
    BY <1>1, <1>2, <1>4 DEF SyncState
  <2>5. LoopOK(sync', record, snapshotMode)
    BY <1>2, <2>1, <2>3, <2>4, RestingLoop
  <2> QED BY <1>1, <1>4, <2>5 DEF LoopStepOK
<1>5. CASE EndRound(sync.err)
  <2>1. sync.err \in BOOLEAN
    BY <1>1 DEF SyncState
  <2> QED BY <1>1, <1>5, <2>1, EndRoundKeeps DEF LoopStepOK
<1> QED BY <1>3, <1>4, <1>5, Zenon DEF Pick

(* A step of the sync loop keeps the invariant and is a step of the chain. *)
LEMMA LoopStep ==
    ASSUME SyncInv, SyncStep PROVE SyncInv' /\ [NextSnapshot]_chain
<1>1. ViewOK(chain) /\ faults \in 0 .. MaxFaults /\ MaxFaults \in Nat
  BY SyncAssumption, Zenon DEF SyncInv, SyncTypeOK
<1>2. CASE Tick
  <2>1. LoopStepOK /\ faults' \in 0 .. MaxFaults
    BY <1>2, TickKeeps, Zenon
  <2> QED BY <1>1, <1>2, <2>1, SyncInvHolds, Zenon DEF Tick
<1>3. CASE Pick
  BY <1>1, <1>3, PickKeeps, SyncInvHolds, Zenon DEF Pick
<1>4. CASE SyncAsk
  BY <1>1, <1>4, SyncAskKeeps, SyncInvHolds DEF SyncAsk
<1>5. CASE SyncApply
  <2>1. LoopStepOK /\ ViewOK(chain') /\ [NextSnapshot]_chain
    BY <1>5, SyncApplyKeeps DEF NextSnapshot
  <2> QED BY <1>1, <1>5, <2>1, SyncInvHolds DEF SyncApply
<1>6. CASE ConvergeAsk
  <2>1. LoopStepOK /\ UNCHANGED <<chain, snapshotMode, remote, importing, faults>>
    BY <1>6, ConvergeAskKeeps DEF ConvergeAsk
  <2> QED BY <1>1, <2>1, SyncInvHolds
<1>7. CASE ConvergeSwitch
  <2>1. LoopStepOK /\ ViewOK(chain') /\ [NextSnapshot]_chain
    BY <1>7, ConvergeSwitchKeeps, Zenon DEF NextSnapshot
  <2> QED BY <1>1, <1>7, <2>1, SyncInvHolds DEF ConvergeSwitch
<1>8. CASE SnapshotAsk
  BY <1>1, <1>8, SnapshotAskKeeps, SyncInvHolds DEF SnapshotAsk
<1>9. CASE SnapshotCut
  BY <1>1, <1>9, SnapshotCutKeeps, SyncInvHolds DEF SnapshotCut
<1>10. CASE FetchRange
  <2>1. LoopStepOK /\ UNCHANGED <<chain, snapshotMode, remote, importing, faults>>
    BY <1>10, FetchRangeKeeps, Zenon DEF FetchRange
  <2> QED BY <1>1, <2>1, SyncInvHolds
<1>11. CASE SnapshotSheet
  BY <1>1, <1>11, SnapshotSheetKeeps, SyncInvHolds DEF SnapshotSheet
<1>12. CASE Drain
  <2>1. LoopStepOK /\ ViewOK(chain') /\ [NextSnapshot]_chain
    BY <1>12, DrainKeeps DEF NextSnapshot
  <2> QED BY <1>1, <1>12, <2>1, SyncInvHolds DEF Drain
<1>13. CASE Unanswered
  <2>1. /\ Fail /\ UNCHANGED <<chain, snapshotMode, remote, importing>>
        /\ faults < MaxFaults /\ faults' = faults + 1
    BY <1>13, Zenon DEF Unanswered
  <2>2. sync.at # "pick"
    BY <1>13, Zenon DEF Unanswered, Asking
  <2>3. LoopStepOK /\ faults' \in 0 .. MaxFaults
    BY <1>1, <2>1, <2>2, FailOK
  <2> QED BY <1>1, <2>1, <2>3, SyncInvHolds
<1> QED BY <1>2, <1>3, <1>4, <1>5, <1>6, <1>7, <1>8, <1>9, <1>10, <1>11, <1>12, <1>13 DEF SyncStep

(* Every step keeps the invariant. *)
LEMMA SyncNextKeeps ==
    ASSUME SyncInv, [SyncNext]_allVars PROVE SyncInv' /\ [NextSnapshot]_chain
<1> USE DEF SyncInv, SyncTypeOK
<1>1. ASSUME NEW b \in Gossiped, ImportBlock(b) PROVE SyncInv' /\ chain' = chain
  <2>1. b \in Blocks \ {Genesis}
    BY SyncAssumption, Zenon
  <2>2. importing' \cup orphans' \in SUBSET Blocks /\ Genesis \notin importing' \cup orphans'
    BY <1>1, <2>1, AddKeeps, Zenon DEF ImportBlock
  <2>3. UNCHANGED <<chain, snapshotMode, remote, record, sync, faults>>
    BY <1>1, Zenon DEF ImportBlock
  <2> QED BY <2>2, <2>3, Zenon
<1>2. CASE ImportStep
  <2>1. UNCHANGED <<snapshotMode, remote, record, sync, faults>>
    BY <1>2, Zenon DEF ImportStep
  <2>2. /\ ViewOK(chain') /\ [Next]_chain
        /\ importing' \cup orphans' \in SUBSET Blocks /\ Genesis \notin importing' \cup orphans'
    BY <1>2, ImportKeeps, Zenon
  <2> QED BY <2>1, <2>2, Zenon DEF NextSnapshot
<1>3. CASE SyncStep
  BY <1>3, LoopStep, Zenon
<1>4. ASSUME NEW p \in Peers, CoolDown(p) PROVE SyncInv' /\ chain' = chain
  <2>1. /\ record' = [record EXCEPT ![p].cooling = FALSE]
        /\ UNCHANGED <<chain, snapshotMode, remote, orphans, importing, sync, faults>>
    BY <1>4, Zenon DEF CoolDown
  <2> DEFINE r == [record[p] EXCEPT !.cooling = FALSE]
  <2>2. r \in RemoteRecord /\ r.known = record[p].known /\ r.checkpoint = record[p].checkpoint
    BY ZenonT(40) DEF RemoteRecord
  <2>3. record' = [record EXCEPT ![p] = r]
    BY <2>1, Zenon
  <2> HIDE DEF r
  <2>4. SameRecords(record, record')
    BY <2>2, <2>3, UpdateRecord, Zenon
  <2>5. LoopOK(sync, record', snapshotMode) /\ record' \in [Peers -> RemoteRecord]
    BY <2>4, LoopKeepsRecords, Zenon DEF SameRecords
  <2> QED BY <2>1, <2>5, Zenon
<1>5. ASSUME NEW p \in Peers, NEW b \in Blocks, PeerExtends(p, b) PROVE SyncInv' /\ chain' = chain
  <2>1. /\ b # Genesis /\ Prev[b] = remote[p].tip
        /\ remote' = [remote EXCEPT ![p] = [tip |-> b, bodies |-> remote[p].bodies \cup {b}]]
        /\ UNCHANGED <<chain, snapshotMode, record, orphans, importing, sync, faults>>
    BY <1>5, Zenon DEF PeerExtends
  <2>2. Ancestors[b] = remote[p].bodies \cup {b}
    BY <2>1, ChainFacts
  <2>3. remote' \in [Peers -> [tip : Blocks, bodies : SUBSET Blocks]]
    BY <2>1, Zenon
  <2>4. \A r \in Peers : remote'[r].bodies = Ancestors[remote'[r].tip]
    BY <2>1, <2>2, Zenon
  <2> QED BY <2>1, <2>3, <2>4, Zenon
<1>6. CASE UNCHANGED allVars
  BY <1>6, Zenon DEF allVars, syncVars
<1> HIDE DEF SyncInv, SyncTypeOK
<1> QED BY <1>1, <1>2, <1>3, <1>4, <1>5, <1>6 DEF SyncNext

(* A node starts with the invariant. *)
LEMMA SyncInitial == SyncInit => SyncInv
<1> SUFFICES ASSUME SyncInit PROVE SyncInv
  BY Zenon
<1>1. ViewOK(chain)
  BY ChainFacts, TreeAncestors, TreeFacts DEF SyncInit, Init, GenesisView, ViewOK
<1>2. /\ remote \in [Peers -> [tip : Blocks, bodies : SUBSET Blocks]]
      /\ \A p \in Peers : remote[p].bodies = Ancestors[remote[p].tip]
  BY SyncAssumption, TreeFacts DEF SyncInit
<1>3. record \in [Peers -> RemoteRecord]
  <2>1. NoRecord \in RemoteRecord
    BY ONLY TreeTypes, SyncAssumption DEF NoRecord, RemoteRecord, Heights
  <2> QED BY <2>1, Zenon DEF SyncInit
<1>4. LoopOK(sync, record, snapshotMode)
  <2>1. PICK boot \in BOOLEAN : sync = [Idle EXCEPT !.boot = boot]
    BY Zenon DEF SyncInit
  <2>2. sync \in SyncState
    BY <2>1, IdleFacts DEF SyncState
  <2>3. sync.at = "pick" /\ sync.batch = <<>> /\ sync.drain = {} /\ sync.phase = "idle"
    BY <2>1, IdleFacts DEF SyncState
  <2> QED BY <2>2, <2>3, RestingLoop
<1>5. snapshotMode \in BOOLEAN /\ orphans = {} /\ importing = {} /\ faults \in 0 .. MaxFaults
  BY SyncAssumption DEF SyncInit
<1> QED BY <1>1, <1>2, <1>3, <1>4, <1>5, Zenon DEF SyncInv, SyncTypeOK, LoopOK

(* The invariant of importer and loop. *)
LEMMA SyncInvariance == SyncSpec => []SyncInv
<1>1. SyncInv /\ [SyncNext]_allVars => SyncInv'
  BY SyncNextKeeps
<1> QED BY <1>1, SyncInitial, PTL DEF SyncSpec

(* The importer and the sync loop keep their state within its types,       *)
(* whatever gossip brings and whichever requests stay unanswered.          *)
THEOREM SyncTypeCorrect == SyncSpec => []SyncTypeOK
<1>1. SyncInv => SyncTypeOK
  BY Zenon DEF SyncInv
<1> QED BY <1>1, SyncInvariance, PTL

(* Whatever the two goroutines interleave, the chain only takes steps that *)
(* block import, SwitchToBranch and ApplySnapshot allow.                   *)
THEOREM SyncRefinement == SyncSpec => SpecSnapshot
<1>1. SyncInit => Init
  BY DEF SyncInit
<1>2. SyncInv /\ [SyncNext]_allVars => [NextSnapshot]_chain
  BY SyncNextKeeps
<1> QED BY <1>1, <1>2, SyncInvariance, PTL DEF SyncSpec, SpecSnapshot

(* getBlocksForConverging: the reply attaches to the requester's chain,    *)
(* for every pair of chains and every batch size.                          *)
THEOREM ReplyCorrect == SyncSpec => ReplyAttaches
<1> DEFINE P == sync.at = "ask" /\ sync'.at = "switch"
                => Prev[Head(sync'.batch)] \in chain.bodies \cap Ancestors[Latest]
<1>1. ASSUME SyncInv, [SyncNext]_allVars PROVE P
  <2> SUFFICES ASSUME sync.at = "ask", sync'.at = "switch" PROVE P
    BY Zenon
  <2>1. sync' # sync
    OBVIOUS
  <2>2. SyncStep
    BY <1>1, <2>1 DEF SyncNext, ImportBlock, ImportStep, CoolDown, PeerExtends, allVars, syncVars
  <2>3. CASE ConvergeAsk
    BY <1>1, <2>3, ConvergeAskKeeps
  <2>4. sync.phase \in {"sync", "converge"} /\ sync \in SyncState
    BY <1>1, PeerFacts, Zenon DEF SyncInv, SyncTypeOK
  <2>5. ~Tick /\ ~Pick /\ ~SyncApply /\ ~ConvergeSwitch /\ ~SnapshotCut /\ ~FetchRange /\ ~SnapshotSheet /\ ~Drain
    BY <2>4, Zenon DEF Tick, Pick, SyncApply, ConvergeSwitch, SnapshotCut, FetchRange, SnapshotSheet, Drain
  <2>6. chain.tip \in Blocks
    BY <1>1, Zenon DEF SyncInv, ViewOK
  <2>7. ~Fail
    BY <1>1, FailKeeps
  <2>8. chain' = chain => ~Succeed
    BY <1>1, <2>6, SucceedKeeps
  <2>9. ~Unanswered /\ ~SyncAsk /\ ~SnapshotAsk
    BY <2>4, <2>7, <2>8, Zenon DEF Unanswered, SyncAsk, SnapshotAsk, SyncState
  <2> QED BY <2>2, <2>3, <2>5, <2>9 DEF SyncStep
<1>2. SyncInv /\ [SyncNext]_allVars => [P]_allVars
  BY <1>1, Zenon
<1> QED BY <1>2, SyncInvariance, PTL DEF SyncSpec, ReplyAttaches

(* At most one new block is not a rewrite. *)
LEMMA OneNewBlock ==
    ASSUME NEW S, NEW b, S \subseteq {b} PROVE ~(Cardinality(S) > 1)
<1>1. IsFiniteSet({b}) /\ Cardinality({b}) = 1
  BY FS_Singleton, Zenon
<1>2. Cardinality(S) \in Nat /\ Cardinality(S) <= Cardinality({b})
  BY <1>1, FS_Subset, FS_CardinalityType
<1> QED BY <1>1, <1>2

(* MustConverge: a branch of several blocks replaces the tip only on a     *)
(* node that knows enough peers, for every order in which gossip, the sync *)
(* loop and the peers take their steps.                                    *)
THEOREM RewriteCorrect == SyncSpec => RewriteNeedsPeers
<1> DEFINE P == /\ ~snapshotMode
                /\ Latest \notin Ancestors[chain'.tip]
                /\ Cardinality(chain'.bodies \ chain.bodies) > 1
                => Cardinality(Known) >= minDesiredPeerCount
<1>1. ASSUME SyncInv, [SyncNext]_allVars PROVE P
  <2>1. ASSUME \E b : chain'.bodies \subseteq chain.bodies \cup {b} PROVE P
    <3>1. PICK b : chain'.bodies \ chain.bodies \subseteq {b}
      BY <2>1, Zenon
    <3> QED BY <3>1, OneNewBlock, Zenon
  <2>2. CASE chain' = chain
    BY <2>1, <2>2, Zenon
  <2>3. CASE ImportStep
    BY <1>1, <2>1, <2>3, ImportKeeps
  <2>4. CASE SyncApply
    BY <1>1, <2>1, <2>4, SyncApplyKeeps
  <2>5. CASE Drain
    BY <1>1, <2>1, <2>5, DrainKeeps
  <2>6. CASE ConvergeSwitch
    BY <1>1, <2>6, ConvergeSwitchKeeps DEF EnoughKnown, Known
  <2>7. CASE SnapshotSheet
    BY <1>1, <2>7, SnapshotSheetKeeps
  <2>8. CASE Tick \/ Pick \/ SyncAsk \/ ConvergeAsk \/ SnapshotAsk \/ SnapshotCut \/ FetchRange \/ Unanswered
    <3>1. chain' = chain
      BY <2>8, Zenon DEF Tick, Pick, SyncAsk, ConvergeAsk, SnapshotAsk, SnapshotCut, FetchRange, Unanswered
    <3> QED BY <2>2, <3>1
  <2>9. CASE (\E b \in Gossiped : ImportBlock(b)) \/ (\E p \in Peers : CoolDown(p))
             \/ (\E p \in Peers, b \in Blocks : PeerExtends(p, b)) \/ UNCHANGED allVars
    <3>1. chain' = chain
      BY <2>9, Zenon DEF ImportBlock, CoolDown, PeerExtends, allVars
    <3> QED BY <2>2, <3>1
  <2> HIDE DEF P
  <2> QED BY <1>1, <2>3, <2>4, <2>5, <2>6, <2>7, <2>8, <2>9, Zenon DEF SyncNext, SyncStep
<1>2. SyncInv /\ [SyncNext]_allVars => [P]_allVars
  BY <1>1, Zenon
<1> QED BY <1>2, SyncInvariance, PTL DEF SyncSpec, RewriteNeedsPeers

=============================================================================
