---------------------------- MODULE CommitProofs ----------------------------
(***************************************************************************)
(* Safety of commit-reveal on a chain that reorganises, for every window,  *)
(* every set of hashes and committers, and every chain length.             *)
(***************************************************************************)
EXTENDS CommitReveal, TLAPS

(* From committed x at height h, and up to q the chain holds no reveal. *)
PendingAt(com, rev, q, h, x, from) ==
    /\ h \in LowOf(q, CommitWindow) .. q
    /\ com[h][x] = from
    /\ \A u \in h + 1 .. q : rev[u][x] # from

(* The store c holds what the blocks up to q leave pending ... *)
ExactAt(c, com, rev, q) ==
    \A h \in Heights : \A x \in Hashes : \A f \in Froms :
        c.pending[h][x] = f <=> PendingAt(com, rev, q, h, x, f)

(* ... and no committer twice with one hash. *)
Single(c) ==
    \A x \in Hashes : \A f \in Froms : \A g, h \in Heights :
        c.pending[g][x] = f /\ c.pending[h][x] = f => g = h

(* e names the commitment that the reveal of x at height r consumed. *)
RightEntry(e, com, rev, r, x) ==
    /\ e.record \in LowOf(r, CommitWindow) .. r - 1
    /\ e.from \in Froms
    /\ rev[r][x] = e.from
    /\ com[e.record][x] = e.from
    /\ \A u \in e.record + 1 .. r - 1 : rev[u][x] # e.from

(* The journal of c up to height q holds right entries only ... *)
JournalSound(c, com, rev, q) ==
    \A r \in Heights : \A x \in Hashes :
        c.spent[r][x] # NotConsumed => r <= q /\ RightEntry(c.spent[r][x], com, rev, r, x)

(* ... and an entry for every revealed commitment from height low on. *)
JournalComplete(c, com, rev, q, low) ==
    \A h \in low .. q : \A x \in Hashes : \A f \in Froms :
        com[h][x] = f /\ (\E u \in h + 1 .. q : rev[u][x] = f)
            => \E u \in h + 1 .. q : c.spent[u][x].record = h

(* The inductive invariant. *)
CommitInv ==
    /\ TypeOK
    /\ tip <= high
    /\ \A q \in 0 .. tip : ExactAt(replayed[q], commits, reveals, q) /\ Single(replayed[q])
    /\ store.pending = replayed[tip].pending
    /\ JournalSound(store, commits, reveals, tip)
    /\ JournalComplete(store, commits, reveals, tip, LowOf(high, CommitWindow))
    /\ RevealsCommitted

-----------------------------------------------------------------------------
(* The window's lower end. *)
LEMMA LowFacts ==
    ASSUME NEW t \in Nat, NEW w \in Nat
    PROVE  /\ LowOf(t, w) \in 0 .. t
           /\ LowOf(t + 1, w + 1) = LowOf(t, w)
           /\ \A s \in Nat : s <= t => LowOf(s, w) <= LowOf(t, w)
           /\ t - LowOf(t, w) <= w
BY DEF LowOf

(* The window moves up with the height. *)
LEMMA LowMono ==
    ASSUME NEW s \in Nat, NEW t \in Nat, s <= t
    PROVE  /\ LowOf(s, CommitWindow) \in Nat
           /\ LowOf(t, CommitWindow) \in 0 .. t
           /\ LowOf(s, CommitWindow) <= LowOf(t, CommitWindow)
BY CommitAssumption DEF LowOf

(* The types of a store's entries. *)
LEMMA StoreTypes ==
    ASSUME NEW c \in CommitStores
    PROVE  /\ c = [pending |-> c.pending, spent |-> c.spent]
           /\ c.pending \in [Heights -> Carried]
           /\ c.spent \in [Heights -> [Hashes -> Consumed \cup {NotConsumed}]]
           /\ \A h \in Heights : \A x \in Hashes :
                 /\ c.pending[h][x] \in Froms \cup {NoOne}
                 /\ c.spent[h][x] \in Consumed \cup {NotConsumed}
BY Zenon DEF CommitStores, Carried

(* A reveal finds the one commitment it has, recorded strictly below it. *)
LEMMA FindFacts ==
    ASSUME NEW c \in CommitStores, Single(c),
           NEW t \in Heights, NEW x \in Hashes, NEW f \in Froms,
           InWindow(c, f, x, t) # {}
    PROVE  /\ findCommit(c, f, x, t) \in LowOf(t, CommitWindow) .. t - 1
           /\ findCommit(c, f, x, t) \in Heights
           /\ c.pending[findCommit(c, f, x, t)][x] = f
<1>1. LowOf(t, CommitWindow) .. t - 1 \subseteq Heights
  BY LowFacts, CommitAssumption DEF Heights, LowOf
<1>2. PICK h \in InWindow(c, f, x, t) : TRUE
  OBVIOUS
<1>3. \A g \in InWindow(c, f, x, t) : h <= g
  BY <1>1, <1>2 DEF InWindow, Single, Heights
<1>4. findCommit(c, f, x, t) \in InWindow(c, f, x, t)
  BY <1>2, <1>3 DEF findCommit
<1> QED BY <1>1, <1>4, Zenon DEF InWindow

(* The commitments of the reveal's own block make no difference to it. *)
LEMMA SameWindow ==
    ASSUME NEW c \in CommitStores, NEW com \in Carried,
           NEW t \in Heights, NEW x \in Hashes, NEW f \in Froms
    PROVE  /\ InWindow(handleCommits(c, com, t), f, x, t) = InWindow(c, f, x, t)
           /\ findCommit(handleCommits(c, com, t), f, x, t) = findCommit(c, f, x, t)
<1>1. LowOf(t, CommitWindow) .. t - 1 \subseteq Heights \ {t}
  BY LowFacts, CommitAssumption DEF Heights, LowOf
<1>2. \A h \in Heights \ {t} : handleCommits(c, com, t).pending[h][x] = c.pending[h][x]
  BY DEF handleCommits
<1>3. InWindow(handleCommits(c, com, t), f, x, t) = InWindow(c, f, x, t)
  BY <1>1, <1>2, Zenon DEF InWindow
<1> QED BY <1>3 DEF findCommit

(* What Upgrade writes. *)
LEMMA UpgradeFields ==
    ASSUME NEW c \in CommitStores, Single(c),
           NEW com \in Carried, NEW rev \in Carried,
           NEW t \in Heights, CanUpgrade(c, com, rev, t)
    PROVE  /\ Upgrade(c, com, rev, t) \in CommitStores
           /\ \A h \in Heights : \A x \in Hashes :
                 Upgrade(c, com, rev, t).pending[h][x] =
                   IF \/ h < LowOf(t, CommitWindow)
                      \/ rev[x] # NoOne /\ h = findCommit(c, rev[x], x, t)
                   THEN NoOne
                   ELSE IF h = t /\ com[x] # NoOne THEN com[x] ELSE c.pending[h][x]
           /\ \A h \in Heights : \A x \in Hashes :
                 Upgrade(c, com, rev, t).spent[h][x] =
                   IF h < LowOf(t, CommitWindow) THEN NotConsumed
                   ELSE IF h = t /\ rev[x] # NoOne
                   THEN [record |-> findCommit(c, rev[x], x, t), from |-> rev[x]]
                   ELSE c.spent[h][x]
<1> DEFINE a == handleCommits(c, com, t)
           b == consumeReveals(a, rev, t)
           d == pruneCommits(b, t)
           low == LowOf(t, CommitWindow)
<1>1. \A x \in Hashes : rev[x] \in Froms \cup {NoOne} /\ com[x] \in Froms \cup {NoOne}
  BY DEF Carried
<1>2. \A x \in Hashes : rev[x] # NoOne =>
         /\ findCommit(a, rev[x], x, t) = findCommit(c, rev[x], x, t)
         /\ findCommit(c, rev[x], x, t) \in Heights
  BY <1>1, SameWindow, FindFacts DEF CanUpgrade
<1>3. \A h \in Heights : \A x \in Hashes :
         /\ a.pending[h][x] = IF h = t /\ com[x] # NoOne THEN com[x] ELSE c.pending[h][x]
         /\ a.spent[h][x] = c.spent[h][x]
  BY Zenon DEF handleCommits
<1>4. \A h \in Heights : \A x \in Hashes :
         /\ b.pending[h][x] = IF rev[x] # NoOne /\ h = findCommit(a, rev[x], x, t)
                              THEN NoOne ELSE a.pending[h][x]
         /\ b.spent[h][x] = IF h = t /\ rev[x] # NoOne
                            THEN [record |-> findCommit(a, rev[x], x, t), from |-> rev[x]]
                            ELSE a.spent[h][x]
  BY Zenon DEF consumeReveals, consumeCommit, journalConsumed
<1>5. \A h \in Heights : \A x \in Hashes :
         /\ d.pending[h][x] = IF h < low THEN NoOne ELSE b.pending[h][x]
         /\ d.spent[h][x] = IF h < low THEN NotConsumed ELSE b.spent[h][x]
  BY Zenon DEF pruneCommits
<1>6. /\ d = [pending |-> d.pending, spent |-> d.spent]
      /\ d.pending = [h \in Heights |-> [x \in Hashes |-> d.pending[h][x]]]
      /\ d.spent = [h \in Heights |-> [x \in Hashes |-> d.spent[h][x]]]
  BY Zenon DEF pruneCommits
<1>7. Upgrade(c, com, rev, t) = d
  BY DEF Upgrade
<1> HIDE DEF a, b, d, low
<1>8. \A h \in Heights : \A x \in Hashes :
         /\ d.pending[h][x] =
              IF h < low \/ (rev[x] # NoOne /\ h = findCommit(c, rev[x], x, t)) THEN NoOne
              ELSE IF h = t /\ com[x] # NoOne THEN com[x] ELSE c.pending[h][x]
         /\ d.spent[h][x] =
              IF h < low THEN NotConsumed
              ELSE IF h = t /\ rev[x] # NoOne
              THEN [record |-> findCommit(c, rev[x], x, t), from |-> rev[x]]
              ELSE c.spent[h][x]
  <2> SUFFICES ASSUME NEW h \in Heights, NEW x \in Hashes
      PROVE  /\ d.pending[h][x] =
                  IF h < low \/ (rev[x] # NoOne /\ h = findCommit(c, rev[x], x, t)) THEN NoOne
                  ELSE IF h = t /\ com[x] # NoOne THEN com[x] ELSE c.pending[h][x]
             /\ d.spent[h][x] =
                  IF h < low THEN NotConsumed
                  ELSE IF h = t /\ rev[x] # NoOne
                  THEN [record |-> findCommit(c, rev[x], x, t), from |-> rev[x]]
                  ELSE c.spent[h][x]
    BY Zenon
  <2>1. CASE h < low
    BY <1>5, <2>1, Zenon
  <2>2. CASE ~(h < low)
    <3>1. d.pending[h][x] = b.pending[h][x] /\ d.spent[h][x] = b.spent[h][x]
      BY <1>5, <2>2, Zenon
    <3>2. CASE rev[x] = NoOne
      <4>1. b.pending[h][x] = a.pending[h][x] /\ b.spent[h][x] = a.spent[h][x]
        BY <1>4, <3>2, Zenon
      <4> QED BY <1>3, <2>2, <3>1, <3>2, <4>1, Zenon
    <3>3. CASE rev[x] # NoOne
      <4> DEFINE at == findCommit(c, rev[x], x, t)
      <4>1. findCommit(a, rev[x], x, t) = at /\ at \in Heights
        BY <1>2, <3>3, Zenon
      <4>2. b.pending[h][x] = IF h = findCommit(a, rev[x], x, t)
                              THEN NoOne ELSE a.pending[h][x]
        BY <1>4, <3>3, Zenon
      <4>3. b.spent[h][x] = IF h = t
                            THEN [record |-> findCommit(a, rev[x], x, t), from |-> rev[x]]
                            ELSE a.spent[h][x]
        BY <1>4, <3>3, Zenon
      <4> HIDE DEF at
      <4>4. b.pending[h][x] = IF h = at THEN NoOne ELSE a.pending[h][x]
        BY <4>1, <4>2, Zenon
      <4>5. b.spent[h][x] = IF h = t THEN [record |-> at, from |-> rev[x]] ELSE a.spent[h][x]
        BY <4>1, <4>3, Zenon
      <4> QED BY <1>3, <2>2, <3>1, <3>3, <4>4, <4>5, Zenon DEF at
    <3> QED BY <3>2, <3>3, Zenon
  <2> QED BY <2>1, <2>2, Zenon
<1>9. \A h \in Heights : \A x \in Hashes :
         /\ d.pending[h][x] \in Froms \cup {NoOne}
         /\ d.spent[h][x] \in Consumed \cup {NotConsumed}
  <2>1. \A x \in Hashes : rev[x] # NoOne =>
          [record |-> findCommit(c, rev[x], x, t), from |-> rev[x]] \in Consumed
    BY <1>1, <1>2, Zenon DEF Consumed
  <2>2. ASSUME NEW h \in Heights, NEW x \in Hashes
        PROVE  d.pending[h][x] \in Froms \cup {NoOne}
    BY <1>1, <1>8, StoreTypes, ZenonT(30)
  <2>3. ASSUME NEW h \in Heights, NEW x \in Hashes
        PROVE  d.spent[h][x] \in Consumed \cup {NotConsumed}
    <3>1. c.spent[h][x] \in Consumed \cup {NotConsumed}
      BY StoreTypes, Zenon
    <3>2. \/ d.spent[h][x] = NotConsumed
          \/ /\ rev[x] # NoOne
             /\ d.spent[h][x] = [record |-> findCommit(c, rev[x], x, t), from |-> rev[x]]
          \/ d.spent[h][x] = c.spent[h][x]
      BY <1>8, Zenon
    <3> QED BY <2>1, <3>1, <3>2, Zenon
  <2> QED BY <2>2, <2>3, Zenon
<1>10. d \in CommitStores
  <2>1. d.pending \in [Heights -> Carried]
    BY <1>6, <1>9, Zenon DEF Carried
  <2>2. d.spent \in [Heights -> [Hashes -> Consumed \cup {NotConsumed}]]
    BY <1>6, <1>9, Zenon
  <2> QED BY <1>6, <2>1, <2>2, Zenon DEF CommitStores
<1> QED BY <1>7, <1>8, <1>10, Zenon DEF low
(* Applying a valid block to the store of its parent gives the store the   *)
(* blocks describe, with no committer twice.                               *)
LEMMA UpgradeExact ==
    ASSUME NEW c \in CommitStores, Single(c),
           NEW C \in [Heights -> Carried], NEW R \in [Heights -> Carried],
           NEW D \in [Heights -> Carried], NEW S \in [Heights -> Carried],
           NEW p \in Heights, p + 1 \in Heights,
           ExactAt(c, C, R, p), CanUpgrade(c, D[p + 1], S[p + 1], p + 1),
           \A h \in 0 .. p : D[h] = C[h] /\ S[h] = R[h]
    PROVE  /\ ExactAt(Upgrade(c, D[p + 1], S[p + 1], p + 1), D, S, p + 1)
           /\ Single(Upgrade(c, D[p + 1], S[p + 1], p + 1))
<1> DEFINE t == p + 1
           u == Upgrade(c, D[t], S[t], t)
           low == LowOf(t, CommitWindow)
<1>1. /\ p \in Nat /\ t \in Nat /\ t \in Heights
      /\ low \in 0 .. t
      /\ LowOf(p, CommitWindow) <= low
      /\ LowOf(t, CommitWindow + 1) <= low
      /\ LowOf(p, CommitWindow) \in Nat
      /\ LowOf(t, CommitWindow + 1) \in Nat
      /\ 0 .. t \subseteq Heights
  BY CommitAssumption DEF LowOf, Heights
<1>2. \A x \in Hashes : D[t][x] \in Froms \cup {NoOne} /\ S[t][x] \in Froms \cup {NoOne}
  BY <1>1, Zenon DEF Carried
<1> DEFINE at(x) == findCommit(c, S[t][x], x, t)
<1>3. \A x \in Hashes : S[t][x] # NoOne =>
         at(x) \in low .. p /\ at(x) \in Heights /\ c.pending[at(x)][x] = S[t][x]
  <2> SUFFICES ASSUME NEW x \in Hashes, S[t][x] # NoOne
               PROVE  at(x) \in low .. p /\ at(x) \in Heights /\ c.pending[at(x)][x] = S[t][x]
    BY Zenon
  <2>1. S[t][x] \in Froms /\ InWindow(c, S[t][x], x, t) # {}
    BY <1>2, Zenon DEF CanUpgrade
  <2> QED BY <1>1, <2>1, FindFacts
<1>4. \A h \in Heights : \A x \in Hashes :
         u.pending[h][x] =
            IF h < low \/ (S[t][x] # NoOne /\ h = at(x)) THEN NoOne
            ELSE IF h = t /\ D[t][x] # NoOne THEN D[t][x] ELSE c.pending[h][x]
  <2>1. D[t] \in Carried /\ S[t] \in Carried
    BY <1>1, Zenon
  <2> QED BY <1>1, <2>1, UpgradeFields, SMTT(30)
<1>5. \A h \in Heights : \A x \in Hashes : \A f \in Froms :
         c.pending[h][x] = f <=> PendingAt(C, R, p, h, x, f)
  BY Zenon DEF ExactAt
<1>6. \A h \in Heights : \A x \in Hashes : \A f \in Froms : c.pending[h][x] = f => h <= p
  BY <1>1, <1>5 DEF PendingAt
<1> HIDE DEF u, at, low, t
<1>7. ASSUME NEW h \in Heights, NEW x \in Hashes, NEW f \in Froms
      PROVE  u.pending[h][x] = f <=> PendingAt(D, S, t, h, x, f)
  <2>1. f # NoOne /\ h \in Nat
    BY CommitAssumption DEF Heights
  <2>2. CASE h < low
    BY <1>1, <1>4, <2>1, <2>2 DEF PendingAt, low
  <2>3. CASE h > t
    <3>1. ~PendingAt(D, S, t, h, x, f)
      BY <1>1, <2>1, <2>3 DEF PendingAt
    <3>2. c.pending[h][x] # f
      BY <1>1, <1>6, <2>1, <2>3 DEF t
    <3>3. u.pending[h][x] \in {NoOne, c.pending[h][x]}
      BY <1>1, <1>4, <2>1, <2>3
    <3> QED BY <2>1, <3>1, <3>2, <3>3, Zenon
  <2>4. CASE h = t
    <3>1. c.pending[h][x] # f
      BY <1>1, <1>6, <2>1, <2>4 DEF t
    <3>2. S[t][x] # NoOne => h # at(x)
      BY <1>1, <1>3, <2>4 DEF t
    <3>3. u.pending[h][x] = f <=> D[t][x] = f
      BY <1>1, <1>4, <2>1, <2>4, <3>1, <3>2
    <3>4. PendingAt(D, S, t, h, x, f) <=> D[t][x] = f
      BY <1>1, <2>4 DEF PendingAt, low
    <3> QED BY <3>3, <3>4, Zenon
  <2>5. CASE low <= h /\ h <= p
    <3>1. D[h] = C[h] /\ \A v \in h + 1 .. p : S[v] = R[v]
      BY <1>1, <2>1, <2>5
    <3>2. PendingAt(D, S, t, h, x, f) <=> PendingAt(C, R, p, h, x, f) /\ S[t][x] # f
      <4>1. h \in LowOf(p, CommitWindow) .. p /\ h \in low .. t
        BY <1>1, <2>1, <2>5 DEF t
      <4>2. (\A v \in h + 1 .. t : S[v][x] # f) <=>
               (\A v \in h + 1 .. p : S[v][x] # f) /\ S[t][x] # f
        BY <1>1, <2>1, <2>5 DEF t
      <4> QED BY <3>1, <4>1, <4>2, Zenon DEF PendingAt, low
    <3>3. u.pending[h][x] = f <=> c.pending[h][x] = f /\ S[t][x] # f
      <4>1. h # t /\ ~(h < low)
        BY <1>1, <2>1, <2>5 DEF t
      <4>2. CASE S[t][x] = f
        <5>1. c.pending[h][x] = f => h = at(x)
          BY <1>3, <2>1, <4>2 DEF Single
        <5>2. h = at(x) => u.pending[h][x] = NoOne
          BY <1>4, <2>1, <4>2, Zenon
        <5>3. h # at(x) => u.pending[h][x] = c.pending[h][x]
          BY <1>4, <4>1, Zenon
        <5> QED BY <2>1, <4>2, <5>1, <5>2, <5>3, Zenon
      <4>3. CASE S[t][x] # f
        <5>1. c.pending[h][x] = f => ~(S[t][x] # NoOne /\ h = at(x))
          BY <1>3, <4>3, Zenon
        <5>2. u.pending[h][x] \in {NoOne, c.pending[h][x]}
          BY <1>4, <4>1, Zenon
        <5>3. c.pending[h][x] = f => u.pending[h][x] = c.pending[h][x]
          BY <1>4, <4>1, <5>1, Zenon
        <5> QED BY <2>1, <4>3, <5>2, <5>3, Zenon
      <4> QED BY <4>2, <4>3, Zenon
    <3> QED BY <1>5, <3>2, <3>3
  <2> QED BY <1>1, <2>1, <2>2, <2>3, <2>4, <2>5 DEF t
<1>8. ASSUME NEW x \in Hashes, NEW f \in Froms, NEW g \in Heights, NEW h \in Heights,
             u.pending[g][x] = f, u.pending[h][x] = f
      PROVE  g = h
  <2>1. f # NoOne
    BY CommitAssumption, Zenon
  <2>2. \A k \in Heights : u.pending[k][x] = f =>
           \/ k \in low .. p /\ c.pending[k][x] = f
           \/ k = t /\ D[t][x] = f
    <3> SUFFICES ASSUME NEW k \in Heights, u.pending[k][x] = f
                 PROVE  \/ k \in low .. p /\ c.pending[k][x] = f
                        \/ k = t /\ D[t][x] = f
      BY Zenon
    <3>1. ~(k < low) /\ k \in Nat
      BY <1>4, <2>1 DEF Heights
    <3>2. c.pending[k][x] = f \/ (k = t /\ D[t][x] = f)
      BY <1>4, <2>1, Zenon
    <3> QED BY <1>1, <1>6, <3>1, <3>2
  <2>3. D[t][x] = f => \A k \in low .. p : c.pending[k][x] # f
    <3>1. low .. p \subseteq LowOf(t, CommitWindow + 1) .. t - 1
      BY <1>1 DEF t
    <3>2. D[t][x] = f => ~commitFromPending(c, f, x, t)
      BY <2>1, Zenon DEF CanUpgrade, t
    <3> QED BY <3>1, <3>2, Zenon DEF commitFromPending
  <2> QED BY <2>2, <2>3, <1>8 DEF Single
<1> QED BY <1>7, <1>8 DEF ExactAt, Single, u, t
(* What is pending at q depends on the blocks up to q only. *)
LEMMA ExactLocal ==
    ASSUME NEW c, NEW q \in Nat, NEW C, NEW R, NEW D, NEW S,
           \A h \in 0 .. q : D[h] = C[h] /\ S[h] = R[h],
           ExactAt(c, C, R, q)
    PROVE  ExactAt(c, D, S, q)
<1> SUFFICES ASSUME NEW h \in Heights, NEW x \in Hashes, NEW f \in Froms
             PROVE  PendingAt(D, S, q, h, x, f) <=> PendingAt(C, R, q, h, x, f)
  BY DEF ExactAt
<1>1. h \in 0 .. q => D[h] = C[h] /\ \A v \in h + 1 .. q : S[v] = R[v]
  BY DEF Heights
<1>2. LowOf(q, CommitWindow) \in 0 .. q
  BY LowFacts, CommitAssumption, Zenon
<1> QED BY <1>1, <1>2 DEF PendingAt

(* So does a journal entry of height r on the blocks up to r. *)
LEMMA EntryLocal ==
    ASSUME NEW e, NEW r \in Nat, NEW x, NEW C, NEW R, NEW D, NEW S,
           \A h \in 0 .. r : D[h] = C[h] /\ S[h] = R[h],
           RightEntry(e, C, R, r, x)
    PROVE  RightEntry(e, D, S, r, x)
<1>1. LowOf(r, CommitWindow) \in 0 .. r
  BY LowFacts, CommitAssumption, ZenonT(30)
<1>2. e.record \in 0 .. r /\ \A u \in e.record + 1 .. r - 1 : u \in 0 .. r
  BY <1>1 DEF RightEntry
<1> QED BY <1>2 DEF RightEntry

(* What the node may hold at height p when it applies a block there: all   *)
(* of it is pending in the replayed store, and the journal is right.       *)
Holds(c, p) ==
    /\ c \in CommitStores
    /\ p \in 0 .. tip
    /\ \A h \in Heights : \A x \in Hashes : \A f \in Froms :
          c.pending[h][x] = f => replayed[p].pending[h][x] = f
    /\ JournalSound(c, commits, reveals, p)
    /\ JournalComplete(c, commits, reveals, p, LowOf(high, CommitWindow))

(* Applying a block keeps the invariant. *)
LEMMA ApplyKeeps ==
    ASSUME CommitInv, NEW c, NEW p, Holds(c, p),
           NEW com \in Carried, NEW rev \in Carried, Apply(c, p, com, rev)
    PROVE  CommitInv'
<1> DEFINE t == p + 1
           b == replayed[p]
           low == LowOf(t, CommitWindow)
<1>1. /\ p \in Nat /\ p \in Heights /\ p <= tip /\ t \in Heights /\ t \in Nat
      /\ tip \in Nat /\ high \in Nat /\ 0 .. t \subseteq Heights /\ 0 .. tip \subseteq Heights
  BY CommitAssumption DEF Holds, CommitInv, TypeOK, Heights, Apply
<1>2. /\ tip' = t
      /\ high' \in Heights /\ high' \in Nat /\ t <= high' /\ high <= high'
  BY <1>1 DEF Apply, CommitInv, TypeOK
<1>3. /\ commits' \in [Heights -> Carried]
      /\ reveals' \in [Heights -> Carried]
      /\ commits'[t] = com /\ reveals'[t] = rev
      /\ \A h \in 0 .. p : commits'[h] = commits[h] /\ reveals'[h] = reveals[h]
  <2>1. Nothing \in Carried
    BY Zenon DEF Nothing, Carried
  <2>2. commits \in [Heights -> Carried] /\ reveals \in [Heights -> Carried]
    BY Zenon DEF CommitInv, TypeOK
  <2>3. /\ commits' = [h \in Heights |->
             IF h = t THEN com ELSE IF h > t THEN Nothing ELSE commits[h]]
        /\ reveals' = [h \in Heights |->
             IF h = t THEN rev ELSE IF h > t THEN Nothing ELSE reveals[h]]
    BY Zenon DEF Apply
  <2> QED BY <1>1, <2>1, <2>2, <2>3
<1>4. /\ b \in CommitStores /\ c \in CommitStores
      /\ Single(b) /\ Single(c)
      /\ ExactAt(b, commits, reveals, p)
  <2>1. b \in CommitStores /\ Single(b) /\ ExactAt(b, commits, reveals, p)
    BY <1>1 DEF CommitInv, TypeOK
  <2> QED BY <2>1 DEF Holds, Single
<1>5. /\ CanUpgrade(b, com, rev, t) /\ CanUpgrade(c, com, rev, t)
      /\ Upgrade(c, com, rev, t).pending = Upgrade(b, com, rev, t).pending
      /\ store' = Upgrade(c, com, rev, t)
      /\ replayed' = [h \in Heights |->
             IF h = t THEN Upgrade(b, com, rev, t)
             ELSE IF h > t THEN EmptyStore ELSE replayed[h]]
  BY Zenon DEF Apply, CheckStateRoot
<1>6. Upgrade(b, com, rev, t) \in CommitStores /\ store' \in CommitStores
  BY <1>1, <1>4, <1>5, UpgradeFields, Zenon
<1>7. TypeOK'
  <2>1. EmptyStore \in CommitStores
    BY Zenon DEF EmptyStore, CommitStores, Carried
  <2>2. replayed' \in [Heights -> CommitStores]
    BY <1>5, <1>6, <2>1, Zenon DEF CommitInv, TypeOK
  <2> QED BY <1>1, <1>2, <1>3, <1>6, <2>2, Zenon DEF TypeOK
<1>8. /\ replayed'[t] = Upgrade(b, com, rev, t)
      /\ \A q \in 0 .. p : replayed'[q] = replayed[q]
  BY <1>1, <1>5
<1>9. (\A q \in 0 .. tip : ExactAt(replayed[q], commits, reveals, q) /\ Single(replayed[q]))'
  <2> SUFFICES ASSUME NEW q \in 0 .. t
               PROVE  ExactAt(replayed'[q], commits', reveals', q) /\ Single(replayed'[q])
    BY <1>2, Zenon DEF ExactAt, Single, PendingAt
  <2>1. CASE q = t
    <3>1. CanUpgrade(b, commits'[t], reveals'[t], t)
      BY <1>3, <1>5, Zenon
    <3>2. commits \in [Heights -> Carried] /\ reveals \in [Heights -> Carried]
      BY Zenon DEF CommitInv, TypeOK
    <3>3. /\ ExactAt(Upgrade(b, commits'[t], reveals'[t], t), commits', reveals', t)
          /\ Single(Upgrade(b, commits'[t], reveals'[t], t))
      BY <1>1, <1>3, <1>4, <3>1, <3>2, UpgradeExact, SMTT(30)
    <3> QED BY <1>3, <1>8, <2>1, <3>3, Zenon
  <2>2. CASE q \in 0 .. p
    <3>1. ExactAt(replayed[q], commits, reveals, q) /\ Single(replayed[q])
      BY <1>1, <2>2 DEF CommitInv
    <3>2. ExactAt(replayed[q], commits', reveals', q)
      BY <1>1, <1>3, <2>2, <3>1, ExactLocal
    <3> QED BY <1>8, <2>2, <3>1, <3>2, Zenon
  <2> QED BY <1>1, <2>1, <2>2
<1>10. (store.pending = replayed[tip].pending)'
  BY <1>2, <1>5, <1>8, Zenon
<1> DEFINE at(x) == findCommit(c, rev[x], x, t)
<1>11. \A h \in Heights : \A x \in Hashes :
         store'.spent[h][x] =
            IF h < low THEN NotConsumed
            ELSE IF h = t /\ rev[x] # NoOne
            THEN [record |-> at(x), from |-> rev[x]]
            ELSE c.spent[h][x]
  BY <1>1, <1>4, <1>5, UpgradeFields
<1>12. \A x \in Hashes : rev[x] # NoOne =>
          /\ rev[x] \in Froms
          /\ at(x) \in low .. p /\ at(x) \in Heights
          /\ b.pending[at(x)][x] = rev[x]
          /\ PendingAt(commits, reveals, p, at(x), x, rev[x])
  <2> SUFFICES ASSUME NEW x \in Hashes, rev[x] # NoOne
               PROVE  /\ rev[x] \in Froms
                      /\ at(x) \in low .. p /\ at(x) \in Heights
                      /\ b.pending[at(x)][x] = rev[x]
                      /\ PendingAt(commits, reveals, p, at(x), x, rev[x])
    BY Zenon
  <2>1. rev[x] \in Froms /\ InWindow(c, rev[x], x, t) # {}
    BY <1>5, Zenon DEF CanUpgrade, Carried
  <2>2. at(x) \in low .. t - 1 /\ at(x) \in Heights /\ c.pending[at(x)][x] = rev[x]
    BY <1>1, <1>4, <2>1, FindFacts, Zenon
  <2>3. b.pending[at(x)][x] = rev[x]
    BY <2>1, <2>2, ZenonT(40) DEF Holds
  <2> QED BY ONLY <1>1, <1>4, <2>1, <2>2, <2>3 DEF ExactAt
<1>13. /\ low \in 0 .. t /\ low \in Nat
       /\ LowOf(p, CommitWindow) <= low /\ LowOf(p, CommitWindow) \in Nat
       /\ low <= LowOf(high', CommitWindow)
       /\ LowOf(high, CommitWindow) <= LowOf(high', CommitWindow)
       /\ LowOf(high, CommitWindow) \in Nat /\ LowOf(high', CommitWindow) \in Nat
  <2> DEFINE top == high'
  <2>1. p <= t /\ top \in Nat /\ t <= top /\ high <= top
    BY <1>1, <1>2
  <2> HIDE DEF t, low, top
  <2>2. /\ low \in 0 .. t /\ LowOf(p, CommitWindow) <= low
        /\ LowOf(p, CommitWindow) \in Nat /\ low \in Nat
    BY <1>1, <2>1, LowMono, Zenon DEF low
  <2>3. low <= LowOf(top, CommitWindow) /\ LowOf(top, CommitWindow) \in Nat
    BY <1>1, <2>1, LowMono DEF low
  <2>4. /\ LowOf(high, CommitWindow) <= LowOf(top, CommitWindow)
        /\ LowOf(high, CommitWindow) \in Nat
    BY <1>1, <2>1, LowMono, Zenon
  <2> QED BY <2>2, <2>3, <2>4, Zenon DEF top
<1> HIDE DEF t, b, low, at
<1>14. JournalSound(store', commits', reveals', t)
  <2> SUFFICES ASSUME NEW r \in Heights, NEW x \in Hashes, store'.spent[r][x] # NotConsumed
               PROVE  r <= t /\ RightEntry(store'.spent[r][x], commits', reveals', r, x)
    BY Zenon DEF JournalSound
  <2>1. CASE r = t /\ rev[x] # NoOne
    <3>1. store'.spent[r][x] = [record |-> at(x), from |-> rev[x]]
      BY <1>11, <1>13, <2>1, Zenon
    <3>2. /\ store'.spent[r][x].record = at(x)
          /\ store'.spent[r][x].from = rev[x]
      BY <3>1
    <3>3. /\ commits[at(x)][x] = rev[x]
          /\ \A u \in at(x) + 1 .. p : reveals[u][x] # rev[x]
          /\ at(x) \in low .. p /\ rev[x] \in Froms
      BY <1>12, <2>1, Zenon DEF PendingAt
    <3>4. /\ commits'[at(x)] = commits[at(x)]
          /\ \A u \in at(x) + 1 .. p : reveals'[u] = reveals[u]
      BY <1>1, <1>3, <1>13, <3>3
    <3>5. t - 1 = p
      BY <1>1 DEF t
    <3> QED BY ONLY <1>1, <1>3, <2>1, <3>2, <3>3, <3>4, <3>5 DEF RightEntry, low
  <2>2. CASE ~(r = t /\ rev[x] # NoOne)
    <3>1. store'.spent[r][x] = c.spent[r][x]
      BY <1>11, <2>2, Zenon
    <3>2. r <= p /\ RightEntry(c.spent[r][x], commits, reveals, r, x)
      BY <3>1, Zenon DEF Holds, JournalSound
    <3>3. r \in Nat /\ \A h \in 0 .. r : commits'[h] = commits[h] /\ reveals'[h] = reveals[h]
      BY <1>1, <1>3, <3>2 DEF Heights
    <3>4. RightEntry(c.spent[r][x], commits', reveals', r, x)
      BY <3>2, <3>3, EntryLocal, Zenon
    <3> QED BY <1>1, <3>1, <3>2, <3>3, <3>4 DEF t
  <2> QED BY <2>1, <2>2, Zenon
<1>15. JournalComplete(store', commits', reveals', t, LowOf(high', CommitWindow))
  <2> SUFFICES ASSUME NEW h \in LowOf(high', CommitWindow) .. t,
                      NEW x \in Hashes, NEW f \in Froms,
                      commits'[h][x] = f,
                      NEW v \in h + 1 .. t, reveals'[v][x] = f
               PROVE  \E u \in h + 1 .. t : store'.spent[u][x].record = h
    BY Zenon DEF JournalComplete
  <2>1. /\ h \in Nat /\ h <= p /\ h \in Heights /\ low <= h
        /\ LowOf(high, CommitWindow) <= h
        /\ commits'[h] = commits[h]
        /\ v \in Nat /\ v \in Heights
    BY <1>1, <1>3, <1>13 DEF t
  <2>2. CASE \E u \in h + 1 .. p : reveals[u][x] = f
    <3>1. PICK u \in h + 1 .. p : c.spent[u][x].record = h
      BY <1>1, <2>1, <2>2 DEF Holds, JournalComplete
    <3>2. u \in Heights /\ u # t /\ ~(u < low) /\ u \in h + 1 .. t
      BY <1>1, <1>13, <2>1 DEF t
    <3>3. store'.spent[u][x] = c.spent[u][x]
      BY <1>11, <3>2, ZenonT(30)
    <3> QED BY <3>1, <3>2, <3>3, Zenon
  <2>3. CASE ~\E u \in h + 1 .. p : reveals[u][x] = f
    <3>1. v = t /\ rev[x] = f
      <4>1. v \in h + 1 .. p => reveals'[v] = reveals[v]
        BY <1>1, <1>3, <2>1
      <4>2. v \notin h + 1 .. p
        BY <2>3, <4>1, Zenon
      <4> QED BY <1>1, <1>3, <2>1, <4>2 DEF t
    <3>2. PendingAt(commits, reveals, p, h, x, f)
      BY <1>1, <1>13, <2>1, <2>3 DEF PendingAt
    <3>3. b.pending[h][x] = f
      BY <1>4, <2>1, <3>2, Zenon DEF ExactAt
    <3>4. f # NoOne
      BY CommitAssumption, Zenon
    <3>5. at(x) = h
      BY <1>4, <1>12, <2>1, <3>1, <3>3, <3>4 DEF Single
    <3>6. store'.spent[t][x] = [record |-> h, from |-> f]
      BY <1>1, <1>11, <1>13, <3>1, <3>4, <3>5
    <3> QED BY <3>1, <3>6
  <2> QED BY <2>2, <2>3, Zenon
<1>16. RevealsCommitted'
  <2> SUFFICES ASSUME NEW r \in 1 .. t, NEW x \in Hashes, reveals'[r][x] # NoOne
               PROVE  \E h \in LowOf(r, CommitWindow) .. r - 1 :
                         /\ commits'[h][x] = reveals'[r][x]
                         /\ \A u \in h + 1 .. r - 1 : reveals'[u][x] # reveals'[r][x]
    BY <1>2, Zenon DEF RevealsCommitted
  <2>1. CASE r = t
    <3>1. /\ rev[x] # NoOne /\ reveals'[r] = rev
      BY <1>3, <2>1, Zenon
    <3>2. /\ commits[at(x)][x] = rev[x]
          /\ \A u \in at(x) + 1 .. p : reveals[u][x] # rev[x]
          /\ at(x) \in low .. p
      BY <1>12, <3>1, Zenon DEF PendingAt
    <3>3. /\ commits'[at(x)] = commits[at(x)]
          /\ \A u \in at(x) + 1 .. p : reveals'[u] = reveals[u]
      BY <1>1, <1>3, <1>13, <3>2
    <3>4. r - 1 = p
      BY <1>1, <2>1 DEF t
    <3> QED BY <2>1, <3>1, <3>2, <3>3, <3>4, ZenonT(40) DEF low
  <2>2. CASE r \in 1 .. p
    <3>1. reveals'[r] = reveals[r] /\ r \in 1 .. tip /\ r \in Nat
      BY <1>1, <1>3, <2>2
    <3>2. PICK h \in LowOf(r, CommitWindow) .. r - 1 :
             /\ commits[h][x] = reveals[r][x]
             /\ \A u \in h + 1 .. r - 1 : reveals[u][x] # reveals[r][x]
      BY <3>1 DEF CommitInv, RevealsCommitted
    <3>3. LowOf(r, CommitWindow) \in 0 .. r
      BY <3>1, LowFacts, CommitAssumption, Zenon
    <3>4. commits'[h] = commits[h] /\ \A u \in h + 1 .. r - 1 : reveals'[u] = reveals[u]
      BY <1>1, <1>3, <2>2, <3>1, <3>3
    <3> QED BY <3>1, <3>2, <3>4, Zenon
  <2> QED BY <1>1, <2>1, <2>2 DEF t
<1>17. /\ JournalSound(store, commits, reveals, tip)'
       /\ JournalComplete(store, commits, reveals, tip, LowOf(high, CommitWindow))'
  BY <1>2, <1>14, <1>15 DEF JournalSound, JournalComplete, RightEntry, LowOf
<1> QED BY <1>2, <1>7, <1>9, <1>10, <1>16, <1>17, Zenon DEF CommitInv
(* One commitment is consumed by one reveal. *)
LEMMA OneReveal ==
    ASSUME CommitInv, NEW x \in Hashes, NEW h \in Heights,
           NEW r \in Heights, NEW s \in Heights,
           store.spent[r][x].record = h, store.spent[s][x].record = h
    PROVE  r = s
<1>1. h \in Nat /\ r \in Nat /\ s \in Nat /\ NotConsumed.record = -1
  BY DEF Heights, NotConsumed
<1>2. /\ RightEntry(store.spent[r][x], commits, reveals, r, x)
      /\ RightEntry(store.spent[s][x], commits, reveals, s, x)
  BY <1>1 DEF CommitInv, JournalSound
<1>3. /\ reveals[r][x] = commits[h][x] /\ reveals[s][x] = commits[h][x]
      /\ h \in LowOf(r, CommitWindow) .. r - 1 /\ h \in LowOf(s, CommitWindow) .. s - 1
      /\ \A u \in h + 1 .. r - 1 : reveals[u][x] # commits[h][x]
      /\ \A u \in h + 1 .. s - 1 : reveals[u][x] # commits[h][x]
  BY <1>2, Zenon DEF RightEntry
<1>4. LowOf(r, CommitWindow) \in Nat /\ LowOf(s, CommitWindow) \in Nat
  <2>1. CommitWindow \in Nat
    BY CommitAssumption, Zenon
  <2>2. LowOf(r, CommitWindow) \in 0 .. r /\ LowOf(s, CommitWindow) \in 0 .. s
    BY <1>1, <2>1, LowFacts, Zenon
  <2> QED BY <1>1, <2>2
<1>5. ~(r < s)
  BY <1>1, <1>3, <1>4
<1>6. ~(s < r)
  BY <1>1, <1>3, <1>4
<1> QED BY <1>1, <1>5, <1>6

(* What Unwind writes. *)
LEMMA UnwindFields ==
    ASSUME CommitInv, NEW p \in 0 .. tip
    PROVE  /\ Unwind(store, p, tip) \in CommitStores
           /\ \A h \in Heights : \A x \in Hashes :
                 /\ h \in p + 1 .. tip => Unwind(store, p, tip).pending[h][x] = NoOne
                 /\ h \notin p + 1 .. tip /\ SpentAbove(store, p, tip, h, x) = {} =>
                       Unwind(store, p, tip).pending[h][x] = store.pending[h][x]
                 /\ h \notin p + 1 .. tip => \A r \in SpentAbove(store, p, tip, h, x) :
                       Unwind(store, p, tip).pending[h][x] = store.spent[r][x].from
           /\ \A h \in Heights : \A x \in Hashes :
                 Unwind(store, p, tip).spent[h][x] =
                    IF h \in p + 1 .. tip THEN NotConsumed ELSE store.spent[h][x]
<1> DEFINE c == Unwind(store, p, tip)
           SA(h, x) == SpentAbove(store, p, tip, h, x)
           least(h, x) == CHOOSE r \in SA(h, x) : \A s \in SA(h, x) : r <= s
<1>1. /\ tip \in Nat /\ p \in Nat /\ tip \in Heights /\ store \in CommitStores
      /\ p + 1 .. tip \subseteq Heights
  BY CommitAssumption DEF CommitInv, TypeOK, Heights
<1>2. ASSUME NEW h \in Heights, NEW x \in Hashes, NEW r \in SA(h, x)
      PROVE  /\ least(h, x) = r
             /\ r \in Heights /\ store.spent[r][x].from \in Froms
  <2>1. r \in Heights /\ r \in Nat /\ store.spent[r][x].record = h
    BY <1>1 DEF SpentAbove, Heights
  <2>2. ASSUME NEW s \in SA(h, x)
        PROVE  s = r
    <3>1. s \in Heights /\ store.spent[s][x].record = h
      BY <1>1, Zenon DEF SpentAbove
    <3> HIDE DEF SA
    <3> QED BY <2>1, <3>1, OneReveal, Zenon
  <2>3. store.spent[r][x] # NotConsumed
    BY <2>1 DEF NotConsumed, Heights
  <2>4. store.spent[r][x] \in Consumed
    BY <1>1, <2>1, <2>3, StoreTypes
  <2>5. store.spent[r][x].from \in Froms
    BY <2>4, Zenon DEF Consumed
  <2>6. least(h, x) = r
    <3> HIDE DEF SA
    <3>1. r <= r
      BY <2>1
    <3>2. r \in SA(h, x) /\ \A s \in SA(h, x) : r <= s
      BY <2>2, <3>1, Zenon
    <3>3. \A q \in SA(h, x) : q = r
      BY <2>2, Zenon
    <3> QED BY <3>2, <3>3, Zenon
  <2> QED BY <2>1, <2>5, <2>6, Zenon
<1>3. \A h \in Heights : \A x \in Hashes :
         c.pending[h][x] =
            IF h \in p + 1 .. tip THEN NoOne
            ELSE IF SA(h, x) # {} THEN store.spent[least(h, x)][x].from
            ELSE store.pending[h][x]
  BY Zenon DEF Unwind
<1>4. \A h \in Heights : \A x \in Hashes :
         c.spent[h][x] = IF h \in p + 1 .. tip THEN NotConsumed ELSE store.spent[h][x]
  BY Zenon DEF Unwind
<1>5. c = [pending |-> c.pending, spent |-> c.spent]
  BY Zenon DEF Unwind
<1>6. c.pending \in [Heights -> Carried]
  <2>1. c.pending = [h \in Heights |-> [x \in Hashes |-> c.pending[h][x]]]
    BY DEF Unwind
  <2>2. \A h \in Heights : \A x \in Hashes : c.pending[h][x] \in Froms \cup {NoOne}
    <3> SUFFICES ASSUME NEW h \in Heights, NEW x \in Hashes
                 PROVE  c.pending[h][x] \in Froms \cup {NoOne}
      BY Zenon
    <3>1. CASE SA(h, x) = {}
      BY <1>1, <1>3, <3>1, StoreTypes, Zenon
    <3>2. CASE SA(h, x) # {}
      <4>1. PICK r \in SA(h, x) : TRUE
        BY <3>2, Zenon
      <4> QED BY <1>2, <1>3, <4>1
    <3> QED BY <3>1, <3>2, Zenon
  <2> HIDE DEF c
  <2> QED BY <2>1, <2>2, Zenon DEF Carried
<1>7. c.spent \in [Heights -> [Hashes -> Consumed \cup {NotConsumed}]]
  <2>1. c.spent = [h \in Heights |->
           IF h \in p + 1 .. tip THEN [x \in Hashes |-> NotConsumed] ELSE store.spent[h]]
    BY Zenon DEF Unwind
  <2>2. store.spent \in [Heights -> [Hashes -> Consumed \cup {NotConsumed}]]
    BY <1>1, StoreTypes, Zenon
  <2> HIDE DEF c
  <2> QED BY <2>1, <2>2
<1>8. c \in CommitStores
  <2> HIDE DEF c
  <2> QED BY <1>5, <1>6, <1>7, Zenon DEF CommitStores
<1>9. \A h \in Heights : \A x \in Hashes : \A r \in SA(h, x) :
         h \notin p + 1 .. tip => c.pending[h][x] = store.spent[r][x].from
  <2> HIDE DEF c, SA, least
  <2> QED BY <1>2, <1>3, ZenonT(40)
<1> QED BY <1>3, <1>4, <1>8, <1>9
(* What unwinding to p leaves is pending in the replayed store, and the    *)
(* remaining journal is right: a branch can be applied to it.              *)
LEMMA UnwindHolds ==
    ASSUME CommitInv, NEW p \in 0 .. tip
    PROVE  Holds(Unwind(store, p, tip), p)
<1> DEFINE c == Unwind(store, p, tip)
<1>1. /\ tip \in Nat /\ p \in Nat /\ p <= tip /\ tip \in Heights /\ p \in Heights
      /\ 0 .. tip \subseteq Heights /\ high \in Nat
  BY CommitAssumption DEF CommitInv, TypeOK, Heights
<1>2. /\ ExactAt(replayed[p], commits, reveals, p)
      /\ ExactAt(replayed[tip], commits, reveals, tip)
      /\ store.pending = replayed[tip].pending
  BY <1>1 DEF CommitInv
<1>3. c \in CommitStores
  BY UnwindFields, Zenon
<1>4. \A h \in Heights : \A x \in Hashes :
         c.spent[h][x] = IF h \in p + 1 .. tip THEN NotConsumed ELSE store.spent[h][x]
  BY UnwindFields, Zenon
<1>5. ASSUME NEW h \in Heights, NEW x \in Hashes, NEW f \in Froms, c.pending[h][x] = f
      PROVE  replayed[p].pending[h][x] = f
  <2>1. h \notin p + 1 .. tip /\ h \in Nat
    BY <1>5, UnwindFields, CommitAssumption DEF Heights
  <2>2. CASE SpentAbove(store, p, tip, h, x) = {}
    <3>1. store.pending[h][x] = f
      BY <1>5, <2>1, <2>2, UnwindFields, Zenon
    <3>2. PendingAt(commits, reveals, tip, h, x, f)
      BY <1>2, <3>1 DEF ExactAt
    <3>3. LowOf(p, CommitWindow) <= LowOf(tip, CommitWindow) /\ LowOf(p, CommitWindow) \in Nat
          /\ LowOf(tip, CommitWindow) \in Nat
      BY <1>1, LowMono
    <3>4. PendingAt(commits, reveals, p, h, x, f)
      BY <1>1, <2>1, <3>2, <3>3 DEF PendingAt
    <3> QED BY <1>2, <3>4, Zenon DEF ExactAt
  <2>3. CASE SpentAbove(store, p, tip, h, x) # {}
    <3>1. PICK r \in SpentAbove(store, p, tip, h, x) : TRUE
      BY <2>3, Zenon
    <3>2. r \in p + 1 .. tip /\ r \in Heights /\ r \in Nat /\ store.spent[r][x].record = h
      BY <1>1, <3>1 DEF SpentAbove
    <3>3. store.spent[r][x].from = f
      BY <1>5, <2>1, <3>1, UnwindFields
    <3>4. store.spent[r][x] # NotConsumed
      BY <2>1, <3>2 DEF NotConsumed
    <3>5. RightEntry(store.spent[r][x], commits, reveals, r, x)
      BY <3>2, <3>4, Zenon DEF CommitInv, JournalSound
    <3>6. /\ h \in LowOf(r, CommitWindow) .. r - 1 /\ commits[h][x] = f
          /\ \A u \in h + 1 .. r - 1 : reveals[u][x] # f
      BY <3>2, <3>3, <3>5, Zenon DEF RightEntry
    <3>7. LowOf(p, CommitWindow) <= LowOf(r, CommitWindow) /\ LowOf(p, CommitWindow) \in Nat
          /\ LowOf(r, CommitWindow) \in Nat
      BY <1>1, <3>2, LowMono
    <3>8. PendingAt(commits, reveals, p, h, x, f)
      BY <1>1, <2>1, <3>2, <3>6, <3>7 DEF PendingAt
    <3> QED BY <1>2, <3>8, Zenon DEF ExactAt
  <2> QED BY <2>2, <2>3, Zenon
<1> HIDE DEF c
<1>6. JournalSound(c, commits, reveals, p)
  <2> SUFFICES ASSUME NEW r \in Heights, NEW x \in Hashes, c.spent[r][x] # NotConsumed
               PROVE  r <= p /\ RightEntry(c.spent[r][x], commits, reveals, r, x)
    BY Zenon DEF JournalSound
  <2>1. r \notin p + 1 .. tip /\ c.spent[r][x] = store.spent[r][x]
    BY <1>4, Zenon
  <2>2. r <= tip /\ RightEntry(store.spent[r][x], commits, reveals, r, x)
    BY <2>1, Zenon DEF CommitInv, JournalSound
  <2> QED BY <1>1, <2>1, <2>2 DEF Heights
<1>7. JournalComplete(c, commits, reveals, p, LowOf(high, CommitWindow))
  <2> SUFFICES ASSUME NEW h \in LowOf(high, CommitWindow) .. p,
                      NEW x \in Hashes, NEW f \in Froms,
                      commits[h][x] = f,
                      NEW v \in h + 1 .. p, reveals[v][x] = f
               PROVE  \E u \in h + 1 .. p : c.spent[u][x].record = h
    BY Zenon DEF JournalComplete
  <2>1. LowOf(high, CommitWindow) \in Nat
    BY <1>1, LowMono
  <2>2. /\ h \in LowOf(high, CommitWindow) .. tip /\ v \in h + 1 .. tip
        /\ h \in Nat /\ v \in Nat /\ h \in Heights
    BY <1>1, <2>1
  <2>3. PICK u \in h + 1 .. tip : store.spent[u][x].record = h
    BY <2>2, Zenon DEF CommitInv, JournalComplete
  <2>4. u \in Heights /\ u \in Nat
    BY <1>1, <2>2
  <2>5. store.spent[u][x] # NotConsumed
    BY <2>2, <2>3 DEF NotConsumed
  <2>6. RightEntry(store.spent[u][x], commits, reveals, u, x)
    BY <2>4, <2>5, Zenon DEF CommitInv, JournalSound
  <2>7. \A w \in h + 1 .. u - 1 : reveals[w][x] # f
    BY <2>3, <2>6, Zenon DEF RightEntry
  <2>8. u <= p
    BY <1>1, <2>2, <2>4, <2>7
  <2>9. c.spent[u][x] = store.spent[u][x]
    BY <1>1, <1>4, <2>4, <2>8
  <2> QED BY <1>1, <2>2, <2>3, <2>4, <2>8, <2>9
<1> QED BY <1>3, <1>5, <1>6, <1>7, Zenon DEF Holds, c

(* Where nothing was pruned, unwinding restores exactly what was pending.  *)
LEMMA UnwindRestores ==
    ASSUME CommitInv
    PROVE  UnwindExactInWindow
<1> SUFFICES ASSUME NEW p \in 0 .. tip, NEW h \in LowOf(high, CommitWindow) .. MaxHeight
             PROVE  Unwind(store, p, tip).pending[h] = replayed[p].pending[h]
  BY Zenon DEF UnwindExactInWindow
<1> DEFINE c == Unwind(store, p, tip)
<1>1. /\ tip \in Nat /\ p \in Nat /\ p <= tip /\ tip \in Heights /\ p \in Heights
      /\ 0 .. tip \subseteq Heights /\ high \in Nat /\ tip <= high
  BY CommitAssumption DEF CommitInv, TypeOK, Heights
<1>2. /\ LowOf(tip, CommitWindow) <= LowOf(high, CommitWindow)
      /\ LowOf(tip, CommitWindow) \in Nat /\ LowOf(high, CommitWindow) \in Nat
  BY <1>1, LowMono
<1>3. h \in Heights /\ h \in Nat /\ LowOf(tip, CommitWindow) <= h
  BY <1>2, CommitAssumption DEF Heights
<1>4. /\ ExactAt(replayed[p], commits, reveals, p)
      /\ ExactAt(replayed[tip], commits, reveals, tip)
      /\ store.pending = replayed[tip].pending
      /\ replayed[p] \in CommitStores
  BY <1>1 DEF CommitInv, TypeOK
<1>5. /\ c \in CommitStores
      /\ \A x \in Hashes : \A f \in Froms : c.pending[h][x] = f => replayed[p].pending[h][x] = f
  BY <1>3, UnwindHolds DEF Holds
<1>6. ASSUME NEW x \in Hashes, NEW f \in Froms, replayed[p].pending[h][x] = f
      PROVE  c.pending[h][x] = f
  <2>1. PendingAt(commits, reveals, p, h, x, f)
    BY <1>3, <1>4, <1>6 DEF ExactAt
  <2>2. h <= p /\ commits[h][x] = f /\ \A u \in h + 1 .. p : reveals[u][x] # f
    BY <1>1, <1>3, <2>1 DEF PendingAt
  <2>3. h \notin p + 1 .. tip
    BY <1>1, <1>3, <2>2
  <2>4. \A u \in h + 1 .. tip : store.spent[u][x].record = h =>
           store.spent[u][x].from = f /\ reveals[u][x] = f
    <3> SUFFICES ASSUME NEW u \in h + 1 .. tip, store.spent[u][x].record = h
                 PROVE  store.spent[u][x].from = f /\ reveals[u][x] = f
      BY Zenon
    <3>1. u \in Heights
      BY <1>1, <1>3
    <3>2. store.spent[u][x] # NotConsumed
      BY <1>3 DEF NotConsumed
    <3>3. RightEntry(store.spent[u][x], commits, reveals, u, x)
      BY <3>1, <3>2, Zenon DEF CommitInv, JournalSound
    <3> QED BY <2>2, <3>3, Zenon DEF RightEntry
  <2>5. CASE SpentAbove(store, p, tip, h, x) # {}
    <3>1. PICK r \in SpentAbove(store, p, tip, h, x) : TRUE
      BY <2>5, Zenon
    <3>2. r \in h + 1 .. tip /\ store.spent[r][x].record = h
      BY <1>1, <1>3, <2>2, <3>1 DEF SpentAbove
    <3>3. c.pending[h][x] = store.spent[r][x].from
      BY <1>3, <2>3, <3>1, UnwindFields
    <3> QED BY <2>4, <3>2, <3>3, Zenon
  <2>6. CASE SpentAbove(store, p, tip, h, x) = {}
    <3>1. \A u \in h + 1 .. tip : store.spent[u][x].record # h
      <4> SUFFICES ASSUME NEW u \in h + 1 .. tip, store.spent[u][x].record = h
                   PROVE  FALSE
        BY Zenon
      <4>1. u \in h + 1 .. p \/ u \in p + 1 .. tip
        BY <1>1, <1>3, <2>2
      <4> QED BY <2>2, <2>4, <2>6, <4>1, Zenon DEF SpentAbove
    <3>2. h \in LowOf(high, CommitWindow) .. tip
      BY <1>1, <1>2, <1>3, <2>2
    <3>3. \A u \in h + 1 .. tip : reveals[u][x] # f
      BY <2>2, <3>1, <3>2, Zenon DEF CommitInv, JournalComplete
    <3>4. PendingAt(commits, reveals, tip, h, x, f)
      BY <1>1, <1>2, <1>3, <2>2, <3>3 DEF PendingAt
    <3>5. store.pending[h][x] = f
      BY <1>3, <1>4, <3>4, ZenonT(40) DEF ExactAt
    <3> QED BY <1>3, <2>3, <2>6, <3>5, UnwindFields, Zenon
  <2> QED BY <2>5, <2>6, Zenon
<1> HIDE DEF c
<1>7. /\ c.pending[h] \in Carried /\ replayed[p].pending[h] \in Carried
      /\ \A x \in Hashes : /\ c.pending[h][x] \in Froms \cup {NoOne}
                           /\ replayed[p].pending[h][x] \in Froms \cup {NoOne}
  BY <1>3, <1>4, <1>5, StoreTypes, Zenon
<1>8. \A x \in Hashes : c.pending[h][x] = replayed[p].pending[h][x]
  BY <1>5, <1>6, <1>7, CommitAssumption, ZenonT(30)
<1>9. c.pending[h] = replayed[p].pending[h]
  BY <1>7, <1>8 DEF Carried
<1> QED BY <1>9, Zenon DEF c

-----------------------------------------------------------------------------
(* CommitInv is an invariant of every behaviour of the archive node. *)
THEOREM CommitInvariant == Spec => []CommitInv
<1>1. Init => CommitInv
  <2> SUFFICES ASSUME Init
               PROVE  CommitInv
    OBVIOUS
  <2>1. 0 \in Heights /\ LowOf(0, CommitWindow) = 0
    BY CommitAssumption DEF Heights, LowOf
  <2>2. Nothing \in Carried /\ EmptyStore \in CommitStores
    BY Zenon DEF Nothing, Carried, EmptyStore, CommitStores
  <2>3. TypeOK
    BY <2>1, <2>2, Zenon DEF Init, TypeOK
  <2>4. /\ \A h \in Heights : \A x \in Hashes : EmptyStore.pending[h][x] = NoOne
        /\ \A h \in Heights : \A x \in Hashes : EmptyStore.spent[h][x] = NotConsumed
        /\ \A h \in Heights : \A x \in Hashes : commits[h][x] = NoOne
        /\ replayed[0] = EmptyStore /\ store = EmptyStore /\ tip = 0 /\ high = 0
    BY <2>1, Zenon DEF EmptyStore, Nothing, Init
  <2>5. ExactAt(replayed[0], commits, reveals, 0) /\ Single(replayed[0])
    BY <2>4, CommitAssumption, Zenon DEF ExactAt, Single, PendingAt
  <2>6. JournalSound(store, commits, reveals, tip)
    BY <2>4, Zenon DEF JournalSound
  <2>7. JournalComplete(store, commits, reveals, tip, LowOf(high, CommitWindow))
    BY <2>1, <2>4 DEF JournalComplete
  <2>8. RevealsCommitted
    BY <2>4 DEF RevealsCommitted
  <2> QED BY <2>3, <2>4, <2>5, <2>6, <2>7, <2>8 DEF CommitInv
<1>2. CommitInv /\ [Next]_vars => CommitInv'
  <2> SUFFICES ASSUME CommitInv, [Next]_vars
               PROVE  CommitInv'
    BY Zenon
  <2>1. CASE Extend
    <3>1. tip \in Nat
      BY DEF CommitInv, TypeOK, Heights
    <3>2. Holds(store, tip)
      BY <3>1 DEF CommitInv, TypeOK, Holds
    <3> QED BY <2>1, <3>2, ApplyKeeps, Zenon DEF Extend
  <2>2. ASSUME NEW p \in Heights, Reorg(p)
        PROVE  CommitInv'
    <3>1. p \in 0 .. tip
      BY <2>2 DEF Reorg, Heights, CommitInv, TypeOK
    <3>2. Holds(Unwind(store, p, tip), p)
      BY <3>1, UnwindHolds, Zenon
    <3> QED BY <2>2, <3>2, ApplyKeeps, Zenon DEF Reorg
  <2>3. CASE UNCHANGED vars
    <3>1. /\ tip' = tip /\ high' = high /\ commits' = commits /\ reveals' = reveals
          /\ replayed' = replayed /\ store' = store
      BY <2>3, Zenon DEF vars
    <3>2. TypeOK' /\ RevealsCommitted'
      BY <3>1 DEF CommitInv, TypeOK, RevealsCommitted
    <3> QED BY <3>1, <3>2, Zenon DEF CommitInv
  <2> QED BY <2>1, <2>2, <2>3, Zenon DEF Next
<1> QED BY <1>1, <1>2, PTL DEF Spec

(* The commit store, the journal and the chain keep their types: every     *)
(* journal entry of journalConsumed names a committer and a height.        *)
THEOREM CommitTypes == Spec => []TypeOK
<1>1. CommitInv => TypeOK
  BY Zenon DEF CommitInv
<1> QED BY <1>1, CommitInvariant, PTL

(* commitFromPending admits a committer's hash once at a time, through any *)
(* sequence of blocks and reorgs.                                          *)
THEOREM SingleInclusionCorrect == Spec => []SingleInclusion
<1>1. CommitInv => SingleInclusion
  <2> SUFFICES ASSUME CommitInv
               PROVE  SingleInclusion
    OBVIOUS
  <2>1. Single(replayed[tip]) /\ store.pending = replayed[tip].pending
    BY DEF CommitInv, TypeOK, Heights
  <2> QED BY <2>1 DEF Single, SingleInclusion
<1> QED BY <1>1, CommitInvariant, PTL

(* The node's store holds what the blocks of its chain leave pending.      *)
THEOREM PendingCorrect == Spec => []PendingExact
<1>1. CommitInv => PendingExact
  <2> SUFFICES ASSUME CommitInv
               PROVE  PendingExact
    OBVIOUS
  <2>1. ExactAt(replayed[tip], commits, reveals, tip) /\ store.pending = replayed[tip].pending
    BY DEF CommitInv, TypeOK, Heights
  <2> QED BY <2>1 DEF ExactAt, PendingAt, PendingExact
<1> QED BY <1>1, CommitInvariant, PTL

(* Every reveal of the chain spends a commitment of its own, strictly      *)
(* below it and within its window.                                         *)
THEOREM RevealsCorrect == Spec => []RevealsCommitted
<1>1. CommitInv => RevealsCommitted
  BY Zenon DEF CommitInv
<1> QED BY <1>1, CommitInvariant, PTL

(* Unwinding gives back every commitment above what was ever pruned.       *)
THEOREM RestoreCorrect == Spec => []UnwindExactInWindow
<1>1. CommitInv => UnwindExactInWindow
  BY UnwindRestores
<1> QED BY <1>1, CommitInvariant, PTL
=============================================================================
