----------------------------- MODULE SumLemmas ------------------------------
(***************************************************************************)
(* Sums over finite sets, for the proofs about money: what                 *)
(* SumFunctionOnSet computes in one step, that the order of the summands   *)
(* does not matter, and what happens to a sum when summands change, are    *)
(* added up or are grouped.                                                *)
(***************************************************************************)
EXTENDS Integers, Functions, TLAPS, FiniteSetTheorems

(* Any sets of a finite set's elements have a smallest among them, which   *)
(* is how facts about sums are proved: no smallest set violates them.      *)
LEMMA Smallest ==
    ASSUME NEW S, IsFiniteSet(S), NEW T, T \subseteq SUBSET S, T # {}
    PROVE  \E U \in T : \A V \in T : V \subseteq U => V = U
  <1>1. IsWellFoundedOn(StrictSubsetOrdering(S), FiniteSubsetsOf(S)) /\ T \subseteq FiniteSubsetsOf(S)
    BY FS_StrictSubsetOrderingWellFounded, FS_FiniteSubsetsOfFinite
  <1>2. PICK U \in T : \A V \in T : ~(<<V, U>> \in StrictSubsetOrdering(S))
    BY <1>1, WFMin
  <1>3. ASSUME NEW V \in T, V \subseteq U PROVE V = U
    <2>1. V \in SUBSET S /\ U \in SUBSET S
      OBVIOUS
    <2> QED
      BY <1>2, <1>3, <2>1, Zenon DEF StrictSubsetOrdering
  <1> QED
    BY <1>3, Zenon

(* The element that a sum takes next. *)
Pick(s) == CHOOSE x \in s : TRUE

(* It is an element. *)
LEMMA PickIn == ASSUME NEW s, s # {} PROVE Pick(s) \in s
  BY DEF Pick

(* F sums f over every subset of U, as MapThenFoldSet computes it. *)
Sums(f, U, F) ==
    F = [s \in SUBSET U |-> IF s = {} THEN 0 ELSE f[Pick(s)] + F[s \ {Pick(s)}]]

(* One function does ... *)
LEMMA SumsUnique ==
    ASSUME NEW f, NEW U, NEW V, NEW F, NEW G, IsFiniteSet(U), Sums(f, U, F), Sums(f, V, G),
           NEW w, w \subseteq U, w \subseteq V
    PROVE  F[w] = G[w]
  <1> DEFINE T == {s \in SUBSET U : s \subseteq V /\ F[s] # G[s]}
  <1>1. SUFFICES ASSUME T # {} PROVE FALSE
    OBVIOUS
  <1>2. PICK s \in T : \A t \in T : t \subseteq s => t = s
    <2>1. T \subseteq SUBSET U
      OBVIOUS
    <2> HIDE DEF T
    <2> QED
      BY <1>1, <2>1, Smallest
  <1>3. CASE s = {}
    BY <1>3 DEF Sums
  <1>4. CASE s # {}
    <2> DEFINE t == s \ {Pick(s)}
    <2>1. t \subseteq U /\ t \subseteq V /\ t \subseteq s /\ t # s
      BY <1>4, PickIn
    <2>2. F[t] = G[t]
      BY <1>2, <2>1
    <2>3. F[s] = f[Pick(s)] + F[t] /\ G[s] = f[Pick(s)] + G[t]
      BY <1>4, Zenon DEF Sums
    <2> QED
      BY <2>2, <2>3
  <1> QED
    BY <1>3, <1>4

(* ... and there is one. *)
LEMMA SumsExist ==
    ASSUME NEW f, NEW S, IsFiniteSet(S)
    PROVE  \E F : Sums(f, S, F)
  <1> DEFINE T == {U \in SUBSET S : ~\E F : Sums(f, U, F)}
  <1>1. SUFFICES ASSUME T # {} PROVE FALSE
    OBVIOUS
  <1>2. PICK U \in T : \A V \in T : V \subseteq U => V = U
    <2>1. T \subseteq SUBSET S
      OBVIOUS
    <2> HIDE DEF T
    <2> QED
      BY <1>1, <2>1, Smallest
  <1> DEFINE Of(V) == CHOOSE F : Sums(f, V, F)
             step(s) == s \ {Pick(s)}
             G == [s \in SUBSET U |-> IF s = {} THEN 0 ELSE f[Pick(s)] + Of(step(s))[step(s)]]
  <1>3. ASSUME NEW V \in SUBSET U, V # U PROVE Sums(f, V, Of(V))
    <2>1. \E F : Sums(f, V, F)
      BY <1>2, <1>3
    <2> QED
      BY <2>1
  <1> HIDE DEF Of
  <1>4. /\ G = [s \in SUBSET U |-> G[s]]
        /\ \A s \in SUBSET U : G[s] = IF s = {} THEN 0 ELSE f[Pick(s)] + Of(step(s))[step(s)]
    BY Zenon
  <1> HIDE DEF G
  <1>5. ASSUME NEW s \in SUBSET U, s # {} PROVE G[step(s)] = Of(step(s))[step(s)]
    <2> DEFINE w == step(s)
    <2>1. w \in SUBSET U /\ w # U /\ IsFiniteSet(w)
      BY <1>5, PickIn, FS_Subset
    <2>2. Sums(f, w, Of(w))
      BY <1>3, <2>1
    <2>3. CASE w = {}
      <3>1. Of(w)[w] = 0
        BY <2>2, <2>3, Zenon DEF Sums
      <3> QED
        BY <1>4, <2>1, <2>3, <3>1, Zenon
    <2>4. CASE w # {}
      <3>1. step(w) \in SUBSET U /\ step(w) # U /\ step(w) \subseteq w
        BY <2>1, <2>4, PickIn
      <3>2. Sums(f, step(w), Of(step(w)))
        BY <1>3, <3>1, Zenon
      <3>3. Of(w)[w] = f[Pick(w)] + Of(w)[step(w)]
        BY <2>2, <2>4, Zenon DEF Sums
      <3>4. Of(w)[step(w)] = Of(step(w))[step(w)]
        BY <2>1, <2>2, <3>1, <3>2, SumsUnique
      <3> QED
        BY <1>4, <2>1, <2>4, <3>3, <3>4, Zenon
    <2> QED
      BY <2>3, <2>4, Zenon
  <1>6. Sums(f, U, G)
    <2>1. \A s \in SUBSET U : G[s] = IF s = {} THEN 0 ELSE f[Pick(s)] + G[s \ {Pick(s)}]
      BY <1>4, <1>5, Zenon
    <2> QED
      BY <1>4, <2>1, Zenon DEF Sums
  <1> QED
    BY <1>2, <1>6
(* This is what Sum computes, ... *)
LEMMA SumIs ==
    ASSUME NEW f, NEW S, IsFiniteSet(S)
    PROVE  \E F : Sums(f, S, F) /\ SumFunctionOnSet(f, S) = F[S]
  <1> DEFINE F == CHOOSE F : Sums(f, S, F)
  <1>1. Sums(f, S, F)
    BY SumsExist
  <1>2. SumFunctionOnSet(f, S) = F[S]
    BY Zenon DEF SumFunctionOnSet, FoldFunctionOnSet, MapThenFoldSet, Sums, Pick
  <1> QED
    BY <1>1, <1>2, Zenon

(* ... in one step: nothing of nothing, or the next element and the rest. *)
LEMMA SumStep ==
    ASSUME NEW f, NEW S, IsFiniteSet(S)
    PROVE  /\ S = {} => SumFunctionOnSet(f, S) = 0
           /\ S # {} => SumFunctionOnSet(f, S) = f[Pick(S)] + SumFunctionOnSet(f, S \ {Pick(S)})
  <1>1. PICK F : Sums(f, S, F) /\ SumFunctionOnSet(f, S) = F[S]
    BY SumIs
  <1> DEFINE w == S \ {Pick(S)}
  <1>2. IsFiniteSet(w) /\ w \subseteq S
    BY FS_Subset
  <1>3. PICK G : Sums(f, w, G) /\ SumFunctionOnSet(f, w) = G[w]
    BY <1>2, SumIs, Zenon
  <1>4. F[w] = G[w]
    BY <1>1, <1>2, <1>3, SumsUnique
  <1>5. F[S] = IF S = {} THEN 0 ELSE f[Pick(S)] + F[w]
    BY <1>1, Zenon DEF Sums
  <1> QED
    BY <1>1, <1>3, <1>4, <1>5, Zenon

(* Integers sum up to an integer, ... *)
LEMMA SumInteger ==
    ASSUME NEW S, IsFiniteSet(S), NEW f, \A x \in S : f[x] \in Int
    PROVE  SumFunctionOnSet(f, S) \in Int
  <1> DEFINE T == {W \in SUBSET S : SumFunctionOnSet(f, W) \notin Int}
  <1>1. SUFFICES ASSUME T # {} PROVE FALSE
    OBVIOUS
  <1>2. PICK W \in T : \A V \in T : V \subseteq W => V = W
    <2>1. T \subseteq SUBSET S
      OBVIOUS
    <2> HIDE DEF T
    <2> QED
      BY <1>1, <2>1, Smallest
  <1>3. IsFiniteSet(W)
    BY FS_Subset
  <1>4. W # {} /\ Pick(W) \in W
    <2>1. SumFunctionOnSet(f, {}) = 0
      BY SumStep, FS_EmptySet, Zenon
    <2>2. W # {}
      BY <2>1
    <2> QED
      BY <2>2, PickIn
  <1>5. SumFunctionOnSet(f, W \ {Pick(W)}) \in Int
    BY <1>2, <1>4
  <1> QED
    BY <1>3, <1>4, <1>5, SumStep

(* ... and amounts to an amount. *)
LEMMA SumType ==
    ASSUME NEW S, IsFiniteSet(S), NEW f, \A x \in S : f[x] \in Nat
    PROVE  SumFunctionOnSet(f, S) \in Nat
  <1> DEFINE T == {W \in SUBSET S : SumFunctionOnSet(f, W) \notin Nat}
  <1>1. SUFFICES ASSUME T # {} PROVE FALSE
    OBVIOUS
  <1>2. PICK W \in T : \A V \in T : V \subseteq W => V = W
    <2>1. T \subseteq SUBSET S
      OBVIOUS
    <2> HIDE DEF T
    <2> QED
      BY <1>1, <2>1, Smallest
  <1>3. IsFiniteSet(W)
    BY FS_Subset
  <1>4. W # {} /\ Pick(W) \in W
    <2>1. SumFunctionOnSet(f, {}) = 0
      BY SumStep, FS_EmptySet, Zenon
    <2>2. W # {}
      BY <2>1
    <2> QED
      BY <2>2, PickIn
  <1>5. SumFunctionOnSet(f, W \ {Pick(W)}) \in Nat
    BY <1>2, <1>4
  <1> QED
    BY <1>3, <1>4, <1>5, SumStep

(* Any element may be taken first. *)
LEMMA SumTake ==
    ASSUME NEW S, IsFiniteSet(S), NEW f, \A x \in S : f[x] \in Int, NEW a \in S
    PROVE  SumFunctionOnSet(f, S) = f[a] + SumFunctionOnSet(f, S \ {a})
  <1> DEFINE T == {W \in SUBSET S : \E x \in W : SumFunctionOnSet(f, W) # f[x] + SumFunctionOnSet(f, W \ {x})}
  <1>1. SUFFICES ASSUME T # {} PROVE FALSE
    BY Zenon
  <1>2. PICK W \in T : \A V \in T : V \subseteq W => V = W
    <2>1. T \subseteq SUBSET S
      OBVIOUS
    <2> HIDE DEF T
    <2> QED
      BY <1>1, <2>1, Smallest
  <1>3. PICK x \in W : SumFunctionOnSet(f, W) # f[x] + SumFunctionOnSet(f, W \ {x})
    OBVIOUS
  <1> DEFINE p == Pick(W)
  <1>4. p \in W /\ IsFiniteSet(W) /\ IsFiniteSet(W \ {x, p})
    BY <1>3, PickIn, FS_Subset, Zenon
  <1>5. SumFunctionOnSet(f, W) = f[p] + SumFunctionOnSet(f, W \ {p})
    BY <1>3, <1>4, SumStep, Zenon
  <1>6. p # x
    BY <1>3, <1>5, Zenon
  <1> HIDE DEF p
  <1>7. ASSUME NEW y \in W, NEW z \in W, y # z
        PROVE  SumFunctionOnSet(f, W \ {y}) = f[z] + SumFunctionOnSet(f, (W \ {y}) \ {z})
    <2>1. W \ {y} \in SUBSET S /\ W \ {y} \notin T
      BY <1>2, Zenon
    <2> QED
      BY <1>7, <2>1, Zenon
  <1>8. /\ SumFunctionOnSet(f, W \ {p}) = f[x] + SumFunctionOnSet(f, (W \ {p}) \ {x})
        /\ SumFunctionOnSet(f, W \ {x}) = f[p] + SumFunctionOnSet(f, (W \ {x}) \ {p})
    BY <1>4, <1>6, <1>7, Zenon
  <1>9. (W \ {x}) \ {p} = W \ {x, p} /\ (W \ {p}) \ {x} = W \ {x, p}
    BY Zenon
  <1>10. SumFunctionOnSet(f, W \ {x, p}) \in Int /\ f[x] \in Int /\ f[p] \in Int
    BY <1>4, SumInteger, Zenon
  <1> DEFINE r == SumFunctionOnSet(f, W \ {x, p})
  <1>11. /\ SumFunctionOnSet(f, W) = f[p] + (f[x] + r)
         /\ SumFunctionOnSet(f, W \ {x}) = f[p] + r
    BY <1>5, <1>8, <1>9, Zenon
  <1>12. f[p] + (f[x] + r) = f[x] + (f[p] + r)
    <2> HIDE DEF r, T
    <2> QED
      BY <1>10 DEF r
  <1> QED
    BY <1>3, <1>11, <1>12, Zenon

(* A sum depends on nothing but the summands. *)
LEMMA SumSame ==
    ASSUME NEW S, IsFiniteSet(S), NEW f, NEW g, \A x \in S : f[x] = g[x]
    PROVE  SumFunctionOnSet(f, S) = SumFunctionOnSet(g, S)
  <1> DEFINE T == {W \in SUBSET S : SumFunctionOnSet(f, W) # SumFunctionOnSet(g, W)}
  <1>1. SUFFICES ASSUME T # {} PROVE FALSE
    BY Zenon
  <1>2. PICK W \in T : \A V \in T : V \subseteq W => V = W
    <2>1. T \subseteq SUBSET S
      BY Zenon
    <2> HIDE DEF T
    <2> QED
      BY <1>1, <2>1, Smallest
  <1>3. IsFiniteSet(W)
    BY FS_Subset, Zenon
  <1>4. W # {} /\ Pick(W) \in W
    <2>1. SumFunctionOnSet(f, {}) = 0 /\ SumFunctionOnSet(g, {}) = 0
      BY SumStep, FS_EmptySet, Zenon
    <2>2. W # {}
      BY <2>1
    <2> QED
      BY <2>2, PickIn, Zenon
  <1>5. SumFunctionOnSet(f, W \ {Pick(W)}) = SumFunctionOnSet(g, W \ {Pick(W)})
    BY <1>2, <1>4
  <1> QED
    BY <1>3, <1>4, <1>5, SumStep

(* One summand changes. *)
LEMMA SumPut ==
    ASSUME NEW S, IsFiniteSet(S), NEW f, NEW g, NEW a \in S,
           \A x \in S : f[x] \in Nat /\ g[x] \in Nat, \A x \in S \ {a} : g[x] = f[x]
    PROVE  SumFunctionOnSet(g, S) = SumFunctionOnSet(f, S) - f[a] + g[a] /\ SumFunctionOnSet(f, S) >= f[a]
  <1>1. IsFiniteSet(S \ {a})
    BY FS_Subset
  <1>2. SumFunctionOnSet(g, S \ {a}) = SumFunctionOnSet(f, S \ {a})
    BY <1>1, SumSame
  <1>3. SumFunctionOnSet(f, S \ {a}) \in Nat
    BY <1>1, SumType, Zenon
  <1>4. \A x \in S : f[x] \in Int /\ g[x] \in Int
    OBVIOUS
  <1>5. /\ SumFunctionOnSet(f, S) = f[a] + SumFunctionOnSet(f, S \ {a})
        /\ SumFunctionOnSet(g, S) = g[a] + SumFunctionOnSet(g, S \ {a})
    BY <1>4, SumTake, Zenon
  <1> QED
    BY <1>2, <1>3, <1>5

(* Equal summands. *)
LEMMA SumEqual ==
    ASSUME NEW S, IsFiniteSet(S), NEW f, NEW n \in Nat, \A x \in S : f[x] = n
    PROVE  SumFunctionOnSet(f, S) = n * Cardinality(S)
  <1> DEFINE T == {W \in SUBSET S : SumFunctionOnSet(f, W) # n * Cardinality(W)}
  <1>1. SUFFICES ASSUME T # {} PROVE FALSE
    OBVIOUS
  <1>2. PICK W \in T : \A V \in T : V \subseteq W => V = W
    <2>1. T \subseteq SUBSET S
      OBVIOUS
    <2> HIDE DEF T
    <2> QED
      BY <1>1, <2>1, Smallest
  <1>3. IsFiniteSet(W)
    BY FS_Subset, Zenon
  <1>4. W # {} /\ Pick(W) \in W
    <2>1. SumFunctionOnSet(f, {}) = 0 /\ Cardinality({}) = 0 /\ n * 0 = 0
      BY SumStep, FS_EmptySet
    <2>2. W # {}
      BY <2>1, Zenon
    <2> QED
      BY <2>2, PickIn, Zenon
  <1> DEFINE w == W \ {Pick(W)}
  <1>5. SumFunctionOnSet(f, w) = n * Cardinality(w)
    BY <1>2, <1>4
  <1>6. Cardinality(W) = Cardinality(w) + 1 /\ Cardinality(w) \in Nat
    <2>1. /\ Cardinality(W) \in Nat /\ Cardinality(w) = Cardinality(W) - 1
          /\ IsFiniteSet(w)
      BY <1>3, <1>4, FS_RemoveElement, FS_CardinalityType, Zenon
    <2>2. Cardinality(w) \in Nat
      BY <2>1, FS_CardinalityType, Zenon
    <2> QED
      BY <2>1, <2>2
  <1>7. SumFunctionOnSet(f, W) = n + n * Cardinality(w)
    BY <1>3, <1>4, <1>5, SumStep, Zenon
  <1> HIDE DEF w
  <1>8. n + n * Cardinality(w) = n * (Cardinality(w) + 1)
    BY <1>6
  <1> QED
    BY <1>6, <1>7, <1>8, Zenon

(* Summands are added and subtracted one by one. *)
LEMMA SumLinear ==
    ASSUME NEW S, IsFiniteSet(S), NEW f, NEW g, NEW h, NEW k,
           \A x \in S : f[x] \in Int /\ g[x] \in Int /\ h[x] \in Int /\ k[x] = f[x] + g[x] - h[x]
    PROVE  SumFunctionOnSet(k, S) =
               SumFunctionOnSet(f, S) + SumFunctionOnSet(g, S) - SumFunctionOnSet(h, S)
  <1> DEFINE sum(e, W) == SumFunctionOnSet(e, W)
             T == {W \in SUBSET S : sum(k, W) # sum(f, W) + sum(g, W) - sum(h, W)}
  <1>1. SUFFICES ASSUME T # {} PROVE FALSE
    BY Zenon
  <1>2. PICK W \in T : \A V \in T : V \subseteq W => V = W
    <2>1. T \subseteq SUBSET S
      BY Zenon
    <2> HIDE DEF T
    <2> QED
      BY <1>1, <2>1, Smallest
  <1>3. IsFiniteSet(W) /\ W \subseteq S
    BY FS_Subset, Zenon
  <1>4. W # {}
    <2>1. sum(f, {}) = 0 /\ sum(g, {}) = 0 /\ sum(h, {}) = 0 /\ sum(k, {}) = 0
      BY SumStep, FS_EmptySet, Zenon
    <2> HIDE DEF sum
    <2> QED
      BY <2>1
  <1> DEFINE p == Pick(W)
             w == W \ {p}
  <1>5. p \in W /\ w \in SUBSET S /\ w # W /\ IsFiniteSet(w) /\ w \subseteq W
    BY <1>3, <1>4, PickIn, FS_Subset
  <1>6. sum(k, w) = sum(f, w) + sum(g, w) - sum(h, w)
    BY <1>2, <1>5, Zenon
  <1>7. sum(f, w) \in Int /\ sum(g, w) \in Int /\ sum(h, w) \in Int
    BY <1>5, SumInteger, Zenon
  <1>8. /\ sum(f, W) = f[p] + sum(f, w) /\ sum(g, W) = g[p] + sum(g, w)
        /\ sum(h, W) = h[p] + sum(h, w) /\ sum(k, W) = k[p] + sum(k, w)
    BY <1>3, <1>4, SumStep, Zenon
  <1>9. f[p] \in Int /\ g[p] \in Int /\ h[p] \in Int /\ k[p] = f[p] + g[p] - h[p]
    BY <1>5, <1>3, Zenon
  <1>10. sum(k, W) # sum(f, W) + sum(g, W) - sum(h, W)
    BY Zenon
  <1> HIDE DEF sum, w, p, T
  <1> QED
    BY <1>6, <1>7, <1>8, <1>9, <1>10

(* Summands that are all zero, ... *)
LEMMA SumZero ==
    ASSUME NEW S, IsFiniteSet(S), NEW f, \A x \in S : f[x] = 0
    PROVE  SumFunctionOnSet(f, S) = 0
  <1>1. SumFunctionOnSet(f, S) = 0 * Cardinality(S) /\ Cardinality(S) \in Nat
    BY SumEqual, FS_CardinalityType
  <1> QED
    BY <1>1

(* ... or all but one. *)
LEMMA SumOne ==
    ASSUME NEW S, IsFiniteSet(S), NEW f, NEW a \in S, f[a] \in Int, \A x \in S \ {a} : f[x] = 0
    PROVE  SumFunctionOnSet(f, S) = f[a]
  <1>1. IsFiniteSet(S \ {a})
    BY FS_Subset
  <1>2. SumFunctionOnSet(f, S \ {a}) = 0
    BY <1>1, SumZero, Zenon
  <1>3. \A x \in S : f[x] \in Int
    OBVIOUS
  <1>4. SumFunctionOnSet(f, S) = f[a] + SumFunctionOnSet(f, S \ {a})
    BY <1>3, SumTake, Zenon
  <1> QED
    BY <1>2, <1>4

(* The sum of the sums of groups is the sum of all. *)
LEMMA SumGroups ==
    ASSUME NEW S, IsFiniteSet(S), NEW M, IsFiniteSet(M), NEW w, \A x \in S : w[x] \in Int,
           NEW of, \A x \in S : of[x] \in M
    PROVE  SumFunctionOnSet([m \in M |-> SumFunctionOnSet(w, {x \in S : of[x] = m})], M) =
               SumFunctionOnSet(w, S)
  <1> DEFINE group(W, m) == {x \in W : of[x] = m}
             groups(W) == [m \in M |-> SumFunctionOnSet(w, group(W, m))]
             T == {W \in SUBSET S : SumFunctionOnSet(groups(W), M) # SumFunctionOnSet(w, W)}
  <1>1. SUFFICES ASSUME T # {} PROVE FALSE
    BY Zenon
  <1>2. PICK W \in T : \A V \in T : V \subseteq W => V = W
    <2>1. T \subseteq SUBSET S
      BY Zenon
    <2> HIDE DEF T
    <2> QED
      BY <1>1, <2>1, Smallest
  <1>3. IsFiniteSet(W) /\ W \subseteq S
    BY FS_Subset, Zenon
  <1>4. W # {}
    <2>1. SUFFICES ASSUME W = {} PROVE FALSE
      BY Zenon
    <2>2. \A m \in M : group(W, m) = {}
      BY <2>1
    <2>3. \A m \in M : groups(W)[m] = 0
      BY <2>2, SumStep, FS_EmptySet, Zenon
    <2>4. SumFunctionOnSet(groups(W), M) = 0 /\ SumFunctionOnSet(w, W) = 0
      <3> HIDE DEF groups
      <3> QED
        BY <2>1, <2>3, SumZero, SumStep, FS_EmptySet, Zenon
    <2> QED
      BY <2>4, Zenon
  <1> DEFINE p == Pick(W)
             V == W \ {p}
             one == [m \in M |-> IF m = of[p] THEN w[p] ELSE 0]
             none == [m \in M |-> 0]
  <1>5. p \in W /\ V \in SUBSET S /\ V # W /\ IsFiniteSet(V) /\ V \subseteq W /\ p \in S
    BY <1>3, <1>4, PickIn, FS_Subset
  <1>6. SumFunctionOnSet(groups(V), M) = SumFunctionOnSet(w, V)
    BY <1>2, <1>5, Zenon
  <1>7. SumFunctionOnSet(w, W) = w[p] + SumFunctionOnSet(w, V)
    BY <1>3, <1>4, SumStep, Zenon
  <1>8. w[p] \in Int /\ of[p] \in M
    BY <1>5, Zenon
  <1> HIDE DEF p
  <1>9. ASSUME NEW m \in M
        PROVE  /\ groups(V)[m] \in Int
               /\ groups(W)[m] = groups(V)[m] + one[m] - none[m]
    <2>1. /\ IsFiniteSet(group(W, m)) /\ IsFiniteSet(group(V, m))
          /\ group(W, m) \subseteq S /\ group(V, m) \subseteq S
      BY <1>3, <1>5, FS_Subset
    <2>2. \A x \in group(W, m) : w[x] \in Int
      BY <2>1, Zenon
    <2>3. SumFunctionOnSet(w, group(V, m)) \in Int
      BY <2>1, SumInteger, Zenon
    <2>4. CASE m = of[p]
      <3>1. p \in group(W, m) /\ group(V, m) = group(W, m) \ {p}
        BY <2>4, <1>5, Zenon
      <3> HIDE DEF group
      <3>2. SumFunctionOnSet(w, group(W, m)) = w[p] + SumFunctionOnSet(w, group(W, m) \ {p})
        BY <3>1, <2>1, <2>2, SumTake, Zenon
      <3>3. SumFunctionOnSet(w, group(W, m)) = w[p] + SumFunctionOnSet(w, group(V, m))
        BY <3>1, <3>2, Zenon
      <3> QED
        BY <3>3, <2>3, <2>4, <1>8
    <2>5. CASE m # of[p]
      <3>1. group(V, m) = group(W, m)
        BY <2>5, <1>5
      <3> HIDE DEF group
      <3> QED
        BY <3>1, <2>3, <2>5
    <2> QED
      BY <2>4, <2>5, Zenon
  <1>10. SumFunctionOnSet(one, M) = w[p] /\ SumFunctionOnSet(none, M) = 0
    <2>1. one[of[p]] = w[p] /\ \A m \in M \ {of[p]} : one[m] = 0
      BY <1>8
    <2>2. \A m \in M : none[m] = 0
      BY Zenon
    <2> HIDE DEF one, none
    <2>3. one[of[p]] \in Int
      BY <2>1, <1>8, Zenon
    <2>4. SumFunctionOnSet(one, M) = one[of[p]]
      BY <2>1, <2>3, <1>8, SumOne, Zenon
    <2>5. SumFunctionOnSet(none, M) = 0
      BY <2>2, SumZero, Zenon
    <2> QED
      BY <2>1, <2>4, <2>5, Zenon
  <1>11. \A m \in M : one[m] \in Int /\ none[m] \in Int
    BY <1>8
  <1>12. SumFunctionOnSet(groups(W), M) =
            SumFunctionOnSet(groups(V), M) + SumFunctionOnSet(one, M) - SumFunctionOnSet(none, M)
    <2> HIDE DEF groups, one, none
    <2>1. \A m \in M : /\ groups(V)[m] \in Int /\ one[m] \in Int /\ none[m] \in Int
                       /\ groups(W)[m] = groups(V)[m] + one[m] - none[m]
      BY <1>9, <1>11, Zenon
    <2> DEFINE before == groups(V)
               after == groups(W)
    <2>2. \A m \in M : /\ before[m] \in Int /\ one[m] \in Int /\ none[m] \in Int
                       /\ after[m] = before[m] + one[m] - none[m]
      BY <2>1, Zenon
    <2> HIDE DEF before, after
    <2>3. SumFunctionOnSet(after, M) =
             SumFunctionOnSet(before, M) + SumFunctionOnSet(one, M) - SumFunctionOnSet(none, M)
      BY <2>2, SumLinear
    <2> QED
      BY <2>3, Zenon DEF before, after
  <1>13. SumFunctionOnSet(w, V) \in Int
    BY <1>5, SumInteger, Zenon
  <1>14. SumFunctionOnSet(groups(W), M) # SumFunctionOnSet(w, W)
    BY Zenon
  <1> HIDE DEF groups, one, none, V, T
  <1> QED
    BY <1>6, <1>7, <1>8, <1>10, <1>12, <1>13, <1>14

=============================================================================
