--------------------------- MODULE ContractProofs ---------------------------
(***************************************************************************)
(* Proofs about Contracts, for every set of addresses, modules, keys and   *)
(* transactions, and every choice of the bounds.                           *)
(*                                                                         *)
(* In three parts: the invariant of slots, of the code bucket and of the   *)
(* escrow, and what setContract, delContract, releasing and pinning        *)
(* dependencies and host operations do to it; the handlers of              *)
(* state_handle.go; and the steps of the specification with the theorems.  *)
(***************************************************************************)
EXTENDS Contracts, SumLemmas

SlotMaps == [Addrs -> Slots \cup {NoSlot}]

CodeMaps == [Codes -> Nat \cup {NoCode}]

(* What all accounts have together. *)
Worth(balance) == SumFunctionOnSet(balance, Accounts)

(* The deposits on record, as Rents sums them. *)
RentOf(slots) == [a \in Addrs |-> IF slots[a] = NoSlot THEN 0 ELSE slots[a].rent]

(* The contracts that import x. *)
Importers(slots, x) == {b \in Addrs : slots[b] # NoSlot /\ x \in slots[b].deps}

(* The contracts that have module c. *)
Users(slots, c) == {a \in Addrs : slots[a] # NoSlot /\ slots[a].code = c}

(* RefsExact of any slots, and that no contract imports itself. *)
RefsOf(slots) ==
    \A a \in Addrs : slots[a] # NoSlot =>
        /\ a \notin slots[a].deps
        /\ slots[a].refs = Cardinality(Importers(slots, a))
        /\ \A b \in slots[a].deps : slots[b] # NoSlot

(* CodeHeld of any slots and code bucket. *)
CodeOf(slots, code) ==
    /\ \A a \in Addrs : slots[a] # NoSlot => code[slots[a].code] # NoCode
    /\ ~archive => \A c \in Codes :
         code[c] = IF Users(slots, c) = {} THEN NoCode ELSE Cardinality(Users(slots, c))

(* EscrowCovers of any balances and slots, where it is claimed. *)
Covers(balance, slots) == QuietHooks => Rents(slots) <= balance[Escrow]

Good(d) ==
    /\ d \in DBs
    /\ RefsOf(d.slots) /\ CodeOf(d.slots, d.code)
    /\ Covers(d.balance, d.slots)

(* Two slots that a run cannot tell apart but by storage and deposit. *)
SameCode(s, t) == s.code = t.code /\ s.deps = t.deps /\ s.refs = t.refs

Alike(s, t) ==
    \A a \in Addrs : /\ s[a] = NoSlot <=> t[a] = NoSlot
                     /\ s[a] # NoSlot => SameCode(s[a], t[a])

(* The modules of code are in code2: an archive node drops none. *)
Kept(code, code2) == archive => \A c \in Codes : code[c] # NoCode => code2[c] # NoCode

(* The sets of contracts in the invariant are finite. *)
LEMMA FiniteContracts ==
    ASSUME NEW slots, NEW x
    PROVE  IsFiniteSet(Importers(slots, x)) /\ IsFiniteSet(Users(slots, x))
  BY ContractsAssumption, FS_Subset, Zenon DEF Importers, Users

(* What the invariant says is insensitive to storage and deposits. *)
LEMMA AlikeGood ==
    ASSUME NEW s \in SlotMaps, NEW t \in SlotMaps, Alike(s, t)
    PROVE  /\ RefsOf(t) => RefsOf(s)
           /\ \A code : CodeOf(t, code) => CodeOf(s, code)
  <1>1. ASSUME NEW x PROVE Importers(s, x) = Importers(t, x) /\ Users(s, x) = Users(t, x)
    BY Zenon DEF Alike, SameCode, Importers, Users
  <1>2. ASSUME NEW a \in Addrs, t[a] # NoSlot PROVE t[a].deps \subseteq Addrs
    BY <1>2, Zenon DEF SlotMaps, Slots
  <1>3. RefsOf(t) => RefsOf(s)
    BY <1>1, <1>2, Zenon DEF RefsOf, Alike, SameCode
  <1>4. ASSUME NEW code, CodeOf(t, code) PROVE CodeOf(s, code)
    BY <1>1, <1>4, Zenon DEF CodeOf, Alike, SameCode
  <1> QED
    BY <1>3, <1>4
(* The fields of a slot. *)
LEMMA SlotFields ==
    ASSUME NEW s \in Slots
    PROVE  /\ s # NoSlot
           /\ s.code \in Codes /\ s.deps \subseteq Addrs /\ s.refs \in Nat /\ s.rent \in Nat
           /\ s.kv \in [Keys -> 0 .. MaxBytes]
  BY SlotsAssumption, Zenon DEF Slots

(* Amounts of money. *)
LEMMA WorthType ==
    ASSUME NEW f \in [Accounts -> Nat]
    PROVE  Worth(f) \in Nat /\ IsFiniteSet(Accounts)
  <1>1. IsFiniteSet(Accounts)
    BY ContractsAssumption, FS_AddElement, Zenon DEF Accounts
  <1> QED
    BY <1>1, SumType, Zenon DEF Worth

(* One balance changes. *)
LEMMA WorthSet ==
    ASSUME NEW f \in [Accounts -> Nat], NEW a \in Accounts, NEW v \in Nat
    PROVE  Worth([f EXCEPT ![a] = v]) = Worth(f) - f[a] + v
  <1> DEFINE g == [f EXCEPT ![a] = v]
  <1>1. /\ g[a] = v /\ \A x \in Accounts \ {a} : g[x] = f[x]
        /\ \A x \in Accounts : f[x] \in Nat /\ g[x] \in Nat
    BY Zenon
  <1> HIDE DEF g
  <1>2. SumFunctionOnSet(g, Accounts) = SumFunctionOnSet(f, Accounts) - f[a] + g[a]
    BY ONLY <1>1, WorthType, SumPut
  <1> QED
    BY <1>1, <1>2, Zenon DEF Worth, g

(* The deposits of all contracts. *)
LEMMA RentsType ==
    ASSUME NEW s \in SlotMaps
    PROVE  /\ \A x \in Addrs : RentOf(s)[x] \in Nat
           /\ Rents(s) \in Nat /\ Rents(s) = SumFunctionOnSet(RentOf(s), Addrs)
  <1>1. \A x \in Addrs : RentOf(s)[x] \in Nat
    BY SlotFields, Zenon DEF RentOf, SlotMaps
  <1>2. Rents(s) = SumFunctionOnSet(RentOf(s), Addrs)
    BY DEF Rents, RentOf
  <1> QED
    BY <1>1, <1>2, ContractsAssumption, SumType

(* One deposit changes. *)
LEMMA RentsSet ==
    ASSUME NEW s \in SlotMaps, NEW t \in SlotMaps, NEW a \in Addrs,
           \A x \in Addrs \ {a} : RentOf(t)[x] = RentOf(s)[x]
    PROVE  Rents(t) = Rents(s) - RentOf(s)[a] + RentOf(t)[a]
  <1>1. /\ \A x \in Addrs : RentOf(s)[x] \in Nat /\ RentOf(t)[x] \in Nat
        /\ Rents(s) = SumFunctionOnSet(RentOf(s), Addrs) /\ Rents(t) = SumFunctionOnSet(RentOf(t), Addrs)
    BY RentsType, Zenon
  <1>2. IsFiniteSet(Addrs)
    BY ContractsAssumption, Zenon
  <1>3. SumFunctionOnSet(RentOf(t), Addrs) = SumFunctionOnSet(RentOf(s), Addrs) - RentOf(s)[a] + RentOf(t)[a]
    BY <1>1, <1>2, SumPut
  <1> QED
    BY <1>1, <1>3, Zenon

(* retainCode and releaseCode, pointwise. *)
LEMMA RetainFacts ==
    ASSUME NEW code \in CodeMaps, NEW c \in Codes
    PROVE  /\ retainCode(code, c) \in CodeMaps
           /\ retainCode(code, c)[c] = IF code[c] = NoCode THEN 1 ELSE code[c] + 1
           /\ \A x \in Codes \ {c} : retainCode(code, c)[x] = code[x]
  BY DEF retainCode, CodeMaps

(* releaseCode: the module goes with its last holder. *)
LEMMA ReleaseFacts ==
    ASSUME NEW code \in CodeMaps, NEW c \in Codes
    PROVE  /\ releaseCode(code, c) \in CodeMaps
           /\ code[c] = NoCode => releaseCode(code, c)[c] = NoCode
           /\ code[c] # NoCode /\ code[c] <= 1 =>
                releaseCode(code, c)[c] = IF archive THEN 0 ELSE NoCode
           /\ code[c] # NoCode /\ code[c] > 1 => releaseCode(code, c)[c] = code[c] - 1
           /\ \A x \in Codes \ {c} : releaseCode(code, c)[x] = code[x]
  BY SlotsAssumption DEF releaseCode, CodeMaps

(* The count of a module, as CodeOf has it. *)
Counted(n, U) == n = IF U = {} THEN NoCode ELSE Cardinality(U)

(* Counting one user more, and one less. *)
LEMMA CountUp ==
    ASSUME NEW n, NEW U, NEW a, IsFiniteSet(U), a \notin U, Counted(n, U)
    PROVE  Counted(IF n = NoCode THEN 1 ELSE n + 1, U \cup {a})
  <1>1. Cardinality(U) \in Nat /\ Cardinality(U \cup {a}) = Cardinality(U) + 1
    BY FS_CardinalityType, FS_AddElement, Zenon
  <1>2. U = {} => Cardinality(U) = 0
    BY FS_EmptySet, Zenon
  <1> QED
    BY <1>1, <1>2, SlotsAssumption DEF Counted

(* One user less, one less to count. *)
LEMMA CountDown ==
    ASSUME NEW n, NEW U, NEW a, IsFiniteSet(U), a \in U, Counted(n, U)
    PROVE  /\ n \in Nat /\ n # NoCode
           /\ n <= 1 => Counted(NoCode, U \ {a})
           /\ n > 1 => Counted(n - 1, U \ {a})
  <1>1. Cardinality(U) \in Nat /\ Cardinality(U \ {a}) = Cardinality(U) - 1
    BY FS_CardinalityType, FS_RemoveElement, Zenon
  <1>2. IsFiniteSet(U \ {a})
    BY FS_RemoveElement, Zenon
  <1>3. Cardinality(U) # 0 /\ (U \ {a} = {} <=> Cardinality(U \ {a}) = 0)
    BY <1>2, FS_EmptySet, Zenon
  <1> QED
    BY <1>1, <1>3, SlotsAssumption DEF Counted
(* What setContract does to the code bucket. *)
CodeAfterSet(slots, code, a, s) ==
    IF slots[a] = NoSlot THEN retainCode(code, s.code)
    ELSE IF slots[a].code = s.code THEN code
    ELSE retainCode(releaseCode(code, slots[a].code), s.code)

(* The users of a module after a slot is set. *)
LEMMA UsersAfterSet ==
    ASSUME NEW slots \in SlotMaps, NEW a \in Addrs, NEW s \in Slots, NEW c \in Codes
    PROVE  Users([slots EXCEPT ![a] = s], c) =
             IF s.code = c THEN Users(slots, c) \cup {a} ELSE Users(slots, c) \ {a}
  BY SlotFields, Zenon DEF Users, SlotMaps

(* setContract keeps the bucket right, and an archive node's modules. *)
LEMMA SetKeepsCode ==
    ASSUME NEW slots \in SlotMaps, NEW code \in CodeMaps, CodeOf(slots, code),
           NEW a \in Addrs, NEW s \in Slots
    PROVE  /\ CodeAfterSet(slots, code, a, s) \in CodeMaps
           /\ CodeOf([slots EXCEPT ![a] = s], CodeAfterSet(slots, code, a, s))
           /\ Kept(code, CodeAfterSet(slots, code, a, s))
  <1> DEFINE code2 == CodeAfterSet(slots, code, a, s)
             slots2 == [slots EXCEPT ![a] = s]
  <1>1. s.code \in Codes /\ s # NoSlot
    BY SlotFields, Zenon
  <1>2. ASSUME NEW b \in Addrs, slots[b] # NoSlot PROVE slots[b].code \in Codes
    BY <1>2, SlotFields, Zenon DEF SlotMaps
  <1>3. code2 \in CodeMaps
    BY <1>1, <1>2, RetainFacts, ReleaseFacts, Zenon DEF CodeAfterSet
  <1>4. Kept(code, code2)
    <2>1. SUFFICES ASSUME archive, NEW c \in Codes, code[c] # NoCode PROVE code2[c] # NoCode
      BY Zenon DEF Kept
    <2>2. \A x \in CodeMaps : x[c] # NoCode => retainCode(x, s.code)[c] # NoCode
      BY <1>1, RetainFacts, SlotsAssumption DEF CodeMaps
    <2>3. ASSUME NEW o \in Codes PROVE releaseCode(code, o)[c] # NoCode
      BY <2>1, ReleaseFacts, SlotsAssumption DEF CodeMaps
    <2> QED
      BY <1>1, <1>2, <2>1, <2>2, <2>3, ReleaseFacts, Zenon DEF CodeAfterSet
  <1>5. \A c \in Codes : Users(slots2, c) =
          IF s.code = c THEN Users(slots, c) \cup {a} ELSE Users(slots, c) \ {a}
    BY UsersAfterSet, ZenonT(30)
  <1>6. ASSUME ~archive, NEW c \in Codes PROVE Counted(code2[c], Users(slots2, c))
    <2>1. \A x \in Codes : Counted(code[x], Users(slots, x)) /\ IsFiniteSet(Users(slots, x))
      BY <1>6, FiniteContracts, Zenon DEF CodeOf, Counted
    <2>2. CASE slots[a] = NoSlot
      <3>1. a \notin Users(slots, c)
        BY <2>2, Zenon DEF Users
      <3>2. code2 = retainCode(code, s.code)
        BY <2>2, Zenon DEF CodeAfterSet
      <3>3. CASE s.code = c
        <4>1. code2[c] = IF code[c] = NoCode THEN 1 ELSE code[c] + 1
          BY <3>2, <3>3, RetainFacts
        <4>2. Users(slots2, c) = Users(slots, c) \cup {a}
          BY <1>5, <3>3, Zenon
        <4>3. Counted(IF code[c] = NoCode THEN 1 ELSE code[c] + 1, Users(slots, c) \cup {a})
          <5> HIDE DEF code2, slots2
          <5> QED
            BY ONLY <2>1, <3>1, c \in Codes, CountUp, Zenon
        <4> QED
          BY <4>1, <4>2, <4>3, Zenon
      <3>4. CASE s.code # c
        <4>1. Users(slots2, c) = Users(slots, c)
          BY <1>5, <3>1, <3>4, Zenon
        <4> QED
          BY <1>1, <2>1, <3>2, <3>4, <4>1, RetainFacts
      <3> QED
        BY <3>3, <3>4, Zenon
    <2>3. CASE slots[a] # NoSlot /\ slots[a].code = s.code
      <3>1. Users(slots2, c) = Users(slots, c)
        BY <1>5, <2>3 DEF Users
      <3> QED
        BY <2>1, <2>3, <3>1, Zenon DEF CodeAfterSet
    <2>4. CASE slots[a] # NoSlot /\ slots[a].code # s.code
      <3> DEFINE o == slots[a].code
                 mid == releaseCode(code, o)
      <3>1. code2 = retainCode(mid, s.code) /\ o \in Codes /\ mid \in CodeMaps
        BY <1>2, <2>4, ReleaseFacts, Zenon DEF CodeAfterSet
      <3>2. a \in Users(slots, o) /\ \A x \in Codes \ {o} : a \notin Users(slots, x)
        BY <2>4, Zenon DEF Users
      <3> HIDE DEF mid, o
      <3>3. mid[c] = IF c # o THEN code[c] ELSE IF code[o] <= 1 THEN NoCode ELSE code[o] - 1
        <4>1. code[o] \in Nat /\ code[o] # NoCode
          BY <2>1, <3>1, <3>2, CountDown, ZenonT(30)
        <4> QED
          BY <1>6, <3>1, <4>1, ReleaseFacts DEF mid
      <3>4. CASE c = o
        <4>1. Counted(mid[c], Users(slots, c) \ {a})
          BY <2>1, <3>1, <3>2, <3>3, <3>4, CountDown, SMTT(30)
        <4> QED
          <5>1. c # s.code
            BY <2>4, <3>4, Zenon DEF o
          <5> HIDE DEF code2, slots2
          <5>2. code2[c] = mid[c]
            BY ONLY <1>1, <3>1, <5>1, RetainFacts, SMTT(30)
          <5>3. Users(slots2, c) = Users(slots, c) \ {a}
            BY <1>5, <5>1, Zenon
          <5> QED
            BY <4>1, <5>2, <5>3, Zenon
      <3>5. CASE c = s.code
        <4>1. Counted(mid[c], Users(slots, c)) /\ a \notin Users(slots, c)
          BY <2>1, <2>4, <3>2, <3>3, <3>5, Zenon DEF o
        <4> QED
          <5>1. code2[c] = IF mid[c] = NoCode THEN 1 ELSE mid[c] + 1
            BY <1>1, <3>1, <3>5, RetainFacts
          <5>2. Users(slots2, c) = Users(slots, c) \cup {a}
            BY <1>5, <3>5, Zenon
          <5>3. Counted(IF mid[c] = NoCode THEN 1 ELSE mid[c] + 1, Users(slots, c) \cup {a})
            BY ONLY <2>1, <4>1, c \in Codes, CountUp, ZenonT(30)
          <5> QED
            BY <5>1, <5>2, <5>3, ZenonT(30)
      <3>6. CASE c # o /\ c # s.code
        <4>1. Users(slots2, c) = Users(slots, c)
          BY <1>5, <3>2, <3>6, ZenonT(30)
        <4> QED
          BY ONLY <1>1, <2>1, <3>1, <3>3, <3>6, <4>1, RetainFacts, SMTT(30)
      <3> QED
        BY <3>4, <3>5, <3>6, Zenon
    <2> QED
      BY <2>2, <2>3, <2>4, Zenon
  <1>7. ASSUME NEW b \in Addrs, slots2[b] # NoSlot PROVE code2[slots2[b].code] # NoCode
    <2>1. CASE ~archive
      <3>1. slots2[b].code \in Codes /\ b \in Users(slots2, slots2[b].code)
        BY <1>1, <1>2, <1>7, Zenon DEF Users, SlotMaps
      <3> HIDE DEF code2, slots2
      <3>2. Cardinality(Users(slots2, slots2[b].code)) \in Nat
        BY FiniteContracts, FS_CardinalityType, Zenon
      <3> QED
        BY <1>6, <2>1, <3>1, <3>2, SlotsAssumption, Zenon DEF Counted
    <2>2. CASE archive /\ b # a
      BY <1>2, <1>4, <1>7, <2>2, Zenon DEF CodeOf, Kept, SlotMaps
    <2>3. CASE archive /\ b = a
      <3>1. slots2[b] = s
        BY <2>3, Zenon DEF SlotMaps
      <3>2. \A x \in CodeMaps : retainCode(x, s.code)[s.code] # NoCode
        BY <1>1, RetainFacts, SlotsAssumption DEF CodeMaps
      <3>3. slots[a] # NoSlot => code[slots[a].code] # NoCode
        BY Zenon DEF CodeOf
      <3> QED
        BY <1>1, <1>2, <3>1, <3>2, <3>3, ReleaseFacts, Zenon DEF CodeAfterSet
    <2> QED
      BY <2>1, <2>2, <2>3, Zenon
  <1>8. CodeOf(slots2, code2)
    <2> HIDE DEF code2, slots2
    <2> QED
      BY <1>6, <1>7, Zenon DEF CodeOf, Counted
  <1> QED
    BY <1>3, <1>4, <1>8, Zenon
(* delContract keeps the bucket right, and an archive node's modules. *)
LEMMA DelKeepsCode ==
    ASSUME NEW slots \in SlotMaps, NEW code \in CodeMaps, CodeOf(slots, code),
           NEW a \in Addrs, slots[a] # NoSlot
    PROVE  /\ releaseCode(code, slots[a].code) \in CodeMaps
           /\ CodeOf([slots EXCEPT ![a] = NoSlot], releaseCode(code, slots[a].code))
           /\ Kept(code, releaseCode(code, slots[a].code))
  <1> DEFINE o == slots[a].code
             code2 == releaseCode(code, o)
             slots2 == [slots EXCEPT ![a] = NoSlot]
  <1>1. \A b \in Addrs : slots[b] # NoSlot => slots[b].code \in Codes
    BY SlotFields, Zenon DEF SlotMaps
  <1>2. o \in Codes
    BY <1>1, Zenon
  <1>3. \A b \in Addrs : slots2[b] = IF b = a THEN NoSlot ELSE slots[b]
    BY Zenon DEF SlotMaps
  <1>4. \A c \in Codes : Users(slots2, c) = Users(slots, c) \ {a}
    BY <1>3, Zenon DEF Users
  <1>5. a \in Users(slots, o) /\ \A c \in Codes \ {o} : a \notin Users(slots, c)
    BY Zenon DEF Users
  <1> HIDE DEF o, slots2
  <1>6. code2 \in CodeMaps /\ Kept(code, code2)
    BY <1>2, ReleaseFacts, SlotsAssumption, SMTT(30) DEF Kept, CodeMaps
  <1>7. ASSUME ~archive, NEW c \in Codes PROVE Counted(code2[c], Users(slots2, c))
    <2>1. Counted(code[c], Users(slots, c)) /\ IsFiniteSet(Users(slots, c))
      BY <1>7, FiniteContracts, Zenon DEF CodeOf, Counted
    <2>2. CASE c = o
      <3>1. /\ code[c] \in Nat /\ code[c] # NoCode
            /\ code[c] <= 1 => Counted(NoCode, Users(slots, c) \ {a})
            /\ code[c] > 1 => Counted(code[c] - 1, Users(slots, c) \ {a})
        BY <1>5, <2>1, <2>2, CountDown, ZenonT(30)
      <3>2. code2[c] = IF code[c] <= 1 THEN NoCode ELSE code[c] - 1
        BY <1>2, <1>7, <2>2, <3>1, ReleaseFacts
      <3> QED
        BY <1>4, <3>1, <3>2, SMTT(30)
    <2>3. CASE c # o
      <3>1. code2[c] = code[c]
        BY <1>2, <2>3, ReleaseFacts
      <3>2. Users(slots2, c) = Users(slots, c)
        BY <1>4, <1>5, <2>3, Zenon
      <3> QED
        BY <2>1, <3>1, <3>2, Zenon
    <2> QED
      BY <2>2, <2>3, Zenon
  <1>8. ASSUME NEW b \in Addrs, slots2[b] # NoSlot PROVE code2[slots2[b].code] # NoCode
    <2>1. slots2[b] = slots[b] /\ b # a /\ slots[b].code \in Codes /\ code[slots[b].code] # NoCode
      BY <1>1, <1>3, <1>8, Zenon DEF CodeOf
    <2>2. CASE archive
      BY <1>6, <2>1, <2>2, Zenon DEF Kept
    <2>3. CASE ~archive
      <3>1. b \in Users(slots2, slots[b].code)
        BY <1>8, <2>1, Zenon DEF Users
      <3>2. Cardinality(Users(slots2, slots[b].code)) \in Nat
        BY FiniteContracts, FS_CardinalityType, Zenon
      <3> QED
        BY <1>7, <2>1, <2>3, <3>1, <3>2, SlotsAssumption, Zenon DEF Counted
    <2> QED
      BY <2>2, <2>3, Zenon
  <1>9. CodeOf(slots2, code2)
    <2> HIDE DEF code2
    <2> QED
      BY <1>7, <1>8, Zenon DEF CodeOf, Counted
  <1> QED
    BY <1>6, <1>9, Zenon DEF o, slots2

(* The fields of a slot whose references are set. *)
LEMMA RefsSet ==
    ASSUME NEW s \in Slots, NEW n \in Nat
    PROVE  /\ [s EXCEPT !.refs = n] \in Slots
           /\ [s EXCEPT !.refs = n].refs = n
           /\ [s EXCEPT !.refs = n].code = s.code
           /\ [s EXCEPT !.refs = n].deps = s.deps
           /\ [s EXCEPT !.refs = n].rent = s.rent
           /\ [s EXCEPT !.refs = n].kv = s.kv
  BY Zenon DEF Slots
(* The fields of a state. *)
LEMMA DBFields ==
    ASSUME NEW d \in DBs
    PROVE  d.balance \in [Accounts -> Nat] /\ d.slots \in SlotMaps /\ d.code \in CodeMaps
  BY Zenon DEF DBs, SlotMaps, CodeMaps

(* releaseContractDeps and pinDeps on live dependencies, slot by slot. *)
LEMMA ReleasedSlots ==
    ASSUME NEW d \in DBs, NEW S \in SUBSET Addrs, \A x \in S : d.slots[x] # NoSlot
    PROVE  LET e == releaseContractDeps(d, S)
           IN  /\ e \in DBs /\ e.balance = d.balance /\ e.code = d.code
               /\ \A x \in Addrs :
                    /\ e.slots[x] = NoSlot <=> d.slots[x] = NoSlot
                    /\ d.slots[x] # NoSlot =>
                         /\ e.slots[x].code = d.slots[x].code
                         /\ e.slots[x].deps = d.slots[x].deps
                         /\ e.slots[x].rent = d.slots[x].rent
                         /\ e.slots[x].refs = IF x \in S /\ d.slots[x].refs > 0
                                              THEN d.slots[x].refs - 1 ELSE d.slots[x].refs
  <1> DEFINE f == [x \in Addrs |-> IF x \in S /\ d.slots[x].refs > 0
                                   THEN [d.slots[x] EXCEPT !.refs = @ - 1] ELSE d.slots[x]]
             e == releaseContractDeps(d, S)
  <1>1. e = [d EXCEPT !.slots = f]
    BY Zenon DEF releaseContractDeps
  <1>2. ASSUME NEW x \in Addrs
        PROVE  /\ f[x] \in Slots \cup {NoSlot}
               /\ f[x] = NoSlot <=> d.slots[x] = NoSlot
               /\ d.slots[x] # NoSlot =>
                    /\ f[x].code = d.slots[x].code
                    /\ f[x].deps = d.slots[x].deps
                    /\ f[x].rent = d.slots[x].rent
                    /\ f[x].refs = IF x \in S /\ d.slots[x].refs > 0
                                   THEN d.slots[x].refs - 1 ELSE d.slots[x].refs
    <2>1. f[x] = IF x \in S /\ d.slots[x].refs > 0
                 THEN [d.slots[x] EXCEPT !.refs = d.slots[x].refs - 1] ELSE d.slots[x]
      BY Zenon
    <2> HIDE DEF f
    <2>2. CASE x \in S /\ d.slots[x].refs > 0
      <3>1. d.slots[x] \in Slots /\ d.slots[x] # NoSlot /\ d.slots[x].refs - 1 \in Nat
        BY <2>2, DBFields, SlotFields DEF SlotMaps
      <3> QED
        BY <2>1, <2>2, <3>1, RefsSet, SlotFields
    <2>3. CASE ~(x \in S /\ d.slots[x].refs > 0)
      BY <2>1, <2>3, DBFields, Zenon DEF SlotMaps
    <2> QED
      BY <2>2, <2>3, Zenon
  <1>3. f \in SlotMaps
    BY <1>2, Zenon DEF SlotMaps
  <1> HIDE DEF f
  <1>4. e \in DBs /\ e.balance = d.balance /\ e.code = d.code /\ e.slots = f
    BY <1>1, <1>3, Zenon DEF DBs, SlotMaps
  <1> QED
    BY <1>2, <1>4, Zenon

(* pinDeps counts one reference up for each dependency. *)
LEMMA PinnedSlots ==
    ASSUME NEW d \in DBs, NEW S \in SUBSET Addrs, \A x \in S : d.slots[x] # NoSlot
    PROVE  LET e == pinDeps(d, S)
           IN  /\ e \in DBs /\ e.balance = d.balance /\ e.code = d.code
               /\ \A x \in Addrs :
                    /\ e.slots[x] = NoSlot <=> d.slots[x] = NoSlot
                    /\ d.slots[x] # NoSlot =>
                         /\ e.slots[x].code = d.slots[x].code
                         /\ e.slots[x].deps = d.slots[x].deps
                         /\ e.slots[x].rent = d.slots[x].rent
                         /\ e.slots[x].refs =
                              IF x \in S THEN d.slots[x].refs + 1 ELSE d.slots[x].refs
  <1> DEFINE f == [x \in Addrs |-> IF x \in S
                                   THEN [d.slots[x] EXCEPT !.refs = @ + 1] ELSE d.slots[x]]
             e == pinDeps(d, S)
  <1>1. e = [d EXCEPT !.slots = f]
    BY Zenon DEF pinDeps
  <1>2. ASSUME NEW x \in Addrs
        PROVE  /\ f[x] \in Slots \cup {NoSlot}
               /\ f[x] = NoSlot <=> d.slots[x] = NoSlot
               /\ d.slots[x] # NoSlot =>
                    /\ f[x].code = d.slots[x].code
                    /\ f[x].deps = d.slots[x].deps
                    /\ f[x].rent = d.slots[x].rent
                    /\ f[x].refs = IF x \in S THEN d.slots[x].refs + 1 ELSE d.slots[x].refs
    <2>1. f[x] = IF x \in S
                 THEN [d.slots[x] EXCEPT !.refs = d.slots[x].refs + 1] ELSE d.slots[x]
      BY Zenon
    <2> HIDE DEF f
    <2>2. CASE x \in S
      <3>1. d.slots[x] \in Slots /\ d.slots[x] # NoSlot /\ d.slots[x].refs + 1 \in Nat
        BY <2>2, DBFields, SlotFields DEF SlotMaps
      <3> QED
        BY <2>1, <2>2, <3>1, RefsSet, SlotFields
    <2>3. CASE x \notin S
      BY <2>1, <2>3, DBFields, Zenon DEF SlotMaps
    <2> QED
      BY <2>2, <2>3, Zenon
  <1>3. f \in SlotMaps
    BY <1>2, Zenon DEF SlotMaps
  <1> HIDE DEF f
  <1>4. e \in DBs /\ e.balance = d.balance /\ e.code = d.code /\ e.slots = f
    BY <1>1, <1>3, Zenon DEF DBs, SlotMaps
  <1> QED
    BY <1>2, <1>4, Zenon
(* A dependency of a contract is pinned, and not by the contract itself. *)
LEMMA Pinned ==
    ASSUME NEW slots \in SlotMaps, RefsOf(slots), NEW a \in Addrs, slots[a] # NoSlot,
           NEW x \in slots[a].deps
    PROVE  x \in Addrs /\ x # a /\ slots[x] # NoSlot /\ slots[x].refs > 0
  <1>1. x \in Addrs /\ slots[x] # NoSlot /\ x # a
    BY SlotFields, Zenon DEF RefsOf, SlotMaps
  <1>2. a \in Importers(slots, x) /\ slots[x].refs = Cardinality(Importers(slots, x))
    BY <1>1, Zenon DEF RefsOf, Importers
  <1>3. slots[x].refs \in Nat /\ slots[x].refs # 0
    <2>1. IsFiniteSet(Importers(slots, x))
      BY FiniteContracts, Zenon
    <2> QED
      BY <1>2, <2>1, FS_CardinalityType, FS_EmptySet, Zenon
  <1> QED
    BY <1>1, <1>3

(* Contract a takes the dependencies new in place of the ones it had, if   *)
(* it had any.                                                             *)
Takes(slots, slots2, a, old, new) ==
    /\ a \in Addrs /\ new \in SUBSET Addrs /\ a \notin new
    /\ \A x \in new : slots[x] # NoSlot
    /\ old = IF slots[a] = NoSlot THEN {} ELSE slots[a].deps
    /\ slots2[a] # NoSlot /\ slots2[a].deps = new
    /\ slots2[a].refs = IF slots[a] = NoSlot THEN 0 ELSE slots[a].refs
    /\ \A x \in Addrs \ {a} :
         /\ slots2[x] = NoSlot <=> slots[x] = NoSlot
         /\ slots[x] # NoSlot =>
              /\ slots2[x].deps = slots[x].deps
              /\ slots2[x].refs = slots[x].refs - (IF x \in old THEN 1 ELSE 0)
                                                + (IF x \in new THEN 1 ELSE 0)

(* Afterwards the references are again as RefsOf says. *)
LEMMA Repinned ==
    ASSUME NEW slots \in SlotMaps, NEW slots2 \in SlotMaps, NEW a, NEW old, NEW new,
           RefsOf(slots), Takes(slots, slots2, a, old, new)
    PROVE  RefsOf(slots2)
  <1> USE DEF Takes
  <1> DEFINE I(x) == Importers(slots, x)
             I2(x) == Importers(slots2, x)
  <1>1. \A x \in Addrs : I2(x) = IF x \in new THEN I(x) \cup {a} ELSE I(x) \ {a}
    BY DEF Importers
  <1>2. \A x \in Addrs : a \in I(x) <=> x \in old
    BY Zenon DEF Importers
  <1>3. \A x \in Addrs : IsFiniteSet(I(x)) /\ Cardinality(I(x)) \in Nat
    BY FiniteContracts, FS_CardinalityType, Zenon
  <1>4. \A x \in Addrs : slots[x] # NoSlot =>
          x \notin slots[x].deps /\ slots[x].refs = Cardinality(I(x))
            /\ \A b \in slots[x].deps : slots[b] # NoSlot
    BY Zenon DEF RefsOf
  <1>5. \A x \in Addrs : slots[x] = NoSlot => I(x) = {}
    BY ZenonT(30) DEF RefsOf, Importers
  <1> HIDE DEF I, I2
  <1>6. ASSUME NEW x \in Addrs, slots2[x] # NoSlot PROVE slots2[x].refs = Cardinality(I2(x))
    <2>1. CASE x # a
      <3>1. slots2[x].refs = Cardinality(I(x)) - (IF a \in I(x) THEN 1 ELSE 0)
                                               + (IF x \in new THEN 1 ELSE 0)
        BY <1>2, <1>4, <1>6, <2>1, Zenon
      <3>2. CASE x \in new
        <4>1. I2(x) = I(x) \cup {a} /\ Cardinality(I(x) \cup {a}) =
                IF a \in I(x) THEN Cardinality(I(x)) ELSE Cardinality(I(x)) + 1
          BY <1>1, <1>3, <3>2, FS_AddElement, ZenonT(30)
        <4> QED
          BY <1>3, <3>1, <3>2, <4>1
      <3>3. CASE x \notin new
        <4>1. I2(x) = I(x) \ {a} /\ Cardinality(I(x) \ {a}) =
                IF a \in I(x) THEN Cardinality(I(x)) - 1 ELSE Cardinality(I(x))
          BY <1>1, <1>3, <3>3, FS_RemoveElement, Zenon
        <4> QED
          BY <1>3, <3>1, <3>3, <4>1
      <3> QED
        BY <3>2, <3>3, Zenon
    <2>2. CASE x = a
      <3>1. a \notin I(a)
        BY <1>2, <1>4, Zenon
      <3>2. I2(a) = I(a)
        <4>1. I2(a) = I(a) \ {a}
          BY <1>1, Zenon
        <4> QED
          BY <3>1, <4>1, Zenon
      <3> QED
        BY <1>4, <1>5, <2>2, <3>2, FS_EmptySet, Zenon
    <2> QED
      BY <2>1, <2>2, Zenon
  <1>7. ASSUME NEW x \in Addrs, slots2[x] # NoSlot
        PROVE  x \notin slots2[x].deps /\ \A b \in slots2[x].deps : slots2[b] # NoSlot
    <2>1. slots2[x].deps \in SUBSET Addrs
      BY <1>7, SlotFields, Zenon DEF SlotMaps
    <2>2. \A b \in slots2[x].deps : b = a \/ slots[b] # NoSlot
      BY <1>4, <1>7, <2>1, Zenon
    <2> QED
      BY <1>4, <1>7, <2>1, <2>2, Zenon
  <1> QED
    BY <1>6, <1>7, Zenon DEF RefsOf, I2

(* The references after a contract that nobody imports is gone. *)
LEMMA Unpinned ==
    ASSUME NEW slots \in SlotMaps, RefsOf(slots), NEW a \in Addrs,
           slots[a] # NoSlot, slots[a].refs = 0,
           NEW slots2 \in SlotMaps, slots2[a] = NoSlot,
           \A x \in Addrs \ {a} :
              /\ slots2[x] = NoSlot <=> slots[x] = NoSlot
              /\ slots[x] # NoSlot =>
                   /\ slots2[x].deps = slots[x].deps
                   /\ slots2[x].refs = slots[x].refs - (IF x \in slots[a].deps THEN 1 ELSE 0)
    PROVE  RefsOf(slots2)
  <1> DEFINE I(x) == Importers(slots, x)
             I2(x) == Importers(slots2, x)
  <1>1. \A x \in Addrs : I2(x) = I(x) \ {a}
    BY Zenon DEF Importers
  <1>2. \A x \in Addrs : a \in I(x) <=> x \in slots[a].deps
    BY Zenon DEF Importers
  <1>3. \A x \in Addrs : IsFiniteSet(I(x)) /\ Cardinality(I(x)) \in Nat
    BY FiniteContracts, FS_CardinalityType, Zenon
  <1>4. \A x \in Addrs : slots[x] # NoSlot =>
          x \notin slots[x].deps /\ slots[x].refs = Cardinality(I(x))
            /\ \A b \in slots[x].deps : slots[b] # NoSlot
    BY Zenon DEF RefsOf
  <1>5. I(a) = {}
    BY <1>3, <1>4, FS_EmptySet, Zenon
  <1>6. \A x \in Addrs : slots[x] # NoSlot => a \notin slots[x].deps
    BY <1>5, Zenon DEF Importers
  <1> HIDE DEF I, I2
  <1>7. ASSUME NEW x \in Addrs, slots2[x] # NoSlot PROVE slots2[x].refs = Cardinality(I2(x))
    <2>1. slots2[x].refs = Cardinality(I(x)) - (IF a \in I(x) THEN 1 ELSE 0)
      BY <1>2, <1>4, <1>7, Zenon
    <2>2. I2(x) = I(x) \ {a} /\ Cardinality(I(x) \ {a}) =
            IF a \in I(x) THEN Cardinality(I(x)) - 1 ELSE Cardinality(I(x))
      BY <1>1, <1>3, FS_RemoveElement, Zenon
    <2> QED
      BY <1>3, <2>1, <2>2
  <1>8. ASSUME NEW x \in Addrs, slots2[x] # NoSlot
        PROVE  x \notin slots2[x].deps /\ \A b \in slots2[x].deps : slots2[b] # NoSlot
    <2>1. slots2[x].deps \in SUBSET Addrs
      BY <1>8, SlotFields, Zenon DEF SlotMaps
    <2> QED
      BY <1>4, <1>6, <1>8, <2>1, Zenon
  <1> QED
    BY <1>7, <1>8, Zenon DEF RefsOf, I2

(* The least of two or three amounts. *)
LEMMA MinFacts ==
    /\ \A x, y \in Nat : Min({x, y}) \in Nat /\ Min({x, y}) <= x /\ Min({x, y}) <= y
    /\ \A x, y, z \in Nat : /\ Min({x, y, z}) \in Nat /\ Min({x, y, z}) <= x
                            /\ Min({x, y, z}) <= y /\ Min({x, y, z}) <= z
  <1>1. ASSUME NEW x \in Nat, NEW y \in Nat
        PROVE  Min({x, y}) \in Nat /\ Min({x, y}) <= x /\ Min({x, y}) <= y
    <2>1. \E m \in {x, y} : \A w \in {x, y} : m <= w
      OBVIOUS
    <2>2. Min({x, y}) \in {x, y} /\ \A w \in {x, y} : Min({x, y}) <= w
      BY <2>1, Zenon DEF Min
    <2> QED
      BY <2>2, Zenon
  <1>2. ASSUME NEW x \in Nat, NEW y \in Nat, NEW z \in Nat
        PROVE  /\ Min({x, y, z}) \in Nat /\ Min({x, y, z}) <= x
               /\ Min({x, y, z}) <= y /\ Min({x, y, z}) <= z
    <2>1. \E m \in {x, y, z} : \A w \in {x, y, z} : m <= w
      OBVIOUS
    <2>2. Min({x, y, z}) \in {x, y, z} /\ \A w \in {x, y, z} : Min({x, y, z}) <= w
      BY <2>1, Zenon DEF Min
    <2> QED
      BY <2>2, Zenon
  <1> QED
    BY <1>1, <1>2, Zenon

-----------------------------------------------------------------------------
(* A run that went from r to r2 by host operations in the same frames. *)
Moves(r, r2) ==
    /\ r2 \in Runs
    /\ r2.phase = r.phase /\ r2.tx = r.tx /\ r2.slot = r.slot /\ r2.frames = r.frames
    /\ r2.ops = r.ops
    /\ Alike(r2.slots, r.slots)
    /\ Worth(r2.balance) = Worth(r.balance)

(* What the escrow of the run r has beyond the deposits on record. *)
Slack(r) == r.balance[Escrow] - Rents(r.slots)

(* The parts of the books of a run are numbers. *)
LEMMA SlackType ==
    ASSUME NEW r \in Runs
    PROVE  /\ r.balance \in [Accounts -> Nat] /\ r.balance[Escrow] \in Nat
           /\ r.slots \in SlotMaps /\ Rents(r.slots) \in Nat /\ Worth(r.balance) \in Nat
           /\ Slack(r) \in Int
           /\ Covers(r.balance, r.slots) <=> (QuietHooks => Slack(r) >= 0)
  <1>1. r.balance \in [Accounts -> Nat] /\ r.slots \in SlotMaps /\ Escrow \in Accounts
    BY Zenon DEF Runs, SlotMaps, Accounts
  <1>2. r.balance[Escrow] \in Nat /\ Rents(r.slots) \in Nat /\ Worth(r.balance) \in Nat
    BY <1>1, RentsType, WorthType, Zenon
  <1> QED
    BY <1>1, <1>2 DEF Slack, Covers

(* Moves can be put one after the other. *)
LEMMA MovesTrans ==
    ASSUME NEW r1, NEW r2, NEW r3, Moves(r1, r2), Moves(r2, r3)
    PROVE  Moves(r1, r3)
  <1>1. Alike(r3.slots, r1.slots)
    BY DEF Moves, Alike, SameCode
  <1> QED
    BY <1>1, Zenon DEF Moves

(* A transfer moves money and makes none. *)
LEMMA TransferMoves ==
    ASSUME NEW r \in Runs, NEW a \in Accounts, NEW b \in Accounts, NEW n \in Nat,
           n <= r.balance[a]
    PROVE  /\ Moves(r, transfer(r, a, b, n)) /\ transfer(r, a, b, n).slots = r.slots
           /\ transfer(r, a, b, n).balance = [[r.balance EXCEPT ![a] = @ - n] EXCEPT ![b] = @ + n]
  <1> DEFINE bal == [[r.balance EXCEPT ![a] = @ - n] EXCEPT ![b] = @ + n]
             r2 == transfer(r, a, b, n)
  <1>1. r.balance \in [Accounts -> Nat]
    BY Zenon DEF Runs
  <1>2. bal \in [Accounts -> Nat]
    BY <1>1
  <1>3. r2 = [r EXCEPT !.balance = bal]
    BY Zenon DEF transfer, Runs
  <1>4. Worth(bal) = Worth(r.balance)
    <2> DEFINE less == [r.balance EXCEPT ![a] = r.balance[a] - n]
    <2>1. less \in [Accounts -> Nat] /\ r.balance[a] \in Nat /\ r.balance[a] - n \in Nat
      BY <1>1
    <2>2. Worth(less) = Worth(r.balance) - r.balance[a] + (r.balance[a] - n)
      BY <1>1, <2>1, WorthSet, ZenonT(40)
    <2>3. bal = [less EXCEPT ![b] = less[b] + n]
      BY Zenon
    <2> HIDE DEF less, bal
    <2>4. less[b] \in Nat /\ less[b] + n \in Nat
      BY <2>1
    <2>5. Worth(bal) = Worth(less) - less[b] + (less[b] + n)
      BY <2>1, <2>3, <2>4, WorthSet, Zenon
    <2>6. Worth(r.balance) \in Nat /\ Worth(less) \in Nat
      BY <1>1, <2>1, WorthType, Zenon
    <2> QED
      BY <2>1, <2>2, <2>4, <2>5, <2>6
  <1> HIDE DEF bal, r2
  <1>5. /\ r2 \in Runs /\ r2.phase = r.phase /\ r2.tx = r.tx /\ r2.slot = r.slot
        /\ r2.frames = r.frames /\ r2.slots = r.slots /\ r2.ops = r.ops /\ r2.balance = bal
    BY <1>2, <1>3, ZenonT(30) DEF Runs
  <1>6. Moves(r, r2)
    BY <1>4, <1>5, Zenon DEF Moves, Alike, SameCode
  <1> QED
    BY <1>5, <1>6, Zenon DEF r2, bal

(* Changing the deposit or an entry of a slot. *)
LEMMA SlotMoves ==
    ASSUME NEW r \in Runs, NEW a \in Addrs, NEW s \in Slots, r.slots[a] # NoSlot,
           SameCode(s, r.slots[a])
    PROVE  LET r2 == [r EXCEPT !.slots[a] = s]
           IN  /\ Moves(r, r2) /\ r2.slots[a] = s /\ r2.balance = r.balance
               /\ \A x \in Addrs \ {a} : r2.slots[x] = r.slots[x]
               /\ Rents(r2.slots) = Rents(r.slots) - r.slots[a].rent + s.rent
  <1> DEFINE f == [r.slots EXCEPT ![a] = s]
             r2 == [r EXCEPT !.slots[a] = s]
  <1>1. f \in [Addrs -> Slots \cup {NoSlot}] /\ f[a] = s /\ \A x \in Addrs \ {a} : f[x] = r.slots[x]
    BY Zenon DEF Runs
  <1>2. r2 = [r EXCEPT !.slots = f]
    BY Zenon DEF Runs
  <1>3. Alike(f, r.slots)
    BY <1>1, SlotFields, Zenon DEF Alike, SameCode
  <1> HIDE DEF f, r2
  <1>4. /\ r2 \in Runs /\ r2.phase = r.phase /\ r2.tx = r.tx /\ r2.slot = r.slot
        /\ r2.frames = r.frames /\ r2.slots = f /\ r2.ops = r.ops /\ r2.balance = r.balance
    BY <1>1, <1>2, SMTT(30) DEF Runs
  <1>5. Rents(f) = Rents(r.slots) - r.slots[a].rent + s.rent
    <2>1. r.slots \in SlotMaps /\ f \in SlotMaps /\ f[a] # NoSlot
      BY <1>1, SlotFields, Zenon DEF Runs, SlotMaps
    <2>2. \A x \in Addrs \ {a} : RentOf(f)[x] = RentOf(r.slots)[x]
      BY <1>1, Zenon DEF RentOf
    <2>3. RentOf(f)[a] = s.rent /\ RentOf(r.slots)[a] = r.slots[a].rent
      BY <1>1, <2>1, Zenon DEF RentOf
    <2> QED
      BY <2>1, <2>2, <2>3, RentsSet, Zenon
  <1> QED
    BY <1>1, <1>3, <1>4, <1>5, Zenon DEF Moves, r2

(* A deposit on record is set. *)
LEMMA RentSet ==
    ASSUME NEW r \in Runs, NEW a \in Addrs, r.slots[a] # NoSlot, NEW n \in Nat
    PROVE  LET r2 == [r EXCEPT !.slots[a].rent = n]
           IN  /\ Moves(r, r2) /\ r2.balance = r.balance
               /\ \A x \in Addrs \ {a} : r2.slots[x] = r.slots[x]
               /\ Rents(r2.slots) = Rents(r.slots) - r.slots[a].rent + n
  <1> DEFINE s == [r.slots[a] EXCEPT !.rent = n]
  <1>1. r.slots[a] \in Slots
    BY Zenon DEF Runs
  <1>2. s \in Slots /\ SameCode(s, r.slots[a]) /\ s.rent = n
    BY <1>1, Zenon DEF Slots, SameCode
  <1>3. [r EXCEPT !.slots[a].rent = n] = [r EXCEPT !.slots[a] = s]
    BY <1>1, Zenon DEF Runs, Slots
  <1> HIDE DEF s
  <1> DEFINE u == [r EXCEPT !.slots[a] = s]
  <1>4. /\ Moves(r, u) /\ u.balance = r.balance
        /\ \A x \in Addrs \ {a} : u.slots[x] = r.slots[x]
        /\ Rents(u.slots) = Rents(r.slots) - r.slots[a].rent + s.rent
    BY <1>2, SlotMoves
  <1> HIDE DEF u
  <1>5. [r EXCEPT !.slots[a].rent = n] = u
    BY <1>3, Zenon DEF u
  <1> QED
    BY <1>2, <1>4, <1>5, Zenon

(* An entry of a storage is set. *)
LEMMA EntrySet ==
    ASSUME NEW r \in Runs, NEW a \in Addrs, r.slots[a] # NoSlot, NEW k \in Keys,
           NEW n \in 0 .. MaxBytes
    PROVE  LET r2 == [r EXCEPT !.slots[a].kv[k] = n]
           IN  /\ Moves(r, r2) /\ r2.balance = r.balance
               /\ \A x \in Addrs \ {a} : r2.slots[x] = r.slots[x]
               /\ Rents(r2.slots) = Rents(r.slots)
  <1> DEFINE s == [r.slots[a] EXCEPT !.kv[k] = n]
  <1>1. r.slots[a] \in Slots
    BY Zenon DEF Runs
  <1>2. /\ s \in Slots /\ SameCode(s, r.slots[a]) /\ s.rent = r.slots[a].rent
        /\ r.slots[a].rent \in Nat /\ Rents(r.slots) \in Nat
    BY <1>1, SlackType, Zenon DEF Slots, SameCode
  <1>3. [r EXCEPT !.slots[a].kv[k] = n] = [r EXCEPT !.slots[a] = s]
    BY <1>1, Zenon DEF Runs, Slots
  <1> HIDE DEF s
  <1> DEFINE u == [r EXCEPT !.slots[a] = s]
  <1>4. /\ Moves(r, u) /\ u.balance = r.balance
        /\ \A x \in Addrs \ {a} : u.slots[x] = r.slots[x]
        /\ Rents(u.slots) = Rents(r.slots) - r.slots[a].rent + s.rent
    BY <1>2, SlotMoves
  <1> HIDE DEF u
  <1>5. [r EXCEPT !.slots[a].kv[k] = n] = u
    BY <1>3, Zenon DEF u
  <1>6. Rents(u.slots) = Rents(r.slots)
    BY <1>2, <1>4
  <1> QED
    BY <1>4, <1>5, <1>6, Zenon

(* A write of an entry that the contract affords keeps the run in shape. *)
LEMMA ResizedMoves ==
    ASSUME NEW r \in Runs, NEW a \in Addrs, r.slots[a] # NoSlot, NEW k \in Keys,
           NEW n \in 0 .. MaxBytes, RentActive => r.balance[a] >= n - r.slots[a].kv[k]
    PROVE  /\ Moves(r, Resized(r, a, k, n))
           /\ Slack(Resized(r, a, k, n)) = Slack(r)
           /\ \A x \in Addrs \ {a} : Resized(r, a, k, n).slots[x] = r.slots[x]
  <1> DEFINE old == r.slots[a].kv[k]
             moved == IF ~RentActive THEN r
                      ELSE IF n > old THEN lockDeposit(r, a, n - old)
                      ELSE refundDeposit(r, a, old - n)
  <1>1. r.slots[a] \in Slots /\ r.balance \in [Accounts -> Nat]
    BY Zenon DEF Runs
  <1>2. old \in Nat /\ n \in Nat /\ r.slots[a].rent \in Nat
    BY <1>1, ContractsAssumption DEF Slots
  <1>3. Escrow \in Accounts /\ a \in Accounts /\ a # Escrow
    BY ContractsAssumption, Zenon DEF Accounts
  <1> HIDE DEF old
  <1>4. /\ Moves(r, moved) /\ Slack(moved) = Slack(r)
        /\ \A x \in Addrs \ {a} : moved.slots[x] = r.slots[x]
    <2>1. CASE ~RentActive
      <3>1. Moves(r, r)
        BY Zenon DEF Moves, Alike, SameCode
      <3> QED
        BY <2>1, <3>1, Zenon
    <2>2. CASE RentActive /\ n > old
      <3> DEFINE t == transfer(r, a, Escrow, n - old)
      <3>1. n - old \in Nat /\ n - old <= r.balance[a]
        BY <1>1, <1>2, <1>3, <2>2 DEF old
      <3>2. /\ Moves(r, t) /\ t.slots = r.slots
            /\ t.balance = [[r.balance EXCEPT ![a] = @ - (n - old)] EXCEPT ![Escrow] = @ + (n - old)]
        BY <1>3, <3>1, TransferMoves
      <3>3. lockDeposit(r, a, n - old) = [t EXCEPT !.slots[a].rent = t.slots[a].rent + (n - old)]
        BY Zenon DEF lockDeposit
      <3> HIDE DEF t
      <3>4. t.slots[a].rent + (n - old) \in Nat /\ t \in Runs /\ t.slots[a] # NoSlot
        <4>1. t \in Runs /\ t.slots[a] # NoSlot /\ t.slots[a].rent = r.slots[a].rent
          BY <3>2, Zenon DEF Moves
        <4>2. r.slots[a].rent + (n - old) \in Nat
          BY <1>2, <3>1
        <4> QED
          BY <4>1, <4>2, Zenon
      <3> DEFINE u == [t EXCEPT !.slots[a].rent = t.slots[a].rent + (n - old)]
      <3>5. /\ Moves(t, u) /\ u.balance = t.balance
            /\ \A x \in Addrs \ {a} : u.slots[x] = t.slots[x]
            /\ Rents(u.slots) = Rents(t.slots) - t.slots[a].rent + (t.slots[a].rent + (n - old))
        BY <3>4, RentSet, Zenon
      <3> HIDE DEF u
      <3>6. r.balance[Escrow] \in Nat /\ u.balance[Escrow] = r.balance[Escrow] + (n - old)
        BY <1>1, <1>3, <3>1, <3>2, <3>5, Zenon
      <3>7. Slack(u) = Slack(r)
        BY <1>2, <3>1, <3>2, <3>5, <3>6, SlackType DEF Slack
      <3>8. Moves(r, u)
        BY <3>2, <3>5, MovesTrans, Zenon
      <3> QED
        BY <2>2, <3>2, <3>3, <3>5, <3>7, <3>8, Zenon DEF u
    <2>3. CASE RentActive /\ ~(n > old)
      <3> DEFINE m == old - n
                 pay == Min({m, r.slots[a].rent, r.balance[Escrow]})
                 t == transfer(r, Escrow, a, pay)
      <3>1. m \in Nat /\ r.balance[Escrow] \in Nat
        BY <1>1, <1>2, <1>3, <2>3
      <3> HIDE DEF m
      <3>2. pay \in Nat /\ pay <= r.slots[a].rent /\ pay <= r.balance[Escrow]
        BY <1>2, <3>1, MinFacts, SMTT(30)
      <3>3. refundDeposit(r, a, m) = [t EXCEPT !.slots[a].rent = t.slots[a].rent - pay]
        BY Zenon DEF refundDeposit
      <3> HIDE DEF pay
      <3>4. /\ Moves(r, t) /\ t.slots = r.slots
            /\ t.balance = [[r.balance EXCEPT ![Escrow] = @ - pay] EXCEPT ![a] = @ + pay]
        <4>1. \A x \in Nat : x <= r.balance[Escrow] =>
                 /\ Moves(r, transfer(r, Escrow, a, x)) /\ transfer(r, Escrow, a, x).slots = r.slots
                 /\ transfer(r, Escrow, a, x).balance =
                      [[r.balance EXCEPT ![Escrow] = @ - x] EXCEPT ![a] = @ + x]
          BY <1>3, TransferMoves
        <4> QED
          BY <3>2, <4>1, Zenon
      <3> HIDE DEF t
      <3>5. t.slots[a].rent - pay \in Nat /\ t \in Runs /\ t.slots[a] # NoSlot
        <4>1. t \in Runs /\ t.slots[a] # NoSlot /\ t.slots[a].rent = r.slots[a].rent
          BY <3>4, Zenon DEF Moves
        <4>2. r.slots[a].rent - pay \in Nat
          BY <1>2, <3>2
        <4> QED
          BY <4>1, <4>2, Zenon
      <3> DEFINE u == [t EXCEPT !.slots[a].rent = t.slots[a].rent - pay]
      <3>6. /\ Moves(t, u) /\ u.balance = t.balance
            /\ \A x \in Addrs \ {a} : u.slots[x] = t.slots[x]
            /\ Rents(u.slots) = Rents(t.slots) - t.slots[a].rent + (t.slots[a].rent - pay)
        BY <3>5, RentSet, Zenon
      <3> HIDE DEF u
      <3>7. u.balance[Escrow] = r.balance[Escrow] - pay
        BY <1>1, <1>3, <3>2, <3>4, <3>6, Zenon
      <3>8. Slack(u) = Slack(r)
        BY <1>2, <3>1, <3>2, <3>4, <3>6, <3>7, SlackType DEF Slack
      <3>9. Moves(r, u)
        BY <3>4, <3>6, MovesTrans, Zenon
      <3> QED
        BY <2>3, <3>3, <3>4, <3>6, <3>8, <3>9, Zenon DEF u, m
    <2> QED
      BY <2>1, <2>2, <2>3, Zenon
  <1>5. Resized(r, a, k, n) = [moved EXCEPT !.slots[a].kv[k] = n]
    BY Zenon DEF Resized, old
  <1> HIDE DEF moved
  <1>6. moved \in Runs /\ moved.slots[a] # NoSlot
    BY <1>4, Zenon DEF Moves, Alike
  <1> DEFINE v == [moved EXCEPT !.slots[a].kv[k] = n]
  <1>7. /\ Moves(moved, v) /\ v.balance = moved.balance /\ Rents(v.slots) = Rents(moved.slots)
        /\ \A x \in Addrs \ {a} : v.slots[x] = moved.slots[x]
    BY <1>6, EntrySet
  <1> HIDE DEF v
  <1>8. Moves(r, v)
    BY <1>4, <1>7, MovesTrans, Zenon
  <1>9. Slack(v) = Slack(r)
    BY <1>4, <1>7, Zenon DEF Slack
  <1> QED
    BY <1>4, <1>5, <1>7, <1>8, <1>9, Zenon DEF v

-----------------------------------------------------------------------------
(* The handlers of transactions, state_handle.go, keep the invariant. *)

(* The fee that the transaction of the run r has still to pay. *)
Due(r) == IF r # Idle /\ r.phase = "validate" THEN Fee ELSE 0

(* A handler that waits for an upgrade hook, the run r on the state d, has *)
(* a copy of the slot that is as good, and valid dependencies.             *)
HookOK(d, r) ==
    /\ r.phase \in {"upgrade", "destroy"} =>
         /\ "value" \notin DOMAIN r.tx
         /\ r.slot \in Slots /\ d.slots[r.tx.from] # NoSlot
         /\ SameCode(r.slot, d.slots[r.tx.from])
         /\ QuietHooks => r.slots[r.tx.from].rent = r.slot.rent
    /\ r.phase = "upgrade" => r.tx.code # NoCode /\ validateDeps(d, r.tx.from, r.tx.code)
    /\ r.phase = "destroy" => r.slot.refs = 0

(* What holds of the run r on the state d: its slots differ from those of  *)
(* d by storage and deposits, its balances by what moved between accounts. *)
RunOK(d, r) ==
    r # Idle =>
        /\ r \in Runs
        /\ Alike(r.slots, d.slots)
        /\ Worth(r.balance) = Worth(d.balance) /\ Covers(r.balance, r.slots)
        /\ Len(r.frames) > 0
        /\ \A i \in 1 .. Len(r.frames) : d.slots[r.frames[i]] # NoSlot
        /\ HookOK(d, r)

(* An outcome that goes on from a state with the given code bucket, and    *)
(* that is worth w once the fee is paid.                                   *)
OutOK(code, w, o) ==
    o.ok => /\ Good(o.db) /\ RunOK(o.db, o.run) /\ Kept(code, o.db.code)
            /\ Worth(o.db.balance) = w + Due(o.run)

(* What a transaction is made of. *)
LEMMA TxFields ==
    ASSUME NEW tx \in Txs
    PROVE  /\ tx.from \in Addrs
           /\ "value" \in DOMAIN tx => tx.to \in Accounts /\ tx.value \in Nat
           /\ "value" \notin DOMAIN tx => tx.code \in Codes \cup {NoCode}
  <1>1. CASE tx \in [from : Addrs, to : Addrs \cup {Escrow}, value : Nat]
    BY <1>1, Zenon DEF Accounts
  <1>2. CASE tx \in [from : Addrs, code : Codes \cup {NoCode}]
    BY <1>2, Zenon
  <1> QED
    BY <1>1, <1>2, ContractsAssumption, Zenon

(* Code that is kept twice is kept. *)
LEMMA KeptSame ==
    ASSUME NEW c1, NEW c2, NEW c3, Kept(c1, c2), Kept(c2, c3)
    PROVE  Kept(c1, c3) /\ Kept(c1, c1)
  BY Zenon DEF Kept

(* A handler that is done without a run. *)
LEMMA DoneOK ==
    ASSUME NEW d, Good(d), NEW code, Kept(code, d.code), NEW w \in Int, Worth(d.balance) = w
    PROVE  OutOK(code, w, Done(d))
  BY DEF OutOK, Done, RunOK, Due

(* A handler that refuses. *)
LEMMA InvalidOK ==
    ASSUME NEW code, NEW w
    PROVE  OutOK(code, w, Invalid)
  BY Zenon DEF OutOK, Invalid

(* Moving balances keeps the rest. *)
LEMMA ChargedFields ==
    ASSUME NEW d \in DBs, NEW a \in Accounts, NEW n \in Nat, n <= d.balance[a]
    PROVE  /\ Charged(d, a, n) \in DBs /\ Charged(d, a, n).slots = d.slots
           /\ Charged(d, a, n).code = d.code
           /\ Charged(d, a, n).balance = [d.balance EXCEPT ![a] = @ - n]
           /\ Worth(Charged(d, a, n).balance) = Worth(d.balance) - n
  <1>1. /\ Charged(d, a, n) \in DBs /\ Charged(d, a, n).slots = d.slots
        /\ Charged(d, a, n).code = d.code
        /\ Charged(d, a, n).balance = [d.balance EXCEPT ![a] = @ - n]
    BY DEF Charged, DBs
  <1>2. d.balance \in [Accounts -> Nat] /\ d.balance[a] \in Nat /\ d.balance[a] - n \in Nat
    BY DBFields
  <1>3. Worth(d.balance) \in Nat
    BY <1>2, WorthType, Zenon
  <1>4. Worth([d.balance EXCEPT ![a] = d.balance[a] - n]) =
          Worth(d.balance) - d.balance[a] + (d.balance[a] - n)
    BY <1>2, WorthSet, Zenon
  <1> QED
    BY <1>1, <1>2, <1>3, <1>4

(* The state after a credit. *)
LEMMA CreditedFields ==
    ASSUME NEW d \in DBs, NEW a \in Accounts, NEW n \in Nat
    PROVE  /\ Credited(d, a, n) \in DBs /\ Credited(d, a, n).slots = d.slots
           /\ Credited(d, a, n).code = d.code
           /\ Credited(d, a, n).balance = [d.balance EXCEPT ![a] = @ + n]
           /\ Worth(Credited(d, a, n).balance) = Worth(d.balance) + n
  <1>1. /\ Credited(d, a, n) \in DBs /\ Credited(d, a, n).slots = d.slots
        /\ Credited(d, a, n).code = d.code
        /\ Credited(d, a, n).balance = [d.balance EXCEPT ![a] = @ + n]
    BY DEF Credited, DBs
  <1>2. d.balance \in [Accounts -> Nat] /\ d.balance[a] \in Nat /\ d.balance[a] + n \in Nat
    BY DBFields
  <1>3. Worth(d.balance) \in Nat
    BY <1>2, WorthType, Zenon
  <1>4. Worth([d.balance EXCEPT ![a] = d.balance[a] + n]) =
          Worth(d.balance) - d.balance[a] + (d.balance[a] + n)
    BY <1>2, WorthSet, Zenon
  <1> QED
    BY <1>1, <1>2, <1>3, <1>4

(* A charge of the sender, and a credit to anyone, keep the escrow. *)
LEMMA ChargedGood ==
    ASSUME NEW d, Good(d), NEW a \in Addrs, NEW n \in Nat, n <= d.balance[a]
    PROVE  /\ Good(Charged(d, a, n)) /\ Charged(d, a, n).slots = d.slots
           /\ Charged(d, a, n).code = d.code
           /\ Worth(Charged(d, a, n).balance) = Worth(d.balance) - n
  <1> DEFINE e == Charged(d, a, n)
  <1>1. d \in DBs /\ a \in Accounts /\ Escrow \in Accounts /\ a # Escrow
    BY ContractsAssumption, Zenon DEF Good, Accounts
  <1>2. /\ e \in DBs /\ e.slots = d.slots /\ e.code = d.code
        /\ e.balance = [d.balance EXCEPT ![a] = @ - n] /\ Worth(e.balance) = Worth(d.balance) - n
    BY <1>1, ChargedFields
  <1> HIDE DEF e
  <1>3. e.balance[Escrow] = d.balance[Escrow]
    BY <1>1, <1>2, DBFields, Zenon
  <1> QED
    BY <1>2, <1>3, Zenon DEF Good, Covers, e

(* A credit keeps a state good. *)
LEMMA CreditedGood ==
    ASSUME NEW d, Good(d), NEW a \in Accounts, NEW n \in Nat
    PROVE  /\ Good(Credited(d, a, n)) /\ Credited(d, a, n).slots = d.slots
           /\ Credited(d, a, n).code = d.code
           /\ Worth(Credited(d, a, n).balance) = Worth(d.balance) + n
  <1> DEFINE e == Credited(d, a, n)
  <1>1. d \in DBs /\ Escrow \in Accounts
    BY Zenon DEF Good, Accounts
  <1>2. /\ e \in DBs /\ e.slots = d.slots /\ e.code = d.code
        /\ e.balance = [d.balance EXCEPT ![a] = @ + n] /\ Worth(e.balance) = Worth(d.balance) + n
    BY <1>1, CreditedFields
  <1> HIDE DEF e
  <1>3. /\ d.balance \in [Accounts -> Nat] /\ Rents(d.slots) \in Nat
    BY <1>1, DBFields, RentsType, Zenon
  <1>4. e.balance[Escrow] \in Nat /\ d.balance[Escrow] \in Nat /\ e.balance[Escrow] >= d.balance[Escrow]
    BY <1>1, <1>2, <1>3
  <1>5. Covers(e.balance, e.slots)
    BY <1>2, <1>3, <1>4 DEF Good, Covers
  <1> QED
    BY <1>2, <1>5, Zenon DEF Good, e

(* runContract starts a run that satisfies RunOK, if its handler did what  *)
(* RunOK asks of it.                                                       *)
LEMMA RunContractOK ==
    ASSUME NEW d, Good(d), NEW phase \in {"validate", "main", "upgrade", "destroy", "init"},
           NEW entry, NEW a \in Addrs, NEW tx \in Txs, NEW slot \in Slots \cup {NoSlot},
           NEW otherwise, NEW code, Kept(code, d.code), NEW w \in Int, OutOK(code, w, otherwise),
           Worth(d.balance) = w + (IF phase = "validate" THEN Fee ELSE 0),
           phase \in {"upgrade", "destroy"} =>
             /\ "value" \notin DOMAIN tx
             /\ slot = d.slots[tx.from] /\ slot # NoSlot,
           phase = "upgrade" => tx.code # NoCode /\ validateDeps(d, tx.from, tx.code),
           phase = "destroy" => slot.refs = 0
    PROVE  OutOK(code, w, runContract(d, phase, entry, a, tx, slot, otherwise))
  <1> DEFINE r == [ phase |-> phase, tx |-> tx, slot |-> slot, frames |-> <<a>>,
                    balance |-> d.balance, slots |-> d.slots, ops |-> 0 ]
             o == [ok |-> TRUE, db |-> d, run |-> r]
  <1>1. SUFFICES ASSUME Live(d, a) PROVE OutOK(code, w, o)
    BY Zenon DEF runContract
  <1>2. r \in Runs
    BY ContractsAssumption DEF Runs, Good, DBs
  <1>3. Alike(r.slots, d.slots)
    BY Zenon DEF Alike, SameCode
  <1>4. Len(r.frames) = 1 /\ r.frames[1] = a /\ d.slots[a] # NoSlot
    BY <1>1, Zenon DEF Live
  <1>5. RunOK(d, r)
    <2>1. HookOK(d, r)
      BY Zenon DEF HookOK, SameCode
    <2> QED
      BY <1>2, <1>3, <1>4, <2>1 DEF RunOK, Good
  <1>6. Due(r) = IF phase = "validate" THEN Fee ELSE 0
    BY <1>2, Zenon DEF Due, Idle, Runs
  <1> QED
    BY <1>5, <1>6, Zenon DEF OutOK
(* CodeOf depends on the modules of the slots alone. *)
LEMMA SameModules ==
    ASSUME NEW s, NEW t, NEW code, CodeOf(t, code),
           \A a \in Addrs : /\ s[a] = NoSlot <=> t[a] = NoSlot
                            /\ t[a] # NoSlot => s[a].code = t[a].code
    PROVE  CodeOf(s, code)
  <1>1. ASSUME NEW c PROVE Users(s, c) = Users(t, c)
    BY Zenon DEF Users
  <1> QED
    BY <1>1, Zenon DEF CodeOf

(* setContract, field by field. *)
LEMMA SetFields ==
    ASSUME NEW d \in DBs, NEW a \in Addrs, NEW s \in Slots, CodeOf(d.slots, d.code)
    PROVE  LET e == setContract(d, a, s)
           IN  /\ e \in DBs /\ e.balance = d.balance
               /\ e.slots = [d.slots EXCEPT ![a] = s]
               /\ CodeOf(e.slots, e.code)
               /\ Kept(d.code, e.code)
  <1> DEFINE e == setContract(d, a, s)
             code2 == CodeAfterSet(d.slots, d.code, a, s)
  <1>1. d.slots \in SlotMaps /\ d.code \in CodeMaps
    BY DBFields, Zenon
  <1>2. e = [[d EXCEPT !.slots[a] = s] EXCEPT !.code = code2]
    BY Zenon DEF setContract, CodeAfterSet
  <1>3. /\ code2 \in CodeMaps /\ CodeOf([d.slots EXCEPT ![a] = s], code2)
        /\ Kept(d.code, code2)
    BY <1>1, SetKeepsCode, Zenon
  <1> HIDE DEF code2
  <1>4. e.balance = d.balance /\ e.slots = [d.slots EXCEPT ![a] = s] /\ e.code = code2
    BY <1>2, Zenon DEF DBs
  <1>5. e \in DBs
    BY <1>2, <1>3, ZenonT(30) DEF DBs, CodeMaps
  <1> QED
    BY <1>3, <1>4, <1>5, Zenon

(* The end of handleDeploy keeps the invariant: the heart of RefsExact. *)
LEMMA PutCodeOK ==
    ASSUME NEW d, Good(d), NEW tx \in Txs, "value" \notin DOMAIN tx, tx.code # NoCode,
           validateDeps(d, tx.from, tx.code), NEW slot \in Slots,
           d.slots[tx.from] = NoSlot => slot.deps = {} /\ slot.refs = 0 /\ slot.rent = 0,
           d.slots[tx.from] # NoSlot => SameCode(slot, d.slots[tx.from]),
           d.slots[tx.from] # NoSlot /\ QuietHooks => slot.rent = d.slots[tx.from].rent,
           NEW code, Kept(code, d.code), NEW w \in Int, Worth(d.balance) = w
    PROVE  OutOK(code, w, PutCode(d, tx, slot))
  <1> DEFINE a == tx.from
             new == Imports[tx.code]
             released == releaseContractDeps(d, slot.deps)
             pinned == pinDeps(released, new)
             s == [slot EXCEPT !.code = tx.code, !.deps = new]
             stored == setContract(pinned, a, s)
  <1>1. /\ d \in DBs /\ d.slots \in SlotMaps /\ RefsOf(d.slots) /\ CodeOf(d.slots, d.code)
        /\ a \in Addrs /\ tx.code \in Codes
    BY TxFields, DBFields, Zenon DEF Good
  <1>2. new \in SUBSET Addrs /\ a \notin new /\ \A x \in new : d.slots[x] # NoSlot
    BY <1>1, ContractsAssumption, Zenon DEF validateDeps, Live
  <1>3. /\ slot.deps = IF d.slots[a] = NoSlot THEN {} ELSE d.slots[a].deps
        /\ slot.refs = IF d.slots[a] = NoSlot THEN 0 ELSE d.slots[a].refs
    BY Zenon DEF SameCode
  <1>4. /\ slot.deps \in SUBSET Addrs
        /\ \A x \in slot.deps : d.slots[x] # NoSlot /\ d.slots[x].refs > 0
    BY <1>1, <1>3, Pinned, Zenon
  <1>5. s \in Slots /\ s.refs = slot.refs /\ s.deps = new /\ s.rent = slot.rent
    BY <1>1, <1>2, ZenonT(30) DEF Slots
  <1>6. /\ released \in DBs /\ released.balance = d.balance /\ released.code = d.code
        /\ \A x \in Addrs :
             /\ released.slots[x] = NoSlot <=> d.slots[x] = NoSlot
             /\ d.slots[x] # NoSlot =>
                  /\ released.slots[x].code = d.slots[x].code
                  /\ released.slots[x].deps = d.slots[x].deps
                  /\ released.slots[x].rent = d.slots[x].rent
                  /\ released.slots[x].refs = d.slots[x].refs - (IF x \in slot.deps THEN 1 ELSE 0)
    <2>1. \A x \in Addrs : d.slots[x] # NoSlot => d.slots[x].refs \in Nat
      BY <1>1, SlotFields, Zenon DEF SlotMaps
    <2> QED
      BY ONLY <1>1, <1>4, <2>1, ReleasedSlots
  <1> HIDE DEF s, released
  <1>7. /\ pinned \in DBs /\ pinned.balance = d.balance /\ pinned.code = d.code
        /\ \A x \in Addrs :
             /\ pinned.slots[x] = NoSlot <=> d.slots[x] = NoSlot
             /\ d.slots[x] # NoSlot =>
                  /\ pinned.slots[x].code = d.slots[x].code
                  /\ pinned.slots[x].deps = d.slots[x].deps
                  /\ pinned.slots[x].rent = d.slots[x].rent
                  /\ pinned.slots[x].refs = d.slots[x].refs - (IF x \in slot.deps THEN 1 ELSE 0)
                                                            + (IF x \in new THEN 1 ELSE 0)
    <2>1. \A x \in Addrs : d.slots[x] # NoSlot => released.slots[x].refs \in Int
      BY <1>6, DBFields, SlotFields DEF SlotMaps
    <2> QED
      BY ONLY <1>2, <1>6, <2>1, PinnedSlots
  <1> HIDE DEF pinned, new
  <1>8. CodeOf(pinned.slots, pinned.code)
    BY ONLY <1>1, <1>7, SameModules
  <1>9. /\ stored \in DBs /\ stored.slots = [pinned.slots EXCEPT ![a] = s]
        /\ stored.balance = d.balance
        /\ CodeOf(stored.slots, stored.code) /\ Kept(d.code, stored.code)
    BY ONLY <1>1, <1>5, <1>7, <1>8, SetFields
  <1> HIDE DEF stored
  <1>10. /\ stored.slots \in SlotMaps /\ stored.slots[a] = s
         /\ \A x \in Addrs \ {a} : stored.slots[x] = pinned.slots[x]
    BY <1>1, <1>7, <1>9, DBFields, Zenon DEF SlotMaps
  <1>11. RefsOf(stored.slots)
    <2>1. s # NoSlot
      BY <1>5, SlotFields, Zenon
    <2>2. \A x \in Addrs \ {a} :
              /\ stored.slots[x] = NoSlot <=> d.slots[x] = NoSlot
              /\ d.slots[x] # NoSlot =>
                   /\ stored.slots[x].deps = d.slots[x].deps
                   /\ stored.slots[x].refs = d.slots[x].refs - (IF x \in slot.deps THEN 1 ELSE 0)
                                                             + (IF x \in new THEN 1 ELSE 0)
      BY <1>7, <1>10, ZenonT(40)
    <2>3. stored.slots[a] # NoSlot /\ stored.slots[a].deps = new
      BY <1>5, <1>10, <2>1, Zenon
    <2>4. stored.slots[a].refs = IF d.slots[a] = NoSlot THEN 0 ELSE d.slots[a].refs
      BY <1>3, <1>5, <1>10, Zenon
    <2> HIDE DEF a
    <2>5. Takes(d.slots, stored.slots, a, slot.deps, new)
      BY <1>1, <1>2, <1>3, <2>2, <2>3, <2>4, Zenon DEF Takes
    <2> QED
      BY <1>1, <1>10, <2>5, Repinned, Zenon
  <1>12. QuietHooks => Rents(stored.slots) = Rents(d.slots)
    <2>1. SUFFICES ASSUME QuietHooks PROVE Rents(stored.slots) = Rents(d.slots)
      BY Zenon
    <2>2. s # NoSlot
      BY <1>5, SlotFields
    <2>3. \A x \in Addrs : RentOf(stored.slots)[x] = RentOf(d.slots)[x]
      BY <1>5, <1>7, <1>10, <2>1, <2>2, ZenonT(40) DEF RentOf
    <2>4. /\ Rents(stored.slots) = Rents(d.slots) - RentOf(d.slots)[a] + RentOf(stored.slots)[a]
          /\ RentOf(d.slots)[a] \in Nat /\ Rents(d.slots) \in Nat
      BY <1>1, <1>10, <2>3, RentsSet, RentsType, ZenonT(40)
    <2> QED
      BY <1>1, <2>3, <2>4
  <1>13. Covers(stored.balance, stored.slots)
    BY <1>9, <1>12, Zenon DEF Good, Covers
  <1>14. Good(stored) /\ Kept(code, stored.code)
    BY <1>9, <1>11, <1>13, KeptSame, Zenon DEF Good
  <1>15. OutOK(code, w, Done(stored))
    BY <1>9, <1>14, DoneOK, Zenon
  <1>16. OutOK(code, w, runContract(stored, "init", "init", a, tx, NoSlot, Done(stored)))
    BY <1>1, <1>9, <1>14, <1>15, RunContractOK
  <1> QED
    BY <1>16, Zenon DEF PutCode, stored, pinned, released, new, s

(* The end of a destroy keeps the invariant. *)
LEMMA DestroyOK ==
    ASSUME NEW d, Good(d), NEW tx \in Txs, NEW slot \in Slots,
           d.slots[tx.from] # NoSlot, SameCode(slot, d.slots[tx.from]), slot.refs = 0,
           QuietHooks => slot.rent = d.slots[tx.from].rent,
           NEW code, Kept(code, d.code), NEW w \in Int, Worth(d.balance) = w
    PROVE  OutOK(code, w, Destroy(d, tx, slot))
  <1> DEFINE a == tx.from
             released == releaseContractDeps(d, slot.deps)
             refunded == IF RentActive THEN refundContractDeposit(released, a, slot)
                         ELSE released
             gone == delContract(refunded, a)
  <1>1. /\ d \in DBs /\ d.slots \in SlotMaps /\ RefsOf(d.slots) /\ CodeOf(d.slots, d.code)
        /\ a \in Addrs
    BY TxFields, DBFields, Zenon DEF Good
  <1>2. slot.deps = d.slots[a].deps /\ d.slots[a].refs = 0
    BY Zenon DEF SameCode
  <1>3. /\ slot.deps \in SUBSET Addrs
        /\ \A x \in slot.deps : d.slots[x] # NoSlot /\ d.slots[x].refs > 0
    BY <1>1, <1>2, Pinned, Zenon
  <1>4. /\ released \in DBs /\ released.code = d.code /\ released.balance = d.balance
        /\ \A x \in Addrs :
             /\ released.slots[x] = NoSlot <=> d.slots[x] = NoSlot
             /\ d.slots[x] # NoSlot =>
                  /\ released.slots[x].code = d.slots[x].code
                  /\ released.slots[x].deps = d.slots[x].deps
                  /\ released.slots[x].rent = d.slots[x].rent
                  /\ released.slots[x].refs = d.slots[x].refs - (IF x \in slot.deps THEN 1 ELSE 0)
    <2>1. \A x \in Addrs : d.slots[x] # NoSlot => d.slots[x].refs \in Nat
      BY <1>1, SlotFields, Zenon DEF SlotMaps
    <2> QED
      BY ONLY <1>1, <1>3, <2>1, ReleasedSlots
  <1> HIDE DEF released
  <1>5. /\ refunded \in DBs /\ refunded.code = released.code /\ refunded.slots = released.slots
        /\ Worth(refunded.balance) = w /\ refunded.balance[Escrow] >= d.balance[Escrow] - slot.rent
    <2> DEFINE pay == Min({slot.rent, released.balance[Escrow]})
               charged == Charged(released, Escrow, pay)
               paid == Credited(charged, a, pay)
    <2>1. Escrow \in Accounts /\ a \in Accounts /\ a # Escrow
      BY <1>1, ContractsAssumption, Zenon DEF Accounts
    <2>2. released.balance \in [Accounts -> Nat] /\ slot.rent \in Nat
      BY <1>4, DBFields, SlotFields, Zenon
    <2>3. pay \in Nat /\ pay <= released.balance[Escrow] /\ pay <= slot.rent
      BY <2>1, <2>2, MinFacts, Zenon
    <2>4. refundContractDeposit(released, a, slot) = paid
      BY Zenon DEF refundContractDeposit
    <2> HIDE DEF pay
    <2>5. /\ charged \in DBs /\ charged.code = released.code /\ charged.slots = released.slots
          /\ charged.balance = [released.balance EXCEPT ![Escrow] = @ - pay]
          /\ Worth(charged.balance) = Worth(released.balance) - pay
      BY <1>4, <2>1, <2>3, ChargedFields, ZenonT(40)
    <2> HIDE DEF charged
    <2>6. /\ paid \in DBs /\ paid.code = charged.code /\ paid.slots = charged.slots
          /\ paid.balance = [charged.balance EXCEPT ![a] = @ + pay]
          /\ Worth(paid.balance) = Worth(charged.balance) + pay
      BY ONLY <2>1, <2>3, <2>5, CreditedFields
    <2> HIDE DEF paid
    <2>7. paid.balance[Escrow] = d.balance[Escrow] - pay /\ d.balance[Escrow] \in Nat
      BY ONLY <1>4, <2>1, <2>2, <2>5, <2>6, DBFields
    <2>8. Worth(paid.balance) = w /\ Worth(released.balance) = w
      BY <1>4, <2>3, <2>5, <2>6
    <2> QED
      BY ONLY <1>4, <2>2, <2>3, <2>4, <2>5, <2>6, <2>7, <2>8
  <1> HIDE DEF refunded
  <1>6. CodeOf(refunded.slots, refunded.code)
    BY <1>1, <1>4, <1>5, SameModules
  <1>7. /\ refunded.slots \in SlotMaps /\ refunded.code \in CodeMaps
        /\ refunded.slots[a] # NoSlot
    BY <1>1, <1>4, <1>5, DBFields, Zenon
  <1>8. /\ releaseCode(refunded.code, refunded.slots[a].code) \in CodeMaps
        /\ CodeOf([refunded.slots EXCEPT ![a] = NoSlot],
                  releaseCode(refunded.code, refunded.slots[a].code))
        /\ Kept(refunded.code, releaseCode(refunded.code, refunded.slots[a].code))
    BY <1>1, <1>6, <1>7, DelKeepsCode, ZenonT(30)
  <1>9. /\ gone \in DBs /\ gone.slots = [refunded.slots EXCEPT ![a] = NoSlot]
        /\ gone.balance = refunded.balance
        /\ gone.code = releaseCode(refunded.code, refunded.slots[a].code)
    <2> DEFINE code2 == releaseCode(refunded.code, refunded.slots[a].code)
    <2>1. gone = [[refunded EXCEPT !.slots[a] = NoSlot] EXCEPT !.code = code2]
      BY <1>5, Zenon DEF delContract, DBs
    <2>2. code2 \in CodeMaps
      BY <1>8, Zenon
    <2> HIDE DEF code2, gone
    <2>3. /\ gone \in DBs /\ gone.slots = [refunded.slots EXCEPT ![a] = NoSlot]
          /\ gone.code = code2 /\ gone.balance = refunded.balance
      BY <1>5, <2>1, <2>2, ZenonT(30) DEF DBs, CodeMaps
    <2> QED
      BY <2>3, Zenon DEF code2
  <1> HIDE DEF gone
  <1>10. RefsOf(gone.slots)
    <2>1. /\ gone.slots \in SlotMaps /\ gone.slots[a] = NoSlot
          /\ \A x \in Addrs \ {a} : gone.slots[x] = released.slots[x]
      BY <1>1, <1>5, <1>7, <1>9, DBFields, ZenonT(40) DEF SlotMaps
    <2>2. \A x \in Addrs \ {a} :
              /\ gone.slots[x] = NoSlot <=> d.slots[x] = NoSlot
              /\ d.slots[x] # NoSlot =>
                   /\ gone.slots[x].deps = d.slots[x].deps
                   /\ gone.slots[x].refs =
                        d.slots[x].refs - (IF x \in d.slots[a].deps THEN 1 ELSE 0)
      BY <1>2, <1>4, <2>1, ZenonT(40)
    <2> QED
      BY <1>1, <1>2, <2>1, <2>2, Unpinned, Zenon
  <1>11. Covers(gone.balance, gone.slots)
    <2>1. SUFFICES ASSUME QuietHooks PROVE Rents(gone.slots) <= gone.balance[Escrow]
      BY Zenon DEF Covers
    <2>2. gone.slots \in SlotMaps /\ gone.slots[a] = NoSlot
      BY <1>1, <1>7, <1>9, DBFields, Zenon DEF SlotMaps
    <2>3. \A x \in Addrs \ {a} : gone.slots[x] = released.slots[x]
      BY <1>5, <1>7, <1>9, Zenon DEF SlotMaps
    <2>4. RentOf(gone.slots)[a] = 0 /\ \A x \in Addrs \ {a} : RentOf(gone.slots)[x] = RentOf(d.slots)[x]
      BY <1>1, <1>4, <2>2, <2>3, ZenonT(40) DEF RentOf
    <2>5. Rents(gone.slots) = Rents(d.slots) - RentOf(d.slots)[a] + RentOf(gone.slots)[a]
      BY <1>1, <2>2, <2>4, RentsSet, Zenon
    <2>6. RentOf(d.slots)[a] = slot.rent /\ slot.rent \in Nat /\ Rents(d.slots) \in Nat
      BY <1>1, <2>1, RentsType, SlotFields, Zenon DEF RentOf
    <2>7. Rents(d.slots) <= d.balance[Escrow]
      BY <2>1, Zenon DEF Good, Covers
    <2>8. d.balance[Escrow] \in Nat /\ gone.balance[Escrow] \in Nat
      BY <1>1, <1>9, DBFields DEF Accounts
    <2> QED
      BY ONLY <1>5, <1>9, <2>4, <2>5, <2>6, <2>7, <2>8
  <1>12. Good(gone) /\ Kept(code, gone.code)
    <2>1. Kept(d.code, gone.code)
      BY <1>4, <1>5, <1>8, <1>9, ZenonT(40)
    <2> QED
      BY <1>8, <1>9, <1>10, <1>11, <2>1, KeptSame, Zenon DEF Good
  <1>13. OutOK(code, w, Done(gone))
    BY <1>5, <1>9, <1>12, DoneOK, Zenon
  <1> QED
    BY <1>13, Zenon DEF Destroy, gone, refunded, released

(* The transfer handler keeps the invariant. *)
LEMMA TransactionOK ==
    ASSUME NEW d, Good(d), NEW tx \in Txs, "value" \in DOMAIN tx, NEW code, Kept(code, d.code),
           NEW w \in Int, Worth(d.balance) = w + Fee
    PROVE  OutOK(code, w, handleTransaction(d, tx))
  <1> DEFINE charged == Charged(d, tx.from, tx.value + Fee)
             paid == Credited(charged, tx.to, tx.value)
  <1>1. /\ tx.from \in Addrs /\ tx.from \in Accounts /\ tx.to \in Accounts
        /\ tx.value \in Nat /\ Fee \in Nat /\ tx.value + Fee \in Nat
    BY TxFields, ContractsAssumption DEF Accounts
  <1>2. d.balance[tx.from] \in Nat
    BY <1>1, DBFields, Zenon DEF Good
  <1>3. CASE d.balance[tx.from] < tx.value + Fee
    BY <1>3, InvalidOK, Zenon DEF handleTransaction
  <1>4. CASE ~(d.balance[tx.from] < tx.value + Fee)
    <2>1. /\ Good(charged) /\ charged.code = d.code
          /\ Worth(charged.balance) = Worth(d.balance) - (tx.value + Fee)
      <3>1. tx.value + Fee <= d.balance[tx.from]
        BY <1>1, <1>2, <1>4
      <3> QED
        BY <1>1, <3>1, ChargedGood
    <2> HIDE DEF charged
    <2>2. /\ Good(paid) /\ Kept(code, paid.code)
          /\ Worth(paid.balance) = Worth(charged.balance) + tx.value
      BY <1>1, <2>1, CreditedGood, ZenonT(30)
    <2> HIDE DEF paid
    <2>3. Worth(paid.balance) = w
      BY <1>1, <2>1, <2>2
    <2>4. OutOK(code, w, Done(paid))
      BY <2>2, <2>3, DoneOK, Zenon
    <2>5. tx.to \in Addrs =>
            OutOK(code, w, runContract(paid, "main", "main", tx.to, tx, NoSlot, Done(paid)))
      BY <2>2, <2>3, <2>4, RunContractOK
    <2> QED
      BY <1>4, <2>4, <2>5, Zenon DEF handleTransaction, paid, charged
  <1> QED
    BY <1>3, <1>4, Zenon

(* What a new slot holds. *)
LEMMA EmptySlotFields ==
    ASSUME NEW c \in Codes
    PROVE  EmptySlot(c) \in Slots /\ EmptySlot(c).deps = {} /\ EmptySlot(c).refs = 0
             /\ EmptySlot(c).rent = 0
  BY ContractsAssumption DEF EmptySlot, Slots

(* The deploy handler keeps the invariant. *)
LEMMA DeployOK ==
    ASSUME NEW d, Good(d), NEW tx \in Txs, "value" \notin DOMAIN tx, NEW code, Kept(code, d.code),
           NEW w \in Int, Worth(d.balance) = w + Fee
    PROVE  OutOK(code, w, handleDeploy(d, tx))
  <1> DEFINE a == tx.from
             paid == Charged(d, a, Fee)
             slot == d.slots[a]
  <1>1. /\ a \in Addrs /\ a \in Accounts /\ Fee \in Nat /\ d \in DBs
        /\ tx.code \in Codes \cup {NoCode}
    BY TxFields, ContractsAssumption, Zenon DEF Accounts, Good
  <1>2. d.balance[a] \in Nat /\ slot \in Slots \cup {NoSlot}
    BY <1>1, DBFields, Zenon DEF SlotMaps
  <1>3. slot = NoSlot <=> ~Live(d, a)
    BY <1>1, Zenon DEF Good, CodeOf, Live
  <1> DEFINE Destroyed == runContract(paid, "destroy", "upgrade", a, tx, slot, Done(paid))
             Upgraded == runContract(paid, "upgrade", "upgrade", a, tx, slot, Done(paid))
             Deployed == PutCode(paid, tx, EmptySlot(tx.code))
  <1>4. handleDeploy(d, tx) =
          IF d.balance[a] < Fee THEN Invalid
          ELSE IF tx.code = NoCode
               THEN IF ~Live(d, a) \/ slot.refs > 0 THEN Invalid ELSE Destroyed
               ELSE IF ~validateDeps(d, a, tx.code) THEN Invalid
               ELSE IF Live(d, a) THEN Upgraded ELSE Deployed
    BY Zenon DEF handleDeploy
  <1> HIDE DEF Destroyed, Upgraded, Deployed
  <1>5. CASE d.balance[a] < Fee
    BY <1>4, <1>5, InvalidOK, Zenon
  <1>6. CASE ~(d.balance[a] < Fee)
    <2>1. /\ Good(paid) /\ paid.slots = d.slots /\ paid.code = d.code /\ Kept(code, paid.code)
          /\ Worth(paid.balance) = w
      <3>1. Fee <= d.balance[a]
        BY <1>1, <1>2, <1>6
      <3>2. /\ Good(paid) /\ paid.slots = d.slots /\ paid.code = d.code
            /\ Worth(paid.balance) = Worth(d.balance) - Fee
        BY <1>1, <3>1, ChargedGood, Zenon
      <3> QED
        BY <1>1, <3>2
    <2>2. OutOK(code, w, Done(paid))
      BY <2>1, DoneOK, Zenon
    <2>3. validateDeps(d, a, tx.code) => validateDeps(paid, a, tx.code)
      BY <2>1, Zenon DEF validateDeps, Live
    <2> HIDE DEF paid, slot
    <2>4. CASE tx.code = NoCode
      <3>1. CASE ~Live(d, a) \/ slot.refs > 0
        BY <1>4, <1>6, <2>4, <3>1, InvalidOK, Zenon
      <3>2. CASE ~(~Live(d, a) \/ slot.refs > 0)
        <4>1. slot # NoSlot /\ slot \in Slots /\ slot.refs = 0 /\ slot = paid.slots[a]
          BY <1>2, <1>3, <2>1, <3>2, SlotFields DEF slot
        <4>2. OutOK(code, w, Destroyed)
          BY <1>1, <2>1, <2>2, <4>1, RunContractOK DEF Destroyed
        <4> QED
          BY <1>4, <1>6, <2>4, <3>2, <4>2, Zenon
      <3> QED
        BY <3>1, <3>2, Zenon
    <2>5. CASE tx.code # NoCode /\ ~validateDeps(d, a, tx.code)
      BY <1>4, <1>6, <2>5, InvalidOK, Zenon
    <2>6. CASE tx.code # NoCode /\ validateDeps(d, a, tx.code) /\ Live(d, a)
      <3>1. slot # NoSlot /\ slot = paid.slots[a]
        BY <1>3, <2>1, <2>6, Zenon DEF slot
      <3>2. OutOK(code, w, Upgraded)
        BY <1>1, <1>2, <2>1, <2>2, <2>3, <2>6, <3>1, RunContractOK DEF Upgraded
      <3> QED
        BY <1>4, <1>6, <2>6, <3>2, Zenon
    <2>7. CASE tx.code # NoCode /\ validateDeps(d, a, tx.code) /\ ~Live(d, a)
      <3>1. paid.slots[tx.from] = NoSlot
        BY <1>3, <2>1, <2>7 DEF slot
      <3>2. OutOK(code, w, Deployed)
        <4>1. tx.code \in Codes
          BY <1>1, <2>7, Zenon
        <4>2. /\ EmptySlot(tx.code) \in Slots /\ EmptySlot(tx.code).deps = {}
              /\ EmptySlot(tx.code).refs = 0 /\ EmptySlot(tx.code).rent = 0
          BY <4>1, EmptySlotFields, Zenon
        <4> QED
          BY <2>1, <2>3, <2>7, <3>1, <4>2, PutCodeOK, Zenon DEF Deployed
      <3> QED
        BY <1>4, <1>6, <2>7, <3>2, Zenon
    <2> QED
      BY <2>4, <2>5, <2>6, <2>7
  <1> QED
    BY <1>5, <1>6, Zenon

(* Every handler, on a good state. *)
LEMMA HandleOK ==
    ASSUME NEW d, Good(d), NEW tx \in Txs, NEW code, Kept(code, d.code),
           NEW w \in Int, Worth(d.balance) = w + Fee
    PROVE  OutOK(code, w, Handle(d, tx)) /\ OutOK(code, w, HandleTx(d, tx))
  <1>1. OutOK(code, w, Handle(d, tx))
    BY TransactionOK, DeployOK, Zenon DEF Handle
  <1>2. OutOK(code, w, runContract(d, "validate", "validate", tx.from, tx, NoSlot, Invalid))
    BY TxFields, InvalidOK, RunContractOK, Zenon
  <1> QED
    BY <1>1, <1>2, Zenon DEF HandleTx

(* What follows a run that ended well keeps the invariant, ... *)
LEMMA AfterOK ==
    ASSUME NEW d, Good(d), NEW r \in Runs, RunOK(d, r), NEW code, Kept(code, d.code),
           QuietHooks /\ r.phase \in {"upgrade", "destroy"} => d.slots[r.tx.from].rent = r.slot.rent,
           NEW w \in Int, Worth(d.balance) = w + Due(r)
    PROVE  OutOK(code, w, AfterRun(d, r))
  <1>1. r # Idle /\ r.tx \in Txs
    BY DEF Runs, Idle
  <1>2. HookOK(d, r)
    BY <1>1, Zenon DEF RunOK
  <1>3. CASE r.phase = "validate"
    <2>1. OutOK(code, w, Handle(d, r.tx))
      BY <1>1, <1>3, HandleOK DEF Due
    <2> QED
      BY <1>3, <2>1, Zenon DEF AfterRun
  <1>4. r.phase # "validate" => Worth(d.balance) = w /\ OutOK(code, w, Done(d))
    BY DoneOK DEF Due
  <1>5. CASE r.phase = "upgrade"
    <2>1. /\ "value" \notin DOMAIN r.tx /\ r.tx.code # NoCode
          /\ validateDeps(d, r.tx.from, r.tx.code) /\ r.slot \in Slots
          /\ d.slots[r.tx.from] # NoSlot /\ SameCode(r.slot, d.slots[r.tx.from])
      BY <1>2, <1>5, Zenon DEF HookOK
    <2>2. OutOK(code, w, PutCode(d, r.tx, r.slot))
      BY <1>1, <1>4, <1>5, <2>1, PutCodeOK, Zenon
    <2> QED
      BY <1>4, <1>5, <2>2, Zenon DEF AfterRun
  <1>6. CASE r.phase = "destroy"
    <2>1. /\ r.slot \in Slots /\ r.slot.refs = 0
          /\ d.slots[r.tx.from] # NoSlot /\ SameCode(r.slot, d.slots[r.tx.from])
      BY <1>2, <1>6, Zenon DEF HookOK
    <2>2. OutOK(code, w, Destroy(d, r.tx, r.slot))
      BY <1>1, <1>4, <1>6, <2>1, DestroyOK, Zenon
    <2> QED
      BY <1>4, <1>6, <2>2 DEF AfterRun
  <1>7. CASE r.phase \notin {"validate", "upgrade", "destroy"}
    BY <1>4, <1>7, Zenon DEF AfterRun
  <1> QED
    BY <1>3, <1>5, <1>6, <1>7

(* ... and after one that trapped. *)
LEMMA TrapOK ==
    ASSUME NEW d, Good(d), NEW r \in Runs, NEW code, Kept(code, d.code),
           NEW w \in Int, Worth(d.balance) = w + Due(r)
    PROVE  OutOK(code, w, AfterTrap(d, r))
  BY DoneOK, InvalidOK DEF AfterTrap, Due

-----------------------------------------------------------------------------
(* The steps of the specification, and the theorems. *)

(* Sums of money: what genesis allots, and the fees of n blocks. *)
Total == Funds * Cardinality(Addrs)

Burnt(n) == Fee * n

(* The funds of the genesis and the fees of the blocks are numbers. *)
LEMMA BurntStep ==
    /\ Total \in Nat /\ Fee \in Nat /\ Burnt(0) = 0
    /\ \A n \in Nat : Burnt(n) \in Nat /\ Burnt(n + 1) = Burnt(n) + Fee
  <1>1. Funds \in Nat /\ Fee \in Nat /\ IsFiniteSet(Addrs)
    BY ContractsAssumption, Zenon
  <1>2. Cardinality(Addrs) \in Nat
    BY <1>1, FS_CardinalityType, Zenon
  <1>3. ASSUME NEW m \in Nat, NEW n \in Nat
        PROVE  m * n \in Nat /\ m * (n + 1) = m * n + m /\ m * 0 = 0
    OBVIOUS
  <1> QED
    BY <1>1, <1>2, <1>3, Zenon DEF Total, Burnt

(* The inductive invariant.  Below db lie the states that an unwind        *)
(* restores: each is right in itself, its money is that of genesis but for *)
(* the fees of the blocks below it, and an archive node has kept in the    *)
(* code bucket every module they mention.                                  *)
PastOK(p, d) ==
    \A i \in 1 .. Len(p) :
        /\ Good(p[i])
        /\ Kept(p[i].code, d.code)
        /\ \A j \in i .. Len(p) : Kept(p[i].code, p[j].code)
        /\ Worth(p[i].balance) + Burnt(i - 1) = Total

InvOf(d, p, r) ==
    /\ Good(d)
    /\ p \in Seq(DBs) /\ PastOK(p, d)
    /\ RunOK(d, r)
    /\ r # Idle => Len(p) > 0
    /\ Worth(d.balance) + Burnt(Len(p)) = Total + Due(r)

ContractInv == archive \in BOOLEAN /\ InvOf(db, past, run)

(* The invariant of the next state, said of the primed variables. *)
LEMMA NextInv ==
    ASSUME archive \in BOOLEAN, archive' = archive, InvOf(db', past', run')
    PROVE  ContractInv'
  BY ZenonT(30) DEF ContractInv, InvOf, PastOK, Good, CodeOf, Kept

(* A state the chain can be unwound to is added. *)
LEMMA PushOK ==
    ASSUME NEW p \in Seq(DBs), NEW d, Good(d), PastOK(p, d),
           Worth(d.balance) + Burnt(Len(p)) = Total
    PROVE  Append(p, d) \in Seq(DBs) /\ Len(Append(p, d)) > 0 /\ PastOK(Append(p, d), d)
  <1> DEFINE q == Append(p, d)
  <1>1. d \in DBs
    BY Zenon DEF Good
  <1>2. /\ q \in Seq(DBs) /\ Len(p) \in Nat /\ Len(q) = Len(p) + 1 /\ q[Len(p) + 1] = d
        /\ \A i \in 1 .. Len(p) : q[i] = p[i]
    BY <1>1
  <1> HIDE DEF q
  <1>3. Kept(d.code, d.code)
    BY Zenon DEF Kept
  <1>4. PastOK(q, d)
    <2>1. Len(p) + 1 - 1 = Len(p)
      BY <1>2
    <2> QED
      BY <1>2, <1>3, <2>1 DEF PastOK
  <1> QED
    BY <1>2, <1>4 DEF q

(* The start of a sequence. *)
LEMMA PrefixFacts ==
    ASSUME NEW S, NEW p \in Seq(S), NEW h \in 0 .. Len(p)
    PROVE  /\ SubSeq(p, 1, h) \in Seq(S) /\ Len(SubSeq(p, 1, h)) = h
           /\ \A i \in 1 .. h : SubSeq(p, 1, h)[i] = p[i]
  OBVIOUS

(* The last state of the past is restored by an unwind. *)
LEMMA PopOK ==
    ASSUME NEW p \in Seq(DBs), NEW d, PastOK(p, d), Len(p) > 0
    PROVE  LET q == SubSeq(p, 1, Len(p) - 1)
           IN  /\ q \in Seq(DBs) /\ Good(p[Len(p)]) /\ PastOK(q, p[Len(p)])
               /\ Worth(p[Len(p)].balance) + Burnt(Len(q)) = Total
  <1> DEFINE q == SubSeq(p, 1, Len(p) - 1)
  <1>1. /\ q \in Seq(DBs) /\ Len(p) \in Nat /\ Len(q) = Len(p) - 1
        /\ \A i \in 1 .. Len(q) : q[i] = p[i]
    <2>1. Len(p) \in Nat /\ Len(p) - 1 \in 0 .. Len(p)
      OBVIOUS
    <2> QED
      BY <2>1, PrefixFacts, ZenonT(30)
  <1> HIDE DEF q
  <1>3. /\ Good(p[Len(p)]) /\ \A i \in 1 .. Len(p) : Kept(p[i].code, p[Len(p)].code)
        /\ Worth(p[Len(p)].balance) + Burnt(Len(p) - 1) = Total
    BY <1>1 DEF PastOK
  <1>4. PastOK(q, p[Len(p)])
    <2>1. \A i \in 1 .. Len(q) : i \in 1 .. Len(p) /\ \A j \in i .. Len(q) : j \in i .. Len(p) /\ j \in 1 .. Len(q)
      BY <1>1
    <2> QED
      BY <1>1, <1>3, <2>1, ZenonT(30) DEF PastOK
  <1> QED
    BY <1>1, <1>3, <1>4, Zenon DEF q

(* The past stays restorable while its code is kept. *)
LEMMA KeepOK ==
    ASSUME NEW p, NEW d, NEW e, PastOK(p, d), Kept(d.code, e.code)
    PROVE  PastOK(p, e)
  BY KeptSame, Zenon DEF PastOK
(* A step of the write transaction in the block on top of p. *)
LEMMA SettleOK ==
    ASSUME archive \in BOOLEAN, archive' = archive, NEW p \in Seq(DBs), Len(p) > 0,
           PastOK(p, db), NEW w \in Int, w + Burnt(Len(p)) = Total,
           NEW o, OutOK(db.code, w, o), Settle(o, p)
    PROVE  ContractInv'
  <1>1. CASE o.ok
    <2>1. db' = o.db /\ run' = o.run /\ past' = p
      BY <1>1, Zenon DEF Settle
    <2>2. /\ Good(o.db) /\ RunOK(o.db, o.run) /\ PastOK(p, o.db)
          /\ Worth(o.db.balance) = w + Due(o.run)
      BY <1>1, KeepOK, Zenon DEF OutOK
    <2>4. Worth(o.db.balance) + Burnt(Len(p)) = Total + Due(o.run)
      <3>1. Len(p) \in Nat /\ Due(o.run) \in Nat /\ Burnt(Len(p)) \in Nat
        BY BurntStep DEF Due
      <3> QED
        BY <2>2, <3>1
    <2>3. InvOf(db', past', run')
      BY <2>1, <2>2, <2>4, Zenon DEF InvOf
    <2> QED
      BY <2>3, NextInv, Zenon
  <1>2. CASE ~o.ok
    <2>1. db' = p[Len(p)] /\ run' = Idle /\ past' = SubSeq(p, 1, Len(p) - 1)
      BY <1>2, Zenon DEF Settle
    <2>2. /\ past' \in Seq(DBs) /\ Good(db') /\ PastOK(past', db')
          /\ Worth(db'.balance) + Burnt(Len(past')) = Total
      BY <2>1, PopOK
    <2>4. Worth(db'.balance) + Burnt(Len(past')) = Total + Due(run')
      BY <2>1, <2>2, BurntStep DEF Due
    <2>3. InvOf(db', past', run')
      BY <2>1, <2>2, <2>4, Zenon DEF InvOf, RunOK
    <2> QED
      BY <2>3, NextInv
  <1> QED
    BY <1>1, <1>2, Zenon

(* A block with a transaction begins. *)
LEMMA BeginInv ==
    ASSUME ContractInv, NEW tx \in Txs, Begin(tx)
    PROVE  ContractInv'
  <1>1. /\ archive \in BOOLEAN /\ archive' = archive /\ Good(db) /\ past \in Seq(DBs)
        /\ PastOK(past, db) /\ Settle(HandleTx(db, tx), Append(past, db)) /\ run = Idle
        /\ Worth(db.balance) + Burnt(Len(past)) = Total + Due(run)
    BY Zenon DEF ContractInv, InvOf, Begin
  <1>2. /\ Worth(db.balance) \in Nat /\ Len(past) \in Nat /\ Due(run) = 0
        /\ Len(Append(past, db)) = Len(past) + 1
    BY <1>1, DBFields, WorthType DEF Good, Due
  <1>3. /\ Worth(db.balance) + Burnt(Len(past)) = Total
        /\ Worth(db.balance) - Fee + Burnt(Len(past) + 1) = Total
        /\ Worth(db.balance) - Fee \in Int /\ Worth(db.balance) = Worth(db.balance) - Fee + Fee
    <2>1. /\ Total \in Nat /\ Fee \in Nat /\ Burnt(Len(past)) \in Nat
          /\ Burnt(Len(past) + 1) = Burnt(Len(past)) + Fee
      BY <1>2, BurntStep, Zenon
    <2> QED
      BY <1>1, <1>2, <2>1
  <1>4. OutOK(db.code, Worth(db.balance) - Fee, HandleTx(db, tx))
    <2>1. Kept(db.code, db.code)
      BY Zenon DEF Kept
    <2> QED
      BY <1>1, <1>3, <2>1, HandleOK
  <1>5. /\ Append(past, db) \in Seq(DBs) /\ Len(Append(past, db)) > 0
        /\ PastOK(Append(past, db), db)
    BY <1>1, <1>3, PushOK
  <1> QED
    BY <1>1, <1>2, <1>3, <1>4, <1>5, SettleOK, ZenonT(30)

(* A reorg: the restored slots find their modules in the code bucket that  *)
(* was not restored.                                                       *)
LEMMA ReorgInv ==
    ASSUME ContractInv, NEW h \in 0 .. MaxHeight, NEW tx \in Txs, Reorg(h, tx)
    PROVE  ContractInv'
  <1> DEFINE u == Unwound(h)
             pre == SubSeq(past, 1, h)
             o == HandleTx(u, tx)
  <1>1. /\ archive \in BOOLEAN /\ archive' = archive /\ Good(db) /\ past \in Seq(DBs)
        /\ PastOK(past, db) /\ run = Idle
    BY Zenon DEF ContractInv, InvOf, Reorg
  <1>2. /\ h \in Nat /\ h < Len(past) /\ o.ok /\ o.run = Idle /\ db' = o.db
        /\ past' = Append(pre, u) /\ run' = Idle
    BY <1>1 DEF Reorg
  <1>3. h + 1 \in 1 .. Len(past) /\ h \in 0 .. Len(past) /\ Len(past) \in Nat
    BY <1>1, <1>2
  <1>4. /\ Good(past[h + 1]) /\ Kept(past[h + 1].code, db.code)
        /\ Worth(past[h + 1].balance) + Burnt(h) = Total
    <2>1. h + 1 - 1 = h
      BY <1>2
    <2> QED
      BY <1>1, <1>3, <2>1 DEF PastOK
  <1>5. /\ Good(u) /\ u.code = (IF archive THEN db.code ELSE past[h + 1].code)
        /\ u.balance = past[h + 1].balance
    <2>1. CASE ~archive
      BY <1>4, <2>1, Zenon DEF Unwound
    <2>2. CASE archive
      <3> DEFINE q == past[h + 1]
      <3>1. u = [q EXCEPT !.code = db.code]
        BY <2>2, Zenon DEF Unwound
      <3>2. /\ q \in DBs /\ RefsOf(q.slots) /\ CodeOf(q.slots, q.code) /\ db.code \in CodeMaps
            /\ Covers(q.balance, q.slots)
        BY <1>1, <1>4, DBFields, Zenon DEF Good
      <3>3. Kept(q.code, db.code)
        BY <1>4, Zenon
      <3> HIDE DEF q, u
      <3>4. u \in DBs /\ u.slots = q.slots /\ u.code = db.code /\ u.balance = q.balance
        BY <3>1, <3>2, Zenon DEF DBs, CodeMaps
      <3>5. \A a \in Addrs : q.slots[a] # NoSlot => q.slots[a].code \in Codes
        BY <3>2, DBFields, SlotFields, Zenon DEF SlotMaps
      <3>6. CodeOf(u.slots, u.code)
        BY <2>2, <3>2, <3>3, <3>4, <3>5, Zenon DEF CodeOf, Kept
      <3> QED
        BY <2>2, <3>2, <3>4, <3>6 DEF Good, q
    <2> QED
      BY <2>1, <2>2, Zenon
  <1> HIDE DEF u, pre
  <1>6. /\ pre \in Seq(DBs) /\ Len(pre) = h /\ \A i \in 1 .. h : pre[i] = past[i]
    BY <1>1, <1>3, PrefixFacts DEF pre
  <1>7. PastOK(pre, u)
    <2>1. ASSUME NEW i \in 1 .. h
          PROVE  /\ Good(past[i]) /\ Kept(past[i].code, u.code)
                 /\ \A j \in i .. h : Kept(past[i].code, past[j].code)
                 /\ Worth(past[i].balance) + Burnt(i - 1) = Total
      <3>1. i \in 1 .. Len(past) /\ h + 1 \in i .. Len(past) /\ \A j \in i .. h : j \in i .. Len(past)
        BY <1>3
      <3>2. /\ Good(past[i]) /\ Kept(past[i].code, db.code)
            /\ \A j \in i .. Len(past) : Kept(past[i].code, past[j].code)
            /\ Worth(past[i].balance) + Burnt(i - 1) = Total
        BY <1>1, <3>1, Zenon DEF PastOK
      <3> QED
        BY <1>5, <3>1, <3>2
    <2>2. \A i \in 1 .. h : \A j \in i .. h : j \in 1 .. h
      BY <1>3
    <2> QED
      BY <1>6, <2>1, <2>2, Zenon DEF PastOK
  <1>8. /\ Append(pre, u) \in Seq(DBs) /\ Len(Append(pre, u)) > 0
        /\ PastOK(Append(pre, u), u)
    BY <1>4, <1>5, <1>6, <1>7, PushOK, Zenon
  <1>9. /\ Worth(u.balance) - Fee \in Int /\ Worth(u.balance) = Worth(u.balance) - Fee + Fee
         /\ Worth(u.balance) - Fee + Burnt(h + 1) = Total
    <2>1. Worth(u.balance) \in Nat
      BY <1>5, DBFields, WorthType DEF Good
    <2>2. Total \in Nat /\ Fee \in Nat /\ Burnt(h) \in Nat /\ Burnt(h + 1) = Burnt(h) + Fee
      BY <1>2, BurntStep, Zenon
    <2> QED
      BY ONLY <1>4, <1>5, <2>1, <2>2
  <1>10. Good(o.db) /\ Kept(u.code, o.db.code) /\ Worth(o.db.balance) = Worth(u.balance) - Fee
    <2>1. Kept(u.code, u.code)
      BY Zenon DEF Kept
    <2>2. OutOK(u.code, Worth(u.balance) - Fee, o)
      BY <1>5, <1>9, <2>1, HandleOK, Zenon
    <2>3. Worth(o.db.balance) = Worth(u.balance) - Fee + 0
      BY <1>2, <2>2, Zenon DEF OutOK, Due
    <2>4. \A x \in Int : x + 0 = x
      OBVIOUS
    <2> QED
      BY <1>2, <1>9, <2>2, <2>3, <2>4, Zenon DEF OutOK
  <1> HIDE DEF o
  <1>11. PastOK(Append(pre, u), o.db)
    BY <1>8, <1>10, KeepOK, Zenon
  <1>12. Worth(o.db.balance) + Burnt(Len(Append(pre, u))) = Total + Due(Idle)
    <2>1. Len(Append(pre, u)) = h + 1 /\ Due(Idle) = 0
      BY <1>6 DEF Due
    <2> QED
      BY <1>10, <1>9, <2>1, BurntStep
  <1>13. InvOf(db', past', run')
    BY <1>2, <1>8, <1>10, <1>11, <1>12, Zenon DEF InvOf, RunOK
  <1> QED
    BY <1>1, <1>13, NextInv
(* An upgrade hook that is assumed quiet left the deposit of its contract. *)
SameDeposit(r2, r) ==
    QuietHooks /\ r.phase \in {"upgrade", "destroy"} =>
        r2.slots[r.tx.from].rent = r.slots[r.tx.from].rent

(* A run that changed in storage, deposits, balances or frames. *)
LEMMA RunKept ==
    ASSUME NEW d, NEW r, RunOK(d, r), r # Idle, NEW r2 \in Runs,
           r2.phase = r.phase, r2.tx = r.tx, r2.slot = r.slot, Alike(r2.slots, r.slots),
           Len(r2.frames) > 0, \A i \in 1 .. Len(r2.frames) : d.slots[r2.frames[i]] # NoSlot,
           Worth(r2.balance) = Worth(r.balance), Covers(r2.balance, r2.slots),
           SameDeposit(r2, r)
    PROVE  RunOK(d, r2)
  <1>1. Alike(r2.slots, d.slots)
    BY ZenonT(40) DEF RunOK, Alike, SameCode
  <1>2. HookOK(d, r2)
    BY Zenon DEF RunOK, HookOK, SameDeposit
  <1> QED
    BY <1>1, <1>2, Zenon DEF RunOK

(* The top frame is a contract of the run. *)
LEMMA CurrentContract ==
    ASSUME ContractInv, run # Idle
    PROVE  /\ run \in Runs /\ run.frames \in Seq(Addrs) /\ Len(run.frames) \in Nat
           /\ Len(run.frames) > 0 /\ \A i \in 1 .. Len(run.frames) : db.slots[run.frames[i]] # NoSlot
           /\ currentAddress \in Addrs /\ run.slots[currentAddress] # NoSlot
  <1>1. /\ run \in Runs /\ Alike(run.slots, db.slots) /\ Len(run.frames) > 0
        /\ \A i \in 1 .. Len(run.frames) : db.slots[run.frames[i]] # NoSlot
    BY Zenon DEF ContractInv, InvOf, RunOK
  <1>2. run.frames \in Seq(Addrs)
    BY <1>1, Zenon DEF Runs
  <1>3. Len(run.frames) \in Nat /\ Len(run.frames) \in 1 .. Len(run.frames)
    BY <1>1, <1>2
  <1>4. currentAddress \in Addrs /\ currentAddress = run.frames[Len(run.frames)]
    BY <1>2, <1>3 DEF currentAddress
  <1> QED
    BY <1>1, <1>2, <1>3, <1>4, Zenon DEF Alike

(* The operations of a run are counted. *)
LEMMA OpsCounted ==
    ASSUME NEW r \in Runs, r.ops < MaxOps
    PROVE  LET r2 == [r EXCEPT !.ops = @ + 1]
           IN  /\ r2 \in Runs /\ r2.phase = r.phase /\ r2.tx = r.tx /\ r2.slot = r.slot
               /\ r2.frames = r.frames /\ r2.slots = r.slots /\ r2.balance = r.balance
               /\ r2 # Idle
  <1>1. r.ops + 1 \in 0 .. MaxOps
    BY ContractsAssumption DEF Runs
  <1> QED
    BY <1>1, ZenonT(30) DEF Runs, Idle

(* A host operation. *)
LEMMA StepInv ==
    ASSUME ContractInv, Operates, NEW r \in Runs, r.ops = run.ops,
           r.phase = run.phase, r.tx = run.tx, r.slot = run.slot, Alike(r.slots, run.slots),
           Len(r.frames) > 0, \A i \in 1 .. Len(r.frames) : db.slots[r.frames[i]] # NoSlot,
           Worth(r.balance) = Worth(run.balance), Slack(r) >= Slack(run), SameDeposit(r, run),
           Step(r)
    PROVE  ContractInv'
  <1> DEFINE r2 == [r EXCEPT !.ops = @ + 1]
  <1>1. run # Idle /\ r.ops < MaxOps
    BY Zenon DEF Operates
  <1>2. run' = r2 /\ archive' = archive /\ db' = db /\ past' = past
    BY Zenon DEF Step
  <1>3. /\ r2 \in Runs /\ r2.phase = run.phase /\ r2.tx = run.tx /\ r2.slot = run.slot
        /\ r2.frames = r.frames /\ r2.slots = r.slots /\ r2.balance = r.balance /\ r2 # Idle
    BY <1>1, OpsCounted, Zenon
  <1> HIDE DEF r2
  <1>4. RunOK(db, r2)
    <2>1. RunOK(db, run) /\ run \in Runs /\ Covers(run.balance, run.slots)
      BY <1>1, Zenon DEF ContractInv, InvOf, RunOK
    <2>2. Covers(r.balance, r.slots)
      <3>1. /\ Slack(run) \in Int /\ Slack(r) \in Int
            /\ Covers(run.balance, run.slots) <=> (QuietHooks => Slack(run) >= 0)
            /\ Covers(r.balance, r.slots) <=> (QuietHooks => Slack(r) >= 0)
        BY <2>1, SlackType, Zenon
      <3>2. Slack(run) >= 0 => Slack(r) >= 0
        BY <3>1
      <3> QED
        BY <2>1, <3>1, <3>2, Zenon
    <2>3. SameDeposit(r2, run)
      BY <1>3, Zenon DEF SameDeposit
    <2> QED
      BY <1>1, <1>3, <2>1, <2>2, <2>3, RunKept, Zenon
  <1>5. Due(r2) = Due(run)
    BY <1>1, <1>3, Zenon DEF Due
  <1>6. InvOf(db', past', run')
    BY <1>1, <1>2, <1>4, <1>5, Zenon DEF ContractInv, InvOf
  <1> QED
    BY <1>2, <1>6, NextInv, Zenon DEF ContractInv

(* A step of a run that moves money keeps the invariant. *)
LEMMA MovesInv ==
    ASSUME ContractInv, Operates, NEW r, Moves(run, r), Slack(r) >= Slack(run),
           SameDeposit(r, run), Step(r)
    PROVE  ContractInv'
  <1>1. run # Idle
    BY Zenon DEF Operates
  <1> QED
    BY <1>1, CurrentContract, StepInv, Zenon DEF Moves

(* The operations of the host. *)
LEMMA HostInv ==
    ASSUME ContractInv,
           \/ \E k \in Keys : KvDel(k) \/ \E n \in 1 .. MaxBytes : KvSet(k, n)
           \/ \E to \in Payees : CoinTransfer(to, 1)
           \/ \E b \in Addrs : Call(b)
    PROVE  ContractInv'
  <1>0. Operates /\ run # Idle
    BY Zenon DEF KvDel, KvSet, CoinTransfer, Call, Operates
  <1>1. /\ run \in Runs /\ run.frames \in Seq(Addrs) /\ Len(run.frames) \in Nat
        /\ Len(run.frames) > 0 /\ \A i \in 1 .. Len(run.frames) : db.slots[run.frames[i]] # NoSlot
        /\ currentAddress \in Addrs /\ run.slots[currentAddress] # NoSlot
    BY <1>0, CurrentContract, Zenon
  <1>2. /\ run.balance \in [Accounts -> Nat]
        /\ \A k \in Keys : run.slots[currentAddress].kv[k] \in 0 .. MaxBytes
        /\ Slack(run) \in Int /\ run.tx.from \in Addrs
    <2>1. run.tx \in Txs /\ run.balance \in [Accounts -> Nat] /\ run.slots[currentAddress] \in Slots
      BY <1>1, Zenon DEF Runs
    <2>2. Slack(run) \in Int
      BY <1>1, SlackType, Zenon
    <2>3. \A k \in Keys : run.slots[currentAddress].kv[k] \in 0 .. MaxBytes
      BY <2>1, Zenon DEF Slots
    <2> QED
      BY <2>1, <2>2, <2>3, TxFields, Zenon
  <1>3. ASSUME NEW k \in Keys, KvDel(k) PROVE ContractInv'
    <2>1. 0 \in 0 .. MaxBytes /\ \A m \in Nat, n \in 0 .. MaxBytes : m >= 0 - n
      BY ContractsAssumption
    <2>2. run.balance[currentAddress] >= 0 - run.slots[currentAddress].kv[k]
      BY <1>1, <1>2, <2>1, Zenon DEF Accounts
    <2> DEFINE r == Resized(run, currentAddress, k, 0)
    <2>3. /\ Moves(run, r) /\ Slack(r) = Slack(run)
          /\ \A x \in Addrs \ {currentAddress} : r.slots[x] = run.slots[x]
      BY <1>1, <2>1, <2>2, ResizedMoves, ZenonT(40)
    <2>4. Step(r) /\ ~InQuietHook
      BY <1>3, Zenon DEF KvDel
    <2> HIDE DEF r
    <2>5. SameDeposit(r, run)
      BY <1>2, <2>3, <2>4, Zenon DEF SameDeposit, InQuietHook
    <2>6. Slack(r) >= Slack(run)
      BY ONLY <1>2, <2>3
    <2> QED
      BY <1>0, <2>3, <2>4, <2>5, <2>6, MovesInv
  <1>4. ASSUME NEW k \in Keys, NEW n \in 1 .. MaxBytes, KvSet(k, n) PROVE ContractInv'
    <2>1. n \in 0 .. MaxBytes
      BY ContractsAssumption
    <2> DEFINE r == Resized(run, currentAddress, k, n)
    <2>2. /\ Step(r) /\ ~InQuietHook
          /\ RentActive => run.balance[currentAddress] >= n - run.slots[currentAddress].kv[k]
      BY <1>4, Zenon DEF KvSet
    <2>3. /\ Moves(run, r) /\ Slack(r) = Slack(run)
          /\ \A x \in Addrs \ {currentAddress} : r.slots[x] = run.slots[x]
      BY ONLY <1>1, <2>1, <2>2, ResizedMoves
    <2> HIDE DEF r
    <2>4. SameDeposit(r, run)
      BY <1>2, <2>2, <2>3, Zenon DEF SameDeposit, InQuietHook
    <2>5. Slack(r) >= Slack(run)
      BY ONLY <1>2, <2>3
    <2> QED
      BY <1>0, <2>2, <2>3, <2>4, <2>5, MovesInv, Zenon
  <1>5. ASSUME NEW to \in Payees, CoinTransfer(to, 1) PROVE ContractInv'
    <2>1. /\ to \in Accounts /\ currentAddress \in Accounts /\ Escrow \in Accounts
          /\ currentAddress # Escrow
      BY <1>1, ContractsAssumption, Zenon DEF Accounts
    <2>2. 1 <= run.balance[currentAddress]
      BY <1>2, <1>5, <2>1, Zenon DEF CoinTransfer
    <2> DEFINE c == currentAddress
               r == transfer(run, c, to, 1)
    <2> HIDE DEF c
    <2>3. /\ Moves(run, r) /\ r.slots = run.slots
          /\ r.balance = [[run.balance EXCEPT ![c] = @ - 1] EXCEPT ![to] = @ + 1]
      <3>1. run \in Runs /\ c \in Accounts /\ to \in Accounts /\ 1 \in Nat /\ 1 <= run.balance[c]
        BY <1>1, <2>1, <2>2, Zenon DEF c
      <3> QED
        BY ONLY <3>1, TransferMoves DEF r
    <2>4. Step(r)
      BY <1>5, Zenon DEF CoinTransfer, c
    <2> HIDE DEF r
    <2>5. r.balance[Escrow] >= run.balance[Escrow]
      BY ONLY <1>2, <2>1, <2>3 DEF c
    <2>6. Slack(r) >= Slack(run) /\ SameDeposit(r, run)
      <3>1. r \in Runs
        BY <2>3, Zenon DEF Moves
      <3>2. /\ run.balance[Escrow] \in Nat /\ r.balance[Escrow] \in Nat
            /\ Rents(run.slots) \in Nat
        BY <1>1, <3>1, SlackType, Zenon
      <3> QED
        BY ONLY <2>3, <2>5, <3>2 DEF Slack, SameDeposit
    <2> QED
      BY <1>0, <2>3, <2>4, <2>6, MovesInv, Zenon
  <1>6. ASSUME NEW b \in Addrs, Call(b) PROVE ContractInv'
    <2> DEFINE fr == Append(run.frames, b)
               r == [run EXCEPT !.frames = fr]
    <2>1. db.slots[b] # NoSlot /\ Step(r)
      BY <1>6, Zenon DEF Call, Live
    <2>2. /\ fr \in Seq(Addrs) /\ Len(fr) = Len(run.frames) + 1 /\ fr[Len(run.frames) + 1] = b
          /\ \A i \in 1 .. Len(run.frames) : fr[i] = run.frames[i]
      BY ONLY <1>1
    <2> HIDE DEF fr
    <2>3. Len(fr) > 0 /\ \A i \in 1 .. Len(fr) : db.slots[fr[i]] # NoSlot
      BY <1>1, <2>1, <2>2
    <2>4. /\ r \in Runs /\ r.ops = run.ops /\ r.phase = run.phase /\ r.tx = run.tx
          /\ r.slot = run.slot /\ r.slots = run.slots /\ r.frames = fr
          /\ r.balance = run.balance
      BY <1>1, <2>2, ZenonT(30) DEF Runs
    <2> HIDE DEF r
    <2>5. /\ Alike(r.slots, run.slots) /\ Worth(r.balance) = Worth(run.balance)
          /\ Slack(r) >= Slack(run) /\ SameDeposit(r, run)
      BY ONLY <1>2, <2>4 DEF Alike, SameCode, Slack, SameDeposit
    <2> QED
      BY <1>0, <2>1, <2>3, <2>4, <2>5, StepInv, Zenon
  <1> QED
    BY <1>3, <1>4, <1>5, <1>6

(* A call returns. *)
LEMMA ReturnInv ==
    ASSUME ContractInv, Return
    PROVE  ContractInv'
  <1> DEFINE fr == SubSeq(run.frames, 1, Len(run.frames) - 1)
             r == [run EXCEPT !.frames = fr]
  <1>1. run # Idle /\ Len(run.frames) > 1 /\ run' = r /\ archive' = archive /\ db' = db /\ past' = past
    BY Zenon DEF Return
  <1>2. /\ run \in Runs /\ run.frames \in Seq(Addrs) /\ Len(run.frames) \in Nat
        /\ \A i \in 1 .. Len(run.frames) : db.slots[run.frames[i]] # NoSlot
    BY <1>1, CurrentContract, Zenon
  <1>3. /\ fr \in Seq(Addrs) /\ Len(fr) = Len(run.frames) - 1
        /\ \A i \in 1 .. Len(fr) : fr[i] = run.frames[i]
    <2>1. Len(run.frames) - 1 \in 0 .. Len(run.frames)
      BY <1>1, <1>2
    <2> QED
      BY <1>2, <2>1, PrefixFacts
  <1> HIDE DEF fr
  <1>4. Len(fr) > 0 /\ \A i \in 1 .. Len(fr) : db.slots[fr[i]] # NoSlot
    BY <1>1, <1>2, <1>3
  <1>5. /\ r \in Runs /\ r.phase = run.phase /\ r.tx = run.tx
        /\ r.slot = run.slot /\ r.slots = run.slots /\ r.frames = fr
        /\ r.balance = run.balance /\ r # Idle
    BY <1>2, <1>3, ZenonT(30) DEF Runs, Idle
  <1> HIDE DEF r
  <1>6. Alike(r.slots, run.slots) /\ SameDeposit(r, run) /\ Due(r) = Due(run)
    BY <1>1, <1>5, Zenon DEF Alike, SameCode, SameDeposit, Due
  <1>7. RunOK(db, r)
    <2>1. RunOK(db, run) /\ Covers(r.balance, r.slots)
      BY <1>1, <1>5, Zenon DEF ContractInv, InvOf, RunOK
    <2> QED
      BY <1>1, <1>4, <1>5, <1>6, <2>1, RunKept, Zenon
  <1>8. InvOf(db', past', run')
    BY <1>1, <1>6, <1>7 DEF ContractInv, InvOf
  <1> QED
    BY <1>1, <1>8, NextInv DEF ContractInv

(* The money of a state without the fee that is still due. *)
LEMMA Split ==
    ASSUME NEW d, Good(d), NEW p \in Seq(DBs), NEW r,
           Worth(d.balance) + Burnt(Len(p)) = Total + Due(r)
    PROVE  \E w \in Int : Worth(d.balance) = w + Due(r) /\ w + Burnt(Len(p)) = Total
  <1>1. Worth(d.balance) \in Nat /\ Len(p) \in Nat
    BY DBFields, WorthType DEF Good
  <1>2. Total \in Nat /\ Due(r) \in Nat /\ Burnt(Len(p)) \in Nat
    BY <1>1, BurntStep, Zenon DEF Due
  <1>3. /\ Worth(d.balance) - Due(r) \in Int /\ Worth(d.balance) = Worth(d.balance) - Due(r) + Due(r)
        /\ Worth(d.balance) - Due(r) + Burnt(Len(p)) = Total
    BY <1>1, <1>2, SMTT(30)
  <1> QED
    BY <1>3, Zenon

(* A call traps. *)
LEMMA TrapInv ==
    ASSUME ContractInv, Trap
    PROVE  ContractInv'
  <1>1. run # Idle /\ Settle(AfterTrap(db, run), past) /\ archive' = archive
    BY Zenon DEF Trap
  <1>2. /\ archive \in BOOLEAN /\ Good(db) /\ past \in Seq(DBs) /\ PastOK(past, db)
        /\ RunOK(db, run) /\ Len(past) > 0 /\ run \in Runs
        /\ Worth(db.balance) + Burnt(Len(past)) = Total + Due(run)
    BY <1>1, Zenon DEF ContractInv, InvOf, RunOK
  <1>3. PICK w \in Int : Worth(db.balance) = w + Due(run) /\ w + Burnt(Len(past)) = Total
    BY <1>2, Split
  <1>4. OutOK(db.code, w, AfterTrap(db, run))
    <2>1. Kept(db.code, db.code)
      BY Zenon DEF Kept
    <2> QED
      BY <1>2, <1>3, <2>1, TrapOK
  <1> QED
    BY <1>1, <1>2, <1>3, <1>4, SettleOK

(* The flush of the journal changes nothing that the invariant is about. *)
LEMMA FlushedOK ==
    ASSUME NEW d, Good(d), NEW r \in Runs, RunOK(d, r), NEW e \in DBs,
           e.slots = r.slots, e.code = d.code, e.balance = r.balance
    PROVE  Good(e) /\ RunOK(e, r)
  <1>1. /\ r # Idle /\ r.tx \in Txs /\ r.tx.from \in Addrs
        /\ \A i \in 1 .. Len(r.frames) : r.frames[i] \in Addrs
    <2>1. r.tx \in Txs /\ r.frames \in Seq(Addrs)
      BY Zenon DEF Runs
    <2>2. r # Idle
      BY DEF Runs, Idle
    <2> QED
      BY <2>1, <2>2, TxFields
  <1>2. /\ Alike(r.slots, d.slots) /\ Covers(r.balance, r.slots) /\ Len(r.frames) > 0
        /\ \A i \in 1 .. Len(r.frames) : d.slots[r.frames[i]] # NoSlot
        /\ HookOK(d, r)
    BY <1>1, Zenon DEF RunOK
  <1>3. Good(e)
    <2>1. e.slots \in SlotMaps /\ d.slots \in SlotMaps
      BY DBFields, Zenon DEF Good
    <2>2. RefsOf(e.slots) /\ CodeOf(e.slots, e.code)
      BY <1>2, <2>1, AlikeGood, Zenon DEF Good
    <2> QED
      BY <1>2, <2>2, Zenon DEF Good
  <1>4. /\ Alike(r.slots, e.slots)
        /\ \A i \in 1 .. Len(r.frames) : e.slots[r.frames[i]] # NoSlot
    <2>1. Alike(r.slots, e.slots)
      BY Zenon DEF Alike, SameCode
    <2>2. \A i \in 1 .. Len(r.frames) : e.slots[r.frames[i]] # NoSlot
      BY <1>1, <1>2, Zenon DEF Alike
    <2> QED
      BY <2>1, <2>2, Zenon
  <1>5. HookOK(e, r)
    <2>1. r.phase \in {"upgrade", "destroy"} =>
            e.slots[r.tx.from] # NoSlot /\ SameCode(r.slot, e.slots[r.tx.from])
      BY <1>1, <1>2, Zenon DEF HookOK, Alike, SameCode
    <2>2. \A x \in Addrs : Live(d, x) => Live(e, x)
      BY <1>2, Zenon DEF Live, Alike, SameCode
    <2>3. r.phase = "upgrade" => validateDeps(e, r.tx.from, r.tx.code)
      <3>1. SUFFICES ASSUME r.phase = "upgrade" PROVE validateDeps(e, r.tx.from, r.tx.code)
        BY Zenon
      <3>2. /\ r.tx.code # NoCode /\ "value" \notin DOMAIN r.tx
            /\ validateDeps(d, r.tx.from, r.tx.code)
        BY <1>2, <3>1, Zenon DEF HookOK
      <3>3. Imports[r.tx.code] \in SUBSET Addrs
        BY <1>1, <3>2, TxFields, ContractsAssumption, Zenon
      <3> QED
        BY <2>2, <3>2, <3>3, Zenon DEF validateDeps
    <2> QED
      BY <1>2, <2>1, <2>3, Zenon DEF HookOK
  <1> QED
    BY <1>1, <1>2, <1>3, <1>4, <1>5, Zenon DEF RunOK

(* A run ends. *)
LEMMA EndInv ==
    ASSUME ContractInv, End
    PROVE  ContractInv'
  <1> DEFINE d == [db EXCEPT !.balance = run.balance, !.slots = run.slots]
  <1>1. run # Idle /\ Settle(AfterRun(d, run), past) /\ archive' = archive
    BY Zenon DEF End
  <1>2. /\ archive \in BOOLEAN /\ Good(db) /\ past \in Seq(DBs) /\ PastOK(past, db)
        /\ RunOK(db, run) /\ Len(past) > 0 /\ run \in Runs /\ Alike(run.slots, db.slots)
        /\ Worth(db.balance) + Burnt(Len(past)) = Total + Due(run)
        /\ Worth(run.balance) = Worth(db.balance) /\ Covers(run.balance, run.slots)
    BY <1>1, Zenon DEF ContractInv, InvOf, RunOK
  <1>3. d \in DBs /\ d.slots = run.slots /\ d.code = db.code /\ d.balance = run.balance
    BY <1>2, ZenonT(30) DEF Good, DBs, Runs
  <1> HIDE DEF d
  <1>4. Good(d) /\ RunOK(d, run)
    BY <1>2, <1>3, FlushedOK, Zenon
  <1>5. PICK w \in Int : Worth(db.balance) = w + Due(run) /\ w + Burnt(Len(past)) = Total
    BY <1>2, Split, Zenon
  <1>6. OutOK(db.code, w, AfterRun(d, run))
    <2>1. Kept(db.code, d.code) /\ Worth(d.balance) = w + Due(run)
      BY <1>2, <1>3, <1>5, Zenon DEF Kept
    <2>2. QuietHooks /\ run.phase \in {"upgrade", "destroy"} => d.slots[run.tx.from].rent = run.slot.rent
      BY <1>1, <1>3, <1>4, Zenon DEF RunOK, HookOK
    <2> QED
      BY <1>2, <1>4, <2>1, <2>2, AfterOK, Zenon
  <1> QED
    BY <1>1, <1>2, <1>5, <1>6, SettleOK, Zenon

(* The genesis state has the invariant. *)
LEMMA GenesisInv == Init => ContractInv
  <1>1. SUFFICES ASSUME Init PROVE ContractInv
    BY Zenon
  <1>2. db = Genesis /\ past = << >> /\ run = Idle /\ archive \in BOOLEAN
    BY <1>1, Zenon DEF Init
  <1>3. Genesis \in DBs
    BY ContractsAssumption, Zenon DEF Genesis, DBs
  <1>4. \A a \in Addrs : Genesis.slots[a] = NoSlot
    BY Zenon DEF Genesis
  <1>5. \A c \in Codes : Genesis.code[c] = NoCode /\ Users(Genesis.slots, c) = {}
    BY <1>4, Zenon DEF Genesis, Users
  <1>6. Covers(Genesis.balance, Genesis.slots)
    <2>1. Genesis.slots \in SlotMaps /\ IsFiniteSet(Addrs)
      BY <1>3, DBFields, ContractsAssumption
    <2>2. \A a \in Addrs : RentOf(Genesis.slots)[a] = 0
      BY <1>4, Zenon DEF RentOf
    <2>3. Rents(Genesis.slots) = 0 * Cardinality(Addrs)
      BY <2>1, <2>2, SumEqual, RentsType
    <2>4. Cardinality(Addrs) \in Nat
      BY <2>1, FS_CardinalityType, Zenon
    <2>5. Genesis.balance[Escrow] = 0
      BY Zenon DEF Genesis, Accounts
    <2> QED
      BY <2>3, <2>4, <2>5 DEF Covers
  <1>7. Worth(Genesis.balance) = Total
    <2> DEFINE f == Genesis.balance
    <2>1. /\ Escrow \in Accounts /\ Accounts \ {Escrow} = Addrs /\ f[Escrow] = 0
          /\ \A a \in Addrs : f[a] = Funds
      BY ContractsAssumption, Zenon DEF Genesis, Accounts
    <2>2. f \in [Accounts -> Nat]
      BY <1>3, DBFields
    <2> HIDE DEF f
    <2>3. SumFunctionOnSet(f, Accounts) = f[Escrow] + SumFunctionOnSet(f, Accounts \ {Escrow})
      <3>1. IsFiniteSet(Accounts) /\ \A a \in Accounts : f[a] \in Int
        BY <2>2, WorthType
      <3> QED BY <2>1, <3>1, SumTake, Zenon
    <2>4. SumFunctionOnSet(f, Addrs) = Total /\ Total \in Nat
      BY <2>1, ContractsAssumption, SumEqual, BurntStep, Zenon DEF Total
    <2>5. SumFunctionOnSet(f, Accounts) = Total
      BY <2>1, <2>3, <2>4
    <2> QED
      BY <2>5, Zenon DEF Worth, f
  <1>8. Good(Genesis)
    BY <1>3, <1>4, <1>5, <1>6, Zenon DEF Good, RefsOf, CodeOf
  <1>9. PastOK(<< >>, Genesis) /\ << >> \in Seq(DBs)
    BY DEF PastOK
  <1>10. Worth(Genesis.balance) + Burnt(Len(<< >>)) = Total + Due(Idle)
    BY <1>7, BurntStep, Zenon DEF Due
  <1> QED
    BY <1>2, <1>8, <1>9, <1>10, Zenon DEF ContractInv, InvOf, RunOK

(* Every step keeps the invariant. *)
LEMMA NextKeepsInv == ContractInv /\ [Next]_vars => ContractInv'
  <1>1. SUFFICES ASSUME ContractInv, [Next]_vars PROVE ContractInv'
    BY Zenon
  <1>2. CASE UNCHANGED vars
    <2>1. archive' = archive /\ db' = db /\ past' = past /\ run' = run
      BY <1>2, Zenon DEF vars
    <2>2. InvOf(db', past', run') /\ archive \in BOOLEAN
      BY <1>1, <2>1 DEF ContractInv
    <2> QED
      BY <2>1, <2>2, NextInv
  <1>3. ASSUME NEW tx \in Txs, Begin(tx) PROVE ContractInv'
    BY <1>1, <1>3, BeginInv
  <1>4. ASSUME NEW h \in 0 .. MaxHeight, NEW tx \in Txs, Reorg(h, tx) PROVE ContractInv'
    BY <1>1, <1>4, ReorgInv
  <1> QED
    BY <1>1, <1>2, <1>3, <1>4, HostInv, ReturnInv, TrapInv, EndInv DEF Next

(* In every run of the code that the model admits, the inductive invariant *)
(* holds.                                                                  *)
THEOREM ContractInvariance == Spec => []ContractInv
  BY GenesisInv, NextKeepsInv, PTL DEF Spec

(* Balances, slots, code bucket and runs are well typed; in particular no  *)
(* balance and no deposit on record goes below zero, whatever contracts    *)
(* store, pay and call.                                                    *)
THEOREM ContractTypes == Spec => []TypeOK
  <1>1. ContractInv => TypeOK
    BY Zenon DEF ContractInv, InvOf, TypeOK, Good, RunOK
  <1> QED
    BY <1>1, ContractInvariance, PTL

(* The reference counts that guard a destroy are exact, and no contract    *)
(* imports one that is gone (releaseContractDeps, pinDeps, handleDeploy).  *)
THEOREM ReferencesExact == Spec => []RefsExact
  <1>1. ContractInv => RefsExact
    BY Zenon DEF ContractInv, InvOf, Good, RefsOf, RefsExact, Importers
  <1> QED
    BY <1>1, ContractInvariance, PTL

(* Every slot finds its module in the code bucket, through deploys,        *)
(* upgrades, destroys and unwinds that leave the bucket alone; a node      *)
(* without archive counts the users exactly.                               *)
THEOREM CodeIsHeld == Spec => []CodeHeld
  <1>1. ContractInv => CodeHeld
    BY Zenon DEF ContractInv, InvOf, Good, CodeOf, CodeHeld, Users
  <1> QED
    BY <1>1, ContractInvariance, PTL

(* Blocks make no money and lose none but the fees that are burnt, for     *)
(* every genesis, fee and set of transactions: transfers, runs, deposits,  *)
(* refunds, traps, refused blocks and reorgs move it and no more           *)
(* (chargeFrom, transfer, lockDeposit, refundDeposit, the journal's flush).*)
THEOREM MoneyConserved == Spec => []SupplyConserved
  <1>1. ContractInv => SupplyConserved
    <2>1. SUFFICES ASSUME ContractInv, run = Idle
                   PROVE  SumFunctionOnSet(db.balance, Accounts) + Fee * Len(past) = Funds * Cardinality(Addrs)
      BY Zenon DEF SupplyConserved
    <2>2. Worth(db.balance) + Burnt(Len(past)) = Total + Due(run) /\ Due(run) = 0
      BY <2>1, Zenon DEF ContractInv, InvOf, Due
    <2>3. Total + 0 = Total
      BY BurntStep
    <2> QED
      BY <2>2, <2>3 DEF Worth, Burnt, Total
  <1> QED
    BY <1>1, ContractInvariance, PTL

(* As long as no upgrade hook writes its contract's own storage, the       *)
(* escrow covers the deposits on record: no refund is paid from the bond   *)
(* of another contract or cut short, through kv.set and kv.del, calls,     *)
(* traps, upgrades, destroys and reorgs (lockDeposit, refundDeposit,       *)
(* refundContractDeposit, handleDeploy).                                   *)
THEOREM DepositsCovered == QuietHooks => (Spec => []EscrowCovers)
  <1>1. SUFFICES ASSUME QuietHooks PROVE Spec => []EscrowCovers
    BY Zenon
  <1>2. ContractInv => EscrowCovers
    BY <1>1, Zenon DEF ContractInv, InvOf, Good, Covers, EscrowCovers
  <1> QED
    BY <1>2, ContractInvariance, PTL
=============================================================================
