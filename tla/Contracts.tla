----------------------------- MODULE Contracts -----------------------------
(***************************************************************************)
(* Execution of transactions and contracts on the state (ngstate/):        *)
(* transfers, deploy, upgrade and destroy of contract slots, the reference *)
(* counts of dependencies and of code, and the storage deposit.            *)
(*                                                                         *)
(* The code of a contract is arbitrary, so a run takes any sequence of the *)
(* host operations that change state, on a journal that is flushed when it *)
(* ends well and dropped when it traps.  A block carries one transaction.  *)
(***************************************************************************)
EXTENDS Integers, Sequences, FiniteSets, FiniteSetsExt, Functions

CONSTANTS
    Addrs,          \* addresses that send, receive and deploy
    Escrow,         \* StorageDepositEscrow: nobody's address
    Codes,          \* wasm modules
    NoCode,         \* the empty module; also "no slot" and "no entry"
    Imports,        \* module -> the addresses it imports
    Exports,        \* module -> the entries it exports
    Keys,           \* keys of a contract's storage
    MaxBytes,       \* bound: the size of a stored entry, key and value
    Funds,          \* the balance of every address at genesis
    Fee,            \* the fee of a transaction; it is burnt
    Txs,            \* the transactions that exist
    RentHeight,     \* the height that activates ForkStateRent
    QuietHooks,     \* no upgrade hook writes its contract's own storage
    Payees,         \* bound: whom contracts pay
    MaxHeight,      \* bound: blocks
    MaxRefs,        \* bound: the reference count of a module
    MaxOps          \* bound: host operations of a run

ASSUME ContractsAssumption ==
    /\ Escrow \notin Addrs /\ NoCode \notin Codes
    /\ IsFiniteSet(Addrs)
    /\ Imports \in [Codes -> SUBSET Addrs]
    /\ Exports \in [Codes -> SUBSET {"main", "init", "upgrade", "validate"}]
    /\ Txs \subseteq [from : Addrs, to : Addrs \cup {Escrow}, value : Nat]
                       \cup [from : Addrs, code : Codes \cup {NoCode}]
    /\ Funds \in Nat /\ Fee \in Nat /\ RentHeight \in Nat
    /\ MaxBytes \in Nat /\ MaxOps \in Nat /\ QuietHooks \in BOOLEAN
    /\ Payees \subseteq Addrs \cup {Escrow}

VARIABLES
    archive,        \* State.Archive
    db,             \* balances, contract slots and the code bucket
    past,           \* the same after each block below: what changesets restore
    run             \* the contract run in progress, with its transaction

vars == <<archive, db, past, run>>

Accounts == Addrs \cup {Escrow}

(* storedContract: the code hash and the context, its reserved keys        *)
(* (_deps, _refs, _rent) apart.  A slot that exists is active.  An entry   *)
(* of the storage is its size.                                             *)
Slots ==
    [code : Codes, deps : SUBSET Addrs, refs : Nat, rent : Nat, kv : [Keys -> 0 .. MaxBytes]]

NoSlot == NoCode

(* The code bucket: the reference count of a module, if it is there. *)
DBs ==
    [ balance : [Accounts -> Nat],
      slots   : [Addrs -> Slots \cup {NoSlot}],
      code    : [Codes -> Nat \cup {NoCode}] ]

ASSUME SlotsAssumption == NoSlot \notin Slots /\ NoCode \notin Nat

Genesis ==
    [ balance |-> [a \in Accounts |-> IF a = Escrow THEN 0 ELSE Funds],
      slots   |-> [a \in Addrs |-> NoSlot],
      code    |-> [c \in Codes |-> NoCode] ]

(* A run has the phase of its handler, the handler's copy of the slot, the *)
(* call frames and the journal.  Nothing else writes the state during a    *)
(* run, so that copying slots and balances on first touch (contractOf,     *)
(* balanceOf) is copying them at the start.                                *)
Idle == [phase |-> "idle"]

Runs ==
    [ phase : {"validate", "main", "upgrade", "destroy", "init"}, tx : Txs,
      slot : Slots \cup {NoSlot}, frames : Seq(Addrs),
      balance : [Accounts -> Nat], slots : [Addrs -> Slots \cup {NoSlot}],
      ops : 0 .. MaxOps ]

TypeOK ==
    /\ archive \in BOOLEAN
    /\ db \in DBs
    /\ past \in Seq(DBs)
    /\ run \in Runs \cup {Idle}

Init ==
    /\ archive \in BOOLEAN
    /\ db = Genesis
    /\ past = << >>
    /\ run = Idle

-----------------------------------------------------------------------------
(* Slots and code. *)

(* getContract gives a slot with code: loadCode finds the module. *)
Live(d, a) == d.slots[a] # NoSlot /\ d.code[d.slots[a].code] # NoCode

(* Faulty: the bytes go with the last reference on archive nodes too. *)
releaseCodeAlways(code, c) ==
    [code EXCEPT ![c] = IF @ = NoCode THEN @ ELSE IF @ <= 1 THEN NoCode ELSE @ - 1]

(* releaseCode: an archive node keeps the bytes at zero references. *)
releaseCode(code, c) ==
    [code EXCEPT ![c] =
        CASE @ = NoCode              -> @
          [] @ # NoCode /\ @ <= 1    -> IF archive THEN 0 ELSE NoCode
          [] @ # NoCode /\ @ > 1     -> @ - 1]

retainCode(code, c) == [code EXCEPT ![c] = IF @ = NoCode THEN 1 ELSE @ + 1]

setContract(d, a, s) ==
    LET old == d.slots[a]
    IN  [ d EXCEPT
            !.slots[a] = s,
            !.code = IF old = NoSlot THEN retainCode(@, s.code)
                     ELSE IF old.code = s.code THEN @
                     ELSE retainCode(releaseCode(@, old.code), s.code) ]

delContract(d, a) ==
    [d EXCEPT !.slots[a] = NoSlot, !.code = releaseCode(@, d.slots[a].code)]

-----------------------------------------------------------------------------
(* Dependencies. *)

Depends(d, a) == IF Live(d, a) THEN Imports[d.slots[a].code] ELSE {}

(* The contracts that linking a links, in any number of steps. *)
Linked(d, a) ==
    {b \in Addrs : \A S \in SUBSET Addrs :
        Depends(d, a) \subseteq S /\ (\A x \in S : Depends(d, x) \subseteq S) => b \in S}

(* loadContractDeps links all of them: a cycle ends in ErrDepSelf or, past *)
(* maxDepChainDepth, in ErrDepLimit.                                       *)
loadContractDeps(d, a) ==
    /\ \A b \in Linked(d, a) : Live(d, b)
    /\ \A b \in Linked(d, a) \cup {a} : b \notin Linked(d, b)

validateDeps(d, a, c) == a \notin Imports[c] /\ \A b \in Imports[c] : Live(d, b)

pinDeps(d, S) ==
    [d EXCEPT !.slots = [a \in Addrs |->
        IF a \in S THEN [d.slots[a] EXCEPT !.refs = @ + 1] ELSE d.slots[a]]]

releaseContractDeps(d, S) ==
    [d EXCEPT !.slots = [a \in Addrs |->
        IF a \in S /\ d.slots[a].refs > 0
        THEN [d.slots[a] EXCEPT !.refs = @ - 1] ELSE d.slots[a]]]

-----------------------------------------------------------------------------
(* Handlers.  An outcome is the state and the run that goes on, or that    *)
(* the block is invalid.                                                   *)

(* The height of the block being applied. *)
Height == Len(past)

RentActive == Height >= RentHeight

Invalid == [ok |-> FALSE]

Done(d) == [ok |-> TRUE, db |-> d, run |-> Idle]

(* runContract: the entry runs if the contract exports it and links; if    *)
(* not, the handler goes on as after a run that failed.                    *)
runContract(d, phase, entry, a, tx, slot, otherwise) ==
    IF Live(d, a) /\ entry \in Exports[d.slots[a].code] /\ loadContractDeps(d, a)
    THEN [ ok  |-> TRUE, db |-> d,
           run |-> [ phase |-> phase, tx |-> tx, slot |-> slot, frames |-> <<a>>,
                     balance |-> d.balance, slots |-> d.slots, ops |-> 0 ] ]
    ELSE otherwise

Charged(d, a, n) == [d EXCEPT !.balance[a] = @ - n]

Credited(d, a, n) == [d EXCEPT !.balance[a] = @ + n]

(* Faulty: the receiver's balance is read before the sender is charged. *)
handleTransactionEarly(d, tx) ==
    IF d.balance[tx.from] < tx.value + Fee THEN Invalid
    ELSE LET paid == [Charged(d, tx.from, tx.value + Fee) EXCEPT
                        !.balance[tx.to] = d.balance[tx.to] + tx.value]
         IN  IF tx.to \in Addrs
             THEN runContract(paid, "main", "main", tx.to, tx, NoSlot, Done(paid))
             ELSE Done(paid)

(* handleTransaction: chargeFrom, the credit, and the receiver's contract. *)
handleTransaction(d, tx) ==
    IF d.balance[tx.from] < tx.value + Fee THEN Invalid
    ELSE LET paid == Credited(Charged(d, tx.from, tx.value + Fee), tx.to, tx.value)
         IN  IF tx.to \in Addrs
             THEN runContract(paid, "main", "main", tx.to, tx, NoSlot, Done(paid))
             ELSE Done(paid)

EmptySlot(c) ==
    [code |-> c, deps |-> {}, refs |-> 0, rent |-> 0, kv |-> [k \in Keys |-> 0]]

(* Faulty: the references of the old code stay. *)
PutCodeKeepingRefs(d, tx, slot) ==
    LET pinned == pinDeps(d, Imports[tx.code])
        stored == setContract(pinned, tx.from,
                    [slot EXCEPT !.code = tx.code, !.deps = Imports[tx.code]])
    IN  runContract(stored, "init", "init", tx.from, tx, NoSlot, Done(stored))

(* The end of handleDeploy: the references of the old code are released,   *)
(* those of the new code pinned, the slot is stored as the handler had     *)
(* read it, with the new code, and init runs.                              *)
PutCode(d, tx, slot) ==
    LET released == releaseContractDeps(d, slot.deps)
        pinned   == pinDeps(released, Imports[tx.code])
        stored   == setContract(pinned, tx.from,
                      [slot EXCEPT !.code = tx.code, !.deps = Imports[tx.code]])
    IN  runContract(stored, "init", "init", tx.from, tx, NoSlot, Done(stored))

(* refundContractDeposit: the deposit the slot has on record, capped at    *)
(* what the escrow has.                                                    *)
refundContractDeposit(d, a, slot) ==
    LET pay == Min({slot.rent, d.balance[Escrow]})
    IN  Credited(Charged(d, Escrow, pay), a, pay)

(* The end of a destroy that the hook allowed. *)
Destroy(d, tx, slot) ==
    LET released == releaseContractDeps(d, slot.deps)
        refunded == IF RentActive THEN refundContractDeposit(released, tx.from, slot)
                    ELSE released
    IN  Done(delContract(refunded, tx.from))

(* handleDeploy up to the upgrade hook. *)
handleDeploy(d, tx) ==
    LET a    == tx.from
        paid == Charged(d, a, Fee)
        slot == d.slots[a]
    IN  IF d.balance[a] < Fee THEN Invalid
        ELSE IF tx.code = NoCode
        THEN IF ~Live(d, a) \/ slot.refs > 0 THEN Invalid
             ELSE runContract(paid, "destroy", "upgrade", a, tx, slot, Done(paid))
        ELSE IF ~validateDeps(d, a, tx.code) THEN Invalid
        ELSE IF Live(d, a)
        THEN runContract(paid, "upgrade", "upgrade", a, tx, slot, Done(paid))
        ELSE PutCode(paid, tx, EmptySlot(tx.code))

Handle(d, tx) ==
    IF "value" \in DOMAIN tx THEN handleTransaction(d, tx) ELSE handleDeploy(d, tx)

(* runValidate, then the handler. *)
HandleTx(d, tx) ==
    IF Live(d, tx.from) /\ "validate" \in Exports[d.slots[tx.from].code]
    THEN runContract(d, "validate", "validate", tx.from, tx, NoSlot, Invalid)
    ELSE Handle(d, tx)

(* What follows a run that ended well, the journal being flushed, ...      *)
AfterRun(d, r) ==
    CASE r.phase = "validate" -> Handle(d, r.tx)
      [] r.phase = "upgrade"  -> PutCode(d, r.tx, r.slot)
      [] r.phase = "destroy"  -> Destroy(d, r.tx, r.slot)
      [] OTHER                -> Done(d)

(* ... and one that trapped: a veto, or the end of the transaction. *)
AfterTrap(d, r) == IF r.phase = "validate" THEN Invalid ELSE Done(d)

(* CheckTx, for what it adds to the handlers: code without an upgrade hook *)
(* is immutable.                                                           *)
CheckTx(d, tx) ==
    "code" \in DOMAIN tx /\ Live(d, tx.from) => "upgrade" \in Exports[d.slots[tx.from].code]

-----------------------------------------------------------------------------
(* Steps of the write transaction. *)

(* The outcome of a step in the block on top of the states p: the state    *)
(* goes on, or the write transaction is rolled back.                       *)
Settle(o, p) ==
    \/ /\ o.ok
       /\ db' = o.db /\ run' = o.run /\ past' = p
    \/ /\ ~o.ok
       /\ db' = p[Len(p)] /\ run' = Idle /\ past' = SubSeq(p, 1, Len(p) - 1)

(* Bound: on an archive node deploys and reorgs count references up. *)
Bounded(tx) ==
    "code" \in DOMAIN tx /\ tx.code # NoCode =>
        db.code[tx.code] \in (0 .. MaxRefs - 1) \cup {NoCode}

(* Upgrade with a block that carries tx, up to the first contract run. *)
Begin(tx) ==
    /\ run = Idle /\ Len(past) < MaxHeight /\ Bounded(tx)
    /\ CheckTx(db, tx)
    /\ Settle(HandleTx(db, tx), Append(past, db))
    /\ UNCHANGED archive

(* UnwindToTxn restores balances and slots and leaves the code bucket      *)
(* alone; without archive, replay gives all as it was.                     *)
Unwound(h) == IF archive THEN [past[h + 1] EXCEPT !.code = db.code] ELSE past[h + 1]

(* A reorg to a branch off height h.  Bound: the transaction of its first  *)
(* block runs no contract, so that the write transaction is one step.      *)
Reorg(h, tx) ==
    LET o == HandleTx(Unwound(h), tx)
    IN  /\ run = Idle /\ h < Len(past) /\ Bounded(tx)
        /\ CheckTx(Unwound(h), tx) /\ o.ok /\ o.run = Idle
        /\ db' = o.db
        /\ past' = Append(SubSeq(past, 1, h), Unwound(h))
        /\ UNCHANGED <<archive, run>>

-----------------------------------------------------------------------------
(* Host operations of a run, on the contract of the top call frame. *)

currentAddress == run.frames[Len(run.frames)]

Operates == run # Idle /\ run.ops < MaxOps

(* An upgrade hook in its own contract, where it is assumed to store       *)
(* nothing.                                                                *)
InQuietHook ==
    /\ QuietHooks /\ run.phase \in {"upgrade", "destroy"}
    /\ currentAddress = run.tx.from

Step(r) ==
    /\ run' = [r EXCEPT !.ops = @ + 1]
    /\ UNCHANGED <<archive, db, past>>

transfer(r, from, to, n) ==
    [[r EXCEPT !.balance[from] = @ - n] EXCEPT !.balance[to] = @ + n]

lockDeposit(r, a, n) ==
    [transfer(r, a, Escrow, n) EXCEPT !.slots[a].rent = @ + n]

(* Faulty: the whole deposit of the bytes, whatever was locked for them. *)
refundDepositUnbounded(r, a, n) ==
    LET pay == Min({n, r.balance[Escrow]})
    IN  [transfer(r, Escrow, a, pay) EXCEPT
            !.slots[a].rent = IF pay > @ THEN 0 ELSE @ - pay]

(* refundDeposit: no more than the contract has locked. *)
refundDeposit(r, a, n) ==
    LET pay == Min({n, r.slots[a].rent, r.balance[Escrow]})
    IN  [transfer(r, Escrow, a, pay) EXCEPT !.slots[a].rent = @ - pay]

(* The storage of a has the entry k grown or shrunk to n bytes. *)
Resized(r, a, k, n) ==
    LET old   == r.slots[a].kv[k]
        moved == IF ~RentActive THEN r
                 ELSE IF n > old THEN lockDeposit(r, a, n - old)
                 ELSE refundDeposit(r, a, old - n)
    IN  [moved EXCEPT !.slots[a].kv[k] = n]

(* Faulty: the contract need not afford the deposit. *)
KvSetUnpaid(k, n) ==
    Operates /\ ~InQuietHook /\ Step(Resized(run, currentAddress, k, n))

(* kv.set; a deposit the contract cannot pay is a trap. *)
KvSet(k, n) ==
    LET a == currentAddress
    IN  /\ Operates /\ ~InQuietHook
        /\ RentActive => run.balance[a] >= n - run.slots[a].kv[k]
        /\ Step(Resized(run, a, k, n))

(* kv.del of an entry that is there. *)
KvDel(k) ==
    /\ Operates /\ ~InQuietHook
    /\ run.slots[currentAddress].kv[k] > 0
    /\ Step(Resized(run, currentAddress, k, 0))

(* coin.transfer that the contract affords. *)
CoinTransfer(to, n) ==
    /\ Operates
    /\ run.balance[currentAddress] >= n
    /\ Step(transfer(run, currentAddress, to, n))

(* The depth of calls by address. *)
maxDepChainDepth == 8

(* A call of another contract, by import or by address: it is live, links  *)
(* without the contract the run began with, and is not on the stack.       *)
Call(b) ==
    /\ Operates
    /\ Len(run.frames) < maxDepChainDepth \/ b \in Depends(db, currentAddress)
    /\ b \notin Range(run.frames)
    /\ Live(db, b) /\ loadContractDeps(db, b) /\ run.frames[1] \notin Linked(db, b)
    /\ Step([run EXCEPT !.frames = Append(@, b)])

Return ==
    /\ run # Idle /\ Len(run.frames) > 1
    /\ run' = [run EXCEPT !.frames = SubSeq(@, 1, Len(@) - 1)]
    /\ UNCHANGED <<archive, db, past>>

(* The code traps, runs out of gas or re-enters: the journal is dropped. *)
Trap ==
    /\ run # Idle
    /\ Settle(AfterTrap(db, run), past)
    /\ UNCHANGED archive

(* The entry returns and the journal is flushed. *)
End ==
    /\ run # Idle /\ Len(run.frames) = 1
    /\ Settle(AfterRun([db EXCEPT !.balance = run.balance, !.slots = run.slots], run), past)
    /\ UNCHANGED archive

Next ==
    \/ \E tx \in Txs : Begin(tx)
    \/ \E h \in 0 .. MaxHeight : \E tx \in Txs : Reorg(h, tx)
    \/ \E k \in Keys : KvDel(k) \/ \E n \in 1 .. MaxBytes : KvSet(k, n)
    \/ \E to \in Payees : CoinTransfer(to, 1)
    \/ \E b \in Addrs : Call(b)
    \/ Return \/ Trap \/ End

Spec == Init /\ [][Next]_vars

-----------------------------------------------------------------------------
(* A contract has as many references as there are contracts that import    *)
(* it, and every import is live: deploys, upgrades, failed hooks, destroys *)
(* and reorgs never unpin a dependency in use or leave one pinned.         *)
RefsExact ==
    \A a \in Addrs :
        /\ db.slots[a] # NoSlot =>
             db.slots[a].refs =
                 Cardinality({b \in Addrs : db.slots[b] # NoSlot /\ a \in db.slots[b].deps})
        /\ db.slots[a] # NoSlot => \A b \in db.slots[a].deps : db.slots[b] # NoSlot

(* Every slot finds its module, also after an unwind that restores slots   *)
(* and not the code bucket; and a node without archive holds just the      *)
(* modules in use, each counted.                                           *)
CodeHeld ==
    /\ \A a \in Addrs : db.slots[a] # NoSlot => db.code[db.slots[a].code] # NoCode
    /\ ~archive => \A c \in Codes :
         LET users == {a \in Addrs : db.slots[a] # NoSlot /\ db.slots[a].code = c}
         IN  db.code[c] = IF users = {} THEN NoCode ELSE Cardinality(users)

Rents(slots) ==
    SumFunctionOnSet([a \in Addrs |-> IF slots[a] = NoSlot THEN 0 ELSE slots[a].rent], Addrs)

(* The escrow covers the deposits of all contracts, so that no refund of   *)
(* one is paid from the bond of another, or not at all.                    *)
EscrowCovers == Rents(db.slots) <= db.balance[Escrow]

(* Blocks make no money and lose none but the fees: what transfers, runs,  *)
(* deposits and refunds move is conserved, and a trapped run or a refused  *)
(* block moves nothing.  (Rewards are not modelled.)                       *)
SupplyConserved ==
    run = Idle =>
        SumFunctionOnSet(db.balance, Accounts) + Fee * Len(past) = Funds * Cardinality(Addrs)
=============================================================================
