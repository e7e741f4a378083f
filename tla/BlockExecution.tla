--------------------------- MODULE BlockExecution ---------------------------
(***************************************************************************)
(* Execution of a block: ExecutionProcessor runs its transactions through  *)
(* the EVM host (evm.rs) on an IntraBlockState, which caches what it reads *)
(* from a State, journals its changes so that a message can be reverted,   *)
(* and is written to the State at the end.  The State is InMemoryState,    *)
(* whose change sets undo a block.                                         *)
(*                                                                         *)
(* The interpreter (evmodin) is external: while a message runs it may ask  *)
(* the host for anything that its static flag allows, in any order, and    *)
(* end in any way.  Addresses are numbers, so that the precompiled         *)
(* contracts are the first ones, and gas and fees have their real values.  *)
(* Code is "none" (EMPTY_HASH) or "code"; its hash stands for it.          *)
(***************************************************************************)
EXTENDS Integers, Sequences, FiniteSets, TLC, SequencesExt, FiniteSetsExt

CONSTANTS
  Addr, Slot, Value,  \* addresses, storage keys and storage values
  Revision,           \* index of block_spec.revision in Revisions
  Genesis,            \* accounts of the State before the first block
  GenesisSlots,       \* storage of the contracts among them
  BalanceChanges,     \* block_spec.balance_changes
  Txs,                \* transactions a block may contain
  Beneficiary, BaseFee, BlockGasLimit, Reward,
  NewAddrs,           \* what create_address and create2_address give
  Calls,              \* the kind, target and value of a message that the
                      \* interpreter may send
  Named,              \* other addresses that instructions name
  None,
  MaxBlocks, MaxTxs, MaxOps, MaxDepth   \* bounds; MaxOps is for a block

Frontier == 0
Homestead == 1
Spurious == 3
Byzantium == 4
Constantinople == 5
Istanbul == 7
Berlin == 8
London == 9

ASSUME AddrAssumption == /\ Addr \subseteq Nat \ {0} /\ IsFiniteSet(Addr)
                         /\ {Beneficiary} \cup NewAddrs \cup Named \subseteq Addr
ASSUME ValueAssumption == /\ 0 \in Value /\ Value \subseteq Nat
                          /\ IsFiniteSet(Slot)
ASSUME FeeAssumption == /\ Revision \in Frontier .. London + 1
                        /\ BaseFee \in Nat /\ (Revision < London => BaseFee = 0)
                        /\ BlockGasLimit \in Nat /\ Reward \in Nat

\* pre_validate_transaction; validate_transaction expects it to hold.
PreValidTransaction(t) == t.maxFee >= BaseFee /\ t.maxPriorityFee <= t.maxFee

ASSUME TxAssumption ==
  \A t \in Txs :
    /\ t \in [action : {"Call", "Create"}, sender : Addr, to : Addr, value : Nat,
              nonce : Nat, access : Seq(Slot), gasLimit : Nat, maxFee : Nat,
              maxPriorityFee : Nat]
    /\ PreValidTransaction(t)
ASSUME CallAssumption ==
  \A c \in Calls :
    c \in [kind : {"Call", "StaticCall", "CallCode", "DelegateCall", "Create"},
           target : Addr, value : Nat]

-----------------------------------------------------------------------------
(* What the variables hold *)

\* Functions of some of the members of D.
Partial(D, R) == UNION {[E -> R] : E \in SUBSET D}

Code == {"none", "code"}
Accounts == [nonce : Nat, balance : Int, code : Code]
Objects == [initial : Accounts \cup {None}, current : Accounts \cup {None}]
Storages == [committed : Partial(Slot, [initial : Nat, original : Nat]),
             current : Partial(Slot, Nat)]

\* The kinds of Delta.
Deltas ==
  [op : {"Create", "Incarnation", "Selfdestruct", "Touch", "StorageCreate",
         "AccountAccess"}, addr : Addr]
  \cup [op : {"Update"}, addr : Addr, prev : Objects]
  \cup [op : {"UpdateBalance"}, addr : Addr, prev : Int]
  \cup [op : {"StorageChange"}, addr : Addr, key : Slot, prev : Nat]
  \cup [op : {"StorageWipe"}, addr : Addr, prev : Storages]
  \cup [op : {"StorageAccess"}, addr : Addr, key : Slot]

States ==
  [objects : Partial(Addr, Objects), storage : Partial(Addr, Storages),
   incarnations : [Addr -> Int], newCode : SUBSET Code, journal : Seq(Deltas),
   selfDestructs : SUBSET Addr, logs : Seq(Addr), touched : SUBSET Addr,
   refund : Int, accessed : SUBSET Addr, accessedKeys : SUBSET (Addr \X Slot)]

Databases ==
  [accounts : Partial(Addr, Accounts), storage : [Addr \X Slot -> Nat],
   codes : SUBSET Code, accountChanges : Partial(Addr, Accounts \cup {None}),
   storageChanges : Partial(Addr \X Slot, Nat), number : Nat]

Messages ==
  [kind : {"Call", "CallCode", "DelegateCall", "Create"}, static : BOOLEAN,
   sender : Addr, to : Addr, code : Addr, value : Nat, gas : Nat]

StatusCodes == {"Success", "Revert", "Failure", "InsufficientBalance",
                "InvalidInstruction", "ContractValidationFailure", "OutOfGas"}
Outputs == [kind : {"Output"}, status : StatusCodes, gas : Nat]
Halts == [kind : {"Halt"}]

ASSUME GenesisAssumption ==
  /\ DOMAIN Genesis \cup DOMAIN BalanceChanges \subseteq Addr
  /\ Genesis \in [DOMAIN Genesis -> Accounts]
  /\ \A a \in DOMAIN Genesis : Genesis[a].balance >= 0
  /\ \A p \in DOMAIN GenesisSlots : /\ p \in (DOMAIN Genesis) \X Slot
                                    /\ GenesisSlots[p] \in Nat
  /\ \A a \in DOMAIN BalanceChanges : BalanceChanges[a] \in Nat
ASSUME NoneAssumption ==
  None \notin Accounts \cup States \cup Txs \cup Messages \cup Outputs \cup Halts

VARIABLES
  db,      \* InMemoryState
  ibs,     \* IntraBlockState, None between blocks
  tx,      \* the transaction in execution, or None
  stack,   \* Evm::call and Evm::create that wait for the interpreter
  pending, \* a message or an output that is to be handled next, or None
  status,  \* status_code of the message that ended last
  gasUsed, \* cumulative_gas_used
  traced,  \* CallTracer.addresses
  txs, ops,  \* counters for the bounds
  start    \* storage and incarnations when the transaction started
           \* (only a property looks at it)

vars == <<db, ibs, tx, stack, pending, status, gasUsed, traced, txs, ops, start>>

\* B(e), with e evaluated once.
With(e, B(_)) == CHOOSE r \in {B(x) : x \in {e}} : TRUE

Put(f, k, v) == [x \in DOMAIN f \cup {k} |-> IF x = k THEN v ELSE f[x]]
Drop(f, k) == [x \in DOMAIN f \ {k} |-> f[x]]
Empty == [x \in {} |-> None]

-----------------------------------------------------------------------------
(* InMemoryState *)

NewAccount == [nonce |-> 0, balance |-> 0, code |-> "none"]

ReadAccount(a) == IF a \in DOMAIN db.accounts THEN db.accounts[a] ELSE None

\* unwind_state_changes.  Only the last block can be unwound here, so the
\* change sets of one block are kept.
Unwound(d) ==
  [d EXCEPT
     !.accounts = [a \in {x \in Addr : IF x \in DOMAIN d.accountChanges
                                       THEN d.accountChanges[x] # None
                                       ELSE x \in DOMAIN d.accounts} |->
                     IF a \in DOMAIN d.accountChanges THEN d.accountChanges[a]
                                                      ELSE d.accounts[a]],
     !.storage = [p \in Addr \X Slot |->
                    IF p \in DOMAIN d.storageChanges THEN d.storageChanges[p]
                                                     ELSE d.storage[p]],
     !.accountChanges = Empty,
     !.storageChanges = Empty]

-----------------------------------------------------------------------------
(* IntraBlockState: what it holds *)

NewState == [objects |-> Empty, storage |-> Empty,
             incarnations |-> [a \in Addr |-> 0],
             newCode |-> {}, journal |-> <<>>, selfDestructs |-> {},
             logs |-> <<>>, touched |-> {}, refund |-> 0,
             accessed |-> {}, accessedKeys |-> {}]

NewStorage == [committed |-> Empty, current |-> Empty]

\* The account as the transactions see it.
Account(s, a) == IF a \in DOMAIN s.objects THEN s.objects[a].current
                                           ELSE ReadAccount(a)
Exists(s, a)  == Account(s, a) # None
Balance(s, a) == IF Exists(s, a) THEN Account(s, a).balance ELSE 0
Nonce(s, a)   == IF Exists(s, a) THEN Account(s, a).nonce ELSE 0
CodeHash(s, a) == IF Exists(s, a) THEN Account(s, a).code ELSE "none"
IsDead(s, a)  == CodeHash(s, a) = "none" /\ Nonce(s, a) = 0 /\ Balance(s, a) = 0

\* get_object
GetObject(state, a) ==
  With(state, LAMBDA s :
    IF a \in DOMAIN s.objects \/ ReadAccount(a) = None THEN s
    ELSE [s EXCEPT !.objects = Put(@, a, [initial |-> ReadAccount(a),
                                          current |-> ReadAccount(a)])])

Journal(s, delta) == [s EXCEPT !.journal = Append(@, delta)]

\* ensure_object
EnsureObject(s, a) ==
  With(GetObject(s, a), LAMBDA t :
    IF Exists(t, a) THEN t
    ELSE IF a \in DOMAIN t.objects
    THEN [Journal(t, [op |-> "Update", addr |-> a, prev |-> t.objects[a]])
            EXCEPT !.objects[a].current = NewAccount]
    ELSE [Journal(t, [op |-> "Create", addr |-> a])
            EXCEPT !.objects = Put(@, a, [initial |-> None,
                                          current |-> NewAccount])])

\* get_storage: the value ...
StorageAt(s, a, k, original) ==
  LET t == IF a \in DOMAIN s.storage THEN s.storage[a] ELSE NewStorage
      initial == IF a \in DOMAIN s.objects THEN s.objects[a].initial
                                           ELSE ReadAccount(a)
  IN IF ~Exists(s, a) THEN 0
     ELSE IF ~original /\ k \in DOMAIN t.current THEN t.current[k]
     ELSE IF k \in DOMAIN t.committed THEN t.committed[k].original
     ELSE IF initial = None \/ s.incarnations[a] > 0 THEN 0
     ELSE db.storage[<<a, k>>]

\* ... and what reading it leaves in the cache.
EnsureStorage(s, a) ==
  IF a \in DOMAIN s.storage THEN s
  ELSE [s EXCEPT !.storage = Put(@, a, NewStorage)]

GetStorage(s, a, k, original) ==
  With(GetObject(s, a), LAMBDA t :
    IF ~Exists(t, a) THEN t
    ELSE With(EnsureStorage(t, a), LAMBDA u :
      IF \/ ~original /\ k \in DOMAIN u.storage[a].current
         \/ k \in DOMAIN u.storage[a].committed
         \/ u.objects[a].initial = None
         \/ u.incarnations[a] > 0
      THEN u
      ELSE [u EXCEPT !.storage[a].committed =
                       Put(@, k, [initial |-> db.storage[<<a, k>>],
                                  original |-> db.storage[<<a, k>>]])]))

-----------------------------------------------------------------------------
(* IntraBlockState: changes and their deltas *)

\* See Yellow Paper, Appendix K: a touch of this address is not reverted.
RIPEMD_ADDRESS == 3

Touch(state, a) ==
  With(state, LAMBDA s :
    IF a \in s.touched THEN s
    ELSE LET t == [s EXCEPT !.touched = @ \cup {a}]
         IN IF a = RIPEMD_ADDRESS THEN t
            ELSE Journal(t, [op |-> "Touch", addr |-> a]))

\* Mutant: the balance is changed without a delta.
SetBalanceUnjournaled(s, a, value) ==
  Touch([EnsureObject(s, a) EXCEPT !.objects[a].current.balance = value], a)

\* set_balance, add_to_balance, subtract_from_balance
SetBalance(s, a, value) ==
  With(EnsureObject(s, a), LAMBDA t :
    Touch([Journal(t, [op |-> "UpdateBalance", addr |-> a,
                       prev |-> t.objects[a].current.balance])
             EXCEPT !.objects[a].current.balance = value], a))
AddToBalance(state, a, n) ==
  With(state, LAMBDA s : SetBalance(s, a, Balance(s, a) + n))
SubtractFromBalance(state, a, n) ==
  With(state, LAMBDA s : SetBalance(s, a, Balance(s, a) - n))

\* set_nonce and set_code
SetField(s, a) ==
  With(EnsureObject(s, a), LAMBDA t :
    Journal(t, [op |-> "Update", addr |-> a, prev |-> t.objects[a]]))
SetNonce(s, a, n) == [SetField(s, a) EXCEPT !.objects[a].current.nonce = n]
SetCode(s, a, code) == [SetField(s, a) EXCEPT !.objects[a].current.code = code,
                                              !.newCode = @ \cup {code}]

\* The deltas of create_contract.
ContractDeltas(t, a) ==
  <<IF a \in DOMAIN t.objects
    THEN [op |-> "Update", addr |-> a, prev |-> t.objects[a]]
    ELSE [op |-> "Create", addr |-> a],
    [op |-> "Incarnation", addr |-> a],
    IF a \in DOMAIN t.storage
    THEN [op |-> "StorageWipe", addr |-> a, prev |-> t.storage[a]]
    ELSE [op |-> "StorageCreate", addr |-> a]>>

NewContract(t, a) ==
  Put(t.objects, a, [initial |-> IF a \in DOMAIN t.objects
                                 THEN t.objects[a].initial ELSE None,
                     current |-> [NewAccount EXCEPT !.balance = Balance(t, a)]])

\* create_contract
CreateContract(s, a) ==
  With(GetObject(s, a), LAMBDA t :
    [t EXCEPT !.incarnations[a] = @ + 1,
              !.objects = NewContract(t, a),
              !.storage = Drop(@, a),
              !.journal = @ \o ContractDeltas(t, a)])

\* record_selfdestruct
RecordSelfdestruct(s, a) ==
  IF a \in s.selfDestructs THEN s
  ELSE Journal([s EXCEPT !.selfDestructs = @ \cup {a}],
               [op |-> "Selfdestruct", addr |-> a])

AccessAccount(state, a) ==
  With(state, LAMBDA s :
    IF a \in s.accessed THEN s
    ELSE Journal([s EXCEPT !.accessed = @ \cup {a}],
                 [op |-> "AccountAccess", addr |-> a]))

AccessStorage(s, a, k) ==
  IF <<a, k>> \in s.accessedKeys THEN s
  ELSE Journal([s EXCEPT !.accessedKeys = @ \cup {<<a, k>>}],
               [op |-> "StorageAccess", addr |-> a, key |-> k])

\* set_storage
SetStorage(s, a, k, v) ==
  With(GetStorage(s, a, k, FALSE), LAMBDA t :
    IF StorageAt(t, a, k, FALSE) = v THEN t
    ELSE Journal([EnsureStorage(t, a) EXCEPT !.storage[a].current = Put(@, k, v)],
                 [op |-> "StorageChange", addr |-> a, key |-> k,
                  prev |-> StorageAt(t, a, k, FALSE)]))

\* destruct without the new incarnation; as a mutant of Destruct it forgets
\* that the storage in the database is gone.
DestructStorageKept(s, A) ==
  [s EXCEPT
     !.storage = [a \in DOMAIN @ \ A |-> @[a]],
     !.objects = [a \in DOMAIN @ \cup (A \cap DOMAIN db.accounts) |->
                    IF a \notin A THEN @[a]
                    ELSE [initial |-> IF a \in DOMAIN @ THEN @[a].initial
                                                        ELSE ReadAccount(a),
                          current |-> None]]]

\* destruct, for every address of a set: no delta, it is called when the
\* transaction is over.
Destruct(state, A) ==
  With(state, LAMBDA s :
    [DestructStorageKept(s, A) EXCEPT
       !.incarnations = [a \in Addr |-> IF a \in A THEN @[a] + 1 ELSE @[a]]])

-----------------------------------------------------------------------------
(* Delta::revert and snapshots *)

RevertDelta(s, d) ==
  LET a == d.addr
  IN CASE d.op = "Create" -> [s EXCEPT !.objects = Drop(@, a)]
       [] d.op = "Update" -> [s EXCEPT !.objects = Put(@, a, d.prev)]
       [] d.op = "UpdateBalance" ->
            [s EXCEPT !.objects[a].current.balance = d.prev]
       [] d.op = "Incarnation" -> [s EXCEPT !.incarnations[a] = @ - 1]
       [] d.op = "Selfdestruct" -> [s EXCEPT !.selfDestructs = @ \ {a}]
       [] d.op = "Touch" -> [s EXCEPT !.touched = @ \ {a}]
       [] d.op = "StorageChange" ->
            [EnsureStorage(s, a) EXCEPT !.storage[a].current = Put(@, d.key, d.prev)]
       [] d.op = "StorageWipe" -> [s EXCEPT !.storage = Put(@, a, d.prev)]
       [] d.op = "StorageCreate" -> [s EXCEPT !.storage = Drop(@, a)]
       [] d.op = "StorageAccess" ->
            [s EXCEPT !.accessedKeys = @ \ {<<a, d.key>>}]
       [] d.op = "AccountAccess" -> [s EXCEPT !.accessed = @ \ {a}]

TakeSnapshot(s) == [journal |-> Len(s.journal), logs |-> Len(s.logs),
                    refund |-> s.refund]

\* revert_to_snapshot: the last delta is popped and reverted, again and again;
\* the state after n turns.
Undo(t) == RevertDelta([t EXCEPT !.journal = Front(@)], Last(t.journal))

Undone(s) ==
  LET undo[n \in 0 .. Len(s.journal)] == IF n = 0 THEN s ELSE With(undo[n - 1], Undo)
  IN undo

RevertToSnapshot(s, snapshot) ==
  [Undone(s)[Len(s.journal) - snapshot.journal] EXCEPT
     !.logs = SubSeq(@, 1, snapshot.logs),
     !.refund = snapshot.refund]

-----------------------------------------------------------------------------
(* evm.rs: messages *)

NumberOfPrecompiles == IF Revision <= Spurious THEN 4
                       ELSE IF Revision < Istanbul THEN 8 ELSE 9
IsPrecompiled(a) == a <= NumberOfPrecompiles

\* The interpreter runs the message on top of the stack, or has stopped it
\* with SELFDESTRUCT.
Running == stack # <<>> /\ pending = None
Halted == pending # None /\ pending.kind = "Halt"
Frame == Last(stack).msg

\* A message that is not, or no longer, on the stack has ended.
Returns(rest, code, gas) ==
  /\ stack' = rest
  /\ status' = code
  /\ pending' = IF rest = <<>> THEN [kind |-> "Output", status |-> code, gas |-> gas]
                               ELSE None

\* CallTracer::capture_start and capture_self_destruct
Capture(from, to) == traced' = traced \cup {<<from, "from">>, <<to, "to">>}

\* Evm::call up to the execution of the code.
Call ==
  LET m == pending
      precompiled == IsPrecompiled(m.code)
      checked == IF m.kind = "DelegateCall" THEN ibs
                                            ELSE GetObject(ibs, m.sender)
      s == IF precompiled THEN checked ELSE GetObject(checked, m.code)
      \* value goes with a plain call only; a static one touches
      moved == IF m.kind # "Call" THEN s
               ELSE IF m.static THEN Touch(s, m.to)
               ELSE AddToBalance(SubtractFromBalance(s, m.sender, m.value),
                                 m.to, m.value)
  IN IF m.kind # "DelegateCall" /\ Balance(ibs, m.sender) < m.value
     THEN /\ ibs' = checked
          /\ Returns(stack, "InsufficientBalance", m.gas)
          /\ UNCHANGED traced
     ELSE /\ Capture(m.sender, m.to)
          /\ IF \/ /\ m.value = 0 /\ Revision >= Spurious
                   /\ ~precompiled /\ ~Exists(s, m.code)
             THEN /\ ibs' = s
                  /\ Returns(stack, "Success", m.gas)
             ELSE /\ ibs' = moved
                  /\ IF ~precompiled /\ CodeHash(s, m.code) = "none"
                     THEN Returns(stack, "Success", m.gas)
                     ELSE /\ stack' = Append(stack, [msg |-> m,
                                                     snapshot |-> TakeSnapshot(s)])
                          /\ pending' = None
                          /\ UNCHANGED status

\* Evm::create up to the execution of the init code, for the address that
\* create_address or create2_address gives.
Create(addr) ==
  LET m == pending
      s == GetObject(ibs, m.sender)
      nonced == AccessAccount(SetNonce(s, m.sender, Nonce(s, m.sender) + 1), addr)
      probed == GetObject(nonced, addr)
      created == CreateContract(probed, addr)
      named == IF Revision >= Spurious THEN SetNonce(created, addr, 1) ELSE created
  IN IF Balance(ibs, m.sender) < m.value
     THEN /\ ibs' = s
          /\ Returns(stack, "InsufficientBalance", m.gas)
          /\ UNCHANGED traced
     ELSE /\ Capture(m.sender, addr)
          /\ IF Nonce(probed, addr) # 0 \/ CodeHash(probed, addr) # "none"
             THEN /\ ibs' = probed
                  /\ Returns(stack, "InvalidInstruction", 0)
             ELSE /\ ibs' = AddToBalance(SubtractFromBalance(named, m.sender, m.value),
                                         addr, m.value)
                  /\ stack' = Append(stack, [msg |-> [m EXCEPT !.to = addr],
                                             snapshot |-> TakeSnapshot(probed)])
                  /\ pending' = None
                  /\ UNCHANGED status

HandleMessage ==
  /\ pending # None /\ pending.kind \in {"Call", "CallCode", "DelegateCall", "Create"}
  /\ IF pending.kind = "Create" THEN \E a \in NewAddrs : Create(a) ELSE Call
  /\ UNCHANGED <<db, tx, gasUsed, txs, ops, start>>

\* The end of Evm::call and Evm::create.
EndMessage(s, code, gas) ==
  /\ ibs' = IF code = "Success" THEN s
            ELSE RevertToSnapshot(s, Last(stack).snapshot)
  /\ Returns(Front(stack), code, IF code \in {"Success", "Revert"} THEN gas ELSE 0)

\* How the interpreter, or a precompiled contract, may end; an error leaves
\* no gas.
Outcomes ==
  LET gas == Frame.gas
  IN IF Halted THEN {<<"Success", gas>>}
     ELSE {<<"Success", gas>>, <<"Success", 0>>, <<"Failure", 0>>}
          \cup IF IsPrecompiled(Frame.code) THEN {} ELSE {<<"Revert", gas>>}

CompleteCall ==
  /\ Running \/ Halted
  /\ Frame.kind # "Create"
  /\ \E o \in Outcomes : EndMessage(ibs, o[1], o[2])
  /\ UNCHANGED <<db, tx, gasUsed, traced, txs, ops, start>>

\* Returned code of `len` bytes that may start with 0xEF.
CODE_DEPOSIT == 200
MAX_CODE_SIZE == 24576
ReturnedCodes == {[len |-> 0, ef |-> FALSE], [len |-> 1, ef |-> FALSE],
                  [len |-> 1, ef |-> TRUE],
                  [len |-> MAX_CODE_SIZE + 1, ef |-> FALSE]}

\* The deposit of the code that the init code returned.
CompleteCreate ==
  /\ Running \/ Halted
  /\ Frame.kind = "Create"
  /\ \E o \in Outcomes, c \in ReturnedCodes :
       LET gas == o[2] - c.len * CODE_DEPOSIT
       IN CASE Halted -> EndMessage(SetCode(ibs, Frame.to, "none"), "Success", o[2])
            [] ~Halted /\ o[1] # "Success" -> EndMessage(ibs, o[1], o[2])
            [] OTHER ->
               IF Revision >= London /\ c.ef
               THEN EndMessage(ibs, "ContractValidationFailure", o[2])
               ELSE IF Revision >= Spurious /\ c.len > MAX_CODE_SIZE
               THEN EndMessage(ibs, "OutOfGas", o[2])
               ELSE IF gas >= 0
               THEN EndMessage(SetCode(ibs, Frame.to,
                                       IF c.len = 0 THEN "none" ELSE "code"),
                               "Success", gas)
               ELSE EndMessage(ibs, IF Revision >= Homestead THEN "OutOfGas"
                                                             ELSE "Success", o[2])
  /\ UNCHANGED <<db, tx, gasUsed, traced, txs, ops, start>>

-----------------------------------------------------------------------------
(* evm.rs: what the interpreter asks for while a message runs *)

R_SCLEAR == 15000
G_SSET == 20000
SloadCost == IF Revision >= Berlin THEN 100
             ELSE IF Revision >= Istanbul THEN 800 ELSE 200
SstoreResetGas == IF Revision >= Berlin THEN 5000 - 2100 ELSE 5000
SstoreClearsRefund == IF Revision >= London THEN SstoreResetGas + 1900 ELSE R_SCLEAR
Eip1283 == Revision >= Istanbul \/ Revision = Constantinople

\* Mutant: the refund for clearing is given for the value of the call only.
SstoreRefundOnce(original, current, new) ==
  IF ~Eip1283 THEN IF current # 0 /\ new = 0 THEN R_SCLEAR ELSE 0
  ELSE IF original = current
  THEN IF original # 0 /\ new = 0 THEN SstoreClearsRefund ELSE 0
  ELSE IF original # 0 /\ current = 0 THEN 0 - SstoreClearsRefund ELSE 0

\* What a store that changes the slot adds to the refund counter.
SstoreRefund(original, current, new) ==
  IF ~Eip1283 THEN IF current # 0 /\ new = 0 THEN R_SCLEAR ELSE 0
  ELSE IF original = current
  THEN IF original # 0 /\ new = 0 THEN SstoreClearsRefund ELSE 0
  ELSE (IF original # 0 /\ current = 0 THEN 0 - SstoreClearsRefund ELSE 0)
       + (IF original # 0 /\ new = 0 THEN SstoreClearsRefund ELSE 0)
       + (IF original # new THEN 0
          ELSE IF original = 0 THEN G_SSET - SloadCost
          ELSE SstoreResetGas - SloadCost)

\* InterruptVariant::SetStorage; the original value is looked up after the
\* slot has been set.
HostSetStorage(k, v) ==
  LET a == Frame.to
      current == StorageAt(ibs, a, k, FALSE)
      s == SetStorage(GetStorage(ibs, a, k, FALSE), a, k, v)
      t == IF Eip1283 THEN GetStorage(s, a, k, TRUE) ELSE s
  IN /\ ~Frame.static
     /\ ibs' = IF v = current THEN GetStorage(ibs, a, k, FALSE)
               ELSE [t EXCEPT !.refund = @ + SstoreRefund(StorageAt(s, a, k, TRUE),
                                                          current, v)]
     /\ UNCHANGED <<pending, traced>>

\* Mutant: the balance is not cleared.
HostSelfdestructTwice(to) ==
  LET a == Frame.to
      s == GetObject(RecordSelfdestruct(ibs, a), a)
  IN /\ ~Frame.static
     /\ ibs' = AddToBalance(s, to, Balance(s, a))
     /\ Capture(a, to)
     /\ pending' = [kind |-> "Halt"]

\* InterruptVariant::Selfdestruct; the interpreter stops the message after it.
HostSelfdestruct(to) ==
  LET a == Frame.to
      s == GetObject(RecordSelfdestruct(ibs, a), a)
  IN /\ ~Frame.static
     /\ ibs' = SetBalance(AddToBalance(s, to, Balance(s, a)), a, 0)
     /\ Capture(a, to)
     /\ pending' = [kind |-> "Halt"]

HostEmitLog ==
  /\ ~Frame.static
  /\ ibs' = [ibs EXCEPT !.logs = Append(@, Frame.to)]
  /\ UNCHANGED <<pending, traced>>

\* AccountExists, GetBalance, GetCodeSize, GetCodeHash and CopyCode only fill
\* the cache of accounts.
HostAccount(a) ==
  /\ ibs' = GetObject(ibs, a)
  /\ UNCHANGED <<pending, traced>>

HostAccessAccount(a) ==
  /\ ibs' = IF IsPrecompiled(a) THEN ibs ELSE AccessAccount(ibs, a)
  /\ UNCHANGED <<pending, traced>>

HostGetStorage(k) ==
  /\ ibs' = GetStorage(ibs, Frame.to, k, FALSE)
  /\ UNCHANGED <<pending, traced>>

HostAccessStorage(k) ==
  /\ ibs' = AccessStorage(ibs, Frame.to, k)
  /\ UNCHANGED <<pending, traced>>

\* The message of a CALL, STATICCALL, CALLCODE, DELEGATECALL or CREATE
\* instruction.
Message(kind, target, value) ==
  LET f == Frame
  IN [kind   |-> IF kind = "StaticCall" THEN "Call" ELSE kind,
      static |-> f.static \/ kind = "StaticCall",
      sender |-> IF kind = "DelegateCall" THEN f.sender ELSE f.to,
      to     |-> IF kind \in {"CallCode", "DelegateCall"} THEN f.to ELSE target,
      code   |-> target,
      value  |-> IF kind = "DelegateCall" THEN f.value ELSE value,
      gas    |-> f.gas]

HostCall(kind, target, value) ==
  /\ Len(stack) < MaxDepth
  /\ Frame.static => value = 0 /\ kind # "Create"
  /\ pending' = Message(kind, target, value)
  /\ UNCHANGED <<ibs, traced>>

Host ==
  /\ Running /\ ~IsPrecompiled(Frame.code)
  /\ ops < MaxOps
  /\ ops' = ops + 1
  /\ UNCHANGED <<db, tx, stack, status, gasUsed, txs, start>>
  /\ \/ \E k \in Slot, v \in Value : HostSetStorage(k, v)
     \/ \E a \in Named : HostSelfdestruct(a)
     \/ HostEmitLog
     \/ \E a \in Named : HostAccount(a) \/ HostAccessAccount(a)
     \/ \E k \in Slot : HostGetStorage(k) \/ HostAccessStorage(k)
     \/ \E c \in Calls : HostCall(c.kind, c.target, c.value)

-----------------------------------------------------------------------------
(* ExecutionProcessor *)

PriorityFee(t) == Min({t.maxPriorityFee, t.maxFee - BaseFee})
EffectivePrice(t) == PriorityFee(t) + BaseFee

\* intrinsic_gas of a transaction without input.
IntrinsicGas(t) ==
  21000 + (IF t.action = "Create" /\ Revision >= Homestead THEN 32000 ELSE 0)
        + (IF t.access # <<>> THEN 2400 + 1900 * Len(t.access) ELSE 0)

\* validate_transaction
TransactionValid(t) ==
  /\ CodeHash(ibs, t.sender) = "none"
  /\ Nonce(ibs, t.sender) = t.nonce
  /\ Balance(ibs, t.sender) >= t.gasLimit * t.maxFee + t.value
  /\ BlockGasLimit - gasUsed >= t.gasLimit

\* clear_journal_and_substate
ClearSubstate(s) ==
  [s EXCEPT !.journal = <<>>, !.selfDestructs = {}, !.logs = <<>>,
            !.touched = {}, !.refund = 0, !.accessed = {}, !.accessedKeys = {}]

\* The keys of an access list, those of one account, one after the other.
AccessKeys(s, a, keys) ==
  LET listed[n \in 0 .. Len(keys)] ==
        IF n = 0 THEN s ELSE AccessStorage(listed[n - 1], a, keys[n])
  IN listed[Len(keys)]

\* execute_transaction up to the call of evm::execute.
Prepared(t) ==
  LET paid == SubtractFromBalance(AccessAccount(ClearSubstate(ibs), t.sender),
                                  t.sender, t.gasLimit * EffectivePrice(t))
      called == IF t.action = "Create" THEN paid
                ELSE SetNonce(AccessAccount(paid, t.to), t.sender, t.nonce + 1)
  IN IF t.access = <<>> THEN called
     ELSE AccessKeys(AccessAccount(called, t.to), t.to, t.access)

Idle == ibs = None

\* The block is dropped with all it has changed.
DropBlock ==
  /\ ibs' = None
  /\ UNCHANGED <<db, tx, stack, pending, status, ops, start>>
  /\ txs' = 0
  /\ gasUsed' = 0
  /\ traced' = {}

\* The irregular balance changes, in some order.
BalancesChanged ==
  LET order == SetToSeq(DOMAIN BalanceChanges)
      changed[n \in 0 .. Len(order)] ==
        IF n = 0 THEN NewState
        ELSE SetBalance(changed[n - 1], order[n], BalanceChanges[order[n]])
  IN changed[Len(order)]

\* execute_block_no_post_validation: irregular balance changes first.
BeginBlock ==
  /\ Idle
  /\ db.number < MaxBlocks
  /\ ibs' = BalancesChanged
  /\ ops' = 0
  /\ UNCHANGED <<db, tx, stack, pending, status, gasUsed, traced, txs, start>>

StorageNow(s) == [p \in Addr \X Slot |-> StorageAt(s, p[1], p[2], FALSE)]

BeginTransaction(t) ==
  /\ ~Idle /\ tx = None
  /\ txs < MaxTxs
  /\ IF ~TransactionValid(t) \/ t.gasLimit < IntrinsicGas(t)
     THEN DropBlock
     ELSE /\ tx' = t
          /\ txs' = txs + 1
          /\ ibs' = Prepared(t)
          /\ start' = [storage |-> StorageNow(ibs),
                       incarnations |-> ibs.incarnations]
          /\ pending' = [kind |-> t.action, static |-> FALSE, sender |-> t.sender,
                         to |-> t.to, code |-> t.to, value |-> t.value,
                         gas |-> t.gasLimit - IntrinsicGas(t)]
          /\ UNCHANGED <<db, stack, status, gasUsed, traced, ops>>

\* refund_gas: the gas that is given back.
GasLeft(s, t, gasLeft) ==
  LET refund == s.refund + IF Revision < London
                           THEN 24000 * Cardinality(s.selfDestructs) ELSE 0
      quotient == IF Revision >= London THEN 5 ELSE 2
  IN gasLeft + Min({refund, (t.gasLimit - gasLeft) \div quotient})

\* finalize_transaction
FinalizeStorage(s) ==
  [s EXCEPT !.storage =
     [a \in DOMAIN @ |->
        LET t == @[a]
        IN [committed |-> [k \in DOMAIN t.committed \cup DOMAIN t.current |->
                             [initial |-> IF k \in DOMAIN t.committed
                                          THEN t.committed[k].initial ELSE 0,
                              original |-> IF k \in DOMAIN t.current
                                           THEN t.current[k]
                                           ELSE t.committed[k].original]],
            current |-> Empty]]]

\* execute_transaction after evm::execute.
FinishTransaction ==
  /\ pending # None /\ pending.kind = "Output"
  /\ LET left == GasLeft(ibs, tx, pending.gas)
         used == tx.gasLimit - left
         refunded == AddToBalance(ibs, tx.sender, left * EffectivePrice(tx))
         awarded == AddToBalance(refunded, Beneficiary, used * PriorityFee(tx))
         gone == With(awarded, LAMBDA s : Destruct(s, s.selfDestructs))
         cleaned == IF Revision < Spurious THEN gone
                    ELSE With(gone, LAMBDA s :
                           Destruct(s, {a \in s.touched : IsDead(s, a)}))
     IN /\ ibs' = FinalizeStorage(cleaned)
        /\ gasUsed' = gasUsed + used
  /\ tx' = None
  /\ pending' = None
  /\ UNCHANGED <<db, stack, status, traced, txs, ops, start>>

\* Mutant: erase_storage is not called.
WrittenNotErased(s) ==
  [accounts |-> [a \in {x \in Addr : Exists(s, x)} |-> Account(s, a)],
   storage |-> [p \in Addr \X Slot |->
                  IF /\ Exists(s, p[1]) /\ p[1] \in DOMAIN s.storage
                     /\ p[2] \in DOMAIN s.storage[p[1]].committed
                  THEN s.storage[p[1]].committed[p[2]].original
                  ELSE db.storage[p]],
   codes |-> db.codes \cup s.newCode,
   accountChanges |-> [a \in DOMAIN s.objects |-> s.objects[a].initial],
   storageChanges |-> Empty, number |-> db.number + 1]

\* write_to_db: storage is erased, then updated, then the accounts and code
\* are updated (InMemoryState::begin_block, erase_storage, update_storage,
\* update_account and update_code).
Written(s) ==
  LET Erased(p) == s.incarnations[p[1]] > 0
      Updated(p) == /\ p[1] \in DOMAIN s.storage
                    /\ p[1] \in DOMAIN s.objects /\ s.objects[p[1]].current # None
                    /\ p[2] \in DOMAIN s.storage[p[1]].committed
      Slots == Addr \X Slot
  IN [accounts |-> [a \in {x \in Addr : Exists(s, x)} |-> Account(s, a)],
      storage |-> [p \in Slots |->
                     IF Updated(p) THEN s.storage[p[1]].committed[p[2]].original
                     ELSE IF Erased(p) THEN 0
                     ELSE db.storage[p]],
      codes |-> db.codes \cup s.newCode,
      accountChanges |-> [a \in DOMAIN s.objects |-> s.objects[a].initial],
      storageChanges |-> [p \in {q \in Slots : \/ Updated(q)
                                               \/ Erased(q) /\ db.storage[q] # 0} |->
                            IF Updated(p)
                            THEN s.storage[p[1]].committed[p[2]].initial
                            ELSE db.storage[p]],
      number |-> db.number + 1]

\* The rest of execute_and_write_block: rewards, then the header's gas used,
\* receipts root and bloom may turn out wrong, or the block is written.
EndBlock ==
  /\ ~Idle /\ tx = None
  /\ \/ DropBlock
     \/ /\ db' = With(AddToBalance(ibs, Beneficiary, Reward), Written)
        /\ ibs' = None
        /\ txs' = 0
        /\ gasUsed' = 0
        /\ traced' = {}
        /\ UNCHANGED <<tx, stack, pending, status, ops, start>>

\* InMemoryState::unwind_state_changes of the block written last.
UnwindBlock ==
  /\ Idle
  /\ db.accountChanges # Empty
  /\ db' = Unwound(db)
  /\ UNCHANGED <<ibs, tx, stack, pending, status, gasUsed, traced, txs, ops, start>>

Init ==
  /\ db = [accounts |-> Genesis,
           storage |-> [p \in Addr \X Slot |->
                          IF p \in DOMAIN GenesisSlots THEN GenesisSlots[p] ELSE 0],
           codes |-> {"code"}, accountChanges |-> Empty, storageChanges |-> Empty,
           number |-> 0]
  /\ ibs = None
  /\ tx = None
  /\ stack = <<>>
  /\ pending = None
  /\ status = "Success"
  /\ gasUsed = 0
  /\ traced = {}
  /\ txs = 0
  /\ ops = 0
  /\ start = [storage |-> [p \in Addr \X Slot |-> 0],
              incarnations |-> [a \in Addr |-> 0]]

Next ==
  \/ BeginBlock
  \/ \E t \in Txs : BeginTransaction(t)
  \/ HandleMessage
  \/ Host
  \/ CompleteCall
  \/ CompleteCreate
  \/ FinishTransaction
  \/ EndBlock
  \/ UnwindBlock

Spec == Init /\ [][Next]_vars

-----------------------------------------------------------------------------
(* Properties *)

\* Everything of the state that a message can see or that outlives it.  The
\* touch of RIPEMD_ADDRESS is not undone on purpose.
World(s) ==
  [accounts |-> [a \in Addr |-> Account(s, a)],
   storage  |-> StorageNow(s),
   original |-> [p \in Addr \X Slot |-> StorageAt(s, p[1], p[2], TRUE)],
   incarnations |-> s.incarnations,
   substate |-> <<s.selfDestructs, s.logs, s.touched \ {RIPEMD_ADDRESS}, s.refund,
                  s.accessed, s.accessedKeys>>]

Rolled == INSTANCE Rollback
            WITH world <- IF Idle THEN None ELSE World(ibs),
                 saved <- [i \in DOMAIN stack |->
                             World(RevertToSnapshot(ibs, stack[i].snapshot))],
                 status <- status

\* Whatever messages do, read and cache, and however they are nested, a
\* message that fails leaves the world as it was when its snapshot was taken,
\* and no step changes what an outer message would be reverted to: every
\* change that revert_to_snapshot has to undo has its delta, and the deltas
\* are undone in the right order.
RevertsExactly == Rolled!Spec

TotalBalance(s) == SumFunction([a \in Addr |-> Balance(s, a)])

\* No ether is made during a block after the irregular changes and before the
\* reward: with the gas that the sender has paid in advance the accounts never
\* hold more than before.
EtherNotCreated ==
  ~Idle =>
    TotalBalance(ibs) + (IF tx = None THEN 0 ELSE tx.gasLimit * EffectivePrice(tx))
      <= SumFunction([a \in Addr |-> IF a \in DOMAIN BalanceChanges THEN BalanceChanges[a]
                                     ELSE Balance(NewState, a)])

\* The original value of a slot (EIP-2200) is the value it had when the
\* transaction started, or zero in a contract created since, even when it is
\* read for the first time after it has been written.
OriginalAsAtStart ==
  ~Idle /\ tx # None =>
    \A p \in Addr \X Slot :
      Exists(ibs, p[1]) =>
        StorageAt(ibs, p[1], p[2], TRUE) =
          IF ibs.incarnations[p[1]] > start.incarnations[p[1]] THEN 0
          ELSE start.storage[p]

\* A slot of a contract that was destructed in the block and written after it
\* had been created again.
Rewritten(s, p) ==
  /\ p[1] \in DOMAIN s.objects /\ s.objects[p[1]].initial # None
  /\ s.incarnations[p[1]] > 0 /\ Exists(s, p[1])
  /\ p[1] \in DOMAIN s.storage /\ p[2] \in DOMAIN s.storage[p[1]].committed

\* Balances, the refund and the gas of a block are unsigned.  Neither the
\* purchase of gas nor a transfer takes more than there is; subtract_refund
\* only takes back what clearing the slot has given, although messages in
\* between may have been reverted; available_gas covers each transaction.
NoUnderflow ==
  /\ gasUsed + (IF tx = None THEN 0 ELSE tx.gasLimit) <= BlockGasLimit
  /\ ~Idle => \A a \in Addr : Balance(ibs, a) >= 0
  /\ ~Idle /\ Eip1283 /\ tx # None =>
       ibs.refund >= SstoreClearsRefund
                     * Cardinality({p \in Addr \X Slot :
                                      /\ StorageAt(ibs, p[1], p[2], TRUE) # 0
                                      /\ StorageAt(ibs, p[1], p[2], FALSE) = 0})

\* The State after a block is what its transactions saw.
HoldsWorld(after, s) ==
  /\ \A a \in Addr : (IF a \in DOMAIN after.accounts THEN after.accounts[a]
                                                     ELSE None) = Account(s, a)
  /\ \A p \in Addr \X Slot :
       Exists(s, p[1]) => after.storage[p] = StorageNow(s)[p]

\* Every account that transactions have changed is among the addresses that
\* the CallTracer hands to the call trace index, except for the beneficiary
\* and irregular changes.
ChangedIsTraced ==
  \A a \in Addr \ ({Beneficiary} \cup DOMAIN BalanceChanges) :
    Account(ibs, a) # ReadAccount(a) =>
      <<a, "from">> \in traced \/ <<a, "to">> \in traced

\* What a block leaves behind is exact: the State holds what its transactions
\* saw, its change sets lead back to where it started, but for the slots that a
\* contract had before it was destructed and made again and that it then wrote,
\* and its call traces name all it changed.
WritesExactly ==
  [][db' # db /\ ~Idle =>
       /\ HoldsWorld(db', AddToBalance(ibs, Beneficiary, Reward))
       /\ Unwound(db').accounts = db.accounts
       /\ \A p \in Addr \X Slot :
            ~Rewritten(ibs, p) => Unwound(db').storage[p] = db.storage[p]
       /\ ChangedIsTraced]_vars
=============================================================================
