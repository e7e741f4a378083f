---------------------------- MODULE StateHistory ----------------------------
(* The state of the chain and its history: the Execution stage and the       *)
(* Buffer it executes blocks into (src/src/stages/execution.rs,              *)
(* src/src/state/buffer.rs), the HashState stage that keeps a hashed copy of *)
(* the state, and the Interhashes stage that checks the state root with the  *)
(* hashes it remembers of the state trie.                                    *)
(*                                                                           *)
(* A block is what IntraBlockState::write_to_db hands to the Buffer: for     *)
(* every object of the block the account before and after, the slots that    *)
(* were written with the value before and after, and whether the account got *)
(* a new incarnation.  Slot stands for the locations under one branch of the *)
(* storage trie, so that a remembered hash covers one Slot; an account       *)
(* likewise.  The code table is content addressed and only grows; it is left *)
(* out.                                                                      *)
EXTENDS Integers

CONSTANTS
  NAddr,        \* addresses are 1..NAddr, in the order of the Account table
  HashRank,     \* their order in the HashedAccount table
  NSlot,        \* storage slots of an account
  MaxValue,     \* contents of an account, and of a slot
  MaxBlock,     \* bound: highest block
  MaxUnwinds,   \* bound: unwinds
  MaxRestarts,  \* bound: restarts of the process
  Effects       \* what the blocks of this chain do to an address

Addr == 1..NAddr
Slot == 1..NSlot
Block == 1..MaxBlock
Value == 1..MaxValue

\* No account, or a slot whose value is zero: no row in the table.
None == 0
\* No entry in a map of the buffer, no row in a change set.
Unset == -1

ASSUME SizesAssumption ==
  /\ NAddr \in Nat \ {0} /\ NSlot \in Nat \ {0} /\ MaxValue \in Nat \ {0}
  /\ MaxBlock \in Nat /\ MaxUnwinds \in Nat /\ MaxRestarts \in Nat
ASSUME HashRankAssumption ==
  /\ HashRank \in [Addr -> Addr]
  /\ \A a, b \in Addr : HashRank[a] = HashRank[b] => a = b
ASSUME EffectsAssumption ==
  Effects \subseteq {"update", "pay", "create", "destroy", "revive", "payAgain", "again", "dead",
                     "recreate", "rebirth"}

VARIABLES
  stage,     \* the stage of the round that runs next
  target,    \* the block the stages before Execution have reached
  progress,  \* rows of SyncStage: exec, hash, inter
  cur,       \* last block executed; above progress.exec inside a batch
  db,        \* the tables
  buf,       \* the Buffer of the batch
  failed,    \* why a stage returned an error, or "no"
  world,     \* (ghost) the state after each executed block, and of genesis
  faults     \* (bound) unwinds and restarts so far

vars == <<stage, target, progress, cur, db, buf, failed, world, faults>>

NoAccountChanges == [n \in Block |-> [a \in Addr |-> Unset]]
NoStorageChanges == [n \in Block |-> [a \in Addr |-> [s \in Slot |-> Unset]]]
NoAccounts == [a \in Addr |-> None]
NoStorage == [a \in Addr |-> [s \in Slot |-> None]]

\* Buffer::new.  historical_block is None and prune_from 0 in every caller that
\* writes, so that each block is recorded.
EmptyBuffer ==
  [accounts |-> [a \in Addr |-> Unset],
   erased   |-> [a \in Addr |-> FALSE],
   slots    |-> [a \in Addr |-> [s \in Slot |-> Unset]],
   accountChanges |-> NoAccountChanges,
   storageChanges |-> NoStorageChanges,
   logs |-> {}]

-----------------------------------------------------------------------------
(* Buffer                                                                    *)

\* Buffer::read_account
ReadAccount(a) ==
  IF buf.accounts[a] # Unset THEN buf.accounts[a] ELSE db.account[a]

\* Buffer::read_storage
ReadStorage(a, s) ==
  IF buf.slots[a][s] # Unset THEN buf.slots[a][s]
  ELSE IF buf.erased[a] THEN None
  ELSE db.storage[a][s]

\* What a block does to an address that it leaves alone.
Untouched == [kind |-> "none"]

\* An object as IntraBlockState::write_to_db finds it.  inc: the account was
\* created as a contract or destructed, so its storage of before the block is
\* void.  write: the slots of storage.committed, with the value `initial` read
\* when the slot was first used.
Object(inc, initial, current, slotInitial, write) ==
  [kind |-> "object", inc |-> inc, initial |-> initial, current |-> current,
   slotInitial |-> slotInitial, write |-> write]

NoWrites == [s \in Slot |-> Unset]

\* Objects that differ in what is left of the account and of the slots.
ObjectsWith(inc, initial, currents, slotInitial, writes) ==
  {Object(inc, initial, v, slotInitial, w) : v \in currents, w \in writes}

\* Address a had storage after some block of the chain.
EverStored(a) == \E n \in DOMAIN world, s \in Slot : world[n].storage[a][s] # None

\* The objects a block can leave for address a.
Objects(a) ==
  LET before == ReadAccount(a)
      stored == [s \in Slot |-> ReadStorage(a, s)]
      zeros == [s \in Slot |-> None]
      writes == [Slot -> {Unset, None} \cup Value]
      If(effect, cond, set) == IF effect \in Effects /\ cond THEN set ELSE {}
  IN  \* balance, nonce or storage change of an account that stays
      If("update", before # None, ObjectsWith(FALSE, before, Value, stored, writes))
      \cup
      \* an absent account given a balance: ensure_object makes an account without
      \* code, with the incarnation the address had
      If("pay", before = None /\ ~EverStored(a),
         ObjectsWith(FALSE, None, Value, stored, {NoWrites}))
      \cup
      \* the same where a contract was destructed in an earlier block
      If("payAgain", before = None /\ EverStored(a),
         ObjectsWith(FALSE, None, Value, stored, {NoWrites}))
      \cup
      \* create_contract at an address that never was a contract
      If("create", stored = zeros /\ ~EverStored(a),
         ObjectsWith(TRUE, before, Value, zeros, writes))
      \cup
      \* create_contract where a contract was destructed in an earlier block
      If("again", stored = zeros /\ EverStored(a),
         ObjectsWith(TRUE, before, Value, zeros, writes))
      \cup
      \* destructed
      If("destroy", before # None, ObjectsWith(TRUE, before, {None}, zeros, {NoWrites}))
      \cup
      \* destructed, and given a balance by a later transaction of the block: an
      \* account without code
      If("revive", before # None,
         ObjectsWith(TRUE, before, Value \ {before}, zeros, {NoWrites}))
      \cup
      \* touched or created, and destructed in the same block
      If("dead", before = None, ObjectsWith(TRUE, None, {None}, zeros, {NoWrites}))
      \cup
      \* destructed, and created again by a later transaction of the block
      If("recreate", before # None, ObjectsWith(TRUE, before, Value, zeros, writes))
      \cup
      \* the same, with the account of before the block and no slot written
      If("rebirth", before # None, ObjectsWith(TRUE, before, {before}, zeros, {NoWrites}))

\* Mutant: the table is read only if the buffer holds nothing for the address.
ErasedSlotsOverlayOnly(a) ==
  [s \in Slot |->
     IF buf.slots[a][s] # Unset THEN buf.slots[a][s]
     ELSE IF /\ ~buf.erased[a] /\ \A k \in Slot : buf.slots[a][k] = Unset
             /\ db.storage[a][s] # None
          THEN db.storage[a][s]
     ELSE Unset]

\* The slots Buffer::erase_storage records for address a: the values it drains
\* from the overlay and, unless the storage was erased before, the rows of the
\* table the overlay does not hide.
ErasedSlots(a) ==
  [s \in Slot |->
     IF buf.slots[a][s] # Unset THEN buf.slots[a][s]
     ELSE IF ~buf.erased[a] /\ db.storage[a][s] # None THEN db.storage[a][s]
     ELSE Unset]

\* Whether Buffer::update_storage records and applies the write of a slot.
Writes(o, s) == o.write[s] # Unset /\ o.write[s] # o.slotInitial[s]

\* Whether Buffer::update_account records the account of an object.
Records(o) ==
  \/ o.current # o.initial
  \/ o.current = None
  \/ \E s \in Slot : Writes(o, s)

\* IntraBlockState::write_to_db for block n with the objects o: begin_block,
\* then erase_storage, update_storage and update_account for every object.
WriteBlock(n, o) ==
  LET Touched(a) == o[a].kind = "object"
      Erases(a) == Touched(a) /\ o[a].inc
  IN [buf EXCEPT
        !.erased = [a \in Addr |-> @[a] \/ Erases(a)],
        !.slots = [a \in Addr |-> [s \in Slot |->
          IF Touched(a) /\ Writes(o[a], s) THEN o[a].write[s]
          ELSE IF Erases(a) THEN Unset
          ELSE @[a][s]]],
        !.storageChanges[n] = [a \in Addr |-> [s \in Slot |->
          IF Touched(a) /\ Writes(o[a], s) THEN o[a].slotInitial[s]
          ELSE IF Erases(a) THEN ErasedSlots(a)[s]
          ELSE Unset]],
        !.accountChanges[n] = [a \in Addr |->
          IF Touched(a) /\ Records(o[a]) THEN o[a].initial ELSE Unset],
        !.accounts = [a \in Addr |->
          IF Touched(a) /\ o[a].current # o[a].initial THEN o[a].current ELSE @[a]],
        !.logs = @ \cup {n}]

\* (ghost) The state after a block, from the state w before it.
Apply(w, o) ==
  [account |-> [a \in Addr |-> IF o[a].kind = "object" THEN o[a].current ELSE w.account[a]],
   storage |-> [a \in Addr |-> [s \in Slot |->
     IF o[a].kind = "none" THEN w.storage[a][s]
     ELSE IF o[a].write[s] # Unset THEN o[a].write[s]
     ELSE IF o[a].inc THEN None
     ELSE w.storage[a][s]]]]

HasRows(accountRows, storageRows, n) ==
  \/ \E a \in Addr : accountRows[n][a] # Unset
  \/ \E a \in Addr, s \in Slot : storageRows[n][a][s] # Unset

\* append and append_dup refuse a key below the last one of the table: the
\* rows of the blocks from n on can be appended to the history tables t.
Appendable(t, n) ==
  /\ \A m \in Block : m >= n => ~HasRows(t.accountCS, t.storageCS, m)
  /\ \A m \in t.logs : m < n

\* Buffer::write_history: the rows of buffer b that go to the tables t.
WriteHistory(t, b) ==
  [t EXCEPT
     !.accountCS = [n \in Block |-> [a \in Addr |->
        IF b.accountChanges[n][a] # Unset THEN b.accountChanges[n][a] ELSE @[n][a]]],
     !.storageCS = [n \in Block |-> [a \in Addr |-> [s \in Slot |->
        IF b.storageChanges[n][a][s] # Unset THEN b.storageChanges[n][a][s] ELSE @[n][a][s]]]],
     !.logs = @ \cup b.logs]

\* What is left in the buffer after write_history.
HistoryTaken(b) ==
  [b EXCEPT !.accountChanges = NoAccountChanges,
            !.storageChanges = NoStorageChanges,
            !.logs = {}]

\* Mutant: the rows of an erased storage stay in the table.
WriteToDbKeepsErased(t, b) ==
  [WriteHistory(t, b) EXCEPT
     !.account = [a \in Addr |-> IF b.accounts[a] # Unset THEN b.accounts[a] ELSE @[a]],
     !.storage = [a \in Addr |-> [s \in Slot |->
        IF b.slots[a][s] # Unset THEN b.slots[a][s] ELSE @[a][s]]]]

\* Buffer::write_to_db: history first, then the state.
WriteToDb(t, b) ==
  [WriteHistory(t, b) EXCEPT
     !.account = [a \in Addr |-> IF b.accounts[a] # Unset THEN b.accounts[a] ELSE @[a]],
     !.storage = [a \in Addr |-> [s \in Slot |->
        IF b.slots[a][s] # Unset THEN b.slots[a][s]
        ELSE IF b.erased[a] THEN None
        ELSE @[a][s]]]]

-----------------------------------------------------------------------------
(* Rows of the change sets                                                   *)

\* The first block above m with a row for the account, or for the slot;
\* MaxBlock + 1 if there is none.
NextAccountChange(a, m) ==
  CHOOSE n \in (m + 1)..(MaxBlock + 1) :
    /\ n = MaxBlock + 1 \/ db.accountCS[n][a] # Unset
    /\ \A k \in (m + 1)..(n - 1) : db.accountCS[k][a] = Unset
NextStorageChange(a, s, m) ==
  CHOOSE n \in (m + 1)..(MaxBlock + 1) :
    /\ n = MaxBlock + 1 \/ db.storageCS[n][a][s] # Unset
    /\ \A k \in (m + 1)..(n - 1) : db.storageCS[k][a][s] = Unset

\* accessors::state::account::read and storage::read for block m.  The index
\* that finds the next change is not built by any stage of the repository; it
\* is taken to list the blocks of the change set.
AccountAt(a, m) ==
  LET n == NextAccountChange(a, m)
  IN IF n <= MaxBlock THEN db.accountCS[n][a] ELSE db.account[a]
StorageAt(a, s, m) ==
  LET n == NextStorageChange(a, s, m)
  IN IF n <= MaxBlock THEN db.storageCS[n][a][s] ELSE db.storage[a][s]

AccountChanged(a, from) == NextAccountChange(a, from) <= MaxBlock
StorageChanged(a, s, from) == NextStorageChange(a, s, from) <= MaxBlock

-----------------------------------------------------------------------------
(* The round: the stages before Execution, Execution, HashState, Interhashes *)

\* The stages up to SenderRecovery bring the chain to block t.
AdvanceHeaders ==
  /\ stage = "Headers" /\ failed = "no"
  /\ \E t \in progress.exec..MaxBlock : target' = t
  /\ stage' = "Execution"
  /\ UNCHANGED <<progress, cur, db, buf, failed, world, faults>>

\* Execution::execute when there is nothing to execute.
ExecuteNothing ==
  /\ stage = "Execution" /\ failed = "no"
  /\ cur = progress.exec /\ target = progress.exec
  /\ stage' = "HashState"
  /\ UNCHANGED <<target, progress, cur, db, buf, failed, world, faults>>

\* One turn of the loop of execute_batch_of_blocks.  The gas of the block
\* decides whether its history is written at once (flush) and, with the clock
\* and batch_until, whether the batch ends; the batch ends at the last block.
\* exit_after_batch lets the stage be done before the last block.  Bound: a
\* block affects at most one of the addresses.
ExecuteBlock ==
  /\ stage = "Execution" /\ failed = "no" /\ cur < target
  /\ \E a \in Addr, flush, end, exit \in BOOLEAN :
     \E x \in Objects(a) \cup {Untouched} :
       LET n == cur + 1
           o == [c \in Addr |-> IF c = a THEN x ELSE Untouched]
           b == WriteBlock(n, o)
           traced == [db EXCEPT !.traces = @ \cup {n}]
           writes == flush \/ end
           first == CHOOSE m \in b.logs : \A k \in b.logs : m <= k
       IN  /\ n = target => end
           /\ exit => end /\ n < target
           /\ cur' = n
           /\ world' = [m \in 0..n |-> IF m = n THEN Apply(world[cur], o) ELSE world[m]]
           /\ IF \/ \E m \in db.traces : m >= n
                 \/ writes /\ ~Appendable(db, first)
              THEN failed' = "append" /\ UNCHANGED <<stage, progress, db, buf>>
              ELSE /\ failed' = "no"
                   /\ db' = IF end THEN WriteToDb(traced, b)
                            ELSE IF flush THEN WriteHistory(traced, b)
                            ELSE traced
                   /\ buf' = IF end THEN EmptyBuffer
                             ELSE IF flush THEN HistoryTaken(b)
                             ELSE b
                   /\ progress' = IF end THEN [progress EXCEPT !.exec = n] ELSE progress
                   /\ stage' = IF end /\ (n = target \/ exit) THEN "HashState" ELSE stage
  /\ UNCHANGED <<target, faults>>

\* promote_clean_accounts and promote_clean_storage: the hashed tables are
\* made again from the state.
PromoteClean == [db EXCEPT !.hashedAccount = db.account, !.hashedStorage = db.storage]

\* promote_accounts and promote_storage: what has a row in the change sets
\* after `from` is copied from the state.
Promote(from) ==
  [db EXCEPT
     !.hashedAccount = [a \in Addr |->
        IF AccountChanged(a, from) THEN db.account[a] ELSE @[a]],
     !.hashedStorage = [a \in Addr |-> [s \in Slot |->
        IF StorageChanged(a, s, from) THEN db.storage[a][s] ELSE @[a][s]]]]

\* HashState::execute.  should_do_clean_promotion: always from genesis, and
\* whenever the gas since the last run is above the threshold.
ExecuteHashState ==
  /\ stage = "HashState" /\ failed = "no"
  /\ \E clean \in BOOLEAN :
       /\ progress.hash = 0 => clean
       /\ db' = IF clean THEN PromoteClean ELSE Promote(progress.hash)
  /\ progress' = [progress EXCEPT !.hash = progress.exec]
  /\ stage' = "Interhashes"
  /\ UNCHANGED <<target, cur, buf, failed, world, faults>>

\* gather_changes, PrefixSet::contains and the storage trie Cursor: a branch
\* of the storage trie is taken from TrieStorage unless a change lies below it.
StorageRows(a, from) ==
  [s \in Slot |-> IF StorageChanged(a, s, from) \/ db.trieStorage[a][s] = None
                  THEN db.hashedStorage[a][s] ELSE db.trieStorage[a][s]]

\* calculate_root: a branch of the account trie is taken from TrieAccount
\* unless an account change lies below it; else the account is read, and its
\* storage root calculated.  A destructed account is not visited at all, so
\* its rows of TrieStorage stay.
CalculateRoot(from) ==
  LET Visited(a) == AccountChanged(a, from) \/ db.trieAccount[a].account = None
      Found(a) == Visited(a) /\ db.hashedAccount[a] # None
      rows == [a \in Addr |-> IF Found(a) THEN StorageRows(a, from) ELSE db.trieStorage[a]]
      leaf == [a \in Addr |->
        IF Found(a) THEN [account |-> db.hashedAccount[a], storage |-> rows[a]]
        ELSE IF Visited(a) THEN [account |-> None, storage |-> [s \in Slot |-> None]]
        ELSE db.trieAccount[a]]
  IN [db EXCEPT !.trieAccount = leaf, !.trieStorage = rows]

NoTrie == [a \in Addr |-> [account |-> None, storage |-> [s \in Slot |-> None]]]

\* regenerate_intermediate_hashes: both tables are cleared first.
Regenerate ==
  [db EXCEPT
    !.trieAccount = [a \in Addr |->
       IF db.hashedAccount[a] = None THEN NoTrie[a]
       ELSE [account |-> db.hashedAccount[a], storage |-> db.hashedStorage[a]]],
    !.trieStorage = [a \in Addr |->
       IF db.hashedAccount[a] = None THEN NoStorage[a] ELSE db.hashedStorage[a]]]

\* Mutant: the first block after `from` is passed over.
IncrementLate(from) == CalculateRoot(from + 1)

\* increment_intermediate_hashes
Increment(from) == CalculateRoot(from)

\* The root hash of a trie is the one in the header of block n.
RootMatches(trie, n) ==
  \A a \in Addr : /\ trie[a].account = world[n].account[a]
                  /\ trie[a].storage = world[n].storage[a]

\* Interhashes::execute: a wrong root fails the stage.
ExecuteInterhashes ==
  /\ stage = "Interhashes" /\ failed = "no"
  /\ IF progress.hash > progress.inter
     THEN \E clean \in BOOLEAN :
            LET t == IF clean THEN Regenerate ELSE Increment(progress.inter)
            IN /\ progress.inter = 0 => clean
               /\ IF RootMatches(t.trieAccount, progress.hash)
                  THEN /\ db' = t
                       /\ progress' = [progress EXCEPT !.inter = progress.hash]
                       /\ UNCHANGED failed
                  ELSE failed' = "root" /\ UNCHANGED <<db, progress>>
     ELSE UNCHANGED <<db, progress, failed>>
  /\ stage' = "Headers"
  /\ UNCHANGED <<target, cur, buf, world, faults>>

-----------------------------------------------------------------------------
(* Unwinds                                                                   *)

\* seek(key) and delete_current on a table whose keys are ordered by rank: the
\* row with the least key that is not below a's is deleted.
SeekDelete(table, rank, a) ==
  LET from == {b \in Addr : rank[b] >= rank[a] /\ table[b] # None}
  IN [b \in Addr |->
        IF b \in from /\ \A c \in from : rank[b] <= rank[c] THEN None ELSE table[b]]

\* The row of block n and address a, if there is one, put back into a table of
\* accounts.
PutBack(table, rank, n, a) ==
  LET v == db.accountCS[n][a]
  IN IF v = Unset THEN table
     ELSE IF v = None THEN SeekDelete(table, rank, a)
     ELSE [table EXCEPT ![a] = v]

\* The rows of block n put back, last one first.
PutBackBlock(table, rank, n) ==
  LET walk[k \in 0..NAddr] ==
        IF k = 0 THEN table ELSE PutBack(walk[k - 1], rank, n, NAddr + 1 - k)
  IN walk[NAddr]

\* Puts the accounts of the rows above block `to` back: the change set is
\* walked from its end.
UnwindAccounts(table, rank, to) ==
  LET walk[k \in 0..(MaxBlock - to)] ==
        IF k = 0 THEN table ELSE PutBackBlock(walk[k - 1], rank, MaxBlock + 1 - k)
  IN walk[MaxBlock - to]

\* Puts the slots of the rows above `to` back (upsert_storage_value, last row
\* first: the earliest row stays).
UnwindStorage(table, to) ==
  [a \in Addr |-> [s \in Slot |->
     LET n == NextStorageChange(a, s, to)
     IN IF n <= MaxBlock THEN db.storageCS[n][a][s] ELSE table[a][s]]]

\* Interhashes::unwind clears the trie tables.
UnwindInterhashes(t) ==
  [t EXCEPT !.trieAccount = NoTrie, !.trieStorage = NoStorage]

\* Mutant: the storage rows are left alone.
UnwindHashStateAccounts(t, to) ==
  [t EXCEPT !.hashedAccount = UnwindAccounts(@, HashRank, to)]

\* HashState::unwind
UnwindHashState(t, to) ==
  [t EXCEPT !.hashedAccount = UnwindAccounts(@, HashRank, to),
            !.hashedStorage = UnwindStorage(@, to)]

\* The Account table is ordered by address.
AddressRank == [a \in Addr |-> a]

\* Mutant: the call traces of the blocks taken back stay.
UnwindExecutionKeepsTraces(t, to) ==
  [t EXCEPT !.account = UnwindAccounts(@, AddressRank, to),
            !.storage = UnwindStorage(@, to),
            !.accountCS = [n \in Block |-> IF n > to THEN NoAccountChanges[n] ELSE @[n]],
            !.storageCS = [n \in Block |-> IF n > to THEN NoStorageChanges[n] ELSE @[n]],
            !.logs = {n \in @ : n <= to}]

\* Execution::unwind
UnwindExecution(t, to) ==
  [t EXCEPT !.account = UnwindAccounts(@, AddressRank, to),
            !.storage = UnwindStorage(@, to),
            !.accountCS = [n \in Block |-> IF n > to THEN NoAccountChanges[n] ELSE @[n]],
            !.storageCS = [n \in Block |-> IF n > to THEN NoStorageChanges[n] ELSE @[n]],
            !.logs = {n \in @ : n <= to},
            !.traces = {n \in @ : n <= to}]

\* A stage before Execution asks for an unwind to block `to`: StagedSync::run
\* unwinds the stages whose progress is above it, last stage first.
Unwind ==
  /\ stage = "Headers" /\ failed = "no" /\ faults.unwinds < MaxUnwinds
  /\ \E to \in 0..(progress.exec - 1) :
       LET i == IF progress.inter > to THEN UnwindInterhashes(db) ELSE db
           h == IF progress.hash > to THEN UnwindHashState(i, to) ELSE i
       IN /\ db' = UnwindExecution(h, to)
          /\ progress' = [exec  |-> to,
                          hash  |-> IF progress.hash > to THEN to ELSE progress.hash,
                          inter |-> IF progress.inter > to THEN 0 ELSE progress.inter]
          /\ cur' = to
          /\ world' = [m \in 0..to |-> world[m]]
          /\ target' = to
  /\ faults' = [faults EXCEPT !.unwinds = @ + 1]
  /\ UNCHANGED <<stage, buf, failed>>

\* The process stops and starts again: the transaction of an unfinished batch
\* is gone, with the buffer and the rows it wrote; what was committed stays.
Restart ==
  /\ stage # "Headers" /\ failed = "no" /\ faults.restarts < MaxRestarts
  /\ stage' = "Headers"
  /\ db' = [db EXCEPT
       !.accountCS = [n \in Block |-> IF n > progress.exec THEN NoAccountChanges[n] ELSE @[n]],
       !.storageCS = [n \in Block |-> IF n > progress.exec THEN NoStorageChanges[n] ELSE @[n]],
       !.logs = {n \in @ : n <= progress.exec},
       !.traces = {n \in @ : n <= progress.exec}]
  /\ buf' = EmptyBuffer
  /\ cur' = progress.exec
  /\ world' = [m \in 0..progress.exec |-> world[m]]
  /\ faults' = [faults EXCEPT !.restarts = @ + 1]
  /\ UNCHANGED <<target, progress, failed>>

\* initialize_genesis: the accounts of the chain specification, written through
\* a Buffer, and the hashed tables and the trie made from them.  The rows of
\* block 0 are never unwound and are left out.
Init ==
  /\ stage = "Headers" /\ target = 0 /\ cur = 0 /\ failed = "no"
  /\ progress = [exec |-> 0, hash |-> 0, inter |-> 0]
  /\ buf = EmptyBuffer
  /\ faults = [unwinds |-> 0, restarts |-> 0]
  /\ \E account \in [Addr -> {None, 1}] :
       /\ world = [m \in {0} |-> [account |-> account, storage |-> NoStorage]]
       /\ db = [account |-> account, storage |-> NoStorage,
                accountCS |-> NoAccountChanges, storageCS |-> NoStorageChanges,
                logs |-> {}, traces |-> {},
                hashedAccount |-> account, hashedStorage |-> NoStorage,
                trieAccount |-> [a \in Addr |-> [account |-> account[a], storage |-> NoStorage[a]]],
                trieStorage |-> NoStorage]

Next ==
  \/ AdvanceHeaders
  \/ ExecuteNothing
  \/ ExecuteBlock
  \/ ExecuteHashState
  \/ ExecuteInterhashes
  \/ Unwind
  \/ Restart

Spec == Init /\ [][Next]_vars

-----------------------------------------------------------------------------
(* Properties                                                                *)

\* Inside a batch, Buffer::read_account and Buffer::read_storage answer with
\* the state after the last executed block, whatever mixture of table rows,
\* overlay and erased storage it is made of; after write_to_db, and after an
\* unwind or a restart, the tables alone do.
ReadsCurrentState ==
  \A a \in Addr :
    /\ ReadAccount(a) = world[cur].account[a]
    /\ \A s \in Slot : ReadStorage(a, s) = world[cur].storage[a][s]

\* The change sets are "backward changes of the state, i.e. account/storage
\* values at the beginning of a block" (buffer.rs:214): outside a batch, the
\* state after any earlier block can be read back from them, across batches,
\* early write_history calls, unwinds and restarts.
HistoryReadable ==
  cur = progress.exec =>
    \A m \in 0..progress.exec, a \in Addr :
      /\ AccountAt(a, m) = world[m].account[a]
      /\ \A s \in Slot : StorageAt(a, s, m) = world[m].storage[a][s]

\* The hashed tables hold the state of the block HashState has reached, whether
\* they were promoted from scratch, from change sets, or unwound with Execution
\* ahead of HashState or not.  At genesis they are made again in any case.
HashedFollows ==
  progress.hash > 0 => \A a \in Addr :
    /\ db.hashedAccount[a] = world[progress.hash].account[a]
    /\ db.hashedStorage[a] = world[progress.hash].storage[a]

\* Valid blocks never fail a stage: the state root Interhashes calculates from
\* the hashes it remembers is the one in the header.
RootsAgree == failed # "root"

\* No history table holds a row that the next append would have to precede: an
\* unwind or a restart leaves nothing of the blocks it takes back.
AppendsSucceed == failed # "append"

=============================================================================
