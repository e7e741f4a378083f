------------------------- MODULE StateHistoryProofs -------------------------
(***************************************************************************)
(* Proofs about StateHistory, for any number of addresses, slots, contents *)
(* and blocks, any order of the hashed tables and any place of batches,    *)
(* flushes, unwinds and restarts: no append to the history fails, reads    *)
(* answer with the current state, the state after any earlier block can be *)
(* read back, the hashed tables follow, and the state root is right.  The  *)
(* last four hold of the chains that HistoryEffects, NoHashLag and         *)
(* OnceEffects describe.                                                   *)
(*                                                                         *)
(* The argument: a row of a change set, be it in the buffer or in a table, *)
(* holds the value before its block, and what has no row has not changed   *)
(* (RowsExact).  So putting the rows back from the last one to the first   *)
(* leads to the state of the lower block, and a table that held an earlier *)
(* state needs to be told of nothing but what has a row since.             *)
(***************************************************************************)
EXTENDS StateHistory, NatLemmas

\* Contents of an account or slot, and of a row or overlay entry.
Content == {None} \cup Value
Entry == {Unset} \cup Content

Accounts == [Addr -> Content]
Storages == [Addr -> [Slot -> Content]]
AccountEntries == [Addr -> Entry]
StorageEntries == [Addr -> [Slot -> Entry]]

Tables == [account : Accounts, storage : Storages,
           accountCS : [Block -> AccountEntries], storageCS : [Block -> StorageEntries],
           logs : SUBSET Block, traces : SUBSET Block,
           hashedAccount : Accounts, hashedStorage : Storages,
           trieAccount : [Addr -> [account : Content, storage : [Slot -> Content]]],
           trieStorage : Storages]

Buffers == [accounts : AccountEntries, erased : [Addr -> BOOLEAN], slots : StorageEntries,
            accountChanges : [Block -> AccountEntries],
            storageChanges : [Block -> StorageEntries], logs : SUBSET Block]

Worlds == [account : Accounts, storage : Storages]

TypeInv ==
  /\ stage \in {"Headers", "Execution", "HashState", "Interhashes"}
  /\ target \in 0..MaxBlock
  /\ progress \in [exec : 0..MaxBlock, hash : 0..MaxBlock, inter : 0..MaxBlock]
  /\ cur \in 0..MaxBlock
  /\ db \in Tables
  /\ buf \in Buffers
  /\ failed \in {"no", "root"}
  /\ world \in [0..cur -> Worlds]
  /\ faults \in [unwinds : Nat, restarts : Nat]

\* Where the stages are.
OrderInv ==
  /\ progress.inter <= progress.hash /\ progress.hash <= progress.exec
  /\ progress.exec <= cur
  /\ stage # "Execution" => cur = progress.exec
  /\ stage = "Execution" => cur <= target
  /\ stage = "Interhashes" => progress.hash = progress.exec
  /\ cur = progress.exec => buf = EmptyBuffer

\* No row, in the tables or in the buffer, is above the last executed block, and
\* what the buffer still has to append is above all that the tables hold.
RowsInv ==
  /\ \A m \in Block : m > cur =>
       ~HasRows(db.accountCS, db.storageCS, m)
  /\ \A m \in Block : ~(progress.exec < m /\ m <= cur) =>
       ~HasRows(buf.accountChanges, buf.storageChanges, m)
  /\ \A m \in db.traces \cup db.logs \cup buf.logs : m <= cur
  /\ \A k \in buf.logs : Appendable(db, k)

\* The row of block m, be it in the buffer or in the table.
AccountRow(m, a) == IF buf.accountChanges[m][a] # Unset THEN buf.accountChanges[m][a]
                    ELSE db.accountCS[m][a]
StorageRow(m, a, s) ==
  IF buf.storageChanges[m][a][s] # Unset THEN buf.storageChanges[m][a][s]
  ELSE db.storageCS[m][a][s]

\* A row holds the value before its block, and what has no row has not changed.
RowsExact ==
  \A m \in 1..cur, a \in Addr :
    /\ AccountRow(m, a) \in {world[m - 1].account[a], Unset}
    /\ AccountRow(m, a) = Unset => world[m].account[a] = world[m - 1].account[a]
    /\ AccountRow(m, a) = None => world[m].account[a] # None \/ NAddr = 1
    /\ \A s \in Slot :
         /\ StorageRow(m, a, s) \in {world[m - 1].storage[a][s], Unset}
         /\ StorageRow(m, a, s) = Unset =>
              world[m].storage[a][s] = world[m - 1].storage[a][s]

\* The tables hold the state after the last batch.
TablesAtExec == /\ db.account = world[progress.exec].account
                /\ db.storage = world[progress.exec].storage

HistoryInv == RowsExact /\ TablesAtExec /\ ReadsCurrentState

HashInv ==
  /\ HashedFollows
  /\ faults.restarts = 0 /\ stage = "Headers" => progress.hash = progress.exec
  /\ faults.restarts <= MaxRestarts

Stored(n, a) == \E m \in 0..n, s \in Slot : world[m].storage[a][s] # None

WorldInv ==
  \A n \in 0..cur, a \in Addr :
    /\ world[n].account[a] = None => \A s \in Slot : world[n].storage[a][s] = None
    /\ world[n].account[a] = None /\ Stored(n, a) =>
         \A m \in n..cur : world[m].account[a] = None

RecordedInv ==
  \A m \in 1..cur, a \in Addr :
    AccountRow(m, a) = Unset => world[m].storage[a] = world[m - 1].storage[a]

TrieInv ==
  progress.inter > 0 =>
    /\ RootMatches(db.trieAccount, progress.inter)
    /\ \A a \in Addr, s \in Slot :
         \/ db.trieStorage[a][s] \in {None, world[progress.inter].storage[a][s]}
         \/ world[progress.inter].account[a] = None /\ Stored(progress.inter, a)

RootInv == WorldInv /\ RecordedInv /\ TrieInv

-----------------------------------------------------------------------------
(* Types *)

\* What the contents are, and that "no row" is none of them.
LEMMA Contents ==
  /\ None \in Content /\ Unset \notin Content /\ None \notin Value /\ Value \subseteq Content
  /\ Content \subseteq Entry /\ Unset \in Entry /\ None # Unset
  /\ \A x \in Entry : x # Unset => x \in Content
  /\ \A x \in Content : x # None => x \in Value
BY SizesAssumption DEF None, Unset, Value, Content, Entry

\* Addresses and blocks are intervals.
LEMMA Ranges ==
  /\ Addr = 1..NAddr /\ Block = 1..MaxBlock
  /\ MaxBlock \in Nat /\ NAddr \in Nat /\ NAddr > 0
BY SizesAssumption DEF Addr, Block

\* The empty tables and the empty buffer.
LEMMA EmptyTypes ==
  /\ NoAccountChanges \in [Block -> AccountEntries]
  /\ NoStorageChanges \in [Block -> StorageEntries]
  /\ NoAccounts \in Accounts /\ NoStorage \in Storages
  /\ EmptyBuffer \in Buffers
  /\ NoTrie \in [Addr -> [account : Content, storage : [Slot -> Content]]]
<1>1. None \in Content /\ Unset \in Entry
  BY Contents
<1>2. /\ NoAccountChanges \in [Block -> AccountEntries]
      /\ NoStorageChanges \in [Block -> StorageEntries]
  BY <1>1 DEF NoAccountChanges, NoStorageChanges, AccountEntries, StorageEntries
<1>3. NoAccounts \in Accounts /\ NoStorage \in Storages
  BY <1>1 DEF NoAccounts, NoStorage, Accounts, Storages
<1>4. EmptyBuffer \in Buffers
  BY <1>1, <1>2 DEF EmptyBuffer, Buffers, AccountEntries, StorageEntries
<1>5. NoTrie \in [Addr -> [account : Content, storage : [Slot -> Content]]]
  BY <1>1 DEF NoTrie
<1> QED BY <1>2, <1>3, <1>4, <1>5

\* What the buffer answers.
LEMMA ReadTypes ==
  ASSUME TypeInv, NEW a \in Addr
  PROVE  /\ ReadAccount(a) \in Content
         /\ \A s \in Slot : ReadStorage(a, s) \in Content
<1>1. /\ buf.accounts[a] \in Entry /\ db.account[a] \in Content
      /\ \A s \in Slot : buf.slots[a][s] \in Entry /\ db.storage[a][s] \in Content
  BY DEF TypeInv, Buffers, Tables, AccountEntries, StorageEntries, Accounts, Storages
<1> QED BY <1>1, Contents DEF ReadAccount, ReadStorage

\* An object's fields.
IsObject(a, x) ==
  /\ x.kind = "object" /\ x.inc \in BOOLEAN
  /\ x.initial = ReadAccount(a)
  /\ x.current \in Content
  /\ x.slotInitial \in [Slot -> Content]
  /\ x.write \in [Slot -> Entry]

\* What the objects of a block have in common.
LEMMA ObjectsAre ==
  ASSUME TypeInv, NEW a \in Addr, NEW x \in Objects(a)
  PROVE  /\ IsObject(a, x)
         /\ ~x.inc => /\ x.current # None
                      /\ x.slotInitial = [s \in Slot |-> ReadStorage(a, s)]
         /\ x.inc => /\ x.slotInitial = [s \in Slot |-> None]
                     /\ \/ "recreate" \in Effects
                        \/ x.write = NoWrites
                        \/ \A s \in Slot : ReadStorage(a, s) = None
         /\ x.initial = None /\ x.current = None => "dead" \in Effects
         /\ x.current = None => x.inc /\ x.write = NoWrites
         /\ Effects \subseteq {"update", "pay", "create", "destroy", "revive"} =>
              /\ x.initial = None => ~EverStored(a)
              /\ x.inc /\ x.current = x.initial => \A s \in Slot : ReadStorage(a, s) = None
<1> DEFINE before == ReadAccount(a)
           stored == [s \in Slot |-> ReadStorage(a, s)]
           zeros == [s \in Slot |-> None]
           writes == [Slot -> {Unset, None} \cup Value]
<1>1. /\ before \in Content /\ stored \in [Slot -> Content] /\ zeros \in [Slot -> Content]
      /\ writes = [Slot -> Entry] /\ NoWrites \in writes
  BY ReadTypes, Contents DEF NoWrites, Entry, Content
<1>2. \/ "update" \in Effects /\ before # None
         /\ x \in ObjectsWith(FALSE, before, Value, stored, writes)
      \/ "pay" \in Effects /\ before = None /\ ~EverStored(a)
         /\ x \in ObjectsWith(FALSE, None, Value, stored, {NoWrites})
      \/ "payAgain" \in Effects /\ before = None
         /\ x \in ObjectsWith(FALSE, None, Value, stored, {NoWrites})
      \/ "create" \in Effects /\ stored = zeros /\ ~EverStored(a)
         /\ x \in ObjectsWith(TRUE, before, Value, zeros, writes)
      \/ "again" \in Effects /\ stored = zeros
         /\ x \in ObjectsWith(TRUE, before, Value, zeros, writes)
      \/ "destroy" \in Effects /\ before # None
         /\ x \in ObjectsWith(TRUE, before, {None}, zeros, {NoWrites})
      \/ "revive" \in Effects /\ before # None
         /\ x \in ObjectsWith(TRUE, before, Value \ {before}, zeros, {NoWrites})
      \/ "dead" \in Effects /\ before = None
         /\ x \in ObjectsWith(TRUE, None, {None}, zeros, {NoWrites})
      \/ "recreate" \in Effects /\ before # None
         /\ x \in ObjectsWith(TRUE, before, Value, zeros, writes)
      \/ "rebirth" \in Effects /\ before # None
         /\ x \in ObjectsWith(TRUE, before, {before}, zeros, {NoWrites})
  BY DEF Objects
<1>3. Value \subseteq Content /\ None \in Content /\ None \notin Value
  BY Contents DEF Content
<1>4. stored = zeros => \A s \in Slot : ReadStorage(a, s) = None
  <2> SUFFICES ASSUME stored = zeros, NEW s \in Slot PROVE ReadStorage(a, s) = None
    OBVIOUS
  <2>1. stored[s] = ReadStorage(a, s) /\ zeros[s] = None
    OBVIOUS
  <2> HIDE DEF stored, zeros
  <2> QED BY <2>1
<1> HIDE DEF before, stored, zeros, writes
<1>5. CASE "update" \in Effects /\ before # None
           /\ x \in ObjectsWith(FALSE, before, Value, stored, writes)
  <2>1. PICK v \in Value, w \in writes : x = Object(FALSE, before, v, stored, w)
    BY <1>5, SMT DEF ObjectsWith, Object
  <2> QED BY <1>1, <1>3, <1>4, <1>5, <2>1 DEF Object, IsObject, before, stored, zeros
<1>6. CASE "create" \in Effects /\ stored = zeros /\ ~EverStored(a)
           /\ x \in ObjectsWith(TRUE, before, Value, zeros, writes)
  <2>1. PICK v \in Value, w \in writes : x = Object(TRUE, before, v, zeros, w)
    BY <1>6, SMT DEF ObjectsWith, Object
  <2> QED BY <1>1, <1>3, <1>4, <1>6, <2>1 DEF Object, IsObject, before, stored, zeros
<1>7. CASE "again" \in Effects /\ stored = zeros
           /\ x \in ObjectsWith(TRUE, before, Value, zeros, writes)
  <2>1. PICK v \in Value, w \in writes : x = Object(TRUE, before, v, zeros, w)
    BY <1>7, SMT DEF ObjectsWith, Object
  <2> QED BY <1>1, <1>3, <1>4, <1>7, <2>1 DEF Object, IsObject, before, stored, zeros
<1>8. CASE "destroy" \in Effects /\ before # None
           /\ x \in ObjectsWith(TRUE, before, {None}, zeros, {NoWrites})
  <2>1. PICK v \in {None}, w \in {NoWrites} : x = Object(TRUE, before, v, zeros, w)
    BY <1>8, SMT DEF ObjectsWith, Object
  <2> QED BY <1>1, <1>3, <1>4, <1>8, <2>1 DEF Object, IsObject, before, stored, zeros
<1>9. CASE "revive" \in Effects /\ before # None
           /\ x \in ObjectsWith(TRUE, before, Value \ {before}, zeros, {NoWrites})
  <2>1. PICK v \in Value \ {before}, w \in {NoWrites} : x = Object(TRUE, before, v, zeros, w)
    BY <1>9, SMT DEF ObjectsWith, Object
  <2> QED BY <1>1, <1>3, <1>4, <1>9, <2>1 DEF Object, IsObject, before, stored, zeros
<1>10. CASE "dead" \in Effects /\ before = None
            /\ x \in ObjectsWith(TRUE, None, {None}, zeros, {NoWrites})
  <2>1. PICK v \in {None}, w \in {NoWrites} : x = Object(TRUE, None, v, zeros, w)
    BY <1>10, SMT DEF ObjectsWith, Object
  <2> QED BY <1>1, <1>3, <1>4, <1>10, <2>1 DEF Object, IsObject, before, stored, zeros
<1>11. CASE "recreate" \in Effects /\ before # None
            /\ x \in ObjectsWith(TRUE, before, Value, zeros, writes)
  <2>1. PICK v \in Value, w \in writes : x = Object(TRUE, before, v, zeros, w)
    BY <1>11, SMT DEF ObjectsWith, Object
  <2> QED BY <1>1, <1>3, <1>4, <1>11, <2>1 DEF Object, IsObject, before, stored, zeros
<1>12. CASE "rebirth" \in Effects /\ before # None
            /\ x \in ObjectsWith(TRUE, before, {before}, zeros, {NoWrites})
  <2>1. PICK v \in {before}, w \in {NoWrites} : x = Object(TRUE, before, v, zeros, w)
    BY <1>12, SMT DEF ObjectsWith, Object
  <2> QED BY <1>1, <1>3, <1>4, <1>12, <2>1 DEF Object, IsObject, before, stored, zeros
<1>13. CASE "pay" \in Effects /\ before = None /\ ~EverStored(a)
            /\ x \in ObjectsWith(FALSE, None, Value, stored, {NoWrites})
  <2>1. PICK v \in Value, w \in {NoWrites} : x = Object(FALSE, None, v, stored, w)
    BY <1>13, SMT DEF ObjectsWith, Object
  <2> QED BY <1>1, <1>3, <1>4, <1>13, <2>1 DEF Object, IsObject, before, stored, zeros
<1>14. CASE "payAgain" \in Effects /\ before = None
            /\ x \in ObjectsWith(FALSE, None, Value, stored, {NoWrites})
  <2>1. PICK v \in Value, w \in {NoWrites} : x = Object(FALSE, None, v, stored, w)
    BY <1>14, SMT DEF ObjectsWith, Object
  <2> QED BY <1>1, <1>3, <1>4, <1>14, <2>1 DEF Object, IsObject, before, stored, zeros
<1> QED BY <1>2, <1>5, <1>6, <1>7, <1>8, <1>9, <1>10, <1>11, <1>12, <1>13, <1>14

\* Two tables of storage with the same slots are the same.
LEMMA SameStorages ==
  ASSUME NEW u \in Storages, NEW v \in Storages, \A a \in Addr, s \in Slot : u[a][s] = v[a][s]
  PROVE  u = v
<1>1. \A a \in Addr : u[a] = v[a]
  BY DEF Storages
<1> QED BY <1>1 DEF Storages

-----------------------------------------------------------------------------
(* A block written into the buffer *)

\* What a block does: at every address nothing, or an object.
IsBlock(o) == \A c \in Addr : o[c] = Untouched \/ (o[c] \in Objects(c) /\ IsObject(c, o[c]))

\* The buffer b after the block, at an address.
AfterUntouched(n, b, c) ==
  /\ b.erased[c] = buf.erased[c]
  /\ b.accounts[c] = buf.accounts[c]
  /\ b.accountChanges[n][c] = Unset
  /\ \A s \in Slot : /\ b.slots[c][s] = buf.slots[c][s]
                     /\ b.storageChanges[n][c][s] = Unset
AfterObject(n, b, c, x) ==
  /\ b.erased[c] = (buf.erased[c] \/ x.inc)
  /\ b.accounts[c] = IF x.current # x.initial THEN x.current ELSE buf.accounts[c]
  /\ b.accountChanges[n][c] = IF Records(x) THEN x.initial ELSE Unset
  /\ \A s \in Slot :
       /\ b.slots[c][s] = IF Writes(x, s) THEN x.write[s]
                          ELSE IF x.inc THEN Unset ELSE buf.slots[c][s]
       /\ b.storageChanges[n][c][s] = IF Writes(x, s) THEN x.slotInitial[s]
                                      ELSE IF x.inc THEN ErasedSlots(c)[s] ELSE Unset

\* The slots of an erased storage.
LEMMA ErasedTypes ==
  ASSUME TypeInv, NEW c \in Addr
  PROVE  ErasedSlots(c) \in [Slot -> Entry]
<1>0. buf.slots \in StorageEntries /\ db.storage \in Storages
  BY DEF TypeInv, Buffers, Tables
<1>1. \A s \in Slot : buf.slots[c][s] \in Entry /\ db.storage[c][s] \in Entry
  BY <1>0, Contents DEF StorageEntries, Storages
<1> QED BY <1>1, Contents DEF ErasedSlots

\* IntraBlockState::write_to_db, address by address.
LEMMA WriteBlockIs ==
  ASSUME TypeInv, NEW n \in Block, NEW o, IsBlock(o), NEW b, b = WriteBlock(n, o)
  PROVE  /\ b \in Buffers
         /\ b.logs = buf.logs \cup {n}
         /\ \A m \in Block \ {n} : /\ b.accountChanges[m] = buf.accountChanges[m]
                                   /\ b.storageChanges[m] = buf.storageChanges[m]
         /\ \A c \in Addr : /\ o[c] = Untouched => AfterUntouched(n, b, c)
                            /\ o[c] # Untouched => AfterObject(n, b, c, o[c])
<1> DEFINE Touched(a) == o[a].kind = "object"
           Erases(a) == Touched(a) /\ o[a].inc
           erased == [a \in Addr |-> buf.erased[a] \/ Erases(a)]
           slots == [a \in Addr |-> [s \in Slot |->
                       IF Touched(a) /\ Writes(o[a], s) THEN o[a].write[s]
                       ELSE IF Erases(a) THEN Unset ELSE buf.slots[a][s]]]
           storageRows == [a \in Addr |-> [s \in Slot |->
                       IF Touched(a) /\ Writes(o[a], s) THEN o[a].slotInitial[s]
                       ELSE IF Erases(a) THEN ErasedSlots(a)[s] ELSE Unset]]
           accountRows == [a \in Addr |->
                       IF Touched(a) /\ Records(o[a]) THEN o[a].initial ELSE Unset]
           accounts == [a \in Addr |->
                       IF Touched(a) /\ o[a].current # o[a].initial THEN o[a].current
                       ELSE buf.accounts[a]]
<1>1. \A c \in Addr : \/ o[c] = Untouched /\ ~Touched(c)
                      \/ /\ Touched(c) /\ o[c] # Untouched /\ o[c].inc \in BOOLEAN
                         /\ o[c].initial \in Content /\ o[c].current \in Content
                         /\ o[c].slotInitial \in [Slot -> Content]
                         /\ o[c].write \in [Slot -> Entry]
  BY ReadTypes DEF IsBlock, Untouched, IsObject
<1>2. buf \in Buffers /\ \A c \in Addr : ErasedSlots(c) \in [Slot -> Entry]
  BY ErasedTypes DEF TypeInv
<1>3. /\ erased \in [Addr -> BOOLEAN]
      /\ accounts \in AccountEntries /\ accountRows \in AccountEntries
  <2> HIDE DEF Touched
  <2> QED BY <1>1, <1>2, Contents DEF Buffers, AccountEntries
<1>4. slots \in StorageEntries /\ storageRows \in StorageEntries
  <2> HIDE DEF Touched
  <2>1. buf.slots \in StorageEntries
    BY <1>2 DEF Buffers
  <2>2. ASSUME NEW c \in Addr, NEW s \in Slot
        PROVE  slots[c][s] \in Entry /\ storageRows[c][s] \in Entry
    <3>1. buf.slots[c][s] \in Entry /\ ErasedSlots(c)[s] \in Entry
      BY <1>2, <2>1 DEF StorageEntries
    <3> QED BY <1>1, <3>1, Contents
  <2> QED BY <2>2 DEF StorageEntries
<1>5. \A c \in Addr :
        /\ ~Touched(c) => /\ erased[c] = buf.erased[c] /\ accounts[c] = buf.accounts[c]
                          /\ accountRows[c] = Unset
                          /\ \A s \in Slot : slots[c][s] = buf.slots[c][s] /\ storageRows[c][s] = Unset
        /\ Touched(c) => /\ erased[c] = (buf.erased[c] \/ o[c].inc)
                         /\ accounts[c] = IF o[c].current # o[c].initial THEN o[c].current ELSE buf.accounts[c]
                         /\ accountRows[c] = IF Records(o[c]) THEN o[c].initial ELSE Unset
                         /\ \A s \in Slot :
                              /\ slots[c][s] = IF Writes(o[c], s) THEN o[c].write[s]
                                               ELSE IF o[c].inc THEN Unset ELSE buf.slots[c][s]
                              /\ storageRows[c][s] = IF Writes(o[c], s) THEN o[c].slotInitial[s]
                                                     ELSE IF o[c].inc THEN ErasedSlots(c)[s] ELSE Unset
  <2>1. \A c \in Addr : buf.erased[c] \in BOOLEAN
    BY <1>2 DEF Buffers
  <2> HIDE DEF Touched
  <2> QED BY <1>1, <2>1
<1>6. b = [buf EXCEPT !.erased = erased, !.slots = slots, !.storageChanges[n] = storageRows,
                      !.accountChanges[n] = accountRows, !.accounts = accounts,
                      !.logs = @ \cup {n}]
  BY DEF WriteBlock
<1> HIDE DEF erased, slots, storageRows, accountRows, accounts
<1>7. /\ b.erased = erased /\ b.slots = slots /\ b.accounts = accounts
      /\ b.logs = buf.logs \cup {n}
      /\ b.storageChanges = [buf.storageChanges EXCEPT ![n] = storageRows]
      /\ b.accountChanges = [buf.accountChanges EXCEPT ![n] = accountRows]
      /\ b = [accounts |-> b.accounts, erased |-> b.erased, slots |-> b.slots,
              accountChanges |-> b.accountChanges, storageChanges |-> b.storageChanges,
              logs |-> b.logs]
  BY <1>2, <1>6 DEF Buffers
<1>8. /\ buf.storageChanges \in [Block -> StorageEntries]
      /\ buf.accountChanges \in [Block -> AccountEntries]
      /\ buf.logs \subseteq Block
  BY <1>2 DEF Buffers
<1>9. /\ b.storageChanges \in [Block -> StorageEntries] /\ b.storageChanges[n] = storageRows
      /\ b.accountChanges \in [Block -> AccountEntries] /\ b.accountChanges[n] = accountRows
      /\ \A m \in Block \ {n} : /\ b.accountChanges[m] = buf.accountChanges[m]
                                /\ b.storageChanges[m] = buf.storageChanges[m]
  BY <1>3, <1>4, <1>7, <1>8
<1>10. b \in Buffers
  BY <1>3, <1>4, <1>7, <1>8, <1>9 DEF Buffers
<1>11. ASSUME NEW c \in Addr, o[c] = Untouched PROVE AfterUntouched(n, b, c)
  <2>1. ~Touched(c)
    BY <1>1, <1>11
  <2> HIDE DEF Touched
  <2> QED BY <1>5, <1>7, <1>9, <2>1 DEF AfterUntouched
<1>12. ASSUME NEW c \in Addr, o[c] # Untouched PROVE AfterObject(n, b, c, o[c])
  <2>1. Touched(c)
    BY <1>1, <1>12
  <2> HIDE DEF Touched
  <2> QED BY <1>5, <1>7, <1>9, <2>1 DEF AfterObject
<1> QED BY <1>7, <1>9, <1>10, <1>11, <1>12

-----------------------------------------------------------------------------
(* The buffer written to the tables *)

\* The tables t after the history of buffer b is written.
LEMMA WriteHistoryIs ==
  ASSUME NEW t \in Tables, NEW b \in Buffers, NEW u, u = WriteHistory(t, b)
  PROVE  /\ u \in Tables
         /\ u.account = t.account /\ u.storage = t.storage /\ u.traces = t.traces
         /\ u.hashedAccount = t.hashedAccount /\ u.hashedStorage = t.hashedStorage
         /\ u.trieAccount = t.trieAccount /\ u.trieStorage = t.trieStorage
         /\ u.logs = t.logs \cup b.logs
         /\ \A m \in Block, a \in Addr :
              /\ u.accountCS[m][a] = IF b.accountChanges[m][a] # Unset
                                     THEN b.accountChanges[m][a] ELSE t.accountCS[m][a]
              /\ \A s \in Slot :
                   u.storageCS[m][a][s] = IF b.storageChanges[m][a][s] # Unset
                                          THEN b.storageChanges[m][a][s]
                                          ELSE t.storageCS[m][a][s]
<1> DEFINE acs == [n \in Block |-> [a \in Addr |->
                     IF b.accountChanges[n][a] # Unset THEN b.accountChanges[n][a]
                     ELSE t.accountCS[n][a]]]
           scs == [n \in Block |-> [a \in Addr |-> [s \in Slot |->
                     IF b.storageChanges[n][a][s] # Unset THEN b.storageChanges[n][a][s]
                     ELSE t.storageCS[n][a][s]]]]
<1>1. /\ t.accountCS \in [Block -> AccountEntries] /\ t.storageCS \in [Block -> StorageEntries]
      /\ b.accountChanges \in [Block -> AccountEntries]
      /\ b.storageChanges \in [Block -> StorageEntries]
      /\ b.logs \subseteq Block
  BY DEF Tables, Buffers
<1>2. u = [t EXCEPT !.accountCS = acs, !.storageCS = scs, !.logs = @ \cup b.logs]
  BY DEF WriteHistory
<1>3. acs \in [Block -> AccountEntries]
  BY <1>1 DEF AccountEntries
<1>4. scs \in [Block -> StorageEntries]
  BY <1>1 DEF StorageEntries
<1>5. /\ \A m \in Block, a \in Addr :
           acs[m][a] = IF b.accountChanges[m][a] # Unset
                       THEN b.accountChanges[m][a] ELSE t.accountCS[m][a]
      /\ \A m \in Block, a \in Addr, s \in Slot :
           scs[m][a][s] = IF b.storageChanges[m][a][s] # Unset
                          THEN b.storageChanges[m][a][s] ELSE t.storageCS[m][a][s]
  OBVIOUS
<1> HIDE DEF acs, scs
<1>6. /\ u \in Tables
      /\ u.account = t.account /\ u.storage = t.storage /\ u.traces = t.traces
      /\ u.hashedAccount = t.hashedAccount /\ u.hashedStorage = t.hashedStorage
      /\ u.trieAccount = t.trieAccount /\ u.trieStorage = t.trieStorage
      /\ u.logs = t.logs \cup b.logs
      /\ u.accountCS = acs /\ u.storageCS = scs
  BY <1>1, <1>2, <1>3, <1>4, ZenonT(40) DEF Tables
<1> QED BY <1>5, <1>6

\* ... and after the state is written too.
LEMMA WriteToDbIs ==
  ASSUME NEW t \in Tables, NEW b \in Buffers, NEW u, u = WriteToDb(t, b)
  PROVE  /\ u \in Tables
         /\ u.accountCS = WriteHistory(t, b).accountCS
         /\ u.storageCS = WriteHistory(t, b).storageCS
         /\ u.traces = t.traces /\ u.logs = t.logs \cup b.logs
         /\ u.hashedAccount = t.hashedAccount /\ u.hashedStorage = t.hashedStorage
         /\ u.trieAccount = t.trieAccount /\ u.trieStorage = t.trieStorage
         /\ \A a \in Addr :
              /\ u.account[a] = IF b.accounts[a] # Unset THEN b.accounts[a] ELSE t.account[a]
              /\ \A s \in Slot : u.storage[a][s] = IF b.slots[a][s] # Unset THEN b.slots[a][s]
                                                   ELSE IF b.erased[a] THEN None
                                                   ELSE t.storage[a][s]
<1> DEFINE h == WriteHistory(t, b)
           acc == [a \in Addr |-> IF b.accounts[a] # Unset THEN b.accounts[a] ELSE h.account[a]]
           sto == [a \in Addr |-> [s \in Slot |->
                     IF b.slots[a][s] # Unset THEN b.slots[a][s]
                     ELSE IF b.erased[a] THEN None ELSE h.storage[a][s]]]
<1>1. u = [h EXCEPT !.account = acc, !.storage = sto]
  BY DEF WriteToDb
<1> HIDE DEF h
<1>2. /\ h \in Tables
      /\ h.account = t.account /\ h.storage = t.storage /\ h.traces = t.traces
      /\ h.hashedAccount = t.hashedAccount /\ h.hashedStorage = t.hashedStorage
      /\ h.trieAccount = t.trieAccount /\ h.trieStorage = t.trieStorage
      /\ h.logs = t.logs \cup b.logs
  BY WriteHistoryIs DEF h
<1>3. /\ h.account \in Accounts /\ h.storage \in Storages
      /\ b.accounts \in AccountEntries /\ b.slots \in StorageEntries
  BY <1>2 DEF Tables, Buffers
<1>4. acc \in Accounts
  BY <1>3, Contents DEF AccountEntries, Accounts
<1>5. sto \in Storages
  <2>1. ASSUME NEW a \in Addr, NEW s \in Slot PROVE sto[a][s] \in Content
    <3>1. b.slots[a][s] \in Entry /\ h.storage[a][s] \in Content
      BY <1>3 DEF StorageEntries, Storages
    <3> QED BY <3>1, Contents
  <2> QED BY <2>1 DEF Storages
<1>6. \A a \in Addr :
        /\ acc[a] = IF b.accounts[a] # Unset THEN b.accounts[a] ELSE t.account[a]
        /\ \A s \in Slot : sto[a][s] = IF b.slots[a][s] # Unset THEN b.slots[a][s]
                                       ELSE IF b.erased[a] THEN None ELSE t.storage[a][s]
  BY <1>2
<1> HIDE DEF acc, sto
<1>7. /\ u \in Tables /\ u.account = acc /\ u.storage = sto
      /\ u.accountCS = h.accountCS /\ u.storageCS = h.storageCS
      /\ u.traces = h.traces /\ u.logs = h.logs
      /\ u.hashedAccount = h.hashedAccount /\ u.hashedStorage = h.hashedStorage
      /\ u.trieAccount = h.trieAccount /\ u.trieStorage = h.trieStorage
  BY <1>1, <1>2, <1>4, <1>5, ZenonT(40) DEF Tables
<1> QED BY <1>2, <1>6, <1>7 DEF h

\* The buffer after write_history.
LEMMA HistoryTakenIs ==
  ASSUME NEW b \in Buffers, NEW c, c = HistoryTaken(b)
  PROVE  /\ c \in Buffers
         /\ c.accounts = b.accounts /\ c.erased = b.erased /\ c.slots = b.slots
         /\ c.accountChanges = NoAccountChanges /\ c.storageChanges = NoStorageChanges
         /\ c.logs = {}
BY EmptyTypes DEF Buffers, HistoryTaken

-----------------------------------------------------------------------------
(* The execution of a block *)

BaseInv == TypeInv /\ OrderInv /\ RowsInv

Traced(n) == [db EXCEPT !.traces = @ \cup {n}]

\* A turn of the loop that does not fail: block n = cur + 1 does o and the
\* buffer is b after it.
Executed(n, o, b, flush, end, exit) ==
  /\ n = cur + 1 /\ n <= target /\ IsBlock(o) /\ b = WriteBlock(n, o)
  /\ stage = "Execution" /\ (n = target => end)
  /\ cur' = n /\ failed' = "no" /\ target' = target /\ faults' = faults
  /\ world' = [m \in 0..n |-> IF m = n THEN Apply(world[cur], o) ELSE world[m]]
  /\ db' = IF end THEN WriteToDb(Traced(n), b)
           ELSE IF flush THEN WriteHistory(Traced(n), b) ELSE Traced(n)
  /\ buf' = IF end THEN EmptyBuffer ELSE IF flush THEN HistoryTaken(b) ELSE b
  /\ progress' = IF end THEN [progress EXCEPT !.exec = n] ELSE progress
  /\ stage' = IF end /\ (n = target \/ exit) THEN "HashState" ELSE stage

\* No append fails.
LEMMA ExecuteBlockIs ==
  ASSUME BaseInv, ExecuteBlock
  PROVE  \E n \in Block, flush \in BOOLEAN, end \in BOOLEAN, exit \in BOOLEAN :
           \E o, b : Executed(n, o, b, flush, end, exit)
<1> USE DEF BaseInv
<1>1. PICK a \in Addr, flush \in BOOLEAN, end \in BOOLEAN, exit \in BOOLEAN :
        \E x \in Objects(a) \cup {Untouched} :
          LET n == cur + 1
              o == [c \in Addr |-> IF c = a THEN x ELSE Untouched]
              b == WriteBlock(n, o)
              traced == [db EXCEPT !.traces = @ \cup {n}]
              writes == flush \/ end
              first == CHOOSE m \in b.logs : \A k \in b.logs : m <= k
          IN  /\ n = target => end
              /\ exit => end /\ n < target
              /\ cur' = n
              /\ world' = [m \in 0..n |-> IF m = n THEN Apply(world[cur], o) ELSE world[m]]
              /\ IF \/ \E m \in db.traces : m >= n
                    \/ writes /\ ~Appendable(db, first)
                 THEN failed' = "append" /\ UNCHANGED <<stage, progress, db, buf>>
                 ELSE /\ failed' = "no"
                      /\ db' = IF end THEN WriteToDb(traced, b)
                               ELSE IF flush THEN WriteHistory(traced, b)
                               ELSE traced
                      /\ buf' = IF end THEN EmptyBuffer
                                ELSE IF flush THEN HistoryTaken(b)
                                ELSE b
                      /\ progress' = IF end THEN [progress EXCEPT !.exec = n] ELSE progress
                      /\ stage' = IF end /\ (n = target \/ exit) THEN "HashState" ELSE stage
  BY Zenon DEF ExecuteBlock
<1>11. PICK x \in Objects(a) \cup {Untouched} :
        LET n == cur + 1
            o == [c \in Addr |-> IF c = a THEN x ELSE Untouched]
            b == WriteBlock(n, o)
            traced == [db EXCEPT !.traces = @ \cup {n}]
            writes == flush \/ end
            first == CHOOSE m \in b.logs : \A k \in b.logs : m <= k
        IN  /\ n = target => end
            /\ exit => end /\ n < target
            /\ cur' = n
            /\ world' = [m \in 0..n |-> IF m = n THEN Apply(world[cur], o) ELSE world[m]]
            /\ IF \/ \E m \in db.traces : m >= n
                  \/ writes /\ ~Appendable(db, first)
               THEN failed' = "append" /\ UNCHANGED <<stage, progress, db, buf>>
               ELSE /\ failed' = "no"
                    /\ db' = IF end THEN WriteToDb(traced, b)
                             ELSE IF flush THEN WriteHistory(traced, b)
                             ELSE traced
                    /\ buf' = IF end THEN EmptyBuffer
                              ELSE IF flush THEN HistoryTaken(b)
                              ELSE b
                    /\ progress' = IF end THEN [progress EXCEPT !.exec = n] ELSE progress
                    /\ stage' = IF end /\ (n = target \/ exit) THEN "HashState" ELSE stage
  BY <1>1, Zenon
<1> DEFINE n == cur + 1
           o == [c \in Addr |-> IF c = a THEN x ELSE Untouched]
           b == WriteBlock(n, o)
           first == CHOOSE m \in b.logs : \A k \in b.logs : m <= k
<1>2. stage = "Execution" /\ cur < target /\ target' = target /\ faults' = faults
  BY DEF ExecuteBlock
<1>3. n \in Block /\ n <= target /\ cur \in Nat /\ n > cur
  BY <1>2, Ranges DEF TypeInv
<1>4. IsBlock(o)
  BY ObjectsAre DEF IsBlock
<1> HIDE DEF o
<1>5. b.logs = buf.logs \cup {n}
  BY <1>3, <1>4, WriteBlockIs
<1>6. buf.logs \subseteq Block /\ db.logs \subseteq Block /\ db.traces \subseteq Block
  BY DEF TypeInv, Buffers, Tables
<1>7. first \in b.logs
  <2>1. b.logs \subseteq Nat /\ b.logs # {}
    BY <1>3, <1>5, <1>6, Ranges, SMTT(30)
  <2> HIDE DEF b
  <2> QED BY <2>1, LeastNat
<1>8. Appendable(db, first)
  <2>1. CASE first \in buf.logs
    BY <2>1 DEF RowsInv
  <2>2. CASE first = n
    <3>1. \A m \in Block : m >= n => ~HasRows(db.accountCS, db.storageCS, m)
      BY <1>3, Ranges DEF RowsInv
    <3>2. \A m \in db.logs : m < n
      BY <1>3, <1>6, Ranges DEF RowsInv
    <3> HIDE DEF n, first
    <3> QED BY <2>2, <3>1, <3>2 DEF Appendable
  <2> QED BY <1>5, <1>7, <2>1, <2>2
<1>9. ~ \E m \in db.traces : m >= n
  BY <1>3, <1>6, Ranges DEF RowsInv
<1> HIDE DEF first
<1>10. Executed(n, o, b, flush, end, exit)
  <2> HIDE DEF b, n
  <2>1. /\ n = target => end
        /\ cur' = n
        /\ world' = [m \in 0..n |-> IF m = n THEN Apply(world[cur], o) ELSE world[m]]
        /\ failed' = "no"
        /\ db' = IF end THEN WriteToDb(Traced(n), b)
                 ELSE IF flush THEN WriteHistory(Traced(n), b) ELSE Traced(n)
        /\ buf' = IF end THEN EmptyBuffer ELSE IF flush THEN HistoryTaken(b) ELSE b
        /\ progress' = IF end THEN [progress EXCEPT !.exec = n] ELSE progress
        /\ stage' = IF end /\ (n = target \/ exit) THEN "HashState" ELSE stage
    BY <1>11, <1>8, <1>9, Zenon DEF n, b, first, o, Traced
  <2>2. n = cur + 1 /\ b = WriteBlock(n, o)
    BY DEF n, b
  <2> QED BY <1>2, <1>3, <1>4, <2>1, <2>2 DEF Executed
<1>12. \E p, q : Executed(n, p, q, flush, end, exit)
  BY <1>10
<1> HIDE DEF n
<1> QED BY <1>3, <1>12

\* The tables and the buffer after a block: the history, its rows, and the state.
TablesAfter(n) ==
  /\ db' \in Tables /\ buf' \in Buffers
  /\ db'.hashedAccount = db.hashedAccount /\ db'.hashedStorage = db.hashedStorage
  /\ db'.trieAccount = db.trieAccount /\ db'.trieStorage = db.trieStorage
  /\ db'.traces = db.traces \cup {n}
  /\ \/ /\ db'.logs = db.logs \cup buf.logs \cup {n} /\ buf'.logs = {}
     \/ /\ db'.logs = db.logs /\ buf'.logs = buf.logs \cup {n}
        /\ db'.accountCS = db.accountCS /\ db'.storageCS = db.storageCS
AccountRowAfter(b, m, a) ==
  /\ db'.accountCS[m][a] \in {b.accountChanges[m][a], db.accountCS[m][a]}
  /\ buf'.accountChanges[m][a] \in {b.accountChanges[m][a], Unset}
  /\ AccountRow(m, a)' = IF b.accountChanges[m][a] # Unset
                         THEN b.accountChanges[m][a] ELSE db.accountCS[m][a]
StorageRowAfter(b, m, a, s) ==
  /\ db'.storageCS[m][a][s] \in {b.storageChanges[m][a][s], db.storageCS[m][a][s]}
  /\ buf'.storageChanges[m][a][s] \in {b.storageChanges[m][a][s], Unset}
  /\ StorageRow(m, a, s)' = IF b.storageChanges[m][a][s] # Unset
                            THEN b.storageChanges[m][a][s]
                            ELSE db.storageCS[m][a][s]
RowsAfter(b) ==
  \A m \in Block, a \in Addr :
    /\ AccountRowAfter(b, m, a)
    /\ \A s \in Slot : StorageRowAfter(b, m, a, s)
StateAfter(b, end) ==
  /\ ~end => /\ db'.account = db.account /\ db'.storage = db.storage
             /\ buf'.accounts = b.accounts /\ buf'.erased = b.erased
             /\ buf'.slots = b.slots
  /\ end => /\ buf' = EmptyBuffer
            /\ \A a \in Addr :
                 /\ db'.account[a] = IF b.accounts[a] # Unset THEN b.accounts[a]
                                     ELSE db.account[a]
                 /\ \A s \in Slot :
                      db'.storage[a][s] = IF b.slots[a][s] # Unset THEN b.slots[a][s]
                                          ELSE IF b.erased[a] THEN None
                                          ELSE db.storage[a][s]

\* What the tables and the buffer hold after a block.
LEMMA ExecutedIs ==
  ASSUME BaseInv, NEW n \in Block, NEW flush \in BOOLEAN, NEW end \in BOOLEAN,
         NEW exit \in BOOLEAN, NEW o, NEW b, Executed(n, o, b, flush, end, exit)
  PROVE  TablesAfter(n) /\ RowsAfter(b) /\ StateAfter(b, end)
<1> DEFINE t == Traced(n)
<1>1. /\ db \in Tables /\ IsBlock(o) /\ b = WriteBlock(n, o) /\ TypeInv
      /\ db' = IF end THEN WriteToDb(t, b) ELSE IF flush THEN WriteHistory(t, b) ELSE t
      /\ buf' = IF end THEN EmptyBuffer ELSE IF flush THEN HistoryTaken(b) ELSE b
  BY DEF Executed, BaseInv, TypeInv
<1>2. /\ t \in Tables /\ t.traces = db.traces \cup {n} /\ t.logs = db.logs
      /\ t.account = db.account /\ t.storage = db.storage
      /\ t.accountCS = db.accountCS /\ t.storageCS = db.storageCS
      /\ t.hashedAccount = db.hashedAccount /\ t.hashedStorage = db.hashedStorage
      /\ t.trieAccount = db.trieAccount /\ t.trieStorage = db.trieStorage
  BY <1>1 DEF Traced, Tables
<1>3. b \in Buffers /\ b.logs = buf.logs \cup {n}
  BY <1>1, WriteBlockIs
<1> HIDE DEF t
<1>4. \A m \in Block, a \in Addr :
        /\ NoAccountChanges[m][a] = Unset
        /\ \A s \in Slot : NoStorageChanges[m][a][s] = Unset
  BY DEF NoAccountChanges, NoStorageChanges
<1>5. /\ EmptyBuffer \in Buffers /\ EmptyBuffer.logs = {}
      /\ EmptyBuffer.accountChanges = NoAccountChanges
      /\ EmptyBuffer.storageChanges = NoStorageChanges
  BY EmptyTypes DEF EmptyBuffer
<1>6. CASE end
  <2>1. db' = WriteToDb(t, b) /\ buf' = EmptyBuffer
    BY <1>1, <1>6
  <2> DEFINE h == WriteHistory(t, b)
  <2>2. /\ db' \in Tables
        /\ db'.accountCS = h.accountCS /\ db'.storageCS = h.storageCS
        /\ db'.traces = t.traces /\ db'.logs = t.logs \cup b.logs
        /\ db'.hashedAccount = t.hashedAccount /\ db'.hashedStorage = t.hashedStorage
        /\ db'.trieAccount = t.trieAccount /\ db'.trieStorage = t.trieStorage
        /\ \A a \in Addr :
              /\ db'.account[a] = IF b.accounts[a] # Unset THEN b.accounts[a] ELSE t.account[a]
              /\ \A s \in Slot : db'.storage[a][s] = IF b.slots[a][s] # Unset THEN b.slots[a][s]
                                                   ELSE IF b.erased[a] THEN None
                                                   ELSE t.storage[a][s]
    BY <1>2, <1>3, <2>1, WriteToDbIs
  <2>3. \A m \in Block, a \in Addr :
          /\ h.accountCS[m][a] = IF b.accountChanges[m][a] # Unset
                                 THEN b.accountChanges[m][a] ELSE t.accountCS[m][a]
          /\ \A s \in Slot :
               h.storageCS[m][a][s] = IF b.storageChanges[m][a][s] # Unset
                                      THEN b.storageChanges[m][a][s]
                                      ELSE t.storageCS[m][a][s]
    BY <1>2, <1>3, WriteHistoryIs
  <2> HIDE DEF h
  <2>4. TablesAfter(n)
    BY <1>2, <1>3, <1>5, <2>1, <2>2, SMTT(30) DEF TablesAfter
  <2>5. RowsAfter(b)
    <3>1. \A m \in Block, a \in Addr :
            /\ buf'.accountChanges[m][a] = Unset
            /\ db'.accountCS[m][a] = IF b.accountChanges[m][a] # Unset
                                     THEN b.accountChanges[m][a] ELSE db.accountCS[m][a]
            /\ \A s \in Slot :
                 /\ buf'.storageChanges[m][a][s] = Unset
                 /\ db'.storageCS[m][a][s] = IF b.storageChanges[m][a][s] # Unset
                                             THEN b.storageChanges[m][a][s]
                                             ELSE db.storageCS[m][a][s]
      BY <1>2, <1>4, <1>5, <2>1, <2>2, <2>3
    <3>2. ASSUME NEW m \in Block, NEW a \in Addr
          PROVE  AccountRowAfter(b, m, a)
      BY <3>1 DEF AccountRowAfter, AccountRow
    <3>3. ASSUME NEW m \in Block, NEW a \in Addr, NEW s \in Slot
          PROVE  StorageRowAfter(b, m, a, s)
      BY <3>1 DEF StorageRowAfter, StorageRow
    <3> QED BY <3>2, <3>3 DEF RowsAfter
  <2>6. StateAfter(b, end)
    BY <1>2, <1>6, <2>1, <2>2, SMTT(30) DEF StateAfter
  <2> QED BY <2>4, <2>5, <2>6
<1>7. CASE ~end /\ flush
  <2>1. db' = WriteHistory(t, b) /\ buf' = HistoryTaken(b)
    BY <1>1, <1>7
  <2>2. /\ db' \in Tables
        /\ db'.account = t.account /\ db'.storage = t.storage /\ db'.traces = t.traces
        /\ db'.hashedAccount = t.hashedAccount /\ db'.hashedStorage = t.hashedStorage
        /\ db'.trieAccount = t.trieAccount /\ db'.trieStorage = t.trieStorage
        /\ db'.logs = t.logs \cup b.logs
        /\ \A m \in Block, a \in Addr :
             /\ db'.accountCS[m][a] = IF b.accountChanges[m][a] # Unset
                                     THEN b.accountChanges[m][a] ELSE t.accountCS[m][a]
             /\ \A s \in Slot :
                  db'.storageCS[m][a][s] = IF b.storageChanges[m][a][s] # Unset
                                          THEN b.storageChanges[m][a][s]
                                          ELSE t.storageCS[m][a][s]
    <3>1. t \in Tables /\ b \in Buffers
      BY <1>2, <1>3
    <3> QED BY <2>1, <3>1, WriteHistoryIs
  <2>3. /\ buf' \in Buffers
        /\ buf'.accounts = b.accounts /\ buf'.erased = b.erased /\ buf'.slots = b.slots
        /\ buf'.accountChanges = NoAccountChanges /\ buf'.storageChanges = NoStorageChanges
        /\ buf'.logs = {}
    BY <1>3, <2>1, HistoryTakenIs
  <2>4. TablesAfter(n)
    BY <1>2, <1>3, <2>2, <2>3, SMTT(30) DEF TablesAfter
  <2>5. RowsAfter(b)
    <3>1. \A m \in Block, a \in Addr :
            /\ buf'.accountChanges[m][a] = Unset
            /\ db'.accountCS[m][a] = IF b.accountChanges[m][a] # Unset
                                     THEN b.accountChanges[m][a] ELSE db.accountCS[m][a]
            /\ \A s \in Slot :
                 /\ buf'.storageChanges[m][a][s] = Unset
                 /\ db'.storageCS[m][a][s] = IF b.storageChanges[m][a][s] # Unset
                                             THEN b.storageChanges[m][a][s]
                                             ELSE db.storageCS[m][a][s]
      BY <1>2, <1>4, <2>2, <2>3
    <3>2. ASSUME NEW m \in Block, NEW a \in Addr
          PROVE  AccountRowAfter(b, m, a)
      BY <3>1 DEF AccountRowAfter, AccountRow
    <3>3. ASSUME NEW m \in Block, NEW a \in Addr, NEW s \in Slot
          PROVE  StorageRowAfter(b, m, a, s)
      BY <3>1 DEF StorageRowAfter, StorageRow
    <3> QED BY <3>2, <3>3 DEF RowsAfter
  <2>6. StateAfter(b, end)
    BY <1>2, <1>7, <2>2, <2>3, SMTT(30) DEF StateAfter
  <2> QED BY <2>4, <2>5, <2>6
<1>8. CASE ~end /\ ~flush
  <2>1. db' = t /\ buf' = b
    BY <1>1, <1>8
  <2>2. TablesAfter(n)
    BY <1>2, <1>3, <2>1, SMTT(30) DEF TablesAfter
  <2>3. RowsAfter(b)
    BY <1>2, <1>3, <1>8, <2>1, SMTT(30)
    DEF RowsAfter, AccountRowAfter, StorageRowAfter, AccountRow, StorageRow
  <2>4. StateAfter(b, end)
    BY <1>2, <1>8, <2>1, SMTT(30) DEF StateAfter
  <2> QED BY <2>2, <2>3, <2>4
<1> QED BY <1>6, <1>7, <1>8

\* Applying a block keeps the type of the ghost.
LEMMA ApplyIs ==
  ASSUME TypeInv, NEW o, IsBlock(o), NEW w \in Worlds
  PROVE  /\ Apply(w, o) \in Worlds
         /\ \A c \in Addr : o[c] = Untouched =>
              /\ Apply(w, o).account[c] = w.account[c]
              /\ Apply(w, o).storage[c] = w.storage[c]
         /\ \A c \in Addr : o[c] # Untouched =>
              /\ Apply(w, o).account[c] = o[c].current
              /\ \A s \in Slot :
                   Apply(w, o).storage[c][s] = IF o[c].write[s] # Unset THEN o[c].write[s]
                                               ELSE IF o[c].inc THEN None ELSE w.storage[c][s]
<1> DEFINE acc == [a \in Addr |-> IF o[a].kind = "object" THEN o[a].current ELSE w.account[a]]
           sto == [a \in Addr |-> [s \in Slot |->
                     IF o[a].kind = "none" THEN w.storage[a][s]
                     ELSE IF o[a].write[s] # Unset THEN o[a].write[s]
                     ELSE IF o[a].inc THEN None ELSE w.storage[a][s]]]
<1>1. \A c \in Addr : \/ o[c] = Untouched /\ o[c].kind = "none"
                      \/ /\ o[c].kind = "object" /\ o[c] # Untouched
                         /\ o[c].current \in Content /\ o[c].write \in [Slot -> Entry]
  BY DEF IsBlock, Untouched, IsObject
<1>2. w.account \in Accounts /\ w.storage \in Storages
  BY DEF Worlds
<1>3. acc \in Accounts
  BY <1>1, <1>2 DEF Accounts
<1>4. sto \in Storages
  <2>1. ASSUME NEW a \in Addr, NEW s \in Slot PROVE sto[a][s] \in Content
    <3>1. w.storage[a][s] \in Content
      BY <1>2 DEF Storages
    <3> QED BY <1>1, <3>1, Contents
  <2> QED BY <2>1 DEF Storages
<1>5. Apply(w, o) = [account |-> acc, storage |-> sto]
  BY DEF Apply
<1>6. \A c \in Addr : o[c] = Untouched => acc[c] = w.account[c] /\ sto[c] = w.storage[c]
  <2> SUFFICES ASSUME NEW c \in Addr, o[c] = Untouched
               PROVE  acc[c] = w.account[c] /\ sto[c] = w.storage[c]
    OBVIOUS
  <2>1. o[c].kind = "none"
    BY <1>1
  <2>2. sto[c] = [s \in Slot |-> w.storage[c][s]]
    BY <2>1
  <2>3. w.storage[c] \in [Slot -> Content]
    BY <1>2 DEF Storages
  <2> QED BY <2>1, <2>2, <2>3
<1>7. \A c \in Addr : o[c] # Untouched =>
        /\ acc[c] = o[c].current
        /\ \A s \in Slot : sto[c][s] = IF o[c].write[s] # Unset THEN o[c].write[s]
                                       ELSE IF o[c].inc THEN None ELSE w.storage[c][s]
  BY <1>1
<1> HIDE DEF acc, sto
<1> QED BY <1>3, <1>4, <1>5, <1>6, <1>7 DEF Worlds

-----------------------------------------------------------------------------
(* Accounts put back from the change set *)

IsRank(rank) == /\ rank \in [Addr -> Addr]
                /\ \A a, b \in Addr : rank[a] = rank[b] => a = b

\* Both orders are one to one.
LEMMA RanksAre == IsRank(HashRank) /\ IsRank(AddressRank)
BY HashRankAssumption DEF IsRank, AddressRank

\* seek finds the row it is meant for if that is there.
LEMMA SeekDeleteIs ==
  ASSUME NEW t \in Accounts, NEW rank, IsRank(rank), NEW a \in Addr
  PROVE  /\ SeekDelete(t, rank, a) \in Accounts
         /\ t[a] # None \/ NAddr = 1 => SeekDelete(t, rank, a) = [t EXCEPT ![a] = None]
<1> DEFINE from == {b \in Addr : rank[b] >= rank[a] /\ t[b] # None}
           u == [b \in Addr |-> IF b \in from /\ \A c \in from : rank[b] <= rank[c]
                                THEN None ELSE t[b]]
<1>1. SeekDelete(t, rank, a) = u
  BY DEF SeekDelete
<1>2. u \in Accounts
  <2> HIDE DEF from
  <2> QED BY Contents DEF Accounts
<1>3. \A b \in Addr : rank[b] \in Nat
  BY Ranges DEF IsRank
<1>4. ASSUME t[a] # None, NEW b \in Addr PROVE u[b] = IF b = a THEN None ELSE t[b]
  <2>1. a \in from
    BY <1>3, <1>4
  <2>2. CASE b = a
    <3>1. \A c \in from : rank[b] <= rank[c]
      BY <1>3, <2>2
    <3> HIDE DEF from
    <3> QED BY <2>1, <2>2, <3>1
  <2>3. CASE b # a
    <3>1. b \in from => ~(rank[b] <= rank[a])
      <4>1. rank[b] # rank[a]
        BY <2>3 DEF IsRank
      <4> QED BY <1>3, <4>1
    <3> HIDE DEF from
    <3> QED BY <2>1, <2>3, <3>1
  <2> QED BY <2>2, <2>3
<1>5. ASSUME t[a] = None, NAddr = 1, NEW b \in Addr PROVE u[b] = IF b = a THEN None ELSE t[b]
  <2>1. b = a
    BY <1>5, Ranges
  <2> QED BY <1>5, <2>1
<1> HIDE DEF u
<1>6. t[a] # None \/ NAddr = 1 => u = [t EXCEPT ![a] = None]
  BY <1>2, <1>4, <1>5 DEF Accounts
<1> QED BY <1>1, <1>2, <1>6

\* A row that is put back, if the account it deletes is there.
LEMMA PutBackIs ==
  ASSUME TypeInv, NEW t \in Accounts, NEW rank, IsRank(rank), NEW n \in Block, NEW a \in Addr
  PROVE  /\ PutBack(t, rank, n, a) \in Accounts
         /\ (db.accountCS[n][a] # None \/ t[a] # None \/ NAddr = 1) =>
              PutBack(t, rank, n, a) = IF db.accountCS[n][a] = Unset THEN t
                                       ELSE [t EXCEPT ![a] = db.accountCS[n][a]]
<1> DEFINE v == db.accountCS[n][a]
<1>1. v \in Entry
  BY DEF TypeInv, Tables, AccountEntries
<1> HIDE DEF v
<1>2. PutBack(t, rank, n, a) = IF v = Unset THEN t
                               ELSE IF v = None THEN SeekDelete(t, rank, a)
                               ELSE [t EXCEPT ![a] = v]
  BY DEF PutBack, v
<1>3. v # Unset => [t EXCEPT ![a] = v] \in Accounts
  BY <1>1, Contents DEF Accounts
<1> QED BY <1>2, <1>3, SeekDeleteIs, Contents DEF v

\* The rows of a block are put back one by one, and none is in the way of another.
LEMMA PutBackBlockIs ==
  ASSUME TypeInv, NEW t \in Accounts, NEW rank, IsRank(rank), NEW n \in Block
  PROVE  /\ PutBackBlock(t, rank, n) \in Accounts
         /\ (\A a \in Addr : db.accountCS[n][a] # None \/ t[a] # None \/ NAddr = 1) =>
              PutBackBlock(t, rank, n) =
                [a \in Addr |-> IF db.accountCS[n][a] = Unset THEN t[a] ELSE db.accountCS[n][a]]
<1> DEFINE step == [p \in (1..NAddr) \X Accounts |-> PutBack(p[2], rank, n, NAddr + 1 - p[1])]
           Eq(f) == f = [k \in 0..NAddr |-> IF k = 0 THEN t
                                            ELSE PutBack(f[k - 1], rank, n, NAddr + 1 - k)]
           walk == CHOOSE f : Eq(f)
           row == [a \in Addr |-> db.accountCS[n][a]]
<1>1. \A k \in 1..NAddr : NAddr + 1 - k \in Addr
  BY Ranges
<1>2. \A k \in 1..NAddr, v \in Accounts :
        step[<<k, v>>] = PutBack(v, rank, n, NAddr + 1 - k) /\ step[<<k, v>>] \in Accounts
  BY <1>1, PutBackIs
<1> HIDE DEF step
<1>3. PICK f \in [0..NAddr -> Accounts] : Recursion(f, NAddr, t, step)
  <2>1. NAddr \in Nat /\ \A k \in 1..NAddr, v \in Accounts : step[<<k, v>>] \in Accounts
    BY <1>2, Ranges
  <2> QED BY <2>1, CountRecursion
<1>4. Eq(f)
  <2>1. \A k \in 0..NAddr : f[k] = IF k = 0 THEN t ELSE PutBack(f[k - 1], rank, n, NAddr + 1 - k)
    <3> SUFFICES ASSUME NEW k \in 0..NAddr
                 PROVE  f[k] = IF k = 0 THEN t ELSE PutBack(f[k - 1], rank, n, NAddr + 1 - k)
      OBVIOUS
    <3>1. f[k] = IF k = 0 THEN t ELSE step[<<k, f[k - 1]>>]
      BY <1>3, Zenon DEF Recursion
    <3>2. k # 0 => k \in 1..NAddr /\ k - 1 \in 0..NAddr
      BY Ranges
    <3>3. k # 0 => f[k - 1] \in Accounts
      BY <1>3, <3>2
    <3> QED BY <1>2, <3>1, <3>2, <3>3
  <2>2. f = [k \in 0..NAddr |-> f[k]]
    BY <1>3
  <2> QED BY <2>1, <2>2
<1>5. Eq(walk)
  <2> HIDE DEF Eq
  <2> QED BY <1>4
<1>6. PutBackBlock(t, rank, n) = walk[NAddr]
  BY DEF PutBackBlock
<1> HIDE DEF walk
<1>7. /\ walk[0] = t
      /\ \A k \in 1..NAddr : walk[k] = PutBack(walk[k - 1], rank, n, NAddr + 1 - k)
  <2>1. ASSUME NEW k \in 0..NAddr
        PROVE  walk[k] = IF k = 0 THEN t ELSE PutBack(walk[k - 1], rank, n, NAddr + 1 - k)
    BY <1>5, Zenon
  <2>2. 0 \in 0..NAddr /\ \A k \in 1..NAddr : k \in 0..NAddr /\ k # 0
    BY Ranges
  <2> HIDE DEF Eq
  <2> QED BY <2>1, <2>2
<1> HIDE DEF Eq
<1>8. \A k \in 0..NAddr : walk[k] \in Accounts
  <2> DEFINE T == {k \in 0..NAddr : walk[k] \notin Accounts}
  <2> SUFFICES ASSUME T # {} PROVE FALSE
    OBVIOUS
  <2>1. PICK k \in T : \A j \in T : k <= j
    BY LeastNat, T \subseteq Nat, Ranges
  <2>2. k \in 1..NAddr /\ k - 1 \in 0..NAddr /\ k - 1 \notin T
    BY <1>7, <2>1, Ranges
  <2> QED BY <1>1, <1>7, <2>1, <2>2, PutBackIs
<1>9. ASSUME \A a \in Addr : row[a] # None \/ t[a] # None \/ NAddr = 1
      PROVE  \A k \in 0..NAddr, a \in Addr :
               walk[k][a] = IF a > NAddr - k /\ row[a] # Unset THEN row[a] ELSE t[a]
  <2> DEFINE P(k) == \A a \in Addr :
                       walk[k][a] = IF a > NAddr - k /\ row[a] # Unset THEN row[a] ELSE t[a]
             T == {k \in 0..NAddr : ~P(k)}
  <2> SUFFICES ASSUME T # {} PROVE FALSE
    OBVIOUS
  <2>1. PICK k \in T : \A j \in T : k <= j
    BY LeastNat, T \subseteq Nat, Ranges
  <2>2. P(0)
    <3>1. \A a \in Addr : ~(a > NAddr - 0)
      BY Ranges
    <3> QED BY <1>7, <3>1
  <2>3. k \in 1..NAddr /\ k - 1 \in 0..NAddr /\ P(k - 1)
    <3>1. k # 0
      BY <2>1, <2>2
    <3>2. k \in 1..NAddr /\ k - 1 \in 0..NAddr /\ ~(k <= k - 1)
      BY <2>1, <3>1, Ranges
    <3> HIDE DEF P
    <3> QED BY <2>1, <3>2
  <2> DEFINE c == NAddr + 1 - k
  <2>4. c \in Addr /\ walk[k - 1] \in Accounts
    BY <1>1, <1>8, <2>3
  <2>5. walk[k - 1][c] = t[c]
    <3>1. ~(c > NAddr - (k - 1))
      BY <2>3, Ranges
    <3> QED BY <2>3, <2>4, <3>1
  <2>6. walk[k] = IF row[c] = Unset THEN walk[k - 1] ELSE [walk[k - 1] EXCEPT ![c] = row[c]]
    <3>1. row[c] = db.accountCS[n][c]
      BY <2>4
    <3>2. row[c] # None \/ t[c] # None \/ NAddr = 1
      BY <1>9, <2>4
    <3>3. walk[k] = PutBack(walk[k - 1], rank, n, c)
      BY <1>7, <2>3
    <3> HIDE DEF row, c
    <3> QED BY <2>4, <2>5, <3>1, <3>2, <3>3, PutBackIs, SMTT(30)
  <2>7. P(k)
    <3> SUFFICES ASSUME NEW a \in Addr
                 PROVE  walk[k][a] = IF a > NAddr - k /\ row[a] # Unset THEN row[a] ELSE t[a]
      OBVIOUS
    <3>1. (a > NAddr - k) <=> (a = c \/ a > NAddr - (k - 1))
      BY <2>3, Ranges
    <3>2. a = c => ~(a > NAddr - (k - 1))
      BY <2>3, Ranges
    <3>3. walk[k - 1][a] = IF a > NAddr - (k - 1) /\ row[a] # Unset THEN row[a] ELSE t[a]
      BY <2>3
    <3> HIDE DEF row, c
    <3> QED BY <2>4, <2>6, <3>1, <3>2, <3>3 DEF Accounts
  <2> QED BY <2>1, <2>7
<1>10. ASSUME \A a \in Addr : row[a] # None \/ t[a] # None \/ NAddr = 1
       PROVE  walk[NAddr] = [a \in Addr |-> IF row[a] = Unset THEN t[a] ELSE row[a]]
  <2>1. NAddr \in 0..NAddr /\ \A a \in Addr : a > NAddr - NAddr
    BY Ranges
  <2>2. walk[NAddr] \in Accounts
    BY <1>8, <2>1
  <2>3. \A a \in Addr : walk[NAddr][a] = IF row[a] # Unset THEN row[a] ELSE t[a]
    BY <1>9, <1>10, <2>1
  <2> HIDE DEF row
  <2> QED BY <2>2, <2>3 DEF Accounts
<1> QED BY <1>6, <1>8, <1>10, Ranges

\* RowsExact once the buffer has been written: the rows are all in the tables,
\* and there is none above the last executed block.
Backward ==
  /\ \A m \in 1..cur, a \in Addr :
       /\ db.accountCS[m][a] \in {world[m - 1].account[a], Unset}
       /\ db.accountCS[m][a] = Unset => world[m].account[a] = world[m - 1].account[a]
       /\ db.accountCS[m][a] = None => world[m].account[a] # None \/ NAddr = 1
       /\ \A s \in Slot :
            /\ db.storageCS[m][a][s] \in {world[m - 1].storage[a][s], Unset}
            /\ db.storageCS[m][a][s] = Unset =>
                 world[m].storage[a][s] = world[m - 1].storage[a][s]
  /\ \A m \in Block, a \in Addr : m > cur =>
       db.accountCS[m][a] = Unset /\ \A s \in Slot : db.storageCS[m][a][s] = Unset

\* Without a row, nothing changes.
LEMMA SameAccount ==
  ASSUME TypeInv, Backward, NEW a \in Addr, NEW lo \in 0..cur, NEW hi \in lo..cur,
         \A m \in lo + 1..hi : db.accountCS[m][a] = Unset, NEW n \in lo..hi
  PROVE  world[n].account[a] = world[lo].account[a]
<1> DEFINE e == [k \in 0..cur |-> world[k].account[a]]
<1>1. cur \in Nat /\ lo \in Nat /\ hi \in Nat
  BY Ranges DEF TypeInv
<1>2. \A k \in lo + 1..hi : e[k] = e[k - 1]
  <2> SUFFICES ASSUME NEW k \in lo + 1..hi PROVE e[k] = e[k - 1]
    OBVIOUS
  <2>1. k \in 1..cur /\ k \in 0..cur /\ k - 1 \in 0..cur
    BY <1>1
  <2>2. world[k].account[a] = world[k - 1].account[a]
    BY <2>1 DEF Backward
  <2> QED BY <2>1, <2>2
<1>3. lo \in 0..cur /\ n \in 0..cur
  BY <1>1
<1>4. e[n] = world[n].account[a] /\ e[lo] = world[lo].account[a]
  BY <1>3
<1> HIDE DEF e
<1>5. e[n] = e[lo]
  BY <1>1, <1>2, Constant
<1> QED BY <1>4, <1>5

\* The same for a slot.
LEMMA SameStorage ==
  ASSUME TypeInv, Backward, NEW a \in Addr, NEW s \in Slot, NEW lo \in 0..cur, NEW hi \in lo..cur,
         \A m \in lo + 1..hi : db.storageCS[m][a][s] = Unset, NEW n \in lo..hi
  PROVE  world[n].storage[a][s] = world[lo].storage[a][s]
<1> DEFINE e == [k \in 0..cur |-> world[k].storage[a][s]]
<1>1. cur \in Nat /\ lo \in Nat /\ hi \in Nat
  BY Ranges DEF TypeInv
<1>2. \A k \in lo + 1..hi : e[k] = e[k - 1]
  <2> SUFFICES ASSUME NEW k \in lo + 1..hi PROVE e[k] = e[k - 1]
    OBVIOUS
  <2>1. k \in 1..cur /\ k \in 0..cur /\ k - 1 \in 0..cur
    BY <1>1
  <2>2. world[k].storage[a][s] = world[k - 1].storage[a][s]
    BY <2>1 DEF Backward
  <2> QED BY <2>1, <2>2
<1>3. lo \in 0..cur /\ n \in 0..cur
  BY <1>1
<1>4. e[n] = world[n].storage[a][s] /\ e[lo] = world[lo].storage[a][s]
  BY <1>3
<1> HIDE DEF e
<1>5. e[n] = e[lo]
  BY <1>1, <1>2, Constant
<1> QED BY <1>4, <1>5

\* Walking back from the last row, every account is put back as it was after
\* block `to`, if the table was that of the last block, or has one row only.
LEMMA UnwindAccountsIs ==
  ASSUME TypeInv, NEW t \in Accounts, NEW rank, IsRank(rank), NEW to \in 0..cur
  PROVE  /\ UnwindAccounts(t, rank, to) \in Accounts
         /\ \A h \in to..cur :
              Backward /\ (h = cur \/ NAddr = 1) /\ t = world[h].account =>
                UnwindAccounts(t, rank, to) = world[to].account
<1> DEFINE K == MaxBlock - to
           step == [p \in (1..K) \X Accounts |-> PutBackBlock(p[2], rank, MaxBlock + 1 - p[1])]
           Eq(f) == f = [k \in 0..(MaxBlock - to) |->
                           IF k = 0 THEN t ELSE PutBackBlock(f[k - 1], rank, MaxBlock + 1 - k)]
           walk == CHOOSE f : Eq(f)
<1>0. K \in Nat /\ cur \in Nat /\ to \in Nat /\ cur <= MaxBlock /\ to <= cur /\ MaxBlock \in Nat
  BY Ranges DEF TypeInv
<1>1. \A k \in 1..K : MaxBlock + 1 - k \in Block
  BY <1>0, Ranges
<1>2. \A k \in 1..K, v \in Accounts :
        step[<<k, v>>] = PutBackBlock(v, rank, MaxBlock + 1 - k) /\ step[<<k, v>>] \in Accounts
  BY <1>1, PutBackBlockIs
<1> HIDE DEF step
<1>3. PICK f \in [0..K -> Accounts] : Recursion(f, K, t, step)
  <2>1. K \in Nat /\ \A k \in 1..K, v \in Accounts : step[<<k, v>>] \in Accounts
    BY <1>0, <1>2
  <2> HIDE DEF K
  <2> QED BY <2>1, CountRecursion
<1>4. Eq(f)
  <2>1. \A k \in 0..K : f[k] = IF k = 0 THEN t ELSE PutBackBlock(f[k - 1], rank, MaxBlock + 1 - k)
    <3> SUFFICES ASSUME NEW k \in 0..K
                 PROVE  f[k] = IF k = 0 THEN t ELSE PutBackBlock(f[k - 1], rank, MaxBlock + 1 - k)
      OBVIOUS
    <3>1. f[k] = IF k = 0 THEN t ELSE step[<<k, f[k - 1]>>]
      BY <1>3, Zenon DEF Recursion
    <3>2. k # 0 => k \in 1..K /\ k - 1 \in 0..K
      BY <1>0
    <3>3. k # 0 => f[k - 1] \in Accounts
      BY <1>3, <3>2
    <3> QED BY <1>2, <3>1, <3>2, <3>3
  <2>2. f = [k \in 0..K |-> f[k]]
    BY <1>3
  <2> QED BY <2>1, <2>2
<1>5. Eq(walk)
  <2> HIDE DEF Eq
  <2> QED BY <1>4
<1>6. UnwindAccounts(t, rank, to) = walk[K]
  BY DEF UnwindAccounts
<1> HIDE DEF walk
<1>7. /\ walk[0] = t
      /\ \A k \in 1..K : walk[k] = PutBackBlock(walk[k - 1], rank, MaxBlock + 1 - k)
  <2>1. ASSUME NEW k \in 0..K
        PROVE  walk[k] = IF k = 0 THEN t ELSE PutBackBlock(walk[k - 1], rank, MaxBlock + 1 - k)
    BY <1>5, Zenon
  <2>2. 0 \in 0..K /\ \A k \in 1..K : k \in 0..K /\ k # 0
    BY <1>0
  <2> HIDE DEF Eq, K
  <2> QED BY <2>1, <2>2
<1> HIDE DEF Eq
<1>8. \A k \in 0..K : walk[k] \in Accounts
  <2> DEFINE T == {k \in 0..K : walk[k] \notin Accounts}
  <2> SUFFICES ASSUME T # {} PROVE FALSE
    OBVIOUS
  <2>1. PICK k \in T : \A j \in T : k <= j
    BY LeastNat, T \subseteq Nat, <1>0
  <2>2. k \in 1..K /\ k - 1 \in 0..K /\ k - 1 \notin T
    BY <1>0, <1>7, <2>1
  <2> QED BY <1>1, <1>7, <2>1, <2>2, PutBackBlockIs
<1>9. ASSUME NEW h \in to..cur, Backward, h = cur \/ NAddr = 1, t = world[h].account
      PROVE  walk[K] = world[to].account
  <2> DEFINE row(m, a) == db.accountCS[m][a]
             Seen(n, a) == \E m \in n..cur : row(m, a) # Unset
             P(k) == \A a \in Addr :
                       walk[k][a] = IF Seen(MaxBlock + 1 - k, a)
                                    THEN world[MaxBlock - k].account[a] ELSE t[a]
             T == {k \in 0..K : ~P(k)}
  <2>1. P(0)
    <3>1. \A a \in Addr : ~Seen(MaxBlock + 1 - 0, a)
      BY <1>0
    <3> QED BY <1>7, <3>1
  <2>2. ASSUME NEW k \in 1..K, P(k - 1) PROVE P(k)
    <3> DEFINE n == MaxBlock + 1 - k
               before == walk[k - 1]
    <3>1. /\ n \in Block /\ n \in Nat /\ n > to /\ MaxBlock - k = n - 1
          /\ MaxBlock - (k - 1) = n /\ MaxBlock + 1 - (k - 1) = n + 1
          /\ k - 1 \in 0..K
      BY <1>0, Ranges
    <3>2. \A a \in Addr : before[a] = IF Seen(n + 1, a) THEN world[n].account[a] ELSE t[a]
      BY <2>2, <3>1
    <3>3. before \in Accounts /\ walk[k] = PutBackBlock(before, rank, n)
      BY <1>7, <1>8, <3>1
    <3> HIDE DEF n, before
    <3>4. \A a \in Addr : Seen(n, a) <=> (Seen(n + 1, a) \/ (n <= cur /\ row(n, a) # Unset))
      <4> SUFFICES ASSUME NEW a \in Addr
                   PROVE  Seen(n, a) <=> (Seen(n + 1, a) \/ (n <= cur /\ row(n, a) # Unset))
        OBVIOUS
      <4>1. \A m \in n..cur : m = n \/ m \in n + 1..cur
        BY <1>0, <3>1
      <4>2. \A m \in n + 1..cur : m \in n..cur
        BY <1>0, <3>1
      <4>3. n <= cur => n \in n..cur
        BY <1>0, <3>1
      <4>4. (\E m \in n..cur : m = n) => n <= cur
        BY <1>0, <3>1
      <4> HIDE DEF row
      <4> QED BY <4>1, <4>2, <4>3, <4>4
    <3>5. CASE n > cur
      <4>1. \A a \in Addr : row(n, a) = Unset /\ row(n, a) # None
        BY <1>9, <3>1, <3>5, Contents DEF Backward
      <4>2. walk[k] = [a \in Addr |-> before[a]]
        BY <3>1, <3>3, <4>1, PutBackBlockIs
      <4>3. \A a \in Addr : ~Seen(n, a) /\ ~Seen(n + 1, a)
        <5>1. \A m \in Nat : m \notin n..cur /\ m \notin n + 1..cur
          BY <1>0, <3>1, <3>5
        <5>2. \A m : m \in n..cur \/ m \in n + 1..cur => m \in Nat
          BY <1>0, <3>1
        <5> QED BY <5>1, <5>2
      <4>4. \A a \in Addr : walk[k][a] = t[a]
        BY <3>2, <4>2, <4>3
      <4> HIDE DEF Seen
      <4> QED BY <4>3, <4>4 DEF n
    <3>6. CASE n <= cur
      <4>1. n \in 1..cur /\ n \in 0..cur
        BY <1>0, <3>1, <3>6
      <4>2. ASSUME NEW a \in Addr PROVE row(n, a) # None \/ before[a] # None \/ NAddr = 1
        <5> SUFFICES ASSUME row(n, a) = None, NAddr # 1 PROVE before[a] # None
          OBVIOUS
        <5>1. world[n].account[a] # None
          BY <1>9, <4>1 DEF Backward
        <5>2. CASE Seen(n + 1, a)
          <6> HIDE DEF Seen
          <6> QED BY <3>2, <5>1, <5>2
        <5>3. CASE ~Seen(n + 1, a)
          <6>1. before[a] = t[a]
            <7> HIDE DEF Seen
            <7> QED BY <3>2, <5>3
          <6>2. t[a] = world[cur].account[a]
            BY <1>9
          <6>3. world[cur].account[a] = world[n].account[a]
            <7>1. cur \in n..cur
              BY <1>0, <3>6
            <7> QED BY <4>1, <5>3, <7>1, <1>9, SameAccount
          <6> QED BY <5>1, <6>1, <6>2, <6>3
        <5> QED BY <5>2, <5>3
      <4>3. walk[k] = [a \in Addr |-> IF row(n, a) = Unset THEN before[a] ELSE row(n, a)]
        BY <3>1, <3>3, <4>2, PutBackBlockIs
      <4>4. ASSUME NEW a \in Addr
            PROVE  walk[k][a] = IF Seen(n, a) THEN world[n - 1].account[a] ELSE t[a]
        <5>1. walk[k][a] = IF row(n, a) = Unset THEN before[a] ELSE row(n, a)
          BY <4>3
        <5>2. /\ row(n, a) \in {world[n - 1].account[a], Unset}
              /\ row(n, a) = Unset => world[n].account[a] = world[n - 1].account[a]
          BY <4>1, <1>9 DEF Backward
        <5> HIDE DEF row, Seen
        <5> QED BY <3>2, <3>4, <3>6, <5>1, <5>2
      <4> HIDE DEF Seen
      <4> QED BY <3>1, <4>4 DEF n
    <3> QED BY <1>0, <3>1, <3>5, <3>6
  <2> HIDE DEF P
  <2>3. P(K)
    <3> SUFFICES ASSUME T # {} PROVE FALSE
      <4>1. K \in 0..K
        BY <1>0
      <4> HIDE DEF K
      <4> QED BY <4>1
    <3>1. PICK k \in T : \A j \in T : k <= j
      BY LeastNat, T \subseteq Nat, <1>0
    <3>2. k \in 1..K /\ k - 1 \in 0..K /\ ~(k <= k - 1)
      BY <1>0, <2>1, <3>1
    <3>3. P(k - 1)
      BY <3>1, <3>2
    <3> QED BY <2>2, <3>1, <3>2, <3>3
  <2>4. ASSUME NEW a \in Addr PROVE walk[K][a] = world[to].account[a]
    <3>1. MaxBlock + 1 - K = to + 1 /\ MaxBlock - K = to
      BY <1>0
    <3>2. walk[K][a] = IF Seen(to + 1, a) THEN world[to].account[a] ELSE t[a]
      <4> HIDE DEF Seen, K
      <4> QED BY <2>3, <3>1 DEF P
    <3>3. CASE ~Seen(to + 1, a)
      <4>1. to \in 0..cur /\ cur \in to..cur
        BY <1>0
      <4>2. world[h].account[a] = world[to].account[a]
        BY <1>9, <3>3, <4>1, SameAccount
      <4> HIDE DEF Seen
      <4> QED BY <1>9, <3>2, <3>3, <4>2
    <3> HIDE DEF Seen
    <3> QED BY <3>2, <3>3
  <2>5. walk[K] \in Accounts /\ world[to].account \in Accounts
    <3>1. world[to] \in Worlds /\ K \in 0..K
      BY <1>0 DEF TypeInv
    <3> HIDE DEF K
    <3> QED BY <1>8, <3>1 DEF Worlds
  <2> HIDE DEF K
  <2> QED BY <2>4, <2>5 DEF Accounts
<1>10. K \in 0..K
  BY <1>0
<1> HIDE DEF K
<1> QED BY <1>6, <1>8, <1>9, <1>10

-----------------------------------------------------------------------------
(* What the change sets say of an earlier block *)

\* The next row of an account.
LEMMA NextAccountIs ==
  ASSUME NEW a, NEW m \in 0..MaxBlock
  PROVE  /\ NextAccountChange(a, m) \in (m + 1)..(MaxBlock + 1)
         /\ NextAccountChange(a, m) = MaxBlock + 1 \/ db.accountCS[NextAccountChange(a, m)][a] # Unset
         /\ \A k \in (m + 1)..(NextAccountChange(a, m) - 1) : db.accountCS[k][a] = Unset
<1> DEFINE T == {n \in (m + 1)..(MaxBlock + 1) : n = MaxBlock + 1 \/ db.accountCS[n][a] # Unset}
<1>1. PICK n \in T : \A j \in T : n <= j
  <2>1. MaxBlock + 1 \in T
    BY Ranges
  <2>2. T \subseteq Nat
    BY Ranges
  <2> HIDE DEF T
  <2> QED BY <2>1, <2>2, LeastNat
<1>2. \A k \in (m + 1)..(n - 1) : db.accountCS[k][a] = Unset
  <2> SUFFICES ASSUME NEW k \in (m + 1)..(n - 1), db.accountCS[k][a] # Unset PROVE FALSE
    OBVIOUS
  <2>1. k \in T /\ ~(n <= k)
    BY Ranges
  <2> QED BY <1>1, <2>1
<1>3. \E i \in (m + 1)..(MaxBlock + 1) :
        /\ i = MaxBlock + 1 \/ db.accountCS[i][a] # Unset
        /\ \A k \in (m + 1)..(i - 1) : db.accountCS[k][a] = Unset
  BY <1>1, <1>2
<1> QED BY <1>3 DEF NextAccountChange

\* The next row of a slot.
LEMMA NextStorageIs ==
  ASSUME NEW a, NEW s, NEW m \in 0..MaxBlock
  PROVE  /\ NextStorageChange(a, s, m) \in (m + 1)..(MaxBlock + 1)
         /\ \/ NextStorageChange(a, s, m) = MaxBlock + 1
            \/ db.storageCS[NextStorageChange(a, s, m)][a][s] # Unset
         /\ \A k \in (m + 1)..(NextStorageChange(a, s, m) - 1) : db.storageCS[k][a][s] = Unset
<1> DEFINE T == {n \in (m + 1)..(MaxBlock + 1) : n = MaxBlock + 1 \/ db.storageCS[n][a][s] # Unset}
<1>1. PICK n \in T : \A j \in T : n <= j
  <2>1. MaxBlock + 1 \in T
    BY Ranges
  <2>2. T \subseteq Nat
    BY Ranges
  <2> HIDE DEF T
  <2> QED BY <2>1, <2>2, LeastNat
<1>2. \A k \in (m + 1)..(n - 1) : db.storageCS[k][a][s] = Unset
  <2> SUFFICES ASSUME NEW k \in (m + 1)..(n - 1), db.storageCS[k][a][s] # Unset PROVE FALSE
    OBVIOUS
  <2>1. k \in T /\ ~(n <= k)
    BY Ranges
  <2> QED BY <1>1, <2>1
<1>3. \E i \in (m + 1)..(MaxBlock + 1) :
        /\ i = MaxBlock + 1 \/ db.storageCS[i][a][s] # Unset
        /\ \A k \in (m + 1)..(i - 1) : db.storageCS[k][a][s] = Unset
  BY <1>1, <1>2
<1> QED BY <1>3 DEF NextStorageChange

\* The first row after a block holds the value after that block; without one,
\* the value has stayed what it was.
LEMMA AccountSince ==
  ASSUME TypeInv, Backward, NEW a \in Addr, NEW m \in 0..cur
  PROVE  /\ AccountChanged(a, m) =>
              db.accountCS[NextAccountChange(a, m)][a] = world[m].account[a]
         /\ ~AccountChanged(a, m) =>
              /\ \A k \in m + 1..cur : db.accountCS[k][a] = Unset
              /\ \A k \in m..cur : world[k].account[a] = world[m].account[a]
<1> DEFINE n == NextAccountChange(a, m)
<1>0. cur \in Nat /\ cur <= MaxBlock /\ MaxBlock \in Nat /\ m \in 0..MaxBlock
  BY Ranges DEF TypeInv
<1>1. /\ n \in (m + 1)..(MaxBlock + 1) /\ (n = MaxBlock + 1 \/ db.accountCS[n][a] # Unset)
      /\ \A k \in (m + 1)..(n - 1) : db.accountCS[k][a] = Unset
  BY <1>0, NextAccountIs
<1>2. AccountChanged(a, m) <=> n <= MaxBlock
  BY DEF AccountChanged
<1> HIDE DEF n
<1>3. CASE n <= MaxBlock
  <2>1. n \in Block /\ db.accountCS[n][a] # Unset /\ n \in Nat
    BY <1>0, <1>1, <1>3, Ranges
  <2>2. n <= cur
    BY <1>0, <2>1 DEF Backward
  <2>3. n \in 1..cur /\ n - 1 \in m..cur /\ n - 1 \in m..n - 1
    BY <1>0, <1>1, <2>1, <2>2
  <2>4. db.accountCS[n][a] = world[n - 1].account[a]
    BY <2>1, <2>3 DEF Backward
  <2>5. world[n - 1].account[a] = world[m].account[a]
    BY <1>1, <2>3, SameAccount
  <2> QED BY <1>2, <1>3, <2>4, <2>5 DEF n
<1>4. CASE n = MaxBlock + 1
  <2>1. \A k \in m + 1..cur : db.accountCS[k][a] = Unset
    BY <1>0, <1>1, <1>4
  <2>2. cur \in m..cur
    BY <1>0
  <2>3. \A k \in m..cur : world[k].account[a] = world[m].account[a]
    BY <2>1, <2>2, SameAccount
  <2> QED BY <1>0, <1>2, <1>4, <2>1, <2>3
<1> QED BY <1>0, <1>1, <1>3, <1>4

\* The same for a slot.
LEMMA StorageSince ==
  ASSUME TypeInv, Backward, NEW a \in Addr, NEW s \in Slot, NEW m \in 0..cur
  PROVE  /\ StorageChanged(a, s, m) =>
              db.storageCS[NextStorageChange(a, s, m)][a][s] = world[m].storage[a][s]
         /\ ~StorageChanged(a, s, m) =>
              \A k \in m..cur : world[k].storage[a][s] = world[m].storage[a][s]
<1> DEFINE n == NextStorageChange(a, s, m)
<1>0. cur \in Nat /\ cur <= MaxBlock /\ MaxBlock \in Nat /\ m \in 0..MaxBlock
  BY Ranges DEF TypeInv
<1>1. /\ n \in (m + 1)..(MaxBlock + 1) /\ (n = MaxBlock + 1 \/ db.storageCS[n][a][s] # Unset)
      /\ \A k \in (m + 1)..(n - 1) : db.storageCS[k][a][s] = Unset
  BY <1>0, NextStorageIs
<1>2. StorageChanged(a, s, m) <=> n <= MaxBlock
  BY DEF StorageChanged
<1> HIDE DEF n
<1>3. CASE n <= MaxBlock
  <2>1. n \in Block /\ db.storageCS[n][a][s] # Unset /\ n \in Nat
    BY <1>0, <1>1, <1>3, Ranges
  <2>2. n <= cur
    BY <1>0, <2>1 DEF Backward
  <2>3. n \in 1..cur /\ n - 1 \in m..cur /\ n - 1 \in m..n - 1
    BY <1>0, <1>1, <2>1, <2>2
  <2>4. db.storageCS[n][a][s] = world[n - 1].storage[a][s]
    BY <2>1, <2>3 DEF Backward
  <2>5. world[n - 1].storage[a][s] = world[m].storage[a][s]
    BY <1>1, <2>3, SameStorage
  <2> QED BY <1>2, <1>3, <2>4, <2>5 DEF n
<1>4. CASE n = MaxBlock + 1
  <2>1. \A k \in m + 1..cur : db.storageCS[k][a][s] = Unset
    BY <1>0, <1>1, <1>4
  <2>2. cur \in m..cur
    BY <1>0
  <2>3. \A k \in m..cur : world[k].storage[a][s] = world[m].storage[a][s]
    BY <2>1, <2>2, SameStorage
  <2> QED BY <1>0, <1>2, <1>4, <2>3
<1> QED BY <1>0, <1>1, <1>3, <1>4

\* Putting the slots back leads to the storage of block `to`.
LEMMA UnwindStorageIs ==
  ASSUME TypeInv, NEW t \in Storages, NEW to \in 0..cur
  PROVE  /\ UnwindStorage(t, to) \in Storages
         /\ \A h \in to..cur : Backward /\ t = world[h].storage =>
              UnwindStorage(t, to) = world[to].storage
<1> DEFINE val(a, s) == LET n == NextStorageChange(a, s, to)
                        IN IF n <= MaxBlock THEN db.storageCS[n][a][s] ELSE t[a][s]
<1>0. cur \in Nat /\ cur <= MaxBlock /\ MaxBlock \in Nat /\ to \in 0..MaxBlock
  BY Ranges DEF TypeInv
<1>1. ASSUME NEW a \in Addr, NEW s \in Slot PROVE val(a, s) \in Content
  <2> DEFINE n == NextStorageChange(a, s, to)
  <2>1. n \in (to + 1)..(MaxBlock + 1) /\ (n = MaxBlock + 1 \/ db.storageCS[n][a][s] # Unset)
    BY <1>0, NextStorageIs
  <2> HIDE DEF n
  <2>2. n <= MaxBlock => n \in Block /\ db.storageCS[n][a][s] # Unset
    BY <1>0, <2>1, Ranges
  <2>3. db.storageCS \in [Block -> StorageEntries]
    BY DEF TypeInv, Tables
  <2>4. n <= MaxBlock => db.storageCS[n][a][s] \in Content
    <3> SUFFICES ASSUME n <= MaxBlock PROVE db.storageCS[n][a][s] \in Content
      OBVIOUS
    <3>1. db.storageCS[n][a][s] \in Entry
      BY <2>2, <2>3 DEF StorageEntries
    <3> QED BY <2>2, <3>1, Contents
  <2>5. t[a][s] \in Content
    BY DEF Storages
  <2>6. val(a, s) = IF n <= MaxBlock THEN db.storageCS[n][a][s] ELSE t[a][s]
    BY DEF n
  <2> HIDE DEF val
  <2> QED BY <2>4, <2>5, <2>6
<1>2. UnwindStorage(t, to) = [a \in Addr |-> [s \in Slot |-> val(a, s)]]
  BY DEF UnwindStorage
<1>3. ASSUME NEW h \in to..cur, Backward, t = world[h].storage, NEW a \in Addr, NEW s \in Slot
      PROVE  val(a, s) = world[to].storage[a][s]
  <2> DEFINE n == NextStorageChange(a, s, to)
  <2>1. val(a, s) = IF StorageChanged(a, s, to) THEN db.storageCS[n][a][s] ELSE t[a][s]
    BY DEF StorageChanged
  <2> HIDE DEF val
  <2> QED BY <1>3, <2>1, StorageSince
<1>4. \A k \in 0..cur : world[k].storage \in Storages
  BY DEF TypeInv, Worlds
<1> HIDE DEF val
<1> DEFINE u == UnwindStorage(t, to)
<1>5. u \in Storages
  BY <1>1, <1>2 DEF Storages
<1>6. \A a \in Addr, s \in Slot : u[a][s] = val(a, s)
  BY <1>2
<1> HIDE DEF u
<1>7. ASSUME NEW h \in to..cur, Backward, t = world[h].storage PROVE u = world[to].storage
  <2>1. \A a \in Addr, s \in Slot : u[a][s] = world[to].storage[a][s]
    BY <1>3, <1>6, <1>7
  <2>2. world[to].storage \in Storages
    BY <1>4
  <2> QED BY <1>5, <2>1, <2>2, SameStorages
<1> QED BY <1>5, <1>7 DEF u

-----------------------------------------------------------------------------
(* What the other actions do to the tables *)

\* HashState and Interhashes write their own tables only.
LEMMA PromoteIs ==
  ASSUME TypeInv, NEW t, NEW from \in 0..MaxBlock,
         t = PromoteClean \/ t = Promote(from)
  PROVE  /\ t \in Tables
         /\ t.account = db.account /\ t.storage = db.storage
         /\ t.accountCS = db.accountCS /\ t.storageCS = db.storageCS
         /\ t.logs = db.logs /\ t.traces = db.traces
         /\ t.trieAccount = db.trieAccount /\ t.trieStorage = db.trieStorage
         /\ t = PromoteClean => t.hashedAccount = db.account /\ t.hashedStorage = db.storage
         /\ t = Promote(from) => \A a \in Addr :
              /\ t.hashedAccount[a] = IF AccountChanged(a, from) THEN db.account[a]
                                      ELSE db.hashedAccount[a]
              /\ \A s \in Slot :
                   t.hashedStorage[a][s] = IF StorageChanged(a, s, from) THEN db.storage[a][s]
                                           ELSE db.hashedStorage[a][s]
<1> DEFINE acc == [a \in Addr |-> IF AccountChanged(a, from) THEN db.account[a]
                                  ELSE db.hashedAccount[a]]
           sto == [a \in Addr |-> [s \in Slot |->
                     IF StorageChanged(a, s, from) THEN db.storage[a][s]
                     ELSE db.hashedStorage[a][s]]]
<1>1. /\ db \in Tables /\ db.account \in Accounts /\ db.storage \in Storages
      /\ db.hashedAccount \in Accounts /\ db.hashedStorage \in Storages
  BY DEF TypeInv, Tables
<1>2. acc \in Accounts
  BY <1>1 DEF Accounts
<1>3. sto \in Storages
  BY <1>1 DEF Storages
<1>4. Promote(from) = [db EXCEPT !.hashedAccount = acc, !.hashedStorage = sto]
  BY DEF Promote
<1>5. /\ \A a \in Addr : acc[a] = IF AccountChanged(a, from) THEN db.account[a]
                                  ELSE db.hashedAccount[a]
      /\ \A a \in Addr, s \in Slot :
           sto[a][s] = IF StorageChanged(a, s, from) THEN db.storage[a][s]
                       ELSE db.hashedStorage[a][s]
  OBVIOUS
<1> HIDE DEF acc, sto
<1>6. CASE t = PromoteClean
  <2>1. /\ t \in Tables
        /\ t.account = db.account /\ t.storage = db.storage
        /\ t.accountCS = db.accountCS /\ t.storageCS = db.storageCS
        /\ t.logs = db.logs /\ t.traces = db.traces
        /\ t.trieAccount = db.trieAccount /\ t.trieStorage = db.trieStorage
        /\ t.hashedAccount = db.account /\ t.hashedStorage = db.storage
    BY <1>1, <1>6 DEF PromoteClean, Tables
  <2>2. t = Promote(from) => t.hashedAccount = acc /\ t.hashedStorage = sto
    BY <1>1, <1>4 DEF Tables
  <2> QED BY <2>1, <2>2, <1>5
<1>7. CASE t = Promote(from)
  <2>1. /\ t \in Tables
        /\ t.account = db.account /\ t.storage = db.storage
        /\ t.accountCS = db.accountCS /\ t.storageCS = db.storageCS
        /\ t.logs = db.logs /\ t.traces = db.traces
        /\ t.trieAccount = db.trieAccount /\ t.trieStorage = db.trieStorage
        /\ t.hashedAccount = acc /\ t.hashedStorage = sto
    BY <1>1, <1>2, <1>3, <1>4, <1>7 DEF Tables
  <2>2. t = PromoteClean => t.hashedAccount = db.account /\ t.hashedStorage = db.storage
    BY <1>1 DEF PromoteClean, Tables
  <2> QED BY <2>1, <2>2, <1>5
<1> QED BY <1>6, <1>7

Trie == [account : Content, storage : [Slot -> Content]]

\* The branch of an account, from the hashed tables.
Fresh(a) == IF db.hashedAccount[a] = None THEN NoTrie[a]
            ELSE [account |-> db.hashedAccount[a], storage |-> db.hashedStorage[a]]

Visited(a, from) == AccountChanged(a, from) \/ db.trieAccount[a].account = None
Found(a, from) == Visited(a, from) /\ db.hashedAccount[a] # None

\* regenerate_intermediate_hashes, account by account.
LEMMA RegenerateIs ==
  ASSUME TypeInv, NEW t, t = Regenerate
  PROVE  /\ t \in Tables
         /\ t.account = db.account /\ t.storage = db.storage
         /\ t.accountCS = db.accountCS /\ t.storageCS = db.storageCS
         /\ t.logs = db.logs /\ t.traces = db.traces
         /\ t.hashedAccount = db.hashedAccount /\ t.hashedStorage = db.hashedStorage
         /\ \A a \in Addr : /\ t.trieAccount[a] = Fresh(a)
                            /\ t.trieStorage[a] = IF db.hashedAccount[a] = None THEN NoStorage[a]
                                                  ELSE db.hashedStorage[a]
<1> DEFINE leaf == [a \in Addr |->
                      IF db.hashedAccount[a] = None THEN NoTrie[a]
                      ELSE [account |-> db.hashedAccount[a], storage |-> db.hashedStorage[a]]]
           rows == [a \in Addr |->
                      IF db.hashedAccount[a] = None THEN NoStorage[a] ELSE db.hashedStorage[a]]
<1>1. db \in Tables /\ db.hashedAccount \in Accounts /\ db.hashedStorage \in Storages
  BY DEF TypeInv, Tables
<1>2. \A a \in Addr : /\ NoTrie[a] \in Trie /\ NoStorage[a] \in [Slot -> Content]
                      /\ db.hashedAccount[a] \in Content
                      /\ db.hashedStorage[a] \in [Slot -> Content]
  BY <1>1, EmptyTypes DEF Trie, Storages, Accounts
<1>3. leaf \in [Addr -> Trie] /\ rows \in Storages
  BY <1>2 DEF Trie, Storages
<1>4. t = [db EXCEPT !.trieAccount = leaf, !.trieStorage = rows]
  BY DEF Regenerate
<1>5. \A a \in Addr : leaf[a] = Fresh(a) /\ rows[a] = IF db.hashedAccount[a] = None THEN NoStorage[a]
                                                     ELSE db.hashedStorage[a]
  BY DEF Fresh
<1> HIDE DEF leaf, rows
<1>6. /\ t \in Tables
      /\ t.account = db.account /\ t.storage = db.storage
      /\ t.accountCS = db.accountCS /\ t.storageCS = db.storageCS
      /\ t.logs = db.logs /\ t.traces = db.traces
      /\ t.hashedAccount = db.hashedAccount /\ t.hashedStorage = db.hashedStorage
      /\ t.trieAccount = leaf /\ t.trieStorage = rows
  BY <1>1, <1>3, <1>4 DEF Tables, Trie
<1> QED BY <1>5, <1>6

\* The rows of a storage trie.
LEMMA StorageRowsTypes ==
  ASSUME TypeInv, NEW a \in Addr, NEW from
  PROVE  StorageRows(a, from) \in [Slot -> Content]
<1>1. db.hashedStorage \in Storages /\ db.trieStorage \in Storages
  BY DEF TypeInv, Tables
<1> QED BY <1>1 DEF StorageRows, Storages

\* DbTrieLoader::calculate_root, account by account.
LEMMA CalculateRootIs ==
  ASSUME TypeInv, NEW from, NEW t, t = CalculateRoot(from)
  PROVE  /\ t \in Tables
         /\ t.account = db.account /\ t.storage = db.storage
         /\ t.accountCS = db.accountCS /\ t.storageCS = db.storageCS
         /\ t.logs = db.logs /\ t.traces = db.traces
         /\ t.hashedAccount = db.hashedAccount /\ t.hashedStorage = db.hashedStorage
         /\ \A a \in Addr :
              /\ t.trieStorage[a] = IF Found(a, from) THEN StorageRows(a, from)
                                    ELSE db.trieStorage[a]
              /\ t.trieAccount[a] =
                   IF Found(a, from)
                   THEN [account |-> db.hashedAccount[a], storage |-> t.trieStorage[a]]
                   ELSE IF Visited(a, from) THEN NoTrie[a] ELSE db.trieAccount[a]
<1> DEFINE rows == [a \in Addr |-> IF Found(a, from) THEN StorageRows(a, from)
                                   ELSE db.trieStorage[a]]
           leaf == [a \in Addr |->
                      IF Found(a, from) THEN [account |-> db.hashedAccount[a], storage |-> rows[a]]
                      ELSE IF Visited(a, from)
                      THEN [account |-> None, storage |-> [s \in Slot |-> None]]
                      ELSE db.trieAccount[a]]
<1>1. /\ db \in Tables /\ db.hashedAccount \in Accounts /\ db.trieStorage \in Storages
      /\ db.trieAccount \in [Addr -> Trie]
  BY DEF TypeInv, Tables, Trie
<1>2. \A a \in Addr : /\ NoTrie[a] = [account |-> None, storage |-> [s \in Slot |-> None]]
                      /\ NoTrie[a] \in Trie
                      /\ db.hashedAccount[a] \in Content /\ db.trieAccount[a] \in Trie
                      /\ db.trieStorage[a] \in [Slot -> Content]
                      /\ StorageRows(a, from) \in [Slot -> Content]
  BY <1>1, EmptyTypes, StorageRowsTypes DEF Trie, Storages, Accounts, NoTrie
<1>3. rows \in Storages
  BY <1>2 DEF Storages
<1>4. leaf \in [Addr -> Trie]
  <2>1. \A a \in Addr : rows[a] \in [Slot -> Content]
    BY <1>3 DEF Storages
  <2> HIDE DEF rows
  <2> QED BY <2>1, <1>2 DEF Trie
<1>5. t = [db EXCEPT !.trieAccount = leaf, !.trieStorage = rows]
  BY DEF CalculateRoot, Visited, Found
<1>6. \A a \in Addr :
        /\ rows[a] = IF Found(a, from) THEN StorageRows(a, from) ELSE db.trieStorage[a]
        /\ leaf[a] = IF Found(a, from)
                     THEN [account |-> db.hashedAccount[a], storage |-> rows[a]]
                     ELSE IF Visited(a, from) THEN NoTrie[a] ELSE db.trieAccount[a]
  BY <1>2
<1> HIDE DEF leaf, rows
<1>7. /\ t \in Tables
      /\ t.account = db.account /\ t.storage = db.storage
      /\ t.accountCS = db.accountCS /\ t.storageCS = db.storageCS
      /\ t.logs = db.logs /\ t.traces = db.traces
      /\ t.hashedAccount = db.hashedAccount /\ t.hashedStorage = db.hashedStorage
      /\ t.trieAccount = leaf /\ t.trieStorage = rows
  BY <1>1, <1>3, <1>4, <1>5 DEF Tables, Trie
<1> QED BY <1>6, <1>7

\* The history without the rows above block `to`.
Cut(t, to) ==
  /\ \A m \in Block, a \in Addr :
       /\ t.accountCS[m][a] = IF m > to THEN Unset ELSE db.accountCS[m][a]
       /\ \A s \in Slot : t.storageCS[m][a][s] = IF m > to THEN Unset ELSE db.storageCS[m][a][s]
  /\ t.logs = {m \in db.logs : m <= to}
  /\ t.traces = {m \in db.traces : m <= to}

CutAccounts(to) == [n \in Block |-> IF n > to THEN NoAccountChanges[n] ELSE db.accountCS[n]]
CutStorages(to) == [n \in Block |-> IF n > to THEN NoStorageChanges[n] ELSE db.storageCS[n]]

\* The change sets without the rows above `to`.
LEMMA CutTypes ==
  ASSUME TypeInv, NEW to, NEW acs, NEW scs, acs = CutAccounts(to), scs = CutStorages(to)
  PROVE  /\ acs \in [Block -> AccountEntries]
         /\ scs \in [Block -> StorageEntries]
         /\ \A m \in Block, a \in Addr :
              /\ acs[m][a] = IF m > to THEN Unset ELSE db.accountCS[m][a]
              /\ \A s \in Slot : scs[m][a][s] = IF m > to THEN Unset ELSE db.storageCS[m][a][s]
<1>1. /\ db.accountCS \in [Block -> AccountEntries]
      /\ db.storageCS \in [Block -> StorageEntries]
  BY DEF TypeInv, Tables
<1>2. acs \in [Block -> AccountEntries] /\ scs \in [Block -> StorageEntries]
  BY <1>1, EmptyTypes DEF CutAccounts, CutStorages
<1>3. \A m \in Block : /\ acs[m] = IF m > to THEN NoAccountChanges[m] ELSE db.accountCS[m]
                       /\ scs[m] = IF m > to THEN NoStorageChanges[m] ELSE db.storageCS[m]
  BY DEF CutAccounts, CutStorages
<1>4. \A m \in Block, a \in Addr : /\ NoAccountChanges[m][a] = Unset
                                   /\ \A s \in Slot : NoStorageChanges[m][a][s] = Unset
  BY DEF NoAccountChanges, NoStorageChanges
<1> QED BY <1>2, <1>3, <1>4

\* An unwind to block `to`.
Unwound(to) ==
  /\ stage = "Headers" /\ to < progress.exec
  /\ db' \in Tables /\ Cut(db', to)
  /\ db'.account = UnwindAccounts(db.account, AddressRank, to)
  /\ db'.storage = UnwindStorage(db.storage, to)
  /\ db'.hashedAccount = IF progress.hash > to THEN UnwindAccounts(db.hashedAccount, HashRank, to)
                         ELSE db.hashedAccount
  /\ db'.hashedStorage = IF progress.hash > to THEN UnwindStorage(db.hashedStorage, to)
                         ELSE db.hashedStorage
  /\ db'.trieAccount = IF progress.inter > to THEN NoTrie ELSE db.trieAccount
  /\ db'.trieStorage = IF progress.inter > to THEN NoStorage ELSE db.trieStorage
  /\ progress' = [exec  |-> to,
                  hash  |-> IF progress.hash > to THEN to ELSE progress.hash,
                  inter |-> IF progress.inter > to THEN 0 ELSE progress.inter]
  /\ cur' = to /\ target' = to
  /\ world' = [m \in 0..to |-> world[m]]
  /\ faults' = [faults EXCEPT !.unwinds = @ + 1]
  /\ stage' = stage /\ buf' = buf /\ failed' = failed

\* StagedSync::run unwinding the three stages, table by table.
LEMMA UnwindIs ==
  ASSUME TypeInv, OrderInv, Unwind
  PROVE  \E to \in 0..cur : Unwound(to)
<1>1. PICK to \in 0..(progress.exec - 1) :
        LET i == IF progress.inter > to THEN UnwindInterhashes(db) ELSE db
            h == IF progress.hash > to THEN UnwindHashState(i, to) ELSE i
        IN /\ db' = UnwindExecution(h, to)
           /\ progress' = [exec  |-> to,
                           hash  |-> IF progress.hash > to THEN to ELSE progress.hash,
                           inter |-> IF progress.inter > to THEN 0 ELSE progress.inter]
           /\ cur' = to
           /\ world' = [m \in 0..to |-> world[m]]
           /\ target' = to
  BY Zenon DEF Unwind
<1> DEFINE i == IF progress.inter > to THEN UnwindInterhashes(db) ELSE db
           h == IF progress.hash > to THEN UnwindHashState(i, to) ELSE i
           acs == CutAccounts(to)
           scs == CutStorages(to)
           ha == UnwindAccounts(db.hashedAccount, HashRank, to)
           hs == UnwindStorage(db.hashedStorage, to)
           acc == UnwindAccounts(db.account, AddressRank, to)
           sto == UnwindStorage(db.storage, to)
<1>2. to \in 0..cur /\ to < progress.exec
  BY Ranges DEF TypeInv, OrderInv
<1>3. /\ db \in Tables /\ db.hashedAccount \in Accounts /\ db.hashedStorage \in Storages
      /\ db.account \in Accounts /\ db.storage \in Storages
  BY DEF TypeInv, Tables
<1>4. /\ ha \in Accounts /\ hs \in Storages /\ acc \in Accounts /\ sto \in Storages
  BY <1>2, <1>3, RanksAre, UnwindAccountsIs, UnwindStorageIs
<1>5. /\ acs \in [Block -> AccountEntries] /\ scs \in [Block -> StorageEntries]
      /\ \A m \in Block, a \in Addr :
           /\ acs[m][a] = IF m > to THEN Unset ELSE db.accountCS[m][a]
           /\ \A s \in Slot : scs[m][a][s] = IF m > to THEN Unset ELSE db.storageCS[m][a][s]
  BY CutTypes
<1>6. /\ i \in Tables
      /\ i.account = db.account /\ i.storage = db.storage
      /\ i.accountCS = db.accountCS /\ i.storageCS = db.storageCS
      /\ i.logs = db.logs /\ i.traces = db.traces
      /\ i.hashedAccount = db.hashedAccount /\ i.hashedStorage = db.hashedStorage
      /\ i.trieAccount = IF progress.inter > to THEN NoTrie ELSE db.trieAccount
      /\ i.trieStorage = IF progress.inter > to THEN NoStorage ELSE db.trieStorage
  BY <1>3, EmptyTypes DEF UnwindInterhashes, Tables
<1>7. progress.hash > to => h = [i EXCEPT !.hashedAccount = ha, !.hashedStorage = hs]
  <2>1. progress.hash > to => h = [i EXCEPT !.hashedAccount = UnwindAccounts(i.hashedAccount, HashRank, to),
                                            !.hashedStorage = UnwindStorage(i.hashedStorage, to)]
    BY DEF UnwindHashState
  <2> HIDE DEF i, h
  <2> QED BY <2>1, <1>6
<1>8. ~(progress.hash > to) => h = i
  OBVIOUS
<1> HIDE DEF i, ha, hs
<1>9. /\ h \in Tables
      /\ h.account = db.account /\ h.storage = db.storage
      /\ h.accountCS = db.accountCS /\ h.storageCS = db.storageCS
      /\ h.logs = db.logs /\ h.traces = db.traces
      /\ h.hashedAccount = IF progress.hash > to THEN ha ELSE db.hashedAccount
      /\ h.hashedStorage = IF progress.hash > to THEN hs ELSE db.hashedStorage
      /\ h.trieAccount = i.trieAccount /\ h.trieStorage = i.trieStorage
  <2> HIDE DEF h
  <2> QED BY <1>4, <1>6, <1>7, <1>8, ZenonT(40) DEF Tables
<1> HIDE DEF h
<1>10. db' = UnwindExecution(h, to)
  BY <1>1, Zenon DEF h, i
<1>11. db' = [h EXCEPT !.account = acc, !.storage = sto, !.accountCS = acs, !.storageCS = scs,
                       !.logs = {n \in db.logs : n <= to},
                       !.traces = {n \in db.traces : n <= to}]
  <2>1. db' = [h EXCEPT !.account = UnwindAccounts(h.account, AddressRank, to),
             !.storage = UnwindStorage(h.storage, to),
            !.accountCS = [n \in Block |-> IF n > to THEN NoAccountChanges[n] ELSE h.accountCS[n]],
            !.storageCS = [n \in Block |-> IF n > to THEN NoStorageChanges[n] ELSE h.storageCS[n]],
            !.logs = {n \in h.logs : n <= to},
            !.traces = {n \in h.traces : n <= to}]
    BY <1>10 DEF UnwindExecution
  <2> QED BY <2>1, <1>9 DEF CutAccounts, CutStorages
<1> HIDE DEF acs, scs, acc, sto
<1>12. db.logs \subseteq Block /\ db.traces \subseteq Block
  BY <1>3 DEF Tables
<1>13. /\ db' \in Tables
       /\ db'.account = acc /\ db'.storage = sto /\ db'.accountCS = acs /\ db'.storageCS = scs
       /\ db'.logs = {n \in db.logs : n <= to} /\ db'.traces = {n \in db.traces : n <= to}
       /\ db'.hashedAccount = h.hashedAccount /\ db'.hashedStorage = h.hashedStorage
       /\ db'.trieAccount = h.trieAccount /\ db'.trieStorage = h.trieStorage
  BY <1>4, <1>5, <1>9, <1>11, <1>12 DEF Tables
<1>14. Cut(db', to)
  BY <1>5, <1>13 DEF Cut
<1>15. /\ stage = "Headers" /\ faults' = [faults EXCEPT !.unwinds = @ + 1]
       /\ stage' = stage /\ buf' = buf /\ failed' = failed
  BY DEF Unwind
<1>16. /\ progress' = [exec  |-> to,
                       hash  |-> IF progress.hash > to THEN to ELSE progress.hash,
                       inter |-> IF progress.inter > to THEN 0 ELSE progress.inter]
       /\ cur' = to /\ target' = to /\ world' = [m \in 0..to |-> world[m]]
  BY <1>1, Zenon
<1> QED BY <1>2, <1>6, <1>9, <1>13, <1>14, <1>15, <1>16 DEF Unwound, acc, sto, ha, hs

\* A restart.
Restarted ==
  /\ stage # "Headers" /\ stage' = "Headers"
  /\ db' \in Tables /\ Cut(db', progress.exec)
  /\ db'.account = db.account /\ db'.storage = db.storage
  /\ db'.hashedAccount = db.hashedAccount /\ db'.hashedStorage = db.hashedStorage
  /\ db'.trieAccount = db.trieAccount /\ db'.trieStorage = db.trieStorage
  /\ buf' = EmptyBuffer /\ cur' = progress.exec
  /\ world' = [m \in 0..progress.exec |-> world[m]]
  /\ faults.restarts < MaxRestarts /\ faults' = [faults EXCEPT !.restarts = @ + 1]
  /\ target' = target /\ progress' = progress /\ failed' = failed

\* A restart, table by table.
LEMMA RestartIs ==
  ASSUME TypeInv, Restart
  PROVE  Restarted
<1> DEFINE to == progress.exec
           acs == CutAccounts(to)
           scs == CutStorages(to)
<1>1. db \in Tables /\ db.logs \subseteq Block /\ db.traces \subseteq Block
  BY DEF TypeInv, Tables
<1>2. /\ acs \in [Block -> AccountEntries] /\ scs \in [Block -> StorageEntries]
      /\ \A m \in Block, a \in Addr :
           /\ acs[m][a] = IF m > to THEN Unset ELSE db.accountCS[m][a]
           /\ \A s \in Slot : scs[m][a][s] = IF m > to THEN Unset ELSE db.storageCS[m][a][s]
  BY CutTypes
<1>3. db' = [db EXCEPT !.accountCS = acs, !.storageCS = scs,
                       !.logs = {n \in db.logs : n <= to},
                       !.traces = {n \in db.traces : n <= to}]
  BY DEF Restart, CutAccounts, CutStorages
<1> HIDE DEF acs, scs
<1>4. /\ db' \in Tables
      /\ db'.accountCS = acs /\ db'.storageCS = scs
      /\ db'.logs = {n \in db.logs : n <= to} /\ db'.traces = {n \in db.traces : n <= to}
      /\ db'.account = db.account /\ db'.storage = db.storage
      /\ db'.hashedAccount = db.hashedAccount /\ db'.hashedStorage = db.hashedStorage
      /\ db'.trieAccount = db.trieAccount /\ db'.trieStorage = db.trieStorage
  BY <1>1, <1>2, <1>3 DEF Tables
<1>5. Cut(db', to)
  BY <1>2, <1>4 DEF Cut
<1> QED BY <1>4, <1>5 DEF Restart, Restarted

-----------------------------------------------------------------------------
(* Types, order and rows *)

\* The empty history has no rows.
LEMMA EmptyRows ==
  /\ \A m \in Block : ~HasRows(NoAccountChanges, NoStorageChanges, m)
  /\ \A m \in Block, a \in Addr : /\ NoAccountChanges[m][a] = Unset
                                  /\ \A s \in Slot : NoStorageChanges[m][a][s] = Unset
BY DEF HasRows, NoAccountChanges, NoStorageChanges

\* The fields of the empty buffer.
LEMMA EmptyBufferIs ==
  /\ EmptyBuffer \in Buffers /\ EmptyBuffer.logs = {}
  /\ EmptyBuffer.accountChanges = NoAccountChanges
  /\ EmptyBuffer.storageChanges = NoStorageChanges
  /\ \A a \in Addr : /\ EmptyBuffer.accounts[a] = Unset /\ EmptyBuffer.erased[a] = FALSE
                     /\ \A s \in Slot : EmptyBuffer.slots[a][s] = Unset
BY EmptyTypes DEF EmptyBuffer

\* BaseInv at the start.
LEMMA BaseInit == Init => BaseInv
<1> SUFFICES ASSUME Init PROVE BaseInv
  OBVIOUS
<1>1. PICK account \in [Addr -> {None, 1}] :
        /\ world = [m \in {0} |-> [account |-> account, storage |-> NoStorage]]
        /\ db = [account |-> account, storage |-> NoStorage,
                 accountCS |-> NoAccountChanges, storageCS |-> NoStorageChanges,
                 logs |-> {}, traces |-> {},
                 hashedAccount |-> account, hashedStorage |-> NoStorage,
                 trieAccount |-> [a \in Addr |-> [account |-> account[a], storage |-> NoStorage[a]]],
                 trieStorage |-> NoStorage]
  BY DEF Init
<1>2. 0..0 = {0}
  OBVIOUS
<1>3. account \in Accounts
  BY SizesAssumption DEF Accounts, Content, Value, None
<1>4. [a \in Addr |-> [account |-> account[a], storage |-> NoStorage[a]]]
        \in [Addr -> [account : Content, storage : [Slot -> Content]]]
  BY <1>3, EmptyTypes DEF Accounts, Storages
<1>5. db \in Tables
  BY <1>1, <1>3, <1>4, EmptyTypes DEF Tables
<1>6. world \in [0..0 -> Worlds]
  BY <1>1, <1>2, <1>3, EmptyTypes DEF Worlds
<1>7. TypeInv
  BY <1>5, <1>6, EmptyTypes, Ranges DEF TypeInv, Init
<1>8. OrderInv
  BY DEF Init, OrderInv
<1>9. /\ db.accountCS = NoAccountChanges /\ db.storageCS = NoStorageChanges
      /\ db.logs = {} /\ db.traces = {}
  BY <1>1
<1>10. RowsInv
  BY <1>9, EmptyRows, EmptyBufferIs DEF RowsInv, Init
<1> QED BY <1>7, <1>8, <1>10 DEF BaseInv

\* Nothing but the stage and its own tables changes.
SameHistory ==
  /\ buf' = buf /\ cur' = cur /\ world' = world /\ progress'.exec = progress.exec
  /\ db'.accountCS = db.accountCS /\ db'.storageCS = db.storageCS
  /\ db'.logs = db.logs /\ db'.traces = db.traces

\* Without a change to the history, its rows are where they were.
LEMMA SameRows ==
  ASSUME RowsInv, SameHistory
  PROVE  RowsInv'
<1>1. \A k : Appendable(db, k) => Appendable(db', k)
  BY DEF SameHistory, Appendable
<1> QED BY <1>1 DEF SameHistory, RowsInv

\* A cut leaves no row above `to`.
LEMMA CutRows ==
  ASSUME RowsInv, NEW to, Cut(db', to), cur' = to, buf' = EmptyBuffer, progress'.exec = to
  PROVE  RowsInv'
<1>1. \A m \in Block : m > to => ~HasRows(db'.accountCS, db'.storageCS, m)
  BY DEF Cut, HasRows
<1>2. /\ \A m \in Block : ~HasRows(buf'.accountChanges, buf'.storageChanges, m)
      /\ buf'.logs = {}
  BY EmptyRows, EmptyBufferIs
<1>3. \A m \in db'.traces \cup db'.logs : m <= to
  BY DEF Cut
<1> QED BY <1>1, <1>2, <1>3 DEF RowsInv

\* A block executed keeps BaseInv: its rows are the highest ones.
LEMMA BaseExecute ==
  ASSUME BaseInv, ExecuteBlock
  PROVE  BaseInv'
<1>1. PICK n \in Block, flush \in BOOLEAN, end \in BOOLEAN, exit \in BOOLEAN :
        \E o, b : Executed(n, o, b, flush, end, exit)
  BY ExecuteBlockIs
<1>2. PICK o, b : Executed(n, o, b, flush, end, exit)
  BY <1>1
<1>3. /\ n = cur + 1 /\ n <= target /\ IsBlock(o) /\ b = WriteBlock(n, o)
      /\ stage = "Execution" /\ (n = target => end)
      /\ cur' = n /\ failed' = "no" /\ target' = target /\ faults' = faults
      /\ world' = [m \in 0..n |-> IF m = n THEN Apply(world[cur], o) ELSE world[m]]
      /\ progress' = IF end THEN [progress EXCEPT !.exec = n] ELSE progress
      /\ stage' = IF end /\ (n = target \/ exit) THEN "HashState" ELSE stage
  BY <1>2 DEF Executed
<1>4. TypeInv /\ OrderInv /\ RowsInv /\ cur \in Nat /\ n \in Nat /\ n > cur
  BY <1>3, Ranges DEF BaseInv, TypeInv
<1>5. world' \in [0..n -> Worlds]
  <2>1. \A m \in 0..n : m # n => m \in 0..cur
    BY <1>3, <1>4
  <2>2. cur \in 0..cur
    BY <1>4
  <2>3. Apply(world[cur], o) \in Worlds
    BY <1>3, <1>4, <2>2, ApplyIs DEF TypeInv
  <2> QED BY <1>3, <1>4, <2>1, <2>3 DEF TypeInv
<1>6. /\ db' \in Tables /\ buf' \in Buffers
      /\ db'.traces = db.traces \cup {n}
      /\ \/ /\ db'.logs = db.logs \cup buf.logs \cup {n} /\ buf'.logs = {}
         \/ /\ db'.logs = db.logs /\ buf'.logs = buf.logs \cup {n}
            /\ db'.accountCS = db.accountCS /\ db'.storageCS = db.storageCS
      /\ end => buf' = EmptyBuffer
  <2>1. TablesAfter(n) /\ StateAfter(b, end)
    BY <1>2, ExecutedIs
  <2> QED BY <2>1 DEF TablesAfter, StateAfter
<1>7. \A m \in Block, a \in Addr :
        /\ db'.accountCS[m][a] \in {b.accountChanges[m][a], db.accountCS[m][a]}
        /\ buf'.accountChanges[m][a] \in {b.accountChanges[m][a], Unset}
        /\ \A s \in Slot :
             /\ db'.storageCS[m][a][s] \in {b.storageChanges[m][a][s], db.storageCS[m][a][s]}
             /\ buf'.storageChanges[m][a][s] \in {b.storageChanges[m][a][s], Unset}
  <2>1. RowsAfter(b)
    BY <1>2, ExecutedIs
  <2> QED BY <2>1 DEF RowsAfter, AccountRowAfter, StorageRowAfter
<1>8. TypeInv'
  BY <1>3, <1>4, <1>5, <1>6, Ranges, SMTT(30) DEF TypeInv
<1>9. OrderInv'
  BY <1>3, <1>4, <1>6 DEF OrderInv, TypeInv
<1>10. RowsInv'
  <2>1. \A m \in Block : m # n => /\ b.accountChanges[m] = buf.accountChanges[m]
                                  /\ b.storageChanges[m] = buf.storageChanges[m]
    BY <1>3, <1>4, WriteBlockIs
  <2>2. progress.exec \in Nat /\ progress'.exec = IF end THEN n ELSE progress.exec
    BY <1>3, <1>4, Ranges DEF TypeInv
  <2>3. ASSUME NEW m \in Block, m > n PROVE ~HasRows(db'.accountCS, db'.storageCS, m)
    <3>1. m # n /\ m > cur
      BY <1>4, <2>3, Ranges
    <3>2. /\ ~HasRows(db.accountCS, db.storageCS, m)
          /\ ~HasRows(buf.accountChanges, buf.storageChanges, m)
      BY <1>4, <2>2, <3>1, Ranges DEF RowsInv
    <3>3. \A a \in Addr : /\ db.accountCS[m][a] = Unset /\ b.accountChanges[m][a] = Unset
                          /\ \A s \in Slot : /\ db.storageCS[m][a][s] = Unset
                                             /\ b.storageChanges[m][a][s] = Unset
      BY <2>1, <3>1, <3>2 DEF HasRows
    <3>4. \A a \in Addr : /\ db'.accountCS[m][a] = Unset
                          /\ \A s \in Slot : db'.storageCS[m][a][s] = Unset
      BY <1>7, <3>3, SMTT(30)
    <3> QED BY <3>4 DEF HasRows
  <2>4. ASSUME NEW m \in Block, ~(progress'.exec < m /\ m <= n)
        PROVE  ~HasRows(buf'.accountChanges, buf'.storageChanges, m)
    <3>1. CASE end
      BY <1>6, <3>1, EmptyBufferIs, EmptyRows
    <3>2. CASE ~end
      <4>1. m # n /\ ~(progress.exec < m /\ m <= cur)
        BY <1>3, <1>4, <2>2, <2>4, <3>2, Ranges DEF OrderInv
      <4>2. ~HasRows(buf.accountChanges, buf.storageChanges, m)
        BY <1>4, <4>1 DEF RowsInv
      <4> QED BY <1>7, <2>1, <4>1, <4>2, SMTT(30) DEF HasRows
    <3> QED BY <3>1, <3>2
  <2>5. \A m \in db'.traces \cup db'.logs \cup buf'.logs : m <= n
    <3>1. \A m \in db.traces \cup db.logs \cup buf.logs : m <= cur /\ m \in Nat
      BY <1>4, Ranges DEF RowsInv, TypeInv, Tables, Buffers
    <3> QED BY <1>4, <1>6, <3>1
  <2>6. ASSUME NEW k \in buf'.logs PROVE Appendable(db', k)
    <3>1. /\ db'.logs = db.logs /\ buf'.logs = buf.logs \cup {n}
          /\ db'.accountCS = db.accountCS /\ db'.storageCS = db.storageCS
      BY <1>6, <2>6
    <3>2. Appendable(db, n)
      <4>1. \A m \in Block : m >= n => ~HasRows(db.accountCS, db.storageCS, m)
        BY <1>4, Ranges DEF RowsInv
      <4>2. \A m \in db.logs : m < n
        BY <1>4, Ranges DEF RowsInv, TypeInv, Tables
      <4> QED BY <4>1, <4>2 DEF Appendable
    <3>3. Appendable(db, k)
      BY <1>4, <3>1, <3>2 DEF RowsInv
    <3> QED BY <3>1, <3>3 DEF Appendable
  <2> QED BY <1>3, <2>3, <2>4, <2>5, <2>6 DEF RowsInv
<1> QED BY <1>8, <1>9, <1>10 DEF BaseInv

\* Every step keeps BaseInv.
LEMMA BaseNext == BaseInv /\ [Next]_vars => BaseInv'
<1> SUFFICES ASSUME BaseInv, [Next]_vars PROVE BaseInv'
  OBVIOUS
<1>0. TypeInv /\ OrderInv /\ RowsInv
  BY DEF BaseInv
<1>1. CASE AdvanceHeaders
  <2>1. TypeInv'
    BY <1>0, <1>1, Ranges DEF AdvanceHeaders, TypeInv
  <2>2. OrderInv'
    BY <1>0, <1>1, Ranges DEF AdvanceHeaders, OrderInv, TypeInv
  <2>3. SameHistory
    BY <1>1 DEF AdvanceHeaders, SameHistory
  <2> QED BY <1>0, <2>1, <2>2, <2>3, SameRows DEF BaseInv
<1>2. CASE ExecuteNothing
  <2>1. TypeInv'
    BY <1>0, <1>2 DEF ExecuteNothing, TypeInv
  <2>2. OrderInv'
    BY <1>0, <1>2 DEF ExecuteNothing, OrderInv
  <2>3. SameHistory
    BY <1>2 DEF ExecuteNothing, SameHistory
  <2> QED BY <1>0, <2>1, <2>2, <2>3, SameRows DEF BaseInv
<1>3. CASE ExecuteBlock
  BY <1>3, BaseExecute
<1>4. CASE ExecuteHashState
  <2>1. progress.hash \in 0..MaxBlock
    BY <1>0 DEF TypeInv
  <2>2. db' = PromoteClean \/ db' = Promote(progress.hash)
    BY <1>4 DEF ExecuteHashState
  <2>3. /\ db' \in Tables
        /\ db'.accountCS = db.accountCS /\ db'.storageCS = db.storageCS
        /\ db'.logs = db.logs /\ db'.traces = db.traces
    BY <1>0, <2>1, <2>2, PromoteIs
  <2>4. TypeInv'
    BY <1>0, <1>4, <2>3 DEF ExecuteHashState, TypeInv
  <2>5. OrderInv'
    BY <1>0, <1>4 DEF ExecuteHashState, OrderInv, TypeInv
  <2>6. SameHistory
    BY <1>0, <1>4, <2>3 DEF ExecuteHashState, SameHistory, TypeInv
  <2> QED BY <1>0, <2>4, <2>5, <2>6, SameRows DEF BaseInv
<1>5. CASE ExecuteInterhashes
  <2>1. \/ db' = Regenerate \/ db' = CalculateRoot(progress.inter) \/ db' = db
    BY <1>5 DEF ExecuteInterhashes, Increment
  <2>2. /\ \/ progress' = progress
           \/ progress' = [progress EXCEPT !.inter = progress.hash]
        /\ failed' \in {failed, "root"} /\ stage' = "Headers" /\ stage = "Interhashes"
        /\ UNCHANGED <<target, cur, buf, world, faults>>
    BY <1>5 DEF ExecuteInterhashes
  <2>3. /\ db' \in Tables
        /\ db'.accountCS = db.accountCS /\ db'.storageCS = db.storageCS
        /\ db'.logs = db.logs /\ db'.traces = db.traces
    <3>1. db \in Tables
      BY <1>0 DEF TypeInv
    <3> QED BY <1>0, <2>1, <3>1, RegenerateIs, CalculateRootIs
  <2>4. TypeInv'
    BY <1>0, <2>2, <2>3 DEF TypeInv
  <2>5. OrderInv'
    BY <1>0, <2>2 DEF OrderInv, TypeInv
  <2>6. SameHistory
    BY <1>0, <2>2, <2>3 DEF SameHistory, TypeInv
  <2> QED BY <1>0, <2>4, <2>5, <2>6, SameRows DEF BaseInv
<1>6. CASE Unwind
  <2>1. PICK to \in 0..cur : Unwound(to)
    BY <1>0, <1>6, UnwindIs
  <2>2. /\ to \in 0..MaxBlock /\ cur \in Nat /\ to \in Nat /\ cur = progress.exec
        /\ buf = EmptyBuffer /\ buf' = EmptyBuffer
    BY <1>0, <2>1, Ranges DEF Unwound, TypeInv, OrderInv
  <2>3. world' \in [0..to -> Worlds]
    BY <1>0, <2>1, <2>2 DEF Unwound, TypeInv
  <2>4. progress' \in [exec : 0..MaxBlock, hash : 0..MaxBlock, inter : 0..MaxBlock]
    BY <1>0, <2>1, <2>2, Ranges DEF Unwound, TypeInv
  <2>5. faults' \in [unwinds : Nat, restarts : Nat]
    BY <1>0, <2>1 DEF Unwound, TypeInv
  <2>6. TypeInv'
    BY <1>0, <2>1, <2>2, <2>3, <2>4, <2>5 DEF Unwound, TypeInv
  <2>7. OrderInv'
    BY <1>0, <2>1, <2>2 DEF Unwound, OrderInv, TypeInv
  <2>8. RowsInv'
    BY <1>0, <2>1, <2>2, CutRows DEF Unwound
  <2> QED BY <2>6, <2>7, <2>8 DEF BaseInv
<1>7. CASE Restart
  <2>1. Restarted
    BY <1>0, <1>7, RestartIs
  <2>2. progress.exec \in 0..MaxBlock /\ progress.exec <= cur /\ cur \in 0..MaxBlock
    BY <1>0 DEF TypeInv, OrderInv
  <2>3. world' \in [0..progress.exec -> Worlds]
    BY <1>0, <2>1, <2>2 DEF Restarted, TypeInv
  <2>4. faults' \in [unwinds : Nat, restarts : Nat]
    BY <1>0, <2>1 DEF Restarted, TypeInv
  <2>5. TypeInv'
    BY <1>0, <2>1, <2>2, <2>3, <2>4, EmptyTypes DEF Restarted, TypeInv
  <2>6. OrderInv'
    BY <1>0, <2>1, <2>2 DEF Restarted, OrderInv, TypeInv
  <2>7. RowsInv'
    BY <1>0, <2>1, CutRows DEF Restarted
  <2> QED BY <2>5, <2>6, <2>7 DEF BaseInv
<1>8. CASE UNCHANGED vars
  BY <1>0, <1>8 DEF vars, BaseInv, TypeInv, OrderInv, RowsInv, Appendable
<1> QED BY <1>1, <1>2, <1>3, <1>4, <1>5, <1>6, <1>7, <1>8 DEF Next

\* The invariant for every chain: the types, how far the stages are, and that no
\* row of the tables or the buffer is where the next append would have to precede
\* it.
THEOREM BaseInvariant == Spec => []BaseInv
BY BaseInit, BaseNext, PTL DEF Spec

\* No append of Execution to the change sets, the logs or the call traces fails
\* (Buffer::write_history, execute_batch_of_blocks), whatever the blocks do and
\* whatever was unwound or lost in a restart before.
THEOREM HistoryAppends == Spec => []AppendsSucceed
<1>1. BaseInv => AppendsSucceed
  BY DEF BaseInv, TypeInv, AppendsSucceed
<1> QED BY <1>1, BaseInvariant, PTL

-----------------------------------------------------------------------------
(* The state and its history *)

\* What the chain's blocks may do for the history to be exact: no contract is
\* destructed and made again in one block, whose slots would be recorded as
\* zero, and no account is made and destructed in one block, whose row takes
\* another one's place when it is put back.
HistoryEffects ==
  /\ "recreate" \notin Effects
  /\ "dead" \notin Effects \/ NAddr = 1

\* The block at one address: what is read after it, and its rows.
LEMMA BlockAt ==
  ASSUME BaseInv, ReadsCurrentState, HistoryEffects, NEW n \in Block, NEW o, IsBlock(o),
         NEW b, b = WriteBlock(n, o), NEW w, w = Apply(world[cur], o), NEW c \in Addr
  PROVE  /\ (IF b.accounts[c] # Unset THEN b.accounts[c] ELSE db.account[c]) = w.account[c]
         /\ b.accountChanges[n][c] \in {world[cur].account[c], Unset}
         /\ b.accountChanges[n][c] = Unset => w.account[c] = world[cur].account[c]
         /\ b.accountChanges[n][c] = None => w.account[c] # None \/ NAddr = 1
         /\ \A s \in Slot :
              /\ (IF b.slots[c][s] # Unset THEN b.slots[c][s]
                  ELSE IF b.erased[c] THEN None ELSE db.storage[c][s]) = w.storage[c][s]
              /\ b.storageChanges[n][c][s] \in {world[cur].storage[c][s], Unset}
              /\ b.storageChanges[n][c][s] = Unset =>
                   w.storage[c][s] = world[cur].storage[c][s]
<1> DEFINE u == world[cur]
<1>1. TypeInv /\ u \in Worlds /\ u.account[c] \in Content /\ u.storage[c] \in [Slot -> Content]
  <2>1. TypeInv /\ cur \in 0..cur
    BY Ranges DEF BaseInv, TypeInv
  <2>2. u \in Worlds
    BY <2>1 DEF TypeInv
  <2> HIDE DEF u
  <2> QED BY <2>1, <2>2 DEF Worlds, Accounts, Storages
<1>2. /\ ReadAccount(c) = u.account[c]
      /\ \A s \in Slot : ReadStorage(c, s) = u.storage[c][s]
  BY DEF ReadsCurrentState
<1>3. /\ o[c] = Untouched => AfterUntouched(n, b, c)
      /\ o[c] # Untouched => AfterObject(n, b, c, o[c])
  BY <1>1, WriteBlockIs
<1>4. /\ o[c] = Untouched => w.account[c] = u.account[c] /\ w.storage[c] = u.storage[c]
      /\ o[c] # Untouched =>
           /\ w.account[c] = o[c].current
           /\ \A s \in Slot : w.storage[c][s] = IF o[c].write[s] # Unset THEN o[c].write[s]
                                                ELSE IF o[c].inc THEN None ELSE u.storage[c][s]
  BY <1>1, ApplyIs
<1> HIDE DEF u
<1>5. CASE o[c] = Untouched
  BY <1>2, <1>3, <1>4, <1>5, Contents DEF AfterUntouched, ReadAccount, ReadStorage, u
<1>6. CASE o[c] # Untouched
  <2> DEFINE x == o[c]
  <2>1. IsObject(c, x) /\ x \in Objects(c)
    BY <1>6 DEF IsBlock
  <2>2. /\ ~x.inc => /\ x.current # None
                     /\ x.slotInitial = [s \in Slot |-> ReadStorage(c, s)]
        /\ x.inc => /\ x.slotInitial = [s \in Slot |-> None]
                    /\ \/ "recreate" \in Effects
                       \/ x.write = NoWrites
                       \/ \A s \in Slot : ReadStorage(c, s) = None
        /\ x.initial = None /\ x.current = None => "dead" \in Effects
    BY <1>1, <2>1, ObjectsAre
  <2>3. AfterObject(n, b, c, x)
    BY <1>3, <1>6
  <2>4. /\ w.account[c] = x.current
        /\ \A s \in Slot : w.storage[c][s] = IF x.write[s] # Unset THEN x.write[s]
                                             ELSE IF x.inc THEN None ELSE u.storage[c][s]
    BY <1>4, <1>6
  <2> HIDE DEF x
  <2>5. x.initial = u.account[c] /\ x.initial \in Content /\ x.current \in Content
    BY <1>1, <1>2, <2>1 DEF IsObject
  <2>6. (IF b.accounts[c] # Unset THEN b.accounts[c] ELSE db.account[c]) = w.account[c]
    BY <1>2, <2>3, <2>4, <2>5, Contents DEF AfterObject, ReadAccount
  <2>7. b.accountChanges[n][c] = IF Records(x) THEN x.initial ELSE Unset
    BY <2>3 DEF AfterObject
  <2>8. /\ b.accountChanges[n][c] \in {u.account[c], Unset}
        /\ b.accountChanges[n][c] = Unset => w.account[c] = u.account[c]
        /\ b.accountChanges[n][c] = None => w.account[c] # None \/ NAddr = 1
    BY <2>2, <2>4, <2>5, <2>7, Contents DEF Records, HistoryEffects
  <2>9. ASSUME NEW s \in Slot
        PROVE  /\ (IF b.slots[c][s] # Unset THEN b.slots[c][s]
                   ELSE IF b.erased[c] THEN None ELSE db.storage[c][s]) = w.storage[c][s]
               /\ b.storageChanges[n][c][s] \in {u.storage[c][s], Unset}
               /\ b.storageChanges[n][c][s] = Unset => w.storage[c][s] = u.storage[c][s]
    <3>1. /\ b.erased[c] = (buf.erased[c] \/ x.inc)
          /\ b.slots[c][s] = IF Writes(x, s) THEN x.write[s]
                             ELSE IF x.inc THEN Unset ELSE buf.slots[c][s]
          /\ b.storageChanges[n][c][s] = IF Writes(x, s) THEN x.slotInitial[s]
                                         ELSE IF x.inc THEN ErasedSlots(c)[s] ELSE Unset
      BY <2>3 DEF AfterObject
    <3>2. Writes(x, s) <=> x.write[s] # Unset /\ x.write[s] # x.slotInitial[s]
      BY DEF Writes
    <3>3. u.storage[c][s] \in Content /\ x.write[s] \in Entry
      BY <1>1, <2>1 DEF IsObject
    <3>4. u.storage[c][s] = IF buf.slots[c][s] # Unset THEN buf.slots[c][s]
                            ELSE IF buf.erased[c] THEN None ELSE db.storage[c][s]
      BY <1>2 DEF ReadStorage
    <3>5. ErasedSlots(c)[s] = IF buf.slots[c][s] # Unset THEN buf.slots[c][s]
                              ELSE IF ~buf.erased[c] /\ db.storage[c][s] # None
                              THEN db.storage[c][s] ELSE Unset
      BY DEF ErasedSlots
    <3>6. w.storage[c][s] = IF x.write[s] # Unset THEN x.write[s]
                            ELSE IF x.inc THEN None ELSE u.storage[c][s]
      BY <2>4
    <3>7. CASE ~x.inc
      <4>1. x.slotInitial[s] = u.storage[c][s]
        BY <1>2, <2>2, <3>7
      <4> QED BY <3>1, <3>2, <3>3, <3>4, <3>6, <3>7, <4>1, Contents
    <3>8. CASE x.inc
      <4>1. /\ x.slotInitial[s] = None
            /\ x.write[s] = Unset \/ u.storage[c][s] = None
        BY <1>2, <2>2, <3>8 DEF NoWrites, HistoryEffects
      <4> QED BY <3>1, <3>2, <3>3, <3>4, <3>5, <3>6, <3>8, <4>1, Contents
    <3> QED BY <3>7, <3>8
  <2> QED BY <2>6, <2>8, <2>9 DEF u
<1> QED BY <1>5, <1>6

\* With an empty buffer the tables answer.
LEMMA ReadsTables ==
  ASSUME buf' = EmptyBuffer, TablesAtExec', cur' = progress'.exec
  PROVE  ReadsCurrentState'
<1>1. \A a \in Addr : /\ ReadAccount(a)' = db'.account[a]
                      /\ \A s \in Slot : ReadStorage(a, s)' = db'.storage[a][s]
  BY EmptyBufferIs DEF ReadAccount, ReadStorage
<1> QED BY <1>1 DEF ReadsCurrentState, TablesAtExec

\* The rows that a cut at `to` leaves are those of before.
LEMMA CutHistory ==
  ASSUME BaseInv, RowsExact, NEW to \in 0..progress.exec, Cut(db', to), cur' = to,
         buf' = EmptyBuffer, world' = [m \in 0..to |-> world[m]]
  PROVE  RowsExact'
<1>1. /\ TypeInv /\ RowsInv /\ cur \in Nat /\ progress.exec \in Nat /\ progress.exec <= cur
      /\ cur <= MaxBlock /\ MaxBlock \in Nat
  BY Ranges DEF BaseInv, TypeInv, OrderInv
<1>2. ASSUME NEW m \in 1..to, NEW a \in Addr
      PROVE  /\ AccountRow(m, a)' = AccountRow(m, a)
             /\ \A s \in Slot : StorageRow(m, a, s)' = StorageRow(m, a, s)
  <2>1. m \in Block /\ ~(m > to) /\ ~(progress.exec < m)
    BY <1>1, Ranges
  <2>2. ~HasRows(buf.accountChanges, buf.storageChanges, m)
    BY <1>1, <2>1 DEF RowsInv
  <2>3. /\ AccountRow(m, a) = db.accountCS[m][a]
        /\ \A s \in Slot : StorageRow(m, a, s) = db.storageCS[m][a][s]
    BY <2>2 DEF HasRows, AccountRow, StorageRow
  <2>4. /\ AccountRow(m, a)' = db'.accountCS[m][a]
        /\ \A s \in Slot : StorageRow(m, a, s)' = db'.storageCS[m][a][s]
    BY <2>1, EmptyBufferIs, EmptyRows DEF AccountRow, StorageRow
  <2> QED BY <2>1, <2>3, <2>4 DEF Cut
<1>3. \A m \in 1..to : m \in 1..cur /\ world'[m] = world[m] /\ world'[m - 1] = world[m - 1]
  BY <1>1
<1>4. ASSUME NEW m \in 1..to, NEW a \in Addr
      PROVE  /\ AccountRow(m, a)' \in {world'[m - 1].account[a], Unset}
             /\ AccountRow(m, a)' = Unset => world'[m].account[a] = world'[m - 1].account[a]
             /\ AccountRow(m, a)' = None => world'[m].account[a] # None \/ NAddr = 1
             /\ \A s \in Slot :
                  /\ StorageRow(m, a, s)' \in {world'[m - 1].storage[a][s], Unset}
                  /\ StorageRow(m, a, s)' = Unset =>
                       world'[m].storage[a][s] = world'[m - 1].storage[a][s]
  <2>1. m \in 1..cur /\ world'[m] = world[m] /\ world'[m - 1] = world[m - 1]
    BY <1>3
  <2>2. /\ AccountRow(m, a) \in {world[m - 1].account[a], Unset}
        /\ AccountRow(m, a) = Unset => world[m].account[a] = world[m - 1].account[a]
        /\ AccountRow(m, a) = None => world[m].account[a] # None \/ NAddr = 1
        /\ \A s \in Slot :
             /\ StorageRow(m, a, s) \in {world[m - 1].storage[a][s], Unset}
             /\ StorageRow(m, a, s) = Unset =>
                  world[m].storage[a][s] = world[m - 1].storage[a][s]
    BY <2>1 DEF RowsExact
  <2> QED BY <1>2, <2>1, <2>2
<1> QED BY <1>4 DEF RowsExact

\* Outside a batch, the tables hold the whole history.
LEMMA HistoryBackward ==
  ASSUME BaseInv, RowsExact, buf = EmptyBuffer
  PROVE  Backward
<1>1. TypeInv /\ RowsInv /\ cur \in Nat /\ cur <= MaxBlock /\ MaxBlock \in Nat
  BY Ranges DEF BaseInv, TypeInv
<1>2. \A m \in Block, a \in Addr :
        /\ AccountRow(m, a) = db.accountCS[m][a]
        /\ \A s \in Slot : StorageRow(m, a, s) = db.storageCS[m][a][s]
  BY EmptyBufferIs, EmptyRows DEF AccountRow, StorageRow
<1>3. \A m \in 1..cur : m \in Block
  BY <1>1, Ranges
<1>4. \A m \in Block, a \in Addr : m > cur =>
        db.accountCS[m][a] = Unset /\ \A s \in Slot : db.storageCS[m][a][s] = Unset
  BY <1>1 DEF RowsInv, HasRows
<1>5. \A m \in 1..cur, a \in Addr :
       /\ db.accountCS[m][a] \in {world[m - 1].account[a], Unset}
       /\ db.accountCS[m][a] = Unset => world[m].account[a] = world[m - 1].account[a]
       /\ db.accountCS[m][a] = None => world[m].account[a] # None \/ NAddr = 1
       /\ \A s \in Slot :
            /\ db.storageCS[m][a][s] \in {world[m - 1].storage[a][s], Unset}
            /\ db.storageCS[m][a][s] = Unset =>
                 world[m].storage[a][s] = world[m - 1].storage[a][s]
  BY <1>2, <1>3 DEF RowsExact
<1> QED BY <1>4, <1>5 DEF Backward

\* HistoryInv at the start.
LEMMA HistoryInit == Init => HistoryInv
<1> SUFFICES ASSUME Init PROVE HistoryInv
  OBVIOUS
<1>1. PICK account \in [Addr -> {None, 1}] :
        /\ world = [m \in {0} |-> [account |-> account, storage |-> NoStorage]]
        /\ db.account = account /\ db.storage = NoStorage
  BY DEF Init
<1>2. world[0].account = account /\ world[0].storage = NoStorage
  BY <1>1
<1>3. RowsExact
  BY DEF Init, RowsExact
<1>4. TablesAtExec
  BY <1>1, <1>2 DEF Init, TablesAtExec
<1>5. ReadsCurrentState
  BY <1>1, <1>2, EmptyBufferIs DEF Init, ReadsCurrentState, ReadAccount, ReadStorage
<1> QED BY <1>3, <1>4, <1>5 DEF HistoryInv

\* A block executed adds exact rows.
LEMMA HistoryExecute ==
  ASSUME BaseInv, HistoryInv, HistoryEffects, ExecuteBlock
  PROVE  HistoryInv'
<1>1. PICK n \in Block, flush \in BOOLEAN, end \in BOOLEAN, exit \in BOOLEAN :
        \E o, b : Executed(n, o, b, flush, end, exit)
  BY ExecuteBlockIs
<1>2. PICK o, b : Executed(n, o, b, flush, end, exit)
  BY <1>1
<1> DEFINE w == Apply(world[cur], o)
<1>3. /\ n = cur + 1 /\ IsBlock(o) /\ b = WriteBlock(n, o) /\ cur' = n
      /\ world' = [m \in 0..n |-> IF m = n THEN w ELSE world[m]]
      /\ progress' = IF end THEN [progress EXCEPT !.exec = n] ELSE progress
  BY <1>2 DEF Executed
<1>4. /\ TypeInv /\ RowsInv /\ cur \in Nat /\ n \in Nat /\ n > cur /\ cur \in 0..cur
      /\ progress.exec \in 0..cur /\ progress'.exec = IF end THEN n ELSE progress.exec
      /\ RowsExact /\ TablesAtExec /\ ReadsCurrentState
  BY <1>3, Ranges DEF BaseInv, TypeInv, OrderInv, HistoryInv
<1>5. w \in Worlds
  BY <1>3, <1>4, ApplyIs DEF TypeInv
<1>6. \A c \in Addr :
        /\ (IF b.accounts[c] # Unset THEN b.accounts[c] ELSE db.account[c]) = w.account[c]
        /\ b.accountChanges[n][c] \in {world[cur].account[c], Unset}
        /\ b.accountChanges[n][c] = Unset => w.account[c] = world[cur].account[c]
        /\ b.accountChanges[n][c] = None => w.account[c] # None \/ NAddr = 1
        /\ \A s \in Slot :
             /\ (IF b.slots[c][s] # Unset THEN b.slots[c][s]
                 ELSE IF b.erased[c] THEN None ELSE db.storage[c][s]) = w.storage[c][s]
             /\ b.storageChanges[n][c][s] \in {world[cur].storage[c][s], Unset}
             /\ b.storageChanges[n][c][s] = Unset =>
                  w.storage[c][s] = world[cur].storage[c][s]
  BY <1>3, <1>4, BlockAt, SMTT(30)
<1> HIDE DEF w
<1>7. /\ \A m \in 0..cur : world'[m] = world[m]
      /\ world'[n] = w
  BY <1>3, <1>4
<1>8. /\ ~end => /\ db'.account = db.account /\ db'.storage = db.storage
                 /\ buf'.accounts = b.accounts /\ buf'.erased = b.erased
                 /\ buf'.slots = b.slots
      /\ end => /\ buf' = EmptyBuffer
                /\ \A a \in Addr :
                     /\ db'.account[a] = IF b.accounts[a] # Unset THEN b.accounts[a]
                                         ELSE db.account[a]
                     /\ \A s \in Slot :
                          db'.storage[a][s] = IF b.slots[a][s] # Unset THEN b.slots[a][s]
                                              ELSE IF b.erased[a] THEN None
                                              ELSE db.storage[a][s]
      /\ db' \in Tables
  <2>1. TablesAfter(n) /\ StateAfter(b, end)
    BY <1>2, ExecutedIs
  <2> QED BY <2>1 DEF TablesAfter, StateAfter
<1>9. TablesAtExec'
  <2>1. CASE ~end
    BY <1>4, <1>7, <1>8, <2>1 DEF TablesAtExec
  <2>2. CASE end
    <3>1. \A a \in Addr : /\ db'.account[a] = w.account[a]
                          /\ \A s \in Slot : db'.storage[a][s] = w.storage[a][s]
      BY <1>6, <1>8, <2>2
    <3>2. /\ db'.account \in Accounts /\ db'.storage \in Storages
          /\ w.account \in Accounts /\ w.storage \in Storages
      BY <1>5, <1>8 DEF Tables, Worlds
    <3>3. db'.account = w.account
      BY <3>1, <3>2 DEF Accounts
    <3>4. db'.storage = w.storage
      BY <3>1, <3>2, SameStorages
    <3> QED BY <1>4, <1>7, <2>2, <3>3, <3>4 DEF TablesAtExec
  <2> QED BY <2>1, <2>2
<1>10. ReadsCurrentState'
  <2>1. CASE ~end
    <3>1. \A a \in Addr :
            /\ ReadAccount(a)' = IF b.accounts[a] # Unset THEN b.accounts[a] ELSE db.account[a]
            /\ \A s \in Slot : ReadStorage(a, s)' = IF b.slots[a][s] # Unset THEN b.slots[a][s]
                                                    ELSE IF b.erased[a] THEN None
                                                    ELSE db.storage[a][s]
      BY <1>8, <2>1 DEF ReadAccount, ReadStorage
    <3>2. \A a \in Addr : /\ ReadAccount(a)' = w.account[a]
                          /\ \A s \in Slot : ReadStorage(a, s)' = w.storage[a][s]
      BY <1>6, <3>1
    <3>3. world'[cur'] = w
      BY <1>3, <1>7
    <3>4. \A a \in Addr : /\ ReadAccount(a)' = world'[cur'].account[a]
                          /\ \A s \in Slot : ReadStorage(a, s)' = world'[cur'].storage[a][s]
      BY <3>2, <3>3
    <3> QED BY <3>4, Zenon DEF ReadsCurrentState
  <2>2. CASE end
    BY <1>3, <1>4, <1>8, <1>9, <2>2, ReadsTables
  <2> QED BY <2>1, <2>2
<1>11. RowsExact'
  <2> SUFFICES ASSUME NEW m \in 1..n, NEW a \in Addr
      PROVE  /\ AccountRow(m, a)' \in {world'[m - 1].account[a], Unset}
             /\ AccountRow(m, a)' = Unset => world'[m].account[a] = world'[m - 1].account[a]
             /\ AccountRow(m, a)' = None => world'[m].account[a] # None \/ NAddr = 1
             /\ \A s \in Slot :
                  /\ StorageRow(m, a, s)' \in {world'[m - 1].storage[a][s], Unset}
                  /\ StorageRow(m, a, s)' = Unset =>
                       world'[m].storage[a][s] = world'[m - 1].storage[a][s]
    BY <1>3 DEF RowsExact
  <2>1. m \in Block
    BY <1>4, Ranges
  <2>2. /\ AccountRow(m, a)' = IF b.accountChanges[m][a] # Unset
                               THEN b.accountChanges[m][a] ELSE db.accountCS[m][a]
        /\ \A s \in Slot :
             StorageRow(m, a, s)' = IF b.storageChanges[m][a][s] # Unset
                                    THEN b.storageChanges[m][a][s] ELSE db.storageCS[m][a][s]
    <3>1. RowsAfter(b)
      BY <1>2, ExecutedIs
    <3> QED BY <2>1, <3>1 DEF RowsAfter, AccountRowAfter, StorageRowAfter
  <2>3. CASE m = n
    <3>1. /\ db.accountCS[n][a] = Unset
          /\ \A s \in Slot : db.storageCS[n][a][s] = Unset
      BY <1>4 DEF RowsInv, HasRows
    <3>2. /\ AccountRow(n, a)' = b.accountChanges[n][a]
          /\ \A s \in Slot : StorageRow(n, a, s)' = b.storageChanges[n][a][s]
      BY <2>2, <2>3, <3>1
    <3>3. world'[n] = w /\ world'[n - 1] = world[cur]
      BY <1>3, <1>4, <1>7
    <3> QED BY <1>6, <2>3, <3>2, <3>3
  <2>4. CASE m # n
    <3>1. m \in 1..cur /\ world'[m] = world[m] /\ world'[m - 1] = world[m - 1]
      BY <1>3, <1>4, <1>7, <2>4
    <3>2. /\ b.accountChanges[m] = buf.accountChanges[m]
          /\ b.storageChanges[m] = buf.storageChanges[m]
      BY <1>3, <1>4, <2>1, <2>4, WriteBlockIs
    <3>3. /\ AccountRow(m, a)' = AccountRow(m, a)
          /\ \A s \in Slot : StorageRow(m, a, s)' = StorageRow(m, a, s)
      BY <2>2, <3>2 DEF AccountRow, StorageRow
    <3>4. /\ AccountRow(m, a) \in {world[m - 1].account[a], Unset}
          /\ AccountRow(m, a) = Unset => world[m].account[a] = world[m - 1].account[a]
          /\ AccountRow(m, a) = None => world[m].account[a] # None \/ NAddr = 1
          /\ \A s \in Slot :
               /\ StorageRow(m, a, s) \in {world[m - 1].storage[a][s], Unset}
               /\ StorageRow(m, a, s) = Unset =>
                    world[m].storage[a][s] = world[m - 1].storage[a][s]
      BY <1>4, <3>1 DEF RowsExact
    <3> QED BY <3>1, <3>3, <3>4
  <2> QED BY <2>3, <2>4
<1> QED BY <1>9, <1>10, <1>11 DEF HistoryInv

\* A stage after Execution leaves the state and its history alone.
LEMMA HistorySame ==
  ASSUME HistoryInv, SameHistory, db'.account = db.account, db'.storage = db.storage
  PROVE  HistoryInv'
<1>1. /\ \A m, a : AccountRow(m, a)' = AccountRow(m, a)
      /\ \A m, a, s : StorageRow(m, a, s)' = StorageRow(m, a, s)
      /\ \A a : ReadAccount(a)' = ReadAccount(a)
      /\ \A a, s : ReadStorage(a, s)' = ReadStorage(a, s)
  BY DEF SameHistory, AccountRow, StorageRow, ReadAccount, ReadStorage
<1>2. RowsExact'
  BY <1>1 DEF SameHistory, HistoryInv, RowsExact
<1>3. TablesAtExec' /\ ReadsCurrentState'
  BY <1>1 DEF SameHistory, HistoryInv, TablesAtExec, ReadsCurrentState
<1> QED BY <1>2, <1>3 DEF HistoryInv

\* Every step keeps HistoryInv.
LEMMA HistoryNext ==
  ASSUME HistoryEffects
  PROVE  BaseInv /\ HistoryInv /\ [Next]_vars => HistoryInv'
<1> SUFFICES ASSUME BaseInv, HistoryInv, [Next]_vars PROVE HistoryInv'
  OBVIOUS
<1>0. TypeInv /\ OrderInv /\ RowsInv /\ RowsExact /\ TablesAtExec
  BY DEF BaseInv, HistoryInv
<1>1. CASE AdvanceHeaders
  BY <1>1, HistorySame DEF AdvanceHeaders, SameHistory
<1>2. CASE ExecuteNothing
  BY <1>2, HistorySame DEF ExecuteNothing, SameHistory
<1>3. CASE ExecuteBlock
  BY <1>3, HistoryExecute
<1>4. CASE ExecuteHashState
  <2>1. progress.hash \in 0..MaxBlock
    BY <1>0 DEF TypeInv
  <2>2. db' = PromoteClean \/ db' = Promote(progress.hash)
    BY <1>4 DEF ExecuteHashState
  <2>3. /\ db'.account = db.account /\ db'.storage = db.storage
        /\ db'.accountCS = db.accountCS /\ db'.storageCS = db.storageCS
        /\ db'.logs = db.logs /\ db'.traces = db.traces
    BY <1>0, <2>1, <2>2, PromoteIs
  <2>4. SameHistory
    BY <1>0, <1>4, <2>3 DEF ExecuteHashState, SameHistory, TypeInv
  <2> QED BY <2>3, <2>4, HistorySame
<1>5. CASE ExecuteInterhashes
  <2>1. \/ db' = Regenerate \/ db' = CalculateRoot(progress.inter) \/ db' = db
    BY <1>5 DEF ExecuteInterhashes, Increment
  <2>2. /\ \/ progress' = progress
           \/ progress' = [progress EXCEPT !.inter = progress.hash]
        /\ UNCHANGED <<target, cur, buf, world, faults>>
    BY <1>5 DEF ExecuteInterhashes
  <2>3. /\ db'.account = db.account /\ db'.storage = db.storage
        /\ db'.accountCS = db.accountCS /\ db'.storageCS = db.storageCS
        /\ db'.logs = db.logs /\ db'.traces = db.traces
    BY <1>0, <2>1, RegenerateIs, CalculateRootIs
  <2>4. SameHistory
    BY <1>0, <2>2, <2>3 DEF SameHistory, TypeInv
  <2> QED BY <2>3, <2>4, HistorySame
<1>6. CASE Unwind
  <2>1. PICK to \in 0..cur : Unwound(to)
    BY <1>0, <1>6, UnwindIs
  <2>2. /\ cur \in Nat /\ cur = progress.exec /\ buf = EmptyBuffer /\ buf' = EmptyBuffer
        /\ cur' = to /\ Cut(db', to) /\ world' = [m \in 0..to |-> world[m]]
        /\ progress'.exec = to
    BY <1>0, <2>1, Ranges DEF Unwound, TypeInv, OrderInv
  <2>3. Backward
    BY <1>0, <2>2, HistoryBackward
  <2>4. RowsExact'
    BY <1>0, <2>2, CutHistory
  <2>5. db.account \in Accounts /\ db.storage \in Storages /\ cur \in to..cur
    BY <1>0, <2>2 DEF TypeInv, Tables
  <2>6. db.account = world[cur].account /\ db.storage = world[cur].storage
    BY <1>0, <2>2 DEF TablesAtExec
  <2>7. UnwindAccounts(db.account, AddressRank, to) = world[to].account
    BY <1>0, <2>3, <2>5, <2>6, RanksAre, UnwindAccountsIs
  <2>8. UnwindStorage(db.storage, to) = world[to].storage
    BY <1>0, <2>3, <2>5, <2>6, UnwindStorageIs
  <2>9. world'[to] = world[to]
    BY <2>2
  <2>10. TablesAtExec'
    BY <2>1, <2>2, <2>7, <2>8, <2>9 DEF Unwound, TablesAtExec
  <2>11. ReadsCurrentState'
    BY <2>2, <2>10, ReadsTables
  <2> QED BY <2>4, <2>10, <2>11 DEF HistoryInv
<1>7. CASE Restart
  <2>1. Restarted
    BY <1>0, <1>7, RestartIs
  <2>2. /\ progress.exec \in 0..progress.exec /\ buf' = EmptyBuffer
        /\ cur' = progress.exec /\ Cut(db', progress.exec)
        /\ world' = [m \in 0..progress.exec |-> world[m]]
        /\ progress' = progress
        /\ db'.account = db.account /\ db'.storage = db.storage
    BY <1>0, <2>1, Ranges DEF Restarted, TypeInv
  <2>3. RowsExact'
    BY <1>0, <2>2, CutHistory
  <2>4. TablesAtExec'
    BY <1>0, <2>2 DEF TablesAtExec
  <2>5. ReadsCurrentState'
    BY <2>2, <2>4, ReadsTables
  <2> QED BY <2>3, <2>4, <2>5 DEF HistoryInv
<1>8. CASE UNCHANGED vars
  BY <1>8, HistorySame DEF vars, SameHistory
<1> QED BY <1>1, <1>2, <1>3, <1>4, <1>5, <1>6, <1>7, <1>8 DEF Next

\* The rows of the change sets are exact, the tables hold the state after the last
\* batch, and with the buffer over them the state after the last block.
THEOREM HistoryInvariant ==
  ASSUME HistoryEffects
  PROVE  Spec => []HistoryInv
<1>1. BaseInv /\ HistoryInv /\ [Next]_vars => HistoryInv'
  BY HistoryNext
<1> QED BY <1>1, HistoryInit, BaseInvariant, PTL DEF Spec

\* Buffer::read_account and Buffer::read_storage answer with the state after the
\* last executed block, inside a batch and outside, after unwinds and restarts.
THEOREM ReadsAreCurrent ==
  ASSUME HistoryEffects
  PROVE  Spec => []ReadsCurrentState
<1>1. HistoryInv => ReadsCurrentState
  BY DEF HistoryInv
<1> QED BY <1>1, HistoryInvariant, PTL

\* The state after any earlier block can be read back from the change sets
\* (accessors::state), whatever batches wrote them and whatever was unwound.
THEOREM HistoryIsReadable ==
  ASSUME HistoryEffects
  PROVE  Spec => []HistoryReadable
<1>1. ASSUME BaseInv, HistoryInv PROVE HistoryReadable
  <2> SUFFICES ASSUME cur = progress.exec, NEW m \in 0..progress.exec, NEW a \in Addr
      PROVE  /\ AccountAt(a, m) = world[m].account[a]
             /\ \A s \in Slot : StorageAt(a, s, m) = world[m].storage[a][s]
    BY DEF HistoryReadable
  <2>1. TypeInv /\ RowsExact /\ TablesAtExec /\ buf = EmptyBuffer /\ m \in 0..cur /\ cur \in Nat
    BY <1>1, Ranges DEF BaseInv, HistoryInv, OrderInv, TypeInv
  <2>2. Backward
    BY <1>1, <2>1, HistoryBackward
  <2>3. db.account = world[cur].account /\ db.storage = world[cur].storage /\ cur \in m..cur
    BY <2>1 DEF TablesAtExec
  <2>4. AccountAt(a, m) = world[m].account[a]
    <3>1. AccountAt(a, m) = IF AccountChanged(a, m) THEN db.accountCS[NextAccountChange(a, m)][a]
                            ELSE db.account[a]
      BY DEF AccountAt, AccountChanged
    <3> QED BY <2>1, <2>2, <2>3, <3>1, AccountSince
  <2>5. ASSUME NEW s \in Slot PROVE StorageAt(a, s, m) = world[m].storage[a][s]
    <3>1. StorageAt(a, s, m) = IF StorageChanged(a, s, m)
                               THEN db.storageCS[NextStorageChange(a, s, m)][a][s]
                               ELSE db.storage[a][s]
      BY DEF StorageAt, StorageChanged
    <3> QED BY <2>1, <2>2, <2>3, <3>1, StorageSince
  <2> QED BY <2>4, <2>5
<1> QED BY <1>1, BaseInvariant, HistoryInvariant, PTL

-----------------------------------------------------------------------------
(* The hashed tables *)

\* HashState::unwind puts back the rows of blocks that HashState has not reached
\* too, with a seek that may find another address.  There are no such rows if the
\* process is not stopped between Execution and HashState.
NoHashLag == MaxRestarts = 0 \/ NAddr = 1

\* HashedFollows, of whole tables.
LEMMA HashedTables ==
  ASSUME TypeInv, OrderInv, HashedFollows, progress.hash > 0
  PROVE  /\ db.hashedAccount = world[progress.hash].account
         /\ db.hashedStorage = world[progress.hash].storage
<1>1. progress.hash \in 0..cur
  BY Ranges DEF TypeInv, OrderInv
<1>2. world[progress.hash] \in Worlds /\ db.hashedAccount \in Accounts /\ db.hashedStorage \in Storages
  BY <1>1 DEF TypeInv, Tables
<1>3. /\ world[progress.hash].account \in Accounts
      /\ world[progress.hash].storage \in Storages
  BY <1>2 DEF Worlds
<1>4. \A a \in Addr : /\ db.hashedAccount[a] = world[progress.hash].account[a]
                      /\ db.hashedStorage[a] = world[progress.hash].storage[a]
  BY DEF HashedFollows
<1> QED BY <1>2, <1>3, <1>4 DEF Accounts, Storages

\* What leaves the hashed tables and the states up to their block alone.
LEMMA HashSame ==
  ASSUME HashedFollows, db'.hashedAccount = db.hashedAccount,
         db'.hashedStorage = db.hashedStorage, progress'.hash = progress.hash,
         world'[progress.hash] = world[progress.hash]
  PROVE  HashedFollows'
BY DEF HashedFollows

\* HashInv at the start.
LEMMA HashInit == Init => HashInv
BY SizesAssumption DEF Init, HashInv, HashedFollows

\* HashState::execute brings the hashed tables to the block of Execution.
LEMMA HashExecute ==
  ASSUME BaseInv, HistoryInv, HashInv, ExecuteHashState
  PROVE  HashedFollows'
<1>0. /\ TypeInv /\ OrderInv /\ RowsExact /\ TablesAtExec /\ HashedFollows
      /\ stage = "HashState" /\ cur = progress.exec /\ buf = EmptyBuffer
      /\ progress'.hash = cur /\ world' = world
  BY DEF BaseInv, HistoryInv, HashInv, OrderInv, ExecuteHashState, TypeInv
<1>1. db.account = world[cur].account /\ db.storage = world[cur].storage
  BY <1>0 DEF TablesAtExec
<1> DEFINE from == progress.hash
<1>2. from \in 0..MaxBlock /\ from \in 0..cur /\ cur \in from..cur
  BY <1>0, Ranges DEF TypeInv, OrderInv
<1>3. CASE db' = PromoteClean
  <2>1. db'.hashedAccount = db.account /\ db'.hashedStorage = db.storage
    BY <1>0, <1>2, <1>3, PromoteIs
  <2> QED BY <1>0, <1>1, <2>1 DEF HashedFollows
<1>4. CASE db' = Promote(from) /\ from > 0
  <2>1. Backward
    BY <1>0, HistoryBackward
  <2>2. \A a \in Addr :
          /\ db'.hashedAccount[a] = IF AccountChanged(a, from) THEN db.account[a]
                                    ELSE db.hashedAccount[a]
          /\ \A s \in Slot :
               db'.hashedStorage[a][s] = IF StorageChanged(a, s, from) THEN db.storage[a][s]
                                         ELSE db.hashedStorage[a][s]
    BY <1>0, <1>2, <1>4, PromoteIs
  <2>3. \A a \in Addr : /\ db.hashedAccount[a] = world[from].account[a]
                        /\ db.hashedStorage[a] = world[from].storage[a]
    BY <1>0, <1>4 DEF HashedFollows
  <2>4. \A a \in Addr : db'.hashedAccount[a] = world[cur].account[a]
    BY <1>0, <1>1, <1>2, <2>1, <2>2, <2>3, AccountSince
  <2>5. \A a \in Addr, s \in Slot : db'.hashedStorage[a][s] = world[cur].storage[a][s]
    BY <1>0, <1>1, <1>2, <2>1, <2>2, <2>3, StorageSince, SMTT(30)
  <2>6. db' \in Tables
    BY <1>0, <1>2, <1>4, PromoteIs
  <2>7. db'.hashedStorage \in Storages /\ world[cur].storage \in Storages
    <3>1. cur \in 0..cur
      BY <1>2
    <3> QED BY <1>0, <2>6, <3>1 DEF TypeInv, Tables, Worlds
  <2>8. db'.hashedStorage = world[cur].storage
    BY <2>5, <2>7, SameStorages
  <2> QED BY <1>0, <2>4, <2>8 DEF HashedFollows
<1>5. \/ db' = PromoteClean
      \/ db' = Promote(from) /\ from # 0
  BY DEF ExecuteHashState
<1> QED BY <1>2, <1>3, <1>4, <1>5

\* HashState::unwind takes them back with the state.
LEMMA HashUnwind ==
  ASSUME BaseInv, HistoryInv, HashInv, NoHashLag, Unwind
  PROVE  HashedFollows'
<1>0. TypeInv /\ OrderInv /\ RowsExact /\ TablesAtExec /\ HashedFollows
  BY DEF BaseInv, HistoryInv, HashInv
<1>1. PICK to \in 0..cur : Unwound(to)
  BY <1>0, UnwindIs
<1> DEFINE h == progress.hash
<1>2. /\ stage = "Headers" /\ cur \in Nat /\ cur = progress.exec /\ buf = EmptyBuffer
      /\ h \in Nat /\ h <= cur /\ to \in Nat
      /\ world' = [m \in 0..to |-> world[m]]
      /\ progress'.hash = IF h > to THEN to ELSE h
      /\ db'.hashedAccount = IF h > to THEN UnwindAccounts(db.hashedAccount, HashRank, to)
                             ELSE db.hashedAccount
      /\ db'.hashedStorage = IF h > to THEN UnwindStorage(db.hashedStorage, to)
                             ELSE db.hashedStorage
  BY <1>0, <1>1, Ranges DEF Unwound, TypeInv, OrderInv
<1>3. CASE ~(h > to)
  <2>1. world'[h] = world[h]
    BY <1>2, <1>3
  <2> QED BY <1>0, <1>2, <1>3, <2>1, HashSame
<1>4. CASE h > to
  <2>1. h = cur \/ NAddr = 1
    BY <1>0, <1>2, SizesAssumption DEF HashInv, NoHashLag, TypeInv
  <2>2. Backward
    BY <1>0, <1>2, HistoryBackward
  <2>3. /\ db.hashedAccount = world[h].account /\ db.hashedStorage = world[h].storage
        /\ h \in to..cur /\ h > 0
    BY <1>0, <1>2, <1>4, HashedTables
  <2>4. db.hashedAccount \in Accounts /\ db.hashedStorage \in Storages
    BY <1>0 DEF TypeInv, Tables
  <2>5. UnwindAccounts(db.hashedAccount, HashRank, to) = world[to].account
    BY <1>0, <2>1, <2>2, <2>3, <2>4, RanksAre, UnwindAccountsIs
  <2>6. UnwindStorage(db.hashedStorage, to) = world[to].storage
    BY <1>0, <2>2, <2>3, <2>4, UnwindStorageIs
  <2>7. world'[to] = world[to]
    BY <1>2
  <2> QED BY <1>2, <1>4, <2>5, <2>6, <2>7 DEF HashedFollows
<1> QED BY <1>3, <1>4

\* Every step keeps HashInv.
LEMMA HashNext ==
  ASSUME NoHashLag
  PROVE  BaseInv /\ HistoryInv /\ HashInv /\ [Next]_vars => HashInv'
<1> SUFFICES ASSUME BaseInv, HistoryInv, HashInv, [Next]_vars PROVE HashInv'
  OBVIOUS
<1>0. TypeInv /\ OrderInv /\ HashedFollows
  BY DEF BaseInv, HashInv
<1>1. CASE AdvanceHeaders
  <2>1. HashedFollows'
    BY <1>0, <1>1, HashSame DEF AdvanceHeaders
  <2> QED BY <1>1, <2>1 DEF HashInv, AdvanceHeaders
<1>2. CASE ExecuteNothing
  <2>1. HashedFollows'
    BY <1>0, <1>2, HashSame DEF ExecuteNothing
  <2> QED BY <1>2, <2>1 DEF HashInv, ExecuteNothing
<1>3. CASE ExecuteBlock
  <2>1. PICK n \in Block, flush \in BOOLEAN, end \in BOOLEAN, exit \in BOOLEAN :
          \E o, b : Executed(n, o, b, flush, end, exit)
    BY <1>3, ExecuteBlockIs
  <2>2. PICK o, b : Executed(n, o, b, flush, end, exit)
    BY <2>1
  <2>3. db'.hashedAccount = db.hashedAccount /\ db'.hashedStorage = db.hashedStorage
    <3>1. TablesAfter(n)
      BY <2>2, ExecutedIs
    <3> QED BY <3>1 DEF TablesAfter
  <2>4. /\ n = cur + 1 /\ faults' = faults /\ stage = "Execution"
        /\ world' = [m \in 0..n |-> IF m = n THEN Apply(world[cur], o) ELSE world[m]]
        /\ progress' = IF end THEN [progress EXCEPT !.exec = n] ELSE progress
        /\ stage' = IF end /\ (n = target \/ exit) THEN "HashState" ELSE stage
    BY <2>2 DEF Executed
  <2>5. progress.hash \in Nat /\ cur \in Nat /\ progress.hash <= cur /\ progress'.hash = progress.hash
    BY <1>0, <2>4, Ranges DEF TypeInv, OrderInv
  <2>6. world'[progress.hash] = world[progress.hash]
    BY <2>4, <2>5
  <2>7. HashedFollows'
    BY <1>0, <2>3, <2>5, <2>6, HashSame
  <2> QED BY <2>4, <2>7 DEF HashInv
<1>4. CASE ExecuteHashState
  <2>1. HashedFollows'
    BY <1>4, HashExecute
  <2> QED BY <1>4, <2>1 DEF HashInv, ExecuteHashState
<1>5. CASE ExecuteInterhashes
  <2>1. \/ db' = Regenerate \/ db' = CalculateRoot(progress.inter) \/ db' = db
    BY <1>5 DEF ExecuteInterhashes, Increment
  <2>2. /\ \/ progress' = progress
           \/ progress' = [progress EXCEPT !.inter = progress.hash]
        /\ stage = "Interhashes"
        /\ UNCHANGED <<target, cur, buf, world, faults>>
    BY <1>5 DEF ExecuteInterhashes
  <2>3. db'.hashedAccount = db.hashedAccount /\ db'.hashedStorage = db.hashedStorage
    BY <1>0, <2>1, RegenerateIs, CalculateRootIs
  <2>4. /\ progress'.hash = progress.hash /\ progress'.exec = progress.exec
        /\ progress.hash = progress.exec
    BY <1>0, <2>2 DEF TypeInv, OrderInv
  <2>5. HashedFollows'
    BY <1>0, <2>2, <2>3, <2>4, HashSame
  <2> QED BY <2>2, <2>4, <2>5 DEF HashInv
<1>6. CASE Unwind
  <2>1. HashedFollows'
    BY <1>6, HashUnwind
  <2>2. PICK to \in 0..cur : Unwound(to)
    BY <1>0, <1>6, UnwindIs
  <2>3. /\ stage = "Headers" /\ faults'.restarts = faults.restarts /\ to < progress.exec
        /\ progress'.exec = to /\ progress'.hash = IF progress.hash > to THEN to ELSE progress.hash
    BY <1>0, <2>2 DEF Unwound, TypeInv
  <2> QED BY <2>1, <2>3 DEF HashInv
<1>7. CASE Restart
  <2>1. Restarted
    BY <1>0, <1>7, RestartIs
  <2>2. /\ progress.exec \in Nat /\ progress.hash \in Nat /\ progress.hash <= progress.exec
        /\ faults.restarts \in Nat /\ MaxRestarts \in Nat
    BY <1>0, Ranges, SizesAssumption DEF TypeInv, OrderInv
  <2>3. world'[progress.hash] = world[progress.hash]
    BY <2>1, <2>2 DEF Restarted
  <2>4. HashedFollows'
    BY <1>0, <2>1, <2>3, HashSame DEF Restarted
  <2>5. faults'.restarts = faults.restarts + 1 /\ faults.restarts < MaxRestarts
    BY <1>0, <2>1 DEF Restarted, TypeInv
  <2> QED BY <2>2, <2>4, <2>5 DEF HashInv
<1>8. CASE UNCHANGED vars
  BY <1>8 DEF vars, HashInv, HashedFollows
<1> QED BY <1>1, <1>2, <1>3, <1>4, <1>5, <1>6, <1>7, <1>8 DEF Next

\* The hashed tables follow the state, and without restarts HashState is as far as
\* Execution whenever a round begins.
THEOREM HashInvariant ==
  ASSUME HistoryEffects, NoHashLag
  PROVE  Spec => []HashInv
<1>1. BaseInv /\ HistoryInv /\ HashInv /\ [Next]_vars => HashInv'
  BY HashNext
<1>2. Spec => []HistoryInv
  BY HistoryInvariant
<1> QED BY <1>1, <1>2, HashInit, BaseInvariant, PTL DEF Spec

\* The hashed tables hold the state of the block HashState has reached, promoted
\* from scratch, from the change sets, or unwound.
THEOREM HashedTablesFollow ==
  ASSUME HistoryEffects, NoHashLag
  PROVE  Spec => []HashedFollows
<1>1. HashInv => HashedFollows
  BY DEF HashInv
<1>2. Spec => []HashInv
  BY HashInvariant
<1> QED BY <1>1, <1>2, PTL

-----------------------------------------------------------------------------
(* The state root *)

\* What the chain's blocks may do for the remembered hashes to be right: where
\* a contract was destructed no account comes back in a later block, with code
\* or without, and no contract in the same block.
OnceEffects == Effects \subseteq {"update", "pay", "create", "destroy", "revive"}

\* Such blocks leave an exact history.
LEMMA OnceHistory == OnceEffects => HistoryEffects
BY DEF OnceEffects, HistoryEffects

\* What was stored up to block k is told by the states up to it.
LEMMA StoredSame ==
  ASSUME NEW k \in Nat, \A m \in 0..k : world'[m] = world[m], NEW j \in 0..k, NEW a
  PROVE  Stored(j, a)' <=> Stored(j, a)
<1>1. \A m \in 0..j : world'[m] = world[m]
  OBVIOUS
<1> QED BY <1>1 DEF Stored

\* WorldInv and RecordedInv of an earlier state hold of a beginning of it.
LEMMA CutWorlds ==
  ASSUME BaseInv, WorldInv, NEW to \in 0..cur, cur' = to, world' = [m \in 0..to |-> world[m]]
  PROVE  WorldInv'
<1>1. cur \in Nat /\ to \in Nat /\ to <= cur
  BY Ranges DEF BaseInv, TypeInv
<1>2. \A m \in 0..to : world'[m] = world[m] /\ m \in 0..cur
  BY <1>1
<1>3. ASSUME NEW n \in 0..to, NEW a \in Addr
      PROVE  /\ world'[n].account[a] = None => \A s \in Slot : world'[n].storage[a][s] = None
             /\ world'[n].account[a] = None /\ Stored(n, a)' =>
                  \A m \in n..to : world'[m].account[a] = None
  <2>1. Stored(n, a)' <=> Stored(n, a)
    BY <1>1, <1>2, StoredSame
  <2>2. \A m \in n..to : m \in n..cur /\ m \in 0..to
    BY <1>1
  <2>3. /\ world[n].account[a] = None => \A s \in Slot : world[n].storage[a][s] = None
        /\ world[n].account[a] = None /\ Stored(n, a) =>
             \A m \in n..cur : world[m].account[a] = None
    BY <1>2 DEF WorldInv
  <2> QED BY <1>2, <2>1, <2>2, <2>3
<1> QED BY <1>3 DEF WorldInv

\* The block at one address, when no account comes back.
LEMMA OnceBlockAt ==
  ASSUME BaseInv, ReadsCurrentState, WorldInv, OnceEffects, NEW n \in Block, NEW o, IsBlock(o),
         NEW b, b = WriteBlock(n, o), NEW w, w = Apply(world[cur], o), NEW c \in Addr
  PROVE  /\ w.account[c] = None => \A s \in Slot : w.storage[c][s] = None
         /\ world[cur].account[c] = None /\ Stored(cur, c) => w.account[c] = None
         /\ b.accountChanges[n][c] = Unset => w.storage[c] = world[cur].storage[c]
<1> DEFINE u == world[cur]
<1>1. TypeInv /\ u \in Worlds /\ u.account[c] \in Content /\ u.storage[c] \in [Slot -> Content]
  <2>1. TypeInv /\ cur \in 0..cur
    BY Ranges DEF BaseInv, TypeInv
  <2>2. u \in Worlds
    BY <2>1 DEF TypeInv
  <2> HIDE DEF u
  <2> QED BY <2>1, <2>2 DEF Worlds, Accounts, Storages
<1>2. /\ ReadAccount(c) = u.account[c]
      /\ \A s \in Slot : ReadStorage(c, s) = u.storage[c][s]
  BY DEF ReadsCurrentState
<1>3. o[c] # Untouched => AfterObject(n, b, c, o[c])
  BY <1>1, WriteBlockIs
<1>4. /\ w \in Worlds
      /\ o[c] = Untouched => w.account[c] = u.account[c] /\ w.storage[c] = u.storage[c]
      /\ o[c] # Untouched =>
           /\ w.account[c] = o[c].current
           /\ \A s \in Slot : w.storage[c][s] = IF o[c].write[s] # Unset THEN o[c].write[s]
                                                ELSE IF o[c].inc THEN None ELSE u.storage[c][s]
  BY <1>1, ApplyIs
<1>5. u.account[c] = None => \A s \in Slot : u.storage[c][s] = None
  <2>1. cur \in 0..cur
    BY <1>1, Ranges DEF TypeInv
  <2> QED BY <2>1 DEF WorldInv
<1> HIDE DEF u
<1>6. CASE o[c] = Untouched
  BY <1>4, <1>5, <1>6 DEF u
<1>7. CASE o[c] # Untouched
  <2> DEFINE x == o[c]
  <2>1. IsObject(c, x) /\ x \in Objects(c)
    BY <1>7 DEF IsBlock
  <2>2. /\ ~x.inc => /\ x.current # None
                     /\ x.slotInitial = [s \in Slot |-> ReadStorage(c, s)]
        /\ x.inc => x.slotInitial = [s \in Slot |-> None]
        /\ x.current = None => x.inc /\ x.write = NoWrites
        /\ x.initial = None => ~EverStored(c)
        /\ x.inc /\ x.current = x.initial => \A s \in Slot : ReadStorage(c, s) = None
    BY <1>1, <2>1, ObjectsAre DEF OnceEffects
  <2>3. AfterObject(n, b, c, x)
    BY <1>3, <1>7
  <2>4. /\ w.account[c] = x.current
        /\ \A s \in Slot : w.storage[c][s] = IF x.write[s] # Unset THEN x.write[s]
                                             ELSE IF x.inc THEN None ELSE u.storage[c][s]
    BY <1>4, <1>7
  <2> HIDE DEF x
  <2>5. x.initial = u.account[c] /\ x.initial \in Content /\ x.current \in Content
    BY <1>1, <1>2, <2>1 DEF IsObject
  <2>6. w.account[c] = None => \A s \in Slot : w.storage[c][s] = None
    BY <2>2, <2>4 DEF NoWrites
  <2>7. Stored(cur, c) => EverStored(c)
    BY <1>1 DEF TypeInv, Stored, EverStored
  <2>8. u.account[c] = None /\ Stored(cur, c) => w.account[c] = None
    BY <2>2, <2>5, <2>7
  <2>9. ASSUME b.accountChanges[n][c] = Unset PROVE w.storage[c] = u.storage[c]
    <3>1. ~Records(x)
      BY <2>3, <2>5, <2>9, Contents DEF AfterObject
    <3>2. x.current = x.initial /\ \A s \in Slot : x.write[s] = Unset \/ x.write[s] = x.slotInitial[s]
      BY <3>1 DEF Records, Writes
    <3>3. \A s \in Slot : w.storage[c][s] = u.storage[c][s]
      <4>1. CASE x.inc
        BY <1>2, <2>2, <2>4, <3>2, <4>1
      <4>2. CASE ~x.inc
        BY <1>2, <2>2, <2>4, <3>2, <4>2
      <4> QED BY <4>1, <4>2
    <3>4. w.storage[c] \in [Slot -> Content]
      BY <1>4 DEF Worlds, Storages
    <3> QED BY <1>1, <3>3, <3>4
  <2> QED BY <2>6, <2>8, <2>9 DEF u
<1> QED BY <1>6, <1>7

\* Without an account row, the storage of an account does not change either.
LEMMA RecordedSince ==
  ASSUME BaseInv, RecordedInv, buf = EmptyBuffer, NEW a \in Addr, NEW lo \in 0..cur,
         \A k \in lo + 1..cur : db.accountCS[k][a] = Unset, NEW n \in lo..cur
  PROVE  world[n].storage[a] = world[lo].storage[a]
<1> DEFINE e == [k \in 0..cur |-> world[k].storage[a]]
<1>1. cur \in Nat /\ lo \in Nat /\ cur <= MaxBlock /\ MaxBlock \in Nat
  BY Ranges DEF BaseInv, TypeInv
<1>2. \A k \in lo + 1..cur : e[k] = e[k - 1]
  <2> SUFFICES ASSUME NEW k \in lo + 1..cur PROVE e[k] = e[k - 1]
    OBVIOUS
  <2>1. k \in 1..cur /\ k \in Block /\ k \in 0..cur /\ k - 1 \in 0..cur
    BY <1>1, Ranges
  <2>2. AccountRow(k, a) = Unset
    BY <2>1, EmptyBufferIs, EmptyRows DEF AccountRow
  <2> QED BY <2>1, <2>2 DEF RecordedInv
<1>3. lo \in 0..cur /\ n \in 0..cur /\ cur \in lo..cur
  BY <1>1
<1>4. e[n] = world[n].storage[a] /\ e[lo] = world[lo].storage[a]
  BY <1>3
<1> HIDE DEF e
<1>5. e[n] = e[lo]
  BY <1>1, <1>2, <1>3, Constant
<1> QED BY <1>4, <1>5

\* The rows of TrieStorage that are not those of block n are of an account that
\* is gone for good.
TrieRows(t, n) ==
  \A a \in Addr, s \in Slot :
    \/ t.trieStorage[a][s] \in {None, world[n].storage[a][s]}
    \/ world[n].account[a] = None /\ Stored(n, a)

\* regenerate_intermediate_hashes
LEMMA RegenerateRoot ==
  ASSUME BaseInv, HashedFollows, WorldInv, progress.hash > 0, NEW t, t = Regenerate
  PROVE  RootMatches(t.trieAccount, progress.hash) /\ TrieRows(t, progress.hash)
<1> DEFINE h == progress.hash
<1>1. /\ TypeInv /\ OrderInv /\ h \in 0..cur
  BY Ranges DEF BaseInv, TypeInv, OrderInv
<1>2. \A a \in Addr : /\ t.trieAccount[a] = Fresh(a)
                      /\ t.trieStorage[a] = IF db.hashedAccount[a] = None THEN NoStorage[a]
                                            ELSE db.hashedStorage[a]
  BY <1>1, RegenerateIs
<1> SUFFICES ASSUME NEW a \in Addr
    PROVE /\ t.trieAccount[a].account = world[h].account[a]
          /\ t.trieAccount[a].storage = world[h].storage[a]
          /\ \A s \in Slot : t.trieStorage[a][s] \in {None, world[h].storage[a][s]}
  BY DEF RootMatches, TrieRows
<1>3. /\ db.hashedAccount[a] = world[h].account[a]
      /\ db.hashedStorage[a] = world[h].storage[a]
  BY DEF HashedFollows
<1>4. world[h].storage[a] \in [Slot -> Content]
  <2>1. world[h] \in Worlds
    BY <1>1 DEF TypeInv
  <2>2. world[h].storage \in Storages
    BY <2>1 DEF Worlds
  <2> QED BY <2>2 DEF Storages
<1>5. CASE world[h].account[a] = None
  <2>1. \A s \in Slot : world[h].storage[a][s] = None
    BY <1>1, <1>5 DEF WorldInv
  <2>2. world[h].storage[a] = [s \in Slot |-> None]
    BY <1>4, <2>1
  <2>3. /\ t.trieAccount[a] = [account |-> None, storage |-> [s \in Slot |-> None]]
        /\ t.trieStorage[a] = [s \in Slot |-> None]
    BY <1>2, <1>3, <1>5 DEF Fresh, NoTrie, NoStorage
  <2> QED BY <1>5, <2>2, <2>3
<1>6. CASE world[h].account[a] # None
  <2>1. /\ t.trieAccount[a] = [account |-> world[h].account[a], storage |-> world[h].storage[a]]
        /\ t.trieStorage[a] = world[h].storage[a]
    BY <1>2, <1>3, <1>6 DEF Fresh
  <2>2. /\ t.trieAccount[a].account = world[h].account[a]
        /\ t.trieAccount[a].storage = world[h].storage[a]
    BY <2>1
  <2>3. \A s \in Slot : t.trieStorage[a][s] = world[h].storage[a][s]
    BY <2>1
  <2> QED BY <2>2, <2>3
<1> QED BY <1>5, <1>6

\* increment_intermediate_hashes
LEMMA IncrementRoot ==
  ASSUME BaseInv, HistoryInv, HashedFollows, RootInv, stage = "Interhashes",
         progress.inter > 0, progress.hash > progress.inter,
         NEW t, t = CalculateRoot(progress.inter)
  PROVE  RootMatches(t.trieAccount, progress.hash) /\ TrieRows(t, progress.hash)
<1> DEFINE h == progress.hash
           i == progress.inter
<1>1. /\ TypeInv /\ OrderInv /\ RowsExact /\ buf = EmptyBuffer
      /\ h = cur /\ h \in 0..cur /\ i \in 0..cur /\ h \in i..cur /\ h > 0 /\ i \in Nat /\ h \in Nat
      /\ WorldInv /\ RecordedInv /\ RootMatches(db.trieAccount, i) /\ TrieRows(db, i)
  BY Ranges, SMTT(30) DEF BaseInv, HistoryInv, TypeInv, OrderInv, RootInv, TrieInv, TrieRows
<1>2. Backward
  BY <1>1, HistoryBackward
<1>3. \A a \in Addr :
        /\ t.trieStorage[a] = IF Found(a, i) THEN StorageRows(a, i) ELSE db.trieStorage[a]
        /\ t.trieAccount[a] =
             IF Found(a, i)
             THEN [account |-> db.hashedAccount[a], storage |-> t.trieStorage[a]]
             ELSE IF Visited(a, i) THEN NoTrie[a] ELSE db.trieAccount[a]
  BY <1>1, CalculateRootIs
<1> HIDE DEF h, i
<1> SUFFICES ASSUME NEW a \in Addr
    PROVE /\ t.trieAccount[a].account = world[h].account[a]
          /\ t.trieAccount[a].storage = world[h].storage[a]
          /\ \A s \in Slot :
               \/ t.trieStorage[a][s] \in {None, world[h].storage[a][s]}
               \/ world[h].account[a] = None /\ Stored(h, a)
  BY DEF RootMatches, TrieRows, h
<1>4. /\ db.hashedAccount[a] = world[h].account[a]
      /\ db.hashedStorage[a] = world[h].storage[a]
  BY <1>1 DEF HashedFollows, h
<1>5. world[h].storage[a] \in [Slot -> Content]
  <2>1. world[h] \in Worlds
    BY <1>1 DEF TypeInv
  <2>2. world[h].storage \in Storages
    BY <2>1 DEF Worlds
  <2> QED BY <2>2 DEF Storages
<1>6. /\ db.trieAccount[a].account = world[i].account[a]
      /\ db.trieAccount[a].storage = world[i].storage[a]
  BY <1>1 DEF RootMatches
<1>7. \A s \in Slot :
        \/ db.trieStorage[a][s] \in {None, world[i].storage[a][s]}
        \/ world[i].account[a] = None /\ Stored(i, a)
  BY <1>1 DEF TrieRows
<1>8. Stored(i, a) => Stored(h, a)
  <2>1. \A m \in 0..i : m \in 0..h
    BY <1>1
  <2> QED BY <2>1 DEF Stored
<1>9. world[i].account[a] = None /\ Stored(i, a) => world[h].account[a] = None
  BY <1>1 DEF WorldInv
<1>10. CASE Found(a, i)
  <2>1. db.hashedAccount[a] # None
    BY <1>10 DEF Found
  <2>2. \A s \in Slot : StorageRows(a, i)[s] = world[h].storage[a][s]
    <3> SUFFICES ASSUME NEW s \in Slot PROVE StorageRows(a, i)[s] = world[h].storage[a][s]
      OBVIOUS
    <3>1. StorageRows(a, i)[s] = IF StorageChanged(a, s, i) \/ db.trieStorage[a][s] = None
                                 THEN db.hashedStorage[a][s] ELSE db.trieStorage[a][s]
      BY DEF StorageRows
    <3>2. ~StorageChanged(a, s, i) => world[h].storage[a][s] = world[i].storage[a][s]
      BY <1>1, <1>2, StorageSince
    <3> QED BY <1>4, <1>7, <1>9, <2>1, <3>1, <3>2
  <2>3. StorageRows(a, i) \in [Slot -> Content]
    BY <1>1, StorageRowsTypes
  <2>4. StorageRows(a, i) = world[h].storage[a]
    BY <1>5, <2>2, <2>3
  <2>5. /\ t.trieStorage[a] = world[h].storage[a]
        /\ t.trieAccount[a] = [account |-> world[h].account[a], storage |-> world[h].storage[a]]
    BY <1>3, <1>4, <1>10, <2>4
  <2>6. /\ t.trieAccount[a].account = world[h].account[a]
        /\ t.trieAccount[a].storage = world[h].storage[a]
    BY <2>5
  <2>7. \A s \in Slot : t.trieStorage[a][s] = world[h].storage[a][s]
    BY <2>5
  <2> QED BY <2>6, <2>7
<1>11. CASE ~Found(a, i) /\ Visited(a, i)
  <2>1. world[h].account[a] = None
    BY <1>4, <1>11 DEF Found
  <2>2. \A s \in Slot : world[h].storage[a][s] = None
    BY <1>1, <2>1 DEF WorldInv
  <2>3. world[h].storage[a] = [s \in Slot |-> None]
    BY <1>5, <2>2
  <2>4. /\ t.trieAccount[a] = [account |-> None, storage |-> [s \in Slot |-> None]]
        /\ t.trieStorage[a] = db.trieStorage[a]
    BY <1>3, <1>11 DEF NoTrie
  <2>5. \A s \in Slot : db.trieStorage[a][s] # None => Stored(i, a)
    <3>1. i \in 0..i
      BY <1>1
    <3> QED BY <1>7, <3>1 DEF Stored
  <2> QED BY <1>8, <2>1, <2>3, <2>4, <2>5
<1>12. CASE ~Found(a, i) /\ ~Visited(a, i)
  <2>1. ~AccountChanged(a, i) /\ world[i].account[a] # None
    BY <1>6, <1>12 DEF Visited
  <2>2. /\ \A k \in i + 1..cur : db.accountCS[k][a] = Unset
        /\ world[h].account[a] = world[i].account[a]
    BY <1>1, <1>2, <2>1, AccountSince
  <2>3. world[h].storage[a] = world[i].storage[a]
    BY <1>1, <2>2, RecordedSince
  <2>4. t.trieAccount[a] = db.trieAccount[a] /\ t.trieStorage[a] = db.trieStorage[a]
    BY <1>3, <1>12
  <2> QED BY <1>6, <1>7, <2>1, <2>2, <2>3, <2>4
<1> QED BY <1>10, <1>11, <1>12

\* What leaves the trie and the states up to its block alone.
LEMMA TrieSame ==
  ASSUME TypeInv, TrieInv, db'.trieAccount = db.trieAccount, db'.trieStorage = db.trieStorage,
         progress'.inter = progress.inter,
         \A m \in 0..progress.inter : world'[m] = world[m]
  PROVE  TrieInv'
<1> DEFINE i == progress.inter
<1> SUFFICES ASSUME i > 0 PROVE RootMatches(db.trieAccount, i)' /\ TrieRows(db, i)'
  BY DEF TrieInv, TrieRows
<1>1. i \in Nat /\ i \in 0..i
  BY Ranges DEF TypeInv
<1>2. world'[i] = world[i] /\ i' = i
  BY <1>1
<1>3. RootMatches(db.trieAccount, i) /\ TrieRows(db, i)
  BY DEF TrieInv, TrieRows
<1>4. \A a : Stored(i, a)' <=> Stored(i, a)
  BY <1>1, <1>2, StoredSame DEF Stored
<1> HIDE DEF i
<1>5. RootMatches(db.trieAccount, i)'
  BY <1>2, <1>3 DEF RootMatches
<1>6. TrieRows(db, i)'
  BY <1>2, <1>3, <1>4 DEF TrieRows
<1> QED BY <1>5, <1>6

\* RecordedInv after a cut.
LEMMA CutRecorded ==
  ASSUME BaseInv, RecordedInv, NEW to \in 0..progress.exec, Cut(db', to), cur' = to,
         buf' = EmptyBuffer, world' = [m \in 0..to |-> world[m]]
  PROVE  RecordedInv'
<1>1. /\ TypeInv /\ RowsInv /\ cur \in Nat /\ progress.exec \in Nat /\ progress.exec <= cur
      /\ cur <= MaxBlock /\ MaxBlock \in Nat
  BY Ranges DEF BaseInv, TypeInv, OrderInv
<1> SUFFICES ASSUME NEW m \in 1..to, NEW a \in Addr, AccountRow(m, a)' = Unset
    PROVE  world'[m].storage[a] = world'[m - 1].storage[a]
  BY DEF RecordedInv
<1>2. /\ m \in Block /\ ~(m > to) /\ ~(progress.exec < m) /\ m \in 1..cur
      /\ world'[m] = world[m] /\ world'[m - 1] = world[m - 1]
  BY <1>1, Ranges
<1>3. ~HasRows(buf.accountChanges, buf.storageChanges, m)
  BY <1>1, <1>2 DEF RowsInv
<1>4. AccountRow(m, a) = db.accountCS[m][a]
  BY <1>3 DEF HasRows, AccountRow
<1>5. AccountRow(m, a)' = db'.accountCS[m][a]
  BY <1>2, EmptyBufferIs, EmptyRows DEF AccountRow
<1>6. AccountRow(m, a) = Unset
  BY <1>2, <1>4, <1>5 DEF Cut
<1> QED BY <1>2, <1>6 DEF RecordedInv

\* RootInv at the start.
LEMMA RootInit == Init => RootInv /\ RootsAgree
<1> SUFFICES ASSUME Init PROVE RootInv /\ RootsAgree
  OBVIOUS
<1>1. PICK account \in [Addr -> {None, 1}] :
        world = [m \in {0} |-> [account |-> account, storage |-> NoStorage]]
  BY DEF Init
<1>2. \A a \in Addr, s \in Slot : world[0].storage[a][s] = None
  BY <1>1 DEF NoStorage
<1>3. cur = 0 /\ 0..0 = {0} /\ 1..0 = {} /\ progress.inter = 0
  BY DEF Init
<1>4. WorldInv
  BY <1>2, <1>3 DEF WorldInv, Stored
<1>5. RecordedInv
  BY <1>3 DEF RecordedInv
<1>6. TrieInv
  BY <1>3 DEF TrieInv
<1> QED BY <1>4, <1>5, <1>6 DEF RootInv, Init, RootsAgree

\* A block executed keeps RootInv: what is gone stays gone.
LEMMA RootExecute ==
  ASSUME BaseInv, HistoryInv, RootInv, OnceEffects, ExecuteBlock
  PROVE  RootInv' /\ RootsAgree'
<1>1. PICK n \in Block, flush \in BOOLEAN, end \in BOOLEAN, exit \in BOOLEAN :
        \E o, b : Executed(n, o, b, flush, end, exit)
  BY ExecuteBlockIs
<1>2. PICK o, b : Executed(n, o, b, flush, end, exit)
  BY <1>1
<1> DEFINE w == Apply(world[cur], o)
<1>3. /\ n = cur + 1 /\ IsBlock(o) /\ b = WriteBlock(n, o) /\ cur' = n /\ failed' = "no"
      /\ world' = [m \in 0..n |-> IF m = n THEN w ELSE world[m]]
      /\ progress' = IF end THEN [progress EXCEPT !.exec = n] ELSE progress
  BY <1>2 DEF Executed
<1>4. /\ TypeInv /\ OrderInv /\ RowsInv /\ cur \in Nat /\ n \in Nat /\ n > cur /\ cur \in 0..cur
      /\ progress.inter \in 0..cur /\ progress'.inter = progress.inter
      /\ ReadsCurrentState /\ WorldInv /\ RecordedInv /\ TrieInv
  BY <1>3, Ranges DEF BaseInv, TypeInv, OrderInv, HistoryInv, RootInv
<1>5. \A c \in Addr :
        /\ w.account[c] = None => \A s \in Slot : w.storage[c][s] = None
        /\ world[cur].account[c] = None /\ Stored(cur, c) => w.account[c] = None
        /\ b.accountChanges[n][c] = Unset => w.storage[c] = world[cur].storage[c]
  BY <1>3, <1>4, OnceBlockAt
<1> HIDE DEF w
<1>6. /\ \A m \in 0..cur : world'[m] = world[m]
      /\ world'[n] = w
  BY <1>3, <1>4
<1>7. WorldInv'
  <2> SUFFICES ASSUME NEW k \in 0..n, NEW a \in Addr, world'[k].account[a] = None
      PROVE  /\ \A s \in Slot : world'[k].storage[a][s] = None
             /\ Stored(k, a)' => \A m \in k..n : world'[m].account[a] = None
    BY <1>3 DEF WorldInv
  <2>1. CASE k = n
    <3>1. \A m \in k..n : m = n
      BY <1>4, <2>1
    <3> QED BY <1>5, <1>6, <2>1, <3>1
  <2>2. CASE k # n
    <3>1. k \in 0..cur /\ world'[k] = world[k] /\ cur \in k..cur /\ k \in Nat
      BY <1>3, <1>4, <1>6, <2>2
    <3>2. /\ \A s \in Slot : world[k].storage[a][s] = None
          /\ Stored(k, a) => \A m \in k..cur : world[m].account[a] = None
      BY <1>4, <3>1 DEF WorldInv
    <3>3. Stored(k, a)' <=> Stored(k, a)
      BY <1>4, <1>6, <3>1, StoredSame
    <3>4. ASSUME Stored(k, a), NEW m \in k..n PROVE world'[m].account[a] = None
      <4>1. CASE m = n
        <5>1. world[cur].account[a] = None
          BY <3>1, <3>2, <3>4
        <5>2. \A j \in 0..k : j \in 0..cur
          BY <1>4, <3>1
        <5>3. Stored(cur, a)
          BY <3>4, <5>2 DEF Stored
        <5> QED BY <1>5, <1>6, <4>1, <5>1, <5>3
      <4>2. CASE m # n
        <5>1. m \in k..cur /\ m \in 0..cur
          BY <1>3, <1>4, <3>1, <4>2
        <5> QED BY <1>6, <3>2, <3>4, <5>1
      <4> QED BY <4>1, <4>2
    <3> QED BY <3>1, <3>2, <3>3, <3>4
  <2> QED BY <2>1, <2>2
<1>8. RecordedInv'
  <2> SUFFICES ASSUME NEW m \in 1..n, NEW a \in Addr, AccountRow(m, a)' = Unset
      PROVE  world'[m].storage[a] = world'[m - 1].storage[a]
    BY <1>3 DEF RecordedInv
  <2>1. m \in Block
    BY <1>4, Ranges
  <2>2. AccountRow(m, a)' = IF b.accountChanges[m][a] # Unset
                            THEN b.accountChanges[m][a] ELSE db.accountCS[m][a]
    <3>1. RowsAfter(b)
      BY <1>2, ExecutedIs
    <3> QED BY <2>1, <3>1 DEF RowsAfter, AccountRowAfter, StorageRowAfter
  <2>3. CASE m = n
    <3>1. world'[n] = w /\ world'[n - 1] = world[cur]
      BY <1>3, <1>4, <1>6
    <3> QED BY <1>5, <2>2, <2>3, <3>1
  <2>4. CASE m # n
    <3>1. m \in 1..cur /\ world'[m] = world[m] /\ world'[m - 1] = world[m - 1]
      BY <1>3, <1>4, <1>6, <2>4
    <3>2. b.accountChanges[m] = buf.accountChanges[m]
      BY <1>3, <1>4, <2>1, <2>4, WriteBlockIs
    <3>3. AccountRow(m, a) = Unset
      BY <2>2, <3>2 DEF AccountRow
    <3> QED BY <1>4, <3>1, <3>3 DEF RecordedInv
  <2> QED BY <2>3, <2>4
<1>9. TrieInv'
  <2>1. db'.trieAccount = db.trieAccount /\ db'.trieStorage = db.trieStorage
    <3>1. TablesAfter(n)
      BY <1>2, ExecutedIs
    <3> QED BY <3>1 DEF TablesAfter
  <2>2. \A m \in 0..progress.inter : world'[m] = world[m]
    BY <1>4, <1>6
  <2> QED BY <1>4, <2>1, <2>2, TrieSame
<1> QED BY <1>3, <1>7, <1>8, <1>9 DEF RootInv, RootsAgree

\* Interhashes::execute finds the right root.
LEMMA RootInterhashes ==
  ASSUME BaseInv, HistoryInv, HashedFollows, RootInv, RootsAgree, ExecuteInterhashes
  PROVE  TrieInv' /\ RootsAgree'
<1>0. /\ TypeInv /\ OrderInv /\ WorldInv /\ TrieInv /\ stage = "Interhashes" /\ world' = world
      /\ progress.hash \in Nat /\ progress.inter \in Nat
  BY Ranges DEF BaseInv, RootInv, TypeInv, ExecuteInterhashes
<1>1. CASE ~(progress.hash > progress.inter)
  <2>1. UNCHANGED <<db, progress, failed>>
    BY <1>1 DEF ExecuteInterhashes
  <2>2. TrieInv'
    BY <1>0, <2>1, TrieSame
  <2> QED BY <2>1, <2>2 DEF RootsAgree
<1>2. CASE progress.hash > progress.inter
  <2>1. PICK clean \in BOOLEAN :
          LET t == IF clean THEN Regenerate ELSE Increment(progress.inter)
          IN /\ progress.inter = 0 => clean
             /\ IF RootMatches(t.trieAccount, progress.hash)
                THEN /\ db' = t
                     /\ progress' = [progress EXCEPT !.inter = progress.hash]
                     /\ UNCHANGED failed
                ELSE failed' = "root" /\ UNCHANGED <<db, progress>>
    BY <1>2 DEF ExecuteInterhashes
  <2> DEFINE t == IF clean THEN Regenerate ELSE Increment(progress.inter)
  <2>2. RootMatches(t.trieAccount, progress.hash) /\ TrieRows(t, progress.hash)
    <3>1. progress.hash > 0
      BY <1>0, <1>2
    <3>2. CASE clean
      BY <1>0, <3>1, <3>2, RegenerateRoot
    <3>3. CASE ~clean
      <4>1. progress.inter > 0
        BY <1>0, <2>1, <3>3
      <4> QED BY <1>0, <1>2, <3>3, <4>1, IncrementRoot DEF Increment
    <3> QED BY <3>2, <3>3
  <2> HIDE DEF t
  <2>3. db' = t /\ progress' = [progress EXCEPT !.inter = progress.hash] /\ failed' = failed
    BY <2>1, <2>2, Zenon DEF t
  <2>4. progress'.inter = progress.hash
    BY <1>0, <2>3 DEF TypeInv
  <2>5. \A n, a : Stored(n, a)' <=> Stored(n, a)
    BY <1>0 DEF Stored
  <2>6. RootMatches(db.trieAccount, progress.inter)'
    <3>1. \A a \in Addr : /\ t.trieAccount[a].account = world[progress.hash].account[a]
                          /\ t.trieAccount[a].storage = world[progress.hash].storage[a]
      BY <2>2 DEF RootMatches
    <3> QED BY <1>0, <2>3, <2>4, <3>1 DEF RootMatches
  <2>7. TrieRows(db, progress.inter)'
    <3>1. \A a \in Addr, s \in Slot :
            \/ t.trieStorage[a][s] \in {None, world[progress.hash].storage[a][s]}
            \/ world[progress.hash].account[a] = None /\ Stored(progress.hash, a)
      BY <2>2 DEF TrieRows
    <3> QED BY <1>0, <2>3, <2>4, <2>5, <3>1 DEF TrieRows
  <2>8. TrieInv'
    BY <2>6, <2>7 DEF TrieInv, TrieRows
  <2> QED BY <2>3, <2>8 DEF RootsAgree
<1> QED BY <1>1, <1>2

\* Every step keeps RootInv, and no root is wrong.
LEMMA RootNext ==
  ASSUME OnceEffects
  PROVE  BaseInv /\ HistoryInv /\ HashInv /\ RootInv /\ RootsAgree /\ [Next]_vars =>
           RootInv' /\ RootsAgree'
<1> SUFFICES ASSUME BaseInv, HistoryInv, HashInv, RootInv, RootsAgree, [Next]_vars
             PROVE  RootInv' /\ RootsAgree'
  OBVIOUS
<1>0. TypeInv /\ OrderInv /\ HashedFollows /\ WorldInv /\ RecordedInv /\ TrieInv
  BY DEF BaseInv, HashInv, RootInv
<1>9. ASSUME SameHistory PROVE WorldInv' /\ RecordedInv'
  <2>1. /\ \A m, a : AccountRow(m, a)' = AccountRow(m, a)
        /\ \A m, a : Stored(m, a)' <=> Stored(m, a)
    BY <1>9 DEF SameHistory, AccountRow, Stored
  <2> QED BY <1>0, <1>9, <2>1 DEF SameHistory, WorldInv, RecordedInv
<1>1. CASE AdvanceHeaders
  <2>1. SameHistory /\ TrieInv'
    BY <1>0, <1>1, TrieSame DEF AdvanceHeaders, SameHistory
  <2> QED BY <1>1, <1>9, <2>1 DEF RootInv, RootsAgree, AdvanceHeaders
<1>2. CASE ExecuteNothing
  <2>1. SameHistory /\ TrieInv'
    BY <1>0, <1>2, TrieSame DEF ExecuteNothing, SameHistory
  <2> QED BY <1>2, <1>9, <2>1 DEF RootInv, RootsAgree, ExecuteNothing
<1>3. CASE ExecuteBlock
  BY <1>3, RootExecute
<1>4. CASE ExecuteHashState
  <2>1. progress.hash \in 0..MaxBlock
    BY <1>0 DEF TypeInv
  <2>2. db' = PromoteClean \/ db' = Promote(progress.hash)
    BY <1>4 DEF ExecuteHashState
  <2>3. /\ db'.accountCS = db.accountCS /\ db'.storageCS = db.storageCS
        /\ db'.logs = db.logs /\ db'.traces = db.traces
        /\ db'.trieAccount = db.trieAccount /\ db'.trieStorage = db.trieStorage
    BY <1>0, <2>1, <2>2, PromoteIs
  <2>4. SameHistory /\ progress'.inter = progress.inter /\ failed' = failed
    BY <1>0, <1>4, <2>3 DEF ExecuteHashState, SameHistory, TypeInv
  <2>5. TrieInv'
    BY <1>0, <2>3, <2>4, TrieSame DEF SameHistory
  <2> QED BY <1>9, <2>4, <2>5 DEF RootInv, RootsAgree
<1>5. CASE ExecuteInterhashes
  <2>1. \/ db' = Regenerate \/ db' = CalculateRoot(progress.inter) \/ db' = db
    BY <1>5 DEF ExecuteInterhashes, Increment
  <2>2. /\ \/ progress' = progress
           \/ progress' = [progress EXCEPT !.inter = progress.hash]
        /\ UNCHANGED <<target, cur, buf, world, faults>>
    BY <1>5 DEF ExecuteInterhashes
  <2>3. /\ db'.accountCS = db.accountCS /\ db'.storageCS = db.storageCS
        /\ db'.logs = db.logs /\ db'.traces = db.traces
    BY <1>0, <2>1, RegenerateIs, CalculateRootIs
  <2>4. SameHistory
    BY <1>0, <2>2, <2>3 DEF SameHistory, TypeInv
  <2>5. TrieInv' /\ RootsAgree'
    BY <1>0, <1>5, RootInterhashes
  <2> QED BY <1>9, <2>4, <2>5 DEF RootInv
<1>6. CASE Unwind
  <2>1. PICK to \in 0..cur : Unwound(to)
    BY <1>0, <1>6, UnwindIs
  <2>2. /\ cur \in Nat /\ cur = progress.exec /\ buf = EmptyBuffer /\ buf' = EmptyBuffer
        /\ cur' = to /\ Cut(db', to) /\ world' = [m \in 0..to |-> world[m]]
        /\ progress'.inter = (IF progress.inter > to THEN 0 ELSE progress.inter)
        /\ progress.inter \in Nat /\ to \in Nat /\ failed' = failed
    BY <1>0, <2>1, Ranges DEF Unwound, TypeInv, OrderInv
  <2>3. WorldInv'
    BY <1>0, <2>2, CutWorlds
  <2>4. RecordedInv'
    BY <1>0, <2>2, CutRecorded
  <2>5. TrieInv'
    <3>1. CASE progress.inter > to
      <4>1. progress'.inter = 0
        BY <2>2, <3>1
      <4> QED BY <4>1 DEF TrieInv
    <3>2. CASE ~(progress.inter > to)
      <4>1. \A m \in 0..progress.inter : world'[m] = world[m]
        BY <2>2, <3>2
      <4>2. db'.trieAccount = db.trieAccount /\ db'.trieStorage = db.trieStorage
        BY <2>1, <3>2 DEF Unwound
      <4> QED BY <1>0, <2>2, <3>2, <4>1, <4>2, TrieSame
    <3> QED BY <3>1, <3>2
  <2> QED BY <2>2, <2>3, <2>4, <2>5 DEF RootInv, RootsAgree
<1>7. CASE Restart
  <2>1. Restarted
    BY <1>0, <1>7, RestartIs
  <2>2. /\ progress.exec \in 0..progress.exec /\ progress.exec \in 0..cur /\ buf' = EmptyBuffer
        /\ cur' = progress.exec /\ Cut(db', progress.exec)
        /\ world' = [m \in 0..progress.exec |-> world[m]]
        /\ progress' = progress /\ failed' = failed
        /\ db'.trieAccount = db.trieAccount /\ db'.trieStorage = db.trieStorage
        /\ progress.inter \in Nat /\ progress.inter <= progress.exec /\ progress.exec \in Nat
    BY <1>0, <2>1, Ranges DEF Restarted, TypeInv, OrderInv
  <2>3. WorldInv'
    BY <1>0, <2>2, CutWorlds
  <2>4. RecordedInv'
    BY <1>0, <2>2, CutRecorded
  <2>5. \A m \in 0..progress.inter : world'[m] = world[m]
    BY <2>2
  <2>6. TrieInv'
    BY <1>0, <2>2, <2>5, TrieSame
  <2> QED BY <2>2, <2>3, <2>4, <2>6 DEF RootInv, RootsAgree
<1>8. CASE UNCHANGED vars
  <2>1. SameHistory /\ TrieInv'
    BY <1>0, <1>8, TrieSame DEF vars, SameHistory
  <2> QED BY <1>8, <1>9, <2>1 DEF RootInv, RootsAgree, vars
<1> QED BY <1>1, <1>2, <1>3, <1>4, <1>5, <1>6, <1>7, <1>8 DEF Next

\* The state root that Interhashes calculates, from all accounts or from the
\* hashes it remembers, is the one in the header of every valid block.
THEOREM RootsAreRight ==
  ASSUME OnceEffects, NoHashLag
  PROVE  Spec => []RootsAgree
<1>1. BaseInv /\ HistoryInv /\ HashInv /\ RootInv /\ RootsAgree /\ [Next]_vars =>
        RootInv' /\ RootsAgree'
  BY RootNext
<1>2. Spec => []HistoryInv
  BY OnceHistory, HistoryInvariant
<1>3. Spec => []HashInv
  BY OnceHistory, HashInvariant
<1> QED BY <1>1, <1>2, <1>3, RootInit, BaseInvariant, PTL DEF Spec

=============================================================================
