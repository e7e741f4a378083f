------------------------ MODULE BlockExecutionProofs ------------------------
(***************************************************************************)
(* What is proved of BlockExecution.  A step of a message extends the      *)
(* state with changes that their deltas undo (Ext); so the snapshots on    *)
(* the stack go on leading back to the worlds they were taken of           *)
(* (Revertible), and what happens is what Rollback allows.  The states     *)
(* that messages would be reverted to keep their original values as well   *)
(* (Remembered), and their balances and refund stay covered (Funded).      *)
(***************************************************************************)
EXTENDS BlockExecution, NatLemmas, FiniteSetTheorems, SequenceTheorems

-----------------------------------------------------------------------------
(* States of an IntraBlockState and their fields *)

\* What membership in States says of each field.
LEMMA StateTypes ==
  ASSUME NEW s \in States
  PROVE  /\ s.objects \in [DOMAIN s.objects -> Objects]
         /\ DOMAIN s.objects \subseteq Addr
         /\ s.storage \in [DOMAIN s.storage -> Storages]
         /\ DOMAIN s.storage \subseteq Addr
         /\ s.incarnations \in [Addr -> Int] /\ s.newCode \in SUBSET Code
         /\ s.journal \in Seq(Deltas) /\ s.selfDestructs \in SUBSET Addr
         /\ s.logs \in Seq(Addr) /\ s.touched \in SUBSET Addr /\ s.refund \in Int
         /\ s.accessed \in SUBSET Addr /\ s.accessedKeys \in SUBSET (Addr \X Slot)
BY DEF States, Partial

\* A state is the record of its fields.
LEMMA StateRecord ==
  ASSUME NEW s \in States
  PROVE  s = [objects |-> s.objects, storage |-> s.storage,
              incarnations |-> s.incarnations, newCode |-> s.newCode,
              journal |-> s.journal, selfDestructs |-> s.selfDestructs, logs |-> s.logs,
              touched |-> s.touched, refund |-> s.refund, accessed |-> s.accessed,
              accessedKeys |-> s.accessedKeys]
BY DEF States

\* The components of a cached storage.
LEMMA StorageTypes ==
  ASSUME NEW b \in Storages
  PROVE  /\ b = [committed |-> b.committed, current |-> b.current]
         /\ DOMAIN b.committed \subseteq Slot /\ DOMAIN b.current \subseteq Slot
         /\ b.committed \in [DOMAIN b.committed -> [initial : Nat, original : Nat]]
         /\ b.current \in [DOMAIN b.current -> Nat]
BY DEF Storages, Partial

\* A storage is put together from typed maps.
LEMMA StorageOf ==
  ASSUME NEW f, f \in [DOMAIN f -> [initial : Nat, original : Nat]],
         DOMAIN f \subseteq Slot,
         NEW g, g \in [DOMAIN g -> Nat], DOMAIN g \subseteq Slot
  PROVE  [committed |-> f, current |-> g] \in Storages
BY DEF Storages, Partial

\* An account's storage starts with nothing cached.
LEMMA NewStorageType == NewStorage \in Storages /\ DOMAIN NewStorage.committed = {}
                        /\ DOMAIN NewStorage.current = {}
<1>1. Empty \in [DOMAIN Empty -> Nat] /\ DOMAIN Empty = {}
      /\ Empty \in [DOMAIN Empty -> [initial : Nat, original : Nat]]
  BY DEF Empty
<1> QED BY <1>1, StorageOf DEF NewStorage

\* The kinds of delta, with what they carry.
LEMMA DeltaTypes ==
  ASSUME NEW d \in Deltas
  PROVE  /\ d.addr \in Addr
         /\ d.op \in {"Create", "Update", "UpdateBalance", "Incarnation", "Selfdestruct",
                      "Touch", "StorageChange", "StorageWipe", "StorageCreate",
                      "StorageAccess", "AccountAccess"}
         /\ d.op = "Update" => d.prev \in Objects
         /\ d.op = "UpdateBalance" => d.prev \in Int
         /\ d.op = "StorageChange" => d.key \in Slot /\ d.prev \in Nat
         /\ d.op = "StorageWipe" => d.prev \in Storages
         /\ d.op = "StorageAccess" => d.key \in Slot
BY DEF Deltas

\* The parts of a map to which a key is put, or from which one is dropped.
LEMMA PutIs ==
  ASSUME NEW f, NEW k, NEW v
  PROVE  /\ DOMAIN Put(f, k, v) = DOMAIN f \cup {k}
         /\ Put(f, k, v)[k] = v
         /\ \A x \in DOMAIN f : x # k => Put(f, k, v)[x] = f[x]
BY DEF Put

\* Putting a value keeps a map a map.
LEMMA PutType ==
  ASSUME NEW f, NEW k, NEW R, NEW v \in R, f \in [DOMAIN f -> R]
  PROVE  Put(f, k, v) \in [DOMAIN f \cup {k} -> R]
BY DEF Put

\* What is left of a map when a key is removed.
LEMMA DropIs ==
  ASSUME NEW f, NEW k
  PROVE  /\ DOMAIN Drop(f, k) = DOMAIN f \ {k}
         /\ \A x \in DOMAIN f : x # k => Drop(f, k)[x] = f[x]
         /\ \A R : f \in [DOMAIN f -> R] => Drop(f, k) \in [DOMAIN f \ {k} -> R]
BY DEF Drop

-----------------------------------------------------------------------------
(* Undo: one turn of revert_to_snapshot *)

\* The first elements of a sequence.
LEMMA PrefixIs ==
  ASSUME NEW R, NEW j \in Seq(R), NEW n \in Nat, n <= Len(j)
  PROVE  /\ SubSeq(j, 1, n) \in Seq(R)
         /\ Len(SubSeq(j, 1, n)) = n
         /\ \A i \in 1 .. n : SubSeq(j, 1, n)[i] = j[i]
<1>1. SubSeq(j, 1, n) \in Seq(R)
  OBVIOUS
<1>2. Len(SubSeq(j, 1, n)) = n
  OBVIOUS
<1>3. \A i \in 1 .. n : SubSeq(j, 1, n)[i] = j[i]
  OBVIOUS
<1> QED BY <1>1, <1>2, <1>3

\* A sequence without its last element.
LEMMA FrontIs ==
  ASSUME NEW R, NEW j \in Seq(R), j # <<>>
  PROVE  /\ Front(j) \in Seq(R) /\ Len(j) \in Nat \ {0}
         /\ Len(Front(j)) = Len(j) - 1
         /\ \A i \in 1 .. Len(j) - 1 : Front(j)[i] = j[i]
         /\ Last(j) = j[Len(j)] /\ Last(j) \in R
<1>1. Len(j) \in Nat \ {0}
  OBVIOUS
<1>2. Last(j) = j[Len(j)] /\ Last(j) \in R
  BY <1>1, ElementOfSeq DEF Last
<1>3. Len(j) - 1 \in Nat /\ Len(j) - 1 <= Len(j)
  BY <1>1
<1> QED BY <1>1, <1>2, <1>3, PrefixIs DEF Front

\* Taking back what was appended.
LEMMA FrontAppend ==
  ASSUME NEW R, NEW j \in Seq(R), NEW d \in R
  PROVE  Front(Append(j, d)) = j
<1> DEFINE k == Append(j, d)
<1>1. k \in Seq(R) /\ k # <<>> /\ Len(k) = Len(j) + 1 /\ Len(j) \in Nat
      /\ \A i \in 1 .. Len(j) : k[i] = j[i]
  BY AppendProperties
<1> HIDE DEF k
<1>2. /\ Front(k) \in Seq(R) /\ Len(Front(k)) = Len(j)
      /\ \A i \in 1 .. Len(j) : Front(k)[i] = j[i]
  BY <1>1, FrontIs
<1>3. Front(k) = j
  BY <1>2, SeqEqual
<1> QED BY <1>3 DEF k

LastDelta(t) == t.journal[Len(t.journal)]

\* What is left of the objects when the last delta is undone.
ObjectsBefore(t, d) ==
  IF d.op = "Create" THEN Drop(t.objects, d.addr)
  ELSE IF d.op = "Update" THEN Put(t.objects, d.addr, d.prev)
  ELSE IF d.op = "UpdateBalance"
  THEN [t.objects EXCEPT ![d.addr].current.balance = d.prev]
  ELSE t.objects

\* What is left of the storage.
StorageBefore(t, d) ==
  IF d.op = "StorageChange"
  THEN [EnsureStorage(t, d.addr).storage EXCEPT ![d.addr].current = Put(@, d.key, d.prev)]
  ELSE IF d.op = "StorageWipe" THEN Put(t.storage, d.addr, d.prev)
  ELSE IF d.op = "StorageCreate" THEN Drop(t.storage, d.addr)
  ELSE t.storage

\* A turn of revert_to_snapshot, field by field.
LEMMA UndoIs ==
  ASSUME NEW t \in States, t.journal # <<>>
  PROVE  Undo(t) =
    [objects |-> ObjectsBefore(t, LastDelta(t)), storage |-> StorageBefore(t, LastDelta(t)),
     incarnations |-> IF LastDelta(t).op = "Incarnation"
                      THEN [t.incarnations EXCEPT ![LastDelta(t).addr] = @ - 1]
                      ELSE t.incarnations,
     newCode |-> t.newCode, journal |-> Front(t.journal),
     selfDestructs |-> IF LastDelta(t).op = "Selfdestruct" THEN t.selfDestructs \ {LastDelta(t).addr}
                       ELSE t.selfDestructs,
     logs |-> t.logs,
     touched |-> IF LastDelta(t).op = "Touch" THEN t.touched \ {LastDelta(t).addr} ELSE t.touched,
     refund |-> t.refund,
     accessed |-> IF LastDelta(t).op = "AccountAccess" THEN t.accessed \ {LastDelta(t).addr} ELSE t.accessed,
     accessedKeys |-> IF LastDelta(t).op = "StorageAccess"
                      THEN t.accessedKeys \ {<<LastDelta(t).addr, LastDelta(t).key>>} ELSE t.accessedKeys]
<1> DEFINE d == LastDelta(t)
           c == [t EXCEPT !.journal = Front(@)]
<1>1. Undo(t) = RevertDelta(c, d)
  BY DEF Undo, LastDelta, Last
<1>2. d \in Deltas
  BY StateTypes, FrontIs DEF LastDelta
<1>3. c = [objects |-> t.objects, storage |-> t.storage, incarnations |-> t.incarnations,
           newCode |-> t.newCode, journal |-> Front(t.journal),
           selfDestructs |-> t.selfDestructs, logs |-> t.logs, touched |-> t.touched,
           refund |-> t.refund, accessed |-> t.accessed, accessedKeys |-> t.accessedKeys]
  BY StateRecord
<1> HIDE DEF c, d
<1>4. CASE d.op = "Create"
  BY <1>1, <1>3, <1>4 DEF RevertDelta, ObjectsBefore, StorageBefore, d
<1>5. CASE d.op = "Update"
  BY <1>1, <1>3, <1>5 DEF RevertDelta, ObjectsBefore, StorageBefore, d
<1>6. CASE d.op = "UpdateBalance"
  BY <1>1, <1>3, <1>6 DEF RevertDelta, ObjectsBefore, StorageBefore, d
<1>7. CASE d.op = "Incarnation"
  BY <1>1, <1>3, <1>7 DEF RevertDelta, ObjectsBefore, StorageBefore, d
<1>8. CASE d.op = "Selfdestruct"
  BY <1>1, <1>3, <1>8 DEF RevertDelta, ObjectsBefore, StorageBefore, d
<1>9. CASE d.op = "Touch"
  BY <1>1, <1>3, <1>9 DEF RevertDelta, ObjectsBefore, StorageBefore, d
<1>10. CASE d.op = "StorageChange"
  BY <1>1, <1>3, <1>10 DEF RevertDelta, ObjectsBefore, StorageBefore, d, EnsureStorage
<1>11. CASE d.op = "StorageWipe"
  BY <1>1, <1>3, <1>11 DEF RevertDelta, ObjectsBefore, StorageBefore, d
<1>12. CASE d.op = "StorageCreate"
  BY <1>1, <1>3, <1>12 DEF RevertDelta, ObjectsBefore, StorageBefore, d
<1>13. CASE d.op = "StorageAccess"
  BY <1>1, <1>3, <1>13 DEF RevertDelta, ObjectsBefore, StorageBefore, d
<1>14. CASE d.op = "AccountAccess"
  BY <1>1, <1>3, <1>14 DEF RevertDelta, ObjectsBefore, StorageBefore, d
<1> QED BY <1>2, <1>4, <1>5, <1>6, <1>7, <1>8, <1>9, <1>10, <1>11, <1>12, <1>13, <1>14,
           DeltaTypes DEF d

\* The states that n turns lead to.
LEMMA UndoneIs ==
  ASSUME NEW s, Len(s.journal) \in Nat
  PROVE  /\ Undone(s)[0] = s
         /\ \A n \in 1 .. Len(s.journal) : Undone(s)[n] = Undo(Undone(s)[n - 1])
<1> DEFINE N == Len(s.journal)
           Val(f, n) == IF n = 0 THEN s ELSE Undo(f[n - 1])
           Upto(f, k) == \A n \in 0 .. k : f[n] = Val(f, n)
           T == {k \in Nat : ~ \E f : Upto(f, k)}
<1>1. \E f : Upto(f, 0)
  <2>1. Upto([n \in 0 .. 0 |-> s], 0)
    OBVIOUS
  <2> QED BY <2>1
<1>2. ASSUME NEW k \in Nat, NEW f, Upto(f, k) PROVE \E g : Upto(g, k + 1)
  <2> DEFINE g == [n \in 0 .. k + 1 |-> IF n <= k THEN f[n] ELSE Undo(f[k])]
  <2>1. ASSUME NEW n \in 0 .. k + 1 PROVE g[n] = Val(g, n)
    <3>1. CASE n <= k
      <4>1. g[n] = f[n] /\ f[n] = Val(f, n)
        BY <1>2, <3>1
      <4>2. n # 0 => n - 1 \in 0 .. k + 1 /\ n - 1 <= k
        OBVIOUS
      <4>3. n # 0 => g[n - 1] = f[n - 1]
        BY <4>2
      <4> QED BY <4>1, <4>3
    <3>2. CASE n = k + 1
      <4>1. g[n] = Undo(f[k]) /\ n # 0 /\ n - 1 = k
        BY <3>2
      <4>2. g[n - 1] = f[k]
        BY <4>1
      <4> QED BY <4>1, <4>2
    <3> QED BY <3>1, <3>2
  <2> HIDE DEF g
  <2>2. Upto(g, k + 1)
    <3> HIDE DEF Val
    <3> QED BY <2>1
  <2> QED BY <2>2
<1>3. T = {}
  <2> HIDE DEF Upto
  <2> SUFFICES ASSUME T # {} PROVE FALSE
    OBVIOUS
  <2>1. PICK m \in T : \A k \in T : m <= k
    BY LeastNat, T \subseteq Nat
  <2>2. m # 0
    BY <1>1
  <2>3. m - 1 \in Nat /\ m - 1 \notin T
    BY <2>1, <2>2
  <2>4. \E f : Upto(f, (m - 1) + 1)
    BY <1>2, <2>3
  <2> QED BY <2>4, (m - 1) + 1 = m
<1>4. PICK f : Upto(f, N)
  <2> HIDE DEF Upto
  <2> QED BY <1>3
<1> DEFINE h == [n \in 0 .. N |-> f[n]]
<1>5. h = [n \in 0 .. N |-> IF n = 0 THEN s ELSE With(h[n - 1], Undo)]
  <2>1. ASSUME NEW n \in 0 .. N
        PROVE  f[n] = IF n = 0 THEN s ELSE With(h[n - 1], Undo)
    <3>1. CASE n = 0
      BY <1>4, <3>1
    <3>2. CASE n # 0
      <4>1. n - 1 \in 0 .. N
        BY <3>2
      <4>2. h[n - 1] = f[n - 1]
        BY <4>1
      <4>3. f[n] = Undo(f[n - 1])
        BY <1>4, <3>2
      <4>4. With(h[n - 1], Undo) = Undo(h[n - 1])
        BY DEF With
      <4> QED BY <3>2, <4>2, <4>3, <4>4
    <3> QED BY <3>1, <3>2
  <2> QED BY <2>1
<1> HIDE DEF h
<1> DEFINE u == Undone(s)
<1>6. u = [n \in 0 .. N |-> IF n = 0 THEN s ELSE With(u[n - 1], Undo)]
  BY <1>5 DEF Undone
<1> HIDE DEF u
<1>7. u[0] = s
  BY <1>6
<1>8. ASSUME NEW n \in 1 .. N PROVE u[n] = Undo(u[n - 1])
  <2>1. u[n] = With(u[n - 1], Undo)
    BY <1>6
  <2> QED BY <2>1 DEF With
<1> QED BY <1>7, <1>8 DEF u

-----------------------------------------------------------------------------
(* What a state shows, whatever it has cached *)

\* The value of a slot that is not cached.
Fresh(a, k, inc) ==
  IF ReadAccount(a) = None \/ inc > 0 THEN 0 ELSE db.storage[<<a, k>>]

OriginalIn(b, a, k, inc) ==
  IF k \in DOMAIN b.committed THEN b.committed[k].original ELSE Fresh(a, k, inc)
CurrentIn(b, a, k, inc) ==
  IF k \in DOMAIN b.current THEN b.current[k] ELSE OriginalIn(b, a, k, inc)

Box(s, a) == IF a \in DOMAIN s.storage THEN s.storage[a] ELSE NewStorage

\* create_contract leaves the deltas of an account, its incarnation and its
\* storage.  Between the undoing of the last two the storage is that of the
\* incarnation before.
HalfUndone(s, a) ==
  /\ s.journal # <<>>
  /\ s.journal[Len(s.journal)].op = "Incarnation"
  /\ s.journal[Len(s.journal)].addr = a

Incarnation(s, a) ==
  IF HalfUndone(s, a) THEN s.incarnations[a] - 1 ELSE s.incarnations[a]

Original(s, a, k) == OriginalIn(Box(s, a), a, k, Incarnation(s, a))
Current(s, a, k) == CurrentIn(Box(s, a), a, k, Incarnation(s, a))

\* Two states with the same journal that show the same.
SameView(s, t) ==
  /\ s.journal = t.journal
  /\ s.incarnations = t.incarnations
  /\ s.selfDestructs = t.selfDestructs
  /\ s.touched \ {RIPEMD_ADDRESS} = t.touched \ {RIPEMD_ADDRESS}
  /\ s.accessed = t.accessed
  /\ s.accessedKeys = t.accessedKeys
  /\ \A a \in Addr : Account(s, a) = Account(t, a)
  /\ \A a \in Addr, k \in Slot : Original(s, a, k) = Original(t, a, k)
  /\ \A a \in Addr, k \in Slot : Current(s, a, k) = Current(t, a, k)

\* The delta at i of a journal can be undone when its turn comes: an object is
\* that of the account in the database, a balance is that of an account that
\* is there, and the deltas of create_contract are next to each other.
DeltaSound(s, i) ==
  LET j == s.journal
      d == s.journal[i]
  IN /\ d.op = "Update" => d.prev.initial = ReadAccount(d.addr)
     /\ d.op = "Incarnation" /\ i < Len(j) =>
          j[i + 1].op \in {"StorageWipe", "StorageCreate"} /\ j[i + 1].addr = d.addr
     /\ d.op \in {"StorageWipe", "StorageCreate"} =>
          i > 1 /\ j[i - 1].op = "Incarnation" /\ j[i - 1].addr = d.addr
     /\ d.op = "UpdateBalance" =>
          /\ d.addr \in DOMAIN s.objects /\ s.objects[d.addr].current # None
          /\ \A n \in i + 1 .. Len(j) :
               j[n].addr = d.addr =>
                 /\ j[n].op # "Create"
                 /\ j[n].op = "Update" => j[n].prev.current # None

InitialsMatch(s) == \A a \in DOMAIN s.objects : s.objects[a].initial = ReadAccount(a)

Sound(s) ==
  /\ db \in Databases
  /\ s \in States
  /\ InitialsMatch(s)
  /\ \A i \in 1 .. Len(s.journal) : DeltaSound(s, i)

Settled(s) == s.journal # <<>> => s.journal[Len(s.journal)].op # "Incarnation"

Good(s) == Sound(s) /\ Settled(s)

-----------------------------------------------------------------------------
(* A turn of revert_to_snapshot *)

\* An object in which the balance is replaced.
LEMMA BalanceExcept ==
  ASSUME NEW o \in Objects, o.current # None, NEW v \in Int
  PROVE  /\ [o EXCEPT !.current.balance = v] =
              [initial |-> o.initial, current |-> [o.current EXCEPT !.balance = v]]
         /\ [o.current EXCEPT !.balance = v] \in Accounts
         /\ [o EXCEPT !.current.balance = v] \in Objects
<1>1. o.current \in Accounts
  BY DEF Objects
<1>2. [o.current EXCEPT !.balance = v] \in Accounts
  BY <1>1 DEF Accounts
<1>3. [o EXCEPT !.current.balance = v] =
              [initial |-> o.initial, current |-> [o.current EXCEPT !.balance = v]]
  BY DEF Objects
<1>4. o.initial \in Accounts \cup {None}
  BY DEF Objects
<1> QED BY <1>2, <1>3, <1>4 DEF Objects

\* The objects after a turn.
ObjectsUndone(t, d, f) ==
  /\ f \in [DOMAIN f -> Objects] /\ DOMAIN f \subseteq Addr
  /\ DOMAIN f = IF d.op = "Create" THEN DOMAIN t.objects \ {d.addr}
                ELSE IF d.op = "Update" THEN DOMAIN t.objects \cup {d.addr}
                ELSE DOMAIN t.objects
  /\ \A a \in DOMAIN f : a \in DOMAIN t.objects /\ a # d.addr => f[a] = t.objects[a]
  /\ d.op = "Update" => f[d.addr] = d.prev
  /\ d.op = "UpdateBalance" =>
       /\ d.addr \in DOMAIN t.objects /\ t.objects[d.addr].current # None
       /\ f[d.addr].current = [t.objects[d.addr].current EXCEPT !.balance = d.prev]
       /\ f[d.addr].current # None
  /\ d.op \notin {"Create", "Update", "UpdateBalance"} => f = t.objects
  /\ \A a \in DOMAIN f : f[a].initial = ReadAccount(a)

\* A turn leaves the objects as ObjectsUndone says.
LEMMA ObjectsAfter ==
  ASSUME NEW t, Sound(t), t.journal # <<>>
  PROVE  ObjectsUndone(t, LastDelta(t), ObjectsBefore(t, LastDelta(t)))
<1> DEFINE d == LastDelta(t)
           f == ObjectsBefore(t, d)
<1> SUFFICES ObjectsUndone(t, d, f)
  OBVIOUS
<1>1. /\ t \in States /\ InitialsMatch(t) /\ DeltaSound(t, Len(t.journal))
      /\ d \in Deltas
  <2>1. t \in States /\ InitialsMatch(t)
    BY DEF Sound
  <2>2. Len(t.journal) \in 1 .. Len(t.journal) /\ d \in Deltas
    BY <2>1, StateTypes, FrontIs DEF LastDelta
  <2> QED BY <2>1, <2>2 DEF Sound
<1>2. /\ t.objects \in [DOMAIN t.objects -> Objects] /\ DOMAIN t.objects \subseteq Addr
  BY <1>1, StateTypes
<1>3. d.addr \in Addr /\ (d.op = "Update" => d.prev \in Objects)
      /\ (d.op = "UpdateBalance" => d.prev \in Int)
  BY <1>1, DeltaTypes
<1>4. \A a \in DOMAIN t.objects : t.objects[a].initial = ReadAccount(a)
  BY <1>1 DEF InitialsMatch
<1> HIDE DEF d
<1>5. CASE d.op = "Create"
  <2>1. f = Drop(t.objects, d.addr)
    BY <1>5 DEF ObjectsBefore
  <2> QED BY <1>2, <1>3, <1>4, <1>5, <2>1 DEF Drop, ObjectsUndone
<1>6. CASE d.op = "Update"
  <2>1. f = Put(t.objects, d.addr, d.prev)
    BY <1>6 DEF ObjectsBefore
  <2>2. d.prev.initial = ReadAccount(d.addr)
    BY <1>1, <1>6 DEF DeltaSound, LastDelta, d
  <2>3. f \in [DOMAIN t.objects \cup {d.addr} -> Objects]
    BY <1>2, <1>3, <1>6, <2>1 DEF Put
  <2>4. /\ DOMAIN f = DOMAIN t.objects \cup {d.addr}
        /\ f[d.addr] = d.prev
        /\ \A x \in DOMAIN t.objects : x # d.addr => f[x] = t.objects[x]
    BY <2>1 DEF Put
  <2> HIDE DEF f
  <2> QED BY <1>2, <1>3, <1>4, <1>6, <2>2, <2>3, <2>4 DEF ObjectsUndone
<1>7. CASE d.op = "UpdateBalance"
  <2>1. f = [t.objects EXCEPT ![d.addr].current.balance = d.prev]
    BY <1>7 DEF ObjectsBefore
  <2>2. d.addr \in DOMAIN t.objects /\ t.objects[d.addr].current # None
    BY <1>1, <1>7 DEF DeltaSound, LastDelta, d
  <2> DEFINE o == t.objects[d.addr]
  <2>3. /\ [o EXCEPT !.current.balance = d.prev] =
              [initial |-> o.initial, current |-> [o.current EXCEPT !.balance = d.prev]]
        /\ [o.current EXCEPT !.balance = d.prev] \in Accounts
        /\ [o EXCEPT !.current.balance = d.prev] \in Objects
    BY <1>2, <1>3, <1>7, <2>2, BalanceExcept
  <2>4. /\ DOMAIN f = DOMAIN t.objects
        /\ f[d.addr] = [o EXCEPT !.current.balance = d.prev]
        /\ \A x \in DOMAIN t.objects : x # d.addr => f[x] = t.objects[x]
    BY <1>2, <2>1, <2>2
  <2>5. f \in [DOMAIN f -> Objects]
    <3>1. f = [x \in DOMAIN f |-> f[x]]
      BY <2>1
    <3>2. \A x \in DOMAIN f : f[x] \in Objects
      <4>1. f[d.addr] \in Objects
        BY <2>3, <2>4
      <4>2. \A x \in DOMAIN t.objects : t.objects[x] \in Objects
        BY <1>2
      <4> HIDE DEF o
      <4> QED BY <2>4, <4>1, <4>2
    <3> QED BY <3>1, <3>2
  <2>6. f[d.addr].current # None
    BY <2>3, <2>4, NoneAssumption
  <2>7. \A a \in DOMAIN f : f[a].initial = ReadAccount(a)
    <3>1. f[d.addr].initial = o.initial
      BY <2>3, <2>4
    <3>2. \A a \in DOMAIN t.objects : a # d.addr => f[a].initial = ReadAccount(a)
      BY <1>4, <2>4
    <3>3. f[d.addr].initial = ReadAccount(d.addr)
      BY <1>4, <2>2, <3>1
    <3> HIDE DEF o
    <3> QED BY <2>4, <3>2, <3>3
  <2>8. f[d.addr].current = [o.current EXCEPT !.balance = d.prev]
    BY <2>3, <2>4
  <2> HIDE DEF f
  <2> QED BY <1>2, <1>7, <2>2, <2>4, <2>5, <2>6, <2>7, <2>8 DEF ObjectsUndone
<1>8. CASE d.op \notin {"Create", "Update", "UpdateBalance"}
  <2>1. f = t.objects
    BY <1>8 DEF ObjectsBefore
  <2> HIDE DEF f
  <2> QED BY <1>2, <1>4, <1>8, <2>1 DEF ObjectsUndone
<1> QED BY <1>5, <1>6, <1>7, <1>8

\* Storage with a value replaced.
LEMMA ChangedStorage ==
  ASSUME NEW b \in Storages, NEW k \in Slot, NEW v \in Nat,
         NEW c, c = [committed |-> b.committed, current |-> Put(b.current, k, v)]
  PROVE  /\ c \in Storages /\ c.committed = b.committed
         /\ [b EXCEPT !.current = Put(@, k, v)] = c
         /\ DOMAIN c.current = DOMAIN b.current \cup {k} /\ c.current[k] = v
         /\ \A x \in DOMAIN b.current : x # k => c.current[x] = b.current[x]
<1>1. Put(b.current, k, v) \in [DOMAIN b.current \cup {k} -> Nat]
  BY StorageTypes, PutType
<1>2. /\ DOMAIN Put(b.current, k, v) = DOMAIN b.current \cup {k}
      /\ Put(b.current, k, v)[k] = v
      /\ \A x \in DOMAIN b.current : x # k => Put(b.current, k, v)[x] = b.current[x]
  BY DEF Put
<1>3. c \in Storages
  BY <1>1, <1>2, StorageTypes, StorageOf
<1>4. [b EXCEPT !.current = Put(@, k, v)] = c
  BY StorageTypes DEF Storages
<1> QED BY <1>2, <1>3, <1>4

\* A box for the storage of an account is made when there is none.
LEMMA EnsureStorageIs ==
  ASSUME NEW t \in States, NEW a \in Addr
  PROVE  /\ EnsureStorage(t, a).storage \in [DOMAIN t.storage \cup {a} -> Storages]
         /\ \A x \in DOMAIN t.storage : EnsureStorage(t, a).storage[x] = t.storage[x]
         /\ EnsureStorage(t, a).storage[a] = Box(t, a)
         /\ EnsureStorage(t, a) = [t EXCEPT !.storage = EnsureStorage(t, a).storage]
<1>1. t.storage \in [DOMAIN t.storage -> Storages]
  BY StateTypes
<1>2. CASE a \in DOMAIN t.storage
  <2>1. EnsureStorage(t, a) = t /\ Box(t, a) = t.storage[a]
    BY <1>2 DEF EnsureStorage, Box
  <2>2. DOMAIN t.storage \cup {a} = DOMAIN t.storage
    BY <1>2
  <2>3. t = [t EXCEPT !.storage = t.storage]
    BY DEF States
  <2> QED BY <1>1, <2>1, <2>2, <2>3
<1>3. CASE a \notin DOMAIN t.storage
  <2>1. EnsureStorage(t, a) = [t EXCEPT !.storage = Put(@, a, NewStorage)]
    BY <1>3 DEF EnsureStorage
  <2>2. EnsureStorage(t, a).storage = Put(t.storage, a, NewStorage)
    BY <2>1 DEF States
  <2>3. Box(t, a) = NewStorage
    BY <1>3 DEF Box
  <2>4. Put(t.storage, a, NewStorage) \in [DOMAIN t.storage \cup {a} -> Storages]
    BY <1>1, PutType, NewStorageType
  <2>5. /\ Put(t.storage, a, NewStorage)[a] = NewStorage
        /\ \A x \in DOMAIN t.storage : Put(t.storage, a, NewStorage)[x] = t.storage[x]
    BY <1>3 DEF Put
  <2> QED BY <2>1, <2>2, <2>3, <2>4, <2>5
<1> QED BY <1>2, <1>3

\* The storage after a turn.
StorageUndone(t, d, f) ==
  /\ f \in [DOMAIN f -> Storages] /\ DOMAIN f \subseteq Addr
  /\ \A a \in Addr \ {d.addr} : /\ a \in DOMAIN f <=> a \in DOMAIN t.storage
                                /\ a \in DOMAIN f => f[a] = t.storage[a]
  /\ d.op = "StorageChange" =>
       /\ d.addr \in DOMAIN f
       /\ f[d.addr] = [committed |-> Box(t, d.addr).committed,
                       current |-> Put(Box(t, d.addr).current, d.key, d.prev)]
  /\ d.op = "StorageWipe" => d.addr \in DOMAIN f /\ f[d.addr] = d.prev
  /\ d.op = "StorageCreate" => d.addr \notin DOMAIN f
  /\ d.op \notin {"StorageChange", "StorageWipe", "StorageCreate"} => f = t.storage

\* A turn leaves the storage as StorageUndone says.
LEMMA StorageAfter ==
  ASSUME NEW t \in States, t.journal # <<>>
  PROVE  StorageUndone(t, LastDelta(t), StorageBefore(t, LastDelta(t)))
<1> DEFINE d == LastDelta(t)
           f == StorageBefore(t, d)
<1> SUFFICES StorageUndone(t, d, f)
  OBVIOUS
<1>1. d \in Deltas
  BY StateTypes, FrontIs DEF LastDelta
<1>2. t.storage \in [DOMAIN t.storage -> Storages] /\ DOMAIN t.storage \subseteq Addr
  BY StateTypes
<1>3. /\ d.addr \in Addr
      /\ d.op = "StorageChange" => d.key \in Slot /\ d.prev \in Nat
      /\ d.op = "StorageWipe" => d.prev \in Storages
  BY <1>1, DeltaTypes
<1> HIDE DEF d
<1>4. CASE d.op = "StorageChange"
  <2> DEFINE g == EnsureStorage(t, d.addr).storage
             c == [committed |-> Box(t, d.addr).committed,
                   current |-> Put(Box(t, d.addr).current, d.key, d.prev)]
  <2>1. f = [g EXCEPT ![d.addr].current = Put(@, d.key, d.prev)]
    BY <1>4 DEF StorageBefore
  <2>2. /\ g \in [DOMAIN t.storage \cup {d.addr} -> Storages]
        /\ \A x \in DOMAIN t.storage : g[x] = t.storage[x]
        /\ g[d.addr] = Box(t, d.addr)
    BY <1>3, EnsureStorageIs
  <2>3. Box(t, d.addr) \in Storages
    BY <1>2, NewStorageType DEF Box
  <2> HIDE DEF g
  <2>4. c \in Storages /\ [Box(t, d.addr) EXCEPT !.current = Put(@, d.key, d.prev)] = c
    BY <1>3, <1>4, <2>3, ChangedStorage
  <2>5. f = [g EXCEPT ![d.addr] = c]
    BY <2>1, <2>2, <2>4
  <2> HIDE DEF c
  <2>6. /\ DOMAIN f = DOMAIN t.storage \cup {d.addr} /\ f[d.addr] = c
        /\ \A x \in DOMAIN t.storage : x # d.addr => f[x] = t.storage[x]
        /\ f \in [DOMAIN f -> Storages]
    BY <2>2, <2>4, <2>5
  <2> HIDE DEF f
  <2> QED BY <1>2, <1>3, <1>4, <2>6 DEF c, StorageUndone
<1>5. CASE d.op = "StorageWipe"
  <2>1. f = Put(t.storage, d.addr, d.prev)
    BY <1>5 DEF StorageBefore
  <2> QED BY <1>2, <1>3, <1>5, <2>1 DEF Put, StorageUndone
<1>6. CASE d.op = "StorageCreate"
  <2>1. f = Drop(t.storage, d.addr)
    BY <1>6 DEF StorageBefore
  <2> QED BY <1>2, <1>3, <1>6, <2>1 DEF Drop, StorageUndone
<1>7. CASE d.op \notin {"StorageChange", "StorageWipe", "StorageCreate"}
  <2>1. f = t.storage
    BY <1>7 DEF StorageBefore
  <2> HIDE DEF f
  <2> QED BY <1>2, <1>7, <2>1 DEF StorageUndone
<1> QED BY <1>4, <1>5, <1>6, <1>7

\* The fields after a turn.
FieldsUndone(t, d, u) ==
  /\ t \in States /\ u \in States /\ d \in Deltas /\ Len(t.journal) \in Nat \ {0}
  /\ ObjectsUndone(t, d, u.objects)
  /\ StorageUndone(t, d, u.storage)
  /\ u.incarnations = IF d.op = "Incarnation"
                      THEN [t.incarnations EXCEPT ![d.addr] = @ - 1]
                      ELSE t.incarnations
  /\ u.newCode = t.newCode
  /\ u.journal = Front(t.journal)
  /\ Len(u.journal) = Len(t.journal) - 1
  /\ \A i \in 1 .. Len(t.journal) - 1 : u.journal[i] = t.journal[i]
  /\ u.selfDestructs = IF d.op = "Selfdestruct" THEN t.selfDestructs \ {d.addr}
                       ELSE t.selfDestructs
  /\ u.logs = t.logs
  /\ u.touched = IF d.op = "Touch" THEN t.touched \ {d.addr} ELSE t.touched
  /\ u.refund = t.refund
  /\ u.accessed = IF d.op = "AccountAccess" THEN t.accessed \ {d.addr} ELSE t.accessed
  /\ u.accessedKeys = IF d.op = "StorageAccess"
                      THEN t.accessedKeys \ {<<d.addr, d.key>>} ELSE t.accessedKeys

\* A turn leaves every field as FieldsUndone says.
LEMMA UndoFields ==
  ASSUME NEW t, Sound(t), t.journal # <<>>
  PROVE  FieldsUndone(t, LastDelta(t), Undo(t))
<1> DEFINE d == LastDelta(t)
           u == Undo(t)
<1> SUFFICES FieldsUndone(t, d, u)
  OBVIOUS
<1>1. t \in States
  BY DEF Sound
<1>2. /\ t.incarnations \in [Addr -> Int] /\ t.newCode \in SUBSET Code
      /\ t.journal \in Seq(Deltas) /\ t.selfDestructs \in SUBSET Addr
      /\ t.logs \in Seq(Addr) /\ t.touched \in SUBSET Addr /\ t.refund \in Int
      /\ t.accessed \in SUBSET Addr /\ t.accessedKeys \in SUBSET (Addr \X Slot)
  BY <1>1, StateTypes
<1>3. /\ Front(t.journal) \in Seq(Deltas) /\ Len(t.journal) \in Nat \ {0}
      /\ Len(Front(t.journal)) = Len(t.journal) - 1
      /\ \A i \in 1 .. Len(t.journal) - 1 : Front(t.journal)[i] = t.journal[i]
      /\ d \in Deltas
  BY <1>2, FrontIs DEF LastDelta
<1> DEFINE f == ObjectsBefore(t, d)
           g == StorageBefore(t, d)
           inc == IF d.op = "Incarnation"
                  THEN [t.incarnations EXCEPT ![d.addr] = @ - 1] ELSE t.incarnations
           self == IF d.op = "Selfdestruct" THEN t.selfDestructs \ {d.addr}
                   ELSE t.selfDestructs
           tch == IF d.op = "Touch" THEN t.touched \ {d.addr} ELSE t.touched
           acc == IF d.op = "AccountAccess" THEN t.accessed \ {d.addr} ELSE t.accessed
           keys == IF d.op = "StorageAccess"
                   THEN t.accessedKeys \ {<<d.addr, d.key>>} ELSE t.accessedKeys
<1>4. u = [objects |-> f, storage |-> g, incarnations |-> inc, newCode |-> t.newCode,
           journal |-> Front(t.journal), selfDestructs |-> self, logs |-> t.logs,
           touched |-> tch, refund |-> t.refund, accessed |-> acc, accessedKeys |-> keys]
  BY <1>1, UndoIs
<1>5. ObjectsUndone(t, d, f)
  BY ObjectsAfter
<1>6. StorageUndone(t, d, g)
  BY <1>1, StorageAfter
<1>7. inc \in [Addr -> Int] /\ self \in SUBSET Addr /\ tch \in SUBSET Addr
      /\ acc \in SUBSET Addr /\ keys \in SUBSET (Addr \X Slot)
  <2> HIDE DEF d
  <2>1. inc \in [Addr -> Int]
    <3>1. d.addr \in Addr
      BY <1>3, DeltaTypes
    <3>2. [t.incarnations EXCEPT ![d.addr] = @ - 1] \in [Addr -> Int]
      BY <1>2, <3>1
    <3> QED BY <1>2, <3>2
  <2>2. self \in SUBSET Addr /\ tch \in SUBSET Addr /\ acc \in SUBSET Addr
    BY <1>2
  <2>3. keys \in SUBSET (Addr \X Slot)
    BY <1>2
  <2> QED BY <2>1, <2>2, <2>3
<1> HIDE DEF d, u, f, g, inc, self, tch, acc, keys
<1>8. u \in States
  <2>1. f \in Partial(Addr, Objects) /\ g \in Partial(Addr, Storages)
    BY <1>5, <1>6 DEF Partial, ObjectsUndone, StorageUndone
  <2> QED BY <1>2, <1>3, <1>4, <1>7, <2>1 DEF States
<1>9. /\ u.objects = f /\ u.storage = g /\ u.incarnations = inc /\ u.newCode = t.newCode
      /\ u.journal = Front(t.journal) /\ u.selfDestructs = self /\ u.logs = t.logs
      /\ u.touched = tch /\ u.refund = t.refund /\ u.accessed = acc
      /\ u.accessedKeys = keys
  BY <1>4
<1> QED BY <1>1, <1>3, <1>5, <1>6, <1>8, <1>9 DEF FieldsUndone, inc, self, tch, acc, keys

\* A turn leaves a state whose deltas can be undone.
LEMMA UndoSound ==
  ASSUME NEW t, Sound(t), t.journal # <<>>
  PROVE  Sound(Undo(t))
<1> DEFINE d == LastDelta(t)
           u == Undo(t)
           f == u.objects
           N == Len(t.journal)
<1>0. FieldsUndone(t, d, u)
  BY UndoFields
<1> HIDE DEF d, u
<1>1. /\ t \in States /\ u \in States /\ d \in Deltas /\ N \in Nat \ {0}
      /\ Len(u.journal) = N - 1
      /\ \A i \in 1 .. N - 1 : u.journal[i] = t.journal[i]
  BY <1>0 DEF FieldsUndone
<1>2. ObjectsUndone(t, d, f)
  BY <1>0 DEF FieldsUndone
<1>3. InitialsMatch(u)
  BY <1>2 DEF InitialsMatch, ObjectsUndone
<1>4. ASSUME NEW i \in 1 .. N - 1 PROVE DeltaSound(u, i)
  <2> DEFINE e == t.journal[i]
  <2>1. DeltaSound(t, i) /\ i \in 1 .. N
    BY <1>1 DEF Sound
  <2>2. u.journal[i] = e
    BY <1>1
  <2>3. e.op = "Update" => e.prev.initial = ReadAccount(e.addr)
    BY <2>1 DEF DeltaSound
  <2>4. e.op = "Incarnation" /\ i < N - 1 =>
          /\ u.journal[i + 1].op \in {"StorageWipe", "StorageCreate"}
          /\ u.journal[i + 1].addr = e.addr
    <3>1. i < N - 1 => i + 1 \in 1 .. N - 1 /\ i < N
      BY <1>1
    <3> QED BY <1>1, <2>1, <3>1 DEF DeltaSound
  <2>5. e.op \in {"StorageWipe", "StorageCreate"} =>
          i > 1 /\ u.journal[i - 1].op = "Incarnation" /\ u.journal[i - 1].addr = e.addr
    <3>1. i > 1 => i - 1 \in 1 .. N - 1
      BY <1>1
    <3> QED BY <1>1, <2>1, <3>1 DEF DeltaSound
  <2>6. ASSUME e.op = "UpdateBalance"
        PROVE  /\ e.addr \in DOMAIN u.objects /\ u.objects[e.addr].current # None
               /\ \A n \in i + 1 .. N - 1 :
                    u.journal[n].addr = e.addr =>
                      /\ u.journal[n].op # "Create"
                      /\ u.journal[n].op = "Update" => u.journal[n].prev.current # None
    <3>1. /\ e.addr \in DOMAIN t.objects /\ t.objects[e.addr].current # None
          /\ \A n \in i + 1 .. N :
               t.journal[n].addr = e.addr =>
                 /\ t.journal[n].op # "Create"
                 /\ t.journal[n].op = "Update" => t.journal[n].prev.current # None
      BY <2>1, <2>6 DEF DeltaSound
    <3>2. \A n \in i + 1 .. N - 1 : n \in i + 1 .. N /\ u.journal[n] = t.journal[n]
      BY <1>1
    <3>3. d.addr = e.addr => /\ d.op # "Create"
                             /\ d.op = "Update" => d.prev.current # None
      <4>1. N \in i + 1 .. N
        BY <1>1
      <4> QED BY <3>1, <4>1 DEF d, LastDelta
    <3>4. e.addr \in DOMAIN f
      BY <1>2, <3>1, <3>3 DEF ObjectsUndone
    <3>5. f[e.addr].current # None
      <4>1. CASE d.addr # e.addr
        BY <1>2, <3>1, <3>4, <4>1 DEF ObjectsUndone
      <4>2. CASE d.addr = e.addr
        BY <1>2, <3>1, <3>3, <4>2 DEF ObjectsUndone
      <4> QED BY <4>1, <4>2
    <3> QED BY <1>1, <3>1, <3>2, <3>4, <3>5
  <2> HIDE DEF e
  <2> QED BY <1>1, <2>2, <2>3, <2>4, <2>5, <2>6 DEF DeltaSound
<1> QED BY <1>1, <1>3, <1>4 DEF Sound, u

\* Whether the last delta of what is left belongs to a create_contract that
\* is half undone.
HalfIs(t, d, u, a) ==
  /\ d.op \in {"StorageWipe", "StorageCreate"} => (HalfUndone(u, a) <=> a = d.addr)
  /\ d.op \notin {"StorageWipe", "StorageCreate"} => ~HalfUndone(u, a)
  /\ HalfUndone(t, a) <=> d.op = "Incarnation" /\ a = d.addr

\* Which accounts a turn leaves with create_contract half undone.
LEMMA UndoHalf ==
  ASSUME NEW t, Sound(t), t.journal # <<>>, NEW a \in Addr
  PROVE  HalfIs(t, LastDelta(t), Undo(t), a)
<1> DEFINE d == LastDelta(t)
           u == Undo(t)
           N == Len(t.journal)
<1> SUFFICES HalfIs(t, d, u, a)
  OBVIOUS
<1>0. FieldsUndone(t, d, u)
  BY UndoFields
<1> HIDE DEF d, u
<1>1. /\ u \in States /\ N \in Nat \ {0} /\ Len(u.journal) = N - 1
      /\ \A i \in 1 .. N - 1 : u.journal[i] = t.journal[i]
  BY <1>0 DEF FieldsUndone
<1>2. HalfUndone(t, a) <=> d.op = "Incarnation" /\ a = d.addr
  BY DEF HalfUndone, d, LastDelta
<1>3. \A i \in 1 .. N : DeltaSound(t, i)
  BY DEF Sound
<1>4. u.journal \in Seq(Deltas)
  BY <1>1, StateTypes
<1>5. CASE N = 1
  <2>1. u.journal = <<>>
    BY <1>1, <1>4, <1>5
  <2>2. d.op \notin {"StorageWipe", "StorageCreate"}
    BY <1>3, <1>5 DEF DeltaSound, d, LastDelta
  <2> QED BY <1>2, <2>1, <2>2 DEF HalfUndone, HalfIs
<1>6. CASE N > 1
  <2> DEFINE e == t.journal[N - 1]
  <2>1. u.journal # <<>> /\ u.journal[Len(u.journal)] = e
    BY <1>1, <1>4, <1>6
  <2>2. DeltaSound(t, N) /\ DeltaSound(t, N - 1)
    BY <1>1, <1>3, <1>6
  <2>3. d.op \in {"StorageWipe", "StorageCreate"} => e.op = "Incarnation" /\ e.addr = d.addr
    BY <2>2 DEF DeltaSound, d, LastDelta
  <2>4. e.op = "Incarnation" => d.op \in {"StorageWipe", "StorageCreate"}
    <3>1. N - 1 < N /\ (N - 1) + 1 = N
      BY <1>1
    <3> QED BY <2>2, <3>1 DEF DeltaSound, d, LastDelta
  <2>5. HalfUndone(u, a) <=> e.op = "Incarnation" /\ e.addr = a
    BY <2>1 DEF HalfUndone
  <2> HIDE DEF e
  <2>6. d.op \in {"StorageWipe", "StorageCreate"} => (HalfUndone(u, a) <=> a = d.addr)
    BY <2>3, <2>5
  <2>7. d.op \notin {"StorageWipe", "StorageCreate"} => ~HalfUndone(u, a)
    BY <2>4, <2>5
  <2> QED BY <1>2, <2>6, <2>7, Zenon DEF HalfIs
<1>7. N = 1 \/ N > 1
  <2> HIDE DEF N
  <2> QED BY <1>1
<1> QED BY <1>5, <1>6, <1>7, Zenon

\* What the state shows after a turn depends only on what it showed before
\* and on the delta.
ViewUndone(t, d, u, a) ==
  /\ Account(u, a) = IF a # d.addr THEN Account(t, a)
                     ELSE IF d.op = "Create" THEN ReadAccount(a)
                     ELSE IF d.op = "Update" THEN d.prev.current
                     ELSE IF d.op = "UpdateBalance"
                     THEN [Account(t, a) EXCEPT !.balance = d.prev]
                     ELSE Account(t, a)
  /\ \A k \in Slot : Original(u, a, k) =
       IF a # d.addr THEN Original(t, a, k)
       ELSE IF d.op = "StorageWipe" THEN OriginalIn(d.prev, a, k, t.incarnations[a] - 1)
       ELSE IF d.op = "StorageCreate"
       THEN OriginalIn(NewStorage, a, k, t.incarnations[a] - 1)
       ELSE Original(t, a, k)
  /\ \A k \in Slot : Current(u, a, k) =
       IF a # d.addr THEN Current(t, a, k)
       ELSE IF d.op = "StorageWipe" THEN CurrentIn(d.prev, a, k, t.incarnations[a] - 1)
       ELSE IF d.op = "StorageCreate"
       THEN CurrentIn(NewStorage, a, k, t.incarnations[a] - 1)
       ELSE IF d.op = "StorageChange" /\ k = d.key THEN d.prev
       ELSE Current(t, a, k)

\* What the state shows after a turn.
LEMMA UndoView ==
  ASSUME NEW t, Sound(t), t.journal # <<>>, NEW a \in Addr
  PROVE  ViewUndone(t, LastDelta(t), Undo(t), a)
<1> DEFINE d == LastDelta(t)
           u == Undo(t)
           f == u.objects
           g == u.storage
<1> SUFFICES ViewUndone(t, d, u, a)
  OBVIOUS
<1>0. FieldsUndone(t, d, u) /\ HalfIs(t, d, u, a)
  BY UndoFields, UndoHalf
<1> HIDE DEF d, u
<1>1. /\ t \in States /\ u \in States /\ d \in Deltas
      /\ u.incarnations = IF d.op = "Incarnation"
                          THEN [t.incarnations EXCEPT ![d.addr] = @ - 1]
                          ELSE t.incarnations
  BY <1>0 DEF FieldsUndone
<1>11. t.incarnations \in [Addr -> Int]
  BY <1>1, StateTypes
<1>2. /\ DOMAIN f = IF d.op = "Create" THEN DOMAIN t.objects \ {d.addr}
                    ELSE IF d.op = "Update" THEN DOMAIN t.objects \cup {d.addr}
                    ELSE DOMAIN t.objects
      /\ \A x \in DOMAIN f : x \in DOMAIN t.objects /\ x # d.addr => f[x] = t.objects[x]
      /\ d.op = "Update" => f[d.addr] = d.prev
      /\ d.op = "UpdateBalance" =>
              /\ d.addr \in DOMAIN t.objects
              /\ f[d.addr].current = [t.objects[d.addr].current EXCEPT !.balance = d.prev]
      /\ d.op \notin {"Create", "Update", "UpdateBalance"} => f = t.objects
  BY <1>0 DEF FieldsUndone, ObjectsUndone
<1>3. StorageUndone(t, d, g)
  BY <1>0 DEF FieldsUndone
<1>4. Account(u, a) = IF a # d.addr THEN Account(t, a)
                      ELSE IF d.op = "Create" THEN ReadAccount(a)
                      ELSE IF d.op = "Update" THEN d.prev.current
                      ELSE IF d.op = "UpdateBalance"
                      THEN [Account(t, a) EXCEPT !.balance = d.prev]
                      ELSE Account(t, a)
  <2>1. CASE a # d.addr
    BY <1>1, <1>2, <2>1 DEF Account
  <2>2. CASE a = d.addr /\ d.op = "Create"
    BY <1>1, <1>2, <2>2 DEF Account
  <2>3. CASE a = d.addr /\ d.op = "Update"
    BY <1>1, <1>2, <2>3 DEF Account
  <2>4. CASE a = d.addr /\ d.op = "UpdateBalance"
    BY <1>1, <1>2, <2>4 DEF Account
  <2>5. CASE d.op \notin {"Create", "Update", "UpdateBalance"}
    BY <1>1, <1>2, <2>5 DEF Account
  <2> QED BY <2>1, <2>2, <2>3, <2>4, <2>5
<1>5. Incarnation(u, a) = IF a = d.addr /\ d.op \in {"StorageWipe", "StorageCreate"}
                          THEN t.incarnations[a] - 1 ELSE Incarnation(t, a)
  <2>1. /\ d.op \in {"StorageWipe", "StorageCreate"} => (HalfUndone(u, a) <=> a = d.addr)
        /\ d.op \notin {"StorageWipe", "StorageCreate"} => ~HalfUndone(u, a)
        /\ HalfUndone(t, a) <=> d.op = "Incarnation" /\ a = d.addr
    BY <1>0 DEF HalfIs
  <2>2. CASE d.op = "Incarnation"
    <3>1. u.incarnations[a] = IF a = d.addr THEN t.incarnations[a] - 1
                              ELSE t.incarnations[a]
      BY <1>1, <1>11, <2>2
    <3> QED BY <2>1, <2>2, <3>1 DEF Incarnation
  <2>3. CASE d.op # "Incarnation"
    BY <1>1, <2>1, <2>3 DEF Incarnation
  <2> QED BY <2>2, <2>3
<1>6. CASE a # d.addr
  <2>1. Box(u, a) = Box(t, a) /\ Incarnation(u, a) = Incarnation(t, a)
    BY <1>1, <1>3, <1>5, <1>6 DEF Box, StorageUndone
  <2> QED BY <1>4, <1>6, <2>1 DEF Original, Current, ViewUndone
<1>7. CASE a = d.addr /\ d.op = "StorageChange"
  <2>1. Box(u, a) = [committed |-> Box(t, a).committed,
                     current |-> Put(Box(t, a).current, d.key, d.prev)]
    BY <1>1, <1>3, <1>7 DEF Box, StorageUndone
  <2>2. Incarnation(u, a) = Incarnation(t, a)
    BY <1>5, <1>7
  <2>3. /\ Box(u, a).committed = Box(t, a).committed
        /\ DOMAIN Box(u, a).current = DOMAIN Box(t, a).current \cup {d.key}
        /\ Box(u, a).current[d.key] = d.prev
        /\ \A k \in DOMAIN Box(t, a).current :
             k # d.key => Box(u, a).current[k] = Box(t, a).current[k]
    BY <2>1 DEF Put
  <2>4. \A k \in Slot : Original(u, a, k) = Original(t, a, k)
    BY <2>2, <2>3 DEF Original, OriginalIn
  <2>5. \A k \in Slot : Current(u, a, k) = IF k = d.key THEN d.prev ELSE Current(t, a, k)
    BY <2>2, <2>3, <2>4 DEF Current, CurrentIn, Original
  <2> QED BY <1>4, <1>7, <2>4, <2>5 DEF ViewUndone
<1>8. CASE a = d.addr /\ d.op = "StorageWipe"
  <2>1. Box(u, a) = d.prev /\ Incarnation(u, a) = t.incarnations[a] - 1
    BY <1>1, <1>3, <1>5, <1>8 DEF Box, StorageUndone
  <2> QED BY <1>4, <1>8, <2>1 DEF Original, Current, ViewUndone
<1>9. CASE a = d.addr /\ d.op = "StorageCreate"
  <2>1. Box(u, a) = NewStorage /\ Incarnation(u, a) = t.incarnations[a] - 1
    BY <1>1, <1>3, <1>5, <1>9 DEF Box, StorageUndone
  <2> QED BY <1>4, <1>9, <2>1 DEF Original, Current, ViewUndone
<1>10. CASE a = d.addr /\ d.op \notin {"StorageChange", "StorageWipe", "StorageCreate"}
  <2>1. Box(u, a) = Box(t, a) /\ Incarnation(u, a) = Incarnation(t, a)
    BY <1>1, <1>3, <1>5, <1>10 DEF Box, StorageUndone
  <2> QED BY <1>4, <1>10, <2>1 DEF Original, Current, ViewUndone
<1> QED BY <1>6, <1>7, <1>8, <1>9, <1>10

\* States that show the same still do so after a turn.
LEMMA UndoSame ==
  ASSUME NEW s, NEW t, Sound(s), Sound(t), SameView(s, t), s.journal # <<>>
  PROVE  SameView(Undo(s), Undo(t))
<1> DEFINE d == LastDelta(s)
           u == Undo(s)
           v == Undo(t)
<1>1. t.journal = s.journal /\ d = LastDelta(t)
  BY DEF SameView, LastDelta
<1>2. FieldsUndone(s, d, u)
  BY UndoFields
<1>3. FieldsUndone(t, d, v)
  BY <1>1, UndoFields
<1>4. \A a \in Addr : ViewUndone(s, d, u, a)
  BY UndoView
<1>5. \A a \in Addr : ViewUndone(t, d, v, a)
  BY <1>1, UndoView
<1> SUFFICES SameView(u, v)
  OBVIOUS
<1> HIDE DEF d, u, v
<1>6. /\ u.journal = v.journal /\ u.incarnations = v.incarnations
      /\ u.selfDestructs = v.selfDestructs
      /\ u.touched \ {RIPEMD_ADDRESS} = v.touched \ {RIPEMD_ADDRESS}
      /\ u.accessed = v.accessed /\ u.accessedKeys = v.accessedKeys
  BY <1>2, <1>3 DEF SameView, FieldsUndone
<1>7. ASSUME NEW a \in Addr
      PROVE  /\ Account(u, a) = Account(v, a)
             /\ \A k \in Slot : Original(u, a, k) = Original(v, a, k)
             /\ \A k \in Slot : Current(u, a, k) = Current(v, a, k)
  <2>1. /\ Account(s, a) = Account(t, a) /\ s.incarnations = t.incarnations
        /\ \A k \in Slot : Original(s, a, k) = Original(t, a, k)
        /\ \A k \in Slot : Current(s, a, k) = Current(t, a, k)
    BY DEF SameView
  <2>2. ViewUndone(s, d, u, a) /\ ViewUndone(t, d, v, a)
    BY <1>4, <1>5
  <2> QED BY <2>1, <2>2 DEF ViewUndone
<1> QED BY <1>6, <1>7 DEF SameView

-----------------------------------------------------------------------------
(* revert_to_snapshot *)

\* Equality of views is an equivalence.
LEMMA SameViewRefl ==
  ASSUME NEW s
  PROVE  SameView(s, s)
BY DEF SameView

\* Showing the same is symmetric.
LEMMA SameViewSym ==
  ASSUME NEW s, NEW t, SameView(s, t)
  PROVE  SameView(t, s)
BY DEF SameView

\* Showing the same is transitive.
LEMMA SameViewTrans ==
  ASSUME NEW s, NEW t, NEW u, SameView(s, t), SameView(t, u)
  PROVE  SameView(s, u)
BY DEF SameView

\* What n turns leave as it was.
LeftUndone(s, u, n) ==
  /\ Sound(u)
  /\ Len(u.journal) = Len(s.journal) - n
  /\ \A i \in 1 .. Len(s.journal) - n : u.journal[i] = s.journal[i]
  /\ u.logs = s.logs /\ u.refund = s.refund /\ u.newCode = s.newCode

\* The journal of a sound state is a sequence.
LEMMA SoundLen ==
  ASSUME NEW s, Sound(s)
  PROVE  /\ s \in States /\ s.journal \in Seq(Deltas) /\ Len(s.journal) \in Nat
         /\ s.journal = <<>> <=> Len(s.journal) = 0
<1>1. s \in States
  BY DEF Sound
<1>2. s.journal \in Seq(Deltas)
  BY <1>1, StateTypes
<1> QED BY <1>1, <1>2

\* Any number of turns leave a sound state and a shorter journal.
LEMMA UndoneSound ==
  ASSUME NEW s, Sound(s), NEW n \in 0 .. Len(s.journal)
  PROVE  LeftUndone(s, Undone(s)[n], n)
<1> DEFINE N == Len(s.journal)
           U(k) == Undone(s)[k]
           T == {k \in 0 .. N : ~LeftUndone(s, U(k), k)}
<1>0. N \in Nat
  BY SoundLen
<1>1. U(0) = s /\ \A k \in 1 .. N : U(k) = Undo(U(k - 1))
  BY <1>0, UndoneIs
<1> HIDE DEF U
<1>2. T = {}
  <2> SUFFICES ASSUME T # {} PROVE FALSE
    OBVIOUS
  <2>1. PICK m \in T : \A k \in T : m <= k
    <3>1. T \subseteq Nat
      BY <1>0
    <3> QED BY <3>1, LeastNat
  <2>2. m # 0
    <3>1. LeftUndone(s, U(0), 0)
      BY <1>0, <1>1 DEF LeftUndone
    <3> QED BY <3>1
  <2>3. m \in 1 .. N /\ m - 1 \in 0 .. N /\ m - 1 \notin T
    BY <1>0, <2>1, <2>2
  <2> DEFINE u == U(m - 1)
             v == U(m)
  <2>4. LeftUndone(s, u, m - 1)
    BY <2>3
  <2>5. v = Undo(u)
    BY <1>1, <2>3
  <2>6. Sound(u) /\ Len(u.journal) = N - (m - 1)
    BY <2>4 DEF LeftUndone
  <2>7. u.journal # <<>>
    BY <1>0, <2>3, <2>6, SoundLen
  <2> HIDE DEF u, v
  <2>8. FieldsUndone(u, LastDelta(u), v) /\ Sound(v)
    BY <2>5, <2>6, <2>7, UndoFields, UndoSound
  <2>9. /\ Len(v.journal) = Len(u.journal) - 1
        /\ \A i \in 1 .. Len(u.journal) - 1 : v.journal[i] = u.journal[i]
        /\ v.logs = u.logs /\ v.refund = u.refund /\ v.newCode = u.newCode
    BY <2>8 DEF FieldsUndone
  <2>10. /\ \A i \in 1 .. N - (m - 1) : u.journal[i] = s.journal[i]
         /\ u.logs = s.logs /\ u.refund = s.refund /\ u.newCode = s.newCode
    BY <2>4 DEF LeftUndone
  <2>11. Len(v.journal) = N - m
    BY <1>0, <2>3, <2>6, <2>9
  <2>12. \A i \in 1 .. N - m : v.journal[i] = s.journal[i]
    <3> SUFFICES ASSUME NEW i \in 1 .. N - m PROVE v.journal[i] = s.journal[i]
      OBVIOUS
    <3>1. i \in 1 .. N - (m - 1) /\ i \in 1 .. Len(u.journal) - 1
      BY <1>0, <2>3, <2>6
    <3> QED BY <2>9, <2>10, <3>1
  <2>13. LeftUndone(s, v, m)
    BY <2>8, <2>9, <2>10, <2>11, <2>12 DEF LeftUndone
  <2> QED BY <2>1, <2>13 DEF v
<1> QED BY <1>2 DEF U

\* Two states that show the same show the same after n turns.
LEMMA UndoneSame ==
  ASSUME NEW s, NEW t, Sound(s), Sound(t), SameView(s, t), NEW n \in 0 .. Len(s.journal)
  PROVE  SameView(Undone(s)[n], Undone(t)[n])
<1> DEFINE N == Len(s.journal)
           U(k) == Undone(s)[k]
           V(k) == Undone(t)[k]
           T == {k \in 0 .. N : ~SameView(U(k), V(k))}
<1>0. N \in Nat /\ Len(t.journal) = N
  BY SoundLen DEF SameView
<1>1. U(0) = s /\ \A k \in 1 .. N : U(k) = Undo(U(k - 1))
  BY <1>0, UndoneIs
<1>2. V(0) = t /\ \A k \in 1 .. N : V(k) = Undo(V(k - 1))
  BY <1>0, UndoneIs
<1>3. \A k \in 0 .. N : LeftUndone(s, U(k), k) /\ LeftUndone(t, V(k), k)
  BY <1>0, UndoneSound
<1> HIDE DEF U, V
<1>4. T = {}
  <2> SUFFICES ASSUME T # {} PROVE FALSE
    OBVIOUS
  <2>1. PICK m \in T : \A k \in T : m <= k
    <3>1. T \subseteq Nat
      BY <1>0
    <3> QED BY <3>1, LeastNat
  <2>2. m # 0
    BY <1>1, <1>2
  <2>3. m \in 1 .. N /\ m - 1 \in 0 .. N /\ m - 1 \notin T
    BY <1>0, <2>1, <2>2
  <2>4. SameView(U(m - 1), V(m - 1)) /\ Sound(U(m - 1)) /\ Sound(V(m - 1))
        /\ Len(U(m - 1).journal) = N - (m - 1)
    BY <1>3, <2>3 DEF LeftUndone
  <2>5. U(m - 1).journal # <<>>
    BY <1>0, <2>3, <2>4, SoundLen
  <2>6. SameView(U(m), V(m))
    BY <1>1, <1>2, <2>3, <2>4, <2>5, UndoSame
  <2> QED BY <2>1, <2>6
<1> QED BY <1>4 DEF U, V

\* m turns and then n turns are m + n turns.
LEMMA UndoneCompose ==
  ASSUME NEW s, Sound(s), NEW m \in 0 .. Len(s.journal), NEW n \in 0 .. Len(s.journal) - m
  PROVE  Undone(Undone(s)[m])[n] = Undone(s)[m + n]
<1> DEFINE N == Len(s.journal)
           u == Undone(s)[m]
           U(k) == Undone(s)[k]
           V(k) == Undone(u)[k]
           T == {k \in 0 .. N - m : V(k) # U(m + k)}
<1>0. N \in Nat
  BY SoundLen
<1>1. LeftUndone(s, u, m)
  BY UndoneSound
<1>2. Len(u.journal) = N - m /\ N - m \in Nat
  BY <1>0, <1>1 DEF LeftUndone
<1>3. U(0) = s /\ \A k \in 1 .. N : U(k) = Undo(U(k - 1))
  BY <1>0, UndoneIs
<1>4. V(0) = u /\ \A k \in 1 .. N - m : V(k) = Undo(V(k - 1))
  BY <1>2, UndoneIs
<1>5. u = U(m)
  OBVIOUS
<1> HIDE DEF U, V, u
<1>6. T = {}
  <2> SUFFICES ASSUME T # {} PROVE FALSE
    OBVIOUS
  <2>1. PICK k \in T : \A x \in T : k <= x
    <3>1. T \subseteq Nat
      BY <1>2
    <3> QED BY <3>1, LeastNat
  <2>2. k # 0
    BY <1>4, <1>5
  <2>3. k \in 1 .. N - m /\ k - 1 \in 0 .. N - m /\ k - 1 \notin T
        /\ m + k \in 1 .. N /\ (m + k) - 1 = m + (k - 1)
    BY <1>0, <1>2, <2>1, <2>2
  <2>4. V(k - 1) = U(m + (k - 1))
    BY <2>3
  <2>5. V(k) = U(m + k)
    BY <1>3, <1>4, <2>3, <2>4
  <2> QED BY <2>1, <2>5
<1> QED BY <1>6 DEF U, V, u

-----------------------------------------------------------------------------
(* Extension: t is reached from s by changes that all have their deltas *)

\* Undoing what t has journaled since s gives what s shows.
Ext(s, t) ==
  /\ Good(t)
  /\ Len(s.journal) <= Len(t.journal)
  /\ SameView(s, Undone(t)[Len(t.journal) - Len(s.journal)])
  /\ Len(s.logs) <= Len(t.logs)
  /\ \A i \in 1 .. Len(s.logs) : t.logs[i] = s.logs[i]

\* A good state extends itself.
LEMMA ExtRefl ==
  ASSUME NEW s, Good(s)
  PROVE  Ext(s, s)
<1>1. Sound(s) /\ s \in States /\ Len(s.journal) \in Nat
  BY SoundLen DEF Good
<1>2. s.logs \in Seq(Addr)
  BY <1>1, StateTypes
<1>3. Undone(s)[Len(s.journal) - Len(s.journal)] = s
  BY <1>1, UndoneIs, Len(s.journal) - Len(s.journal) = 0
<1> QED BY <1>1, <1>2, <1>3, SameViewRefl DEF Ext

\* What both are reverted to is the same.
LEMMA ExtUndone ==
  ASSUME NEW s, NEW t, Good(s), Ext(s, t), NEW j \in 0 .. Len(s.journal)
  PROVE  SameView(Undone(s)[Len(s.journal) - j], Undone(t)[Len(t.journal) - j])
<1> DEFINE L == Len(s.journal)
           M == Len(t.journal)
           w == Undone(t)[M - L]
<1>1. Sound(s) /\ Sound(t) /\ L \in Nat /\ M \in Nat /\ L <= M /\ SameView(s, w)
  BY SoundLen DEF Good, Ext
<1>2. M - L \in 0 .. M /\ L - j \in 0 .. L /\ L - j \in 0 .. M - (M - L)
      /\ (M - L) + (L - j) = M - j
  <2>1. j \in 0 .. L
    OBVIOUS
  <2> HIDE DEF L, M, w
  <2> QED BY <1>1, <2>1
<1>3. LeftUndone(t, w, M - L)
  BY <1>1, <1>2, UndoneSound
<1>4. Sound(w)
  BY <1>3 DEF LeftUndone
<1>5. SameView(Undone(s)[L - j], Undone(w)[L - j])
  <2> HIDE DEF w
  <2> QED BY <1>1, <1>2, <1>4, UndoneSame
<1>6. Undone(w)[L - j] = Undone(t)[(M - L) + (L - j)]
  <2> HIDE DEF L, M
  <2> QED BY <1>1, <1>2, UndoneCompose DEF M
<1> QED BY <1>2, <1>5, <1>6

\* Extension is transitive.
LEMMA ExtTrans ==
  ASSUME NEW s, NEW t, NEW u, Good(s), Ext(s, t), Ext(t, u)
  PROVE  Ext(s, u)
<1> DEFINE L == Len(s.journal)
           M == Len(t.journal)
           N == Len(u.journal)
<1>1. /\ Sound(s) /\ Sound(t) /\ Sound(u) /\ Good(t) /\ Good(u)
      /\ L \in Nat /\ M \in Nat /\ N \in Nat
      /\ L <= M /\ M <= N /\ L \in 0 .. M /\ L <= N
  BY SoundLen DEF Good, Ext
<1>2. SameView(Undone(t)[M - L], Undone(u)[N - L])
  BY <1>1, ExtUndone
<1>3. SameView(s, Undone(t)[M - L])
  BY DEF Ext
<1>4. SameView(s, Undone(u)[N - L])
  BY <1>2, <1>3, SameViewTrans
<1>5. Len(s.logs) \in Nat /\ Len(t.logs) \in Nat /\ Len(u.logs) \in Nat
  BY <1>1, SoundLen, StateTypes, LenProperties
<1>6. /\ Len(s.logs) <= Len(u.logs)
      /\ \A i \in 1 .. Len(s.logs) : u.logs[i] = s.logs[i]
  <2>1. /\ Len(s.logs) <= Len(t.logs) /\ Len(t.logs) <= Len(u.logs)
        /\ \A i \in 1 .. Len(s.logs) : t.logs[i] = s.logs[i]
        /\ \A i \in 1 .. Len(t.logs) : u.logs[i] = t.logs[i]
    BY DEF Ext
  <2> QED BY <1>5, <2>1
<1> QED BY <1>1, <1>4, <1>6 DEF Ext

\* The journal of s is the first part of that of t.
LEMMA ExtJournal ==
  ASSUME NEW s, NEW t, Good(s), Ext(s, t)
  PROVE  /\ Len(s.journal) \in Nat /\ Len(t.journal) \in Nat
         /\ Len(s.journal) <= Len(t.journal)
         /\ \A i \in 1 .. Len(s.journal) : t.journal[i] = s.journal[i]
<1> DEFINE L == Len(s.journal)
           M == Len(t.journal)
           w == Undone(t)[M - L]
<1>1. Sound(s) /\ Sound(t) /\ L \in Nat /\ M \in Nat /\ L <= M /\ SameView(s, w)
  BY SoundLen DEF Good, Ext
<1>2. M - L \in 0 .. M /\ M - (M - L) = L
  <2> HIDE DEF L, M, w
  <2> QED BY <1>1
<1>3. LeftUndone(t, w, M - L)
  BY <1>1, <1>2, UndoneSound
<1>4. s.journal = w.journal
  BY <1>1 DEF SameView
<1> HIDE DEF w
<1>5. \A i \in 1 .. L : w.journal[i] = t.journal[i]
  BY <1>2, <1>3 DEF LeftUndone
<1> QED BY <1>1, <1>4, <1>5

-----------------------------------------------------------------------------
(* Steps of the IntraBlockState: general facts *)

\* What is read from the database has its type.
LEMMA DatabaseTypes ==
  ASSUME db \in Databases
  PROVE  /\ \A a \in Addr : ReadAccount(a) \in Accounts \cup {None}
         /\ \A a \in Addr, k \in Slot : db.storage[<<a, k>>] \in Nat
<1>1. /\ db.accounts \in [DOMAIN db.accounts -> Accounts]
      /\ db.storage \in [Addr \X Slot -> Nat]
  BY DEF Databases, Partial
<1> QED BY <1>1 DEF ReadAccount

\* Every account that a sound state shows is an account.
LEMMA AccountType ==
  ASSUME NEW s, Sound(s), NEW a \in Addr
  PROVE  Account(s, a) \in Accounts \cup {None}
<1>1. s \in States /\ db \in Databases
  BY DEF Sound
<1>2. s.objects \in [DOMAIN s.objects -> Objects]
  BY <1>1, StateTypes
<1>3. CASE a \in DOMAIN s.objects
  <2>1. s.objects[a] \in Objects
    BY <1>2, <1>3
  <2> QED BY <1>3, <2>1 DEF Account, Objects
<1>4. CASE a \notin DOMAIN s.objects
  BY <1>1, <1>4, DatabaseTypes DEF Account
<1> QED BY <1>3, <1>4

\* Accounts that are in the cache stay there while a message runs.
ObjectsStay(s, t) ==
  \A a \in DOMAIN s.objects :
    s.objects[a].current # None => a \in DOMAIN t.objects /\ t.objects[a].current # None

\* The data that accounts and storage are read from.
SameData(s, t) ==
  /\ t.objects = s.objects /\ t.storage = s.storage /\ t.incarnations = s.incarnations

\* No account of a settled state is half undone.
LEMMA SettledView ==
  ASSUME NEW s, Settled(s), NEW a
  PROVE  ~HalfUndone(s, a) /\ Incarnation(s, a) = s.incarnations[a]
BY DEF Settled, HalfUndone, Incarnation

\* The same data show the same accounts and slots.
LEMMA SameDataView ==
  ASSUME NEW s, NEW t, Settled(s), Settled(t), SameData(s, t)
  PROVE  /\ \A a : Account(t, a) = Account(s, a)
         /\ \A a, k : Original(t, a, k) = Original(s, a, k)
         /\ \A a, k : Current(t, a, k) = Current(s, a, k)
<1>1. \A a : Incarnation(t, a) = Incarnation(s, a)
  BY SettledView DEF SameData
<1>2. \A a : Box(t, a) = Box(s, a)
  BY DEF SameData, Box
<1> QED BY <1>1, <1>2 DEF SameData, Account, Original, Current

\* A change with one delta.
LEMMA PushGood ==
  ASSUME NEW s, Good(s), NEW t \in States, NEW d \in Deltas,
         t.journal = Append(s.journal, d), InitialsMatch(t), ObjectsStay(s, t),
         d.op \notin {"Incarnation", "StorageWipe", "StorageCreate"},
         d.op = "Update" => /\ d.prev.initial = ReadAccount(d.addr)
                            /\ d.addr \in DOMAIN s.objects /\ d.prev = s.objects[d.addr],
         d.op = "UpdateBalance" => /\ d.addr \in DOMAIN t.objects
                                   /\ t.objects[d.addr].current # None,
         d.op = "Create" => d.addr \notin DOMAIN s.objects
  PROVE  Good(t)
<1> DEFINE N == Len(s.journal)
<1>1. s.journal \in Seq(Deltas) /\ N \in Nat /\ Sound(s) /\ db \in Databases
  BY SoundLen DEF Good, Sound
<1>2. /\ Len(t.journal) = N + 1 /\ t.journal[N + 1] = d
      /\ \A i \in 1 .. N : t.journal[i] = s.journal[i]
  BY <1>1
<1>3. \A i \in 1 .. N : DeltaSound(s, i)
  BY <1>1 DEF Sound
<1>4. N # 0 => s.journal[N].op # "Incarnation"
  BY <1>1, SoundLen DEF Good, Settled
<1> HIDE DEF N
<1>5. ASSUME NEW i \in 1 .. N + 1 PROVE DeltaSound(t, i)
  <2>1. CASE i = N + 1
    <3>1. ~(i < N + 1) /\ i + 1 .. N + 1 = {}
      BY <1>1, <2>1
    <3> QED BY <1>2, <2>1, <3>1 DEF DeltaSound
  <2>2. CASE i \in 1 .. N
    <3> DEFINE e == s.journal[i]
    <3>1. t.journal[i] = e /\ DeltaSound(s, i) /\ Len(s.journal) = N
      BY <1>2, <1>3, <2>2 DEF N
    <3> HIDE DEF e
    <3>2. e.op = "Update" => e.prev.initial = ReadAccount(e.addr)
      BY <3>1 DEF DeltaSound, e
    <3>3. e.op = "Incarnation" =>
            /\ t.journal[i + 1].op \in {"StorageWipe", "StorageCreate"}
            /\ t.journal[i + 1].addr = e.addr
      <4>1. i = N => e.op # "Incarnation"
        BY <1>4, <2>2 DEF e
      <4>2. i # N => i < N /\ i + 1 \in 1 .. N
        BY <1>1, <2>2
      <4> QED BY <1>2, <3>1, <4>1, <4>2 DEF DeltaSound, e
    <3>4. e.op \in {"StorageWipe", "StorageCreate"} =>
            i > 1 /\ t.journal[i - 1].op = "Incarnation" /\ t.journal[i - 1].addr = e.addr
      <4>1. i > 1 => i - 1 \in 1 .. N
        BY <1>1, <2>2
      <4> QED BY <1>2, <3>1, <4>1 DEF DeltaSound, e
    <3>5. ASSUME e.op = "UpdateBalance"
          PROVE  /\ e.addr \in DOMAIN t.objects /\ t.objects[e.addr].current # None
                 /\ \A n \in i + 1 .. N + 1 :
                      t.journal[n].addr = e.addr =>
                        /\ t.journal[n].op # "Create"
                        /\ t.journal[n].op = "Update" => t.journal[n].prev.current # None
      <4>1. /\ e.addr \in DOMAIN s.objects /\ s.objects[e.addr].current # None
            /\ \A n \in i + 1 .. N :
                 s.journal[n].addr = e.addr =>
                   /\ s.journal[n].op # "Create"
                   /\ s.journal[n].op = "Update" => s.journal[n].prev.current # None
        BY <3>1, <3>5 DEF DeltaSound, e
      <4>2. e.addr \in DOMAIN t.objects /\ t.objects[e.addr].current # None
        BY <4>1 DEF ObjectsStay
      <4>3. d.addr = e.addr => /\ d.op # "Create"
                               /\ d.op = "Update" => d.prev.current # None
        BY <4>1
      <4>4. ASSUME NEW n \in i + 1 .. N + 1, t.journal[n].addr = e.addr
            PROVE  /\ t.journal[n].op # "Create"
                   /\ t.journal[n].op = "Update" => t.journal[n].prev.current # None
        <5>1. CASE n = N + 1
          BY <1>2, <4>3, <4>4, <5>1
        <5>2. CASE n # N + 1
          <6>1. n \in i + 1 .. N /\ n \in 1 .. N
            BY <1>1, <2>2, <5>2
          <6> QED BY <1>2, <4>1, <4>4, <6>1
        <5> QED BY <5>1, <5>2
      <4> QED BY <4>2, <4>4
    <3> QED BY <1>2, <3>1, <3>2, <3>3, <3>4, <3>5 DEF DeltaSound
  <2> QED BY <1>1, <2>1, <2>2
<1>6. Settled(t)
  BY <1>2 DEF Settled
<1>7. Sound(t)
  BY <1>1, <1>2, <1>5 DEF Sound
<1> QED BY <1>6, <1>7 DEF Good

\* A change whose delta undoes it is an extension.
LEMMA PushExt ==
  ASSUME NEW s, NEW t, Good(s), Good(t), NEW d \in Deltas,
         t.journal = Append(s.journal, d), t.logs = s.logs, SameView(s, Undo(t))
  PROVE  Ext(s, t)
<1> DEFINE N == Len(s.journal)
<1>1. s.journal \in Seq(Deltas) /\ N \in Nat /\ s \in States
  BY SoundLen DEF Good
<1>2. Len(t.journal) = N + 1 /\ (N + 1) - N = 1 /\ N <= N + 1
  BY <1>1
<1>3. Undone(t)[1] = Undo(t)
  <2>1. Len(t.journal) \in Nat /\ 1 \in 1 .. Len(t.journal)
    BY <1>1, <1>2
  <2>2. Undone(t)[0] = t /\ Undone(t)[1] = Undo(Undone(t)[1 - 1])
    BY <2>1, UndoneIs
  <2> QED BY <2>2
<1>4. Len(s.logs) \in Nat
  BY <1>1, StateTypes, LenProperties
<1> QED BY <1>2, <1>3, <1>4 DEF Ext

\* A change of what is cached only.
LEMMA CacheExt ==
  ASSUME NEW s, Good(s), NEW t \in States, InitialsMatch(t), ObjectsStay(s, t),
         SameView(s, t), Len(s.logs) <= Len(t.logs),
         \A i \in 1 .. Len(s.logs) : t.logs[i] = s.logs[i]
  PROVE  Ext(s, t)
<1>1. t.journal = s.journal /\ Sound(s) /\ Len(s.journal) \in Nat
  BY SoundLen DEF Good, SameView
<1>2. ASSUME NEW i \in 1 .. Len(t.journal) PROVE DeltaSound(t, i)
  <2>1. DeltaSound(s, i)
    BY <1>1 DEF Sound
  <2> QED BY <1>1, <2>1 DEF DeltaSound, ObjectsStay
<1>3. Good(t)
  BY <1>1, <1>2 DEF Good, Sound, Settled
<1>4. Undone(t)[Len(t.journal) - Len(s.journal)] = t
  BY <1>1, UndoneIs, Len(t.journal) - Len(s.journal) = 0
<1> QED BY <1>1, <1>3, <1>4 DEF Ext

-----------------------------------------------------------------------------
(* Changes of accounts *)

StorageKept(s, t) ==
  /\ t.incarnations = s.incarnations
  /\ \A a \in Addr, k \in Slot : Original(t, a, k) = Original(s, a, k)
  /\ \A a \in Addr, k \in Slot : Current(t, a, k) = Current(s, a, k)

\* No account is removed while a message runs.
Stays(s, t) == \A a \in Addr : Account(s, a) # None => Account(t, a) # None

\* t is reached from s by changes to accounts in A.
Changed(s, t, A) ==
  /\ Good(t) /\ Ext(s, t)
  /\ StorageKept(s, t) /\ Stays(s, t)
  /\ t.refund = s.refund /\ t.logs = s.logs /\ t.selfDestructs = s.selfDestructs
  /\ s.newCode \subseteq t.newCode /\ t.touched \subseteq s.touched \cup A
  /\ \A a \in Addr \ A : Account(t, a) = Account(s, a)

\* Changes follow each other.
LEMMA ChangedTrans ==
  ASSUME NEW s, NEW t, NEW u, NEW A, NEW B, Good(s), Changed(s, t, A), Changed(t, u, B)
  PROVE  Changed(s, u, A \cup B)
<1>1. Ext(s, u)
  BY ExtTrans DEF Changed
<1>2. StorageKept(s, u)
  BY DEF Changed, StorageKept
<1>3. Stays(s, u)
  BY DEF Changed, Stays
<1> QED BY <1>1, <1>2, <1>3 DEF Changed

\* A change of accounts in A is one of accounts in a larger set.
LEMMA ChangedMore ==
  ASSUME NEW s, NEW t, NEW A, NEW B, Changed(s, t, A), A \subseteq B
  PROVE  Changed(s, t, B)
BY DEF Changed

\* Nothing changed.
LEMMA ChangedRefl ==
  ASSUME NEW s, Good(s)
  PROVE  Changed(s, s, {})
BY ExtRefl DEF Changed, StorageKept, Stays

\* What a state shows of accounts and storage is the same if its substate is
\* all that a step has changed.
LEMMA SubstateChanged ==
  ASSUME NEW s, NEW t, Good(s), Good(t), Ext(s, t), SameData(s, t), t.refund = s.refund,
         t.logs = s.logs, t.selfDestructs = s.selfDestructs, t.newCode = s.newCode,
         NEW A, t.touched \subseteq s.touched \cup A
  PROVE  Changed(s, t, A)
<1>1. /\ \A a : Account(t, a) = Account(s, a)
      /\ \A a, k : Original(t, a, k) = Original(s, a, k)
      /\ \A a, k : Current(t, a, k) = Current(s, a, k)
  BY SameDataView DEF Good
<1> QED BY <1>1 DEF Changed, StorageKept, SameData, Stays

\* The delta pushed last is the one undone first.
LEMMA Pushed ==
  ASSUME NEW s, s.journal \in Seq(Deltas), NEW d \in Deltas, NEW t,
         t.journal = Append(s.journal, d)
  PROVE  t.journal # <<>> /\ LastDelta(t) = d /\ Front(t.journal) = s.journal
<1>1. Front(Append(s.journal, d)) = s.journal
  BY FrontAppend, Zenon
<1>2. /\ Append(s.journal, d) # <<>>
      /\ Len(Append(s.journal, d)) = Len(s.journal) + 1
      /\ Append(s.journal, d)[Len(s.journal) + 1] = d
  BY AppendProperties
<1> QED BY <1>1, <1>2 DEF LastDelta

\* Fields that a change of objects leaves alone.
OnlyObjects(s, t) ==
  /\ t \in States
  /\ t.storage = s.storage /\ t.incarnations = s.incarnations
  /\ t.selfDestructs = s.selfDestructs /\ t.logs = s.logs /\ t.touched = s.touched
  /\ t.refund = s.refund /\ t.accessed = s.accessed /\ t.accessedKeys = s.accessedKeys
  /\ s.newCode \subseteq t.newCode

WithObjects(s, f, j, c) ==
  [objects |-> f, storage |-> s.storage, incarnations |-> s.incarnations, newCode |-> c,
   journal |-> j, selfDestructs |-> s.selfDestructs, logs |-> s.logs,
   touched |-> s.touched, refund |-> s.refund, accessed |-> s.accessed,
   accessedKeys |-> s.accessedKeys]

ObjectMap(f) == f \in [DOMAIN f -> Objects] /\ DOMAIN f \subseteq Addr
MoreCode(s, c) == c \in SUBSET Code /\ s.newCode \subseteq c
ObjectsSet(s, f, j, c, t) ==
  OnlyObjects(s, t) /\ t.objects = f /\ t.journal = j /\ t.newCode = c

\* The objects of a state are replaced.
LEMMA SetObjects ==
  ASSUME NEW s \in States, NEW f, ObjectMap(f), NEW j \in Seq(Deltas), NEW c, MoreCode(s, c)
  PROVE  ObjectsSet(s, f, j, c, WithObjects(s, f, j, c))
<1> USE DEF ObjectMap, MoreCode
<1> DEFINE t == WithObjects(s, f, j, c)
<1>1. t \in States
  <2>1. f \in Partial(Addr, Objects) /\ s.storage \in Partial(Addr, Storages)
    BY DEF Partial, States
  <2> QED BY <2>1, StateTypes DEF States, WithObjects
<1> QED BY <1>1 DEF OnlyObjects, WithObjects, ObjectsSet

\* An object is replaced, and its delta leads back to what it was.
ObjectDelta(s, a, o, d) ==
  /\ d \in Deltas /\ d.addr = a
  /\ \/ d.op = "Create" /\ a \notin DOMAIN s.objects
     \/ d.op = "Update" /\ a \in DOMAIN s.objects /\ d.prev = s.objects[a]
     \/ /\ d.op = "UpdateBalance" /\ a \in DOMAIN s.objects
        /\ s.objects[a].current # None
        /\ d.prev = s.objects[a].current.balance
        /\ \E v \in Int : o.current = [s.objects[a].current EXCEPT !.balance = v]

ObjectPut(s, a, o, d, t) ==
  /\ o \in Objects /\ o.initial = ReadAccount(a) /\ o.current # None
  /\ ObjectDelta(s, a, o, d)
  /\ OnlyObjects(s, t) /\ t.journal = Append(s.journal, d)
  /\ DOMAIN t.objects = DOMAIN s.objects \cup {a} /\ t.objects[a] = o
  /\ \A x \in DOMAIN s.objects : x # a => t.objects[x] = s.objects[x]

ObjectChanged(s, a, o, t) ==
  /\ Changed(s, t, {a}) /\ t.touched = s.touched
  /\ Account(t, a) = o.current /\ a \in DOMAIN t.objects /\ t.objects[a] = o

\* An object put with its delta is a change of that account alone.
LEMMA PushObject ==
  ASSUME NEW s, Good(s), NEW a \in Addr, NEW o, NEW d, NEW t, ObjectPut(s, a, o, d, t)
  PROVE  ObjectChanged(s, a, o, t)
<1>0. /\ o \in Objects /\ o.initial = ReadAccount(a) /\ o.current # None
      /\ ObjectDelta(s, a, o, d)
      /\ OnlyObjects(s, t) /\ t.journal = Append(s.journal, d)
      /\ DOMAIN t.objects = DOMAIN s.objects \cup {a} /\ t.objects[a] = o
      /\ \A x \in DOMAIN s.objects : x # a => t.objects[x] = s.objects[x]
  BY DEF ObjectPut
<1>1. s \in States /\ t \in States /\ Sound(s) /\ d \in Deltas /\ d.addr = a
      /\ s.journal \in Seq(Deltas) /\ Len(s.journal) \in Nat
  BY <1>0, SoundLen DEF Good, OnlyObjects, ObjectDelta
<1>2. InitialsMatch(s)
  BY <1>0, <1>1 DEF Sound
<1>3. InitialsMatch(t) /\ ObjectsStay(s, t)
  BY <1>0, <1>2 DEF InitialsMatch, ObjectsStay
<1>4. d.op \in {"Create", "Update", "UpdateBalance"}
  BY <1>0 DEF ObjectDelta
<1>5. Good(t)
  <2>1. d.op = "Update" => /\ d.prev.initial = ReadAccount(d.addr)
                            /\ d.addr \in DOMAIN s.objects /\ d.prev = s.objects[d.addr]
    BY <1>0, <1>2 DEF ObjectDelta, InitialsMatch
  <2>2. d.op = "UpdateBalance" => /\ d.addr \in DOMAIN t.objects
                                   /\ t.objects[d.addr].current # None
    BY <1>0, <1>1
  <2>3. d.op = "Create" => d.addr \notin DOMAIN s.objects
    BY <1>0 DEF ObjectDelta
  <2> QED BY <1>0, <1>1, <1>3, <1>4, <2>1, <2>2, <2>3, PushGood
<1>6. Account(t, a) = o.current /\ \A x \in Addr \ {a} : Account(t, x) = Account(s, x)
  BY <1>0 DEF Account
<1>7. Settled(s) /\ Settled(t) /\ Sound(t)
  BY <1>0, <1>5 DEF Good
<1>8. /\ \A x \in Addr, k \in Slot : Original(t, x, k) = Original(s, x, k)
      /\ \A x \in Addr, k \in Slot : Current(t, x, k) = Current(s, x, k)
  <2>1. \A x : Incarnation(t, x) = Incarnation(s, x)
    BY <1>0, <1>7, SettledView DEF OnlyObjects
  <2>2. \A x : Box(t, x) = Box(s, x)
    BY <1>0 DEF OnlyObjects, Box
  <2> QED BY <1>0, <2>1, <2>2 DEF Original, Current
<1> DEFINE u == Undo(t)
<1>9. t.journal # <<>> /\ LastDelta(t) = d /\ Front(t.journal) = s.journal
  BY <1>0, <1>1, Pushed
<1>10. FieldsUndone(t, d, u) /\ \A x \in Addr : ViewUndone(t, d, u, x)
  BY <1>0, <1>7, <1>9, UndoFields, UndoView
<1> HIDE DEF u
<1>11. Account(u, a) = Account(s, a)
  <2>1. Account(u, a) = IF d.op = "Create" THEN ReadAccount(a)
                        ELSE IF d.op = "Update" THEN d.prev.current
                        ELSE [Account(t, a) EXCEPT !.balance = d.prev]
    BY <1>0, <1>1, <1>4, <1>10 DEF ViewUndone
  <2>2. CASE d.op = "Create"
    BY <1>0, <2>1, <2>2 DEF ObjectDelta, Account
  <2>3. CASE d.op = "Update"
    BY <1>0, <2>1, <2>3 DEF ObjectDelta, Account
  <2>4. CASE d.op = "UpdateBalance"
    <3> DEFINE c == s.objects[a].current
    <3>1. /\ a \in DOMAIN s.objects /\ c # None /\ d.prev = c.balance
          /\ \E v \in Int : o.current = [c EXCEPT !.balance = v]
      BY <1>0, <2>4 DEF ObjectDelta
    <3>2. c \in Accounts
      <4>1. s.objects[a] \in Objects
        BY <1>0, <1>1, <3>1, StateTypes
      <4> QED BY <1>0, <3>1, <4>1 DEF Objects
    <3> HIDE DEF c
    <3>3. PICK v \in Int : o.current = [c EXCEPT !.balance = v]
      BY <1>0, <3>1
    <3>4. [o.current EXCEPT !.balance = c.balance] = c
      BY <1>0, <3>2, <3>3 DEF Accounts
    <3>5. Account(u, a) = c
      BY <1>0, <1>6, <2>1, <2>4, <3>1, <3>4
    <3> QED BY <1>0, <3>1, <3>5 DEF Account, c
  <2> QED BY <1>0, <1>4, <2>2, <2>3, <2>4
<1>12. SameView(s, u)
  <2>1. \A x \in Addr : Account(s, x) = Account(u, x)
    BY <1>0, <1>1, <1>6, <1>10, <1>11 DEF ViewUndone
  <2>2. /\ \A x \in Addr, k \in Slot : Original(s, x, k) = Original(u, x, k)
        /\ \A x \in Addr, k \in Slot : Current(s, x, k) = Current(u, x, k)
    BY <1>0, <1>4, <1>8, <1>10 DEF ViewUndone
  <2>3. /\ u.journal = s.journal /\ u.incarnations = t.incarnations
        /\ u.selfDestructs = t.selfDestructs /\ u.touched = t.touched
        /\ u.accessed = t.accessed /\ u.accessedKeys = t.accessedKeys
    BY <1>0, <1>4, <1>9, <1>10 DEF FieldsUndone
  <2> QED BY <1>0, <2>1, <2>2, <2>3 DEF SameView, OnlyObjects
<1>13. Ext(s, t)
  BY <1>0, <1>1, <1>5, <1>12, PushExt DEF OnlyObjects, u
<1>14. Stays(s, t)
  BY <1>0, <1>6 DEF Stays
<1> QED BY <1>0, <1>5, <1>6, <1>8, <1>13, <1>14 DEF Changed, StorageKept, OnlyObjects, ObjectChanged

-----------------------------------------------------------------------------
(* get_object, ensure_object *)

\* get_object caches the account, and shows the same.
GetObjectOk(s, a, t) ==
  /\ Changed(s, t, {}) /\ t.touched = s.touched /\ t.storage = s.storage
  /\ t.newCode = s.newCode
  /\ Exists(s, a) => a \in DOMAIN t.objects
  /\ a \notin DOMAIN t.objects => ReadAccount(a) = None

\* get_object shows the same, and caches the account when there is one.
LEMMA GetObjectDoes ==
  ASSUME NEW s, Good(s), NEW a \in Addr
  PROVE  GetObjectOk(s, a, GetObject(s, a))
<1> DEFINE o == [initial |-> ReadAccount(a), current |-> ReadAccount(a)]
<1>1. GetObject(s, a) = IF a \in DOMAIN s.objects \/ ReadAccount(a) = None THEN s
                        ELSE [s EXCEPT !.objects = Put(@, a, o)]
  BY DEF GetObject, With
<1>2. s \in States /\ Sound(s) /\ db \in Databases /\ InitialsMatch(s) /\ Settled(s)
  BY DEF Good, Sound
<1>3. CASE a \in DOMAIN s.objects \/ ReadAccount(a) = None
  <2>1. Exists(s, a) => a \in DOMAIN s.objects
    BY <1>3 DEF Exists, Account
  <2> QED BY <1>1, <1>3, <2>1, ChangedRefl DEF GetObjectOk
<1>4. CASE a \notin DOMAIN s.objects /\ ReadAccount(a) # None
  <2> DEFINE f == Put(s.objects, a, o)
             t == GetObject(s, a)
  <2>1. o \in Objects
    BY <1>2, DatabaseTypes DEF Objects
  <2>2. /\ DOMAIN f = DOMAIN s.objects \cup {a} /\ f[a] = o
        /\ \A x \in DOMAIN s.objects : f[x] = s.objects[x]
    BY <1>4 DEF Put
  <2>3. f \in [DOMAIN f -> Objects] /\ DOMAIN f \subseteq Addr
    BY <1>2, <2>1, StateTypes DEF Put
  <2>4. t = WithObjects(s, f, s.journal, s.newCode)
    BY <1>1, <1>2, <1>4, StateRecord DEF WithObjects
  <2> HIDE DEF f, t, o
  <2>5. OnlyObjects(s, t) /\ t.objects = f /\ t.journal = s.journal
        /\ t.newCode = s.newCode
    <3>1. ObjectMap(f) /\ MoreCode(s, s.newCode) /\ s.journal \in Seq(Deltas)
      BY <1>2, <2>3, StateTypes DEF ObjectMap, MoreCode
    <3>2. ObjectsSet(s, f, s.journal, s.newCode, t)
      BY <1>2, <2>4, <3>1, SetObjects
    <3> QED BY <3>2 DEF ObjectsSet
  <2>6. InitialsMatch(t) /\ ObjectsStay(s, t)
    <3>1. f[a].initial = ReadAccount(a)
      BY <2>2 DEF o
    <3> QED BY <1>2, <2>2, <2>5, <3>1 DEF InitialsMatch, ObjectsStay
  <2>7. \A x \in Addr : Account(t, x) = Account(s, x)
    <3>1. f[a].current = ReadAccount(a)
      BY <2>2 DEF o
    <3> QED BY <1>4, <2>2, <2>5, <3>1 DEF Account
  <2>8. Settled(t)
    BY <1>2, <2>5 DEF Settled
  <2>9. /\ \A x \in Addr, k \in Slot : Original(t, x, k) = Original(s, x, k)
        /\ \A x \in Addr, k \in Slot : Current(t, x, k) = Current(s, x, k)
    <3>1. \A x : Incarnation(t, x) = Incarnation(s, x)
      BY <1>2, <2>5, <2>8, SettledView DEF OnlyObjects
    <3>2. \A x : Box(t, x) = Box(s, x)
      BY <2>5 DEF OnlyObjects, Box
    <3> QED BY <3>1, <3>2 DEF Original, Current
  <2>10. SameView(s, t)
    BY <2>5, <2>7, <2>9 DEF SameView, OnlyObjects
  <2>11. t \in States /\ t.logs = s.logs /\ Len(s.logs) \in Nat
    BY <1>2, <2>5, StateTypes, LenProperties DEF OnlyObjects
  <2>12. Ext(s, t)
    BY <2>6, <2>10, <2>11, CacheExt
  <2>13. Good(t)
    BY <2>12 DEF Ext
  <2>14. Changed(s, t, {})
    BY <2>5, <2>7, <2>9, <2>12, <2>13 DEF Changed, StorageKept, OnlyObjects, Stays
  <2>15. a \in DOMAIN t.objects
    BY <2>2, <2>5
  <2> QED BY <2>5, <2>14, <2>15 DEF GetObjectOk, OnlyObjects, t
<1> QED BY <1>3, <1>4

\* Pushing a delta, field by field.
LEMMA JournalIs ==
  ASSUME NEW s \in States, NEW d
  PROVE  Journal(s, d) =
           [objects |-> s.objects, storage |-> s.storage, incarnations |-> s.incarnations,
            newCode |-> s.newCode, journal |-> Append(s.journal, d),
            selfDestructs |-> s.selfDestructs, logs |-> s.logs, touched |-> s.touched,
            refund |-> s.refund, accessed |-> s.accessed, accessedKeys |-> s.accessedKeys]
BY StateRecord DEF Journal

\* An object replaced with its delta is a change of that account alone.
LEMMA ReplaceObject ==
  ASSUME NEW s, Good(s), NEW a \in DOMAIN s.objects, NEW o \in Objects,
         o.initial = s.objects[a].initial, o.current # None,
         NEW d, ObjectDelta(s, a, o, d), NEW c, MoreCode(s, c)
  PROVE  LET t == WithObjects(s, [s.objects EXCEPT ![a] = o], Append(s.journal, d), c)
         IN  ObjectChanged(s, a, o, t) /\ t.newCode = c
<1> DEFINE f == [s.objects EXCEPT ![a] = o]
           t == WithObjects(s, f, Append(s.journal, d), c)
<1>1. s \in States /\ Sound(s) /\ s.journal \in Seq(Deltas)
  BY SoundLen DEF Good
<1>2. /\ s.objects \in [DOMAIN s.objects -> Objects] /\ DOMAIN s.objects \subseteq Addr
  BY <1>1, StateTypes
<1>3. /\ DOMAIN f = DOMAIN s.objects /\ f[a] = o
      /\ \A x \in DOMAIN s.objects : x # a => f[x] = s.objects[x]
      /\ f \in [DOMAIN f -> Objects]
  BY <1>2
<1>4. d \in Deltas /\ Append(s.journal, d) \in Seq(Deltas)
  BY <1>1, AppendProperties DEF ObjectDelta
<1> SUFFICES ObjectChanged(s, a, o, t) /\ t.newCode = c
  OBVIOUS
<1>5. ObjectsSet(s, f, Append(s.journal, d), c, t)
  <2>1. ObjectMap(f)
    BY <1>2, <1>3 DEF ObjectMap
  <2> HIDE DEF f
  <2> QED BY <1>1, <1>4, <2>1, SetObjects
<1> HIDE DEF t, f
<1>6. o.initial = ReadAccount(a)
  BY <1>1 DEF Sound, InitialsMatch
<1>7. a \in Addr /\ ObjectPut(s, a, o, d, t)
  <2>1. DOMAIN s.objects = DOMAIN s.objects \cup {a} /\ a \in Addr
    BY <1>2
  <2> QED BY <1>3, <1>5, <1>6, <2>1 DEF ObjectPut, ObjectsSet
<1>8. ObjectChanged(s, a, o, t)
  BY <1>7, PushObject
<1> QED BY <1>5, <1>8 DEF ObjectsSet

\* The account that ensure_object makes.
LEMMA NewAccountType == NewAccount \in Accounts /\ NewAccount # None
BY NoneAssumption DEF NewAccount, Accounts, Code

OrNew(s, a) == IF Exists(s, a) THEN Account(s, a) ELSE NewAccount

\* The account that ensure_object finds or makes.
LEMMA OrNewType ==
  ASSUME NEW s, Sound(s), NEW a \in Addr
  PROVE  OrNew(s, a) \in Accounts /\ OrNew(s, a) # None
BY AccountType, NewAccountType, NoneAssumption DEF OrNew, Exists

EnsureObjectOk(s, a, t) ==
  /\ Changed(s, t, {a}) /\ t.touched = s.touched /\ t.newCode = s.newCode
  /\ a \in DOMAIN t.objects /\ Account(t, a) = OrNew(s, a)
  /\ t.objects[a].current = OrNew(s, a)

\* ensure_object leaves the account there, and journals it when it made it.
LEMMA EnsureObjectDoes ==
  ASSUME NEW s, Good(s), NEW a \in Addr
  PROVE  EnsureObjectOk(s, a, EnsureObject(s, a))
<1> DEFINE g == GetObject(s, a)
           t == EnsureObject(s, a)
<1>1. t = IF Exists(g, a) THEN g
          ELSE IF a \in DOMAIN g.objects
          THEN [Journal(g, [op |-> "Update", addr |-> a, prev |-> g.objects[a]])
                  EXCEPT !.objects[a].current = NewAccount]
          ELSE [Journal(g, [op |-> "Create", addr |-> a])
                  EXCEPT !.objects = Put(@, a, [initial |-> None,
                                                current |-> NewAccount])]
  BY DEF EnsureObject, With
<1>2. GetObjectOk(s, a, g)
  BY GetObjectDoes
<1> SUFFICES EnsureObjectOk(s, a, t)
  OBVIOUS
<1> HIDE DEF g, t
<1>3. /\ Changed(s, g, {}) /\ g.touched = s.touched /\ g.newCode = s.newCode
      /\ Exists(s, a) => a \in DOMAIN g.objects
      /\ a \notin DOMAIN g.objects => ReadAccount(a) = None
  BY <1>2 DEF GetObjectOk
<1>4. Account(g, a) = Account(s, a) /\ Good(g)
  BY <1>3 DEF Changed
<1>5. Sound(g) /\ g \in States /\ g.journal \in Seq(Deltas) /\ InitialsMatch(g)
  BY <1>4, SoundLen DEF Good, Sound
<1>6. /\ g.objects \in [DOMAIN g.objects -> Objects] /\ DOMAIN g.objects \subseteq Addr
      /\ g.newCode \in SUBSET Code
  BY <1>5, StateTypes
<1>7. CASE Exists(g, a)
  <2>1. t = g /\ Exists(s, a)
    BY <1>1, <1>4, <1>7 DEF Exists
  <2>2. Changed(s, t, {a})
    BY <1>3, <2>1, ChangedMore
  <2>3. a \in DOMAIN t.objects /\ Account(t, a) = OrNew(s, a)
    BY <1>3, <1>4, <2>1 DEF OrNew
  <2> QED BY <1>3, <2>1, <2>2, <2>3 DEF EnsureObjectOk, Account
<1>8. CASE ~Exists(g, a) /\ a \in DOMAIN g.objects
  <2> DEFINE d == [op |-> "Update", addr |-> a, prev |-> g.objects[a]]
             o == [initial |-> g.objects[a].initial, current |-> NewAccount]
             f == [g.objects EXCEPT ![a] = o]
  <2>1. g.objects[a] \in Objects
    BY <1>6, <1>8
  <2>2. [g.objects[a] EXCEPT !.current = NewAccount] = o
    BY <2>1 DEF Objects
  <2>3. o \in Objects /\ o.initial = g.objects[a].initial /\ o.current = NewAccount
    BY <2>1, NewAccountType DEF Objects
  <2>4. [g.objects EXCEPT ![a].current = NewAccount] = f
    BY <2>2
  <2>5. t = WithObjects(g, f, Append(g.journal, d), g.newCode)
    <3>1. t = [Journal(g, d) EXCEPT !.objects[a].current = NewAccount]
      BY <1>1, <1>8
    <3> HIDE DEF f, d, o
    <3> DEFINE j == Journal(g, d)
    <3>3. j = [objects |-> g.objects, storage |-> g.storage, incarnations |-> g.incarnations,
               newCode |-> g.newCode, journal |-> Append(g.journal, d),
               selfDestructs |-> g.selfDestructs, logs |-> g.logs, touched |-> g.touched,
               refund |-> g.refund, accessed |-> g.accessed, accessedKeys |-> g.accessedKeys]
      BY <1>5, JournalIs
    <3>4. t = [j EXCEPT !.objects[a].current = NewAccount]
      BY <3>1
    <3> HIDE DEF j
    <3>2. t = WithObjects(g, [g.objects EXCEPT ![a].current = NewAccount],
                          Append(g.journal, d), g.newCode)
      BY <3>3, <3>4 DEF WithObjects
    <3> QED BY <2>4, <3>2
  <2>6. d \in Deltas /\ d.op = "Update" /\ d.addr = a /\ d.prev = g.objects[a]
    BY <2>1 DEF Deltas
  <2> HIDE DEF d, o, f
  <2>7. ObjectDelta(g, a, o, d)
    BY <1>8, <2>6 DEF ObjectDelta
  <2>8. /\ Changed(g, t, {a}) /\ t.touched = g.touched /\ t.newCode = g.newCode
        /\ Account(t, a) = o.current /\ a \in DOMAIN t.objects /\ t.objects[a] = o
    <3>1. MoreCode(g, g.newCode)
      BY <1>6 DEF MoreCode
    <3>2. ObjectChanged(g, a, o, t) /\ t.newCode = g.newCode
      BY <1>4, <1>8, <2>3, <2>5, <2>7, <3>1, NewAccountType, ReplaceObject DEF f
    <3> QED BY <3>2 DEF ObjectChanged
  <2>9. Changed(s, t, {a})
    BY <1>3, <2>8, ChangedTrans, {} \cup {a} = {a}
  <2>10. OrNew(s, a) = NewAccount
    BY <1>4, <1>8 DEF OrNew, Exists
  <2> QED BY <1>3, <2>3, <2>8, <2>9, <2>10 DEF EnsureObjectOk
<1>9. CASE ~Exists(g, a) /\ a \notin DOMAIN g.objects
  <2> DEFINE d == [op |-> "Create", addr |-> a]
             o == [initial |-> None, current |-> NewAccount]
             f == Put(g.objects, a, o)
  <2>1. o \in Objects /\ o.initial = ReadAccount(a) /\ o.current = NewAccount
    BY <1>3, <1>9, NewAccountType DEF Objects
  <2>2. t = WithObjects(g, f, Append(g.journal, d), g.newCode)
    <3>1. t = [Journal(g, d) EXCEPT !.objects = Put(@, a, o)]
      BY <1>1, <1>9
    <3> HIDE DEF d, o
    <3> DEFINE j == Journal(g, d)
    <3>2. j = [objects |-> g.objects, storage |-> g.storage, incarnations |-> g.incarnations,
               newCode |-> g.newCode, journal |-> Append(g.journal, d),
               selfDestructs |-> g.selfDestructs, logs |-> g.logs, touched |-> g.touched,
               refund |-> g.refund, accessed |-> g.accessed, accessedKeys |-> g.accessedKeys]
      BY <1>5, JournalIs
    <3>3. t = [j EXCEPT !.objects = Put(@, a, o)]
      BY <3>1
    <3> HIDE DEF j
    <3> QED BY <3>2, <3>3 DEF WithObjects
  <2>3. d \in Deltas /\ d.op = "Create" /\ d.addr = a
    BY DEF Deltas
  <2> HIDE DEF d, o
  <2>4. /\ DOMAIN f = DOMAIN g.objects \cup {a} /\ f[a] = o
        /\ \A x \in DOMAIN g.objects : x # a => f[x] = g.objects[x]
        /\ f \in [DOMAIN f -> Objects] /\ DOMAIN f \subseteq Addr
    BY <1>6, <2>1 DEF Put
  <2> HIDE DEF f
  <2>5. Append(g.journal, d) \in Seq(Deltas)
    BY <1>5, <2>3, AppendProperties
  <2>6. OnlyObjects(g, t) /\ t.objects = f /\ t.journal = Append(g.journal, d)
        /\ t.newCode = g.newCode
    <3>1. ObjectMap(f) /\ MoreCode(g, g.newCode)
      BY <1>6, <2>4 DEF ObjectMap, MoreCode
    <3>2. ObjectsSet(g, f, Append(g.journal, d), g.newCode, t)
      BY <1>5, <2>2, <2>5, <3>1, SetObjects
    <3> QED BY <3>2 DEF ObjectsSet
  <2>7. ObjectDelta(g, a, o, d)
    BY <1>9, <2>3 DEF ObjectDelta
  <2>8. /\ Changed(g, t, {a}) /\ t.touched = g.touched
        /\ Account(t, a) = o.current /\ a \in DOMAIN t.objects
    <3>1. ObjectPut(g, a, o, d, t)
      BY <2>1, <2>4, <2>6, <2>7, NewAccountType DEF ObjectPut
    <3>2. ObjectChanged(g, a, o, t)
      BY <1>4, <3>1, PushObject
    <3> QED BY <3>2 DEF ObjectChanged
  <2>9. Changed(s, t, {a})
    BY <1>3, <2>8, ChangedTrans, {} \cup {a} = {a}
  <2>10. OrNew(s, a) = NewAccount
    BY <1>4, <1>9 DEF OrNew, Exists
  <2> QED BY <1>3, <2>1, <2>4, <2>6, <2>8, <2>9, <2>10 DEF EnsureObjectOk
<1> QED BY <1>7, <1>8, <1>9

-----------------------------------------------------------------------------
(* Changes of the substate *)

\* Fields that a change of the substate leaves alone.
WithSubstate(s, j, self, tch, acc, keys) ==
  [objects |-> s.objects, storage |-> s.storage, incarnations |-> s.incarnations,
   newCode |-> s.newCode, journal |-> j, selfDestructs |-> self, logs |-> s.logs,
   touched |-> tch, refund |-> s.refund, accessed |-> acc, accessedKeys |-> keys]

\* The delta of an addition to the substate.
SubstateDelta(s, t, d) ==
  /\ d \in Deltas
  /\ t = WithSubstate(s, Append(s.journal, d), t.selfDestructs, t.touched, t.accessed,
                      t.accessedKeys)
  /\ t.selfDestructs = IF d.op = "Selfdestruct" THEN s.selfDestructs \cup {d.addr}
                                                ELSE s.selfDestructs
  /\ t.touched = IF d.op = "Touch" THEN s.touched \cup {d.addr} ELSE s.touched
  /\ t.accessed = IF d.op = "AccountAccess" THEN s.accessed \cup {d.addr} ELSE s.accessed
  /\ t.accessedKeys = IF d.op = "StorageAccess" THEN s.accessedKeys \cup {<<d.addr, d.key>>}
                                                ELSE s.accessedKeys
  /\ \/ d.op = "Selfdestruct" /\ d.addr \notin s.selfDestructs
     \/ d.op = "Touch" /\ d.addr \notin s.touched
     \/ d.op = "AccountAccess" /\ d.addr \notin s.accessed
     \/ d.op = "StorageAccess" /\ <<d.addr, d.key>> \notin s.accessedKeys

\* An addition to the substate with its delta is an extension.
LEMMA PushSubstate ==
  ASSUME NEW s, Good(s), NEW t, NEW d, SubstateDelta(s, t, d)
  PROVE  /\ Good(t) /\ Ext(s, t) /\ SameData(s, t)
         /\ t.refund = s.refund /\ t.logs = s.logs /\ t.newCode = s.newCode
<1>1. s \in States /\ Sound(s) /\ s.journal \in Seq(Deltas) /\ InitialsMatch(s)
      /\ Settled(s) /\ d \in Deltas /\ d.addr \in Addr
      /\ (d.op = "StorageAccess" => d.key \in Slot)
  BY SoundLen, DeltaTypes DEF Good, Sound, SubstateDelta
<1>2. d.op \in {"Selfdestruct", "Touch", "AccountAccess", "StorageAccess"}
  BY DEF SubstateDelta
<1>3. Append(s.journal, d) \in Seq(Deltas)
  BY <1>1, AppendProperties
<1>4. /\ t.journal = Append(s.journal, d) /\ SameData(s, t)
      /\ t.refund = s.refund /\ t.logs = s.logs /\ t.newCode = s.newCode
  BY DEF SubstateDelta, WithSubstate, SameData
<1>5. t \in States
  <2>1. /\ t.selfDestructs \in SUBSET Addr /\ t.touched \in SUBSET Addr
        /\ t.accessed \in SUBSET Addr /\ t.accessedKeys \in SUBSET (Addr \X Slot)
    BY <1>1, StateTypes DEF SubstateDelta
  <2>2. t = WithSubstate(s, Append(s.journal, d), t.selfDestructs, t.touched, t.accessed,
                         t.accessedKeys)
    BY DEF SubstateDelta
  <2>3. s.objects \in Partial(Addr, Objects) /\ s.storage \in Partial(Addr, Storages)
    BY <1>1 DEF States
  <2>4. /\ s.incarnations \in [Addr -> Int] /\ s.newCode \in SUBSET Code
        /\ s.logs \in Seq(Addr) /\ s.refund \in Int
    BY <1>1, StateTypes
  <2> DEFINE j == Append(s.journal, d)
             x1 == t.selfDestructs
             x2 == t.touched
             x3 == t.accessed
             x4 == t.accessedKeys
  <2> HIDE DEF j, x1, x2, x3, x4
  <2>5. WithSubstate(s, j, x1, x2, x3, x4) \in States
    BY <1>3, <2>1, <2>3, <2>4 DEF WithSubstate, States, j, x1, x2, x3, x4
  <2> QED BY <2>2, <2>5 DEF j, x1, x2, x3, x4
<1>6. InitialsMatch(t) /\ ObjectsStay(s, t)
  BY <1>1, <1>4 DEF InitialsMatch, ObjectsStay, SameData
<1>7. Good(t)
  BY <1>1, <1>2, <1>4, <1>5, <1>6, PushGood
<1>8. /\ \A a : Account(t, a) = Account(s, a)
      /\ \A a, k : Original(t, a, k) = Original(s, a, k)
      /\ \A a, k : Current(t, a, k) = Current(s, a, k)
  BY <1>1, <1>4, <1>7, SameDataView DEF Good
<1> DEFINE u == Undo(t)
<1>9. t.journal # <<>> /\ LastDelta(t) = d /\ Front(t.journal) = s.journal
  BY <1>1, <1>4, Pushed
<1>10. FieldsUndone(t, d, u) /\ \A x \in Addr : ViewUndone(t, d, u, x)
  BY <1>7, <1>9, UndoFields, UndoView DEF Good
<1> HIDE DEF u
<1>11. SameView(s, u)
  <2>1. \A x \in Addr : Account(s, x) = Account(u, x)
    BY <1>2, <1>8, <1>10 DEF ViewUndone
  <2>2. /\ \A x \in Addr, k \in Slot : Original(s, x, k) = Original(u, x, k)
        /\ \A x \in Addr, k \in Slot : Current(s, x, k) = Current(u, x, k)
    BY <1>2, <1>8, <1>10 DEF ViewUndone
  <2>3. u.journal = s.journal /\ u.incarnations = s.incarnations
    BY <1>2, <1>4, <1>9, <1>10 DEF FieldsUndone, SameData
  <2>4. /\ u.selfDestructs = IF d.op = "Selfdestruct" THEN t.selfDestructs \ {d.addr}
                             ELSE t.selfDestructs
        /\ u.touched = IF d.op = "Touch" THEN t.touched \ {d.addr} ELSE t.touched
        /\ u.accessed = IF d.op = "AccountAccess" THEN t.accessed \ {d.addr} ELSE t.accessed
        /\ u.accessedKeys = IF d.op = "StorageAccess"
                            THEN t.accessedKeys \ {<<d.addr, d.key>>} ELSE t.accessedKeys
    BY <1>10 DEF FieldsUndone
  <2>5. u.selfDestructs = s.selfDestructs /\ u.touched = s.touched
        /\ u.accessed = s.accessed /\ u.accessedKeys = s.accessedKeys
    BY <2>4 DEF SubstateDelta
  <2> QED BY <2>1, <2>2, <2>3, <2>5 DEF SameView
<1>12. Ext(s, t)
  BY <1>1, <1>4, <1>7, <1>11, PushExt DEF u
<1> QED BY <1>4, <1>7, <1>12

SubstateOnly(s, t, A) == Changed(s, t, A) /\ SameData(s, t) /\ t.newCode = s.newCode

\* A substate is pushed with its delta.
LEMMA SubstateIs ==
  ASSUME NEW s, Good(s), NEW d \in Deltas,
         NEW self, NEW tch, NEW acc, NEW keys, NEW t,
         t = WithSubstate(s, Append(s.journal, d), self, tch, acc, keys)
  PROVE  /\ t = WithSubstate(s, Append(s.journal, d), t.selfDestructs, t.touched,
                             t.accessed, t.accessedKeys)
         /\ t.selfDestructs = self /\ t.touched = tch /\ t.accessed = acc
         /\ t.accessedKeys = keys
BY DEF WithSubstate

\* An addition to the substate changes no account but a touched one.
LEMMA PushSubstateOnly ==
  ASSUME NEW s, Good(s), NEW t, NEW d, SubstateDelta(s, t, d), d.op # "Selfdestruct"
  PROVE  SubstateOnly(s, t, IF d.op = "Touch" THEN {d.addr} ELSE {})
<1>1. /\ Good(t) /\ Ext(s, t) /\ SameData(s, t)
      /\ t.refund = s.refund /\ t.logs = s.logs /\ t.newCode = s.newCode
  BY PushSubstate
<1>2. /\ t.selfDestructs = s.selfDestructs
      /\ t.touched \subseteq s.touched \cup (IF d.op = "Touch" THEN {d.addr} ELSE {})
  BY DEF SubstateDelta
<1> DEFINE A == IF d.op = "Touch" THEN {d.addr} ELSE {}
<1>3. t.touched \subseteq s.touched \cup A
  BY <1>2
<1> HIDE DEF A
<1>4. SubstateOnly(s, t, A)
  BY <1>1, <1>2, <1>3, SubstateChanged DEF SubstateOnly
<1> QED BY <1>4 DEF A

\* touch changes the substate only.
LEMMA TouchDoes ==
  ASSUME NEW s, Good(s), NEW a \in Addr
  PROVE  SubstateOnly(s, Touch(s, a), {a})
<1> DEFINE t == [s EXCEPT !.touched = @ \cup {a}]
           d == [op |-> "Touch", addr |-> a]
           u == Touch(s, a)
<1>1. u = IF a \in s.touched THEN s
          ELSE IF a = RIPEMD_ADDRESS THEN t ELSE Journal(t, d)
  BY DEF Touch, With
<1>2. s \in States /\ InitialsMatch(s) /\ Settled(s) /\ s.logs \in Seq(Addr)
      /\ s.touched \in SUBSET Addr /\ s.journal \in Seq(Deltas)
  BY StateTypes DEF Good, Sound
<1>3. t = [objects |-> s.objects, storage |-> s.storage, incarnations |-> s.incarnations,
           newCode |-> s.newCode, journal |-> s.journal,
           selfDestructs |-> s.selfDestructs, logs |-> s.logs,
           touched |-> s.touched \cup {a}, refund |-> s.refund, accessed |-> s.accessed,
           accessedKeys |-> s.accessedKeys]
  <2> DEFINE x == s.touched \cup {a}
  <2>1. t = [s EXCEPT !.touched = x]
    OBVIOUS
  <2> HIDE DEF x, t
  <2>2. t = [objects |-> s.objects, storage |-> s.storage, incarnations |-> s.incarnations,
           newCode |-> s.newCode, journal |-> s.journal,
           selfDestructs |-> s.selfDestructs, logs |-> s.logs,
           touched |-> x, refund |-> s.refund, accessed |-> s.accessed,
           accessedKeys |-> s.accessedKeys]
    BY <1>2, <2>1, StateRecord
  <2> QED BY <2>2 DEF x
<1> HIDE DEF t
<1>4. t \in States
  BY <1>2, <1>3 DEF States
<1>5. CASE a \in s.touched
  <2>1. Changed(s, s, {}) /\ {} \subseteq {a} /\ u = s
    BY <1>1, <1>5, ChangedRefl
  <2>2. Changed(s, u, {a})
    BY <2>1, ChangedMore
  <2> QED BY <2>1, <2>2 DEF SubstateOnly, SameData
<1>6. CASE a \notin s.touched /\ a = RIPEMD_ADDRESS
  <2>1. u = t /\ SameData(s, t) /\ t.journal = s.journal /\ t.logs = s.logs
        /\ t.refund = s.refund /\ t.selfDestructs = s.selfDestructs /\ t.newCode = s.newCode
        /\ t.accessed = s.accessed /\ t.accessedKeys = s.accessedKeys
        /\ t.touched = s.touched \cup {RIPEMD_ADDRESS}
    BY <1>1, <1>3, <1>6 DEF SameData
  <2>2. InitialsMatch(t) /\ ObjectsStay(s, t) /\ Settled(t)
    BY <1>2, <2>1 DEF InitialsMatch, ObjectsStay, Settled, SameData
  <2>3. SameView(s, t)
    BY <1>2, <2>1, <2>2, SameDataView DEF SameView, SameData
  <2>4. Ext(s, t)
    BY <1>2, <1>4, <2>1, <2>2, <2>3, CacheExt, LenProperties
  <2>5. Good(t) /\ t.touched \subseteq s.touched \cup {a}
    BY <1>6, <2>1, <2>4 DEF Ext
  <2> QED BY <2>1, <2>4, <2>5, SubstateChanged DEF SubstateOnly
<1>7. CASE a \notin s.touched /\ a # RIPEMD_ADDRESS
  <2>1. u = Journal(t, d)
    BY <1>1, <1>7
  <2>2. u = WithSubstate(s, Append(s.journal, d), s.selfDestructs, s.touched \cup {a},
                         s.accessed, s.accessedKeys)
    <3> HIDE DEF d
    <3>1. t.objects = s.objects /\ t.storage = s.storage /\ t.journal = s.journal
          /\ t.incarnations = s.incarnations /\ t.newCode = s.newCode
          /\ t.selfDestructs = s.selfDestructs /\ t.logs = s.logs
          /\ t.touched = s.touched \cup {a} /\ t.refund = s.refund
          /\ t.accessed = s.accessed /\ t.accessedKeys = s.accessedKeys
      BY <1>3
    <3> QED BY <1>4, <2>1, <3>1, JournalIs DEF WithSubstate
  <2>3. d \in Deltas /\ d.op = "Touch" /\ d.addr = a
    BY DEF Deltas
  <2> HIDE DEF d, u
  <2>4. SubstateDelta(s, u, d)
    BY <1>7, <2>2, <2>3, SubstateIs DEF SubstateDelta
  <2>5. SubstateOnly(s, u, IF d.op = "Touch" THEN {d.addr} ELSE {})
    BY <2>3, <2>4, PushSubstateOnly
  <2> QED BY <2>3, <2>5 DEF u
<1> QED BY <1>5, <1>6, <1>7

\* access_account changes the substate only.
LEMMA AccessAccountDoes ==
  ASSUME NEW s, Good(s), NEW a \in Addr
  PROVE  SubstateOnly(s, AccessAccount(s, a), {})
<1> DEFINE t == [s EXCEPT !.accessed = @ \cup {a}]
           d == [op |-> "AccountAccess", addr |-> a]
           u == AccessAccount(s, a)
<1>1. u = IF a \in s.accessed THEN s ELSE Journal(t, d)
  BY DEF AccessAccount, With
<1>2. s \in States
  BY DEF Good, Sound
<1>3. CASE a \in s.accessed
  BY <1>1, <1>3, ChangedRefl DEF SubstateOnly, SameData
<1>4. CASE a \notin s.accessed
  <2>1. t = [objects |-> s.objects, storage |-> s.storage, incarnations |-> s.incarnations,
             newCode |-> s.newCode, journal |-> s.journal,
             selfDestructs |-> s.selfDestructs, logs |-> s.logs,
             touched |-> s.touched, refund |-> s.refund, accessed |-> s.accessed \cup {a},
             accessedKeys |-> s.accessedKeys]
    <3> DEFINE x == s.accessed \cup {a}
    <3>1. t = [s EXCEPT !.accessed = x]
      OBVIOUS
    <3> HIDE DEF x, t
    <3>2. t = [objects |-> s.objects, storage |-> s.storage, incarnations |-> s.incarnations,
             newCode |-> s.newCode, journal |-> s.journal,
             selfDestructs |-> s.selfDestructs, logs |-> s.logs,
             touched |-> s.touched, refund |-> s.refund, accessed |-> x,
             accessedKeys |-> s.accessedKeys]
      BY <1>2, <3>1, StateRecord
    <3> QED BY <3>2 DEF x
  <2> HIDE DEF t
  <2>2. u = WithSubstate(s, Append(s.journal, d), s.selfDestructs, s.touched,
                         s.accessed \cup {a}, s.accessedKeys)
    <3> HIDE DEF d
    <3> QED BY <1>1, <1>4, <2>1 DEF Journal, WithSubstate
  <2>3. d \in Deltas /\ d.op = "AccountAccess" /\ d.addr = a
    BY DEF Deltas
  <2> HIDE DEF d, u
  <2>4. SubstateDelta(s, u, d)
    BY <1>4, <2>2, <2>3, SubstateIs DEF SubstateDelta
  <2>5. SubstateOnly(s, u, IF d.op = "Touch" THEN {d.addr} ELSE {})
    BY <2>3, <2>4, PushSubstateOnly
  <2> QED BY <2>3, <2>5 DEF u
<1> QED BY <1>3, <1>4

\* access_storage changes the substate only.
LEMMA AccessStorageDoes ==
  ASSUME NEW s, Good(s), NEW a \in Addr, NEW k \in Slot
  PROVE  SubstateOnly(s, AccessStorage(s, a, k), {})
<1> DEFINE t == [s EXCEPT !.accessedKeys = @ \cup {<<a, k>>}]
           d == [op |-> "StorageAccess", addr |-> a, key |-> k]
           u == AccessStorage(s, a, k)
<1>1. u = IF <<a, k>> \in s.accessedKeys THEN s ELSE Journal(t, d)
  BY DEF AccessStorage
<1>2. s \in States
  BY DEF Good, Sound
<1>3. CASE <<a, k>> \in s.accessedKeys
  BY <1>1, <1>3, ChangedRefl DEF SubstateOnly, SameData
<1>4. CASE <<a, k>> \notin s.accessedKeys
  <2>1. t = [objects |-> s.objects, storage |-> s.storage, incarnations |-> s.incarnations,
             newCode |-> s.newCode, journal |-> s.journal,
             selfDestructs |-> s.selfDestructs, logs |-> s.logs,
             touched |-> s.touched, refund |-> s.refund, accessed |-> s.accessed,
             accessedKeys |-> s.accessedKeys \cup {<<a, k>>}]
    <3> DEFINE x == s.accessedKeys \cup {<<a, k>>}
    <3>1. t = [s EXCEPT !.accessedKeys = x]
      OBVIOUS
    <3> HIDE DEF x, t
    <3>2. t = [objects |-> s.objects, storage |-> s.storage, incarnations |-> s.incarnations,
             newCode |-> s.newCode, journal |-> s.journal,
             selfDestructs |-> s.selfDestructs, logs |-> s.logs,
             touched |-> s.touched, refund |-> s.refund, accessed |-> s.accessed,
             accessedKeys |-> x]
      BY <1>2, <3>1, StateRecord
    <3> QED BY <3>2 DEF x
  <2> HIDE DEF t
  <2>2. u = WithSubstate(s, Append(s.journal, d), s.selfDestructs, s.touched,
                         s.accessed, s.accessedKeys \cup {<<a, k>>})
    <3> HIDE DEF d
    <3> QED BY <1>1, <1>4, <2>1 DEF Journal, WithSubstate
  <2>3. d \in Deltas /\ d.op = "StorageAccess" /\ d.addr = a /\ d.key = k
    BY DEF Deltas
  <2> HIDE DEF d, u
  <2>4. SubstateDelta(s, u, d)
    BY <1>4, <2>2, <2>3, SubstateIs DEF SubstateDelta
  <2>5. SubstateOnly(s, u, IF d.op = "Touch" THEN {d.addr} ELSE {})
    BY <2>3, <2>4, PushSubstateOnly
  <2> QED BY <2>3, <2>5 DEF u
<1> QED BY <1>3, <1>4

\* record_selfdestruct changes nothing but the set of addresses.
SelfdestructOk(s, a, t) ==
  /\ Good(t) /\ Ext(s, t) /\ SameData(s, t)
  /\ t.refund = s.refund /\ t.logs = s.logs /\ t.newCode = s.newCode
  /\ t.touched = s.touched /\ t.selfDestructs = s.selfDestructs \cup {a}

\* record_selfdestruct adds the address, and its delta removes it.
LEMMA RecordSelfdestructDoes ==
  ASSUME NEW s, Good(s), NEW a \in Addr
  PROVE  SelfdestructOk(s, a, RecordSelfdestruct(s, a))
<1> DEFINE t == [s EXCEPT !.selfDestructs = @ \cup {a}]
           d == [op |-> "Selfdestruct", addr |-> a]
           u == RecordSelfdestruct(s, a)
<1>1. u = IF a \in s.selfDestructs THEN s ELSE Journal(t, d)
  BY DEF RecordSelfdestruct
<1>2. s \in States
  BY DEF Good, Sound
<1>3. CASE a \in s.selfDestructs
  <2>1. u = s /\ s.selfDestructs = s.selfDestructs \cup {a} /\ Ext(s, s)
    BY <1>1, <1>3, ExtRefl
  <2> QED BY <2>1 DEF SelfdestructOk, SameData
<1>4. CASE a \notin s.selfDestructs
  <2>1. t = [objects |-> s.objects, storage |-> s.storage, incarnations |-> s.incarnations,
             newCode |-> s.newCode, journal |-> s.journal,
             selfDestructs |-> s.selfDestructs \cup {a}, logs |-> s.logs,
             touched |-> s.touched, refund |-> s.refund, accessed |-> s.accessed,
             accessedKeys |-> s.accessedKeys]
    <3> DEFINE x == s.selfDestructs \cup {a}
    <3>1. t = [s EXCEPT !.selfDestructs = x]
      OBVIOUS
    <3> HIDE DEF x, t
    <3>2. t = [objects |-> s.objects, storage |-> s.storage, incarnations |-> s.incarnations,
             newCode |-> s.newCode, journal |-> s.journal,
             selfDestructs |-> x, logs |-> s.logs,
             touched |-> s.touched, refund |-> s.refund, accessed |-> s.accessed,
             accessedKeys |-> s.accessedKeys]
      BY <1>2, <3>1, StateRecord
    <3> QED BY <3>2 DEF x
  <2> HIDE DEF t
  <2>2. u = WithSubstate(s, Append(s.journal, d), s.selfDestructs \cup {a}, s.touched,
                         s.accessed, s.accessedKeys)
    <3> HIDE DEF d
    <3> QED BY <1>1, <1>4, <2>1 DEF Journal, WithSubstate
  <2>3. d \in Deltas /\ d.op = "Selfdestruct" /\ d.addr = a
    BY DEF Deltas
  <2> HIDE DEF d, u
  <2>4. SubstateDelta(s, u, d)
    BY <1>4, <2>2, <2>3, SubstateIs DEF SubstateDelta
  <2>5. /\ Good(u) /\ Ext(s, u) /\ SameData(s, u)
        /\ u.refund = s.refund /\ u.logs = s.logs /\ u.newCode = s.newCode
    BY <2>4, PushSubstate
  <2>6. u.touched = s.touched /\ u.selfDestructs = s.selfDestructs \cup {a}
    BY <2>3, <2>4 DEF SubstateDelta
  <2> QED BY <2>5, <2>6 DEF SelfdestructOk, u
<1> QED BY <1>3, <1>4

\* An account is replaced by c.
AccountSet(s, a, c, t) ==
  Changed(s, t, {a}) /\ Account(t, a) = c

\* The object of an account that ensure_object has left.
Holding(o, c) == [initial |-> o.initial, current |-> c]

\* An object with another current account.
LEMMA HoldingType ==
  ASSUME NEW s \in States, NEW a \in DOMAIN s.objects, NEW c \in Accounts
  PROVE  /\ Holding(s.objects[a], c) \in Objects
         /\ Holding(s.objects[a], c).initial = s.objects[a].initial
         /\ Holding(s.objects[a], c).current = c /\ c # None
         /\ s.objects[a] \in Objects
         /\ s.objects[a] = [initial |-> s.objects[a].initial,
                            current |-> s.objects[a].current]
<1>1. s.objects[a] \in Objects
  BY StateTypes
<1> QED BY <1>1, NoneAssumption DEF Holding, Objects

\* ensure_object and a replacement of the account, with their deltas.
LEMMA ReplaceAccount ==
  ASSUME NEW s, Good(s), NEW a \in Addr, NEW t, EnsureObjectOk(s, a, t),
         NEW c \in Accounts, NEW d, ObjectDelta(t, a, Holding(t.objects[a], c), d),
         NEW e, MoreCode(t, e), NEW u,
         u = WithObjects(t, [t.objects EXCEPT ![a] = Holding(t.objects[a], c)],
                         Append(t.journal, d), e)
  PROVE  AccountSet(s, a, c, u) /\ u.newCode = e /\ u.touched = s.touched
<1> DEFINE o == Holding(t.objects[a], c)
<1>1. /\ Changed(s, t, {a}) /\ t.touched = s.touched /\ t.newCode = s.newCode
      /\ a \in DOMAIN t.objects
  BY DEF EnsureObjectOk
<1>2. Good(t) /\ t \in States
  BY <1>1 DEF Changed, Good, Sound
<1>3. o \in Objects /\ o.initial = t.objects[a].initial /\ o.current = c /\ c # None
  BY <1>1, <1>2, HoldingType
<1> HIDE DEF o
<1>4. ObjectChanged(t, a, o, u) /\ u.newCode = e
  BY <1>1, <1>2, <1>3, ReplaceObject DEF o
<1>5. Changed(t, u, {a}) /\ u.touched = t.touched /\ Account(u, a) = c
  BY <1>3, <1>4 DEF ObjectChanged
<1>6. Changed(s, u, {a})
  BY <1>1, <1>5, ChangedTrans, {a} \cup {a} = {a}
<1> QED BY <1>1, <1>4, <1>5, <1>6 DEF AccountSet

SetBalanceOk(s, a, v, u) ==
  AccountSet(s, a, [OrNew(s, a) EXCEPT !.balance = v], u) /\ u.newCode = s.newCode

\* set_balance sets the balance, and undoing it gives the old one.
LEMMA SetBalanceDoes ==
  ASSUME NEW s, Good(s), NEW a \in Addr, NEW v \in Int
  PROVE  SetBalanceOk(s, a, v, SetBalance(s, a, v))
<1> DEFINE t == EnsureObject(s, a)
           d == [op |-> "UpdateBalance", addr |-> a, prev |-> t.objects[a].current.balance]
           w == [Journal(t, d) EXCEPT !.objects[a].current.balance = v]
           u == SetBalance(s, a, v)
           c == [OrNew(s, a) EXCEPT !.balance = v]
<1>1. u = Touch(w, a)
  BY DEF SetBalance, With
<1>2. EnsureObjectOk(s, a, t)
  BY EnsureObjectDoes
<1> SUFFICES SetBalanceOk(s, a, v, u)
  OBVIOUS
<1> HIDE DEF t, u
<1>3. OrNew(s, a) \in Accounts /\ OrNew(s, a) # None /\ c \in Accounts
  BY OrNewType DEF Good, Accounts
<1>4. /\ t.objects[a].current = OrNew(s, a) /\ a \in DOMAIN t.objects
      /\ t.newCode = s.newCode /\ Good(t)
  BY <1>2 DEF EnsureObjectOk, Changed
<1>5. t \in States
  BY <1>4 DEF Good, Sound
<1>6. t.objects[a] \in Objects /\ Holding(t.objects[a], c).current = c
  BY <1>3, <1>4, <1>5, HoldingType, Zenon
<1>7. d \in Deltas /\ d.op = "UpdateBalance" /\ d.addr = a
      /\ d.prev = t.objects[a].current.balance
  BY <1>3, <1>4 DEF Deltas, Accounts
<1>8. ObjectDelta(t, a, Holding(t.objects[a], c), d)
  <2> HIDE DEF d
  <2> QED BY <1>3, <1>4, <1>6, <1>7 DEF ObjectDelta
<1>9. w = WithObjects(t, [t.objects EXCEPT ![a] = Holding(t.objects[a], c)],
                      Append(t.journal, d), t.newCode)
  <2> HIDE DEF d
  <2> DEFINE j == Journal(t, d)
  <2>1. j = [objects |-> t.objects, storage |-> t.storage, incarnations |-> t.incarnations,
             newCode |-> t.newCode, journal |-> Append(t.journal, d),
             selfDestructs |-> t.selfDestructs, logs |-> t.logs, touched |-> t.touched,
             refund |-> t.refund, accessed |-> t.accessed, accessedKeys |-> t.accessedKeys]
    BY <1>5, JournalIs
  <2>2. w = [j EXCEPT !.objects[a].current.balance = v]
    OBVIOUS
  <2> HIDE DEF j, w
  <2>3. w = WithObjects(t, [t.objects EXCEPT ![a].current.balance = v],
                        Append(t.journal, d), t.newCode)
    BY <2>1, <2>2 DEF WithObjects
  <2>4. [t.objects[a] EXCEPT !.current.balance = v] = Holding(t.objects[a], c)
    BY <1>3, <1>4, <1>6, BalanceExcept DEF Holding
  <2>5. [t.objects EXCEPT ![a].current.balance = v] =
          [t.objects EXCEPT ![a] = Holding(t.objects[a], c)]
    BY <2>4
  <2> QED BY <2>3, <2>5
<1>10. MoreCode(t, t.newCode)
  BY <1>5, StateTypes DEF MoreCode
<1> HIDE DEF w, d, c
<1>11. AccountSet(s, a, c, w) /\ w.newCode = t.newCode
  BY <1>2, <1>3, <1>8, <1>9, <1>10, ReplaceAccount
<1>12. Good(w) /\ Changed(s, w, {a}) /\ Account(w, a) = c
  BY <1>11 DEF AccountSet, Changed
<1>13. SubstateOnly(w, u, {a})
  BY <1>1, <1>12, TouchDoes
<1>14. Changed(w, u, {a}) /\ u.newCode = w.newCode /\ Account(u, a) = Account(w, a)
  BY <1>13 DEF SubstateOnly, SameData, Account
<1>15. Changed(s, u, {a})
  BY <1>12, <1>14, ChangedTrans, {a} \cup {a} = {a}
<1> QED BY <1>4, <1>11, <1>12, <1>14, <1>15 DEF SetBalanceOk, AccountSet, c

\* set_nonce and set_code replace an account and keep what it was.
FieldSet(s, a, c, e) ==
  LET j == SetField(s, a)
  IN [j EXCEPT !.objects = [j.objects EXCEPT ![a] = Holding(j.objects[a], c)],
               !.newCode = e]

\* What set_nonce and set_code do alike.
LEMMA SetFieldDoes ==
  ASSUME NEW s, Good(s), NEW a \in Addr, NEW c \in Accounts, NEW e,
         e \in SUBSET Code, s.newCode \subseteq e, NEW u, u = FieldSet(s, a, c, e)
  PROVE  AccountSet(s, a, c, u) /\ u.newCode = e /\ u.touched = s.touched
<1> DEFINE t == EnsureObject(s, a)
           d == [op |-> "Update", addr |-> a, prev |-> t.objects[a]]
           j == SetField(s, a)
<1>1. j = Journal(t, d)
  BY DEF SetField, With
<1>2. EnsureObjectOk(s, a, t)
  BY EnsureObjectDoes
<1>3. u = [j EXCEPT !.objects = [j.objects EXCEPT ![a] = Holding(j.objects[a], c)],
                    !.newCode = e]
  BY DEF FieldSet
<1> HIDE DEF t, j
<1>4. a \in DOMAIN t.objects /\ t.newCode = s.newCode /\ Good(t)
  BY <1>2 DEF EnsureObjectOk, Changed
<1>5. t \in States
  BY <1>4 DEF Good, Sound
<1>6. t.objects[a] \in Objects
  BY <1>4, <1>5, HoldingType
<1>7. d \in Deltas /\ d.op = "Update" /\ d.addr = a /\ d.prev = t.objects[a]
  BY <1>6 DEF Deltas
<1> HIDE DEF d
<1>8. ObjectDelta(t, a, Holding(t.objects[a], c), d)
  BY <1>4, <1>7 DEF ObjectDelta
<1>9. u = WithObjects(t, [t.objects EXCEPT ![a] = Holding(t.objects[a], c)],
                      Append(t.journal, d), e)
  <2>1. j = [objects |-> t.objects, storage |-> t.storage, incarnations |-> t.incarnations,
             newCode |-> t.newCode, journal |-> Append(t.journal, d),
             selfDestructs |-> t.selfDestructs, logs |-> t.logs, touched |-> t.touched,
             refund |-> t.refund, accessed |-> t.accessed, accessedKeys |-> t.accessedKeys]
    BY <1>1, <1>5, JournalIs
  <2> QED BY <1>3, <2>1 DEF WithObjects
<1>10. MoreCode(t, e)
  BY <1>4 DEF MoreCode
<1> QED BY <1>2, <1>8, <1>9, <1>10, ReplaceAccount

\* What SetField leaves, as a record.
LEMMA SetFieldIs ==
  ASSUME NEW s, Good(s), NEW a \in Addr
  PROVE  LET j == SetField(s, a)
         IN  /\ j = [objects |-> j.objects, storage |-> j.storage,
                     incarnations |-> j.incarnations, newCode |-> j.newCode,
                     journal |-> j.journal, selfDestructs |-> j.selfDestructs,
                     logs |-> j.logs, touched |-> j.touched, refund |-> j.refund,
                     accessed |-> j.accessed, accessedKeys |-> j.accessedKeys]
             /\ j.newCode = s.newCode /\ a \in DOMAIN j.objects
             /\ j.objects[a] \in Objects
             /\ j.objects[a].current = OrNew(s, a)
             /\ j.objects = [x \in DOMAIN j.objects |-> j.objects[x]]
<1> DEFINE t == EnsureObject(s, a)
           d == [op |-> "Update", addr |-> a, prev |-> t.objects[a]]
           j == SetField(s, a)
<1>1. j = Journal(t, d)
  BY DEF SetField, With
<1>2. EnsureObjectOk(s, a, t)
  BY EnsureObjectDoes
<1> HIDE DEF t, j, d
<1>3. /\ t.objects[a].current = OrNew(s, a) /\ a \in DOMAIN t.objects
      /\ t.newCode = s.newCode /\ Good(t)
  BY <1>2 DEF EnsureObjectOk, Changed
<1>4. t \in States
  BY <1>3 DEF Good, Sound
<1>5. t.objects[a] \in Objects /\ t.objects = [x \in DOMAIN t.objects |-> t.objects[x]]
  BY <1>3, <1>4, HoldingType, StateTypes
<1>6. j = [objects |-> t.objects, storage |-> t.storage, incarnations |-> t.incarnations,
           newCode |-> t.newCode, journal |-> Append(t.journal, d),
           selfDestructs |-> t.selfDestructs, logs |-> t.logs, touched |-> t.touched,
           refund |-> t.refund, accessed |-> t.accessed, accessedKeys |-> t.accessedKeys]
  BY <1>1, <1>4, JournalIs
<1>7. j.objects = t.objects /\ j.newCode = t.newCode
  BY <1>6
<1> QED BY <1>3, <1>5, <1>6, <1>7 DEF j

SetNonceOk(s, a, n, u) ==
  /\ AccountSet(s, a, [OrNew(s, a) EXCEPT !.nonce = n], u)
  /\ u.newCode = s.newCode /\ u.touched = s.touched

\* set_nonce sets the nonce, and undoing it gives the old one.
LEMMA SetNonceDoes ==
  ASSUME NEW s, Good(s), NEW a \in Addr, NEW n \in Nat
  PROVE  SetNonceOk(s, a, n, SetNonce(s, a, n))
<1> DEFINE j == SetField(s, a)
           u == SetNonce(s, a, n)
           c == [OrNew(s, a) EXCEPT !.nonce = n]
<1>1. u = [j EXCEPT !.objects[a].current.nonce = n]
  BY DEF SetNonce
<1>2. OrNew(s, a) \in Accounts /\ c \in Accounts
  BY OrNewType DEF Good, Accounts
<1>3. /\ j = [objects |-> j.objects, storage |-> j.storage,
              incarnations |-> j.incarnations, newCode |-> j.newCode,
              journal |-> j.journal, selfDestructs |-> j.selfDestructs,
              logs |-> j.logs, touched |-> j.touched, refund |-> j.refund,
              accessed |-> j.accessed, accessedKeys |-> j.accessedKeys]
      /\ j.newCode = s.newCode /\ a \in DOMAIN j.objects
      /\ j.objects[a] \in Objects
      /\ j.objects[a].current = OrNew(s, a)
  BY SetFieldIs
<1> SUFFICES SetNonceOk(s, a, n, u)
  OBVIOUS
<1> HIDE DEF u, c
<1>4. u = FieldSet(s, a, c, s.newCode)
  <2> HIDE DEF j
  <2>1. [j.objects[a] EXCEPT !.current.nonce = n] = Holding(j.objects[a], c)
    BY <1>3 DEF Holding, Objects, c
  <2>2. [j.objects EXCEPT ![a].current.nonce = n] =
          [j.objects EXCEPT ![a] = Holding(j.objects[a], c)]
    BY <2>1
  <2>3. u = [j EXCEPT !.objects = [j.objects EXCEPT ![a].current.nonce = n],
                      !.newCode = s.newCode]
    BY <1>1, <1>3
  <2> QED BY <2>2, <2>3 DEF FieldSet, j
<1>5. s.newCode \in SUBSET Code
  BY StateTypes DEF Good, Sound
<1> HIDE DEF j
<1>6. AccountSet(s, a, c, u) /\ u.newCode = s.newCode /\ u.touched = s.touched
  BY <1>2, <1>4, <1>5, SetFieldDoes
<1> QED BY <1>6 DEF SetNonceOk, c

SetCodeOk(s, a, code, u) ==
  /\ AccountSet(s, a, [OrNew(s, a) EXCEPT !.code = code], u)
  /\ u.newCode = s.newCode \cup {code} /\ u.touched = s.touched

\* set_code sets the code hash, and undoing it gives the old one.
LEMMA SetCodeDoes ==
  ASSUME NEW s, Good(s), NEW a \in Addr, NEW code \in Code
  PROVE  SetCodeOk(s, a, code, SetCode(s, a, code))
<1> DEFINE j == SetField(s, a)
           u == SetCode(s, a, code)
           c == [OrNew(s, a) EXCEPT !.code = code]
           e == s.newCode \cup {code}
<1>1. u = [j EXCEPT !.objects[a].current.code = code, !.newCode = @ \cup {code}]
  BY DEF SetCode
<1>2. OrNew(s, a) \in Accounts /\ c \in Accounts
  BY OrNewType DEF Good, Accounts
<1>3. /\ j = [objects |-> j.objects, storage |-> j.storage,
              incarnations |-> j.incarnations, newCode |-> j.newCode,
              journal |-> j.journal, selfDestructs |-> j.selfDestructs,
              logs |-> j.logs, touched |-> j.touched, refund |-> j.refund,
              accessed |-> j.accessed, accessedKeys |-> j.accessedKeys]
      /\ j.newCode = s.newCode /\ a \in DOMAIN j.objects
      /\ j.objects[a] \in Objects
      /\ j.objects[a].current = OrNew(s, a)
  BY SetFieldIs
<1> SUFFICES SetCodeOk(s, a, code, u)
  OBVIOUS
<1>5. e \in SUBSET Code /\ s.newCode \subseteq e
  BY StateTypes DEF Good, Sound
<1> HIDE DEF u, c
<1>4. u = FieldSet(s, a, c, e)
  <2> HIDE DEF j
  <2>1. [j.objects[a] EXCEPT !.current.code = code] = Holding(j.objects[a], c)
    BY <1>3 DEF Holding, Objects, c
  <2>2. [j.objects EXCEPT ![a].current.code = code] =
          [j.objects EXCEPT ![a] = Holding(j.objects[a], c)]
    BY <2>1
  <2>4. e = j.newCode \cup {code}
    BY <1>3
  <2> HIDE DEF e
  <2>3. u = [j EXCEPT !.objects = [j.objects EXCEPT ![a].current.code = code],
                      !.newCode = e]
    BY <1>1, <1>3, <2>4
  <2> QED BY <2>2, <2>3 DEF FieldSet, j
<1> HIDE DEF j, e
<1>6. AccountSet(s, a, c, u) /\ u.newCode = e /\ u.touched = s.touched
  BY <1>2, <1>4, <1>5, SetFieldDoes
<1> QED BY <1>6 DEF SetCodeOk, c, e

\* Balances and nonces are numbers.
LEMMA BalanceType ==
  ASSUME NEW s, Sound(s), NEW a \in Addr
  PROVE  Balance(s, a) \in Int /\ Nonce(s, a) \in Nat
BY AccountType DEF Balance, Nonce, Exists, Accounts

\* add_to_balance sets the balance to the sum.
LEMMA AddToBalanceDoes ==
  ASSUME NEW s, Good(s), NEW a \in Addr, NEW n \in Int
  PROVE  SetBalanceOk(s, a, Balance(s, a) + n, AddToBalance(s, a, n))
<1>1. AddToBalance(s, a, n) = SetBalance(s, a, Balance(s, a) + n)
  BY DEF AddToBalance, With
<1>2. Balance(s, a) + n \in Int
  BY BalanceType DEF Good
<1> QED BY <1>1, <1>2, SetBalanceDoes

\* subtract_from_balance sets the balance to the difference.
LEMMA SubtractFromBalanceDoes ==
  ASSUME NEW s, Good(s), NEW a \in Addr, NEW n \in Int
  PROVE  SetBalanceOk(s, a, Balance(s, a) - n, SubtractFromBalance(s, a, n))
<1>1. SubtractFromBalance(s, a, n) = SetBalance(s, a, Balance(s, a) - n)
  BY DEF SubtractFromBalance, With
<1>2. Balance(s, a) - n \in Int
  BY BalanceType DEF Good
<1> QED BY <1>1, <1>2, SetBalanceDoes

-----------------------------------------------------------------------------
(* Changes of storage *)

WithStorage(s, f, j) ==
  [objects |-> s.objects, storage |-> f, incarnations |-> s.incarnations,
   newCode |-> s.newCode, journal |-> j, selfDestructs |-> s.selfDestructs,
   logs |-> s.logs, touched |-> s.touched, refund |-> s.refund, accessed |-> s.accessed,
   accessedKeys |-> s.accessedKeys]

StorageMap(f) == f \in [DOMAIN f -> Storages] /\ DOMAIN f \subseteq Addr

\* Fields that a change of storage leaves alone.
OnlyStorage(s, t) ==
  /\ t \in States
  /\ t.objects = s.objects /\ t.incarnations = s.incarnations /\ t.newCode = s.newCode
  /\ t.selfDestructs = s.selfDestructs /\ t.logs = s.logs /\ t.touched = s.touched
  /\ t.refund = s.refund /\ t.accessed = s.accessed /\ t.accessedKeys = s.accessedKeys

\* The storage of a state is replaced.
LEMMA StorageSet ==
  ASSUME NEW s \in States, NEW f, StorageMap(f), NEW j \in Seq(Deltas)
  PROVE  /\ OnlyStorage(s, WithStorage(s, f, j))
         /\ WithStorage(s, f, j).storage = f /\ WithStorage(s, f, j).journal = j
<1> DEFINE t == WithStorage(s, f, j)
<1>1. t \in States
  <2>1. s.objects \in Partial(Addr, Objects) /\ f \in Partial(Addr, Storages)
    BY DEF Partial, States, StorageMap
  <2> QED BY <2>1, StateTypes DEF States, WithStorage
<1> QED BY <1>1 DEF OnlyStorage, WithStorage

\* The same values are in both boxes of an account.
SameBox(b, c, a, inc) ==
  \A k \in Slot : /\ OriginalIn(c, a, k, inc) = OriginalIn(b, a, k, inc)
                  /\ CurrentIn(c, a, k, inc) = CurrentIn(b, a, k, inc)

CacheOk(s, t) ==
  /\ Changed(s, t, {}) /\ t.touched = s.touched /\ t.newCode = s.newCode

\* Storage that is only cached shows the same.
LEMMA CacheStorage ==
  ASSUME NEW s, Good(s), NEW t, OnlyStorage(s, t), t.journal = s.journal,
         \A a \in Addr : SameBox(Box(s, a), Box(t, a), a, s.incarnations[a])
  PROVE  CacheOk(s, t)
<1>1. s \in States /\ t \in States /\ Settled(s) /\ InitialsMatch(s)
  BY DEF Good, Sound, OnlyStorage
<1>2. InitialsMatch(t) /\ ObjectsStay(s, t) /\ Settled(t)
  BY <1>1 DEF InitialsMatch, ObjectsStay, OnlyStorage, Settled
<1>3. \A a \in Addr : Account(t, a) = Account(s, a)
  BY DEF OnlyStorage, Account
<1>4. /\ \A a \in Addr, k \in Slot : Original(t, a, k) = Original(s, a, k)
      /\ \A a \in Addr, k \in Slot : Current(t, a, k) = Current(s, a, k)
  <2>1. \A a : Incarnation(s, a) = s.incarnations[a] /\ Incarnation(t, a) = s.incarnations[a]
    BY <1>1, <1>2, SettledView DEF OnlyStorage
  <2> QED BY <2>1 DEF Original, Current, SameBox
<1>5. SameView(s, t)
  BY <1>3, <1>4 DEF SameView, OnlyStorage
<1>6. t.logs = s.logs /\ Len(s.logs) \in Nat
  BY <1>1, StateTypes, LenProperties DEF OnlyStorage
<1>7. Ext(s, t)
  BY <1>1, <1>2, <1>5, <1>6, CacheExt
<1>8. Good(t)
  BY <1>7 DEF Ext
<1> QED BY <1>3, <1>4, <1>7, <1>8 DEF CacheOk, Changed, StorageKept, Stays, OnlyStorage

\* Cached twice.
LEMMA CacheTrans ==
  ASSUME NEW s, NEW t, NEW u, Good(s), CacheOk(s, t), CacheOk(t, u)
  PROVE  CacheOk(s, u)
<1>1. Changed(s, t, {}) /\ Changed(t, u, {}) /\ {} \cup {} = {}
  BY DEF CacheOk
<1>2. Changed(s, u, {})
  BY <1>1, ChangedTrans
<1> QED BY <1>2 DEF CacheOk

\* ensure_storage makes a box that shows what the database holds.
LEMMA EnsureStorageDoes ==
  ASSUME NEW s, Good(s), NEW a \in Addr
  PROVE  LET t == EnsureStorage(s, a)
         IN  /\ CacheOk(s, t) /\ OnlyStorage(s, t) /\ t.journal = s.journal
             /\ a \in DOMAIN t.storage /\ t.storage[a] = Box(s, a)
             /\ \A x \in Addr : Box(t, x) = Box(s, x)
<1> DEFINE t == EnsureStorage(s, a)
           f == t.storage
<1>1. s \in States /\ s.journal \in Seq(Deltas)
      /\ s.storage \in [DOMAIN s.storage -> Storages] /\ DOMAIN s.storage \subseteq Addr
  BY StateTypes DEF Good, Sound
<1>2. /\ f \in [DOMAIN s.storage \cup {a} -> Storages]
      /\ \A x \in DOMAIN s.storage : f[x] = s.storage[x]
      /\ f[a] = Box(s, a)
      /\ t = [s EXCEPT !.storage = f]
  BY <1>1, EnsureStorageIs
<1> HIDE DEF t, f
<1>3. StorageMap(f) /\ DOMAIN f = DOMAIN s.storage \cup {a}
  BY <1>1, <1>2 DEF StorageMap
<1>4. t = WithStorage(s, f, s.journal)
  BY <1>1, <1>2, StateRecord DEF WithStorage
<1>5. OnlyStorage(s, t) /\ t.journal = s.journal /\ t.storage = f
  BY <1>1, <1>3, <1>4, StorageSet
<1>6. \A x \in Addr : Box(t, x) = Box(s, x)
  BY <1>2, <1>3, <1>5 DEF Box
<1>7. CacheOk(s, t)
  BY <1>5, <1>6, CacheStorage DEF SameBox
<1> QED BY <1>2, <1>3, <1>5, <1>6, <1>7 DEF t

\* get_storage changes what is cached only.
LEMMA GetStorageDoes ==
  ASSUME NEW s, Good(s), NEW a \in Addr, NEW k \in Slot, NEW original \in BOOLEAN
  PROVE  CacheOk(s, GetStorage(s, a, k, original))
<1> DEFINE t == GetObject(s, a)
           u == EnsureStorage(t, a)
           v == [initial |-> db.storage[<<a, k>>], original |-> db.storage[<<a, k>>]]
           kept == \/ ~original /\ k \in DOMAIN u.storage[a].current
                   \/ k \in DOMAIN u.storage[a].committed
                   \/ u.objects[a].initial = None
                   \/ u.incarnations[a] > 0
           w == [u EXCEPT !.storage[a].committed = Put(@, k, v)]
           g == GetStorage(s, a, k, original)
<1>1. g = IF ~Exists(t, a) THEN t ELSE IF kept THEN u ELSE w
  BY DEF GetStorage, With
<1>2. GetObjectOk(s, a, t)
  BY GetObjectDoes
<1> SUFFICES CacheOk(s, g)
  OBVIOUS
<1> HIDE DEF t, g
<1>3. CacheOk(s, t) /\ Good(t)
  BY <1>2 DEF GetObjectOk, CacheOk, Changed
<1>4. /\ CacheOk(t, u) /\ OnlyStorage(t, u) /\ u.journal = t.journal
      /\ a \in DOMAIN u.storage /\ u.storage[a] = Box(t, a)
      /\ \A x \in Addr : Box(u, x) = Box(t, x)
  BY <1>3, EnsureStorageDoes
<1> HIDE DEF u
<1>5. CacheOk(s, u) /\ Good(u)
  BY <1>3, <1>4, CacheTrans DEF CacheOk, Changed
<1>6. ASSUME Exists(t, a), ~kept PROVE CacheOk(u, w)
  <2>1. /\ u \in States /\ InitialsMatch(u) /\ db \in Databases
        /\ u.storage \in [DOMAIN u.storage -> Storages] /\ DOMAIN u.storage \subseteq Addr
        /\ u.incarnations \in [Addr -> Int] /\ u.journal \in Seq(Deltas)
    BY <1>5, StateTypes DEF Good, Sound
  <2>2. a \in DOMAIN u.objects /\ u.objects[a].initial = ReadAccount(a)
    <3>1. Exists(s, a)
      BY <1>2, <1>6 DEF Exists, GetObjectOk, Changed
    <3> QED BY <1>2, <1>4, <2>1, <3>1 DEF GetObjectOk, OnlyStorage, InitialsMatch
  <2> DEFINE b == u.storage[a]
             c == [committed |-> Put(b.committed, k, v), current |-> b.current]
             f == [u.storage EXCEPT ![a] = c]
  <2>3. b \in Storages
    BY <1>4, <2>1
  <2>4. v \in [initial : Nat, original : Nat] /\ v.original = db.storage[<<a, k>>]
    BY <2>1, DatabaseTypes
  <2>5. c \in Storages /\ [b EXCEPT !.committed = Put(@, k, v)] = c
    <3> HIDE DEF v, b
    <3>1. Put(b.committed, k, v) \in [DOMAIN b.committed \cup {k} -> [initial : Nat, original : Nat]]
      BY <2>3, <2>4, StorageTypes, PutType
    <3>2. DOMAIN b.committed \cup {k} \subseteq Slot
      BY <2>3, StorageTypes
    <3>3. Put(b.committed, k, v) \in Partial(Slot, [initial : Nat, original : Nat])
      BY <3>1, <3>2 DEF Partial
    <3> QED BY <2>3, <3>3 DEF Storages
  <2>6. /\ c.current = b.current /\ DOMAIN c.committed = DOMAIN b.committed \cup {k}
        /\ c.committed[k] = v
        /\ \A x \in DOMAIN b.committed : x # k => c.committed[x] = b.committed[x]
    BY DEF Put
  <2>7. w = [u EXCEPT !.storage = f]
    <3>1. [u.storage EXCEPT ![a].committed = Put(@, k, v)] = f
      BY <2>5
    <3> HIDE DEF f, v, c
    <3> QED BY <3>1
  <2>8. StorageMap(f) /\ DOMAIN f = DOMAIN u.storage /\ f[a] = c
        /\ \A x \in DOMAIN u.storage : x # a => f[x] = u.storage[x]
    <3> HIDE DEF c
    <3> QED BY <1>4, <2>1, <2>5 DEF StorageMap
  <2> HIDE DEF f, w, v
  <2>9. w = WithStorage(u, f, u.journal)
    <3> HIDE DEF kept, c, b
    <3>1. u \in States
      BY <2>1
    <3> QED BY <2>7, <3>1, StateRecord DEF WithStorage
  <2>10. OnlyStorage(u, w) /\ w.journal = u.journal /\ w.storage = f
    BY <2>1, <2>8, <2>9, StorageSet
  <2>11. \A x \in Addr : x # a => Box(w, x) = Box(u, x)
    BY <2>8, <2>10 DEF Box
  <2>12. Box(w, a) = c /\ Box(u, a) = b
    BY <1>4, <2>8, <2>10 DEF Box
  <2>13. SameBox(b, c, a, u.incarnations[a])
    <3>1. k \notin DOMAIN b.committed /\ ReadAccount(a) # None /\ ~(u.incarnations[a] > 0)
          /\ ~(~original /\ k \in DOMAIN b.current)
      BY <1>6, <2>2
    <3>2. Fresh(a, k, u.incarnations[a]) = db.storage[<<a, k>>]
      BY <3>1 DEF Fresh
    <3> HIDE DEF b, c
    <3>3. \A x \in Slot : OriginalIn(c, a, x, u.incarnations[a])
                          = OriginalIn(b, a, x, u.incarnations[a])
      BY <2>4, <2>6, <3>1, <3>2 DEF OriginalIn
    <3> QED BY <2>6, <3>3 DEF SameBox, CurrentIn
  <2>14. \A x \in Addr : SameBox(Box(u, x), Box(w, x), x, u.incarnations[x])
    <3> HIDE DEF b, c
    <3> QED BY <2>11, <2>12, <2>13 DEF SameBox
  <2> QED BY <1>5, <2>10, <2>14, CacheStorage
<1> HIDE DEF kept, w
<1>7. CASE ~Exists(t, a)
  BY <1>1, <1>3, <1>7
<1>8. CASE Exists(t, a) /\ kept
  BY <1>1, <1>5, <1>8
<1>9. CASE Exists(t, a) /\ ~kept
  <2>1. CacheOk(u, w)
    BY <1>6, <1>9
  <2> QED BY <1>1, <1>5, <1>9, <2>1, CacheTrans
<1> QED BY <1>7, <1>8, <1>9

\* What get_storage returns, whatever is cached.
LEMMA StorageIs ==
  ASSUME NEW s, Settled(s), InitialsMatch(s), NEW a \in Addr, NEW k \in Slot,
         NEW original \in BOOLEAN
  PROVE  StorageAt(s, a, k, original) =
           IF ~Exists(s, a) THEN 0
           ELSE IF original THEN Original(s, a, k) ELSE Current(s, a, k)
<1> DEFINE b == Box(s, a)
           initial == IF a \in DOMAIN s.objects THEN s.objects[a].initial
                                                ELSE ReadAccount(a)
<1>1. StorageAt(s, a, k, original) =
        IF ~Exists(s, a) THEN 0
        ELSE IF ~original /\ k \in DOMAIN b.current THEN b.current[k]
        ELSE IF k \in DOMAIN b.committed THEN b.committed[k].original
        ELSE IF initial = None \/ s.incarnations[a] > 0 THEN 0
        ELSE db.storage[<<a, k>>]
  BY DEF StorageAt, Box
<1>2. initial = ReadAccount(a)
  BY DEF InitialsMatch
<1>3. Incarnation(s, a) = s.incarnations[a]
  BY SettledView
<1> HIDE DEF b, initial
<1>4. /\ Original(s, a, k) = OriginalIn(b, a, k, s.incarnations[a])
      /\ Current(s, a, k) = CurrentIn(b, a, k, s.incarnations[a])
  BY <1>3 DEF Original, Current, b
<1> QED BY <1>1, <1>2, <1>4 DEF OriginalIn, CurrentIn, Fresh

\* Values of slots are numbers.
LEMMA SlotTypes ==
  ASSUME NEW s, Sound(s), NEW a \in Addr, NEW k \in Slot
  PROVE  Original(s, a, k) \in Nat /\ Current(s, a, k) \in Nat
<1>1. s \in States /\ db \in Databases
  BY DEF Sound
<1>2. db.storage[<<a, k>>] \in Nat
  BY <1>1, DatabaseTypes
<1> DEFINE b == Box(s, a)
           inc == Incarnation(s, a)
<1>3. b \in Storages
  BY <1>1, StateTypes, NewStorageType DEF Box
<1> HIDE DEF b, inc
<1>4. Fresh(a, k, inc) \in Nat
  BY <1>2 DEF Fresh
<1>5. OriginalIn(b, a, k, inc) \in Nat
  <2>1. k \in DOMAIN b.committed => b.committed[k] \in [initial : Nat, original : Nat]
    BY <1>3, StorageTypes
  <2> QED BY <1>4, <2>1 DEF OriginalIn
<1>6. CurrentIn(b, a, k, inc) \in Nat
  BY <1>3, <1>5, StorageTypes DEF CurrentIn
<1> QED BY <1>5, <1>6 DEF Original, Current, b, inc

\* One slot is set.
SlotSet(s, a, k, v, t) ==
  /\ Good(t) /\ Ext(s, t)
  /\ t.incarnations = s.incarnations /\ t.refund = s.refund /\ t.logs = s.logs
  /\ t.selfDestructs = s.selfDestructs /\ t.newCode = s.newCode /\ t.touched = s.touched
  /\ \A x \in Addr : Account(t, x) = Account(s, x)
  /\ \A x \in Addr, y \in Slot : Original(t, x, y) = Original(s, x, y)
  /\ \A x \in Addr, y \in Slot :
       Current(t, x, y) = IF x = a /\ y = k THEN v ELSE Current(s, x, y)

\* set_storage sets one slot, and undoing it gives the old value.
LEMMA SetStorageDoes ==
  ASSUME NEW s, Good(s), NEW a \in Addr, NEW k \in Slot, NEW v \in Nat, Exists(s, a)
  PROVE  SlotSet(s, a, k, v, SetStorage(s, a, k, v))
<1> DEFINE t == GetStorage(s, a, k, FALSE)
           e == EnsureStorage(t, a)
           d == [op |-> "StorageChange", addr |-> a, key |-> k,
                 prev |-> StorageAt(t, a, k, FALSE)]
           w == [e EXCEPT !.storage[a].current = Put(@, k, v)]
           u == SetStorage(s, a, k, v)
<1>1. u = IF StorageAt(t, a, k, FALSE) = v THEN t ELSE Journal(w, d)
  BY DEF SetStorage, With
<1>2. CacheOk(s, t)
  BY GetStorageDoes
<1> SUFFICES SlotSet(s, a, k, v, u)
  OBVIOUS
<1> HIDE DEF t, u
<1>3. Changed(s, t, {}) /\ Good(t) /\ Sound(t) /\ Settled(t) /\ InitialsMatch(t)
  BY <1>2 DEF CacheOk, Changed, Good, Sound
<1>4. Exists(t, a)
  BY <1>3 DEF Exists, Changed
<1>5. StorageAt(t, a, k, FALSE) = Current(t, a, k) /\ Current(t, a, k) \in Nat
  BY <1>3, <1>4, StorageIs, SlotTypes
<1>6. CASE StorageAt(t, a, k, FALSE) = v
  <2>1. u = t /\ Current(t, a, k) = v
    BY <1>1, <1>5, <1>6
  <2> QED BY <1>2, <1>3, <2>1 DEF SlotSet, Changed, StorageKept, CacheOk
<1>7. CASE StorageAt(t, a, k, FALSE) # v
  <2>1. u = Journal(w, d)
    BY <1>1, <1>7
  <2>2. /\ CacheOk(t, e) /\ OnlyStorage(t, e) /\ e.journal = t.journal
        /\ a \in DOMAIN e.storage /\ e.storage[a] = Box(t, a)
        /\ \A x \in Addr : Box(e, x) = Box(t, x)
    BY <1>3, EnsureStorageDoes
  <2> HIDE DEF e
  <2>3. CacheOk(s, e)
    BY <1>2, <2>2, CacheTrans
  <2>4. /\ Changed(s, e, {}) /\ Good(e) /\ e \in States /\ InitialsMatch(e)
        /\ Sound(e) /\ Settled(e)
        /\ e.storage \in [DOMAIN e.storage -> Storages] /\ DOMAIN e.storage \subseteq Addr
        /\ e.incarnations \in [Addr -> Int] /\ e.journal \in Seq(Deltas)
    BY <2>3, StateTypes DEF CacheOk, Changed, Good, Sound
  <2> DEFINE b == e.storage[a]
             c == [committed |-> b.committed, current |-> Put(b.current, k, v)]
             f == [e.storage EXCEPT ![a] = c]
             j == Append(e.journal, d)
  <2>5. b \in Storages
    BY <2>2, <2>4
  <2>6. /\ c \in Storages /\ c.committed = b.committed
        /\ [b EXCEPT !.current = Put(@, k, v)] = c
        /\ DOMAIN c.current = DOMAIN b.current \cup {k} /\ c.current[k] = v
        /\ \A x \in DOMAIN b.current : x # k => c.current[x] = b.current[x]
    <3>1. c = [committed |-> b.committed, current |-> Put(b.current, k, v)]
      OBVIOUS
    <3> HIDE DEF b, c
    <3>2. c \in Storages /\ c.committed = b.committed
      BY <2>5, <3>1, ChangedStorage
    <3>3. [b EXCEPT !.current = Put(@, k, v)] = c
      BY <2>5, <3>1 DEF Storages
    <3>4. c.current = Put(b.current, k, v)
      BY <3>1
    <3> QED BY <3>2, <3>3, <3>4 DEF Put
  <2>7. d \in Deltas /\ d.op = "StorageChange" /\ d.addr = a /\ d.key = k
        /\ d.prev = Current(e, a, k)
    <3>1. Current(e, a, k) = Current(t, a, k)
      BY <2>2 DEF CacheOk, Changed, StorageKept
    <3> DEFINE p == StorageAt(t, a, k, FALSE)
    <3>2. p = Current(e, a, k) /\ p \in Nat
      BY <1>5, <3>1
    <3>3. d = [op |-> "StorageChange", addr |-> a, key |-> k, prev |-> p]
      OBVIOUS
    <3> HIDE DEF p, d
    <3>4. d \in [op : {"StorageChange"}, addr : Addr, key : Slot, prev : Nat]
      BY <3>2, <3>3
    <3> QED BY <3>2, <3>3, <3>4 DEF Deltas
  <2>8. StorageMap(f) /\ DOMAIN f = DOMAIN e.storage /\ f[a] = c
        /\ \A x \in DOMAIN e.storage : x # a => f[x] = e.storage[x]
    <3> HIDE DEF c
    <3> QED BY <2>2, <2>4, <2>6 DEF StorageMap
  <2> HIDE DEF d
  <2>9. j \in Seq(Deltas)
    BY <2>4, <2>7, AppendProperties
  <2>10. u = WithStorage(e, f, j)
    <3>1. [e.storage EXCEPT ![a].current = Put(@, k, v)] = f
      BY <2>6
    <3> HIDE DEF f, c, b
    <3>2. w = [e EXCEPT !.storage = f]
      BY <3>1
    <3>3. e \in States
      BY <2>4
    <3> HIDE DEF w
    <3>4. w = WithStorage(e, f, e.journal)
      BY <3>2, <3>3, StateRecord DEF WithStorage
    <3> QED BY <2>1, <3>4 DEF WithStorage, Journal
  <2> HIDE DEF f, j, w
  <2>11. OnlyStorage(e, u) /\ u.storage = f /\ u.journal = j
    BY <2>4, <2>8, <2>9, <2>10, StorageSet
  <2>12. u \in States /\ InitialsMatch(u) /\ ObjectsStay(e, u)
    BY <2>4, <2>11 DEF OnlyStorage, InitialsMatch, ObjectsStay
  <2>13. Good(u)
    BY <2>4, <2>7, <2>11, <2>12, PushGood DEF j
  <2>14. Sound(u) /\ Settled(u)
    BY <2>13 DEF Good
  <2>15. \A x \in Addr : Account(u, x) = Account(e, x)
    BY <2>11 DEF OnlyStorage, Account
  <2>16. \A x : Incarnation(e, x) = e.incarnations[x] /\ Incarnation(u, x) = e.incarnations[x]
    BY <2>4, <2>11, <2>14, SettledView DEF OnlyStorage
  <2>17. \A x \in Addr : x # a => Box(u, x) = Box(e, x)
    BY <2>8, <2>11 DEF Box
  <2>18. Box(u, a) = c /\ Box(e, a) = b
    BY <2>2, <2>8, <2>11 DEF Box
  <2> HIDE DEF c, b
  <2>19. \A x \in Addr, y \in Slot : Original(u, x, y) = Original(e, x, y)
    BY <2>6, <2>16, <2>17, <2>18 DEF Original, OriginalIn
  <2>20. \A x \in Addr, y \in Slot :
           Current(u, x, y) = IF x = a /\ y = k THEN v ELSE Current(e, x, y)
    <3>1. \A y \in Slot : OriginalIn(c, a, y, e.incarnations[a]) =
                            OriginalIn(b, a, y, e.incarnations[a])
      BY <2>6 DEF OriginalIn
    <3>2. \A y \in Slot : CurrentIn(c, a, y, e.incarnations[a]) =
                            IF y = k THEN v ELSE CurrentIn(b, a, y, e.incarnations[a])
      BY <2>6, <3>1 DEF CurrentIn
    <3> QED BY <2>16, <2>17, <2>18, <3>2 DEF Current
  <2> DEFINE z == Undo(u)
  <2>21. u.journal # <<>> /\ LastDelta(u) = d /\ Front(u.journal) = e.journal
    BY <2>4, <2>7, <2>11, Pushed DEF j
  <2>22. FieldsUndone(u, d, z) /\ \A x \in Addr : ViewUndone(u, d, z, x)
    BY <2>14, <2>21, UndoFields, UndoView
  <2> HIDE DEF z
  <2>23. SameView(e, z)
    <3>1. \A x \in Addr : Account(e, x) = Account(z, x)
      BY <2>7, <2>15, <2>22 DEF ViewUndone
    <3>2. \A x \in Addr, y \in Slot : Original(e, x, y) = Original(z, x, y)
      BY <2>7, <2>19, <2>22 DEF ViewUndone
    <3>3. \A x \in Addr, y \in Slot : Current(e, x, y) = Current(z, x, y)
      BY <2>7, <2>20, <2>22 DEF ViewUndone
    <3>4. /\ z.journal = e.journal /\ z.incarnations = u.incarnations
          /\ z.selfDestructs = u.selfDestructs /\ z.touched = u.touched
          /\ z.accessed = u.accessed /\ z.accessedKeys = u.accessedKeys
      BY <2>7, <2>21, <2>22 DEF FieldsUndone
    <3> QED BY <2>11, <3>1, <3>2, <3>3, <3>4 DEF SameView, OnlyStorage
  <2>24. Ext(e, u)
    BY <2>4, <2>7, <2>11, <2>13, <2>23, PushExt DEF OnlyStorage, j, z
  <2>25. Ext(s, u)
    BY <2>4, <2>24, ExtTrans DEF Changed
  <2>26. /\ e.incarnations = s.incarnations /\ e.refund = s.refund /\ e.logs = s.logs
         /\ e.selfDestructs = s.selfDestructs /\ e.newCode = s.newCode
         /\ e.touched = s.touched
         /\ \A x \in Addr : Account(e, x) = Account(s, x)
         /\ \A x \in Addr, y \in Slot : Original(e, x, y) = Original(s, x, y)
         /\ \A x \in Addr, y \in Slot : Current(e, x, y) = Current(s, x, y)
    BY <2>3 DEF CacheOk, Changed, StorageKept
  <2> QED BY <2>11, <2>13, <2>15, <2>19, <2>20, <2>25, <2>26 DEF SlotSet, OnlyStorage
<1> QED BY <1>6, <1>7

-----------------------------------------------------------------------------
(* create_contract *)

\* Three elements are appended.
LEMMA AppendThree ==
  ASSUME NEW S, NEW q \in Seq(S), NEW a \in S, NEW b \in S, NEW c \in S
  PROVE  q \o <<a, b, c>> = Append(Append(Append(q, a), b), c)
<1> DEFINE N == Len(q)
           r == <<a, b, c>>
           p == q \o r
           x == Append(q, a)
           y == Append(x, b)
           z == Append(y, c)
<1>1. r \in Seq(S) /\ Len(r) = 3 /\ r[1] = a /\ r[2] = b /\ r[3] = c /\ N \in Nat
  BY LenProperties
<1>2. /\ x \in Seq(S) /\ Len(x) = N + 1 /\ x[N + 1] = a
      /\ \A i \in 1 .. N : x[i] = q[i]
  BY AppendProperties
<1> HIDE DEF x, r
<1>3. /\ y \in Seq(S) /\ Len(y) = N + 2 /\ y[N + 2] = b
      /\ \A i \in 1 .. N + 1 : y[i] = x[i]
  <2>1. /\ y \in Seq(S) /\ Len(y) = Len(x) + 1 /\ y[Len(x) + 1] = b
        /\ \A i \in 1 .. Len(x) : y[i] = x[i]
    BY <1>2, AppendProperties
  <2>2. (N + 1) + 1 = N + 2
    BY <1>1
  <2> QED BY <1>2, <2>1, <2>2
<1> HIDE DEF y
<1>4. /\ z \in Seq(S) /\ Len(z) = N + 3 /\ z[N + 3] = c
      /\ \A i \in 1 .. N + 2 : z[i] = y[i]
  <2>1. /\ z \in Seq(S) /\ Len(z) = Len(y) + 1 /\ z[Len(y) + 1] = c
        /\ \A i \in 1 .. Len(y) : z[i] = y[i]
    BY <1>3, AppendProperties
  <2>2. (N + 2) + 1 = N + 3
    BY <1>1
  <2> QED BY <1>3, <2>1, <2>2
<1>5. /\ p \in Seq(S) /\ Len(p) = N + 3
      /\ \A i \in 1 .. N + 3 : p[i] = IF i <= N THEN q[i] ELSE r[i - N]
  <2>1. /\ p \in Seq(S) /\ Len(p) = Len(q) + Len(r)
        /\ \A i \in 1 .. Len(q) + Len(r) : p[i] = IF i <= Len(q) THEN q[i] ELSE r[i - Len(q)]
    BY <1>1, ConcatProperties
  <2> QED BY <1>1, <2>1
<1> HIDE DEF z, p, N
<1>6. ASSUME NEW i \in 1 .. N + 3 PROVE p[i] = z[i]
  <2>1. i \in 1 .. N \/ i = N + 1 \/ i = N + 2 \/ i = N + 3
    BY <1>1
  <2>2. CASE i \in 1 .. N
    <3>1. i <= N /\ i \in 1 .. N + 1 /\ i \in 1 .. N + 2
      BY <1>1, <2>2
    <3> QED BY <1>2, <1>3, <1>4, <1>5, <2>2, <3>1
  <2>3. CASE i = N + 1
    <3>1. ~(i <= N) /\ i - N = 1 /\ i \in 1 .. N + 1 /\ i \in 1 .. N + 2
      BY <1>1, <2>3
    <3> QED BY <1>1, <1>2, <1>3, <1>4, <1>5, <2>3, <3>1
  <2>4. CASE i = N + 2
    <3>1. ~(i <= N) /\ i - N = 2 /\ i \in 1 .. N + 2
      BY <1>1, <2>4
    <3> QED BY <1>1, <1>3, <1>4, <1>5, <2>4, <3>1
  <2>5. CASE i = N + 3
    <3>1. ~(i <= N) /\ i - N = 3
      BY <1>1, <2>5
    <3> QED BY <1>1, <1>4, <1>5, <2>5, <3>1
  <2> QED BY <2>1, <2>2, <2>3, <2>4, <2>5
<1>7. p = z
  BY <1>4, <1>5, <1>6, SeqEqual
<1> QED BY <1>7 DEF p, z, y, x, r

\* Two deltas are undone.
LEMMA TwoUndone ==
  ASSUME NEW s, NEW t, Good(s), Good(t), NEW d \in Deltas, NEW e \in Deltas,
         t.journal = Append(Append(s.journal, d), e), t.logs = s.logs,
         SameView(s, Undo(Undo(t)))
  PROVE  Ext(s, t)
<1> DEFINE N == Len(s.journal)
<1>1. s.journal \in Seq(Deltas) /\ N \in Nat /\ s \in States
  BY SoundLen DEF Good
<1>2. Append(s.journal, d) \in Seq(Deltas) /\ Len(Append(s.journal, d)) = N + 1
  BY <1>1, AppendProperties
<1>3. Len(t.journal) = N + 2
  BY <1>1, <1>2
<1>4. (N + 2) - N = 2 /\ N <= N + 2 /\ 1 \in 1 .. N + 2 /\ 2 \in 1 .. N + 2
  <2> HIDE DEF N
  <2> QED BY <1>1
<1>5. Undone(t)[2] = Undo(Undo(t))
  <2>1. Undone(t)[0] = t /\ \A n \in 1 .. Len(t.journal) : Undone(t)[n] = Undo(Undone(t)[n - 1])
    BY <1>1, <1>3, UndoneIs
  <2>2. Undone(t)[1] = Undo(Undone(t)[0])
    BY <1>3, <1>4, <2>1, 1 - 1 = 0
  <2>3. Undone(t)[2] = Undo(Undone(t)[1])
    BY <1>3, <1>4, <2>1, 2 - 1 = 1
  <2> QED BY <2>1, <2>2, <2>3
<1>6. Len(s.logs) \in Nat
  BY <1>1, StateTypes, LenProperties
<1> QED BY <1>3, <1>4, <1>5, <1>6 DEF Ext

\* The storage of an account is dropped with a new incarnation.
Renewed(s, a, t, d, e) ==
  /\ d \in Deltas /\ d.op = "Incarnation" /\ d.addr = a
  /\ e \in Deltas /\ e.addr = a
  /\ IF a \in DOMAIN s.storage THEN e.op = "StorageWipe" /\ e.prev = s.storage[a]
                               ELSE e.op = "StorageCreate"
  /\ t \in States
  /\ t.journal = Append(Append(s.journal, d), e)
  /\ t.incarnations = [s.incarnations EXCEPT ![a] = @ + 1]
  /\ t.storage = Drop(s.storage, a)
  /\ t.objects = s.objects /\ t.newCode = s.newCode
  /\ t.selfDestructs = s.selfDestructs /\ t.logs = s.logs /\ t.touched = s.touched
  /\ t.refund = s.refund /\ t.accessed = s.accessed /\ t.accessedKeys = s.accessedKeys

\* create_contract of a fresh storage leaves a good state.
LEMMA RenewGood ==
  ASSUME NEW s, Good(s), NEW a \in Addr, NEW t, NEW d, NEW e, Renewed(s, a, t, d, e)
  PROVE  Good(t)
<1> DEFINE M == Len(s.journal)
<1>1. /\ s.journal \in Seq(Deltas) /\ M \in Nat /\ Sound(s) /\ db \in Databases
      /\ InitialsMatch(s) /\ \A i \in 1 .. M : DeltaSound(s, i)
  BY SoundLen DEF Good, Sound
<1>2. /\ t \in States /\ t.objects = s.objects /\ d.op = "Incarnation" /\ d.addr = a
      /\ e.op \in {"StorageWipe", "StorageCreate"} /\ e.addr = a
      /\ d \in Deltas /\ e \in Deltas
  BY DEF Renewed
<1>3. /\ Len(t.journal) = M + 2 /\ t.journal[M + 1] = d /\ t.journal[M + 2] = e
      /\ \A i \in 1 .. M : t.journal[i] = s.journal[i]
  <2> DEFINE q == Append(s.journal, d)
  <2>1. /\ q \in Seq(Deltas) /\ Len(q) = M + 1 /\ q[M + 1] = d
        /\ \A i \in 1 .. M : q[i] = s.journal[i]
    BY <1>1, <1>2, AppendProperties
  <2>2. t.journal = Append(q, e)
    BY DEF Renewed
  <2> HIDE DEF q, M
  <2>3. /\ Len(t.journal) = Len(q) + 1 /\ t.journal[Len(q) + 1] = e
        /\ \A i \in 1 .. Len(q) : t.journal[i] = q[i]
    BY <1>2, <2>1, <2>2, AppendProperties
  <2>4. (M + 1) + 1 = M + 2 /\ M + 1 \in 1 .. M + 1 /\ 1 .. M \subseteq 1 .. M + 1
    BY <1>1
  <2> QED BY <2>1, <2>3, <2>4
<1>4. M # 0 => s.journal[M].op # "Incarnation"
  BY <1>1, SoundLen DEF Good, Settled
<1> HIDE DEF M
<1>5. ASSUME NEW i \in 1 .. M + 2 PROVE DeltaSound(t, i)
  <2>1. CASE i = M + 2
    <3>1. i > 1 /\ i - 1 = M + 1 /\ ~(i < M + 2)
      BY <1>1, <2>1
    <3> QED BY <1>2, <1>3, <2>1, <3>1 DEF DeltaSound
  <2>2. CASE i = M + 1
    <3>1. i + 1 = M + 2
      BY <1>1, <2>2
    <3> QED BY <1>2, <1>3, <2>2, <3>1 DEF DeltaSound
  <2>3. CASE i \in 1 .. M
    <3> DEFINE b == s.journal[i]
    <3>1. t.journal[i] = b /\ DeltaSound(s, i) /\ Len(s.journal) = M
      BY <1>1, <1>3, <2>3 DEF M
    <3> HIDE DEF b
    <3>2. b.op = "Update" => b.prev.initial = ReadAccount(b.addr)
      BY <3>1 DEF DeltaSound, b
    <3>3. b.op = "Incarnation" =>
            /\ t.journal[i + 1].op \in {"StorageWipe", "StorageCreate"}
            /\ t.journal[i + 1].addr = b.addr
      <4>1. i = M => b.op # "Incarnation"
        BY <1>4, <2>3 DEF b
      <4>2. i # M => i < M /\ i + 1 \in 1 .. M
        BY <1>1, <2>3
      <4> QED BY <1>3, <3>1, <4>1, <4>2 DEF DeltaSound, b
    <3>4. b.op \in {"StorageWipe", "StorageCreate"} =>
            i > 1 /\ t.journal[i - 1].op = "Incarnation" /\ t.journal[i - 1].addr = b.addr
      <4>1. i > 1 => i - 1 \in 1 .. M
        BY <1>1, <2>3
      <4> QED BY <1>3, <3>1, <4>1 DEF DeltaSound, b
    <3>5. ASSUME b.op = "UpdateBalance"
          PROVE  /\ b.addr \in DOMAIN t.objects /\ t.objects[b.addr].current # None
                 /\ \A n \in i + 1 .. M + 2 :
                      t.journal[n].addr = b.addr =>
                        /\ t.journal[n].op # "Create"
                        /\ t.journal[n].op = "Update" => t.journal[n].prev.current # None
      <4>1. /\ b.addr \in DOMAIN s.objects /\ s.objects[b.addr].current # None
            /\ \A n \in i + 1 .. M :
                 s.journal[n].addr = b.addr =>
                   /\ s.journal[n].op # "Create"
                   /\ s.journal[n].op = "Update" => s.journal[n].prev.current # None
        BY <3>1, <3>5 DEF DeltaSound, b
      <4>2. b.addr \in DOMAIN t.objects /\ t.objects[b.addr].current # None
        BY <1>2, <4>1
      <4>3. ASSUME NEW n \in i + 1 .. M + 2, t.journal[n].addr = b.addr
            PROVE  /\ t.journal[n].op # "Create"
                   /\ t.journal[n].op = "Update" => t.journal[n].prev.current # None
        <5>1. CASE n = M + 1
          BY <1>2, <1>3, <5>1
        <5>2. CASE n = M + 2
          BY <1>2, <1>3, <5>2
        <5>3. CASE n # M + 1 /\ n # M + 2
          <6>1. n \in i + 1 .. M /\ n \in 1 .. M
            BY <1>1, <2>3, <5>3
          <6> QED BY <1>3, <4>1, <4>3, <6>1
        <5> QED BY <5>1, <5>2, <5>3
      <4> QED BY <4>2, <4>3
    <3> QED BY <1>3, <3>1, <3>2, <3>3, <3>4, <3>5 DEF DeltaSound
  <2> QED BY <1>1, <2>1, <2>2, <2>3
<1>6. Settled(t)
  BY <1>2, <1>3 DEF Settled
<1>7. InitialsMatch(t)
  BY <1>1, <1>2 DEF InitialsMatch
<1>8. Sound(t)
  BY <1>1, <1>2, <1>3, <1>5, <1>7 DEF Sound
<1> QED BY <1>6, <1>8 DEF Good

\* Undoing create_contract gives back storage and incarnation.
LEMMA RenewExt ==
  ASSUME NEW s, Good(s), NEW a \in Addr, NEW t, NEW d, NEW e, Renewed(s, a, t, d, e)
  PROVE  Ext(s, t)
<1> DEFINE q == Append(s.journal, d)
           h == Undo(t)
           z == Undo(h)
<1>1. Good(t) /\ Sound(t) /\ Settled(t) /\ Settled(s) /\ s \in States
      /\ s.journal \in Seq(Deltas)
  BY RenewGood, SoundLen DEF Good
<1>2. /\ t \in States /\ d.op = "Incarnation" /\ d.addr = a /\ d \in Deltas
      /\ e \in Deltas /\ e.addr = a
      /\ e.op \in {"StorageWipe", "StorageCreate"}
  BY DEF Renewed
<1>3. q \in Seq(Deltas) /\ t.journal = Append(q, e)
  BY <1>1, <1>2, AppendProperties DEF Renewed
<1> HIDE DEF q
<1>4. t.journal # <<>> /\ LastDelta(t) = e /\ Front(t.journal) = q
  <2>1. Front(Append(q, e)) = q
    <3>1. q \in Seq(Deltas) /\ e \in Deltas
      BY <1>2, <1>3
    <3> QED BY <3>1, FrontAppend, Zenon
  <2>2. /\ Append(q, e) # <<>> /\ Len(Append(q, e)) = Len(q) + 1
        /\ Append(q, e)[Len(q) + 1] = e
    BY <1>2, <1>3, AppendProperties
  <2> QED BY <1>3, <2>1, <2>2 DEF LastDelta
<1>5. FieldsUndone(t, e, h) /\ (\A x \in Addr : ViewUndone(t, e, h, x)) /\ Sound(h)
  BY <1>1, <1>4, UndoFields, UndoView, UndoSound
<1> HIDE DEF h
<1>6. h.journal = Append(s.journal, d)
  BY <1>4, <1>5 DEF FieldsUndone, q
<1>7. h.journal # <<>> /\ LastDelta(h) = d /\ Front(h.journal) = s.journal
  BY <1>1, <1>2, <1>6, Pushed
<1>8. FieldsUndone(h, d, z) /\ \A x \in Addr : ViewUndone(h, d, z, x)
  BY <1>5, <1>7, UndoFields, UndoView
<1> HIDE DEF z
<1>9. s.incarnations \in [Addr -> Int] /\ t.incarnations = [s.incarnations EXCEPT ![a] = @ + 1]
      /\ h.incarnations = t.incarnations
      /\ z.incarnations = [h.incarnations EXCEPT ![a] = @ - 1]
  BY <1>1, <1>2, <1>5, <1>8, StateTypes DEF Renewed, FieldsUndone
<1>10. z.incarnations = s.incarnations /\ t.incarnations[a] - 1 = s.incarnations[a]
  <2>1. \A x \in Addr : s.incarnations[x] \in Int
    BY <1>9
  <2>2. \A x \in Addr : z.incarnations[x] = s.incarnations[x]
    BY <1>9, <2>1
  <2> QED BY <1>9, <2>1, <2>2
<1>11. \A x \in Addr : Account(z, x) = Account(s, x)
  BY <1>2, <1>5, <1>8 DEF ViewUndone, Account, Renewed
<1>12. \A x : Incarnation(s, x) = s.incarnations[x] /\ Incarnation(t, x) = t.incarnations[x]
  BY <1>1, SettledView
<1>13. ASSUME NEW x \in Addr, x # a
       PROVE  \A k \in Slot : /\ Original(z, x, k) = Original(s, x, k)
                              /\ Current(z, x, k) = Current(s, x, k)
  <2>1. Box(t, x) = Box(s, x)
    BY <1>13 DEF Box, Renewed, Drop
  <2>2. t.incarnations[x] = s.incarnations[x]
    BY <1>9, <1>13
  <2>3. \A k \in Slot : /\ Original(t, x, k) = Original(s, x, k)
                        /\ Current(t, x, k) = Current(s, x, k)
    BY <1>12, <2>1, <2>2 DEF Original, Current
  <2> QED BY <1>2, <1>5, <1>8, <1>13, <2>3 DEF ViewUndone
<1>14. ASSUME NEW k \in Slot
       PROVE  Original(z, a, k) = Original(s, a, k) /\ Current(z, a, k) = Current(s, a, k)
  <2>1. Original(z, a, k) = Original(h, a, k) /\ Current(z, a, k) = Current(h, a, k)
    BY <1>2, <1>8 DEF ViewUndone
  <2>2. CASE a \in DOMAIN s.storage
    <3>1. e.op = "StorageWipe" /\ e.prev = Box(s, a)
      BY <2>2 DEF Renewed, Box
    <3>2. /\ Original(h, a, k) = OriginalIn(e.prev, a, k, s.incarnations[a])
          /\ Current(h, a, k) = CurrentIn(e.prev, a, k, s.incarnations[a])
      BY <1>2, <1>5, <1>10, <3>1 DEF ViewUndone
    <3> QED BY <1>12, <2>1, <3>1, <3>2 DEF Original, Current
  <2>3. CASE a \notin DOMAIN s.storage
    <3>1. e.op = "StorageCreate" /\ NewStorage = Box(s, a)
      BY <2>3 DEF Renewed, Box
    <3>2. /\ Original(h, a, k) = OriginalIn(NewStorage, a, k, s.incarnations[a])
          /\ Current(h, a, k) = CurrentIn(NewStorage, a, k, s.incarnations[a])
      BY <1>2, <1>5, <1>10, <3>1 DEF ViewUndone
    <3> QED BY <1>12, <2>1, <3>1, <3>2 DEF Original, Current
  <2> QED BY <2>2, <2>3
<1>15. /\ z.journal = s.journal
       /\ z.selfDestructs = t.selfDestructs /\ z.touched = t.touched
       /\ z.accessed = t.accessed /\ z.accessedKeys = t.accessedKeys
  BY <1>2, <1>5, <1>7, <1>8 DEF FieldsUndone
<1>16. /\ \A x \in Addr, k \in Slot : Original(s, x, k) = Original(z, x, k)
       /\ \A x \in Addr, k \in Slot : Current(s, x, k) = Current(z, x, k)
  BY <1>13, <1>14
<1>17. SameView(s, z)
  BY <1>10, <1>11, <1>15, <1>16 DEF SameView, Renewed
<1> QED BY <1>1, <1>2, <1>17, TwoUndone DEF Renewed, h, z

\* A contract is made: storage of its own, the balance that was there before.
ContractMade(s, a, t) ==
  /\ Good(t) /\ Ext(s, t) /\ Stays(s, t)
  /\ t.refund = s.refund /\ t.logs = s.logs /\ t.selfDestructs = s.selfDestructs
  /\ t.newCode = s.newCode /\ t.touched = s.touched
  /\ t.incarnations = [s.incarnations EXCEPT ![a] = @ + 1]
  /\ Account(t, a) = [NewAccount EXCEPT !.balance = Balance(s, a)]
  /\ \A x \in Addr \ {a} : Account(t, x) = Account(s, x)
  /\ \A x \in Addr \ {a}, k \in Slot : /\ Original(t, x, k) = Original(s, x, k)
                                      /\ Current(t, x, k) = Current(s, x, k)
  /\ \A k \in Slot : /\ Original(t, a, k) = Fresh(a, k, t.incarnations[a])
                     /\ Current(t, a, k) = Fresh(a, k, t.incarnations[a])

\* After create_contract the storage of the account is empty.
LEMMA RenewMade ==
  ASSUME NEW s, Good(s), NEW a \in Addr, NEW t, NEW d, NEW e, Renewed(s, a, t, d, e)
  PROVE  /\ \A x \in Addr : Account(t, x) = Account(s, x)
         /\ \A x \in Addr \ {a}, k \in Slot : /\ Original(t, x, k) = Original(s, x, k)
                                             /\ Current(t, x, k) = Current(s, x, k)
         /\ \A k \in Slot : /\ Original(t, a, k) = Fresh(a, k, t.incarnations[a])
                            /\ Current(t, a, k) = Fresh(a, k, t.incarnations[a])
<1>1. Good(t) /\ Settled(t) /\ Settled(s) /\ s \in States
  BY RenewGood DEF Good, Sound
<1>2. \A x : Incarnation(s, x) = s.incarnations[x] /\ Incarnation(t, x) = t.incarnations[x]
  BY <1>1, SettledView
<1>3. \A x \in Addr \ {a} : t.incarnations[x] = s.incarnations[x] /\ Box(t, x) = Box(s, x)
  <2>1. s.incarnations \in [Addr -> Int]
    BY <1>1, StateTypes
  <2> QED BY <2>1 DEF Box, Renewed, Drop
<1>4. Box(t, a) = NewStorage
  BY DEF Box, Renewed, Drop
<1>5. \A k \in Slot : /\ Original(t, a, k) = Fresh(a, k, t.incarnations[a])
                     /\ Current(t, a, k) = Fresh(a, k, t.incarnations[a])
  BY <1>2, <1>4, NewStorageType DEF Original, Current, OriginalIn, CurrentIn
<1>6. \A x \in Addr \ {a}, k \in Slot : /\ Original(t, x, k) = Original(s, x, k)
                                       /\ Current(t, x, k) = Current(s, x, k)
  BY <1>2, <1>3 DEF Original, Current
<1>7. \A x \in Addr : Account(t, x) = Account(s, x)
  BY DEF Account, Renewed
<1> QED BY <1>5, <1>6, <1>7

\* create_contract makes the account, keeps its balance and undoes as a whole.
LEMMA CreateContractDoes ==
  ASSUME NEW s, Good(s), NEW a \in Addr
  PROVE  ContractMade(s, a, CreateContract(s, a))
<1> DEFINE t == GetObject(s, a)
           u == CreateContract(s, a)
           c == [NewAccount EXCEPT !.balance = Balance(t, a)]
           o == [initial |-> IF a \in DOMAIN t.objects THEN t.objects[a].initial ELSE None,
                 current |-> c]
           d1 == IF a \in DOMAIN t.objects
                 THEN [op |-> "Update", addr |-> a, prev |-> t.objects[a]]
                 ELSE [op |-> "Create", addr |-> a]
           d2 == [op |-> "Incarnation", addr |-> a]
           d3 == IF a \in DOMAIN t.storage
                 THEN [op |-> "StorageWipe", addr |-> a, prev |-> t.storage[a]]
                 ELSE [op |-> "StorageCreate", addr |-> a]
           f == Put(t.objects, a, o)
           j == Append(t.journal, d1)
           v == WithObjects(t, f, j, t.newCode)
           inc == [t.incarnations EXCEPT ![a] = @ + 1]
<1>1. u = [t EXCEPT !.incarnations = inc, !.objects = f, !.storage = Drop(t.storage, a),
                    !.journal = t.journal \o <<d1, d2, d3>>]
  BY DEF CreateContract, With, ContractDeltas, NewContract
<1>2. GetObjectOk(s, a, t)
  BY GetObjectDoes
<1> SUFFICES ContractMade(s, a, u)
  OBVIOUS
<1> HIDE DEF t, u
<1>3. /\ Changed(s, t, {}) /\ Good(t) /\ Sound(t) /\ t \in States /\ InitialsMatch(t)
      /\ t.touched = s.touched /\ t.newCode = s.newCode /\ t.storage = s.storage
      /\ a \notin DOMAIN t.objects => ReadAccount(a) = None
      /\ t.objects \in [DOMAIN t.objects -> Objects] /\ DOMAIN t.objects \subseteq Addr
      /\ t.storage \in [DOMAIN t.storage -> Storages] /\ DOMAIN t.storage \subseteq Addr
      /\ t.journal \in Seq(Deltas) /\ t.newCode \in SUBSET Code
      /\ t.incarnations \in [Addr -> Int]
  BY <1>2, StateTypes DEF GetObjectOk, Changed, Good, Sound
<1>4. c \in Accounts /\ c # None
  <2>1. Balance(t, a) \in Int
    BY <1>3, BalanceType
  <2> QED BY <2>1, NoneAssumption DEF NewAccount, Accounts, Code
<1>5. o \in Objects /\ o.initial = ReadAccount(a) /\ o.current = c
  <2> HIDE DEF c
  <2>1. a \in DOMAIN t.objects => t.objects[a] \in Objects
    BY <1>3
  <2> QED BY <1>3, <1>4, <2>1 DEF Objects, InitialsMatch
<1> HIDE DEF c
<1>6. /\ d1 \in Deltas /\ d1.addr = a
      /\ a \in DOMAIN t.objects => d1.op = "Update" /\ d1.prev = t.objects[a]
      /\ a \notin DOMAIN t.objects => d1.op = "Create"
  BY <1>3 DEF Deltas
<1>7. d2 \in Deltas /\ d2.addr = a /\ d2.op = "Incarnation"
  BY DEF Deltas
<1>8. /\ d3 \in Deltas /\ d3.addr = a
      /\ a \in DOMAIN t.storage => d3.op = "StorageWipe" /\ d3.prev = t.storage[a]
      /\ a \notin DOMAIN t.storage => d3.op = "StorageCreate"
  BY <1>3 DEF Deltas
<1> HIDE DEF o, d1, d2, d3
<1>9. /\ DOMAIN f = DOMAIN t.objects \cup {a} /\ f[a] = o
      /\ \A x \in DOMAIN t.objects : x # a => f[x] = t.objects[x]
      /\ f \in [DOMAIN f -> Objects] /\ DOMAIN f \subseteq Addr
  BY <1>3, <1>5 DEF Put
<1>10. j \in Seq(Deltas)
  BY <1>3, <1>6, AppendProperties
<1> HIDE DEF f, j
<1>11. OnlyObjects(t, v) /\ v.objects = f /\ v.journal = j /\ v.newCode = t.newCode
  <2>1. ObjectMap(f) /\ MoreCode(t, t.newCode)
    BY <1>3, <1>9 DEF ObjectMap, MoreCode
  <2>2. ObjectsSet(t, f, j, t.newCode, v)
    BY <1>3, <1>10, <2>1, SetObjects
  <2> QED BY <2>2 DEF ObjectsSet
<1> HIDE DEF v
<1>12. ObjectDelta(t, a, o, d1)
  BY <1>6 DEF ObjectDelta
<1>13. ObjectPut(t, a, o, d1, v)
  BY <1>4, <1>5, <1>9, <1>11, <1>12 DEF ObjectPut, j
<1>14. ObjectChanged(t, a, o, v)
  BY <1>3, <1>13, PushObject
<1>15. Changed(t, v, {a}) /\ v.touched = t.touched /\ Account(v, a) = c /\ Good(v)
  BY <1>5, <1>14 DEF ObjectChanged, Changed
<1>16. t.journal \o <<d1, d2, d3>> = Append(Append(j, d2), d3)
       /\ Append(Append(j, d2), d3) \in Seq(Deltas)
  <2>1. Append(Append(Append(t.journal, d1), d2), d3) = t.journal \o <<d1, d2, d3>>
    <3>1. t.journal \in Seq(Deltas) /\ d1 \in Deltas /\ d2 \in Deltas /\ d3 \in Deltas
      BY <1>3, <1>6, <1>7, <1>8
    <3>2. t.journal \o <<d1, d2, d3>> = Append(Append(Append(t.journal, d1), d2), d3)
      BY <3>1, AppendThree
    <3> QED BY <3>2
  <2>2. Append(j, d2) \in Seq(Deltas)
    BY <1>7, <1>10, AppendProperties
  <2>3. Append(Append(j, d2), d3) \in Seq(Deltas)
    BY <1>8, <2>2, AppendProperties
  <2> QED BY <2>1, <2>3 DEF j
<1>17. /\ DOMAIN Drop(t.storage, a) \subseteq Addr
       /\ Drop(t.storage, a) \in [DOMAIN Drop(t.storage, a) -> Storages]
       /\ inc \in [Addr -> Int]
  BY <1>3 DEF Drop
<1>18. /\ u.incarnations = inc /\ u.objects = f /\ u.storage = Drop(t.storage, a)
       /\ u.journal = Append(Append(j, d2), d3) /\ u.newCode = t.newCode
       /\ u.selfDestructs = t.selfDestructs /\ u.logs = t.logs /\ u.touched = t.touched
       /\ u.refund = t.refund /\ u.accessed = t.accessed /\ u.accessedKeys = t.accessedKeys
       /\ u \in States
  <2> DEFINE g == Drop(t.storage, a)
             q == Append(Append(j, d2), d3)
  <2>1. g \in Partial(Addr, Storages) /\ f \in Partial(Addr, Objects)
    BY <1>9, <1>17 DEF Partial
  <2>2. u = [t EXCEPT !.incarnations = inc, !.objects = f, !.storage = g, !.journal = q]
    BY <1>1, <1>16
  <2>3. q \in Seq(Deltas) /\ inc \in [Addr -> Int] /\ t \in States
    BY <1>3, <1>16, <1>17
  <2> HIDE DEF g, q, inc
  <2>4. u = [objects |-> f, storage |-> g, incarnations |-> inc, newCode |-> t.newCode,
             journal |-> q, selfDestructs |-> t.selfDestructs, logs |-> t.logs,
             touched |-> t.touched, refund |-> t.refund, accessed |-> t.accessed,
             accessedKeys |-> t.accessedKeys]
    <3> DEFINE x1 == t.objects
               x2 == t.storage
               x3 == t.incarnations
               x4 == t.newCode
               x5 == t.journal
               x6 == t.selfDestructs
               x7 == t.logs
               x8 == t.touched
               x9 == t.refund
               y1 == t.accessed
               y2 == t.accessedKeys
    <3>1. t = [objects |-> x1, storage |-> x2, incarnations |-> x3, newCode |-> x4,
               journal |-> x5, selfDestructs |-> x6, logs |-> x7, touched |-> x8,
               refund |-> x9, accessed |-> y1, accessedKeys |-> y2]
      BY <2>3, StateRecord
    <3> HIDE DEF x1, x2, x3, x4, x5, x6, x7, x8, x9, y1, y2
    <3>2. u = [objects |-> f, storage |-> g, incarnations |-> inc, newCode |-> x4,
               journal |-> q, selfDestructs |-> x6, logs |-> x7, touched |-> x8,
               refund |-> x9, accessed |-> y1, accessedKeys |-> y2]
      BY <2>2, <3>1
    <3> QED BY <3>2 DEF x4, x6, x7, x8, x9, y1, y2
  <2>5. u \in States
    BY <2>1, <2>3, <2>4, StateTypes DEF States
  <2> QED BY <2>4, <2>5 DEF g, q
<1>19. v.storage = t.storage /\ v.incarnations = t.incarnations
       /\ v.selfDestructs = t.selfDestructs /\ v.logs = t.logs /\ v.touched = t.touched
       /\ v.refund = t.refund /\ v.accessed = t.accessed /\ v.accessedKeys = t.accessedKeys
  BY <1>11 DEF OnlyObjects
<1>20. Renewed(v, a, u, d2, d3)
  BY <1>7, <1>8, <1>11, <1>18, <1>19 DEF Renewed
<1>21. Good(u) /\ Ext(v, u)
  BY <1>15, <1>20, RenewGood, RenewExt
<1>22. /\ \A x \in Addr : Account(u, x) = Account(v, x)
       /\ \A x \in Addr \ {a}, k \in Slot : /\ Original(u, x, k) = Original(v, x, k)
                                           /\ Current(u, x, k) = Current(v, x, k)
       /\ \A k \in Slot : /\ Original(u, a, k) = Fresh(a, k, u.incarnations[a])
                          /\ Current(u, a, k) = Fresh(a, k, u.incarnations[a])
  BY <1>15, <1>20, RenewMade
<1>23. Changed(s, v, {a}) /\ v.touched = s.touched
  BY <1>3, <1>15, ChangedTrans, {} \cup {a} = {a}
<1>24. Ext(s, u)
  BY <1>21, <1>23, ExtTrans DEF Changed
<1>25. Balance(t, a) = Balance(s, a)
  BY <1>3 DEF Changed, Balance, Exists
<1>26. Account(u, a) = [NewAccount EXCEPT !.balance = Balance(s, a)]
  BY <1>15, <1>22, <1>25 DEF c
<1>27. Stays(s, u)
  BY <1>22, <1>23 DEF Changed, Stays
<1>28. /\ \A x \in Addr \ {a} : Account(u, x) = Account(s, x)
       /\ \A x \in Addr \ {a}, k \in Slot : /\ Original(u, x, k) = Original(s, x, k)
                                           /\ Current(u, x, k) = Current(s, x, k)
  BY <1>22, <1>23 DEF Changed, StorageKept
<1>29. /\ u.refund = s.refund /\ u.logs = s.logs /\ u.selfDestructs = s.selfDestructs
       /\ u.newCode = s.newCode /\ u.touched = s.touched
       /\ u.incarnations = [s.incarnations EXCEPT ![a] = @ + 1]
  <2>1. t.incarnations = s.incarnations /\ t.refund = s.refund /\ t.logs = s.logs
        /\ t.selfDestructs = s.selfDestructs
    BY <1>3 DEF Changed, StorageKept
  <2> QED BY <1>3, <1>18, <2>1
<1> QED BY <1>21, <1>22, <1>24, <1>26, <1>27, <1>28, <1>29 DEF ContractMade

-----------------------------------------------------------------------------
(* Snapshots and what they lead back to *)

\* The refund counter and the logs have no deltas.
AsideOnly(s, t) ==
  /\ t \in States /\ SameData(s, t) /\ t.journal = s.journal /\ t.newCode = s.newCode
  /\ t.selfDestructs = s.selfDestructs /\ t.touched = s.touched
  /\ t.accessed = s.accessed /\ t.accessedKeys = s.accessedKeys

\* Logs and the refund are not part of what the journal undoes.
LEMMA AsideView ==
  ASSUME NEW s, Good(s), NEW t, AsideOnly(s, t)
  PROVE  Good(t) /\ SameView(s, t)
<1>1. /\ t \in States /\ InitialsMatch(t) /\ Settled(t) /\ Settled(s) /\ db \in Databases
      /\ s \in States /\ SameData(s, t) /\ t.journal = s.journal
  BY DEF Good, Sound, AsideOnly, InitialsMatch, SameData, Settled
<1>2. \A i \in 1 .. Len(t.journal) : DeltaSound(t, i)
  BY <1>1 DEF Good, Sound, DeltaSound, SameData
<1>3. SameView(s, t)
  BY <1>1, SameDataView DEF SameView, AsideOnly, SameData
<1> QED BY <1>1, <1>2, <1>3 DEF Good, Sound

\* More logs and another refund make an extension.
LEMMA AsideDoes ==
  ASSUME NEW s, Good(s), NEW t, AsideOnly(s, t), Len(s.logs) <= Len(t.logs),
         \A i \in 1 .. Len(s.logs) : t.logs[i] = s.logs[i]
  PROVE  Good(t) /\ Ext(s, t)
<1>1. Good(t) /\ SameView(s, t)
  BY AsideView
<1>2. t \in States /\ InitialsMatch(t) /\ ObjectsStay(s, t)
  BY <1>1 DEF Good, Sound, AsideOnly, SameData, ObjectsStay
<1> QED BY <1>1, <1>2, CacheExt

WithAside(s, l, r) ==
  [objects |-> s.objects, storage |-> s.storage, incarnations |-> s.incarnations,
   newCode |-> s.newCode, journal |-> s.journal, selfDestructs |-> s.selfDestructs,
   logs |-> l, touched |-> s.touched, refund |-> r, accessed |-> s.accessed,
   accessedKeys |-> s.accessedKeys]

\* The state with other logs and another refund.
LEMMA AsideIs ==
  ASSUME NEW s \in States, NEW l \in Seq(Addr), NEW r \in Int
  PROVE  /\ AsideOnly(s, WithAside(s, l, r))
         /\ WithAside(s, l, r).logs = l /\ WithAside(s, l, r).refund = r
<1> DEFINE t == WithAside(s, l, r)
<1>1. s.objects \in Partial(Addr, Objects) /\ s.storage \in Partial(Addr, Storages)
  BY DEF States
<1>2. t \in States
  BY <1>1, StateTypes DEF States, WithAside
<1> QED BY <1>2 DEF AsideOnly, SameData, WithAside

\* The same, written with EXCEPT.
LEMMA AsideExcept ==
  ASSUME NEW s \in States, NEW l, NEW r, NEW t, t = [s EXCEPT !.logs = l, !.refund = r]
  PROVE  t = WithAside(s, l, r)
<1> DEFINE x1 == s.objects
           x2 == s.storage
           x3 == s.incarnations
           x4 == s.newCode
           x5 == s.journal
           x6 == s.selfDestructs
           x7 == s.logs
           x8 == s.touched
           x9 == s.refund
           y1 == s.accessed
           y2 == s.accessedKeys
<1>1. s = [objects |-> x1, storage |-> x2, incarnations |-> x3, newCode |-> x4,
           journal |-> x5, selfDestructs |-> x6, logs |-> x7, touched |-> x8,
           refund |-> x9, accessed |-> y1, accessedKeys |-> y2]
  BY StateRecord
<1> HIDE DEF x1, x2, x3, x4, x5, x6, x7, x8, x9, y1, y2
<1>2. t = [objects |-> x1, storage |-> x2, incarnations |-> x3, newCode |-> x4,
           journal |-> x5, selfDestructs |-> x6, logs |-> l, touched |-> x8,
           refund |-> r, accessed |-> y1, accessedKeys |-> y2]
  BY <1>1
<1> QED BY <1>2 DEF WithAside, x1, x2, x3, x4, x5, x6, x8, y1, y2

\* The same for logs alone.
LEMMA LogsExcept ==
  ASSUME NEW s \in States, NEW l, NEW t, t = [s EXCEPT !.logs = l]
  PROVE  t = WithAside(s, l, s.refund)
<1> DEFINE x1 == s.objects
           x2 == s.storage
           x3 == s.incarnations
           x4 == s.newCode
           x5 == s.journal
           x6 == s.selfDestructs
           x7 == s.logs
           x8 == s.touched
           x9 == s.refund
           y1 == s.accessed
           y2 == s.accessedKeys
<1>1. s = [objects |-> x1, storage |-> x2, incarnations |-> x3, newCode |-> x4,
           journal |-> x5, selfDestructs |-> x6, logs |-> x7, touched |-> x8,
           refund |-> x9, accessed |-> y1, accessedKeys |-> y2]
  BY StateRecord
<1> HIDE DEF x1, x2, x3, x4, x5, x6, x7, x8, x9, y1, y2
<1>2. t = [objects |-> x1, storage |-> x2, incarnations |-> x3, newCode |-> x4,
           journal |-> x5, selfDestructs |-> x6, logs |-> l, touched |-> x8,
           refund |-> x9, accessed |-> y1, accessedKeys |-> y2]
  BY <1>1
<1> QED BY <1>2 DEF WithAside, x1, x2, x3, x4, x5, x6, x8, x9, y1, y2

\* A refund is an extension: the snapshot keeps the old one.
LEMMA RefundDoes ==
  ASSUME NEW s, Good(s), NEW r \in Int, NEW t, t = [s EXCEPT !.refund = r]
  PROVE  AsideOnly(s, t) /\ Ext(s, t) /\ t.refund = r /\ t.logs = s.logs
<1>1. s \in States /\ s.logs \in Seq(Addr) /\ Len(s.logs) \in Nat
  BY StateTypes, LenProperties DEF Good, Sound
<1>2. t = WithAside(s, s.logs, r)
  BY <1>1, StateRecord DEF WithAside
<1>3. AsideOnly(s, t) /\ t.refund = r /\ t.logs = s.logs
  BY <1>1, <1>2, AsideIs
<1>4. Len(s.logs) <= Len(t.logs) /\ \A i \in 1 .. Len(s.logs) : t.logs[i] = s.logs[i]
  BY <1>1, <1>3
<1>5. Ext(s, t)
  BY <1>3, <1>4, AsideDoes
<1> QED BY <1>3, <1>5

\* A log is an extension: the snapshot keeps the old number of logs.
LEMMA LogDoes ==
  ASSUME NEW s, Good(s), NEW a \in Addr, NEW t, t = [s EXCEPT !.logs = Append(@, a)]
  PROVE  AsideOnly(s, t) /\ Ext(s, t) /\ t.refund = s.refund
<1>1. s \in States /\ s.logs \in Seq(Addr) /\ s.refund \in Int
  BY StateTypes DEF Good, Sound
<1> DEFINE l == Append(s.logs, a)
<1>2. /\ l \in Seq(Addr) /\ Len(s.logs) <= Len(l)
      /\ \A i \in 1 .. Len(s.logs) : l[i] = s.logs[i]
  BY <1>1, AppendProperties, LenProperties
<1>3. t = [s EXCEPT !.logs = l]
  OBVIOUS
<1> HIDE DEF l
<1>4. t = WithAside(s, l, s.refund)
  BY <1>1, <1>3, LogsExcept
<1>5. AsideOnly(s, t) /\ t.refund = s.refund /\ t.logs = l
  <2>1. l \in Seq(Addr)
    BY <1>2
  <2>2. AsideOnly(s, WithAside(s, l, s.refund)) /\ WithAside(s, l, s.refund).logs = l
        /\ WithAside(s, l, s.refund).refund = s.refund
    BY <1>1, <2>1, AsideIs
  <2> QED BY <1>4, <2>2
<1>6. Ext(s, t)
  BY <1>2, <1>5, AsideDoes
<1> QED BY <1>5, <1>6

\* What a message sees is what the view shows.
LEMMA WorldSame ==
  ASSUME NEW s, NEW t, Settled(s), InitialsMatch(s), Settled(t), InitialsMatch(t),
         SameView(s, t), s.logs = t.logs, s.refund = t.refund
  PROVE  World(s) = World(t)
<1>1. \A a \in Addr : Account(s, a) = Account(t, a)
  BY DEF SameView
<1>2. \A a \in Addr : Exists(s, a) = Exists(t, a)
  BY <1>1 DEF Exists
<1>3. ASSUME NEW a \in Addr, NEW k \in Slot, NEW original \in BOOLEAN
      PROVE  StorageAt(s, a, k, original) = StorageAt(t, a, k, original)
  <2>1. Original(s, a, k) = Original(t, a, k) /\ Current(s, a, k) = Current(t, a, k)
    BY DEF SameView
  <2>2. Exists(s, a) <=> Exists(t, a)
    BY <1>1 DEF Exists
  <2> QED BY <2>1, <2>2, StorageIs
<1>4. StorageNow(s) = StorageNow(t)
  BY <1>3 DEF StorageNow
<1>5. [p \in Addr \X Slot |-> StorageAt(s, p[1], p[2], TRUE)] =
        [p \in Addr \X Slot |-> StorageAt(t, p[1], p[2], TRUE)]
  BY <1>3
<1>6. [a \in Addr |-> Account(s, a)] = [a \in Addr |-> Account(t, a)]
  BY <1>1
<1> QED BY <1>4, <1>5, <1>6 DEF World, SameView

\* A snapshot that a state can be reverted to.
Snapshot(s, n) ==
  /\ n.journal \in 0 .. Len(s.journal)
  /\ n.logs \in 0 .. Len(s.logs)
  /\ n.refund \in Int
  /\ n.journal > 0 => s.journal[n.journal].op # "Incarnation"

Reverted(s, n, w) ==
  /\ Good(w) /\ SameView(Undone(s)[Len(s.journal) - n.journal], w)
  /\ w.logs = SubSeq(s.logs, 1, n.logs) /\ w.refund = n.refund
  /\ w.newCode = s.newCode
  /\ Len(w.journal) = n.journal
  /\ \A i \in 1 .. n.journal : w.journal[i] = s.journal[i]
  /\ Len(w.logs) = n.logs
  /\ \A i \in 1 .. n.logs : w.logs[i] = s.logs[i]

\* revert_to_snapshot leads back to what the snapshot was taken of.
LEMMA RevertIs ==
  ASSUME NEW s, Good(s), NEW n, Snapshot(s, n)
  PROVE  Reverted(s, n, RevertToSnapshot(s, n))
<1> DEFINE N == Len(s.journal)
           u == Undone(s)[N - n.journal]
           l == SubSeq(u.logs, 1, n.logs)
           w == RevertToSnapshot(s, n)
<1>1. w = [u EXCEPT !.logs = l, !.refund = n.refund]
  BY DEF RevertToSnapshot
<1>2. N \in Nat /\ Sound(s) /\ s \in States /\ s.logs \in Seq(Addr)
  BY SoundLen, StateTypes DEF Good
<1>3. N - n.journal \in 0 .. N /\ N - (N - n.journal) = n.journal
      /\ n.journal \in Nat /\ n.journal <= N
  <2>1. n.journal \in 0 .. N
    BY DEF Snapshot
  <2> HIDE DEF N
  <2> QED BY <1>2, <2>1
<1>4. LeftUndone(s, u, N - n.journal)
  BY <1>2, <1>3, UndoneSound
<1> SUFFICES Reverted(s, n, w)
  OBVIOUS
<1> HIDE DEF u, w
<1>5. /\ Sound(u) /\ Len(u.journal) = n.journal
      /\ \A i \in 1 .. n.journal : u.journal[i] = s.journal[i]
      /\ u.logs = s.logs /\ u.newCode = s.newCode
  BY <1>3, <1>4 DEF LeftUndone
<1>6. u \in States /\ Good(u)
  <2>1. u \in States /\ u.journal \in Seq(Deltas)
    BY <1>5, SoundLen
  <2>2. Settled(u)
    <3>1. ASSUME u.journal # <<>> PROVE n.journal > 0 /\ n.journal \in 1 .. n.journal
      BY <1>3, <1>5, <2>1, <3>1
    <3> QED BY <1>5, <3>1 DEF Settled, Snapshot
  <2> QED BY <1>5, <2>1, <2>2 DEF Good
<1>7. /\ l \in Seq(Addr) /\ Len(l) = n.logs /\ l = SubSeq(s.logs, 1, n.logs)
      /\ \A i \in 1 .. n.logs : l[i] = s.logs[i]
  <2>1. n.logs \in 0 .. Len(s.logs) /\ Len(s.logs) \in Nat
    BY <1>2, LenProperties DEF Snapshot
  <2> QED BY <1>2, <1>5, <2>1
<1> HIDE DEF l
<1>8. w = WithAside(u, l, n.refund)
  <2> DEFINE r == n.refund
  <2>1. w = [u EXCEPT !.logs = l, !.refund = r]
    BY <1>1
  <2> HIDE DEF r
  <2>2. w = WithAside(u, l, r)
    BY <1>6, <2>1, AsideExcept
  <2> QED BY <2>2 DEF r
<1>9. n.refund \in Int
  BY DEF Snapshot
<1>10. AsideOnly(u, w) /\ w.logs = l /\ w.refund = n.refund
  BY <1>6, <1>7, <1>8, <1>9, AsideIs
<1>11. Good(w) /\ SameView(u, w)
  BY <1>6, <1>10, AsideView
<1>12. w.journal = u.journal /\ w.newCode = u.newCode
  BY <1>10 DEF AsideOnly
<1>13. SameView(Undone(s)[Len(s.journal) - n.journal], w)
  BY <1>11 DEF u
<1> QED BY <1>5, <1>7, <1>10, <1>11, <1>12, <1>13 DEF Reverted

\* Whatever a state is extended by, a snapshot leads back to the same world.
LEMMA ExtSnapshot ==
  ASSUME NEW s, Good(s), NEW t, Ext(s, t), NEW n, Snapshot(s, n)
  PROVE  /\ Snapshot(t, n)
         /\ SameView(RevertToSnapshot(s, n), RevertToSnapshot(t, n))
         /\ World(RevertToSnapshot(t, n)) = World(RevertToSnapshot(s, n))
<1> DEFINE v == RevertToSnapshot(s, n)
           w == RevertToSnapshot(t, n)
<1>1. /\ Good(t) /\ Len(s.journal) \in Nat /\ Len(t.journal) \in Nat
      /\ Len(s.journal) <= Len(t.journal)
      /\ \A i \in 1 .. Len(s.journal) : t.journal[i] = s.journal[i]
  BY ExtJournal DEF Ext
<1>2. Len(s.logs) \in Nat /\ Len(t.logs) \in Nat /\ Len(s.logs) <= Len(t.logs)
      /\ \A i \in 1 .. Len(s.logs) : t.logs[i] = s.logs[i]
      /\ s.logs \in Seq(Addr) /\ t.logs \in Seq(Addr)
  BY <1>1, StateTypes, LenProperties DEF Ext, Good, Sound
<1>3. n.journal \in 0 .. Len(s.journal) /\ n.logs \in 0 .. Len(s.logs)
  BY DEF Snapshot
<1>4. Snapshot(t, n)
  <2>1. n.journal \in 0 .. Len(t.journal) /\ n.logs \in 0 .. Len(t.logs)
        /\ (n.journal > 0 => n.journal \in 1 .. Len(s.journal))
    BY <1>1, <1>2, <1>3
  <2> QED BY <1>1, <2>1 DEF Snapshot
<1>5. Reverted(s, n, v) /\ Reverted(t, n, w)
  BY <1>1, <1>4, RevertIs
<1> HIDE DEF v, w
<1>6. SameView(Undone(s)[Len(s.journal) - n.journal], Undone(t)[Len(t.journal) - n.journal])
  BY <1>3, ExtUndone
<1>7. SameView(v, w)
  BY <1>5, <1>6, SameViewSym, SameViewTrans DEF Reverted
<1>8. v.logs = w.logs
  <2>1. v.logs \in Seq(Addr) /\ w.logs \in Seq(Addr)
    BY <1>5, StateTypes DEF Reverted, Good, Sound
  <2>2. Len(v.logs) = n.logs /\ Len(w.logs) = n.logs
        /\ \A i \in 1 .. n.logs : v.logs[i] = s.logs[i] /\ w.logs[i] = t.logs[i]
    BY <1>5 DEF Reverted
  <2>3. \A i \in 1 .. n.logs : i \in 1 .. Len(s.logs)
    BY <1>2, <1>3
  <2>4. \A i \in 1 .. Len(v.logs) : v.logs[i] = w.logs[i]
    BY <1>2, <2>2, <2>3
  <2> QED BY <2>1, <2>2, <2>4, SeqEqual
<1>9. World(v) = World(w)
  BY <1>5, <1>7, <1>8, WorldSame DEF Reverted, Good, Sound
<1> QED BY <1>4, <1>7, <1>9 DEF v, w

\* A snapshot that is just taken leads back to where it was taken.
LEMMA TakenSnapshot ==
  ASSUME NEW s, Good(s)
  PROVE  LET n == TakeSnapshot(s)
         IN  /\ Snapshot(s, n) /\ SameView(s, RevertToSnapshot(s, n))
             /\ World(RevertToSnapshot(s, n)) = World(s)
             /\ n.journal = Len(s.journal) /\ n.logs = Len(s.logs)
<1> DEFINE n == TakeSnapshot(s)
           w == RevertToSnapshot(s, n)
<1>1. n.journal = Len(s.journal) /\ n.logs = Len(s.logs) /\ n.refund = s.refund
  BY DEF TakeSnapshot
<1> HIDE DEF n
<1>2. s \in States /\ Len(s.journal) \in Nat /\ s.logs \in Seq(Addr) /\ Len(s.logs) \in Nat
      /\ s.refund \in Int /\ (s.journal = <<>> <=> Len(s.journal) = 0)
      /\ Settled(s) /\ InitialsMatch(s)
  BY SoundLen, StateTypes, LenProperties DEF Good, Sound
<1>3. Snapshot(s, n)
  BY <1>1, <1>2 DEF Snapshot, Settled
<1>4. Reverted(s, n, w)
  BY <1>3, RevertIs
<1> HIDE DEF w
<1>5. Undone(s)[Len(s.journal) - n.journal] = s
  BY <1>1, <1>2, UndoneIs, Len(s.journal) - n.journal = 0
<1>6. SameView(s, w)
  BY <1>4, <1>5 DEF Reverted
<1>7. w.logs = s.logs /\ w.refund = s.refund
  <2>1. w.logs \in Seq(Addr)
    BY <1>4, StateTypes DEF Reverted, Good, Sound
  <2> QED BY <1>1, <1>2, <1>4, <2>1, SeqEqual DEF Reverted
<1>8. World(w) = World(s)
  BY <1>2, <1>4, <1>6, <1>7, WorldSame DEF Reverted, Good, Sound
<1> QED BY <1>1, <1>3, <1>6, <1>8 DEF n, w

\* Reverting to a snapshot leaves what the earlier ones lead back to.
LEMMA RevertedSnapshot ==
  ASSUME NEW s, Good(s), NEW n, Snapshot(s, n), NEW m, Snapshot(s, m),
         m.journal <= n.journal, m.logs <= n.logs
  PROVE  LET w == RevertToSnapshot(s, n)
         IN  /\ Snapshot(w, m)
             /\ SameView(RevertToSnapshot(w, m), RevertToSnapshot(s, m))
             /\ World(RevertToSnapshot(w, m)) = World(RevertToSnapshot(s, m))
<1> DEFINE w == RevertToSnapshot(s, n)
           N == Len(s.journal)
           x == RevertToSnapshot(w, m)
           y == RevertToSnapshot(s, m)
           u == Undone(s)[N - n.journal]
<1>1. Reverted(s, n, w) /\ Reverted(s, m, y)
  BY RevertIs
<1> HIDE DEF w, y
<1>2. /\ Good(w) /\ Sound(w) /\ SameView(u, w) /\ Len(w.journal) = n.journal
      /\ Len(w.logs) = n.logs
      /\ \A i \in 1 .. n.journal : w.journal[i] = s.journal[i]
      /\ \A i \in 1 .. n.logs : w.logs[i] = s.logs[i]
  BY <1>1 DEF Reverted, Good
<1>3. N \in Nat /\ Sound(s) /\ s.logs \in Seq(Addr) /\ Len(s.logs) \in Nat
  BY SoundLen, StateTypes, LenProperties DEF Good
<1>4. /\ m.journal \in 0 .. N /\ m.logs \in 0 .. Len(s.logs) /\ m.refund \in Int
      /\ n.journal \in 0 .. N /\ n.logs \in 0 .. Len(s.logs)
  BY DEF Snapshot
<1>5. Snapshot(w, m)
  <2>1. m.journal \in 0 .. n.journal /\ m.logs \in 0 .. n.logs
        /\ (m.journal > 0 => m.journal \in 1 .. n.journal)
    BY <1>3, <1>4
  <2> QED BY <1>2, <1>4, <2>1 DEF Snapshot
<1>6. Reverted(w, m, x)
  BY <1>2, <1>5, RevertIs
<1> HIDE DEF x
<1>7. SameView(Undone(w)[n.journal - m.journal], Undone(s)[N - m.journal])
  <2>1. N - n.journal \in 0 .. N /\ N - (N - n.journal) = n.journal
        /\ n.journal - m.journal \in 0 .. n.journal
        /\ (N - n.journal) + (n.journal - m.journal) = N - m.journal
    <3> HIDE DEF N
    <3> QED BY <1>3, <1>4
  <2>2. LeftUndone(s, u, N - n.journal)
    BY <1>3, <2>1, UndoneSound
  <2>3. Sound(u) /\ Len(u.journal) = n.journal
    BY <2>1, <2>2 DEF LeftUndone
  <2>4. Undone(u)[n.journal - m.journal] = Undone(s)[N - m.journal]
    <3>1. Undone(u)[n.journal - m.journal] =
            Undone(s)[(N - n.journal) + (n.journal - m.journal)]
      BY <1>3, <2>1, UndoneCompose
    <3> QED BY <2>1, <3>1
  <2> HIDE DEF u, N
  <2>5. SameView(Undone(u)[n.journal - m.journal], Undone(w)[n.journal - m.journal])
    BY <1>2, <2>1, <2>3, UndoneSame
  <2> QED BY <2>4, <2>5, SameViewSym
<1>8. SameView(x, y)
  BY <1>1, <1>2, <1>6, <1>7, SameViewSym, SameViewTrans DEF Reverted
<1>9. x.logs = y.logs
  <2>1. x.logs \in Seq(Addr) /\ y.logs \in Seq(Addr)
    BY <1>1, <1>6, StateTypes DEF Reverted, Good, Sound
  <2>2. Len(x.logs) = m.logs /\ Len(y.logs) = m.logs
        /\ \A i \in 1 .. m.logs : x.logs[i] = w.logs[i] /\ y.logs[i] = s.logs[i]
    BY <1>1, <1>6 DEF Reverted
  <2>3. \A i \in 1 .. m.logs : i \in 1 .. n.logs
    BY <1>3, <1>4
  <2>4. \A i \in 1 .. Len(x.logs) : x.logs[i] = y.logs[i]
    BY <1>2, <2>2, <2>3
  <2> QED BY <2>1, <2>2, <2>4, SeqEqual
<1>10. World(x) = World(y)
  BY <1>1, <1>6, <1>8, <1>9, WorldSame DEF Reverted, Good, Sound
<1> QED BY <1>5, <1>8, <1>10 DEF w, x, y

-----------------------------------------------------------------------------
(* What any step of a message does, and the frames on the stack *)

\* The original values are those that a transaction has started with at b,
\* except in contracts that it has made, and the storage of an account that
\* does not exist is empty.
Sane(b, s) ==
  \A a \in Addr :
    /\ b.incarnations[a] \in Nat /\ s.incarnations[a] \in Int
    /\ s.incarnations[a] >= b.incarnations[a]
    /\ \A k \in Slot :
         /\ Original(s, a, k) = IF s.incarnations[a] > b.incarnations[a] THEN 0
                                ELSE b.storage[<<a, k>>]
         /\ ~Exists(s, a) => Original(s, a, k) = 0 /\ Current(s, a, k) = 0

Runs(s, t) == Good(t) /\ Ext(s, t) /\ Stays(s, t) /\ (\A b : Sane(b, s) => Sane(b, t))

\* It only depends on what a state shows.
LEMMA SaneSame ==
  ASSUME NEW b, NEW s, NEW t, SameView(s, t), Sane(b, s)
  PROVE  Sane(b, t)
BY DEF SameView, Sane, Exists

\* A message may do nothing.
LEMMA RunsRefl ==
  ASSUME NEW s, Good(s)
  PROVE  Runs(s, s)
BY ExtRefl DEF Runs, Stays

\* What a message does follows each other.
LEMMA RunsTrans ==
  ASSUME NEW s, NEW t, NEW u, Good(s), Runs(s, t), Runs(t, u)
  PROVE  Runs(s, u)
<1>1. Ext(s, u)
  BY ExtTrans DEF Runs
<1> QED BY <1>1 DEF Runs, Stays

\* A change of accounts is something a message may do.
LEMMA ChangedRuns ==
  ASSUME NEW s, NEW t, NEW A, Changed(s, t, A)
  PROVE  Runs(s, t)
<1>1. Good(t) /\ Ext(s, t) /\ Stays(s, t) /\ StorageKept(s, t)
  BY DEF Changed
<1>2. \A b : Sane(b, s) => Sane(b, t)
  BY <1>1 DEF StorageKept, Stays, Sane, Exists
<1> QED BY <1>1, <1>2 DEF Runs

\* So is a change of a slot.
LEMMA SlotRuns ==
  ASSUME NEW s, NEW t, NEW a \in Addr, NEW k, NEW v, SlotSet(s, a, k, v, t), Exists(s, a)
  PROVE  Runs(s, t)
<1>1. Good(t) /\ Ext(s, t) /\ Stays(s, t)
  BY DEF SlotSet, Stays
<1>2. \A b : Sane(b, s) => Sane(b, t)
  BY DEF SlotSet, Sane, Exists
<1> QED BY <1>1, <1>2 DEF Runs

\* So is a new contract.
LEMMA ContractRuns ==
  ASSUME NEW s, s \in States, NEW t, NEW a \in Addr, ContractMade(s, a, t), Exists(t, a)
  PROVE  Runs(s, t)
<1>1. /\ Good(t) /\ Ext(s, t) /\ Stays(s, t)
      /\ t.incarnations = [s.incarnations EXCEPT ![a] = @ + 1]
      /\ \A x \in Addr \ {a} : Account(t, x) = Account(s, x)
      /\ \A x \in Addr \ {a}, k \in Slot : /\ Original(t, x, k) = Original(s, x, k)
                                          /\ Current(t, x, k) = Current(s, x, k)
      /\ \A k \in Slot : Original(t, a, k) = Fresh(a, k, t.incarnations[a])
  BY DEF ContractMade
<1>2. s.incarnations \in [Addr -> Int]
  BY StateTypes
<1>3. t.incarnations[a] = s.incarnations[a] + 1
  BY <1>1, <1>2
<1>4. ASSUME NEW b, Sane(b, s) PROVE Sane(b, t)
  <2>1. ASSUME NEW x \in Addr, x # a
        PROVE  /\ t.incarnations[x] = s.incarnations[x] /\ Account(t, x) = Account(s, x)
               /\ \A k \in Slot : /\ Original(t, x, k) = Original(s, x, k)
                                  /\ Current(t, x, k) = Current(s, x, k)
    BY <1>1, <1>2, <2>1
  <2>2. /\ b.incarnations[a] \in Nat /\ s.incarnations[a] \in Int
        /\ s.incarnations[a] >= b.incarnations[a]
    BY <1>4 DEF Sane
  <2>3. /\ t.incarnations[a] \in Int /\ t.incarnations[a] > b.incarnations[a]
        /\ t.incarnations[a] > 0
    BY <1>3, <2>2
  <2>4. \A k \in Slot : Original(t, a, k) = 0
    BY <1>1, <2>3 DEF Fresh
  <2>5. ASSUME NEW x \in Addr, x # a
        PROVE  /\ b.incarnations[x] \in Nat /\ t.incarnations[x] \in Int
               /\ t.incarnations[x] >= b.incarnations[x]
               /\ \A k \in Slot :
                    /\ Original(t, x, k) = IF t.incarnations[x] > b.incarnations[x] THEN 0
                                           ELSE b.storage[<<x, k>>]
                    /\ ~Exists(t, x) => Original(t, x, k) = 0 /\ Current(t, x, k) = 0
    BY <1>4, <2>1, <2>5 DEF Sane, Exists
  <2> QED BY <2>2, <2>3, <2>4, <2>5 DEF Sane
<1> QED BY <1>1, <1>4 DEF Runs

\* So is what leaves the objects alone.
LEMMA DataRuns ==
  ASSUME NEW s, Good(s), NEW t, Good(t), Ext(s, t), SameData(s, t)
  PROVE  Runs(s, t)
<1>1. Stays(s, t)
  BY DEF SameData, Stays, Account
<1>2. /\ \A a : Account(t, a) = Account(s, a) /\ Exists(t, a) = Exists(s, a)
      /\ \A a, k : Original(t, a, k) = Original(s, a, k)
      /\ \A a, k : Current(t, a, k) = Current(s, a, k)
  BY SameDataView DEF Good, Exists
<1>3. t.incarnations = s.incarnations
  BY DEF SameData
<1>4. \A b : Sane(b, s) => Sane(b, t)
  BY <1>2, <1>3 DEF Sane
<1> QED BY <1>1, <1>4 DEF Runs

\* An account that is there is there in a state that shows the same.
LEMMA ExistsSame ==
  ASSUME NEW s, NEW t, SameView(s, t), NEW a \in Addr, Exists(s, a)
  PROVE  Exists(t, a)
BY DEF SameView, Exists

\* An account that exists goes on existing while a message runs.
LEMMA ExistsStays ==
  ASSUME NEW s, NEW t, Runs(s, t), NEW a \in Addr, Exists(s, a)
  PROVE  Exists(t, a)
BY DEF Runs, Stays, Exists

Snapshots == [journal : Nat, logs : Nat, refund : Int]
FrameRecords == [msg : Messages, snapshot : Snapshots]

\* The contract that a message executes is there, and still is when a message
\* that it has sent is reverted.
Anchored(s, k, i) ==
  ~IsPrecompiled(k[i].msg.code) =>
    /\ Exists(s, k[i].msg.to)
    /\ \A j \in i + 1 .. Len(k) : Exists(RevertToSnapshot(s, k[j].snapshot), k[i].msg.to)

Frames(s, k) ==
  /\ k \in Seq(FrameRecords)
  /\ \A i \in 1 .. Len(k) : Snapshot(s, k[i].snapshot)
  /\ \A i, j \in 1 .. Len(k) :
       i <= j => /\ k[i].snapshot.journal <= k[j].snapshot.journal
                 /\ k[i].snapshot.logs <= k[j].snapshot.logs
  /\ \A i \in 1 .. Len(k) : Anchored(s, k, i)

\* The world that the message of a frame started from.
SavedWorld(s, f) == World(RevertToSnapshot(s, f.snapshot))
Saving(s, f) == RevertToSnapshot(s, f.snapshot)

\* The parts of a frame have their types.
LEMMA FrameTypes ==
  ASSUME NEW k \in Seq(FrameRecords), NEW i \in 1 .. Len(k)
  PROVE  /\ k[i] \in FrameRecords /\ k[i].msg \in Messages /\ k[i].snapshot \in Snapshots
         /\ k[i].msg.to \in Addr /\ k[i].msg.code \in Addr /\ k[i].msg.sender \in Addr
<1>1. k[i] \in FrameRecords
  OBVIOUS
<1>2. k[i].msg \in Messages /\ k[i].snapshot \in Snapshots
  BY <1>1 DEF FrameRecords
<1> QED BY <1>1, <1>2 DEF Messages

\* While a message runs the frames stay, and lead back to the same worlds.
LEMMA FramesStay ==
  ASSUME NEW s, Good(s), NEW t, Runs(s, t), NEW k, Frames(s, k)
  PROVE  /\ Frames(t, k)
         /\ \A i \in 1 .. Len(k) : SavedWorld(t, k[i]) = SavedWorld(s, k[i])
         /\ \A i \in 1 .. Len(k) : SameView(Saving(s, k[i]), Saving(t, k[i]))
<1>1. k \in Seq(FrameRecords) /\ Ext(s, t)
  BY DEF Frames, Runs
<1>2. \A i \in 1 .. Len(k) :
        /\ Snapshot(t, k[i].snapshot)
        /\ SameView(RevertToSnapshot(s, k[i].snapshot), RevertToSnapshot(t, k[i].snapshot))
        /\ SavedWorld(t, k[i]) = SavedWorld(s, k[i])
  BY <1>1, ExtSnapshot DEF Frames, SavedWorld
<1>3. ASSUME NEW i \in 1 .. Len(k) PROVE Anchored(t, k, i)
  <2>1. Anchored(s, k, i) /\ k[i].msg.to \in Addr
    BY <1>1, FrameTypes DEF Frames
  <2>2. Exists(s, k[i].msg.to) => Exists(t, k[i].msg.to)
    BY <2>1, ExistsStays
  <2>3. ASSUME NEW j \in i + 1 .. Len(k), Exists(RevertToSnapshot(s, k[j].snapshot), k[i].msg.to)
        PROVE  Exists(RevertToSnapshot(t, k[j].snapshot), k[i].msg.to)
    <3>1. j \in 1 .. Len(k)
      BY <1>1, LenProperties
    <3> QED BY <1>2, <2>1, <2>3, <3>1, ExistsSame
  <2> QED BY <2>1, <2>2, <2>3 DEF Anchored
<1> QED BY <1>1, <1>2, <1>3 DEF Frames, Saving

\* A message starts.
LEMMA FramePushed ==
  ASSUME NEW s, Good(s), NEW p, Runs(s, p), NEW t, Runs(p, t), NEW k, Frames(s, k),
         NEW m \in Messages, ~IsPrecompiled(m.code) => Exists(t, m.to)
  PROVE  LET f == [msg |-> m, snapshot |-> TakeSnapshot(p)]
             q == Append(k, f)
         IN  /\ Frames(t, q)
             /\ \A i \in 1 .. Len(k) : SavedWorld(t, q[i]) = SavedWorld(s, k[i])
             /\ \A i \in 1 .. Len(k) : SameView(Saving(s, k[i]), Saving(t, q[i]))
             /\ Len(q) = Len(k) + 1 /\ SameView(p, Saving(t, q[Len(k) + 1]))
             /\ Saving(t, q[Len(k) + 1]).refund = p.refund
<1> DEFINE n == TakeSnapshot(p)
           f == [msg |-> m, snapshot |-> n]
           q == Append(k, f)
           N == Len(k)
<1>1. k \in Seq(FrameRecords) /\ N \in Nat /\ Good(p) /\ Ext(p, t) /\ Good(t)
  BY LenProperties DEF Frames, Runs
<1>2. /\ Snapshot(p, n) /\ SameView(p, RevertToSnapshot(p, n))
      /\ n.journal = Len(p.journal) /\ n.logs = Len(p.logs)
  BY <1>1, TakenSnapshot
<1>3. n \in Snapshots
  <2>1. p.refund \in Int /\ Len(p.journal) \in Nat /\ Len(p.logs) \in Nat
    BY <1>1, SoundLen, StateTypes, LenProperties DEF Good
  <2> QED BY <2>1 DEF TakeSnapshot, Snapshots
<1> HIDE DEF n
<1>4. f \in FrameRecords /\ f.msg = m /\ f.snapshot = n
  BY <1>3 DEF FrameRecords
<1> HIDE DEF f
<1>5. /\ q \in Seq(FrameRecords) /\ Len(q) = N + 1 /\ q[N + 1] = f
      /\ \A i \in 1 .. N : q[i] = k[i]
  BY <1>1, <1>4, AppendProperties
<1> HIDE DEF q, N
<1>6. Frames(p, k) /\ \A i \in 1 .. N : SavedWorld(p, k[i]) = SavedWorld(s, k[i])
  BY FramesStay DEF N
<1>7. Runs(s, t)
  BY RunsTrans
<1>8. /\ Frames(t, k) /\ \A i \in 1 .. N : SavedWorld(t, k[i]) = SavedWorld(s, k[i])
      /\ \A i \in 1 .. N : SameView(Saving(s, k[i]), Saving(t, k[i]))
  BY <1>7, FramesStay DEF N
<1>9. /\ Snapshot(t, n)
      /\ SameView(RevertToSnapshot(p, n), RevertToSnapshot(t, n))
  BY <1>1, <1>2, ExtSnapshot
<1>10. SameView(p, RevertToSnapshot(t, n))
  BY <1>2, <1>9, SameViewTrans
<1>11. \A i \in 1 .. N + 1 : i \in 1 .. N \/ i = N + 1
  BY <1>1
<1>12. \A i \in 1 .. N + 1 : Snapshot(t, q[i].snapshot)
  BY <1>4, <1>5, <1>8, <1>9, <1>11 DEF Frames, N
<1>13. ASSUME NEW i \in 1 .. N + 1, NEW j \in 1 .. N + 1, i <= j
       PROVE  /\ q[i].snapshot.journal <= q[j].snapshot.journal
              /\ q[i].snapshot.logs <= q[j].snapshot.logs
  <2>1. CASE i \in 1 .. N /\ j \in 1 .. N
    BY <1>5, <1>8, <1>13, <2>1 DEF Frames, N
  <2>2. CASE i \in 1 .. N /\ j = N + 1
    <3>1. Snapshot(p, k[i].snapshot)
      BY <1>6, <2>2 DEF Frames, N
    <3>2. k[i].snapshot.journal <= Len(p.journal) /\ k[i].snapshot.logs <= Len(p.logs)
      BY <3>1 DEF Snapshot
    <3> QED BY <1>2, <1>4, <1>5, <2>2, <3>2
  <2>3. CASE i = N + 1
    <3>1. j = N + 1
      BY <1>1, <1>13, <2>3
    <3>2. q[i].snapshot = n /\ q[j].snapshot = n /\ n.journal \in Nat /\ n.logs \in Nat
      BY <1>3, <1>4, <1>5, <2>3, <3>1 DEF Snapshots
    <3> QED BY <3>2
  <2> QED BY <1>11, <2>1, <2>2, <2>3
<1>14. ASSUME NEW i \in 1 .. N + 1 PROVE Anchored(t, q, i)
  <2>1. CASE i = N + 1
    <3>1. N + 2 .. N + 1 = {} /\ i + 1 = N + 2
      BY <1>1, <2>1
    <3> QED BY <1>4, <1>5, <2>1, <3>1 DEF Anchored
  <2>2. CASE i \in 1 .. N
    <3>1. /\ Anchored(t, k, i) /\ Anchored(p, k, i) /\ k[i].msg.to \in Addr /\ q[i] = k[i]
          /\ Len(k) = N
      BY <1>1, <1>5, <1>6, <1>8, <2>2, FrameTypes DEF Frames, N
    <3>2. SUFFICES ASSUME ~IsPrecompiled(k[i].msg.code), NEW j \in i + 1 .. N + 1
                   PROVE  Exists(RevertToSnapshot(t, q[j].snapshot), k[i].msg.to)
      BY <1>5, <3>1 DEF Anchored
    <3>3. CASE j = N + 1
      <4>1. Exists(p, k[i].msg.to)
        BY <3>1, <3>2 DEF Anchored
      <4> QED BY <1>4, <1>5, <1>10, <3>1, <3>3, <4>1, ExistsSame
    <3>4. CASE j # N + 1
      <4>1. j \in i + 1 .. N /\ j \in 1 .. N
        BY <1>1, <2>2, <3>4
      <4> QED BY <1>5, <3>1, <3>2, <4>1 DEF Anchored
    <3> QED BY <3>3, <3>4
  <2> QED BY <1>11, <2>1, <2>2
<1>15. Frames(t, q)
  BY <1>5, <1>12, <1>13, <1>14 DEF Frames
<1>16. \A i \in 1 .. N : /\ SavedWorld(t, q[i]) = SavedWorld(s, k[i])
                         /\ SameView(Saving(s, k[i]), Saving(t, q[i]))
  BY <1>5, <1>8
<1>17. SameView(p, Saving(t, q[N + 1])) /\ Saving(t, q[N + 1]).refund = p.refund
  <2>1. Saving(t, q[N + 1]) = RevertToSnapshot(t, n)
    BY <1>4, <1>5 DEF Saving
  <2>2. RevertToSnapshot(t, n).refund = n.refund
    BY <1>1, <1>9, RevertIs DEF Reverted
  <2>3. n.refund = p.refund
    BY DEF n, TakeSnapshot
  <2> QED BY <1>10, <2>1, <2>2, <2>3
<1> QED BY <1>5, <1>15, <1>16, <1>17 DEF q, f, n, N

\* The message in execution ends.
LEMMA FramePopped ==
  ASSUME NEW s, NEW k, Frames(s, k), k # <<>>
  PROVE  /\ Frames(s, Front(k))
         /\ Len(k) \in Nat \ {0} /\ Len(Front(k)) = Len(k) - 1
         /\ \A i \in 1 .. Len(k) - 1 : Front(k)[i] = k[i]
<1> DEFINE N == Len(k)
           q == Front(k)
<1>1. k \in Seq(FrameRecords) /\ N \in Nat \ {0}
  BY LenProperties DEF Frames
<1>2. /\ q \in Seq(FrameRecords) /\ Len(q) = N - 1
      /\ \A i \in 1 .. N - 1 : q[i] = k[i]
  BY <1>1, FrontIs
<1> HIDE DEF q
<1>3. 1 .. N - 1 \subseteq 1 .. N
  BY <1>1
<1>4. ASSUME NEW i \in 1 .. N - 1 PROVE Anchored(s, q, i)
  <2>1. i \in 1 .. N /\ i + 1 .. N - 1 \subseteq i + 1 .. N
        /\ i + 1 .. N - 1 \subseteq 1 .. N - 1
    BY <1>1
  <2>2. Anchored(s, k, i) /\ Len(k) = N /\ q[i] = k[i]
    BY <1>2, <2>1 DEF Frames
  <2>3. \A j \in i + 1 .. Len(q) : j \in i + 1 .. Len(k) /\ q[j] = k[j]
    BY <1>2, <2>1
  <2> HIDE DEF N
  <2> QED BY <2>2, <2>3 DEF Anchored
<1>5. Frames(s, q)
  BY <1>2, <1>3, <1>4 DEF Frames
<1> QED BY <1>1, <1>2, <1>5 DEF q

\* It fails: the outer frames lead back to the same worlds from what is left.
LEMMA FrameReverted ==
  ASSUME NEW s, Good(s), NEW k, Frames(s, k), k # <<>>, NEW w,
         w = RevertToSnapshot(s, k[Len(k)].snapshot)
  PROVE  /\ Good(w) /\ Frames(w, Front(k))
         /\ \A i \in 1 .. Len(k) - 1 : SavedWorld(w, Front(k)[i]) = SavedWorld(s, k[i])
         /\ World(w) = SavedWorld(s, k[Len(k)])
         /\ \A i \in 1 .. Len(k) - 1 : SameView(Saving(s, k[i]), Saving(w, Front(k)[i]))
<1> DEFINE N == Len(k)
           q == Front(k)
           n == k[N].snapshot
<1>1. /\ Frames(s, q) /\ N \in Nat \ {0} /\ Len(q) = N - 1
      /\ \A i \in 1 .. N - 1 : q[i] = k[i]
  BY FramePopped
<1> HIDE DEF q, N
<1>2. N \in 1 .. N /\ \A i \in 1 .. N - 1 : i \in 1 .. N /\ i <= N /\ N \in i + 1 .. N
  BY <1>1
<1>3. Snapshot(s, n)
  BY <1>2 DEF Frames, N
<1>4. Reverted(s, n, w)
  BY <1>3, RevertIs DEF N
<1>5. Good(w)
  BY <1>4 DEF Reverted
<1>6. ASSUME NEW i \in 1 .. N - 1
      PROVE  /\ Snapshot(w, k[i].snapshot)
             /\ SameView(RevertToSnapshot(w, k[i].snapshot), RevertToSnapshot(s, k[i].snapshot))
             /\ SavedWorld(w, k[i]) = SavedWorld(s, k[i])
  <2>1. /\ Snapshot(s, k[i].snapshot) /\ k[i].snapshot.journal <= n.journal
        /\ k[i].snapshot.logs <= n.logs
    BY <1>2 DEF Frames, N
  <2>2. w = RevertToSnapshot(s, n)
    BY DEF N
  <2> QED BY <1>3, <2>1, <2>2, RevertedSnapshot DEF SavedWorld
<1>7. ASSUME NEW i \in 1 .. N - 1 PROVE Anchored(w, q, i)
  <2>1. Anchored(s, k, i) /\ k[i].msg.to \in Addr /\ q[i] = k[i] /\ Len(k) = N
    BY <1>1, <1>2, FrameTypes DEF Frames, N
  <2>2. SUFFICES ASSUME ~IsPrecompiled(k[i].msg.code)
                 PROVE  /\ Exists(w, k[i].msg.to)
                        /\ \A j \in i + 1 .. N - 1 :
                             Exists(RevertToSnapshot(w, q[j].snapshot), k[i].msg.to)
    BY <1>1, <2>1 DEF Anchored
  <2>3. Exists(w, k[i].msg.to)
    BY <1>2, <2>1, <2>2 DEF Anchored
  <2>4. ASSUME NEW j \in i + 1 .. N - 1
        PROVE  Exists(RevertToSnapshot(w, q[j].snapshot), k[i].msg.to)
    <3>1. j \in 1 .. N - 1 /\ j \in i + 1 .. N
      BY <1>1
    <3>2. Exists(RevertToSnapshot(s, k[j].snapshot), k[i].msg.to)
      BY <2>1, <2>2, <3>1 DEF Anchored
    <3>3. SameView(RevertToSnapshot(s, k[j].snapshot), RevertToSnapshot(w, k[j].snapshot))
      BY <1>6, <3>1, SameViewSym
    <3> QED BY <1>1, <2>1, <3>1, <3>2, <3>3, ExistsSame
  <2> QED BY <2>3, <2>4
<1>8. Frames(w, q)
  <2>1. \A i \in 1 .. Len(q) : Snapshot(w, q[i].snapshot) /\ Anchored(w, q, i)
    BY <1>1, <1>6, <1>7
  <2> QED BY <1>1, <2>1 DEF Frames
<1>9. \A i \in 1 .. N - 1 : /\ SavedWorld(w, q[i]) = SavedWorld(s, k[i])
                            /\ SameView(Saving(s, k[i]), Saving(w, q[i]))
  BY <1>1, <1>6, SameViewSym DEF Saving
<1>10. World(w) = SavedWorld(s, k[N])
  BY DEF SavedWorld, N
<1> QED BY <1>5, <1>8, <1>9, <1>10 DEF q, N

\* SumFunction is the sum over the domain.
LEMMA SumFunctionIs ==
  ASSUME NEW S, IsFiniteSet(S), NEW g \in [S -> Int]
  PROVE  \E f \in [SUBSET S -> Int] : AddsUp(f, g, S) /\ SumFunction(g) = f[S]
<1> DEFINE iter == CHOOSE f : f = [s \in SUBSET S |->
                                     IF s = {} THEN 0
                                     ELSE LET x == CHOOSE y \in s : TRUE
                                          IN g[x] + f[s \ {x}]]
<1>1. PICK e \in [SUBSET S -> Int] : AddsUp(e, g, S)
  BY AddingUp
<1>2. iter = [s \in SUBSET S |->
                IF s = {} THEN 0 ELSE LET x == CHOOSE y \in s : TRUE IN g[x] + iter[s \ {x}]]
  BY <1>1 DEF AddsUp
<1>3. SumFunction(g) = iter[S]
  BY DEF SumFunction, SumFunctionOnSet, FoldFunctionOnSet, MapThenFoldSet
<1> HIDE DEF iter
<1>4. AddsUp(iter, g, S)
  BY <1>2 DEF AddsUp
<1>5. iter = e
  BY <1>1, <1>4, SumUnique
<1> QED BY <1>1, <1>3, <1>5

\* A sum of integers is an integer.
LEMMA SumInt ==
  ASSUME NEW S, IsFiniteSet(S), NEW g \in [S -> Int]
  PROVE  SumFunction(g) \in Int
<1>1. PICK e \in [SUBSET S -> Int] : AddsUp(e, g, S) /\ SumFunction(g) = e[S]
  BY SumFunctionIs
<1> QED BY <1>1

\* One value more or less.
LEMMA SumChanged ==
  ASSUME NEW S, IsFiniteSet(S), NEW g \in [S -> Int], NEW h \in [S -> Int],
         NEW a \in S, \A x \in S \ {a} : h[x] = g[x]
  PROVE  SumFunction(h) = SumFunction(g) + (h[a] - g[a])
<1>1. PICK e \in [SUBSET S -> Int] : AddsUp(e, g, S) /\ SumFunction(g) = e[S]
  BY SumFunctionIs
<1>2. PICK f \in [SUBSET S -> Int] : AddsUp(f, h, S) /\ SumFunction(h) = f[S]
  BY SumFunctionIs
<1> QED BY <1>1, <1>2, SumDiffers

\* No value more.
LEMMA SumLess ==
  ASSUME NEW S, IsFiniteSet(S), NEW g \in [S -> Int], NEW h \in [S -> Int],
         \A x \in S : h[x] <= g[x]
  PROVE  SumFunction(h) <= SumFunction(g)
<1>1. PICK e \in [SUBSET S -> Int] : AddsUp(e, g, S) /\ SumFunction(g) = e[S]
  BY SumFunctionIs
<1>2. PICK f \in [SUBSET S -> Int] : AddsUp(f, h, S) /\ SumFunction(h) = f[S]
  BY SumFunctionIs
<1> QED BY <1>1, <1>2, SumAtMost

-----------------------------------------------------------------------------
(* What all accounts hold together *)

\* The same balances have the same total.
LEMMA TotalSame ==
  ASSUME NEW s, NEW t, \A a \in Addr : Balance(t, a) = Balance(s, a)
  PROVE  TotalBalance(t) = TotalBalance(s)
<1>1. [a \in Addr |-> Balance(t, a)] = [a \in Addr |-> Balance(s, a)]
  OBVIOUS
<1> QED BY <1>1 DEF TotalBalance

\* All balances are numbers.
Counted(s) == \A a \in Addr : Balance(s, a) \in Int

\* The total balance is an integer.
LEMMA TotalInt == ASSUME NEW s, Counted(s) PROVE TotalBalance(s) \in Int
<1> DEFINE g == [a \in Addr |-> Balance(s, a)]
<1>1. g \in [Addr -> Int]
  BY DEF Counted
<1> HIDE DEF g
<1>2. SumFunction(g) \in Int
  BY <1>1, AddrAssumption, SumInt
<1> QED BY <1>2 DEF TotalBalance, g

\* One balance changes.
LEMMA TotalMoves ==
  ASSUME NEW s, Counted(s), NEW t, NEW a \in Addr, Balance(t, a) \in Int,
         \A x \in Addr \ {a} : Balance(t, x) = Balance(s, x)
  PROVE  TotalBalance(t) = TotalBalance(s) + (Balance(t, a) - Balance(s, a))
<1> DEFINE g == [x \in Addr |-> Balance(s, x)]
           h == [x \in Addr |-> Balance(t, x)]
<1>1. g \in [Addr -> Int] /\ h \in [Addr -> Int]
  BY DEF Counted
<1>2. /\ g[a] = Balance(s, a) /\ h[a] = Balance(t, a)
      /\ \A x \in Addr \ {a} : h[x] = g[x]
  OBVIOUS
<1>4. IsFiniteSet(Addr)
  BY AddrAssumption
<1> HIDE DEF g, h
<1>3. SumFunction(h) = SumFunction(g) + (h[a] - g[a])
  BY <1>1, <1>2, <1>4, SumChanged, Zenon
<1> QED BY <1>2, <1>3 DEF TotalBalance, g, h

\* No balance grows.
LEMMA TotalLess ==
  ASSUME NEW s, Counted(s), NEW t, Counted(t),
         \A a \in Addr : Balance(t, a) <= Balance(s, a)
  PROVE  TotalBalance(t) <= TotalBalance(s)
<1> DEFINE g == [x \in Addr |-> Balance(s, x)]
           h == [x \in Addr |-> Balance(t, x)]
<1>1. g \in [Addr -> Int] /\ h \in [Addr -> Int] /\ \A x \in Addr : h[x] <= g[x]
  BY DEF Counted
<1> HIDE DEF g, h
<1>3. SumFunction(h) <= SumFunction(g)
  BY <1>1, AddrAssumption, SumLess
<1> QED BY <1>3 DEF TotalBalance, g, h

-----------------------------------------------------------------------------
(* The same of a given database, so that it can be said of the next state *)

ReadIn(d, a) == IF a \in DOMAIN d.accounts THEN d.accounts[a] ELSE None
AccountIn(d, s, a) ==
  IF a \in DOMAIN s.objects THEN s.objects[a].current ELSE ReadIn(d, a)
ExistsIn(d, s, a) == AccountIn(d, s, a) # None
StorageAtIn(d, s, a, k, original) ==
  LET t == IF a \in DOMAIN s.storage THEN s.storage[a] ELSE NewStorage
      initial == IF a \in DOMAIN s.objects THEN s.objects[a].initial ELSE ReadIn(d, a)
  IN IF ~ExistsIn(d, s, a) THEN 0
     ELSE IF ~original /\ k \in DOMAIN t.current THEN t.current[k]
     ELSE IF k \in DOMAIN t.committed THEN t.committed[k].original
     ELSE IF initial = None \/ s.incarnations[a] > 0 THEN 0
     ELSE d.storage[<<a, k>>]
WorldIn(d, s) ==
  [accounts |-> [a \in Addr |-> AccountIn(d, s, a)],
   storage  |-> [p \in Addr \X Slot |-> StorageAtIn(d, s, p[1], p[2], FALSE)],
   original |-> [p \in Addr \X Slot |-> StorageAtIn(d, s, p[1], p[2], TRUE)],
   incarnations |-> s.incarnations,
   substate |-> <<s.selfDestructs, s.logs, s.touched \ {RIPEMD_ADDRESS}, s.refund,
                  s.accessed, s.accessedKeys>>]
HeldIn(d, s) ==
  /\ d \in Databases /\ s \in States
  /\ \A a \in DOMAIN s.objects : s.objects[a].initial = ReadIn(d, a)
DeltaSoundIn(d, s, i) ==
  LET j == s.journal
      e == s.journal[i]
  IN /\ e.op = "Update" => e.prev.initial = ReadIn(d, e.addr)
     /\ e.op = "Incarnation" /\ i < Len(j) =>
          j[i + 1].op \in {"StorageWipe", "StorageCreate"} /\ j[i + 1].addr = e.addr
     /\ e.op \in {"StorageWipe", "StorageCreate"} =>
          i > 1 /\ j[i - 1].op = "Incarnation" /\ j[i - 1].addr = e.addr
     /\ e.op = "UpdateBalance" =>
          /\ e.addr \in DOMAIN s.objects /\ s.objects[e.addr].current # None
          /\ \A n \in i + 1 .. Len(j) :
               j[n].addr = e.addr =>
                 /\ j[n].op # "Create"
                 /\ j[n].op = "Update" => j[n].prev.current # None
GoodIn(d, s) ==
  /\ HeldIn(d, s)
  /\ \A i \in 1 .. Len(s.journal) : DeltaSoundIn(d, s, i)
  /\ Settled(s)
FramesIn(d, s, k) ==
  /\ k \in Seq(FrameRecords)
  /\ \A i \in 1 .. Len(k) : Snapshot(s, k[i].snapshot)
  /\ \A i, j \in 1 .. Len(k) :
       i <= j => /\ k[i].snapshot.journal <= k[j].snapshot.journal
                 /\ k[i].snapshot.logs <= k[j].snapshot.logs
  /\ \A i \in 1 .. Len(k) :
       ~IsPrecompiled(k[i].msg.code) =>
         /\ ExistsIn(d, s, k[i].msg.to)
         /\ \A j \in i + 1 .. Len(k) :
              ExistsIn(d, RevertToSnapshot(s, k[j].snapshot), k[i].msg.to)

Held(s) == db \in Databases /\ s \in States /\ InitialsMatch(s)

\* With the database as it is they say what they said without.
LEMMA ReadSame == \A a : ReadAccount(a) = ReadIn(db, a)
BY DEF ReadAccount, ReadIn
\* An account with the database as it is.
LEMMA AccountSame == ASSUME NEW s, NEW a PROVE Account(s, a) = AccountIn(db, s, a)
BY DEF Account, AccountIn, ReadAccount, ReadIn
\* Existence with the database as it is.
LEMMA ExistsIs == ASSUME NEW s, NEW a PROVE Exists(s, a) = ExistsIn(db, s, a)
BY AccountSame DEF Exists, ExistsIn
\* Held with the database as it is.
LEMMA HeldSame == ASSUME NEW s PROVE Held(s) <=> HeldIn(db, s)
BY ReadSame DEF Held, HeldIn, InitialsMatch
\* DeltaSound with the database as it is.
LEMMA DeltaSame ==
  ASSUME NEW s, NEW i
  PROVE  DeltaSound(s, i) <=> DeltaSoundIn(db, s, i)
BY ReadSame DEF DeltaSound, DeltaSoundIn
\* Good with the database as it is.
LEMMA GoodSame == ASSUME NEW s PROVE Good(s) <=> GoodIn(db, s)
BY DeltaSame, HeldSame DEF Good, Sound, Held, GoodIn
\* Frames with the database as it is.
LEMMA FramesSame == ASSUME NEW s, NEW k PROVE Frames(s, k) <=> FramesIn(db, s, k)
BY ExistsIs DEF Frames, FramesIn, Anchored
\* A good state is held.
LEMMA GoodHeld == ASSUME NEW s, Good(s) PROVE Held(s) /\ s \in States
BY DEF Good, Sound, Held

-----------------------------------------------------------------------------
(* Balances and the refund *)

\* The slots that the transaction has cleared.
Lost(s) == {p \in Addr \X Slot : Original(s, p[1], p[2]) # 0 /\ Current(s, p[1], p[2]) = 0}
Due(s) == SstoreClearsRefund * Cardinality(Lost(s))

\* The refund pays for them, so that it can be taken back.
Refundable(s) == s.refund >= 0 /\ (Eip1283 => s.refund >= Due(s))
Rich(s) == \A a \in Addr : Balance(s, a) >= 0
Solvent(s) == Rich(s) /\ Refundable(s)

\* All accounts together hold no more than M.
Kept(M, s) == Solvent(s) /\ TotalBalance(s) <= M
Pays(s, t) == \A M \in Int : Kept(M, s) => Kept(M, t)

\* No ether moves, and no slot is cleared without a refund.
Calm(s, t) ==
  /\ \A a \in Addr : Balance(t, a) = Balance(s, a)
  /\ Refundable(s) => Refundable(t)

\* Between transactions there is no refund.
Within(M, s) == Rich(s) /\ TotalBalance(s) <= M

\* The refund for clearing a slot is a number.
LEMMA ClearsRefundIs == SstoreClearsRefund \in {4800, 15000}
BY FeeAssumption DEF SstoreClearsRefund, SstoreResetGas, R_SCLEAR, London, Berlin

\* Finitely many slots are cleared.
LEMMA LostFinite ==
  ASSUME NEW s
  PROVE  /\ IsFiniteSet(Lost(s)) /\ Cardinality(Lost(s)) \in Nat /\ Due(s) \in Nat
<1>1. Lost(s) \in SUBSET (Addr \X Slot)
  BY DEF Lost
<1>2. IsFiniteSet(Addr \X Slot)
  BY AddrAssumption, ValueAssumption, FS_Product
<1>3. IsFiniteSet(Lost(s)) /\ Cardinality(Lost(s)) \in Nat
  BY <1>1, <1>2, FS_Subset, FS_CardinalityType
<1>4. Due(s) \in Nat
  <2> DEFINE n == Cardinality(Lost(s))
             c == SstoreClearsRefund
  <2>1. n \in Nat /\ (c = 4800 \/ c = 15000) /\ Due(s) = c * n
    BY <1>3, ClearsRefundIs DEF Due
  <2> HIDE DEF n, c
  <2> QED BY <2>1
<1> QED BY <1>3, <1>4

\* What is due when one more slot may have been cleared.
LEMMA DueMore ==
  ASSUME NEW s, NEW t, NEW p, Lost(t) \subseteq Lost(s) \cup {p}
  PROVE  /\ Due(t) <= Due(s) + SstoreClearsRefund
         /\ p \in Lost(s) => Due(t) <= Due(s)
         /\ Lost(t) \subseteq Lost(s) => Due(t) <= Due(s)
         /\ p \in Lost(s) /\ p \notin Lost(t) => Due(t) <= Due(s) - SstoreClearsRefund
<1> DEFINE c == SstoreClearsRefund
           m == Cardinality(Lost(s))
           n == Cardinality(Lost(t))
<1>1. /\ IsFiniteSet(Lost(s)) /\ m \in Nat /\ n \in Nat
      /\ c = 4800 \/ c = 15000
      /\ Due(s) = c * m /\ Due(t) = c * n
  BY LostFinite, ClearsRefundIs DEF Due
<1>2. n <= m + 1
  <2>1. /\ IsFiniteSet(Lost(s) \cup {p})
        /\ Cardinality(Lost(s) \cup {p}) = IF p \in Lost(s) THEN m ELSE m + 1
    BY <1>1, FS_AddElement
  <2>2. n <= Cardinality(Lost(s) \cup {p})
    BY <2>1, FS_Subset
  <2> HIDE DEF m, n
  <2> QED BY <1>1, <2>1, <2>2
<1>3. Lost(t) \subseteq Lost(s) => n <= m
  BY <1>1, FS_Subset
<1>4. p \in Lost(s) => Lost(t) \subseteq Lost(s)
  OBVIOUS
<1>5. ASSUME p \in Lost(s), p \notin Lost(t) PROVE n <= m - 1
  <2>1. /\ IsFiniteSet(Lost(s) \ {p}) /\ Cardinality(Lost(s) \ {p}) = m - 1
    BY <1>1, <1>5, FS_RemoveElement
  <2>2. Lost(t) \subseteq Lost(s) \ {p}
    BY <1>5
  <2>3. n <= Cardinality(Lost(s) \ {p})
    BY <2>1, <2>2, FS_Subset
  <2> QED BY <2>1, <2>3
<1> HIDE DEF c, m, n
<1>6. /\ n <= m + 1 => c * n <= c * m + c
      /\ n <= m => c * n <= c * m
      /\ n <= m - 1 => c * n <= c * m - c
  BY <1>1
<1> QED BY <1>1, <1>2, <1>3, <1>4, <1>5, <1>6 DEF c

\* A larger refund covers fewer cleared slots.
LEMMA RefundableLess ==
  ASSUME NEW s, Good(s), NEW t, t.refund = s.refund, Lost(t) \subseteq Lost(s), Refundable(s)
  PROVE  Refundable(t)
<1>1. Due(t) <= Due(s) /\ Due(t) \in Nat /\ Due(s) \in Nat
  BY DueMore, LostFinite
<1>2. s.refund \in Int
  BY GoodHeld, StateTypes
<1> QED BY <1>1, <1>2 DEF Refundable

\* The balance of an account that is there.
LEMMA BalanceOf ==
  ASSUME NEW s, NEW t, NEW a, Account(t, a) = Account(s, a)
  PROVE  Balance(t, a) = Balance(s, a)
BY DEF Balance, Exists

\* Calm steps follow each other.
LEMMA CalmTrans ==
  ASSUME NEW s, NEW t, NEW u, Calm(s, t), Calm(t, u)
  PROVE  Calm(s, u)
BY DEF Calm

\* Nothing changed.
LEMMA CalmRefl == ASSUME NEW s PROVE Calm(s, s)
BY DEF Calm

\* Where no ether moves, none appears.
LEMMA CalmPays == ASSUME NEW s, NEW t, Calm(s, t) PROVE Pays(s, t)
<1>1. TotalBalance(t) = TotalBalance(s)
  BY TotalSame DEF Calm
<1> QED BY <1>1 DEF Calm, Pays, Kept, Solvent, Rich

\* Steps that make no ether follow each other.
LEMMA PaysTrans ==
  ASSUME NEW s, NEW t, NEW u, Pays(s, t), Pays(t, u)
  PROVE  Pays(s, u)
BY DEF Pays

\* States that show the same, with the same refund, pay the same.
LEMMA ViewCalm ==
  ASSUME NEW s, Good(s), NEW t, SameView(s, t), t.refund = s.refund
  PROVE  Calm(s, t)
<1>1. \A a \in Addr : Balance(t, a) = Balance(s, a)
  BY BalanceOf DEF SameView
<1>2. Lost(t) = Lost(s)
  BY DEF SameView, Lost
<1> QED BY <1>1, <1>2, RefundableLess DEF Calm

\* With the same data no ether has moved.
LEMMA DataCalm ==
  ASSUME NEW s, Good(s), NEW t, Good(t), SameData(s, t), t.refund = s.refund
  PROVE  Calm(s, t)
<1>1. /\ \A a : Account(t, a) = Account(s, a)
      /\ \A a, k : Original(t, a, k) = Original(s, a, k)
      /\ \A a, k : Current(t, a, k) = Current(s, a, k)
  BY SameDataView DEF Good
<1>2. \A a \in Addr : Balance(t, a) = Balance(s, a)
  BY <1>1, BalanceOf
<1>3. Lost(t) = Lost(s)
  BY <1>1 DEF Lost
<1> QED BY <1>2, <1>3, RefundableLess DEF Calm

\* A change that leaves the storage alone leaves the refund covered.
LEMMA ChangedRefundable ==
  ASSUME NEW s, Good(s), NEW t, NEW A, Changed(s, t, A)
  PROVE  Refundable(s) => Refundable(t)
<1>1. Lost(t) = Lost(s)
  BY DEF Changed, StorageKept, Lost
<1> QED BY <1>1, RefundableLess DEF Changed

\* So it is calm, unless it changes a balance.
LEMMA ChangedCalm ==
  ASSUME NEW s, Good(s), NEW t, Changed(s, t, {})
  PROVE  Calm(s, t)
<1>1. \A a \in Addr : Balance(t, a) = Balance(s, a)
  BY BalanceOf DEF Changed
<1> QED BY <1>1, ChangedRefundable DEF Calm

\* The balances of a good state are integers.
LEMMA GoodCounted == ASSUME NEW s, Good(s) PROVE Counted(s)
BY BalanceType DEF Good, Counted

\* An account is replaced.
LEMMA AccountPays ==
  ASSUME NEW s, Good(s), NEW a \in Addr, NEW c, c # None, NEW t, AccountSet(s, a, c, t)
  PROVE  /\ Balance(t, a) = c.balance
         /\ \A x \in Addr \ {a} : Balance(t, x) = Balance(s, x)
         /\ Refundable(s) => Refundable(t)
         /\ c.balance = Balance(s, a) => Calm(s, t)
<1>1. Balance(t, a) = c.balance
  BY DEF AccountSet, Balance, Exists
<1>2. \A x \in Addr \ {a} : Balance(t, x) = Balance(s, x)
  BY BalanceOf DEF AccountSet, Changed
<1>3. Refundable(s) => Refundable(t)
  BY ChangedRefundable DEF AccountSet
<1>4. c.balance = Balance(s, a) => Calm(s, t)
  BY <1>1, <1>2, <1>3 DEF Calm
<1> QED BY <1>1, <1>2, <1>3, <1>4

\* What ensure_object makes has the balance that there was.
LEMMA OrNewBalance ==
  ASSUME NEW s, Good(s), NEW a \in Addr
  PROVE  /\ OrNew(s, a) \in Accounts /\ OrNew(s, a).balance = Balance(s, a)
         /\ \A v \in Int : /\ [OrNew(s, a) EXCEPT !.balance = v] \in Accounts
                           /\ [OrNew(s, a) EXCEPT !.balance = v].balance = v
         /\ \A n \in Nat : /\ [OrNew(s, a) EXCEPT !.nonce = n] \in Accounts
                           /\ [OrNew(s, a) EXCEPT !.nonce = n].balance = Balance(s, a)
         /\ \A h \in Code : /\ [OrNew(s, a) EXCEPT !.code = h] \in Accounts
                            /\ [OrNew(s, a) EXCEPT !.code = h].balance = Balance(s, a)
<1> DEFINE o == OrNew(s, a)
<1>1. o \in Accounts
  BY OrNewType DEF Good
<1>2. o.balance = Balance(s, a)
  BY DEF OrNew, Balance, NewAccount
<1> HIDE DEF o
<1> QED BY <1>1, <1>2 DEF Accounts, o

\* An account is never None.
LEMMA AccountNotNone == \A c \in Accounts : c # None
BY NoneAssumption

-----------------------------------------------------------------------------
(* What the operations of the state do, for a message that runs *)

\* What a message does leaves a good state.
LEMMA RunsGood == ASSUME NEW s, NEW t, Runs(s, t) PROVE Good(t)
BY DEF Runs

\* A good state is a state.
LEMMA GoodStates == ASSUME NEW s, Good(s) PROVE s \in States
BY DEF Good, Sound

\* get_object.
LEMMA GetObjectRuns == ASSUME NEW s, Good(s), NEW a \in Addr PROVE Runs(s, GetObject(s, a))
BY GetObjectDoes, ChangedRuns DEF GetObjectOk

\* get_storage, which caches the slot.
LEMMA GetStorageRuns ==
  ASSUME NEW s, Good(s), NEW a \in Addr, NEW k \in Slot, NEW original \in BOOLEAN
  PROVE  Runs(s, GetStorage(s, a, k, original))
BY GetStorageDoes, ChangedRuns DEF CacheOk

\* touch.
LEMMA TouchRuns == ASSUME NEW s, Good(s), NEW a \in Addr PROVE Runs(s, Touch(s, a))
BY TouchDoes, ChangedRuns DEF SubstateOnly

\* access_account.
LEMMA AccessAccountRuns ==
  ASSUME NEW s, Good(s), NEW a \in Addr
  PROVE  Runs(s, AccessAccount(s, a))
BY AccessAccountDoes, ChangedRuns DEF SubstateOnly

\* access_storage.
LEMMA AccessStorageRuns ==
  ASSUME NEW s, Good(s), NEW a \in Addr, NEW k \in Slot
  PROVE  Runs(s, AccessStorage(s, a, k))
BY AccessStorageDoes, ChangedRuns DEF SubstateOnly

\* set_balance.
LEMMA SetBalanceRuns ==
  ASSUME NEW s, Good(s), NEW a \in Addr, NEW v \in Int
  PROVE  Runs(s, SetBalance(s, a, v))
BY SetBalanceDoes, ChangedRuns DEF SetBalanceOk, AccountSet

\* add_to_balance.
LEMMA AddRuns ==
  ASSUME NEW s, Good(s), NEW a \in Addr, NEW n \in Int
  PROVE  Runs(s, AddToBalance(s, a, n))
BY AddToBalanceDoes, ChangedRuns DEF SetBalanceOk, AccountSet

\* subtract_from_balance.
LEMMA SubtractRuns ==
  ASSUME NEW s, Good(s), NEW a \in Addr, NEW n \in Int
  PROVE  Runs(s, SubtractFromBalance(s, a, n))
BY SubtractFromBalanceDoes, ChangedRuns DEF SetBalanceOk, AccountSet

\* set_nonce.
LEMMA SetNonceRuns ==
  ASSUME NEW s, Good(s), NEW a \in Addr, NEW n \in Nat
  PROVE  Runs(s, SetNonce(s, a, n))
BY SetNonceDoes, ChangedRuns DEF SetNonceOk, AccountSet

\* set_code.
LEMMA SetCodeRuns ==
  ASSUME NEW s, Good(s), NEW a \in Addr, NEW code \in Code
  PROVE  Runs(s, SetCode(s, a, code))
BY SetCodeDoes, ChangedRuns DEF SetCodeOk, AccountSet

\* create_contract, after which the account exists.
LEMMA CreateContractRuns ==
  ASSUME NEW s, Good(s), NEW a \in Addr
  PROVE  Runs(s, CreateContract(s, a)) /\ Exists(CreateContract(s, a), a)
<1>1. ContractMade(s, a, CreateContract(s, a))
  BY CreateContractDoes
<1>2. Balance(s, a) \in Int
  BY BalanceType DEF Good
<1>3. [NewAccount EXCEPT !.balance = Balance(s, a)] \in Accounts
  BY <1>2, NewAccountType DEF Accounts
<1>4. Exists(CreateContract(s, a), a)
  BY <1>1, <1>3, NoneAssumption DEF ContractMade, Exists
<1> QED BY <1>1, <1>4, ContractRuns, GoodStates

\* record_selfdestruct.
LEMMA SelfdestructRuns ==
  ASSUME NEW s, Good(s), NEW a \in Addr
  PROVE  Runs(s, RecordSelfdestruct(s, a))
BY RecordSelfdestructDoes, DataRuns DEF SelfdestructOk

\* add_refund and subtract_refund.
LEMMA RefundRuns ==
  ASSUME NEW s, Good(s), NEW r \in Int, NEW t, t = [s EXCEPT !.refund = r]
  PROVE  Runs(s, t)
<1>1. AsideOnly(s, t) /\ Ext(s, t)
  BY RefundDoes
<1> QED BY <1>1, AsideView, DataRuns DEF AsideOnly

\* add_log.
LEMMA LogRuns ==
  ASSUME NEW s, Good(s), NEW a \in Addr, NEW t, t = [s EXCEPT !.logs = Append(@, a)]
  PROVE  Runs(s, t)
<1>1. AsideOnly(s, t) /\ Ext(s, t)
  BY LogDoes
<1> QED BY <1>1, AsideView, DataRuns DEF AsideOnly

-----------------------------------------------------------------------------
(* And what they do to balances and the refund *)

\* get_object moves no ether.
LEMMA GetObjectCalm ==
  ASSUME NEW s, Good(s), NEW a \in Addr
  PROVE  Calm(s, GetObject(s, a))
BY GetObjectDoes, ChangedCalm DEF GetObjectOk

\* Reading a slot moves no ether.
LEMMA GetStorageCalm ==
  ASSUME NEW s, Good(s), NEW a \in Addr, NEW k \in Slot, NEW original \in BOOLEAN
  PROVE  Calm(s, GetStorage(s, a, k, original))
BY GetStorageDoes, ChangedCalm DEF CacheOk

\* An addition to the substate moves no ether.
LEMMA SubstateCalm ==
  ASSUME NEW s, Good(s), NEW t, NEW A, SubstateOnly(s, t, A)
  PROVE  Calm(s, t)
BY DataCalm DEF SubstateOnly, Changed

\* touch moves no ether.
LEMMA TouchCalm == ASSUME NEW s, Good(s), NEW a \in Addr PROVE Calm(s, Touch(s, a))
BY TouchDoes, SubstateCalm

\* access_account moves no ether.
LEMMA AccessAccountCalm ==
  ASSUME NEW s, Good(s), NEW a \in Addr
  PROVE  Calm(s, AccessAccount(s, a))
BY AccessAccountDoes, SubstateCalm

\* access_storage moves no ether.
LEMMA AccessStorageCalm ==
  ASSUME NEW s, Good(s), NEW a \in Addr, NEW k \in Slot
  PROVE  Calm(s, AccessStorage(s, a, k))
BY AccessStorageDoes, SubstateCalm

\* record_selfdestruct itself moves no ether.
LEMMA SelfdestructCalm ==
  ASSUME NEW s, Good(s), NEW a \in Addr
  PROVE  Calm(s, RecordSelfdestruct(s, a))
BY RecordSelfdestructDoes, DataCalm DEF SelfdestructOk

\* add_log moves no ether.
LEMMA LogCalm ==
  ASSUME NEW s, Good(s), NEW a \in Addr, NEW t, t = [s EXCEPT !.logs = Append(@, a)]
  PROVE  Calm(s, t)
<1>1. AsideOnly(s, t) /\ t.refund = s.refund
  BY LogDoes
<1>2. SameView(s, t)
  BY <1>1, AsideView
<1> QED BY <1>1, <1>2, ViewCalm

\* The balance of a is v, no other has changed, and what was due still is.
BalanceSet(s, a, v, t) ==
  /\ Good(t) /\ Balance(t, a) = v
  /\ \A x \in Addr \ {a} : Balance(t, x) = Balance(s, x)
  /\ TotalBalance(t) = TotalBalance(s) + (v - Balance(s, a))
  /\ Refundable(s) => Refundable(t)

\* set_balance changes one balance, and covers the refund as before.
LEMMA BalanceSetIs ==
  ASSUME NEW s, Good(s), NEW a \in Addr, NEW v \in Int, NEW t, SetBalanceOk(s, a, v, t)
  PROVE  BalanceSet(s, a, v, t)
<1> DEFINE c == [OrNew(s, a) EXCEPT !.balance = v]
<1>1. AccountSet(s, a, c, t)
  BY DEF SetBalanceOk
<1>2. c \in Accounts /\ c.balance = v
  BY OrNewBalance
<1> HIDE DEF c
<1>3. /\ Balance(t, a) = v /\ \A x \in Addr \ {a} : Balance(t, x) = Balance(s, x)
      /\ Refundable(s) => Refundable(t)
  BY <1>1, <1>2, AccountNotNone, AccountPays
<1>4. Good(t)
  BY <1>1 DEF AccountSet, Changed
<1>5. TotalBalance(t) = TotalBalance(s) + (v - Balance(s, a))
  BY <1>3, GoodCounted, TotalMoves
<1> QED BY <1>3, <1>4, <1>5 DEF BalanceSet

\* The bound moves with that balance.
LEMMA BalanceSetKept ==
  ASSUME NEW s, Good(s), NEW a \in Addr, NEW v \in Int, NEW t, BalanceSet(s, a, v, t),
         v >= 0, NEW M \in Int, Kept(M, s)
  PROVE  Kept(M + (v - Balance(s, a)), t)
<1>1. Rich(t) /\ Refundable(t)
  BY DEF BalanceSet, Kept, Solvent, Rich
<1>2. TotalBalance(s) \in Int /\ Balance(s, a) \in Int
  BY GoodCounted, TotalInt DEF Counted
<1>3. TotalBalance(t) <= M + (v - Balance(s, a))
  BY <1>2 DEF BalanceSet, Kept
<1> QED BY <1>1, <1>3 DEF Kept, Solvent

\* What is within a bound is within a larger one.
LEMMA KeptMore ==
  ASSUME NEW s, Good(s), NEW M \in Int, NEW N \in Int, Kept(M, s), M <= N
  PROVE  Kept(N, s)
<1>1. TotalBalance(s) \in Int
  BY GoodCounted, TotalInt
<1> QED BY <1>1 DEF Kept

\* add_to_balance raises the bound by what it adds.
LEMMA AddKept ==
  ASSUME NEW s, Good(s), NEW a \in Addr, NEW n \in Nat, NEW M \in Int, Kept(M, s)
  PROVE  Good(AddToBalance(s, a, n)) /\ Kept(M + n, AddToBalance(s, a, n))
<1> DEFINE v == Balance(s, a) + n
           t == AddToBalance(s, a, n)
<1>1. Balance(s, a) \in Int /\ Balance(s, a) >= 0
  BY BalanceType DEF Good, Kept, Solvent, Rich
<1>2. v \in Int /\ v >= 0 /\ M + (v - Balance(s, a)) = M + n
  BY <1>1
<1>3. SetBalanceOk(s, a, v, t)
  BY AddToBalanceDoes
<1> HIDE DEF v, t
<1>4. BalanceSet(s, a, v, t)
  BY <1>2, <1>3, BalanceSetIs
<1>5. Good(t) /\ Kept(M + (v - Balance(s, a)), t)
  BY <1>2, <1>4, BalanceSetKept DEF BalanceSet
<1> QED BY <1>2, <1>5 DEF t

\* subtract_from_balance lowers it, when there is enough.
LEMMA SubtractKept ==
  ASSUME NEW s, Good(s), NEW a \in Addr, NEW n \in Int, n <= Balance(s, a),
         NEW M \in Int, Kept(M, s)
  PROVE  /\ Good(SubtractFromBalance(s, a, n))
         /\ Kept(M - n, SubtractFromBalance(s, a, n))
<1> DEFINE v == Balance(s, a) - n
           t == SubtractFromBalance(s, a, n)
<1>1. Balance(s, a) \in Int
  BY BalanceType DEF Good
<1>2. v \in Int /\ v >= 0 /\ M + (v - Balance(s, a)) = M - n
  BY <1>1
<1>3. SetBalanceOk(s, a, v, t)
  BY SubtractFromBalanceDoes
<1> HIDE DEF v, t
<1>4. BalanceSet(s, a, v, t)
  BY <1>2, <1>3, BalanceSetIs
<1>5. Good(t) /\ Kept(M + (v - Balance(s, a)), t)
  BY <1>2, <1>4, BalanceSetKept DEF BalanceSet
<1> QED BY <1>2, <1>5 DEF t

\* What one account pays the other receives.
LEMMA TransferPays ==
  ASSUME NEW s, Good(s), NEW a \in Addr, NEW b \in Addr, NEW n \in Nat, n <= Balance(s, a)
  PROVE  Pays(s, AddToBalance(SubtractFromBalance(s, a, n), b, n))
<1> DEFINE t == SubtractFromBalance(s, a, n)
           u == AddToBalance(t, b, n)
<1>1. SUFFICES ASSUME NEW M \in Int, Kept(M, s) PROVE Kept(M, u)
  BY DEF Pays
<1>2. Good(t) /\ Kept(M - n, t) /\ M - n \in Int
  BY <1>1, SubtractKept
<1> HIDE DEF t
<1>3. Kept((M - n) + n, u) /\ (M - n) + n = M
  BY <1>2, AddKept
<1> QED BY <1>3

\* set_nonce moves no ether.
LEMMA SetNonceCalm ==
  ASSUME NEW s, Good(s), NEW a \in Addr, NEW n \in Nat
  PROVE  Calm(s, SetNonce(s, a, n))
<1> DEFINE c == [OrNew(s, a) EXCEPT !.nonce = n]
<1>1. AccountSet(s, a, c, SetNonce(s, a, n))
  BY SetNonceDoes DEF SetNonceOk
<1>2. c \in Accounts /\ c.balance = Balance(s, a)
  BY OrNewBalance
<1> HIDE DEF c
<1> QED BY <1>1, <1>2, AccountNotNone, AccountPays

\* set_code moves no ether.
LEMMA SetCodeCalm ==
  ASSUME NEW s, Good(s), NEW a \in Addr, NEW code \in Code
  PROVE  Calm(s, SetCode(s, a, code))
<1> DEFINE c == [OrNew(s, a) EXCEPT !.code = code]
<1>1. AccountSet(s, a, c, SetCode(s, a, code))
  BY SetCodeDoes DEF SetCodeOk
<1>2. c \in Accounts /\ c.balance = Balance(s, a)
  BY OrNewBalance
<1> HIDE DEF c
<1> QED BY <1>1, <1>2, AccountNotNone, AccountPays

\* create_contract keeps the balance, and clears only what no one is due for.
LEMMA CreateContractCalm ==
  ASSUME NEW s, Good(s), NEW a \in Addr
  PROVE  Calm(s, CreateContract(s, a))
<1> DEFINE t == CreateContract(s, a)
           c == [NewAccount EXCEPT !.balance = Balance(s, a)]
<1>1. ContractMade(s, a, t)
  BY CreateContractDoes
<1> HIDE DEF t
<1>2. Balance(s, a) \in Int
  BY BalanceType DEF Good
<1>3. c \in Accounts /\ c.balance = Balance(s, a) /\ c # None
  BY <1>2, NewAccountType, AccountNotNone DEF Accounts
<1>4. Account(t, a) = c /\ t.refund = s.refund
  BY <1>1 DEF ContractMade
<1> HIDE DEF c
<1>5. Balance(t, a) = Balance(s, a)
  BY <1>3, <1>4 DEF Balance, Exists
<1>6. \A x \in Addr \ {a} : Balance(t, x) = Balance(s, x)
  BY <1>1, BalanceOf DEF ContractMade
<1>7. \A k \in Slot : Original(t, a, k) = Current(t, a, k)
  BY <1>1 DEF ContractMade
<1>8. \A x \in Addr \ {a}, k \in Slot : /\ Original(t, x, k) = Original(s, x, k)
                                          /\ Current(t, x, k) = Current(s, x, k)
  BY <1>1 DEF ContractMade
<1>9. Lost(t) \subseteq Lost(s)
  BY <1>7, <1>8 DEF Lost
<1>10. Refundable(s) => Refundable(t)
  BY <1>4, <1>9, RefundableLess
<1> QED BY <1>5, <1>6, <1>10 DEF Calm, t

-----------------------------------------------------------------------------
(* What the interpreter asks the host for *)

\* The refund of SSTORE is a number, positive or negative.
LEMMA SstoreRefundType ==
  ASSUME NEW x \in Nat, NEW y \in Nat, NEW z \in Nat
  PROVE  SstoreRefund(x, y, z) \in Int
BY DEF SstoreRefund, SstoreClearsRefund, SstoreResetGas, SloadCost, G_SSET, R_SCLEAR

\* The value of a slot is a number.
LEMMA StorageAtType ==
  ASSUME NEW s, Good(s), NEW a \in Addr, NEW k \in Slot, NEW original \in BOOLEAN
  PROVE  StorageAt(s, a, k, original) \in Nat
BY StorageIs, SlotTypes DEF Good, Sound

\* A store, when the account is there.
LEMMA HostSetStorageRuns ==
  ASSUME Good(ibs), Frame.to \in Addr, Exists(ibs, Frame.to),
         NEW k \in Slot, NEW v \in Value, HostSetStorage(k, v)
  PROVE  Runs(ibs, ibs')
<1> DEFINE a == Frame.to
           current == StorageAt(ibs, a, k, FALSE)
           r == GetStorage(ibs, a, k, FALSE)
           s == SetStorage(r, a, k, v)
           t == IF Eip1283 THEN GetStorage(s, a, k, TRUE) ELSE s
           x == SstoreRefund(StorageAt(s, a, k, TRUE), current, v)
           n == t.refund + x
<1>1. a \in Addr /\ Exists(ibs, a) /\ v \in Nat
  BY ValueAssumption
<1>2. ibs' = IF v = current THEN r ELSE [t EXCEPT !.refund = n]
  BY DEF HostSetStorage
<1> HIDE DEF a
<1>3. Runs(ibs, r) /\ Good(r)
  BY <1>1, GetStorageRuns, RunsGood
<1>4. Exists(r, a)
  BY <1>1, <1>3, ExistsStays
<1> HIDE DEF r
<1>5. Runs(r, s) /\ Good(s)
  BY <1>1, <1>3, <1>4, SetStorageDoes, SlotRuns, RunsGood
<1> HIDE DEF s
<1>6. Runs(s, t) /\ Good(t)
  BY <1>1, <1>5, GetStorageRuns, RunsRefl, RunsGood
<1>7. n \in Int
  <2>1. StorageAt(s, a, k, TRUE) \in Nat /\ current \in Nat
    BY <1>1, <1>5, StorageAtType
  <2>2. t.refund \in Int
    BY <1>6, GoodHeld, StateTypes
  <2>3. v \in Nat
    BY <1>1
  <2> HIDE DEF t
  <2>4. x \in Int
    BY <2>1, <2>3, SstoreRefundType
  <2> HIDE DEF x
  <2> QED BY <2>2, <2>4
<1> HIDE DEF t, n
<1>8. Runs(t, [t EXCEPT !.refund = n])
  BY <1>6, <1>7, RefundRuns
<1>9. Runs(ibs, t)
  BY <1>3, <1>5, <1>6, RunsTrans
<1>10. Runs(ibs, [t EXCEPT !.refund = n])
  BY <1>8, <1>9, RunsTrans
<1> QED BY <1>2, <1>3, <1>10

\* SELFDESTRUCT moves the balance and records the address.
LEMMA HostSelfdestructRuns ==
  ASSUME Good(ibs), Frame.to \in Addr, NEW a \in Addr, HostSelfdestruct(a)
  PROVE  Runs(ibs, ibs')
<1> DEFINE b == Frame.to
           r == RecordSelfdestruct(ibs, b)
           s == GetObject(r, b)
           t == AddToBalance(s, a, Balance(s, b))
<1>1. b \in Addr /\ ibs' = SetBalance(t, b, 0)
  BY DEF HostSelfdestruct
<1> HIDE DEF b
<1>2. Runs(ibs, r) /\ Good(r)
  BY <1>1, SelfdestructRuns, RunsGood
<1> HIDE DEF r
<1>3. Runs(r, s) /\ Good(s)
  BY <1>1, <1>2, GetObjectRuns, RunsGood
<1> HIDE DEF s
<1>4. Runs(s, t) /\ Good(t)
  <2>1. Balance(s, b) \in Int
    BY <1>1, <1>3, BalanceType DEF Good
  <2> QED BY <1>3, <2>1, AddRuns, RunsGood
<1> HIDE DEF t
<1>5. Runs(t, ibs')
  BY <1>1, <1>4, SetBalanceRuns
<1> QED BY <1>2, <1>3, <1>4, <1>5, RunsTrans

\* SSTORE gives the refund for clearing a slot, and takes it back at most once.
LEMMA SstorePays ==
  ASSUME NEW x \in Nat, NEW y \in Nat, NEW z \in Nat, y # z
  PROVE  LET r == SstoreRefund(x, y, z)
             c == SstoreClearsRefund
         IN  IF ~Eip1283 THEN r >= 0
             ELSE IF x # 0 /\ y = 0 THEN r >= 0 - c
             ELSE IF x # 0 /\ z = 0 THEN r >= c
             ELSE r >= 0
<1>1. Revision \in Int /\ Revision >= 0
  BY FeeAssumption DEF Frontier, London
<1> QED BY <1>1 DEF SstoreRefund, SstoreClearsRefund, SstoreResetGas, SloadCost, G_SSET, R_SCLEAR,
                    Berlin, Istanbul, London

\* A store that clears a slot is paid for, and one that sets it again takes
\* back what has been given.
LEMMA HostSetStoragePays ==
  ASSUME Good(ibs), Frame.to \in Addr, Exists(ibs, Frame.to),
         NEW k \in Slot, NEW v \in Value, HostSetStorage(k, v)
  PROVE  Pays(ibs, ibs')
<1> DEFINE a == Frame.to
           current == StorageAt(ibs, a, k, FALSE)
           r == GetStorage(ibs, a, k, FALSE)
           s == SetStorage(r, a, k, v)
           t == IF Eip1283 THEN GetStorage(s, a, k, TRUE) ELSE s
           original == StorageAt(s, a, k, TRUE)
           x == SstoreRefund(original, current, v)
           n == t.refund + x
           u == [t EXCEPT !.refund = n]
           q == <<a, k>>
<1>1. a \in Addr /\ Exists(ibs, a) /\ v \in Nat /\ q \in Addr \X Slot
  BY ValueAssumption
<1>2. ibs' = IF v = current THEN r ELSE u
  BY DEF HostSetStorage
<1> HIDE DEF a
<1>3. Changed(ibs, r, {}) /\ Calm(ibs, r) /\ Good(r)
  <2>1. FALSE \in BOOLEAN
    OBVIOUS
  <2>2. CacheOk(ibs, r) /\ Calm(ibs, r)
    BY <1>1, <2>1, GetStorageDoes, GetStorageCalm, Zenon
  <2> QED BY <2>2 DEF CacheOk, Changed
<1>4. current = Current(ibs, a, k) /\ current \in Nat
  <2>1. Sound(ibs) /\ Settled(ibs) /\ InitialsMatch(ibs)
    BY DEF Good, Sound
  <2>2. StorageAt(ibs, a, k, FALSE) = Current(ibs, a, k)
    BY <1>1, <2>1, StorageIs
  <2> QED BY <1>1, <2>1, <2>2, SlotTypes
<1> HIDE DEF r
<1>5. Exists(r, a)
  BY <1>1, <1>3 DEF Changed, Exists
<1>6. SlotSet(r, a, k, v, s)
  BY <1>1, <1>3, <1>5, SetStorageDoes
<1> HIDE DEF s
<1>7. Good(s) /\ Exists(s, a)
  BY <1>1, <1>5, <1>6 DEF SlotSet, Exists
<1>8. original = Original(s, a, k) /\ original \in Nat
  <2>1. Sound(s) /\ Settled(s) /\ InitialsMatch(s)
    BY <1>7 DEF Good, Sound
  <2>2. StorageAt(s, a, k, TRUE) = Original(s, a, k)
    BY <1>1, <1>7, <2>1, StorageIs
  <2> QED BY <1>1, <2>1, <2>2, SlotTypes
<1>9. Changed(s, t, {}) \/ t = s
  BY <1>1, <1>7, GetStorageDoes DEF CacheOk
<1> HIDE DEF t, current, original
<1>10. /\ Good(t) /\ t.refund = ibs.refund
       /\ \A b \in Addr : Account(t, b) = Account(ibs, b)
       /\ \A b \in Addr, y \in Slot : Original(t, b, y) = Original(ibs, b, y)
       /\ \A b \in Addr, y \in Slot :
            Current(t, b, y) = IF b = a /\ y = k THEN v ELSE Current(ibs, b, y)
  <2>1. /\ s.refund = ibs.refund
        /\ \A b \in Addr : Account(s, b) = Account(ibs, b)
        /\ \A b \in Addr, y \in Slot : Original(s, b, y) = Original(ibs, b, y)
        /\ \A b \in Addr, y \in Slot :
             Current(s, b, y) = IF b = a /\ y = k THEN v ELSE Current(ibs, b, y)
    BY <1>3, <1>6 DEF Changed, StorageKept, SlotSet
  <2>2. CASE t = s
    BY <1>7, <2>1, <2>2
  <2>3. CASE Changed(s, t, {})
    BY <2>1, <2>3 DEF Changed, StorageKept
  <2> QED BY <1>9, <2>2, <2>3
<1>11. original = Original(ibs, a, k)
  BY <1>1, <1>3, <1>6, <1>8 DEF Changed, StorageKept, SlotSet
<1>12. x \in Int /\ ibs.refund \in Int
  BY <1>1, <1>4, <1>8, SstoreRefundType, GoodHeld, StateTypes
<1>13. CASE v = current
  BY <1>2, <1>3, <1>13, CalmPays
<1>14. CASE v # current
  <2>1. /\ IF ~Eip1283 THEN x >= 0
           ELSE IF original # 0 /\ current = 0 THEN x >= 0 - SstoreClearsRefund
           ELSE IF original # 0 /\ v = 0 THEN x >= SstoreClearsRefund
           ELSE x >= 0
    BY <1>1, <1>4, <1>8, <1>14, SstorePays
  <2> HIDE DEF x
  <2>2. n = ibs.refund + x /\ n \in Int
    BY <1>10, <1>12
  <2> HIDE DEF n
  <2>3. SameView(t, u) /\ u.refund = n
    BY <1>10, <2>2, RefundDoes, AsideView
  <2> HIDE DEF u
  <2>4. /\ \A b \in Addr : Balance(u, b) = Balance(ibs, b)
    BY <1>10, <2>3, BalanceOf DEF SameView
  <2>5. /\ \A b \in Addr, y \in Slot : Original(u, b, y) = Original(ibs, b, y)
        /\ \A b \in Addr, y \in Slot :
             Current(u, b, y) = IF b = a /\ y = k THEN v ELSE Current(ibs, b, y)
    BY <1>10, <2>3 DEF SameView
  <2>6. /\ Lost(u) \subseteq Lost(ibs) \cup {q}
        /\ q \in Lost(ibs) <=> original # 0 /\ current = 0
        /\ q \in Lost(u) <=> original # 0 /\ v = 0
    <3>1. \A p \in Addr \X Slot : p = <<p[1], p[2]>> /\ p[1] \in Addr /\ p[2] \in Slot
      OBVIOUS
    <3>2. q[1] = a /\ q[2] = k
      OBVIOUS
    <3>3. \A p \in Addr \X Slot : p # q => ~(p[1] = a /\ p[2] = k)
      BY <3>1
    <3> HIDE DEF q
    <3> QED BY <1>1, <1>4, <1>11, <2>5, <3>1, <3>2, <3>3 DEF Lost
  <2>7. q \notin Lost(u) => Lost(u) \subseteq Lost(ibs)
    BY <2>6
  <2> HIDE DEF q
  <2>8. /\ Due(u) <= Due(ibs) + SstoreClearsRefund
        /\ Lost(u) \subseteq Lost(ibs) => Due(u) <= Due(ibs)
        /\ q \in Lost(ibs) /\ q \notin Lost(u) => Due(u) <= Due(ibs) - SstoreClearsRefund
        /\ Due(u) \in Nat /\ Due(ibs) \in Nat
        /\ SstoreClearsRefund \in Nat
    BY <2>6, DueMore, LostFinite, ClearsRefundIs
  <2>9. ASSUME Refundable(ibs) PROVE Refundable(u)
    <3>1. ibs.refund >= 0 /\ (Eip1283 => ibs.refund >= Due(ibs))
      BY <2>9 DEF Refundable
    <3>2. CASE ~Eip1283
      BY <1>12, <2>1, <2>2, <2>3, <3>1, <3>2 DEF Refundable
    <3>3. CASE Eip1283
      <4>1. u.refund >= Due(u)
        <5>1. CASE original # 0 /\ current = 0
          <6>1. x >= 0 - SstoreClearsRefund /\ Due(u) <= Due(ibs) - SstoreClearsRefund
            BY <1>4, <1>14, <2>1, <2>6, <2>8, <3>3, <5>1
          <6> QED BY <1>12, <2>2, <2>3, <2>8, <3>1, <3>3, <6>1
        <5>2. CASE ~(original # 0 /\ current = 0) /\ original # 0 /\ v = 0
          <6>1. x >= SstoreClearsRefund
            BY <2>1, <3>3, <5>2
          <6> QED BY <1>12, <2>2, <2>3, <2>8, <3>1, <3>3, <6>1
        <5>3. CASE ~(original # 0 /\ current = 0) /\ ~(original # 0 /\ v = 0)
          <6>1. x >= 0 /\ Due(u) <= Due(ibs)
            BY <2>1, <2>6, <2>7, <2>8, <3>3, <5>3
          <6> QED BY <1>12, <2>2, <2>3, <2>8, <3>1, <3>3, <6>1
        <5> QED BY <5>1, <5>2, <5>3
      <4> QED BY <2>2, <2>3, <2>8, <4>1 DEF Refundable
    <3> QED BY <3>2, <3>3
  <2>10. Pays(ibs, u)
    BY <2>4, <2>9, CalmPays DEF Calm
  <2> QED BY <1>2, <1>14, <2>10
<1> QED BY <1>13, <1>14

\* SELFDESTRUCT pays out what there is, or burns it.
LEMMA HostSelfdestructPays ==
  ASSUME Good(ibs), Frame.to \in Addr, NEW a \in Addr, HostSelfdestruct(a)
  PROVE  Pays(ibs, ibs')
<1> DEFINE b == Frame.to
           r == RecordSelfdestruct(ibs, b)
           s == GetObject(r, b)
           v == Balance(s, b)
           t == AddToBalance(s, a, v)
<1>1. b \in Addr /\ ibs' = SetBalance(t, b, 0)
  BY DEF HostSelfdestruct
<1> HIDE DEF b
<1>2. Calm(ibs, r) /\ Good(r)
  BY <1>1, SelfdestructCalm, SelfdestructRuns, RunsGood
<1> HIDE DEF r
<1>3. Calm(r, s) /\ Good(s)
  BY <1>1, <1>2, GetObjectCalm, GetObjectRuns, RunsGood
<1> HIDE DEF s
<1>4. v \in Int
  BY <1>1, <1>3, BalanceType DEF Good
<1>5. Pays(ibs, s)
  BY <1>2, <1>3, CalmTrans, CalmPays
<1>6. ASSUME NEW M \in Int, Kept(M, s) PROVE Kept(M, ibs')
  <2>1. v \in Nat
    BY <1>1, <1>4, <1>6 DEF Kept, Solvent, Rich
  <2>2. Good(t) /\ Kept(M + v, t)
    BY <1>3, <1>6, <2>1, AddKept
  <2>3. Balance(t, b) \in Int /\ Balance(t, b) >= v
    <3>1. SetBalanceOk(s, a, Balance(s, a) + v, t) /\ Balance(s, a) + v \in Int
      BY <1>3, <2>1, AddToBalanceDoes, BalanceType DEF Good
    <3> HIDE DEF t
    <3>2. BalanceSet(s, a, Balance(s, a) + v, t)
      BY <1>3, <3>1, BalanceSetIs
    <3>3. Balance(t, b) \in Int
      BY <1>1, <2>2, GoodCounted DEF Counted
    <3>4. CASE a = b
      BY <1>1, <2>1, <3>2, <3>3, <3>4 DEF BalanceSet
    <3>5. CASE a # b
      BY <1>1, <2>1, <3>2, <3>3, <3>5 DEF BalanceSet
    <3> QED BY <3>4, <3>5
  <2> HIDE DEF t, v
  <2>4. Good(ibs') /\ Kept((M + v) + (0 - Balance(t, b)), ibs')
    <3>1. SetBalanceOk(t, b, 0, ibs')
      BY <1>1, <2>2, SetBalanceDoes
    <3>2. BalanceSet(t, b, 0, ibs')
      BY <1>1, <2>2, <3>1, BalanceSetIs
    <3>3. M + v \in Int
      BY <2>1
    <3>4. Kept((M + v) + (0 - Balance(t, b)), ibs')
      BY <1>1, <2>2, <3>2, <3>3, BalanceSetKept
    <3> QED BY <3>2, <3>4 DEF BalanceSet
  <2>5. (M + v) + (0 - Balance(t, b)) <= M /\ (M + v) + (0 - Balance(t, b)) \in Int
    BY <2>1, <2>3
  <2> QED BY <2>4, <2>5, KeptMore
<1>7. Pays(s, ibs')
  BY <1>6 DEF Pays
<1> QED BY <1>5, <1>7, PaysTrans

\* Whatever the interpreter asks for, the state runs on.
LEMMA HostRuns ==
  ASSUME Good(ibs), Frame \in Messages, Exists(ibs, Frame.to), Host
  PROVE  /\ Runs(ibs, ibs') /\ Pays(ibs, ibs')
         /\ \/ pending' = pending
            \/ pending' = [kind |-> "Halt"]
            \/ \E c \in Calls : /\ pending' = Message(c.kind, c.target, c.value)
                                /\ ibs' = ibs
<1>1. Frame.to \in Addr
  BY DEF Messages
<1>2. CASE \E k \in Slot, v \in Value : HostSetStorage(k, v)
  BY <1>1, <1>2, HostSetStorageRuns, HostSetStoragePays DEF HostSetStorage
<1>3. CASE \E a \in Named : HostSelfdestruct(a)
  BY <1>1, <1>3, HostSelfdestructRuns, HostSelfdestructPays, AddrAssumption
  DEF HostSelfdestruct
<1>4. CASE HostEmitLog
  BY <1>1, <1>4, LogRuns, LogCalm, CalmPays DEF HostEmitLog
<1>5. CASE \E a \in Named : HostAccount(a) \/ HostAccessAccount(a)
  <2>1. PICK a \in Named : HostAccount(a) \/ HostAccessAccount(a)
    BY <1>5
  <2>2. a \in Addr
    BY AddrAssumption
  <2> QED BY <2>1, <2>2, GetObjectRuns, AccessAccountRuns, RunsRefl,
            GetObjectCalm, AccessAccountCalm, CalmRefl, CalmPays
          DEF HostAccount, HostAccessAccount
<1>6. CASE \E k \in Slot : HostGetStorage(k) \/ HostAccessStorage(k)
  BY <1>1, <1>6, GetStorageRuns, AccessStorageRuns, GetStorageCalm, AccessStorageCalm, CalmPays
  DEF HostGetStorage, HostAccessStorage
<1>7. CASE \E c \in Calls : HostCall(c.kind, c.target, c.value)
  BY <1>7, RunsRefl, CalmRefl, CalmPays DEF HostCall
<1> QED BY <1>2, <1>3, <1>4, <1>5, <1>6, <1>7 DEF Host

-----------------------------------------------------------------------------
(* Messages *)

\* What is known of a message before it is handled: a plain call executes the
\* code of the account that it calls, and what runs the code of another
\* account is there.
MessageIn(d, s, m) ==
  /\ m.kind = "Call" => m.code = m.to
  /\ m.kind \in {"CallCode", "DelegateCall"} => ExistsIn(d, s, m.to)

\* A message is done with at once, and a message starts from p.
Stepped == Runs(ibs, ibs') /\ Pays(ibs, ibs') /\ stack' = stack
Started(p, m) ==
  /\ Runs(ibs, p) /\ Runs(p, ibs') /\ Calm(ibs, p) /\ Pays(p, ibs')
  /\ m \in Messages /\ (~IsPrecompiled(m.code) => Exists(ibs', m.to))
  /\ stack' = Append(stack, [msg |-> m, snapshot |-> TakeSnapshot(p)])
  /\ pending' = None

\* What is to be handled next after a message.
Returned == IF stack' = <<>> THEN pending' \in Outputs ELSE pending' = None

\* What a message gives to its caller.
LEMMA ReturnsDoes ==
  ASSUME NEW rest, NEW code \in StatusCodes, NEW gas \in Nat, Returns(rest, code, gas)
  PROVE  stack' = rest /\ Returned /\ status' = code
BY DEF Returns, Returned, Outputs

\* A frame has been pushed.
LEMMA AppendFull ==
  ASSUME NEW q \in Seq(FrameRecords), NEW f
  PROVE  Append(q, f) # <<>>
<1>1. Append(q, f) \in Seq(FrameRecords \cup {f}) /\ Len(Append(q, f)) = Len(q) + 1
      /\ Len(q) \in Nat
  BY AppendProperties, LenProperties
<1> QED BY <1>1, EmptySeq

\* Evm::call
LEMMA CallDoes ==
  ASSUME Good(ibs), pending \in Messages, MessageIn(db, ibs, pending),
         pending.kind # "Create", Call
  PROVE  \/ Stepped /\ Returned
         \/ \E p : Started(p, pending)
<1> DEFINE m == pending
           precompiled == IsPrecompiled(m.code)
           checked == IF m.kind = "DelegateCall" THEN ibs ELSE GetObject(ibs, m.sender)
           s == IF precompiled THEN checked ELSE GetObject(checked, m.code)
           taken == SubtractFromBalance(s, m.sender, m.value)
           moved == IF m.kind # "Call" THEN s
                    ELSE IF m.static THEN Touch(s, m.to)
                    ELSE AddToBalance(taken, m.to, m.value)
<1>1. /\ m.sender \in Addr /\ m.to \in Addr /\ m.code \in Addr /\ m.value \in Nat
      /\ m.gas \in Nat /\ m.kind \in {"Call", "CallCode", "DelegateCall", "Create"}
  BY DEF Messages
<1>2. Runs(ibs, checked) /\ Good(checked) /\ Calm(ibs, checked)
  BY <1>1, GetObjectRuns, RunsRefl, RunsGood, GetObjectCalm, CalmRefl
<1> HIDE DEF checked
<1>3. Runs(checked, s) /\ Good(s) /\ Calm(checked, s)
  BY <1>1, <1>2, GetObjectRuns, RunsRefl, RunsGood, GetObjectCalm, CalmRefl
<1> HIDE DEF s
<1>4. Runs(s, taken) /\ Good(taken)
  BY <1>1, <1>3, SubtractRuns, RunsGood
<1>14. Calm(ibs, s)
  BY <1>2, <1>3, CalmTrans
<1>15. m.value <= Balance(ibs, m.sender) => Pays(s, AddToBalance(taken, m.to, m.value))
  <2>1. Balance(s, m.sender) = Balance(ibs, m.sender)
    BY <1>1, <1>14 DEF Calm
  <2> QED BY <1>1, <1>3, <2>1, TransferPays
<1> HIDE DEF taken
<1>16. m.kind # "Call" \/ m.value <= Balance(ibs, m.sender) => Pays(s, moved)
  <2>1. Pays(s, Touch(s, m.to))
    BY <1>1, <1>3, TouchCalm, CalmPays
  <2>2. Pays(s, s)
    BY DEF Pays
  <2> QED BY <1>15, <2>1, <2>2
<1>5. Runs(s, moved)
  <2>1. Runs(s, Touch(s, m.to))
    BY <1>1, <1>3, TouchRuns
  <2>2. Runs(taken, AddToBalance(taken, m.to, m.value))
    BY <1>1, <1>4, AddRuns
  <2>3. Runs(s, AddToBalance(taken, m.to, m.value))
    BY <1>3, <1>4, <2>2, RunsTrans
  <2> QED BY <1>3, <2>1, <2>3, RunsRefl
<1>6. Runs(ibs, s) /\ Runs(ibs, moved)
  BY <1>2, <1>3, <1>5, RunsTrans
<1>7. CodeHash(s, m.code) # "none" => Exists(s, m.code)
  BY DEF CodeHash
<1>8. CodeHash(s, m.code) # "none" => Exists(moved, m.to)
  <2>1. CASE m.kind = "Call"
    <3>1. m.code = m.to
      BY <2>1 DEF MessageIn
    <3> QED BY <1>1, <1>5, <1>7, <3>1, ExistsStays
  <2>2. CASE m.kind # "Call"
    <3>1. Exists(ibs, m.to)
      BY <1>1, <2>2, ExistsIs DEF MessageIn
    <3> QED BY <1>1, <1>6, <3>1, ExistsStays
  <2> QED BY <2>1, <2>2
<1> HIDE DEF moved
<1>9. \/ ibs' = checked /\ Returns(stack, "InsufficientBalance", m.gas)
      \/ ibs' = s /\ Returns(stack, "Success", m.gas)
      \/ /\ ibs' = moved /\ Returns(stack, "Success", m.gas)
         /\ m.kind = "DelegateCall" \/ ~(Balance(ibs, m.sender) < m.value)
      \/ /\ ibs' = moved /\ pending' = None
         /\ m.kind = "DelegateCall" \/ ~(Balance(ibs, m.sender) < m.value)
         /\ precompiled \/ CodeHash(s, m.code) # "none"
         /\ stack' = Append(stack, [msg |-> m, snapshot |-> TakeSnapshot(s)])
  BY DEF Call, checked, s, moved, taken
<1>17. m.kind = "DelegateCall" \/ ~(Balance(ibs, m.sender) < m.value) => Pays(s, moved)
  <2>1. Balance(ibs, m.sender) \in Int
    BY <1>1, BalanceType DEF Good
  <2>2. ~(Balance(ibs, m.sender) < m.value) => m.value <= Balance(ibs, m.sender)
    BY <1>1, <2>1
  <2> QED BY <1>16, <2>2
<1>10. \A c \in {"InsufficientBalance", "Success"} :
         Returns(stack, c, m.gas) => stack' = stack /\ Returned
  BY <1>1, ReturnsDoes DEF StatusCodes
<1>11. CASE ibs' = checked /\ Returns(stack, "InsufficientBalance", m.gas)
  BY <1>2, <1>10, <1>11, CalmPays DEF Stepped
<1>12. CASE /\ ibs' = s \/ (ibs' = moved /\ Pays(s, moved))
            /\ Returns(stack, "Success", m.gas)
  <2>1. Pays(ibs, s)
    BY <1>14, CalmPays
  <2>2. Pays(s, moved) => Pays(ibs, moved)
    BY <2>1, PaysTrans
  <2>3. Pays(ibs, ibs')
    BY <1>12, <2>1, <2>2
  <2> QED BY <1>6, <1>10, <1>12, <2>3 DEF Stepped
<1>13. CASE /\ ibs' = moved /\ pending' = None /\ Pays(s, moved)
            /\ precompiled \/ CodeHash(s, m.code) # "none"
            /\ stack' = Append(stack, [msg |-> m, snapshot |-> TakeSnapshot(s)])
  <2>1. Started(s, m)
    BY <1>5, <1>6, <1>8, <1>13, <1>14 DEF Started
  <2> QED BY <2>1
<1>18. ASSUME ibs' = moved, Returns(stack, "Success", m.gas),
              m.kind = "DelegateCall" \/ ~(Balance(ibs, m.sender) < m.value)
       PROVE  \/ Stepped /\ Returned
              \/ \E p : Started(p, pending)
  BY <1>12, <1>17, <1>18
<1>19. ASSUME ibs' = moved, pending' = None,
              m.kind = "DelegateCall" \/ ~(Balance(ibs, m.sender) < m.value),
              precompiled \/ CodeHash(s, m.code) # "none",
              stack' = Append(stack, [msg |-> m, snapshot |-> TakeSnapshot(s)])
       PROVE  \/ Stepped /\ Returned
              \/ \E p : Started(p, pending)
  BY <1>13, <1>17, <1>19
<1> HIDE DEF precompiled
<1> QED BY <1>9, <1>11, <1>12, <1>18, <1>19

\* Evm::create
LEMMA CreateDoes ==
  ASSUME Good(ibs), pending \in Messages, NEW a \in Addr, Create(a)
  PROVE  \/ Stepped /\ Returned
         \/ \E p, m : Started(p, m)
<1> DEFINE m == pending
           s == GetObject(ibs, m.sender)
           counted == SetNonce(s, m.sender, Nonce(s, m.sender) + 1)
           nonced == AccessAccount(counted, a)
           probed == GetObject(nonced, a)
           created == CreateContract(probed, a)
           named == IF Revision >= Spurious THEN SetNonce(created, a, 1) ELSE created
           taken == SubtractFromBalance(named, m.sender, m.value)
           given == AddToBalance(taken, a, m.value)
           n == [m EXCEPT !.to = a]
<1>1. /\ m.sender \in Addr /\ m.value \in Nat /\ m.gas \in Nat /\ n \in Messages
      /\ n.to = a
  BY DEF Messages
<1>2. \/ ibs' = s /\ Returns(stack, "InsufficientBalance", m.gas)
      \/ ibs' = probed /\ Returns(stack, "InvalidInstruction", 0)
      \/ /\ ibs' = given /\ pending' = None
         /\ ~(Balance(ibs, m.sender) < m.value)
         /\ stack' = Append(stack, [msg |-> n, snapshot |-> TakeSnapshot(probed)])
  BY DEF Create
<1> HIDE DEF n
<1>3. Runs(ibs, s) /\ Good(s) /\ Calm(ibs, s)
  BY <1>1, GetObjectRuns, RunsGood, GetObjectCalm
<1> HIDE DEF s
<1>4. Runs(s, counted) /\ Good(counted) /\ Calm(s, counted)
  <2>1. Nonce(s, m.sender) + 1 \in Nat
    BY <1>1, <1>3, BalanceType DEF Good
  <2> QED BY <1>1, <1>3, <2>1, SetNonceRuns, RunsGood, SetNonceCalm
<1> HIDE DEF counted
<1>5. Runs(counted, nonced) /\ Good(nonced) /\ Calm(counted, nonced)
  BY <1>4, AccessAccountRuns, RunsGood, AccessAccountCalm
<1> HIDE DEF nonced
<1>6. Runs(nonced, probed) /\ Good(probed) /\ Calm(nonced, probed)
  BY <1>5, GetObjectRuns, RunsGood, GetObjectCalm
<1> HIDE DEF probed
<1>7. /\ Runs(probed, created) /\ Good(created) /\ Exists(created, a)
      /\ Calm(probed, created)
  BY <1>6, CreateContractRuns, RunsGood, CreateContractCalm
<1> HIDE DEF created
<1>8. Runs(created, named) /\ Good(named) /\ Calm(created, named)
  BY <1>7, SetNonceRuns, RunsRefl, RunsGood, SetNonceCalm, CalmRefl
<1> HIDE DEF named
<1>9. Runs(named, taken) /\ Good(taken)
  BY <1>1, <1>8, SubtractRuns, RunsGood
<1>18. Calm(ibs, probed) /\ Calm(probed, named)
  <2>1. Calm(ibs, nonced)
    BY <1>3, <1>4, <1>5, CalmTrans
  <2> QED BY <1>6, <1>7, <1>8, <2>1, CalmTrans
<1>19. ~(Balance(ibs, m.sender) < m.value) => Pays(named, given)
  <2>1. Balance(named, m.sender) = Balance(ibs, m.sender)
    BY <1>1, <1>18 DEF Calm
  <2>2. Balance(ibs, m.sender) \in Int
    BY <1>1, BalanceType DEF Good
  <2> QED BY <1>1, <1>8, <2>1, <2>2, TransferPays
<1> HIDE DEF taken
<1>10. Runs(taken, given)
  BY <1>1, <1>9, AddRuns
<1> HIDE DEF given
<1>20. ~(Balance(ibs, m.sender) < m.value) => Pays(probed, given)
  <2>1. Pays(probed, named)
    BY <1>18, CalmPays
  <2> QED BY <1>19, <2>1, PaysTrans
<1>11. Runs(ibs, probed)
  <2>1. Runs(ibs, counted)
    BY <1>3, <1>4, RunsTrans
  <2>2. Runs(ibs, nonced)
    BY <1>5, <2>1, RunsTrans
  <2> QED BY <1>6, <2>2, RunsTrans
<1>12. Runs(created, given)
  <2>1. Runs(created, taken)
    BY <1>7, <1>8, <1>9, RunsTrans
  <2> QED BY <1>7, <1>10, <2>1, RunsTrans
<1>13. Runs(probed, given) /\ Exists(given, a)
  BY <1>6, <1>7, <1>12, RunsTrans, ExistsStays
<1>14. \A c \in {"InsufficientBalance", "InvalidInstruction"}, g \in Nat :
         Returns(stack, c, g) => stack' = stack /\ Returned
  BY ReturnsDoes DEF StatusCodes
<1>15. CASE ibs' = s /\ Returns(stack, "InsufficientBalance", m.gas)
  BY <1>1, <1>3, <1>14, <1>15, CalmPays DEF Stepped
<1>16. CASE ibs' = probed /\ Returns(stack, "InvalidInstruction", 0)
  BY <1>11, <1>14, <1>16, <1>18, CalmPays DEF Stepped
<1>17. CASE /\ ibs' = given /\ pending' = None /\ Pays(probed, given)
            /\ stack' = Append(stack, [msg |-> n, snapshot |-> TakeSnapshot(probed)])
  <2>1. Started(probed, n)
    BY <1>1, <1>11, <1>13, <1>17, <1>18 DEF Started
  <2> QED BY <2>1
<1> QED BY <1>2, <1>15, <1>16, <1>17, <1>20

-----------------------------------------------------------------------------
(* The end of a message *)

\* A message ends in s.
Ended(s) ==
  /\ Runs(ibs, s) /\ Calm(ibs, s)
  /\ stack' = Front(stack) /\ Returned /\ status' \in StatusCodes
  /\ ibs' = IF status' = "Success" THEN s
            ELSE RevertToSnapshot(s, Last(stack).snapshot)

\* EndMessage leaves the state, or reverts it to the snapshot.
LEMMA EndMessageDoes ==
  ASSUME NEW s, Runs(ibs, s), Calm(ibs, s), NEW code \in StatusCodes, NEW gas \in Nat,
         EndMessage(s, code, gas)
  PROVE  Ended(s)
<1> DEFINE left == IF code \in {"Success", "Revert"} THEN gas ELSE 0
<1>1. left \in Nat
  OBVIOUS
<1>2. /\ ibs' = IF code = "Success" THEN s ELSE RevertToSnapshot(s, Last(stack).snapshot)
      /\ Returns(Front(stack), code, left)
  BY DEF EndMessage
<1> HIDE DEF left
<1>3. stack' = Front(stack) /\ Returned /\ status' = code
  BY <1>1, <1>2, ReturnsDoes
<1> QED BY <1>2, <1>3 DEF Ended

\* The message on top of the stack.
LEMMA FrameIs ==
  ASSUME NEW s, Frames(s, stack), stack # <<>>
  PROVE  /\ Frame \in Messages /\ Frame.to \in Addr /\ Frame.gas \in Nat
         /\ Last(stack) = stack[Len(stack)] /\ Len(stack) \in 1 .. Len(stack)
         /\ ~IsPrecompiled(Frame.code) => Exists(s, Frame.to)
<1>1. stack \in Seq(FrameRecords)
  BY DEF Frames
<1>2. Len(stack) \in Nat \ {0} /\ Last(stack) = stack[Len(stack)]
  BY <1>1, FrontIs
<1>3. Len(stack) \in 1 .. Len(stack)
  BY <1>2
<1>4. Frame \in Messages
  BY <1>1, <1>2, <1>3, FrameTypes DEF Frame
<1>5. Anchored(s, stack, Len(stack))
  BY <1>3 DEF Frames
<1> QED BY <1>2, <1>3, <1>4, <1>5 DEF Frame, Messages, Anchored

\* What the interpreter may end with.
LEMMA OutcomesType ==
  ASSUME Frame.gas \in Nat, NEW o \in Outcomes
  PROVE  o[1] \in StatusCodes /\ o[2] \in Nat
BY DEF Outcomes, StatusCodes

\* The end of Evm::call.
LEMMA CompleteCallDoes ==
  ASSUME Good(ibs), Frame.gas \in Nat, CompleteCall
  PROVE  \E s : Ended(s)
<1>1. PICK o \in Outcomes : EndMessage(ibs, o[1], o[2])
  BY DEF CompleteCall
<1> QED BY <1>1, OutcomesType, RunsRefl, CalmRefl, EndMessageDoes

\* The end of Evm::create.
LEMMA CompleteCreateDoes ==
  ASSUME Good(ibs), Frame.gas \in Nat, Frame.to \in Addr, CompleteCreate
  PROVE  \E s : Ended(s)
<1>1. PICK o \in Outcomes, c \in ReturnedCodes :
        LET gas == o[2] - c.len * CODE_DEPOSIT
        IN CASE Halted -> EndMessage(SetCode(ibs, Frame.to, "none"), "Success", o[2])
             [] ~Halted /\ o[1] # "Success" -> EndMessage(ibs, o[1], o[2])
             [] OTHER ->
                IF Revision >= London /\ c.ef
                THEN EndMessage(ibs, "ContractValidationFailure", o[2])
                ELSE IF Revision >= Spurious /\ c.len > MAX_CODE_SIZE
                THEN EndMessage(ibs, "OutOfGas", o[2])
                ELSE IF gas >= 0
                THEN EndMessage(SetCode(ibs, Frame.to, IF c.len = 0 THEN "none" ELSE "code"),
                                "Success", gas)
                ELSE EndMessage(ibs, IF Revision >= Homestead THEN "OutOfGas"
                                                              ELSE "Success", o[2])
  BY DEF CompleteCreate
<1> DEFINE gas == o[2] - c.len * CODE_DEPOSIT
<1>2. o[1] \in StatusCodes /\ o[2] \in Nat
  BY OutcomesType
<1>3. c.len \in Nat
  BY DEF ReturnedCodes, MAX_CODE_SIZE
<1>4. gas \in Int
  BY <1>2, <1>3 DEF CODE_DEPOSIT
<1> HIDE DEF gas
<1>5. PICK s, code, g :
        /\ s = ibs \/ s = SetCode(ibs, Frame.to, "none") \/ s = SetCode(ibs, Frame.to, "code")
        /\ code \in StatusCodes /\ g \in Nat
        /\ EndMessage(s, code, g)
  <2>1. {"Success", "ContractValidationFailure", "OutOfGas"} \subseteq StatusCodes
    BY DEF StatusCodes
  <2>2. CASE Halted
    BY <1>1, <1>2, <2>1, <2>2
  <2>3. CASE ~Halted /\ o[1] # "Success"
    BY <1>1, <1>2, <2>3
  <2>4. CASE ~Halted /\ o[1] = "Success"
    <3>1. \/ EndMessage(ibs, "ContractValidationFailure", o[2])
          \/ EndMessage(ibs, "OutOfGas", o[2])
          \/ gas >= 0 /\ EndMessage(SetCode(ibs, Frame.to, "none"), "Success", gas)
          \/ gas >= 0 /\ EndMessage(SetCode(ibs, Frame.to, "code"), "Success", gas)
          \/ EndMessage(ibs, "Success", o[2])
      BY <1>1, <2>4 DEF gas
    <3>2. gas >= 0 => gas \in Nat
      BY <1>4
    <3> QED BY <1>2, <2>1, <3>1, <3>2
  <2> QED BY <2>2, <2>3, <2>4
<1>6. Runs(ibs, s) /\ Calm(ibs, s)
  BY <1>5, RunsRefl, SetCodeRuns, CalmRefl, SetCodeCalm DEF Code
<1> QED BY <1>5, <1>6, EndMessageDoes

-----------------------------------------------------------------------------
(* The start of a transaction and of a block *)

\* What is true of the first and kept from one to the next is true of all.
LEMMA StaysIn ==
  ASSUME NEW K \in Nat, NEW V, NEW g, g[0] \in V,
         \A n \in 1 .. K : g[n - 1] \in V => g[n] \in V
  PROVE  \A n \in 0 .. K : g[n] \in V
<1> DEFINE T == {n \in 0 .. K : g[n] \notin V}
<1> SUFFICES ASSUME T # {} PROVE FALSE
  OBVIOUS
<1>1. PICK m \in T : \A j \in T : m <= j
  BY LeastNat, T \subseteq Nat
<1>2. m \in 1 .. K /\ m - 1 \in 0 .. K
  BY <1>1
<1>3. m - 1 \notin T
  BY <1>1, <1>2
<1> QED BY <1>1, <1>2, <1>3

\* clear_journal_and_substate: there is nothing to undo.
Cleared(s) ==
  [objects |-> s.objects, storage |-> s.storage, incarnations |-> s.incarnations,
   newCode |-> s.newCode, journal |-> <<>>, selfDestructs |-> {}, logs |-> <<>>,
   touched |-> {}, refund |-> 0, accessed |-> {}, accessedKeys |-> {}]

\* clear_journal_and_substate, field by field.
LEMMA ClearedIs ==
  ASSUME NEW s \in States, NEW t, t = ClearSubstate(s)
  PROVE  t = Cleared(s)
<1> DEFINE x1 == s.objects
           x2 == s.storage
           x3 == s.incarnations
           x4 == s.newCode
           y1 == s.journal
           y2 == s.selfDestructs
           y3 == s.logs
           y4 == s.touched
           y5 == s.refund
           y6 == s.accessed
           y7 == s.accessedKeys
<1>1. s = [objects |-> x1, storage |-> x2, incarnations |-> x3, newCode |-> x4,
           journal |-> y1, selfDestructs |-> y2, logs |-> y3, touched |-> y4,
           refund |-> y5, accessed |-> y6, accessedKeys |-> y7]
  BY StateRecord
<1> HIDE DEF x1, x2, x3, x4, y1, y2, y3, y4, y5, y6, y7
<1>2. t = [objects |-> x1, storage |-> x2, incarnations |-> x3, newCode |-> x4,
           journal |-> <<>>, selfDestructs |-> {}, logs |-> <<>>, touched |-> {},
           refund |-> 0, accessed |-> {}, accessedKeys |-> {}]
  BY <1>1 DEF ClearSubstate
<1> QED BY <1>2 DEF Cleared, x1, x2, x3, x4

\* clear_journal_and_substate leaves a good state with the same data.
LEMMA ClearedGood ==
  ASSUME NEW s, Held(s)
  PROVE  /\ ClearSubstate(s) = Cleared(s) /\ Good(ClearSubstate(s))
         /\ ClearSubstate(s) \in States /\ SameData(s, ClearSubstate(s))
<1>2. ClearSubstate(s) = Cleared(s)
  BY ClearedIs DEF Held
<1> DEFINE t == Cleared(s)
<1>3. /\ t.objects = s.objects /\ t.journal = <<>> /\ SameData(s, t)
  BY DEF Cleared, SameData
<1>4. t \in States
  <2>1. /\ s.objects \in Partial(Addr, Objects) /\ s.storage \in Partial(Addr, Storages)
        /\ s.incarnations \in [Addr -> Int] /\ s.newCode \in SUBSET Code
    BY DEF Held, States
  <2>2. <<>> \in Seq(Deltas) /\ <<>> \in Seq(Addr)
    OBVIOUS
  <2> QED BY <2>1, <2>2 DEF Cleared, States
<1>5. Len(t.journal) = 0
  BY <1>3
<1>6. Good(t)
  BY <1>3, <1>4, <1>5 DEF Good, Sound, Settled, Held, InitialsMatch
<1> QED BY <1>2, <1>3, <1>4, <1>6

\* The keys of an access list are marked one by one.
LEMMA AccessKeysRuns ==
  ASSUME NEW s, Good(s), NEW a \in Addr, NEW keys \in Seq(Slot)
  PROVE  Runs(s, AccessKeys(s, a, keys)) /\ Calm(s, AccessKeys(s, a, keys))
<1> DEFINE K == Len(keys)
           V == {u \in States : Runs(s, u) /\ Calm(s, u)}
           step == [p \in (1 .. K) \X V |-> AccessStorage(p[2], a, keys[p[1]])]
<1>1. K \in Nat /\ \A n \in 1 .. K : keys[n] \in Slot
  OBVIOUS
<1>2. s \in V
  BY RunsRefl, GoodHeld, CalmRefl
<1>3. ASSUME NEW u \in V, NEW n \in 1 .. K PROVE AccessStorage(u, a, keys[n]) \in V
  <2>1. Runs(s, u) /\ Good(u) /\ Calm(s, u)
    BY RunsGood
  <2>2. Runs(u, AccessStorage(u, a, keys[n])) /\ Good(AccessStorage(u, a, keys[n]))
    BY <1>1, <2>1, AccessStorageRuns, RunsGood
  <2>3. Runs(s, AccessStorage(u, a, keys[n]))
    BY <2>1, <2>2, RunsTrans
  <2>4. Calm(s, AccessStorage(u, a, keys[n]))
    BY <1>1, <2>1, AccessStorageCalm, CalmTrans
  <2> QED BY <2>2, <2>3, <2>4, GoodHeld
<1> HIDE DEF V
<1>4. \A n \in 1 .. K, v \in V : step[<<n, v>>] = AccessStorage(v, a, keys[n])
  OBVIOUS
<1> HIDE DEF step, K
<1>5. \A n \in 1 .. K, v \in V : step[<<n, v>>] \in V
  BY <1>3, <1>4
<1>6. PICK f \in [0 .. K -> V] : Recursion(f, K, s, step)
  BY <1>1, <1>2, <1>5, CountRecursion
<1>7. f = [n \in 0 .. K |-> IF n = 0 THEN s ELSE AccessStorage(f[n - 1], a, keys[n])]
  <2>1. f = [n \in 0 .. K |-> IF n = 0 THEN s ELSE step[<<n, f[n - 1]>>]]
    BY <1>6 DEF Recursion
  <2>2. ASSUME NEW n \in 0 .. K, n # 0
        PROVE  step[<<n, f[n - 1]>>] = AccessStorage(f[n - 1], a, keys[n])
    <3>1. n \in 1 .. K /\ n - 1 \in 0 .. K
      BY <1>1, <2>2
    <3> QED BY <1>4, <1>6, <3>1
  <2> QED BY <2>1, <2>2
<1> DEFINE listed == CHOOSE g : g = [n \in 0 .. Len(keys) |->
                                       IF n = 0 THEN s ELSE AccessStorage(g[n - 1], a, keys[n])]
<1>8. AccessKeys(s, a, keys) = listed[K]
  BY DEF AccessKeys, K
<1>9. listed = [n \in 0 .. K |-> IF n = 0 THEN s ELSE AccessStorage(listed[n - 1], a, keys[n])]
  BY <1>7 DEF K
<1> HIDE DEF listed
<1>10. listed[0] \in V
  BY <1>1, <1>2, <1>9
<1>11. ASSUME NEW n \in 1 .. K, listed[n - 1] \in V PROVE listed[n] \in V
  <2>1. listed[n] = AccessStorage(listed[n - 1], a, keys[n])
    BY <1>1, <1>9
  <2> QED BY <1>3, <1>11, <2>1
<1>12. \A n \in 0 .. K : listed[n] \in V
  BY <1>1, <1>10, <1>11, StaysIn
<1>13. listed[K] \in V
  BY <1>1, <1>12
<1> QED BY <1>8, <1>13 DEF V

\* The smaller of two numbers.
LEMMA MinIs ==
  ASSUME NEW x \in Int, NEW y \in Int
  PROVE  Min({x, y}) = IF x <= y THEN x ELSE y
<1> DEFINE m == Min({x, y})
           n == IF x <= y THEN x ELSE y
<1>1. n \in {x, y} /\ \A z \in {x, y} : n <= z
  OBVIOUS
<1>2. m \in {x, y} /\ \A z \in {x, y} : m <= z
  <2> HIDE DEF n
  <2> QED BY <1>1 DEF Min
<1> HIDE DEF m
<1>3. m \in {x, y} /\ m <= x /\ m <= y
  BY <1>2
<1>4. m = n
  BY <1>3
<1> QED BY <1>4 DEF m

\* The fields of a transaction, and what it pays for gas.
LEMMA TxTypes ==
  ASSUME NEW t \in Txs
  PROVE  /\ t.sender \in Addr /\ t.to \in Addr /\ t.value \in Nat /\ t.nonce \in Nat
         /\ t.access \in Seq(Slot) /\ t.gasLimit \in Nat /\ t.action \in {"Call", "Create"}
         /\ t.maxFee \in Nat /\ t.maxPriorityFee \in Nat
         /\ PriorityFee(t) \in Nat /\ EffectivePrice(t) \in Nat
         /\ EffectivePrice(t) <= t.maxFee /\ IntrinsicGas(t) \in Nat
         /\ t # None
<1>1. /\ t \in [action : {"Call", "Create"}, sender : Addr, to : Addr, value : Nat,
                nonce : Nat, access : Seq(Slot), gasLimit : Nat, maxFee : Nat,
                maxPriorityFee : Nat]
      /\ t.maxFee >= BaseFee
  BY TxAssumption DEF PreValidTransaction
<1> DEFINE x == t.maxPriorityFee
           y == t.maxFee
<1>2. x \in Nat /\ y \in Nat /\ y - BaseFee \in Nat /\ BaseFee \in Nat
  BY <1>1, FeeAssumption
<1>3. PriorityFee(t) = Min({x, y - BaseFee})
  BY DEF PriorityFee
<1> HIDE DEF x, y
<1>4. PriorityFee(t) = IF x <= y - BaseFee THEN x ELSE y - BaseFee
  BY <1>2, <1>3, MinIs
<1> DEFINE z == PriorityFee(t)
<1> HIDE DEF z
<1>5. z \in Nat /\ z + BaseFee \in Nat /\ z + BaseFee <= y
  <2>1. z = IF x <= y - BaseFee THEN x ELSE y - BaseFee
    BY <1>4 DEF z
  <2> QED BY <1>2, <2>1
<1>6. EffectivePrice(t) = z + BaseFee
  BY DEF EffectivePrice, z
<1>7. IntrinsicGas(t) \in Nat
  <2>1. Len(t.access) \in Nat /\ Revision \in Int
    BY <1>1, LenProperties, FeeAssumption DEF Frontier, London
  <2> DEFINE n == Len(t.access)
             made == IF t.action = "Create" /\ Revision >= Homestead THEN 32000 ELSE 0
             listed == IF t.access # <<>> THEN 2400 + 1900 * n ELSE 0
  <2> HIDE DEF n
  <2>2. made \in Nat /\ listed \in Nat
    BY <2>1 DEF n
  <2>3. IntrinsicGas(t) = 21000 + made + listed
    BY DEF IntrinsicGas, n
  <2> HIDE DEF made, listed
  <2> QED BY <2>2, <2>3
<1>8. t # None
  BY NoneAssumption
<1> QED BY <1>1, <1>5, <1>6, <1>7, <1>8 DEF x, y, z

\* execute_transaction up to the call of evm::execute.
LEMMA PreparedGood ==
  ASSUME NEW t \in Txs, Held(ibs)
  PROVE  Runs(ClearSubstate(ibs), Prepared(t)) /\ Good(Prepared(t))
<1> DEFINE c == ClearSubstate(ibs)
           from == AccessAccount(c, t.sender)
           paid == SubtractFromBalance(from, t.sender, t.gasLimit * EffectivePrice(t))
           to == AccessAccount(paid, t.to)
           counted == SetNonce(to, t.sender, t.nonce + 1)
           called == IF t.action = "Create" THEN paid ELSE counted
           listed == AccessAccount(called, t.to)
           keyed == AccessKeys(listed, t.to, t.access)
<1>1. /\ t.sender \in Addr /\ t.to \in Addr /\ t.nonce + 1 \in Nat
      /\ t.gasLimit * EffectivePrice(t) \in Int /\ t.access \in Seq(Slot)
  BY TxTypes
<1>2. Prepared(t) = IF t.access = <<>> THEN called ELSE keyed
  BY DEF Prepared
<1>3. Good(c)
  BY ClearedGood
<1> HIDE DEF c
<1>4. Runs(c, from) /\ Good(from)
  BY <1>1, <1>3, AccessAccountRuns, RunsGood
<1> HIDE DEF from
<1>5. Runs(from, paid) /\ Good(paid)
  BY <1>1, <1>4, SubtractRuns, RunsGood
<1> HIDE DEF paid
<1>6. Runs(paid, to) /\ Good(to)
  BY <1>1, <1>5, AccessAccountRuns, RunsGood
<1> HIDE DEF to
<1>7. Runs(to, counted) /\ Good(counted)
  BY <1>1, <1>6, SetNonceRuns, RunsGood
<1> HIDE DEF counted
<1>8. Runs(c, paid)
  BY <1>3, <1>4, <1>5, RunsTrans
<1>9. Runs(c, to)
  BY <1>3, <1>6, <1>8, RunsTrans
<1>10. Runs(c, counted)
  BY <1>3, <1>7, <1>9, RunsTrans
<1>11. Runs(c, called) /\ Good(called)
  BY <1>5, <1>7, <1>8, <1>10
<1> HIDE DEF called
<1>12. Runs(called, listed) /\ Good(listed)
  BY <1>1, <1>11, AccessAccountRuns, RunsGood
<1> HIDE DEF listed
<1>13. Runs(listed, keyed)
  BY <1>1, <1>12, AccessKeysRuns
<1> HIDE DEF keyed
<1>14. Runs(c, listed)
  BY <1>3, <1>11, <1>12, RunsTrans
<1>15. Runs(c, keyed)
  BY <1>3, <1>13, <1>14, RunsTrans
<1>16. Runs(c, Prepared(t))
  BY <1>2, <1>11, <1>15
<1> QED BY <1>16, RunsGood DEF c

\* The empty map.
LEMMA EmptyType == \A D, R : Empty \in Partial(D, R) /\ DOMAIN Empty = {}
<1> SUFFICES ASSUME NEW D, NEW R PROVE Empty \in Partial(D, R) /\ DOMAIN Empty = {}
  OBVIOUS
<1>1. Empty \in [{} -> R] /\ DOMAIN Empty = {}
  BY DEF Empty
<1>2. {} \in SUBSET D
  OBVIOUS
<1> QED BY <1>1, <1>2 DEF Partial

\* A block starts with a state that caches nothing.
LEMMA NewStateGood ==
  ASSUME db \in Databases
  PROVE  Good(NewState)
<1>1. NewState \in States
  <2>1. [a \in Addr |-> 0] \in [Addr -> Int] /\ {} \in SUBSET Code
    OBVIOUS
  <2>2. <<>> \in Seq(Deltas) /\ <<>> \in Seq(Addr)
    OBVIOUS
  <2> QED BY <2>1, <2>2, EmptyType DEF NewState, States
<1>2. NewState.journal = <<>> /\ NewState.objects = Empty
  BY DEF NewState
<1>3. Len(NewState.journal) = 0
  BY <1>2
<1> QED BY <1>1, <1>2, <1>3, EmptyType DEF Good, Sound, Settled, InitialsMatch

-----------------------------------------------------------------------------
(* The storage between transactions *)

\* The storage of an account that is not there is empty.
Hollow(s) ==
  \A a \in Addr :
    /\ s.incarnations[a] \in Nat
    /\ \A k \in Slot :
         ~Exists(s, a) => CurrentIn(Box(s, a), a, k, s.incarnations[a]) = 0

\* And what has been written is what the next transaction starts with.
Tidy(s) ==
  /\ Hollow(s)
  /\ \A a \in Addr, k \in Slot :
       OriginalIn(Box(s, a), a, k, s.incarnations[a])
         = CurrentIn(Box(s, a), a, k, s.incarnations[a])

\* The view of a settled state is that of its storage.
LEMMA PlainView ==
  ASSUME NEW s, Settled(s), NEW a, NEW k
  PROVE  /\ Original(s, a, k) = OriginalIn(Box(s, a), a, k, s.incarnations[a])
         /\ Current(s, a, k) = CurrentIn(Box(s, a), a, k, s.incarnations[a])
BY SettledView DEF Original, Current

\* A change that leaves the storage alone leaves a tidy state.
LEMMA TidyChanged ==
  ASSUME NEW s, Good(s), Tidy(s), NEW t, NEW A, Changed(s, t, A)
  PROVE  Tidy(t)
<1>1. Settled(s) /\ Settled(t) /\ StorageKept(s, t) /\ Stays(s, t)
  BY DEF Good, Changed
<1>2. \A a \in Addr : Exists(s, a) => Exists(t, a)
  BY <1>1 DEF Stays, Exists
<1>3. \A a \in Addr, k \in Slot :
        /\ OriginalIn(Box(t, a), a, k, t.incarnations[a])
             = OriginalIn(Box(s, a), a, k, s.incarnations[a])
        /\ CurrentIn(Box(t, a), a, k, t.incarnations[a])
             = CurrentIn(Box(s, a), a, k, s.incarnations[a])
  BY <1>1, PlainView DEF StorageKept
<1>4. t.incarnations = s.incarnations
  BY <1>1 DEF StorageKept
<1> QED BY <1>2, <1>3, <1>4 DEF Tidy, Hollow

\* Nothing is due when no slot has been written.
LEMMA NothingLost ==
  ASSUME NEW s, Rich(s), s.refund = 0,
         \A a \in Addr, k \in Slot : Original(s, a, k) = Current(s, a, k)
  PROVE  Solvent(s)
<1>1. Lost(s) = {}
  BY DEF Lost
<1>2. Cardinality(Lost(s)) = 0
  BY <1>1, FS_EmptySet
<1>3. Due(s) = 0
  <2>1. SstoreClearsRefund \in Nat
    BY ClearsRefundIs
  <2> QED BY <1>2, <2>1 DEF Due
<1> QED BY <1>3 DEF Solvent, Refundable

\* A new state is tidy: it has read no slot.
LEMMA NewStateTidy == Tidy(NewState)
<1>1. /\ NewState.storage = Empty /\ NewState.incarnations = [a \in Addr |-> 0]
      /\ NewState.objects = Empty /\ DOMAIN Empty = {}
  BY EmptyType DEF NewState
<1>2. \A a : Box(NewState, a) = NewStorage /\ Account(NewState, a) = ReadAccount(a)
  BY <1>1 DEF Box, Account
<1>3. \A a, k : /\ OriginalIn(NewStorage, a, k, 0) = Fresh(a, k, 0)
                /\ CurrentIn(NewStorage, a, k, 0) = Fresh(a, k, 0)
  BY EmptyType DEF NewStorage, OriginalIn, CurrentIn
<1>4. ASSUME NEW a \in Addr, NEW k \in Slot
      PROVE  /\ OriginalIn(Box(NewState, a), a, k, 0) = CurrentIn(Box(NewState, a), a, k, 0)
             /\ ~Exists(NewState, a) => CurrentIn(Box(NewState, a), a, k, 0) = 0
  BY <1>2, <1>3 DEF Exists, Fresh
<1>5. \A a \in Addr : NewState.incarnations[a] = 0
  BY <1>1
<1> QED BY <1>4, <1>5 DEF Tidy, Hollow

\* The irregular balance changes are made in some order.
LEMMA OrderIs ==
  ASSUME NEW D, IsFiniteSet(D)
  PROVE  LET q == SetToSeq(D)
         IN  /\ Len(q) \in Nat /\ \A n \in 1 .. Len(q) : q[n] \in D
             /\ \A x \in D : \E n \in 1 .. Len(q) : q[n] = x
<1> DEFINE N == Cardinality(D)
           q == SetToSeq(D)
<1>1. N \in Nat /\ ExistsBijection(1 .. N, D)
  BY FS_CardinalityType
<1>2. PICK f \in Bijection(1 .. N, D) : TRUE
  BY <1>1 DEF ExistsBijection
<1>3. f \in [1 .. N -> D] /\ \A x, y \in 1 .. N : f[x] = f[y] => x = y
  BY <1>2 DEF Bijection, Injection, Surjection, IsInjective
<1>9. q \in [1 .. N -> D] /\ IsInjective(q)
  <2>1. IsInjective(f)
    BY <1>3 DEF IsInjective
  <2>2. \E h \in [1 .. Cardinality(D) -> D] : IsInjective(h)
    BY <1>3, <2>1
  <2> QED BY <2>2, Zenon DEF SetToSeq
<1> HIDE DEF q
<1>4. q \in [1 .. N -> D] /\ \A x, y \in 1 .. N : q[x] = q[y] => x = y
  BY <1>9 DEF IsInjective
<1>6. Cardinality(1 .. N) = Cardinality(D) /\ IsFiniteSet(1 .. N)
  BY <1>1, FS_Interval
<1>7. q \in Injection(1 .. N, D)
  BY <1>4 DEF Injection, IsInjective
<1>8. \A x \in D : \E n \in 1 .. N : q[n] = x
  <2>1. q \in Surjection(1 .. N, D)
    BY <1>6, <1>7, FS_Injection
  <2> QED BY <2>1 DEF Surjection
<1> HIDE DEF N
<1>5. q \in Seq(D) /\ Len(q) = N
  BY <1>1, <1>4
<1> QED BY <1>1, <1>4, <1>5, <1>8 DEF q

\* The irregular balance changes leave a good state.
LEMMA BalancesChangedGood ==
  ASSUME db \in Databases
  PROVE  /\ Good(BalancesChanged) /\ Tidy(BalancesChanged)
         /\ \A a \in Addr :
              Balance(BalancesChanged, a) = IF a \in DOMAIN BalanceChanges
                                            THEN BalanceChanges[a]
                                            ELSE Balance(NewState, a)
<1> DEFINE order == SetToSeq(DOMAIN BalanceChanges)
           K == Len(order)
           V == {u \in States : Good(u) /\ Tidy(u)}
           step == [p \in (1 .. K) \X V |->
                      SetBalance(p[2], order[p[1]], BalanceChanges[order[p[1]]])]
<1>1. K \in Nat /\ \A n \in 1 .. K : /\ order[n] \in Addr
                                     /\ BalanceChanges[order[n]] \in Nat
                                     /\ BalanceChanges[order[n]] \in Int
  <2>1. DOMAIN BalanceChanges \subseteq Addr /\ IsFiniteSet(Addr)
    BY GenesisAssumption, AddrAssumption
  <2>2. IsFiniteSet(DOMAIN BalanceChanges)
    BY <2>1, FS_Subset
  <2>3. K \in Nat /\ \A n \in 1 .. K : order[n] \in DOMAIN BalanceChanges
    BY <2>2, OrderIs
  <2> QED BY <2>1, <2>3, GenesisAssumption
<1>2. NewState \in V
  BY NewStateGood, NewStateTidy, GoodHeld
<1> DEFINE Turn(u, n) == SetBalance(u, order[n], BalanceChanges[order[n]])
<1>3. ASSUME NEW u \in V, NEW n \in 1 .. K PROVE Turn(u, n) \in V
  <2>1. Good(Turn(u, n))
    BY <1>1, SetBalanceRuns, RunsGood
  <2>2. Tidy(Turn(u, n))
    BY <1>1, SetBalanceDoes, TidyChanged DEF SetBalanceOk, AccountSet
  <2> QED BY <2>1, <2>2, GoodHeld
<1>14. ASSUME NEW u \in V, NEW n \in 1 .. K, NEW a \in Addr
       PROVE  Balance(Turn(u, n), a) = IF a = order[n] THEN BalanceChanges[a] ELSE Balance(u, a)
  <2>1. SetBalanceOk(u, order[n], BalanceChanges[order[n]], Turn(u, n))
    BY <1>1, SetBalanceDoes
  <2> HIDE DEF Turn
  <2>2. BalanceSet(u, order[n], BalanceChanges[order[n]], Turn(u, n))
    BY <1>1, <2>1, BalanceSetIs
  <2> QED BY <2>2 DEF BalanceSet
<1>15. \A a \in DOMAIN BalanceChanges : \E n \in 1 .. K : order[n] = a
  <2>1. IsFiniteSet(DOMAIN BalanceChanges)
    BY GenesisAssumption, AddrAssumption, FS_Subset
  <2> QED BY <2>1, OrderIs
<1>16. \A n \in 1 .. K : order[n] \in DOMAIN BalanceChanges
  <2>1. IsFiniteSet(DOMAIN BalanceChanges)
    BY GenesisAssumption, AddrAssumption, FS_Subset
  <2> QED BY <2>1, OrderIs
<1> HIDE DEF V
<1>4. \A n \in 1 .. K, v \in V : step[<<n, v>>] = Turn(v, n)
  OBVIOUS
<1> HIDE DEF step, K
<1>5. \A n \in 1 .. K, v \in V : step[<<n, v>>] \in V
  BY <1>3, <1>4
<1>6. PICK f \in [0 .. K -> V] : Recursion(f, K, NewState, step)
  BY <1>1, <1>2, <1>5, CountRecursion
<1>7. f = [n \in 0 .. K |-> IF n = 0 THEN NewState ELSE Turn(f[n - 1], n)]
  <2>1. f = [n \in 0 .. K |-> IF n = 0 THEN NewState ELSE step[<<n, f[n - 1]>>]]
    BY <1>6 DEF Recursion
  <2>2. ASSUME NEW n \in 0 .. K, n # 0
        PROVE  step[<<n, f[n - 1]>>] = Turn(f[n - 1], n)
    <3>1. n \in 1 .. K /\ n - 1 \in 0 .. K
      BY <1>1, <2>2
    <3> HIDE DEF Turn
    <3> QED BY <1>4, <1>6, <3>1
  <2> HIDE DEF Turn
  <2> QED BY <2>1, <2>2
<1> DEFINE changed == CHOOSE g : g = [n \in 0 .. Len(order) |->
                                        IF n = 0 THEN NewState
                                        ELSE SetBalance(g[n - 1], order[n],
                                                        BalanceChanges[order[n]])]
<1>8. BalancesChanged = changed[K]
  BY DEF BalancesChanged, K
<1>9. changed = [n \in 0 .. K |-> IF n = 0 THEN NewState ELSE Turn(changed[n - 1], n)]
  BY <1>7 DEF K
<1> HIDE DEF changed, Turn
<1>10. changed[0] \in V
  BY <1>1, <1>2, <1>9
<1>11. ASSUME NEW n \in 1 .. K, changed[n - 1] \in V PROVE changed[n] \in V
  <2>1. n \in 0 .. K /\ n # 0
    BY <1>1
  <2>2. changed[n] = Turn(changed[n - 1], n)
    BY <1>9, <2>1
  <2> QED BY <1>3, <1>11, <2>2
<1>12. \A n \in 0 .. K : changed[n] \in V
  BY <1>1, <1>10, <1>11, StaysIn
<1>13. changed[K] \in V
  BY <1>1, <1>12
<1> DEFINE Val(n, a) == IF \E i \in 1 .. n : order[i] = a THEN BalanceChanges[a]
                                                        ELSE Balance(NewState, a)
           T == {n \in 0 .. K : \E a \in Addr : Balance(changed[n], a) # Val(n, a)}
<1>17. 0 \notin T
  <2>1. 0 \in 0 .. K /\ changed[0] = NewState
    BY <1>1, <1>9
  <2> QED BY <2>1
<1>18. ASSUME NEW n \in 1 .. K, n - 1 \notin T PROVE n \notin T
  <2>1. n \in 0 .. K /\ n # 0 /\ n - 1 \in 0 .. K
    BY <1>1
  <2>2. changed[n] = Turn(changed[n - 1], n) /\ changed[n - 1] \in V
    BY <1>9, <1>12, <2>1
  <2>3. ASSUME NEW a \in Addr PROVE Balance(changed[n], a) = Val(n, a)
    <3>1. Balance(changed[n - 1], a) = Val(n - 1, a)
      BY <1>18, <2>1
    <3>2. Balance(changed[n], a) = IF a = order[n] THEN BalanceChanges[a] ELSE Val(n - 1, a)
      BY <1>14, <2>2, <3>1
    <3>3. \A i \in 1 .. n : i = n \/ i \in 1 .. n - 1
      BY <1>1
    <3>4. \A i \in 1 .. n - 1 : i \in 1 .. n
      BY <1>1
    <3>5. n \in 1 .. n
      BY <1>1
    <3> QED BY <3>2, <3>3, <3>4, <3>5
  <2> QED BY <2>3
<1>19. \A n \in 0 .. K : n \notin T
  <2> DEFINE O == {n \in 0 .. K : n \notin T}
             g == [n \in 0 .. K |-> n]
  <2> HIDE DEF T
  <2>1. g[0] \in O /\ \A n \in 1 .. K : g[n - 1] \in O => g[n] \in O
    <3>1. 0 \in 0 .. K /\ \A n \in 1 .. K : n \in 0 .. K /\ n - 1 \in 0 .. K
      BY <1>1
    <3> QED BY <1>17, <1>18, <3>1
  <2>2. \A n \in 0 .. K : g[n] \in O
    <3> HIDE DEF g, O
    <3> QED BY <1>1, <2>1, StaysIn
  <2> QED BY <2>2
<1>20. ASSUME NEW a \in Addr
       PROVE  Balance(changed[K], a) = IF a \in DOMAIN BalanceChanges THEN BalanceChanges[a]
                                       ELSE Balance(NewState, a)
  <2>1. K \in 0 .. K
    BY <1>1
  <2>2. Balance(changed[K], a) = Val(K, a)
    BY <1>19, <2>1
  <2> QED BY <1>15, <1>16, <2>2
<1> QED BY <1>8, <1>13, <1>20 DEF V

-----------------------------------------------------------------------------
(* The end of a transaction *)

\* A state with other objects, storage and incarnations.
WithData(s, f, g, h) ==
  [objects |-> f, storage |-> g, incarnations |-> h, newCode |-> s.newCode,
   journal |-> s.journal, selfDestructs |-> s.selfDestructs, logs |-> s.logs,
   touched |-> s.touched, refund |-> s.refund, accessed |-> s.accessed,
   accessedKeys |-> s.accessedKeys]

\* A state with other data is a state.
LEMMA DataSet ==
  ASSUME NEW s \in States, NEW f, ObjectMap(f), NEW g, StorageMap(g), NEW h,
         h \in [Addr -> Int]
  PROVE  WithData(s, f, g, h) \in States
<1>1. /\ s.newCode \in SUBSET Code /\ s.journal \in Seq(Deltas)
      /\ s.selfDestructs \in SUBSET Addr /\ s.logs \in Seq(Addr)
      /\ s.touched \in SUBSET Addr /\ s.refund \in Int /\ s.accessed \in SUBSET Addr
      /\ s.accessedKeys \in SUBSET (Addr \X Slot)
  BY StateTypes
<1>2. f \in Partial(Addr, Objects) /\ g \in Partial(Addr, Storages)
  BY DEF ObjectMap, StorageMap, Partial
<1> QED BY <1>1, <1>2 DEF WithData, States

\* The same, written with EXCEPT.
LEMMA DataExcept ==
  ASSUME NEW s \in States, NEW f, NEW g, NEW h, NEW t,
         t = [s EXCEPT !.storage = g, !.objects = f, !.incarnations = h]
  PROVE  t = WithData(s, f, g, h)
<1> DEFINE x4 == s.newCode
           y1 == s.journal
           y2 == s.selfDestructs
           y3 == s.logs
           y4 == s.touched
           y5 == s.refund
           y6 == s.accessed
           y7 == s.accessedKeys
           x1 == s.objects
           x2 == s.storage
           x3 == s.incarnations
<1>1. s = [objects |-> x1, storage |-> x2, incarnations |-> x3, newCode |-> x4,
           journal |-> y1, selfDestructs |-> y2, logs |-> y3, touched |-> y4,
           refund |-> y5, accessed |-> y6, accessedKeys |-> y7]
  BY StateRecord
<1> HIDE DEF x1, x2, x3, x4, y1, y2, y3, y4, y5, y6, y7
<1>2. t = [objects |-> f, storage |-> g, incarnations |-> h, newCode |-> x4,
           journal |-> y1, selfDestructs |-> y2, logs |-> y3, touched |-> y4,
           refund |-> y5, accessed |-> y6, accessedKeys |-> y7]
  BY <1>1
<1> QED BY <1>2 DEF WithData, x4, y1, y2, y3, y4, y5, y6, y7

\* What destruct leaves of the objects, and of the storage.
ObjectsDestructed(s, A) ==
  [a \in DOMAIN s.objects \cup (A \cap DOMAIN db.accounts) |->
     IF a \notin A THEN s.objects[a]
     ELSE [initial |-> IF a \in DOMAIN s.objects THEN s.objects[a].initial
                                                 ELSE ReadAccount(a),
           current |-> None]]
StorageDestructed(s, A) == [a \in DOMAIN s.storage \ A |-> s.storage[a]]
IncarnationsDestructed(s, A) ==
  [a \in Addr |-> IF a \in A THEN s.incarnations[a] + 1 ELSE s.incarnations[a]]

\* destruct, field by field.
LEMMA DestructIs ==
  ASSUME NEW s \in States, NEW A, NEW t, t = Destruct(s, A)
  PROVE  t = WithData(s, ObjectsDestructed(s, A), StorageDestructed(s, A),
                      IncarnationsDestructed(s, A))
<1> DEFINE f == ObjectsDestructed(s, A)
           g == StorageDestructed(s, A)
           h == IncarnationsDestructed(s, A)
           k == DestructStorageKept(s, A)
           x3 == s.incarnations
<1>1. s = [objects |-> s.objects, storage |-> s.storage, incarnations |-> s.incarnations,
           newCode |-> s.newCode, journal |-> s.journal, selfDestructs |-> s.selfDestructs,
           logs |-> s.logs, touched |-> s.touched, refund |-> s.refund,
           accessed |-> s.accessed, accessedKeys |-> s.accessedKeys]
  BY StateRecord
<1>2. k = [s EXCEPT !.storage = g, !.objects = f]
  BY DEF DestructStorageKept, ObjectsDestructed, StorageDestructed
<1>3. k.incarnations = s.incarnations
  BY <1>1, <1>2
<1>4. t = [k EXCEPT !.incarnations = h]
  BY <1>3 DEF Destruct, With, IncarnationsDestructed
<1> HIDE DEF f, g, h, k
<1>5. t = [s EXCEPT !.storage = g, !.objects = f, !.incarnations = h]
  BY <1>1, <1>2, <1>4
<1> QED BY <1>5, DataExcept DEF f, g, h

\* The accounts of a state that is held have their type.
LEMMA HeldAccountType ==
  ASSUME NEW s, Held(s), NEW a \in Addr
  PROVE  /\ Account(s, a) \in Accounts \cup {None}
         /\ Balance(s, a) \in Int
<1>1. /\ s \in States /\ s.objects \in [DOMAIN s.objects -> Objects] /\ db \in Databases
  BY StateTypes DEF Held
<1>2. ReadAccount(a) \in Accounts \cup {None}
  BY <1>1, DatabaseTypes
<1>3. a \in DOMAIN s.objects => s.objects[a].current \in Accounts \cup {None}
  BY <1>1 DEF Objects
<1>4. Account(s, a) \in Accounts \cup {None}
  BY <1>2, <1>3 DEF Account
<1>5. Account(s, a) \in Accounts => Account(s, a).balance \in Int
  BY DEF Accounts
<1> QED BY <1>4, <1>5 DEF Balance, Exists

\* The balances of a held state are integers.
LEMMA HeldCounted == ASSUME NEW s, Held(s) PROVE Counted(s)
BY HeldAccountType DEF Counted

\* destruct leaves the initial accounts as they were read.
LEMMA DestructHeld ==
  ASSUME NEW s, Held(s), NEW A, A \subseteq Addr
  PROVE  /\ Held(Destruct(s, A)) /\ (Hollow(s) => Hollow(Destruct(s, A)))
         /\ \A M \in Int : Within(M, s) => Within(M, Destruct(s, A))
<1> DEFINE f == ObjectsDestructed(s, A)
           g == StorageDestructed(s, A)
           h == IncarnationsDestructed(s, A)
           t == Destruct(s, A)
<1>1. s \in States /\ db \in Databases /\ InitialsMatch(s)
  BY DEF Held
<1>2. t = WithData(s, f, g, h)
  BY <1>1, DestructIs
<1> HIDE DEF t
<1>3. /\ s.objects \in [DOMAIN s.objects -> Objects] /\ DOMAIN s.objects \subseteq Addr
      /\ s.storage \in [DOMAIN s.storage -> Storages] /\ DOMAIN s.storage \subseteq Addr
      /\ s.incarnations \in [Addr -> Int]
  BY <1>1, StateTypes
<1>4. /\ DOMAIN f = DOMAIN s.objects \cup (A \cap DOMAIN db.accounts)
      /\ f = [a \in DOMAIN f |-> f[a]]
      /\ \A a \in DOMAIN f : f[a] =
           IF a \notin A THEN s.objects[a]
           ELSE [initial |-> IF a \in DOMAIN s.objects THEN s.objects[a].initial
                                                       ELSE ReadAccount(a),
                 current |-> None]
  BY DEF ObjectsDestructed
<1> HIDE DEF f
<1>5. ASSUME NEW a \in DOMAIN f
      PROVE  a \in Addr /\ f[a] \in Objects /\ f[a].initial = ReadAccount(a)
  <2>1. a \in Addr
    BY <1>3, <1>4
  <2>2. ReadAccount(a) \in Accounts \cup {None}
    BY <1>1, <2>1, DatabaseTypes
  <2>3. a \in DOMAIN s.objects => s.objects[a].initial = ReadAccount(a)
    BY <1>1 DEF InitialsMatch
  <2>4. CASE a \notin A
    BY <1>3, <1>4, <2>1, <2>3, <2>4
  <2>5. CASE a \in A
    <3>1. f[a] = [initial |-> ReadAccount(a), current |-> None]
      BY <1>4, <2>3, <2>5
    <3> QED BY <2>1, <2>2, <3>1 DEF Objects
  <2> QED BY <2>4, <2>5
<1>6. ObjectMap(f)
  BY <1>4, <1>5 DEF ObjectMap
<1>7. StorageMap(g)
  BY <1>3 DEF StorageMap, StorageDestructed
<1>8. h \in [Addr -> Int]
  BY <1>3 DEF IncarnationsDestructed
<1> HIDE DEF g, h
<1>9. /\ t \in States /\ t.objects = f /\ t.storage = g /\ t.incarnations = h
  BY <1>1, <1>2, <1>6, <1>7, <1>8, DataSet DEF WithData
<1>10. ASSUME Hollow(s) PROVE Hollow(t)
  <2>1. ASSUME NEW a \in Addr, NEW k \in Slot
        PROVE  /\ h[a] \in Nat
               /\ ~Exists(t, a) => CurrentIn(Box(t, a), a, k, h[a]) = 0
    <3>1. s.incarnations[a] \in Nat
      BY <1>10 DEF Hollow
    <3>2. CASE a \in A
      <4>1. Box(t, a) = NewStorage
        BY <1>9, <3>2 DEF Box, g, StorageDestructed
      <4>2. h[a] \in Nat /\ h[a] > 0
        BY <3>1, <3>2 DEF h, IncarnationsDestructed
      <4>3. CurrentIn(NewStorage, a, k, h[a]) = 0
        BY <4>2, NewStorageType DEF CurrentIn, OriginalIn, Fresh
      <4> QED BY <4>1, <4>2, <4>3
    <3>3. CASE a \notin A
      <4>1. Box(t, a) = Box(s, a) /\ h[a] = s.incarnations[a]
        BY <1>9, <3>3 DEF Box, g, h, StorageDestructed, IncarnationsDestructed
      <4>2. Account(t, a) = Account(s, a)
        BY <1>4, <1>9, <3>3 DEF Account
      <4>3. ~Exists(s, a) => CurrentIn(Box(s, a), a, k, s.incarnations[a]) = 0
        BY <1>10 DEF Hollow
      <4> QED BY <3>1, <4>1, <4>2, <4>3 DEF Exists
    <3> QED BY <3>2, <3>3
  <2>2. \A a \in Addr : h[a] \in Nat
    <3>1. \A a \in Addr : s.incarnations[a] \in Nat
      BY <1>10 DEF Hollow
    <3> QED BY <3>1 DEF h, IncarnationsDestructed
  <2> QED BY <1>9, <2>1, <2>2 DEF Hollow
<1>11. Held(t)
  BY <1>1, <1>5, <1>9 DEF Held, InitialsMatch
<1>12. ASSUME NEW a \in Addr PROVE Balance(t, a) = Balance(s, a) \/ Balance(t, a) = 0
  <2>1. CASE a \in DOMAIN f /\ a \in A
    <3>1. a \in DOMAIN s.objects => s.objects[a].initial = ReadAccount(a)
      BY <1>1 DEF InitialsMatch
    <3>2. f[a] = [initial |-> ReadAccount(a), current |-> None]
      BY <1>4, <2>1, <3>1
    <3>3. ~Exists(t, a)
      BY <1>9, <2>1, <3>2 DEF Exists, Account
    <3> QED BY <3>3 DEF Balance
  <2>2. CASE a \in DOMAIN f /\ a \notin A
    <3>1. a \in DOMAIN s.objects /\ f[a] = s.objects[a]
      BY <1>4, <2>2
    <3> QED BY <1>9, <2>2, <3>1 DEF Balance, Exists, Account
  <2>3. CASE a \notin DOMAIN f
    BY <1>4, <1>9, <2>3 DEF Balance, Exists, Account
  <2> QED BY <2>1, <2>2, <2>3
<1>13. ASSUME NEW M \in Int, Within(M, s) PROVE Within(M, t)
  <2>1. Rich(t) /\ \A a \in Addr : Balance(t, a) <= Balance(s, a)
    BY <1>12, <1>13, HeldCounted DEF Within, Rich, Counted
  <2>2. Counted(s) /\ Counted(t)
    BY <1>11, HeldCounted
  <2>3. TotalBalance(t) <= TotalBalance(s)
    BY <2>1, <2>2, TotalLess
  <2>4. TotalBalance(s) \in Int /\ TotalBalance(t) \in Int
    BY <2>2, TotalInt
  <2> QED BY <1>13, <2>1, <2>3, <2>4 DEF Within
<1> QED BY <1>10, <1>11, <1>13 DEF t

\* What finalize_transaction leaves of the storage.
StorageFinal(t) ==
  [committed |-> [k \in DOMAIN t.committed \cup DOMAIN t.current |->
                    [initial |-> IF k \in DOMAIN t.committed
                                 THEN t.committed[k].initial ELSE 0,
                     original |-> IF k \in DOMAIN t.current
                                  THEN t.current[k]
                                  ELSE t.committed[k].original]],
   current |-> Empty]

\* The storage that finalize_transaction leaves is a storage.
LEMMA StorageFinalType ==
  ASSUME NEW b \in Storages
  PROVE  StorageFinal(b) \in Storages
<1> DEFINE f == StorageFinal(b).committed
<1>1. /\ DOMAIN b.committed \subseteq Slot /\ DOMAIN b.current \subseteq Slot
      /\ b.committed \in [DOMAIN b.committed -> [initial : Nat, original : Nat]]
      /\ b.current \in [DOMAIN b.current -> Nat]
  BY StorageTypes
<1>2. /\ StorageFinal(b) = [committed |-> f, current |-> Empty]
      /\ f = [k \in DOMAIN b.committed \cup DOMAIN b.current |-> f[k]]
      /\ DOMAIN f = DOMAIN b.committed \cup DOMAIN b.current
      /\ \A k \in DOMAIN f :
           f[k] = [initial |-> IF k \in DOMAIN b.committed THEN b.committed[k].initial ELSE 0,
                   original |-> IF k \in DOMAIN b.current THEN b.current[k]
                                ELSE b.committed[k].original]
  BY DEF StorageFinal
<1> HIDE DEF f
<1>3. ASSUME NEW k \in DOMAIN f PROVE f[k] \in [initial : Nat, original : Nat]
  <2>1. k \in DOMAIN b.committed =>
          b.committed[k].initial \in Nat /\ b.committed[k].original \in Nat
    BY <1>1
  <2>2. k \in DOMAIN b.current => b.current[k] \in Nat
    BY <1>1
  <2> DEFINE x == IF k \in DOMAIN b.committed THEN b.committed[k].initial ELSE 0
             y == IF k \in DOMAIN b.current THEN b.current[k] ELSE b.committed[k].original
  <2>3. x \in Nat /\ y \in Nat
    BY <1>2, <2>1, <2>2
  <2>4. f[k] = [initial |-> x, original |-> y]
    BY <1>2
  <2> HIDE DEF x, y
  <2> QED BY <2>3, <2>4
<1>4. f \in [DOMAIN f -> [initial : Nat, original : Nat]] /\ DOMAIN f \subseteq Slot
  BY <1>1, <1>2, <1>3
<1>5. Empty \in [DOMAIN Empty -> Nat] /\ DOMAIN Empty \subseteq Slot
  BY DEF Empty
<1> QED BY <1>2, <1>4, <1>5, StorageOf

\* finalize_transaction leaves the current values, as original values as well.
LEMMA StorageFinalView ==
  ASSUME NEW b, NEW a, NEW k, NEW i
  PROVE  /\ OriginalIn(StorageFinal(b), a, k, i) = CurrentIn(b, a, k, i)
         /\ CurrentIn(StorageFinal(b), a, k, i) = CurrentIn(b, a, k, i)
<1> DEFINE c == StorageFinal(b)
<1>1. /\ DOMAIN c.current = {} /\ DOMAIN c.committed = DOMAIN b.committed \cup DOMAIN b.current
      /\ \A x \in DOMAIN c.committed :
           c.committed[x].original = IF x \in DOMAIN b.current THEN b.current[x]
                                     ELSE b.committed[x].original
  BY EmptyType DEF StorageFinal
<1> HIDE DEF c
<1>2. OriginalIn(c, a, k, i) = CurrentIn(b, a, k, i)
  BY <1>1 DEF OriginalIn, CurrentIn
<1>3. CurrentIn(c, a, k, i) = OriginalIn(c, a, k, i)
  BY <1>1 DEF CurrentIn
<1> QED BY <1>2, <1>3 DEF c

\* finalize_transaction leaves the initial accounts as they were read.
LEMMA FinalizeHeld ==
  ASSUME NEW s, Held(s)
  PROVE  /\ Held(FinalizeStorage(s)) /\ (Hollow(s) => Tidy(FinalizeStorage(s)))
         /\ \A M \in Int : Within(M, s) => Within(M, FinalizeStorage(s))
<1> DEFINE g == [a \in DOMAIN s.storage |-> StorageFinal(s.storage[a])]
           t == FinalizeStorage(s)
<1>1. s \in States
  BY DEF Held
<1>2. s.storage \in [DOMAIN s.storage -> Storages] /\ DOMAIN s.storage \subseteq Addr
  BY <1>1, StateTypes
<1>3. t = [s EXCEPT !.storage = g]
  BY DEF FinalizeStorage, StorageFinal
<1>4. StorageMap(g)
  BY <1>2, StorageFinalType DEF StorageMap
<1> HIDE DEF g, t
<1>5. t = WithStorage(s, g, s.journal)
  <2>1. s = [objects |-> s.objects, storage |-> s.storage,
             incarnations |-> s.incarnations, newCode |-> s.newCode,
             journal |-> s.journal, selfDestructs |-> s.selfDestructs, logs |-> s.logs,
             touched |-> s.touched, refund |-> s.refund, accessed |-> s.accessed,
             accessedKeys |-> s.accessedKeys]
    BY <1>1, StateRecord
  <2> QED BY <1>3, <2>1 DEF WithStorage
<1>6. OnlyStorage(s, t)
  BY <1>1, <1>4, <1>5, StateTypes, StorageSet
<1>7. Held(t)
  BY <1>6 DEF OnlyStorage, Held, InitialsMatch
<1>8. /\ t.storage = g /\ t.incarnations = s.incarnations
      /\ \A a \in Addr : Exists(t, a) = Exists(s, a)
  BY <1>5, <1>6 DEF WithStorage, OnlyStorage, Exists, Account
<1>9. ASSUME NEW a \in Addr, NEW k \in Slot
      PROVE  LET i == s.incarnations[a]
             IN  /\ OriginalIn(Box(t, a), a, k, i) = CurrentIn(Box(s, a), a, k, i)
                 /\ CurrentIn(Box(t, a), a, k, i) = CurrentIn(Box(s, a), a, k, i)
  <2> DEFINE i == s.incarnations[a]
  <2>1. CASE a \in DOMAIN s.storage
    <3>1. Box(t, a) = StorageFinal(s.storage[a]) /\ Box(s, a) = s.storage[a]
      BY <1>8, <2>1 DEF Box, g
    <3> QED BY <3>1, StorageFinalView
  <2>2. CASE a \notin DOMAIN s.storage
    <3>1. Box(t, a) = NewStorage /\ Box(s, a) = NewStorage
      BY <1>8, <2>2 DEF Box, g
    <3>2. CurrentIn(NewStorage, a, k, i) = OriginalIn(NewStorage, a, k, i)
      BY NewStorageType DEF CurrentIn
    <3> QED BY <3>1, <3>2
  <2> QED BY <2>1, <2>2
<1>10. Hollow(s) => Tidy(t)
  BY <1>8, <1>9 DEF Hollow, Tidy
<1>11. \A M \in Int : Within(M, s) => Within(M, t)
  <2>1. t.objects = s.objects
    BY <1>6 DEF OnlyStorage
  <2>2. \A a \in Addr : Balance(t, a) = Balance(s, a)
    BY <2>1 DEF Balance, Exists, Account
  <2> QED BY <2>2, TotalSame DEF Within, Rich
<1> QED BY <1>7, <1>10, <1>11 DEF t

-----------------------------------------------------------------------------
(* A balance is set between transactions *)

\* The account of a is c, and nothing else has changed that a block writes.
HeldSet(s, a, c, t) ==
  /\ Held(t) /\ a \in DOMAIN t.objects
  /\ t.storage = s.storage /\ t.incarnations = s.incarnations /\ t.newCode = s.newCode
  /\ t.objects[a].current = c /\ Account(t, a) = c
  /\ \A x \in Addr \ {a} : Account(t, x) = Account(s, x)
  /\ DOMAIN s.objects \subseteq DOMAIN t.objects

\* An object is put between transactions.
LEMMA HeldObject ==
  ASSUME NEW s, Held(s), NEW a \in Addr, NEW o \in Objects, o.initial = ReadAccount(a),
         NEW j \in Seq(Deltas), NEW t,
         t = WithObjects(s, Put(s.objects, a, o), j, s.newCode)
  PROVE  HeldSet(s, a, o.current, t)
<1> DEFINE f == Put(s.objects, a, o)
<1>1. /\ s \in States /\ s.newCode \in SUBSET Code /\ DOMAIN s.objects \subseteq Addr
      /\ s.objects \in [DOMAIN s.objects -> Objects] /\ db \in Databases /\ InitialsMatch(s)
  BY StateTypes DEF Held
<1>2. /\ DOMAIN f = DOMAIN s.objects \cup {a} /\ f[a] = o
      /\ \A x \in DOMAIN s.objects : x # a => f[x] = s.objects[x]
  BY DEF Put
<1>3. ObjectMap(f)
  BY <1>1, <1>2, PutType DEF ObjectMap
<1>8. t = WithObjects(s, f, j, s.newCode) /\ MoreCode(s, s.newCode)
  BY <1>1 DEF MoreCode
<1> HIDE DEF f
<1>4. ObjectsSet(s, f, j, s.newCode, t)
  <2>1. s \in States
    BY <1>1
  <2>2. ObjectsSet(s, f, j, s.newCode, WithObjects(s, f, j, s.newCode))
    BY <1>3, <1>8, <2>1, SetObjects
  <2> QED BY <1>8, <2>2
<1>5. t \in States /\ t.objects = f
  BY <1>4 DEF ObjectsSet, OnlyObjects
<1>6. InitialsMatch(t)
  BY <1>1, <1>2, <1>5 DEF InitialsMatch
<1>7. Account(t, a) = o.current /\ \A x \in Addr \ {a} : Account(t, x) = Account(s, x)
  BY <1>2, <1>5 DEF Account
<1> QED BY <1>1, <1>2, <1>4, <1>5, <1>6, <1>7 DEF HeldSet, Held, ObjectsSet, OnlyObjects

\* Replacing is putting.
LEMMA ReplacePut ==
  ASSUME NEW f, NEW a \in DOMAIN f, NEW o
  PROVE  [f EXCEPT ![a] = o] = Put(f, a, o)
<1>1. DOMAIN f \cup {a} = DOMAIN f
  OBVIOUS
<1> QED BY <1>1 DEF Put

\* A balance is set twice.
LEMMA HeldSetTrans ==
  ASSUME NEW s, NEW a, NEW c, NEW t, HeldSet(s, a, c, t), NEW d, NEW u, HeldSet(t, a, d, u)
  PROVE  HeldSet(s, a, d, u)
BY DEF HeldSet

\* The object that ensure_object makes, whatever the journal holds.
LEMMA EnsureHeld ==
  ASSUME NEW s, Held(s), NEW a \in Addr
  PROVE  HeldSet(s, a, OrNew(s, a), EnsureObject(s, a))
<1> DEFINE r == ReadAccount(a)
           o == [initial |-> r, current |-> r]
           g == GetObject(s, a)
           t == EnsureObject(s, a)
<1>1. /\ s \in States /\ s.objects \in [DOMAIN s.objects -> Objects]
      /\ s.journal \in Seq(Deltas) /\ InitialsMatch(s) /\ db \in Databases
  BY StateTypes DEF Held
<1>2. r \in Accounts \cup {None}
  BY <1>1, DatabaseTypes
<1>3. g = IF a \in DOMAIN s.objects \/ r = None THEN s
          ELSE [s EXCEPT !.objects = Put(@, a, o)]
  BY DEF GetObject, With
<1>4. t = IF Exists(g, a) THEN g
          ELSE IF a \in DOMAIN g.objects
          THEN [Journal(g, [op |-> "Update", addr |-> a, prev |-> g.objects[a]])
                  EXCEPT !.objects[a].current = NewAccount]
          ELSE [Journal(g, [op |-> "Create", addr |-> a])
                  EXCEPT !.objects = Put(@, a, [initial |-> None,
                                                current |-> NewAccount])]
  BY DEF EnsureObject, With
<1> SUFFICES HeldSet(s, a, OrNew(s, a), t)
  OBVIOUS
<1> HIDE DEF t, r
<1>5. CASE a \notin DOMAIN s.objects /\ r # None
  <2>1. o \in Objects /\ o.initial = r /\ o.current = r
    BY <1>2 DEF Objects
  <2> HIDE DEF o
  <2>2. g = WithObjects(s, Put(s.objects, a, o), s.journal, s.newCode)
    BY <1>1, <1>3, <1>5, StateRecord DEF WithObjects
  <2> HIDE DEF g
  <2>3. HeldSet(s, a, r, g)
    BY <1>1, <2>1, <2>2, HeldObject DEF r
  <2>4. Account(s, a) = r /\ Exists(s, a)
    BY <1>5 DEF Account, Exists, r
  <2>5. Exists(g, a)
    BY <1>5, <2>3 DEF HeldSet, Exists
  <2>6. t = g
    BY <1>4, <2>5
  <2> QED BY <2>3, <2>4, <2>6 DEF OrNew
<1>6. CASE a \in DOMAIN s.objects \/ r = None
  <2>1. g = s
    BY <1>3, <1>6
  <2> HIDE DEF g
  <2>2. CASE Exists(s, a)
    <3>1. t = s /\ a \in DOMAIN s.objects
      BY <1>4, <1>6, <2>1, <2>2 DEF Exists, Account, r
    <3> QED BY <2>2, <3>1 DEF HeldSet, OrNew, Account
  <2>3. CASE ~Exists(s, a) /\ a \in DOMAIN s.objects
    <3> DEFINE d == [op |-> "Update", addr |-> a, prev |-> s.objects[a]]
               n == [initial |-> s.objects[a].initial, current |-> NewAccount]
               j == Journal(s, d)
    <3>1. s.objects[a] \in Objects /\ s.objects[a].initial = ReadAccount(a)
      BY <1>1, <2>3 DEF InitialsMatch
    <3>2. n \in Objects /\ n.initial = ReadAccount(a) /\ n.current = NewAccount
      BY <3>1, NewAccountType DEF Objects
    <3>3. [s.objects[a] EXCEPT !.current = NewAccount] = n
      BY <3>1 DEF Objects
    <3>4. [s.objects EXCEPT ![a].current = NewAccount] = [s.objects EXCEPT ![a] = n]
      BY <3>3
    <3>5. d \in Deltas
      BY <3>1 DEF Deltas
    <3>6. t = [j EXCEPT !.objects[a].current = NewAccount]
      BY <1>4, <2>1, <2>3
    <3> HIDE DEF d, n
    <3>7. j = [objects |-> s.objects, storage |-> s.storage, incarnations |-> s.incarnations,
               newCode |-> s.newCode, journal |-> Append(s.journal, d),
               selfDestructs |-> s.selfDestructs, logs |-> s.logs, touched |-> s.touched,
               refund |-> s.refund, accessed |-> s.accessed, accessedKeys |-> s.accessedKeys]
      BY <1>1, JournalIs
    <3> HIDE DEF j
    <3>8. t = WithObjects(s, [s.objects EXCEPT ![a].current = NewAccount],
                          Append(s.journal, d), s.newCode)
      BY <3>6, <3>7 DEF WithObjects
    <3>9. t = WithObjects(s, Put(s.objects, a, n), Append(s.journal, d), s.newCode)
      BY <2>3, <3>4, <3>8, ReplacePut
    <3>10. Append(s.journal, d) \in Seq(Deltas)
      BY <1>1, <3>5
    <3>11. HeldSet(s, a, NewAccount, t)
      BY <3>2, <3>9, <3>10, HeldObject
    <3> QED BY <2>3, <3>11 DEF OrNew
  <2>4. CASE ~Exists(s, a) /\ a \notin DOMAIN s.objects
    <3> DEFINE d == [op |-> "Create", addr |-> a]
               n == [initial |-> None, current |-> NewAccount]
               j == Journal(s, d)
    <3>1. n \in Objects /\ n.initial = ReadAccount(a) /\ n.current = NewAccount
      BY <1>6, <2>4, NewAccountType DEF Objects, r
    <3>2. d \in Deltas
      BY DEF Deltas
    <3>3. t = [j EXCEPT !.objects = Put(@, a, n)]
      BY <1>4, <2>1, <2>4
    <3> HIDE DEF d, n
    <3>4. j = [objects |-> s.objects, storage |-> s.storage, incarnations |-> s.incarnations,
               newCode |-> s.newCode, journal |-> Append(s.journal, d),
               selfDestructs |-> s.selfDestructs, logs |-> s.logs, touched |-> s.touched,
               refund |-> s.refund, accessed |-> s.accessed, accessedKeys |-> s.accessedKeys]
      BY <1>1, JournalIs
    <3> HIDE DEF j
    <3>5. t = WithObjects(s, Put(s.objects, a, n), Append(s.journal, d), s.newCode)
      BY <3>3, <3>4 DEF WithObjects
    <3>6. Append(s.journal, d) \in Seq(Deltas)
      BY <1>1, <3>2
    <3>7. HeldSet(s, a, NewAccount, t)
      BY <3>1, <3>5, <3>6, HeldObject
    <3> QED BY <2>4, <3>7 DEF OrNew
  <2> QED BY <2>2, <2>3, <2>4
<1> QED BY <1>5, <1>6

\* A touch changes nothing that a block writes.
LEMMA TouchHeld ==
  ASSUME NEW s, Held(s), NEW a \in Addr, NEW u, u = Touch(s, a)
  PROVE  /\ Held(u) /\ SameData(s, u) /\ u.newCode = s.newCode
<1> DEFINE t == [s EXCEPT !.touched = @ \cup {a}]
           d == [op |-> "Touch", addr |-> a]
           x == s.touched \cup {a}
<1>1. u = IF a \in s.touched THEN s
          ELSE IF a = RIPEMD_ADDRESS THEN t ELSE Journal(t, d)
  BY DEF Touch, With
<1>2. s \in States /\ s.touched \in SUBSET Addr /\ s.journal \in Seq(Deltas)
  BY StateTypes DEF Held
<1>3. d \in Deltas
  BY DEF Deltas
<1>4. x \in SUBSET Addr
  BY <1>2
<1>5. t = [objects |-> s.objects, storage |-> s.storage, incarnations |-> s.incarnations,
           newCode |-> s.newCode, journal |-> s.journal,
           selfDestructs |-> s.selfDestructs, logs |-> s.logs, touched |-> x,
           refund |-> s.refund, accessed |-> s.accessed, accessedKeys |-> s.accessedKeys]
  <2>1. t = [s EXCEPT !.touched = x]
    OBVIOUS
  <2> HIDE DEF x, t
  <2> QED BY <1>2, <2>1, StateRecord
<1> HIDE DEF t, x, d
<1>6. t \in States
  BY <1>2, <1>4, <1>5 DEF States
<1> DEFINE v == Journal(t, d)
<1>7. v = [objects |-> t.objects, storage |-> t.storage, incarnations |-> t.incarnations,
           newCode |-> t.newCode, journal |-> Append(t.journal, d),
           selfDestructs |-> t.selfDestructs, logs |-> t.logs, touched |-> t.touched,
           refund |-> t.refund, accessed |-> t.accessed, accessedKeys |-> t.accessedKeys]
  BY <1>6, JournalIs
<1>8. Append(t.journal, d) \in Seq(Deltas)
  <2>1. t.journal = s.journal
    BY <1>5
  <2> QED BY <1>2, <1>3, <2>1
<1> HIDE DEF v
<1>9. v \in States
  BY <1>6, <1>7, <1>8 DEF States
<1>10. SameData(s, t) /\ t.newCode = s.newCode
  BY <1>5 DEF SameData
<1>11. SameData(s, v) /\ v.newCode = s.newCode
  BY <1>7, <1>10 DEF SameData
<1>12. u = s \/ u = t \/ u = v
  BY <1>1 DEF v
<1> QED BY <1>6, <1>9, <1>10, <1>11, <1>12 DEF Held, SameData, InitialsMatch

\* set_balance between transactions, when nothing can be undone.
LEMMA SetBalanceHeld ==
  ASSUME NEW s, Held(s), NEW a \in Addr, NEW b \in Int, NEW u, u = SetBalance(s, a, b)
  PROVE  HeldSet(s, a, [OrNew(s, a) EXCEPT !.balance = b], u)
<1> DEFINE t == EnsureObject(s, a)
           d == [op |-> "UpdateBalance", addr |-> a, prev |-> t.objects[a].current.balance]
           w == [Journal(t, d) EXCEPT !.objects[a].current.balance = b]
           c == [t.objects[a].current EXCEPT !.balance = b]
           o == [initial |-> t.objects[a].initial, current |-> c]
           j == Journal(t, d)
<1>1. u = Touch(w, a)
  BY DEF SetBalance, With
<1>2. HeldSet(s, a, OrNew(s, a), t)
  BY EnsureHeld
<1> HIDE DEF t
<1>3. OrNew(s, a) # None
  BY NewAccountType DEF OrNew, Exists
<1>4. t \in States /\ t.objects \in [DOMAIN t.objects -> Objects] /\ Held(t)
      /\ t.journal \in Seq(Deltas)
  BY <1>2, StateTypes DEF HeldSet, Held
<1>5. /\ a \in DOMAIN t.objects /\ t.objects[a].current = OrNew(s, a)
      /\ t.objects[a] \in Objects /\ t.objects[a].initial = ReadAccount(a)
  BY <1>2, <1>4 DEF HeldSet, Held, InitialsMatch
<1>6. /\ [t.objects[a] EXCEPT !.current.balance = b] = o
      /\ c \in Accounts /\ o \in Objects
  BY <1>3, <1>5, BalanceExcept
<1>7. t.objects[a].current.balance \in Int
  BY <1>3, <1>5 DEF Objects, Accounts
<1>8. d \in Deltas
  BY <1>7 DEF Deltas
<1> HIDE DEF d
<1>9. j = [objects |-> t.objects, storage |-> t.storage, incarnations |-> t.incarnations,
           newCode |-> t.newCode, journal |-> Append(t.journal, d),
           selfDestructs |-> t.selfDestructs, logs |-> t.logs, touched |-> t.touched,
           refund |-> t.refund, accessed |-> t.accessed, accessedKeys |-> t.accessedKeys]
  BY <1>4, JournalIs
<1>10. w = [j EXCEPT !.objects[a].current.balance = b]
  OBVIOUS
<1> HIDE DEF j, w
<1>11. w = WithObjects(t, [t.objects EXCEPT ![a].current.balance = b],
                       Append(t.journal, d), t.newCode)
  BY <1>9, <1>10 DEF WithObjects
<1>12. [t.objects EXCEPT ![a].current.balance = b] = [t.objects EXCEPT ![a] = o]
  BY <1>6
<1>13. o.initial = ReadAccount(a) /\ o.current = c
  BY <1>5
<1>17. c = [OrNew(s, a) EXCEPT !.balance = b]
  BY <1>5
<1> HIDE DEF o, c
<1>14. w = WithObjects(t, Put(t.objects, a, o), Append(t.journal, d), t.newCode)
  BY <1>5, <1>11, <1>12, ReplacePut
<1>15. Append(t.journal, d) \in Seq(Deltas)
  BY <1>4, <1>8
<1>16. HeldSet(t, a, c, w)
  BY <1>4, <1>6, <1>13, <1>14, <1>15, HeldObject
<1>18. HeldSet(s, a, c, w)
  BY <1>2, <1>16, HeldSetTrans
<1>19. Held(u) /\ SameData(w, u) /\ u.newCode = w.newCode
  BY <1>1, <1>18, TouchHeld DEF HeldSet
<1>20. HeldSet(s, a, c, u)
  BY <1>18, <1>19 DEF HeldSet, SameData, Account
<1> QED BY <1>17, <1>20, Zenon

\* add_to_balance between transactions.
LEMMA AddHeld ==
  ASSUME NEW s, Held(s), NEW a \in Addr, NEW n \in Int, NEW u, u = AddToBalance(s, a, n)
  PROVE  HeldSet(s, a, [OrNew(s, a) EXCEPT !.balance = Balance(s, a) + n], u)
<1>1. Balance(s, a) + n \in Int
  BY HeldAccountType
<1>2. u = SetBalance(s, a, Balance(s, a) + n)
  BY DEF AddToBalance, With
<1> QED BY <1>1, <1>2, SetBalanceHeld

-----------------------------------------------------------------------------
(* The end of a transaction and of a block *)

\* The gas that is left is a number.
LEMMA GasLeftType ==
  ASSUME NEW s, Held(s), NEW t \in Txs, NEW g \in Int
  PROVE  GasLeft(s, t, g) \in Int
<1> DEFINE n == Cardinality(s.selfDestructs)
           refund == s.refund + IF Revision < London THEN 24000 * n ELSE 0
           quotient == IF Revision >= London THEN 5 ELSE 2
           half == (t.gasLimit - g) \div quotient
<1>1. s \in States /\ s.refund \in Int /\ s.selfDestructs \in SUBSET Addr
  BY StateTypes DEF Held
<1>2. n \in Nat
  BY <1>1, AddrAssumption, FS_Subset, FS_CardinalityType
<1> HIDE DEF n
<1>3. refund \in Int
  BY <1>1, <1>2
<1>4. t.gasLimit \in Nat
  BY TxTypes
<1>5. half \in Int
  BY <1>4
<1>6. GasLeft(s, t, g) = g + Min({refund, half})
  BY DEF GasLeft, n
<1> HIDE DEF refund, half
<1>7. Min({refund, half}) \in Int
  BY <1>3, <1>5, MinIs
<1> QED BY <1>6, <1>7

\* No more gas is given back than the transaction has bought.
LEMMA GasLeftWithin ==
  ASSUME NEW s, Held(s), s.refund >= 0, NEW t \in Txs, NEW g \in Nat, g <= t.gasLimit
  PROVE  GasLeft(s, t, g) \in 0 .. t.gasLimit
<1> DEFINE n == Cardinality(s.selfDestructs)
           refund == s.refund + IF Revision < London THEN 24000 * n ELSE 0
           quotient == IF Revision >= London THEN 5 ELSE 2
           half == (t.gasLimit - g) \div quotient
           m == Min({refund, half})
<1>1. s \in States /\ s.refund \in Int /\ s.selfDestructs \in SUBSET Addr
  BY StateTypes DEF Held
<1>2. n \in Nat
  BY <1>1, AddrAssumption, FS_Subset, FS_CardinalityType
<1> HIDE DEF n
<1>3. refund \in Nat
  BY <1>1, <1>2
<1>4. t.gasLimit \in Nat
  BY TxTypes
<1>5. half \in Nat /\ half <= t.gasLimit - g
  BY <1>4
<1>6. GasLeft(s, t, g) = g + m
  BY DEF GasLeft, n
<1> HIDE DEF refund, half
<1>7. m = IF refund <= half THEN refund ELSE half
  BY <1>3, <1>5, MinIs
<1> HIDE DEF m
<1> QED BY <1>3, <1>4, <1>5, <1>6, <1>7

\* In a sane state the storage of an account that is not there is empty.
LEMMA SaneHollow ==
  ASSUME NEW b, NEW s, Good(s), Sane(b, s)
  PROVE  Hollow(s)
<1>1. \A a, k : Current(s, a, k) = CurrentIn(Box(s, a), a, k, s.incarnations[a])
  BY PlainView DEF Good
<1>2. \A a \in Addr : s.incarnations[a] \in Nat
  BY DEF Sane
<1> QED BY <1>1, <1>2 DEF Sane, Hollow

\* The end of execute_transaction keeps the initial accounts as they were read.
LEMMA FinishHeld ==
  ASSUME NEW t \in Txs, tx = t, Good(ibs), pending \in Outputs, FinishTransaction
  PROVE  /\ Held(ibs') /\ \A b : Sane(b, ibs) => Tidy(ibs')
         /\ \A M \in Int :
              Kept(M - tx.gasLimit * EffectivePrice(tx), ibs) /\ pending.gas <= tx.gasLimit
                => Within(M, ibs')
<1> DEFINE left == GasLeft(ibs, tx, pending.gas)
           used == tx.gasLimit - left
           refunded == AddToBalance(ibs, tx.sender, left * EffectivePrice(tx))
           awarded == AddToBalance(refunded, Beneficiary, used * PriorityFee(tx))
           gone == Destruct(awarded, awarded.selfDestructs)
           dead == {a \in gone.touched : IsDead(gone, a)}
           cleaned == IF Revision < Spurious THEN gone ELSE Destruct(gone, dead)
<1>1. ibs' = FinalizeStorage(cleaned)
  <2> DEFINE first == With(awarded, LAMBDA s : Destruct(s, s.selfDestructs))
             second == With(gone, LAMBDA s : Destruct(s, {a \in s.touched : IsDead(s, a)}))
  <2>1. first = gone
    <3> HIDE DEF awarded
    <3> QED BY DEF With
  <2>2. second = Destruct(gone, dead)
    <3> HIDE DEF gone
    <3> QED BY DEF With
  <2>3. ibs' = FinalizeStorage(IF Revision < Spurious THEN first
                               ELSE With(first, LAMBDA s :
                                      Destruct(s, {a \in s.touched : IsDead(s, a)})))
    BY DEF FinishTransaction
  <2> QED BY <2>1, <2>2, <2>3
<1>2. /\ tx.sender \in Addr /\ tx.gasLimit \in Nat /\ EffectivePrice(tx) \in Nat
      /\ PriorityFee(tx) \in Nat /\ Beneficiary \in Addr /\ tx \in Txs
  BY TxTypes, AddrAssumption
<1>3. left \in Int
  <2>1. pending.gas \in Int
    BY DEF Outputs
  <2> QED BY <1>2, <2>1, GoodHeld, GasLeftType
<1> DEFINE spent == tx.gasLimit * EffectivePrice(tx)
           Owed(M) == Kept(M - spent, ibs) /\ pending.gas <= tx.gasLimit
<1>10. ASSUME NEW M \in Int, Owed(M) PROVE left \in Nat /\ left <= tx.gasLimit
  <2>1. pending.gas \in Nat
    BY DEF Outputs
  <2>2. ibs.refund >= 0
    BY <1>10 DEF Kept, Solvent, Refundable
  <2>3. Held(ibs)
    BY GoodHeld
  <2> QED BY <1>10, <2>1, <2>2, <2>3, GasLeftWithin
<1> HIDE DEF left
<1>4. used \in Int
  BY <1>2, <1>3
<1> DEFINE back == left * EffectivePrice(tx)
           award == used * PriorityFee(tx)
<1>11. ASSUME NEW M \in Int, Owed(M)
       PROVE  back \in Nat /\ award \in Nat /\ spent \in Nat /\ back + award <= spent
  <2>1. left \in Nat /\ left <= tx.gasLimit /\ used \in Nat /\ used = tx.gasLimit - left
    BY <1>2, <1>3, <1>10, <1>11
  <2> DEFINE p == EffectivePrice(tx)
             f == PriorityFee(tx)
             g == tx.gasLimit
  <2>2. p \in Nat /\ f \in Nat /\ f <= p /\ g \in Nat
    BY <1>2, FeeAssumption DEF EffectivePrice
  <2> HIDE DEF used, p, f, g
  <2>3. left * p \in Nat /\ used * f \in Nat /\ g * p \in Nat
    BY <2>1, <2>2
  <2>4. used * f <= used * p /\ used * p \in Nat
    BY <2>1, <2>2
  <2>5. left * p + used * p = g * p
    BY <2>1, <2>2 DEF g
  <2> QED BY <2>3, <2>4, <2>5 DEF p, f, g
<1> HIDE DEF used, spent
<1>5. Runs(ibs, refunded) /\ Good(refunded)
  <2>1. left * EffectivePrice(tx) \in Int
    BY <1>2, <1>3
  <2> QED BY <1>2, <2>1, AddRuns, RunsGood
<1>12. ASSUME NEW M \in Int, Owed(M) PROVE Kept((M - spent) + back, refunded)
  <2>1. back \in Nat /\ M - spent \in Int
    BY <1>11, <1>12
  <2> HIDE DEF back
  <2> QED BY <1>2, <1>12, <2>1, AddKept DEF back
<1> HIDE DEF refunded
<1>6. Held(awarded) /\ \A b : Sane(b, ibs) => Hollow(awarded)
  <2>1. used * PriorityFee(tx) \in Int
    BY <1>2, <1>4
  <2>2. Runs(refunded, awarded) /\ Good(awarded)
    BY <1>2, <1>5, <2>1, AddRuns, RunsGood
  <2>3. \A b : Sane(b, ibs) => Sane(b, awarded)
    BY <1>5, <2>2 DEF Runs
  <2> QED BY <2>2, <2>3, GoodHeld, SaneHollow
<1>13. ASSUME NEW M \in Int, Owed(M) PROVE Within(M, awarded)
  <2>1. award \in Nat /\ back \in Nat /\ spent \in Nat /\ back + award <= spent
    BY <1>11, <1>13
  <2>2. Kept((M - spent) + back, refunded)
    BY <1>12, <1>13
  <2> HIDE DEF back, award
  <2>3. (M - spent) + back \in Int /\ ((M - spent) + back) + award <= M
        /\ ((M - spent) + back) + award \in Int
    BY <2>1
  <2>4. Good(awarded) /\ Kept(((M - spent) + back) + award, awarded)
    BY <1>2, <1>5, <2>1, <2>2, <2>3, AddKept DEF award
  <2>5. Kept(M, awarded)
    BY <2>3, <2>4, KeptMore
  <2> QED BY <2>5 DEF Kept, Within, Solvent
<1> HIDE DEF awarded
<1>7. Held(gone) /\ (Hollow(awarded) => Hollow(gone))
      /\ \A M \in Int : Within(M, awarded) => Within(M, gone)
  <2>1. awarded.selfDestructs \subseteq Addr
    BY <1>6, StateTypes DEF Held
  <2> QED BY <1>6, <2>1, DestructHeld
<1> HIDE DEF gone
<1>8. Held(cleaned) /\ (Hollow(gone) => Hollow(cleaned))
      /\ \A M \in Int : Within(M, gone) => Within(M, cleaned)
  <2>1. dead \subseteq Addr
    BY <1>7, StateTypes DEF Held
  <2> HIDE DEF dead
  <2> QED BY <1>7, <2>1, DestructHeld
<1> HIDE DEF cleaned
<1>9. Held(ibs') /\ (Hollow(cleaned) => Tidy(ibs'))
      /\ \A M \in Int : Within(M, cleaned) => Within(M, ibs')
  BY <1>1, <1>8, FinalizeHeld
<1> QED BY <1>6, <1>7, <1>8, <1>9, <1>13 DEF spent

\* The parts of a database.
DatabaseParts(f, g, c, h, i, n) ==
  /\ f \in [DOMAIN f -> Accounts] /\ DOMAIN f \subseteq Addr
  /\ g \in [Addr \X Slot -> Nat] /\ c \in SUBSET Code
  /\ h \in [DOMAIN h -> Accounts \cup {None}] /\ DOMAIN h \subseteq Addr
  /\ i \in [DOMAIN i -> Nat] /\ DOMAIN i \subseteq Addr \X Slot /\ n \in Nat

\* A database made of its parts.
LEMMA DatabaseOf ==
  ASSUME NEW f, NEW g, NEW c, NEW h, NEW i, NEW n, DatabaseParts(f, g, c, h, i, n)
  PROVE  [accounts |-> f, storage |-> g, codes |-> c, accountChanges |-> h,
          storageChanges |-> i, number |-> n] \in Databases
<1>1. /\ f \in Partial(Addr, Accounts) /\ h \in Partial(Addr, Accounts \cup {None})
      /\ i \in Partial(Addr \X Slot, Nat)
  BY DEF Partial, DatabaseParts
<1> QED BY <1>1 DEF Databases, DatabaseParts

\* The parts that a database is made of.
LEMMA DatabaseFields ==
  ASSUME NEW d \in Databases
  PROVE  /\ d.accounts \in [DOMAIN d.accounts -> Accounts] /\ DOMAIN d.accounts \subseteq Addr
         /\ d.storage \in [Addr \X Slot -> Nat] /\ d.codes \in SUBSET Code
         /\ d.accountChanges \in [DOMAIN d.accountChanges -> Accounts \cup {None}]
         /\ DOMAIN d.accountChanges \subseteq Addr
         /\ d.storageChanges \in [DOMAIN d.storageChanges -> Nat]
         /\ DOMAIN d.storageChanges \subseteq Addr \X Slot
         /\ d.number \in Nat
         /\ d = [accounts |-> d.accounts, storage |-> d.storage, codes |-> d.codes,
                 accountChanges |-> d.accountChanges, storageChanges |-> d.storageChanges,
                 number |-> d.number]
<1>1. /\ d.accounts \in Partial(Addr, Accounts)
      /\ d.accountChanges \in Partial(Addr, Accounts \cup {None})
      /\ d.storageChanges \in Partial(Addr \X Slot, Nat)
      /\ d.storage \in [Addr \X Slot -> Nat] /\ d.codes \in SUBSET Code /\ d.number \in Nat
      /\ d = [accounts |-> d.accounts, storage |-> d.storage, codes |-> d.codes,
              accountChanges |-> d.accountChanges, storageChanges |-> d.storageChanges,
              number |-> d.number]
  BY DEF Databases
<1>2. \A D, R, f : f \in Partial(D, R) => f \in [DOMAIN f -> R] /\ DOMAIN f \subseteq D
  BY DEF Partial
<1>3. d.accounts \in [DOMAIN d.accounts -> Accounts] /\ DOMAIN d.accounts \subseteq Addr
  BY <1>1, <1>2
<1>4. /\ d.accountChanges \in [DOMAIN d.accountChanges -> Accounts \cup {None}]
      /\ DOMAIN d.accountChanges \subseteq Addr
  BY <1>1, <1>2
<1>5. /\ d.storageChanges \in [DOMAIN d.storageChanges -> Nat]
      /\ DOMAIN d.storageChanges \subseteq Addr \X Slot
  BY <1>1, <1>2
<1> QED BY <1>1, <1>3, <1>4, <1>5

\* write_to_db leaves a database.
LEMMA WrittenType ==
  ASSUME NEW s, Held(s)
  PROVE  Written(s) \in Databases
<1> DEFINE Updated(p) == /\ p[1] \in DOMAIN s.storage
                         /\ p[1] \in DOMAIN s.objects /\ s.objects[p[1]].current # None
                         /\ p[2] \in DOMAIN s.storage[p[1]].committed
           Erased(p) == s.incarnations[p[1]] > 0
           Slots == Addr \X Slot
           f == [a \in {x \in Addr : Exists(s, x)} |-> Account(s, a)]
           g == [p \in Slots |-> IF Updated(p) THEN s.storage[p[1]].committed[p[2]].original
                                 ELSE IF Erased(p) THEN 0
                                 ELSE db.storage[p]]
           c == db.codes \cup s.newCode
           h == [a \in DOMAIN s.objects |-> s.objects[a].initial]
           i == [p \in {q \in Slots : \/ Updated(q)
                                      \/ Erased(q) /\ db.storage[q] # 0} |->
                   IF Updated(p) THEN s.storage[p[1]].committed[p[2]].initial
                   ELSE db.storage[p]]
<1>1. Written(s) = [accounts |-> f, storage |-> g, codes |-> c, accountChanges |-> h,
                    storageChanges |-> i, number |-> db.number + 1]
  BY DEF Written
<1>2. /\ s \in States /\ db \in Databases /\ InitialsMatch(s)
      /\ s.objects \in [DOMAIN s.objects -> Objects] /\ DOMAIN s.objects \subseteq Addr
      /\ s.storage \in [DOMAIN s.storage -> Storages] /\ s.newCode \in SUBSET Code
  BY StateTypes DEF Held
<1>3. db.storage \in [Slots -> Nat] /\ db.codes \in SUBSET Code /\ db.number \in Nat
  BY <1>2, DatabaseFields
<1>4. f \in [DOMAIN f -> Accounts] /\ DOMAIN f \subseteq Addr
  BY HeldAccountType DEF Exists
<1>5. ASSUME NEW p \in Slots, Updated(p)
      PROVE  /\ s.storage[p[1]].committed[p[2]].original \in Nat
             /\ s.storage[p[1]].committed[p[2]].initial \in Nat
  <2>1. s.storage[p[1]] \in Storages
    BY <1>2, <1>5
  <2>2. s.storage[p[1]].committed[p[2]] \in [initial : Nat, original : Nat]
    BY <1>5, <2>1, StorageTypes
  <2> QED BY <2>2
<1>6. h \in [DOMAIN h -> Accounts \cup {None}] /\ DOMAIN h \subseteq Addr
  BY <1>2 DEF Objects
<1>7. c \in SUBSET Code
  BY <1>2, <1>3
<1> HIDE DEF Updated, Erased
<1>8. g \in [Slots -> Nat]
  BY <1>3, <1>5
<1>9. i \in [DOMAIN i -> Nat] /\ DOMAIN i \subseteq Slots
  BY <1>3, <1>5
<1>10. db.number + 1 \in Nat
  BY <1>3
<1> HIDE DEF f, g, c, h, i
<1>11. DatabaseParts(f, g, c, h, i, db.number + 1)
  BY <1>4, <1>6, <1>7, <1>8, <1>9, <1>10 DEF DatabaseParts
<1> QED BY <1>1, <1>11, DatabaseOf

\* And so does unwind_state_changes.
LEMMA UnwoundType ==
  ASSUME NEW d \in Databases, NEW e, e = Unwound(d)
  PROVE  e \in Databases
<1> DEFINE f == [a \in {x \in Addr : IF x \in DOMAIN d.accountChanges
                                     THEN d.accountChanges[x] # None
                                     ELSE x \in DOMAIN d.accounts} |->
                   IF a \in DOMAIN d.accountChanges THEN d.accountChanges[a]
                                                    ELSE d.accounts[a]]
           g == [p \in Addr \X Slot |->
                   IF p \in DOMAIN d.storageChanges THEN d.storageChanges[p]
                                                    ELSE d.storage[p]]
           c == d.codes
           n == d.number
           x1 == d.accounts
           x2 == d.storage
           x3 == d.accountChanges
           x4 == d.storageChanges
<1>1. /\ x1 \in [DOMAIN x1 -> Accounts] /\ x2 \in [Addr \X Slot -> Nat]
      /\ x3 \in [DOMAIN x3 -> Accounts \cup {None}] /\ x4 \in [DOMAIN x4 -> Nat]
      /\ c \in SUBSET Code /\ n \in Nat
      /\ d = [accounts |-> x1, storage |-> x2, codes |-> c, accountChanges |-> x3,
              storageChanges |-> x4, number |-> n]
  BY DatabaseFields
<1>2. f \in [DOMAIN f -> Accounts] /\ DOMAIN f \subseteq Addr
  BY <1>1
<1>3. g \in [Addr \X Slot -> Nat]
  BY <1>1
<1>4. e = [d EXCEPT !.accounts = f, !.storage = g, !.accountChanges = Empty,
                    !.storageChanges = Empty]
  BY DEF Unwound
<1> HIDE DEF f, g, c, n, x1, x2, x3, x4
<1>5. e = [accounts |-> f, storage |-> g, codes |-> c, accountChanges |-> Empty,
           storageChanges |-> Empty, number |-> n]
  BY <1>1, <1>4
<1>6. /\ Empty \in [DOMAIN Empty -> Accounts \cup {None}] /\ DOMAIN Empty \subseteq Addr
      /\ Empty \in [DOMAIN Empty -> Nat] /\ DOMAIN Empty \subseteq Addr \X Slot
  BY DEF Empty
<1>7. DatabaseParts(f, g, c, Empty, Empty, n)
  BY <1>1, <1>2, <1>3, <1>6 DEF DatabaseParts
<1> QED BY <1>5, <1>7, DatabaseOf

-----------------------------------------------------------------------------
(* The invariant *)

\* What is to be handled next.
PendingIn(d, s, k, p) ==
  p # None =>
    /\ p \in Messages \cup Outputs \cup Halts
    /\ p \in Outputs => k = <<>>
    /\ p \in Halts => k # <<>>
    /\ p \in Messages => MessageIn(d, s, p)

\* During a transaction every snapshot on the stack can be reverted to;
\* between transactions there is none.
Revertible ==
  /\ db \in Databases
  /\ ibs # None => HeldIn(db, ibs)
  /\ tx = None => stack = <<>> /\ pending = None
  /\ tx # None => /\ ibs # None /\ tx \in Txs
                  /\ GoodIn(db, ibs) /\ FramesIn(db, ibs, stack)
                  /\ PendingIn(db, ibs, stack, pending)

\* What Revertible says during a transaction.
LEMMA InTransaction ==
  ASSUME Revertible, tx # None
  PROVE  /\ tx \in Txs /\ Good(ibs) /\ Frames(ibs, stack) /\ db \in Databases
         /\ PendingIn(db, ibs, stack, pending)
BY GoodSame, FramesSame DEF Revertible

\* What Revertible says between transactions.
LEMMA Between ==
  ASSUME Revertible, ibs # None
  PROVE  Held(ibs)
BY HeldSame DEF Revertible

\* A state is not None.
LEMMA StateNotNone == \A s \in States : s # None
BY NoneAssumption

\* Messages, outputs and halts are told apart by their kind.
LEMMA KindsApart ==
  ASSUME NEW p \in Messages \cup Outputs \cup Halts
  PROVE  /\ p \in Messages <=> p.kind \in {"Call", "CallCode", "DelegateCall", "Create"}
         /\ p \in Outputs <=> p.kind = "Output"
         /\ p \in Halts <=> p.kind = "Halt"
         /\ p # None
BY NoneAssumption DEF Messages, Outputs, Halts

\* The transaction goes on.
LEMMA GoesOn ==
  ASSUME Revertible, tx # None, db' = db, tx' = tx,
         Good(ibs'), Frames(ibs', stack'), PendingIn(db', ibs', stack', pending')
  PROVE  Revertible'
<1>1. /\ tx \in Txs /\ db \in Databases
  BY InTransaction
<1>2. /\ HeldIn(db', ibs') /\ GoodIn(db', ibs') /\ FramesIn(db', ibs', stack')
      /\ ibs' # None
  BY GoodHeld, HeldSame, GoodSame, FramesSame, StateNotNone
<1> QED BY <1>1, <1>2 DEF Revertible

\* No transaction is in execution afterwards.
LEMMA NoneAfter ==
  ASSUME db' \in Databases, ibs' # None => HeldIn(db', ibs'), tx' = None,
         stack' = <<>>, pending' = None
  PROVE  Revertible'
BY DEF Revertible

-----------------------------------------------------------------------------
(* The worlds that the messages in execution started from *)

Saved == [i \in DOMAIN stack |-> World(RevertToSnapshot(ibs, stack[i].snapshot))]
TheWorld == IF Idle THEN None ELSE World(ibs)
Rolls ==
  \/ Saved' = Saved
  \/ Len(Saved') = Len(Saved) + 1 /\ IsPrefix(Saved, Saved')
  \/ /\ Saved # <<>> /\ Saved' = Front(Saved)
     /\ status' # "Success" => TheWorld' = Last(Saved)

\* World is WorldIn the database as it is.
LEMMA WorldIs == ASSUME NEW s PROVE World(s) = WorldIn(db, s)
BY DEF World, StorageNow, StorageAt, Exists, Account, ReadAccount, WorldIn, StorageAtIn,
       ExistsIn, AccountIn, ReadIn

\* What the frames lead back to after a step.
LEMMA SavedNext ==
  Saved' = [i \in DOMAIN stack' |-> WorldIn(db', RevertToSnapshot(ibs', stack'[i].snapshot))]
BY DEF Saved, World, StorageNow, StorageAt, Exists, Account, ReadAccount, WorldIn,
       StorageAtIn, ExistsIn, AccountIn, ReadIn

\* The world after a step.
LEMMA TheWorldNext == TheWorld' = IF ibs' = None THEN None ELSE WorldIn(db', ibs')
BY DEF TheWorld, Idle, World, StorageNow, StorageAt, Exists, Account, ReadAccount, WorldIn,
       StorageAtIn, ExistsIn, AccountIn, ReadIn

\* The worlds as a sequence.
LEMMA SavedIs ==
  ASSUME Frames(ibs, stack)
  PROVE  /\ Len(stack) \in Nat /\ Len(Saved) = Len(stack)
         /\ Saved = [i \in 1 .. Len(stack) |-> SavedWorld(ibs, stack[i])]
<1>1. stack \in Seq(FrameRecords)
  BY DEF Frames
<1>2. Len(stack) \in Nat /\ DOMAIN stack = 1 .. Len(stack)
  BY <1>1, LenProperties
<1>3. Saved = [i \in 1 .. Len(stack) |-> SavedWorld(ibs, stack[i])]
  BY <1>2 DEF Saved, SavedWorld
<1> HIDE DEF Saved
<1>4. Saved \in Seq({SavedWorld(ibs, stack[i]) : i \in 1 .. Len(stack)})
  BY <1>2, <1>3
<1>5. Len(Saved) = Len(stack)
  BY <1>2, <1>3, <1>4
<1> QED BY <1>2, <1>3, <1>5

\* The worlds after a step that leaves the database alone, as a sequence.
LEMMA SavedNextIs ==
  ASSUME db' = db, Frames(ibs', stack')
  PROVE  /\ Len(stack') \in Nat /\ Len(Saved') = Len(stack')
         /\ Saved' = [i \in 1 .. Len(stack') |-> SavedWorld(ibs', stack'[i])]
<1>1. stack' \in Seq(FrameRecords)
  BY DEF Frames
<1>2. Len(stack') \in Nat /\ DOMAIN stack' = 1 .. Len(stack')
  BY <1>1, LenProperties
<1> DEFINE q == [i \in 1 .. Len(stack') |-> SavedWorld(ibs', stack'[i])]
<1>3. Saved' = q
  <2>1. \A i : WorldIn(db', RevertToSnapshot(ibs', stack'[i].snapshot))
                 = SavedWorld(ibs', stack'[i])
    BY WorldIs DEF SavedWorld
  <2> QED BY <1>2, <2>1, SavedNext
<1>4. q \in Seq({SavedWorld(ibs', stack'[i]) : i \in 1 .. Len(stack')}) /\ Len(q) = Len(stack')
  BY <1>2
<1> QED BY <1>2, <1>3, <1>4

\* Nothing has started from a world, before and after.
LEMMA NothingSaved ==
  ASSUME stack = <<>>, stack' = <<>>
  PROVE  Rolls
<1>1. DOMAIN stack = {} /\ DOMAIN stack' = {}
  OBVIOUS
<1>2. Saved = [i \in {} |-> World(RevertToSnapshot(ibs, stack[i].snapshot))]
  BY <1>1 DEF Saved
<1>3. Saved' = [i \in {} |-> WorldIn(db', RevertToSnapshot(ibs', stack'[i].snapshot))]
  BY <1>1, SavedNext
<1>4. Saved' = Saved
  BY <1>2, <1>3
<1> QED BY <1>4 DEF Rolls

\* Original values are kept, also by the states that messages are reverted to.
AllSane(b, s, k) == Sane(b, s) /\ \A i \in 1 .. Len(k) : Sane(b, Saving(s, k[i]))
SaneStays == \A b : AllSane(b, ibs, stack) => AllSane(b, ibs', stack')

\* No balance and no refund is overdrawn and no ether appears, not even when a
\* message is reverted.
AllKept(M, s, k) == Kept(M, s) /\ \A i \in 1 .. Len(k) : Kept(M, Saving(s, k[i]))
KeptStays == \A M \in Int : AllKept(M, ibs, stack) => AllKept(M, ibs', stack')

\* The state that a frame would be reverted to is good, with its refund.
LEMMA SavingIs ==
  ASSUME NEW s, Good(s), NEW k, Frames(s, k), NEW i \in 1 .. Len(k)
  PROVE  Good(Saving(s, k[i])) /\ Saving(s, k[i]).refund = k[i].snapshot.refund
<1>1. Snapshot(s, k[i].snapshot)
  BY DEF Frames
<1>2. Reverted(s, k[i].snapshot, Saving(s, k[i]))
  BY <1>1, RevertIs DEF Saving
<1> QED BY <1>2 DEF Reverted

\* What shows the same and has the same refund stays within the bound.
LEMMA KeptSame ==
  ASSUME NEW M \in Int, NEW s, Good(s), NEW t, SameView(s, t), t.refund = s.refund,
         Kept(M, s)
  PROVE  Kept(M, t)
BY ViewCalm, CalmPays DEF Pays

\* So does the state that a frame would be reverted to.
LEMMA FrameKept ==
  ASSUME NEW M \in Int, NEW s, Good(s), NEW k, Frames(s, k), NEW t, Good(t), NEW q, Frames(t, q),
         NEW i \in 1 .. Len(k), i \in 1 .. Len(q), q[i] = k[i],
         SameView(Saving(s, k[i]), Saving(t, q[i])), Kept(M, Saving(s, k[i]))
  PROVE  Kept(M, Saving(t, q[i]))
BY SavingIs, KeptSame

\* The stack stays as it is.
LEMMA SteppedRolls ==
  ASSUME Good(ibs), Frames(ibs, stack), db' = db, Stepped
  PROVE  Good(ibs') /\ Frames(ibs', stack') /\ Rolls /\ SaneStays /\ KeptStays
<1>1. Runs(ibs, ibs') /\ stack' = stack
  BY DEF Stepped
<1>2. /\ Frames(ibs', stack)
      /\ \A i \in 1 .. Len(stack) : SavedWorld(ibs', stack[i]) = SavedWorld(ibs, stack[i])
      /\ \A i \in 1 .. Len(stack) : SameView(Saving(ibs, stack[i]), Saving(ibs', stack[i]))
  BY <1>1, FramesStay
<1>3. Saved = [i \in 1 .. Len(stack) |-> SavedWorld(ibs, stack[i])]
  BY SavedIs
<1>4. Saved' = [i \in 1 .. Len(stack) |-> SavedWorld(ibs', stack[i])]
  BY <1>1, <1>2, SavedNextIs
<1>5. Saved' = Saved
  BY <1>2, <1>3, <1>4
<1>6. SaneStays
  <2>1. \A b : Sane(b, ibs) => Sane(b, ibs')
    BY <1>1 DEF Runs
  <2> QED BY <1>1, <1>2, <2>1, SaneSame DEF SaneStays, AllSane
<1>7. KeptStays
  <2>1. SUFFICES ASSUME NEW M \in Int, AllKept(M, ibs, stack)
                PROVE  AllKept(M, ibs', stack')
    BY DEF KeptStays
  <2>2. Kept(M, ibs')
    BY <2>1 DEF AllKept, Stepped, Pays
  <2>3. Good(ibs')
    BY <1>1, RunsGood
  <2>4. \A i \in 1 .. Len(stack) : Kept(M, Saving(ibs', stack[i]))
    BY <1>2, <2>1, <2>3, FrameKept DEF AllKept
  <2> QED BY <1>1, <2>2, <2>4 DEF AllKept
<1> QED BY <1>1, <1>2, <1>5, <1>6, <1>7, RunsGood DEF Rolls

\* A sequence with one more member.
LEMMA PrefixOf ==
  ASSUME NEW p, NEW q, Len(p) \in Nat, Len(q) = Len(p) + 1,
         p = [i \in 1 .. Len(p) |-> p[i]], q = [i \in 1 .. Len(q) |-> q[i]],
         \A i \in 1 .. Len(p) : q[i] = p[i]
  PROVE  IsPrefix(p, q)
BY DEF IsPrefix

\* A message starts, and what the others started from is unchanged.
LEMMA StartedRolls ==
  ASSUME Good(ibs), Frames(ibs, stack), db' = db, NEW p, NEW m, Started(p, m)
  PROVE  /\ Good(ibs') /\ Frames(ibs', stack') /\ Rolls /\ stack' # <<>> /\ pending' = None
         /\ SaneStays /\ KeptStays
<1> DEFINE N == Len(stack)
<1>1. /\ Runs(ibs, p) /\ Runs(p, ibs') /\ m \in Messages /\ pending' = None
      /\ ~IsPrecompiled(m.code) => Exists(ibs', m.to)
      /\ stack' = Append(stack, [msg |-> m, snapshot |-> TakeSnapshot(p)])
  BY DEF Started
<1>2. /\ Frames(ibs', stack')
      /\ \A i \in 1 .. N : SavedWorld(ibs', stack'[i]) = SavedWorld(ibs, stack[i])
      /\ \A i \in 1 .. N : SameView(Saving(ibs, stack[i]), Saving(ibs', stack'[i]))
      /\ SameView(p, Saving(ibs', stack'[N + 1]))
      /\ Saving(ibs', stack'[N + 1]).refund = p.refund
  BY <1>1, FramePushed
<1>3. N \in Nat /\ Len(stack') = N + 1 /\ stack' # <<>>
  <2>1. stack \in Seq(FrameRecords)
    BY DEF Frames
  <2>2. stack \in Seq(FrameRecords \cup {[msg |-> m, snapshot |-> TakeSnapshot(p)]})
    BY <2>1
  <2> QED BY <1>1, <2>1, <2>2, AppendFull, AppendProperties, LenProperties
<1>4. Len(Saved) = N /\ Saved = [i \in 1 .. N |-> SavedWorld(ibs, stack[i])]
  BY SavedIs
<1>5. Len(Saved') = N + 1 /\ Saved' = [i \in 1 .. N + 1 |-> SavedWorld(ibs', stack'[i])]
  BY <1>2, <1>3, SavedNextIs
<1> HIDE DEF N
<1>6. \A i \in 1 .. N : Saved'[i] = Saved[i]
  BY <1>2, <1>3, <1>4, <1>5
<1>7. /\ Saved = [i \in 1 .. Len(Saved) |-> Saved[i]]
      /\ Saved' = [i \in 1 .. Len(Saved') |-> Saved'[i]]
  BY <1>4, <1>5
<1>8. IsPrefix(Saved, Saved')
  <2>1. Len(Saved) \in Nat /\ Len(Saved') = Len(Saved) + 1
        /\ \A i \in 1 .. Len(Saved) : Saved'[i] = Saved[i]
    BY <1>3, <1>4, <1>5, <1>6
  <2> QED BY <1>7, <2>1, PrefixOf, Zenon
<1>9. SaneStays
  <2>1. SUFFICES ASSUME NEW b, AllSane(b, ibs, stack) PROVE AllSane(b, ibs', stack')
    BY DEF SaneStays
  <2>2. Sane(b, ibs) /\ \A i \in 1 .. N : Sane(b, Saving(ibs, stack[i]))
    BY <2>1 DEF AllSane, N
  <2>3. Sane(b, p) /\ Sane(b, ibs')
    BY <1>1, <2>2 DEF Runs
  <2>4. ASSUME NEW i \in 1 .. N + 1 PROVE Sane(b, Saving(ibs', stack'[i]))
    <3>1. CASE i \in 1 .. N
      BY <1>2, <2>2, <3>1, SaneSame
    <3>2. CASE i = N + 1
      BY <1>2, <2>3, <3>2, SaneSame
    <3> QED BY <1>3, <3>1, <3>2
  <2> QED BY <1>3, <2>3, <2>4 DEF AllSane
<1>10. KeptStays
  <2>1. SUFFICES ASSUME NEW M \in Int, AllKept(M, ibs, stack)
                PROVE  AllKept(M, ibs', stack')
    BY DEF KeptStays
  <2>2. Kept(M, ibs) /\ \A i \in 1 .. N : Kept(M, Saving(ibs, stack[i]))
    BY <2>1 DEF AllKept, N
  <2>3. Calm(ibs, p) /\ Pays(p, ibs')
    BY DEF Started
  <2>4. Kept(M, p) /\ Kept(M, ibs')
    BY <2>2, <2>3, CalmPays DEF Pays
  <2>5. Good(p) /\ Good(ibs')
    BY <1>1, RunsGood
  <2>6. \A i \in 1 .. N : stack'[i] = stack[i]
    <3>1. stack \in Seq(FrameRecords)
      BY DEF Frames
    <3> DEFINE f == [msg |-> m, snapshot |-> TakeSnapshot(p)]
    <3>2. stack \in Seq(FrameRecords \cup {f}) /\ f \in FrameRecords \cup {f}
      BY <3>1
    <3>3. stack' = Append(stack, f)
      BY <1>1
    <3> HIDE DEF f
    <3> QED BY <3>2, <3>3, AppendProperties DEF N
  <2>7. ASSUME NEW i \in 1 .. N + 1 PROVE Kept(M, Saving(ibs', stack'[i]))
    <3>1. CASE i \in 1 .. N
      <4>1. i \in 1 .. Len(stack) /\ i \in 1 .. Len(stack')
        BY <1>3, <3>1 DEF N
      <4> QED BY <1>2, <2>2, <2>5, <2>6, <3>1, <4>1, FrameKept
    <3>2. CASE i = N + 1
      BY <1>2, <2>4, <2>5, <3>2, KeptSame
    <3> QED BY <1>3, <3>1, <3>2
  <2> QED BY <1>3, <2>4, <2>7 DEF AllKept
<1> QED BY <1>1, <1>2, <1>3, <1>4, <1>5, <1>8, <1>9, <1>10, RunsGood DEF Rolls

\* A message ends: the world that a failed one has started from is back.
LEMMA EndedRolls ==
  ASSUME Good(ibs), Frames(ibs, stack), stack # <<>>, db' = db, NEW s, Ended(s)
  PROVE  Good(ibs') /\ Frames(ibs', stack') /\ Rolls /\ SaneStays /\ KeptStays
<1> DEFINE N == Len(stack)
<1>1. /\ Runs(ibs, s) /\ stack' = Front(stack)
      /\ ibs' = IF status' = "Success" THEN s
                ELSE RevertToSnapshot(s, Last(stack).snapshot)
  BY DEF Ended
<1>2. Last(stack) = stack[N] /\ N \in 1 .. N
  BY FrameIs
<1>3. /\ Good(s) /\ Frames(s, stack)
      /\ \A i \in 1 .. N : SavedWorld(s, stack[i]) = SavedWorld(ibs, stack[i])
      /\ \A i \in 1 .. N : SameView(Saving(ibs, stack[i]), Saving(s, stack[i]))
  BY <1>1, FramesStay, RunsGood
<1>4. N \in Nat \ {0} /\ Len(stack') = N - 1 /\ Frames(s, stack')
      /\ \A i \in 1 .. N - 1 : stack'[i] = stack[i]
  BY <1>1, <1>3, FramePopped
<1>6. /\ Good(ibs') /\ Frames(ibs', stack')
      /\ \A i \in 1 .. N - 1 : SavedWorld(ibs', stack'[i]) = SavedWorld(s, stack[i])
      /\ status' # "Success" => World(ibs') = SavedWorld(s, stack[N])
      /\ \A i \in 1 .. N - 1 : SameView(Saving(s, stack[i]), Saving(ibs', stack'[i]))
      /\ ibs' = s \/ ibs' = Saving(s, stack[N])
  <2>1. CASE status' = "Success"
    BY <1>1, <1>3, <1>4, <2>1, SameViewRefl
  <2>2. CASE status' # "Success"
    <3>1. ibs' = RevertToSnapshot(s, stack[N].snapshot)
      BY <1>1, <1>2, <2>2
    <3> QED BY <1>1, <1>3, <2>2, <3>1, FrameReverted DEF Saving
  <2> QED BY <2>1, <2>2
<1>7. Len(Saved) = N /\ Saved = [i \in 1 .. N |-> SavedWorld(ibs, stack[i])]
  BY SavedIs
<1>8. Len(Saved') = N - 1 /\ Saved' = [i \in 1 .. N - 1 |-> SavedWorld(ibs', stack'[i])]
  BY <1>4, <1>6, SavedNextIs
<1>9. ibs' # None
  BY <1>6, GoodHeld, StateNotNone
<1>10. TheWorld' = World(ibs')
  BY <1>9, TheWorldNext, WorldIs
<1> HIDE DEF N
<1>11. \A i \in 1 .. N - 1 : i \in 1 .. N
  BY <1>4
<1>12. \A i \in 1 .. N - 1 : SavedWorld(ibs', stack'[i]) = SavedWorld(ibs, stack[i])
  BY <1>3, <1>6, <1>11
<1>13. Saved' = [i \in 1 .. N - 1 |-> Saved[i]]
  BY <1>7, <1>8, <1>11, <1>12
<1>14. Saved # <<>> /\ Saved' = Front(Saved) /\ Last(Saved) = SavedWorld(ibs, stack[N])
  <2>1. Saved \in Seq({SavedWorld(ibs, stack[i]) : i \in 1 .. N})
    BY <1>4, <1>7
  <2>2. Saved # <<>>
    BY <1>4, <1>7
  <2>3. Front(Saved) = [i \in 1 .. N - 1 |-> Saved[i]]
    BY <1>4, <1>7, <2>1 DEF Front
  <2>4. Last(Saved) = Saved[N]
    BY <1>7 DEF Last
  <2> QED BY <1>2, <1>7, <1>13, <2>2, <2>3, <2>4
<1>15. status' # "Success" => TheWorld' = Last(Saved)
  BY <1>2, <1>3, <1>6, <1>10, <1>14
<1>16. SaneStays
  <2>1. SUFFICES ASSUME NEW b, AllSane(b, ibs, stack) PROVE AllSane(b, ibs', stack')
    BY DEF SaneStays
  <2>2. Sane(b, ibs) /\ \A i \in 1 .. N : Sane(b, Saving(ibs, stack[i]))
    BY <2>1 DEF AllSane, N
  <2>3. Sane(b, s) /\ \A i \in 1 .. N : Sane(b, Saving(s, stack[i]))
    BY <1>1, <1>3, <2>2, SaneSame DEF Runs
  <2>4. Sane(b, ibs')
    BY <1>2, <1>6, <2>3
  <2>5. \A i \in 1 .. N - 1 : Sane(b, Saving(ibs', stack'[i]))
    BY <1>6, <1>11, <2>3, SaneSame
  <2> QED BY <1>4, <2>4, <2>5 DEF AllSane
<1>17. KeptStays
  <2>1. SUFFICES ASSUME NEW M \in Int, AllKept(M, ibs, stack)
                PROVE  AllKept(M, ibs', stack')
    BY DEF KeptStays
  <2>2. Kept(M, ibs) /\ \A i \in 1 .. N : Kept(M, Saving(ibs, stack[i]))
    BY <2>1 DEF AllKept, N
  <2>3. Kept(M, s)
    BY <2>2, CalmPays DEF Ended, Pays
  <2>4. \A i \in 1 .. N : Kept(M, Saving(s, stack[i]))
    BY <1>3, <2>2, FrameKept DEF N
  <2>5. Kept(M, ibs')
    BY <1>2, <1>6, <2>3, <2>4
  <2>6. ASSUME NEW i \in 1 .. N - 1 PROVE Kept(M, Saving(ibs', stack'[i]))
    <3>1. /\ i \in 1 .. Len(stack) /\ i \in 1 .. Len(stack') /\ stack'[i] = stack[i]
      BY <1>4, <1>11 DEF N
    <3>2. Kept(M, Saving(s, stack[i]))
      BY <1>11, <2>4
    <3> QED BY <1>3, <1>6, <3>1, <3>2, FrameKept
  <2> QED BY <1>4, <2>5, <2>6 DEF AllKept
<1> QED BY <1>6, <1>14, <1>15, <1>16, <1>17 DEF Rolls

-----------------------------------------------------------------------------
(* The actions *)

\* At the start there is no transaction and no block.
LEMMA InitRevertible == Init => Revertible /\ Saved = <<>>
<1> SUFFICES ASSUME Init PROVE Revertible /\ Saved = <<>>
  OBVIOUS
<1> DEFINE g == [p \in Addr \X Slot |->
                   IF p \in DOMAIN GenesisSlots THEN GenesisSlots[p] ELSE 0]
<1>1. /\ db = [accounts |-> Genesis, storage |-> g, codes |-> {"code"},
               accountChanges |-> Empty, storageChanges |-> Empty, number |-> 0]
      /\ ibs = None /\ tx = None /\ stack = <<>> /\ pending = None
  BY DEF Init
<1>2. g \in [Addr \X Slot -> Nat]
  BY GenesisAssumption
<1> HIDE DEF g
<1>3. DatabaseParts(Genesis, g, {"code"}, Empty, Empty, 0)
  BY <1>2, GenesisAssumption DEF DatabaseParts, Empty, Code
<1>4. db \in Databases
  BY <1>1, <1>3, DatabaseOf
<1>5. DOMAIN stack = {}
  BY <1>1
<1>6. Saved = <<>>
  BY <1>5 DEF Saved
<1> QED BY <1>1, <1>4, <1>6 DEF Revertible

\* What a message leaves to be handled.
LEMMA AfterMessage ==
  ASSUME \/ Returned
         \/ pending' = None
  PROVE  PendingIn(db', ibs', stack', pending')
BY KindsApart, NoneAssumption DEF Returned, PendingIn, Outputs, Halts, Messages

\* BeginBlock starts with no object and nothing to revert to.
LEMMA BeginBlockKeeps ==
  ASSUME Revertible, BeginBlock
  PROVE  Revertible' /\ Rolls
<1>1. /\ ibs = None /\ ibs' = BalancesChanged /\ db' = db /\ tx' = tx /\ stack' = stack
      /\ pending' = pending
  BY DEF BeginBlock, Idle
<1>2. db \in Databases /\ tx = None /\ stack = <<>> /\ pending = None
  BY <1>1 DEF Revertible
<1>3. Held(ibs')
  BY <1>1, <1>2, BalancesChangedGood, GoodHeld
<1> QED BY <1>1, <1>2, <1>3, HeldSame, NoneAfter, NothingSaved

\* BeginTransaction clears the journal before it changes anything.
LEMMA BeginTransactionKeeps ==
  ASSUME Revertible, NEW t \in Txs, BeginTransaction(t)
  PROVE  Revertible' /\ Rolls
<1>1. ibs # None /\ tx = None /\ stack = <<>> /\ pending = None /\ db \in Databases
  BY DEF BeginTransaction, Idle, Revertible
<1>2. CASE DropBlock
  <2>1. ibs' = None /\ UNCHANGED <<db, tx, stack, pending>>
    BY <1>2 DEF DropBlock
  <2> QED BY <1>1, <2>1, NoneAfter, NothingSaved
<1>3. CASE ~DropBlock
  <2> DEFINE m == [kind |-> t.action, static |-> FALSE, sender |-> t.sender,
                   to |-> t.to, code |-> t.to, value |-> t.value,
                   gas |-> t.gasLimit - IntrinsicGas(t)]
  <2>1. /\ tx' = t /\ ibs' = Prepared(t) /\ pending' = m /\ db' = db /\ stack' = stack
        /\ t.gasLimit >= IntrinsicGas(t)
    <3>1. ~(~TransactionValid(t) \/ t.gasLimit < IntrinsicGas(t))
      BY <1>3 DEF BeginTransaction
    <3>2. t.gasLimit \in Nat /\ IntrinsicGas(t) \in Nat
      BY TxTypes
    <3>3. t.gasLimit >= IntrinsicGas(t)
      BY <3>1, <3>2
    <3> QED BY <3>1, <3>3 DEF BeginTransaction
  <2>2. Good(ibs')
    BY <1>1, <2>1, Between, PreparedGood
  <2>3. m \in Messages /\ m.kind = t.action /\ m.code = m.to
    <3>1. t.gasLimit - IntrinsicGas(t) \in Nat
      BY <2>1, TxTypes
    <3> QED BY <3>1, TxTypes DEF Messages
  <2> HIDE DEF m
  <2>4. m.kind \notin {"CallCode", "DelegateCall"}
    BY <2>3, TxTypes
  <2>5. MessageIn(db', ibs', m)
    BY <2>3, <2>4 DEF MessageIn
  <2>6. PendingIn(db', ibs', stack', pending')
    BY <2>1, <2>3, <2>5, KindsApart DEF PendingIn
  <2>7. Frames(ibs', stack')
    <3>1. stack' = <<>> /\ Len(stack') = 0 /\ stack' \in Seq(FrameRecords)
      BY <1>1, <2>1
    <3> QED BY <3>1 DEF Frames
  <2>8. /\ db' \in Databases /\ HeldIn(db', ibs') /\ GoodIn(db', ibs')
        /\ FramesIn(db', ibs', stack') /\ ibs' # None /\ tx' \in Txs /\ tx' # None
    BY <1>1, <2>1, <2>2, <2>7, GoodHeld, HeldSame, GoodSame, FramesSame, StateNotNone,
       TxTypes
  <2>9. Revertible'
    BY <2>6, <2>8 DEF Revertible
  <2> QED BY <1>1, <2>1, <2>9, NothingSaved
<1> QED BY <1>2, <1>3

\* HandleMessage takes its snapshot before it moves the value.
LEMMA HandleMessageKeeps ==
  ASSUME Revertible, HandleMessage
  PROVE  Revertible' /\ Rolls /\ SaneStays /\ KeptStays
<1>1. /\ pending # None /\ pending.kind \in {"Call", "CallCode", "DelegateCall", "Create"}
      /\ db' = db /\ tx' = tx
      /\ IF pending.kind = "Create" THEN \E a \in NewAddrs : Create(a) ELSE Call
  BY DEF HandleMessage
<1>2. tx # None
  BY <1>1 DEF Revertible
<1>3. /\ Good(ibs) /\ Frames(ibs, stack) /\ PendingIn(db, ibs, stack, pending)
  BY <1>2, InTransaction
<1>4. pending \in Messages /\ MessageIn(db, ibs, pending)
  BY <1>1, <1>3, KindsApart DEF PendingIn
<1>5. \/ Stepped /\ Returned
      \/ \E p, m : Started(p, m)
  <2>1. CASE pending.kind = "Create"
    <3>1. PICK a \in NewAddrs : Create(a)
      BY <1>1, <2>1
    <3>2. a \in Addr
      BY AddrAssumption
    <3> QED BY <1>3, <1>4, <3>1, <3>2, CreateDoes
  <2>2. CASE pending.kind # "Create"
    BY <1>1, <1>3, <1>4, <2>2, CallDoes
  <2> QED BY <2>1, <2>2
<1>6. CASE Stepped /\ Returned
  BY <1>1, <1>2, <1>3, <1>6, SteppedRolls, AfterMessage, GoesOn
<1>7. CASE \E p, m : Started(p, m)
  BY <1>1, <1>2, <1>3, <1>7, StartedRolls, AfterMessage, GoesOn
<1> QED BY <1>5, <1>6, <1>7

\* A message that the interpreter sends.
LEMMA SentMessage ==
  ASSUME Frame \in Messages, Exists(ibs, Frame.to), NEW c \in Calls
  PROVE  LET m == Message(c.kind, c.target, c.value)
         IN  m \in Messages /\ MessageIn(db, ibs, m)
<1> DEFINE f == Frame
           m == Message(c.kind, c.target, c.value)
           kind == IF c.kind = "StaticCall" THEN "Call" ELSE c.kind
           static == f.static \/ c.kind = "StaticCall"
           sender == IF c.kind = "DelegateCall" THEN f.sender ELSE f.to
           to == IF c.kind \in {"CallCode", "DelegateCall"} THEN f.to ELSE c.target
           value == IF c.kind = "DelegateCall" THEN f.value ELSE c.value
<1>1. /\ c.kind \in {"Call", "StaticCall", "CallCode", "DelegateCall", "Create"}
      /\ c.target \in Addr /\ c.value \in Nat
  BY CallAssumption
<1>2. /\ f.static \in BOOLEAN /\ f.sender \in Addr /\ f.to \in Addr /\ f.value \in Nat
      /\ f.gas \in Nat
  BY DEF Messages
<1>3. m = [kind |-> kind, static |-> static, sender |-> sender, to |-> to,
           code |-> c.target, value |-> value, gas |-> f.gas]
  BY DEF Message
<1>4. /\ kind \in {"Call", "CallCode", "DelegateCall", "Create"} /\ static \in BOOLEAN
      /\ sender \in Addr /\ to \in Addr /\ value \in Nat
      /\ kind = "Call" => to = c.target
      /\ kind \in {"CallCode", "DelegateCall"} => to = f.to
  BY <1>1, <1>2
<1> HIDE DEF f, m, kind, static, sender, to, value
<1>5. m \in Messages /\ m.kind = kind /\ m.code = c.target /\ m.to = to
  BY <1>1, <1>2, <1>3, <1>4 DEF Messages
<1>6. ExistsIn(db, ibs, f.to)
  BY ExistsIs DEF f
<1>7. MessageIn(db, ibs, m)
  BY <1>4, <1>5, <1>6 DEF MessageIn
<1> QED BY <1>5, <1>7 DEF m

\* What the host does for the interpreter has its deltas.
LEMMA HostKeeps ==
  ASSUME Revertible, Host
  PROVE  Revertible' /\ Rolls /\ SaneStays /\ KeptStays
<1>1. /\ stack # <<>> /\ pending = None /\ ~IsPrecompiled(Frame.code)
      /\ db' = db /\ tx' = tx /\ stack' = stack
  BY DEF Host, Running
<1>2. tx # None
  BY <1>1 DEF Revertible
<1>3. Good(ibs) /\ Frames(ibs, stack)
  BY <1>2, InTransaction
<1>4. Frame \in Messages /\ Exists(ibs, Frame.to)
  BY <1>1, <1>3, FrameIs
<1>5. /\ Runs(ibs, ibs') /\ Pays(ibs, ibs')
      /\ \/ pending' = pending
         \/ pending' = [kind |-> "Halt"]
         \/ \E c \in Calls : /\ pending' = Message(c.kind, c.target, c.value)
                             /\ ibs' = ibs
  BY <1>3, <1>4, HostRuns
<1>6. Good(ibs') /\ Frames(ibs', stack') /\ Rolls /\ SaneStays /\ KeptStays
  BY <1>1, <1>3, <1>5, SteppedRolls DEF Stepped
<1>7. PendingIn(db', ibs', stack', pending')
  <2>1. CASE pending' = pending
    BY <1>1, <2>1 DEF PendingIn
  <2>2. CASE pending' = [kind |-> "Halt"]
    <3>1. pending' \in Halts
      BY <2>2 DEF Halts
    <3>2. pending' \notin Outputs /\ pending' \notin Messages
      BY <2>2, <3>1, KindsApart
    <3> QED BY <1>1, <3>1, <3>2 DEF PendingIn
  <2>3. CASE \E c \in Calls : /\ pending' = Message(c.kind, c.target, c.value)
                              /\ ibs' = ibs
    <3>1. pending' \in Messages /\ MessageIn(db', ibs', pending')
      BY <1>1, <1>4, <2>3, SentMessage
    <3>2. pending' \notin Outputs /\ pending' \notin Halts
      BY <3>1, KindsApart
    <3> QED BY <3>1, <3>2 DEF PendingIn
  <2> QED BY <1>5, <2>1, <2>2, <2>3
<1> QED BY <1>1, <1>2, <1>6, <1>7, GoesOn

\* A message ends: it is kept, or its snapshot reverts it.
LEMMA CompleteKeeps ==
  ASSUME Revertible, CompleteCall \/ CompleteCreate
  PROVE  Revertible' /\ Rolls /\ SaneStays /\ KeptStays
<1>1. (Running \/ Halted) /\ db' = db /\ tx' = tx
  BY DEF CompleteCall, CompleteCreate
<1>2. tx # None
  BY <1>1 DEF Revertible, Running, Halted
<1>3. Good(ibs) /\ Frames(ibs, stack) /\ PendingIn(db, ibs, stack, pending)
  BY <1>2, InTransaction
<1>4. stack # <<>>
  BY <1>1, <1>3, KindsApart DEF Running, Halted, PendingIn
<1>5. Frame.gas \in Nat /\ Frame.to \in Addr
  BY <1>3, <1>4, FrameIs
<1>6. PICK s : Ended(s)
  BY <1>3, <1>5, CompleteCallDoes, CompleteCreateDoes
<1>7. Good(ibs') /\ Frames(ibs', stack') /\ Rolls /\ SaneStays /\ KeptStays
  BY <1>1, <1>3, <1>4, <1>6, EndedRolls
<1>8. PendingIn(db', ibs', stack', pending')
  BY <1>6, AfterMessage DEF Ended
<1> QED BY <1>1, <1>2, <1>7, <1>8, GoesOn

\* FinishTransaction has nothing left to revert to.
LEMMA FinishTransactionKeeps ==
  ASSUME Revertible, FinishTransaction
  PROVE  Revertible' /\ Rolls
<1>1. /\ pending # None /\ pending.kind = "Output" /\ tx' = None /\ pending' = None
      /\ db' = db /\ stack' = stack
  BY DEF FinishTransaction
<1>2. tx # None
  BY <1>1 DEF Revertible
<1>3. /\ Good(ibs) /\ PendingIn(db, ibs, stack, pending) /\ tx \in Txs /\ db \in Databases
  BY <1>2, InTransaction
<1>4. pending \in Outputs /\ stack = <<>>
  BY <1>1, <1>3, KindsApart DEF PendingIn
<1>5. HeldIn(db', ibs')
  BY <1>1, <1>3, <1>4, FinishHeld, HeldSame
<1> QED BY <1>1, <1>3, <1>4, <1>5, NoneAfter, NothingSaved

\* EndBlock writes what the block leaves, or drops it.
LEMMA EndBlockKeeps ==
  ASSUME Revertible, EndBlock
  PROVE  Revertible' /\ Rolls
<1>1. ibs # None /\ tx = None /\ db \in Databases /\ stack = <<>> /\ pending = None
  BY DEF EndBlock, Idle, Revertible
<1>2. ibs' = None /\ UNCHANGED <<tx, stack, pending>>
  BY DEF EndBlock, DropBlock
<1>3. db' \in Databases
  <2>1. CASE DropBlock
    BY <1>1, <2>1 DEF DropBlock
  <2>2. CASE ~DropBlock
    <3> DEFINE u == AddToBalance(ibs, Beneficiary, Reward)
    <3>0. db' = With(u, Written)
      BY <2>2 DEF EndBlock
    <3>2. Held(u)
      <4>1. Held(ibs) /\ Beneficiary \in Addr /\ Reward \in Int
        BY <1>1, Between, AddrAssumption, FeeAssumption
      <4>2. HeldSet(ibs, Beneficiary,
                    [OrNew(ibs, Beneficiary) EXCEPT
                       !.balance = Balance(ibs, Beneficiary) + Reward], u)
        BY <4>1, AddHeld
      <4> QED BY <4>2 DEF HeldSet
    <3> HIDE DEF u
    <3>1. db' = Written(u)
      BY <3>0 DEF With
    <3> QED BY <3>1, <3>2, WrittenType
  <2> QED BY <2>1, <2>2
<1> QED BY <1>1, <1>2, <1>3, NoneAfter, NothingSaved

\* UnwindBlock happens between blocks.
LEMMA UnwindBlockKeeps ==
  ASSUME Revertible, UnwindBlock
  PROVE  Revertible' /\ Rolls
<1>1. /\ ibs = None /\ db' = Unwound(db) /\ UNCHANGED <<ibs, tx, stack, pending>>
  BY DEF UnwindBlock, Idle
<1>2. db \in Databases /\ tx = None /\ stack = <<>> /\ pending = None
  BY <1>1 DEF Revertible
<1>3. db' \in Databases
  BY <1>1, <1>2, UnwoundType
<1> QED BY <1>1, <1>2, <1>3, NoneAfter, NothingSaved

\* Every step.
LEMMA NextKeeps ==
  ASSUME Revertible, [Next]_vars
  PROVE  Revertible' /\ (Rolls \/ UNCHANGED vars)
<1>1. CASE UNCHANGED vars
  BY <1>1 DEF vars, Revertible
<1>2. CASE BeginBlock
  BY <1>2, BeginBlockKeeps
<1>3. CASE \E t \in Txs : BeginTransaction(t)
  BY <1>3, BeginTransactionKeeps
<1>4. CASE HandleMessage
  BY <1>4, HandleMessageKeeps
<1>5. CASE Host
  BY <1>5, HostKeeps
<1>6. CASE CompleteCall \/ CompleteCreate
  BY <1>6, CompleteKeeps
<1>7. CASE FinishTransaction
  BY <1>7, FinishTransactionKeeps
<1>8. CASE EndBlock
  BY <1>8, EndBlockKeeps
<1>9. CASE UnwindBlock
  BY <1>9, UnwindBlockKeeps
<1> QED BY <1>1, <1>2, <1>3, <1>4, <1>5, <1>6, <1>7, <1>8, <1>9 DEF Next

-----------------------------------------------------------------------------
(* Theorems *)

\* In every reachable state the journal of the IntraBlockState
\* (intra_block_state.rs) undoes to a sound state at every snapshot that a
\* message in evm.rs may still call revert_to_snapshot with, and each account
\* that a message runs in exists there.
THEOREM SnapshotsRevertible == Spec => []Revertible
<1>1. Init => Revertible
  BY InitRevertible
<1>2. Revertible /\ [Next]_vars => Revertible'
  BY NextKeeps
<1> QED BY <1>1, <1>2, PTL DEF Spec

\* Execution implements Rollback: whatever messages do and however they are
\* nested, revert_to_snapshot leaves the accounts, storage, original values,
\* incarnations and substate as they were when take_snapshot was called, and no
\* step changes what an outer message would be reverted to.
THEOREM ExecutionRevertsExactly == Spec => RevertsExactly
<1>1. Init => Rolled!Init
  BY InitRevertible DEF Rolled!Init, Saved
<1>2. ASSUME Revertible, [Next]_vars PROVE [Rolled!Next]_(Rolled!vars)
  <2>1. Rolled!vars = <<TheWorld, Saved, status>>
    BY DEF Rolled!vars, Saved, TheWorld
  <2>2. Rolls <=> Rolled!Next
    BY DEF Rolls, Rolled!Next, Rolled!Step, Rolled!Start, Rolled!End, Saved, TheWorld,
           Rolled!IsPrefix, Rolled!Front, Rolled!Last, IsPrefix, Front, Last
  <2>3. CASE UNCHANGED vars
    <3>1. /\ ibs' = ibs /\ db' = db /\ stack' = stack /\ status' = status
      BY <2>3 DEF vars
    <3>2. Saved' = Saved
      <4>1. \A i : WorldIn(db', RevertToSnapshot(ibs', stack'[i].snapshot))
                     = World(RevertToSnapshot(ibs, stack[i].snapshot))
        BY <3>1, WorldIs
      <4>2. Saved' = [i \in DOMAIN stack |->
                        WorldIn(db', RevertToSnapshot(ibs', stack'[i].snapshot))]
        BY <3>1, SavedNext
      <4> QED BY <4>1, <4>2 DEF Saved
    <3> QED BY <2>2, <3>2 DEF Rolls
  <2>4. CASE Rolls
    BY <2>2, <2>4
  <2> QED BY <1>2, <2>3, <2>4, NextKeeps
<1>3. QED
  BY <1>1, <1>2, SnapshotsRevertible, PTL DEF Spec, RevertsExactly, Rolled!Spec

-----------------------------------------------------------------------------
(* The original values *)

FreshOf(d, a, k, inc) == IF ReadIn(d, a) = None \/ inc > 0 THEN 0 ELSE d.storage[<<a, k>>]
OriginalOf(d, b, a, k, inc) ==
  IF k \in DOMAIN b.committed THEN b.committed[k].original ELSE FreshOf(d, a, k, inc)
CurrentOf(d, b, a, k, inc) ==
  IF k \in DOMAIN b.current THEN b.current[k] ELSE OriginalOf(d, b, a, k, inc)
TidyIn(d, s) ==
  \A a \in Addr :
    /\ s.incarnations[a] \in Nat
    /\ \A k \in Slot :
         LET now == CurrentOf(d, Box(s, a), a, k, s.incarnations[a])
         IN  /\ ~ExistsIn(d, s, a) => now = 0
             /\ OriginalOf(d, Box(s, a), a, k, s.incarnations[a]) = now
SaneIn(d, b, s) ==
  \A a \in Addr :
    /\ b.incarnations[a] \in Nat /\ s.incarnations[a] \in Int
    /\ s.incarnations[a] >= b.incarnations[a]
    /\ \A k \in Slot :
         LET original == OriginalOf(d, Box(s, a), a, k, Incarnation(s, a))
         IN  /\ original = IF s.incarnations[a] > b.incarnations[a] THEN 0
                           ELSE b.storage[<<a, k>>]
             /\ ~ExistsIn(d, s, a) =>
                  original = 0 /\ CurrentOf(d, Box(s, a), a, k, Incarnation(s, a)) = 0

\* With the database as it is, original and current values are what they were.
LEMMA ValuesSame ==
  ASSUME NEW b, NEW a, NEW k, NEW inc
  PROVE  /\ OriginalIn(b, a, k, inc) = OriginalOf(db, b, a, k, inc)
         /\ CurrentIn(b, a, k, inc) = CurrentOf(db, b, a, k, inc)
BY ReadSame DEF OriginalIn, CurrentIn, Fresh, OriginalOf, CurrentOf, FreshOf

\* And a state is tidy as before.
LEMMA TidySame == ASSUME NEW s PROVE Tidy(s) <=> TidyIn(db, s)
BY ValuesSame, ExistsIs DEF Tidy, Hollow, TidyIn

\* And sane as before.
LEMMA SaneIs == ASSUME NEW b, NEW s PROVE Sane(b, s) <=> SaneIn(db, b, s)
BY ValuesSame, ExistsIs DEF Sane, SaneIn, Original, Current

\* Between transactions what has been written is what the next one starts with;
\* during one the original values are those at its start, and still will be
\* when any message on the stack is reverted.
Remembered ==
  /\ ibs # None /\ tx = None => TidyIn(db, ibs)
  /\ tx # None => /\ SaneIn(db, start, ibs)
                  /\ \A i \in 1 .. Len(stack) : SaneIn(db, start, Saving(ibs, stack[i]))

\* A step within a transaction keeps the original values.
LEMMA WithinRemembers ==
  ASSUME Remembered, tx # None, SaneStays, db' = db, tx' = tx, start' = start
  PROVE  Remembered'
<1>1. AllSane(start, ibs, stack)
  BY SaneIs DEF Remembered, AllSane
<1>2. AllSane(start, ibs', stack')
  BY <1>1 DEF SaneStays
<1>3. /\ SaneIn(db', start', ibs')
      /\ \A i \in 1 .. Len(stack') : SaneIn(db', start', Saving(ibs', stack'[i]))
  BY <1>2, SaneIs DEF AllSane
<1> QED BY <1>3 DEF Remembered

\* A step between transactions keeps the state tidy.
LEMMA TidyRemembers ==
  ASSUME db' = db, tx' = None, Tidy(ibs')
  PROVE  Remembered'
<1>1. TidyIn(db', ibs')
  BY TidySame
<1> QED BY <1>1 DEF Remembered

\* Without a block there is nothing to remember.
LEMMA NoneRemembers ==
  ASSUME ibs' = None, tx' = None
  PROVE  Remembered'
BY DEF Remembered

\* get_storage between transactions.
LEMMA HeldStorage ==
  ASSUME NEW s, Held(s), NEW a \in Addr, NEW k \in Slot
  PROVE  StorageAt(s, a, k, FALSE) =
           IF ~Exists(s, a) THEN 0 ELSE CurrentIn(Box(s, a), a, k, s.incarnations[a])
<1> DEFINE b == Box(s, a)
           initial == IF a \in DOMAIN s.objects THEN s.objects[a].initial
                                                ELSE ReadAccount(a)
<1>1. StorageAt(s, a, k, FALSE) =
        IF ~Exists(s, a) THEN 0
        ELSE IF k \in DOMAIN b.current THEN b.current[k]
        ELSE IF k \in DOMAIN b.committed THEN b.committed[k].original
        ELSE IF initial = None \/ s.incarnations[a] > 0 THEN 0
        ELSE db.storage[<<a, k>>]
  BY DEF StorageAt, Box
<1>2. initial = ReadAccount(a)
  BY DEF Held, InitialsMatch
<1> HIDE DEF b, initial
<1> QED BY <1>1, <1>2 DEF CurrentIn, OriginalIn, Fresh, b

\* A transaction starts.
LEMMA ClearedSane ==
  ASSUME NEW s, Held(s), Tidy(s), NEW b,
         b = [storage |-> StorageNow(s), incarnations |-> s.incarnations]
  PROVE  Sane(b, ClearSubstate(s))
<1> DEFINE c == ClearSubstate(s)
<1>1. Settled(c) /\ SameData(s, c)
  BY ClearedGood DEF Good
<1> HIDE DEF c
<1>2. c.incarnations = s.incarnations /\ b.incarnations = s.incarnations
  BY <1>1 DEF SameData
<1>3. \A a \in Addr : s.incarnations[a] \in Nat
  BY DEF Tidy, Hollow
<1>4. ASSUME NEW a \in Addr, NEW k \in Slot
      PROVE  /\ Original(c, a, k) = b.storage[<<a, k>>]
             /\ ~Exists(c, a) => Original(c, a, k) = 0 /\ Current(c, a, k) = 0
  <2> DEFINE x == CurrentIn(Box(s, a), a, k, s.incarnations[a])
  <2>1. Box(c, a) = Box(s, a) /\ Exists(c, a) = Exists(s, a)
    BY <1>1 DEF SameData, Box, Exists, Account
  <2>2. Original(c, a, k) = x /\ Current(c, a, k) = x /\ (~Exists(s, a) => x = 0)
    BY <1>1, <1>2, <2>1, PlainView DEF Tidy, Hollow
  <2> HIDE DEF x
  <2>3. b.storage[<<a, k>>] = StorageAt(s, a, k, FALSE)
    BY DEF StorageNow
  <2>4. StorageAt(s, a, k, FALSE) = IF ~Exists(s, a) THEN 0 ELSE x
    BY HeldStorage DEF x
  <2> QED BY <2>1, <2>2, <2>3, <2>4
<1>5. \A a \in Addr : b.incarnations[a] \in Nat /\ c.incarnations[a] \in Int
                      /\ c.incarnations[a] = b.incarnations[a]
  BY <1>2, <1>3
<1>6. Sane(b, c)
  BY <1>4, <1>5 DEF Sane
<1> QED BY <1>6 DEF c

\* validate_transaction and the start of a transaction change no slot, so it
\* starts from what the one before has left.
LEMMA BeginTransactionRemembers ==
  ASSUME Revertible, Remembered, NEW t \in Txs, BeginTransaction(t)
  PROVE  Remembered'
<1>1. ibs # None /\ tx = None /\ stack = <<>>
  BY DEF BeginTransaction, Idle, Revertible
<1>2. CASE DropBlock
  <2>1. ibs' = None /\ tx' = None
    BY <1>1, <1>2 DEF DropBlock
  <2> QED BY <2>1, NoneRemembers
<1>3. CASE ~DropBlock
  <2>1. /\ tx' = t /\ ibs' = Prepared(t) /\ db' = db /\ stack' = stack
        /\ start' = [storage |-> StorageNow(ibs), incarnations |-> ibs.incarnations]
    BY <1>3 DEF BeginTransaction
  <2>2. Held(ibs) /\ Tidy(ibs)
    BY <1>1, Between, TidySame DEF Remembered
  <2>3. Sane(start', ClearSubstate(ibs))
    BY <2>1, <2>2, ClearedSane
  <2>4. Sane(start', ibs')
    BY <2>1, <2>2, <2>3, PreparedGood DEF Runs
  <2>5. SaneIn(db', start', ibs') /\ Len(stack') = 0 /\ tx' # None
    BY <1>1, <2>1, <2>4, SaneIs, TxTypes
  <2> QED BY <2>5 DEF Remembered
<1> QED BY <1>2, <1>3

\* finalize_transaction makes the current values the next original ones.
LEMMA FinishTransactionRemembers ==
  ASSUME Revertible, Remembered, FinishTransaction
  PROVE  Remembered'
<1>1. pending # None /\ pending.kind = "Output" /\ tx' = None /\ db' = db
  BY DEF FinishTransaction
<1>2. tx # None
  BY <1>1 DEF Revertible
<1>3. /\ Good(ibs) /\ PendingIn(db, ibs, stack, pending) /\ tx \in Txs
  BY <1>2, InTransaction
<1>4. pending \in Outputs
  BY <1>1, <1>3, KindsApart DEF PendingIn
<1>5. Sane(start, ibs)
  BY <1>2, SaneIs DEF Remembered
<1> QED BY <1>1, <1>3, <1>4, <1>5, FinishHeld, TidyRemembers

\* Every step keeps Remembered.
LEMMA NextRemembers ==
  ASSUME Revertible, Remembered, [Next]_vars
  PROVE  Remembered'
<1>1. CASE UNCHANGED vars
  BY <1>1 DEF vars, Remembered
<1>2. CASE BeginBlock
  <2>1. ibs = None /\ ibs' = BalancesChanged /\ db' = db /\ tx' = tx
    BY <1>2 DEF BeginBlock, Idle
  <2>2. db \in Databases /\ tx = None
    BY <2>1 DEF Revertible
  <2> QED BY <2>1, <2>2, BalancesChangedGood, TidyRemembers
<1>3. CASE \E t \in Txs : BeginTransaction(t)
  BY <1>3, BeginTransactionRemembers
<1>4. CASE HandleMessage
  <2>1. tx # None
    BY <1>4 DEF HandleMessage, Revertible
  <2>2. UNCHANGED <<db, tx, start>>
    BY <1>4 DEF HandleMessage
  <2> QED BY <1>4, <2>1, <2>2, HandleMessageKeeps, WithinRemembers
<1>5. CASE Host
  <2>1. tx # None
    BY <1>5 DEF Host, Running, Revertible
  <2>2. UNCHANGED <<db, tx, start>>
    BY <1>5 DEF Host
  <2> QED BY <1>5, <2>1, <2>2, HostKeeps, WithinRemembers
<1>6. CASE CompleteCall \/ CompleteCreate
  <2>1. tx # None
    BY <1>6 DEF CompleteCall, CompleteCreate, Running, Halted, Revertible
  <2>2. UNCHANGED <<db, tx, start>>
    BY <1>6 DEF CompleteCall, CompleteCreate
  <2> QED BY <1>6, <2>1, <2>2, CompleteKeeps, WithinRemembers
<1>7. CASE FinishTransaction
  BY <1>7, FinishTransactionRemembers
<1>8. CASE EndBlock
  <2>1. ibs' = None /\ tx' = None
    BY <1>8 DEF EndBlock, DropBlock
  <2> QED BY <2>1, NoneRemembers
<1>9. CASE UnwindBlock
  <2>1. ibs = None /\ UNCHANGED <<ibs, tx>>
    BY <1>9 DEF UnwindBlock, Idle
  <2>2. tx = None
    BY <2>1 DEF Revertible
  <2> QED BY <2>1, <2>2, NoneRemembers
<1> QED BY <1>1, <1>2, <1>3, <1>4, <1>5, <1>6, <1>7, <1>8, <1>9 DEF Next

\* In every reachable state the original value of a slot is the value it had
\* when the transaction started, also in each state that a message on the stack
\* would be reverted to, and between transactions original and current values
\* agree: what get_original_storage and finalize_transaction of IntraBlockState
\* rely on.
THEOREM OriginalsRemembered == Spec => [](Revertible /\ Remembered)
<1>1. Init => Revertible /\ Remembered
  <2>1. Init => ibs = None /\ tx = None
    BY DEF Init
  <2> QED BY <2>1, InitRevertible DEF Remembered
<1>2. Revertible /\ Remembered /\ [Next]_vars => (Revertible /\ Remembered)'
  BY NextKeeps, NextRemembers
<1> QED BY <1>1, <1>2, PTL DEF Spec

\* The original value that SSTORE takes its gas and refund from is the value of
\* the slot when the transaction started, or zero in a contract created since,
\* however late it is read and whatever has been reverted: get_original_storage
\* of IntraBlockState never reads a value that the transaction has written.
THEOREM OriginalsAsAtStart == Spec => []OriginalAsAtStart
<1>1. ASSUME Revertible, Remembered PROVE OriginalAsAtStart
  <2>1. SUFFICES ASSUME tx # None, NEW p \in Addr \X Slot, Exists(ibs, p[1])
                 PROVE  StorageAt(ibs, p[1], p[2], TRUE) =
                          IF ibs.incarnations[p[1]] > start.incarnations[p[1]] THEN 0
                          ELSE start.storage[p]
    BY DEF OriginalAsAtStart
  <2>2. p[1] \in Addr /\ p[2] \in Slot /\ p = <<p[1], p[2]>>
    OBVIOUS
  <2>3. Good(ibs) /\ Settled(ibs) /\ InitialsMatch(ibs) /\ Sane(start, ibs)
    <3>1. Good(ibs)
      BY <2>1, <1>1, InTransaction
    <3>2. Sane(start, ibs)
      BY <2>1, <1>1, SaneIs DEF Remembered
    <3> QED BY <3>1, <3>2 DEF Good, Sound
  <2>4. StorageAt(ibs, p[1], p[2], TRUE) = Original(ibs, p[1], p[2])
    BY <2>1, <2>2, <2>3, StorageIs
  <2>5. Original(ibs, p[1], p[2]) =
          IF ibs.incarnations[p[1]] > start.incarnations[p[1]] THEN 0
          ELSE start.storage[<<p[1], p[2]>>]
    BY <2>2, <2>3 DEF Sane
  <2> QED BY <2>2, <2>4, <2>5
<1> QED BY <1>1, OriginalsRemembered, PTL

-----------------------------------------------------------------------------
(* The gas of a block *)

\* A message, or the output of the last one, never has more gas than the
\* transaction has bought, nor do the transactions have more than the block.
Metered ==
  /\ gasUsed \in Nat
  /\ gasUsed + (IF tx = None THEN 0 ELSE tx.gasLimit) <= BlockGasLimit
  /\ tx # None =>
       /\ pending # None /\ pending.kind # "Halt" => pending.gas <= tx.gasLimit
       /\ \A i \in 1 .. Len(stack) : stack[i].msg.gas <= tx.gasLimit

\* What is left of the gas of a message that had n.
LeavesGas(rest, n) ==
  /\ stack' = rest
  /\ pending' # None => pending'.kind = "Output" /\ pending'.gas <= n

\* What a result returns is no more gas than it was given.
LEMMA ReturnsGas ==
  ASSUME NEW rest, NEW code, NEW gas \in Nat, Returns(rest, code, gas), NEW n \in Nat, gas <= n
  PROVE  LeavesGas(rest, n)
BY DEF Returns, LeavesGas

\* A message that starts has the gas that it was sent with.
TakesGas(n) ==
  /\ pending' = None
  /\ \E f : f.msg.gas = n /\ stack' = Append(stack, f)

\* A call is given no more gas than its message has.
LEMMA CallGas ==
  ASSUME pending \in Messages, Call
  PROVE  LeavesGas(stack, pending.gas) \/ TakesGas(pending.gas)
<1>1. pending.gas \in Nat /\ pending.gas <= pending.gas
  BY DEF Messages
<1>2. \A code : Returns(stack, code, pending.gas) => LeavesGas(stack, pending.gas)
  BY <1>1, ReturnsGas
<1>3. \/ \E code : Returns(stack, code, pending.gas)
      \/ \E n : /\ stack' = Append(stack, [msg |-> pending, snapshot |-> n])
                /\ pending' = None
  BY DEF Call
<1>4. \A n : [msg |-> pending, snapshot |-> n].msg.gas = pending.gas
  OBVIOUS
<1> QED BY <1>2, <1>3, <1>4 DEF TakesGas

\* Neither is a creation.
LEMMA CreateGas ==
  ASSUME pending \in Messages, NEW a, Create(a)
  PROVE  LeavesGas(stack, pending.gas) \/ TakesGas(pending.gas)
<1>1. pending.gas \in Nat /\ pending.gas <= pending.gas /\ 0 <= pending.gas /\ 0 \in Nat
  BY DEF Messages
<1>2. \A code : Returns(stack, code, pending.gas) => LeavesGas(stack, pending.gas)
  BY <1>1, ReturnsGas
<1>3. \A code : Returns(stack, code, 0) => LeavesGas(stack, pending.gas)
  BY <1>1, ReturnsGas
<1> DEFINE m == [pending EXCEPT !.to = a]
<1>4. \/ \E code : Returns(stack, code, pending.gas)
      \/ \E code : Returns(stack, code, 0)
      \/ \E n : /\ stack' = Append(stack, [msg |-> m, snapshot |-> n])
                /\ pending' = None
  BY DEF Create
<1>5. m.gas = pending.gas
  BY DEF Messages
<1> HIDE DEF m
<1>6. \A n : [msg |-> m, snapshot |-> n].msg.gas = pending.gas
  BY <1>5
<1> QED BY <1>2, <1>3, <1>4, <1>6 DEF TakesGas

\* The gas of the message on top of the stack bounds what is left of it.
LEMMA EndGas ==
  ASSUME Frame.gas \in Nat, NEW s, NEW code, NEW gas \in Nat, gas <= Frame.gas,
         EndMessage(s, code, gas)
  PROVE  LeavesGas(Front(stack), Frame.gas)
<1> DEFINE left == IF code \in {"Success", "Revert"} THEN gas ELSE 0
<1>1. left \in Nat /\ left <= Frame.gas
  OBVIOUS
<1>2. Returns(Front(stack), code, left)
  BY DEF EndMessage
<1> HIDE DEF left
<1> QED BY <1>1, <1>2, ReturnsGas

\* What an ended message gives back is no more than it was given.
LEMMA CompleteGas ==
  ASSUME Frame.gas \in Nat, CompleteCall \/ CompleteCreate
  PROVE  LeavesGas(Front(stack), Frame.gas)
<1>1. \A o \in Outcomes : o[2] \in Nat /\ o[2] <= Frame.gas
  BY DEF Outcomes
<1>2. CASE CompleteCall
  <2>1. PICK o \in Outcomes : EndMessage(ibs, o[1], o[2])
    BY <1>2 DEF CompleteCall
  <2> QED BY <1>1, <2>1, EndGas
<1>3. CASE CompleteCreate
  <2>1. PICK o \in Outcomes, c \in ReturnedCodes :
          \/ \E s, code : EndMessage(s, code, o[2])
          \/ /\ o[2] - c.len * CODE_DEPOSIT >= 0
             /\ \E s, code : EndMessage(s, code, o[2] - c.len * CODE_DEPOSIT)
    BY <1>3 DEF CompleteCreate
  <2> DEFINE gas == o[2] - c.len * CODE_DEPOSIT
  <2>2. c.len \in Nat
    BY DEF ReturnedCodes, MAX_CODE_SIZE
  <2>3. gas >= 0 => gas \in Nat /\ gas <= Frame.gas
    BY <1>1, <2>2 DEF CODE_DEPOSIT
  <2>4. \/ \E s, code : EndMessage(s, code, o[2])
        \/ gas >= 0 /\ \E s, code : EndMessage(s, code, gas)
    BY <2>1
  <2> HIDE DEF gas
  <2> QED BY <1>1, <2>3, <2>4, EndGas
<1> QED BY <1>2, <1>3

\* The transaction goes on.
LEMMA LeavesMetered ==
  ASSUME Metered, tx # None, tx' = tx, gasUsed' = gasUsed, tx.gasLimit \in Nat,
         NEW rest, Len(rest) \in Nat, Len(stack) \in Nat, Len(rest) <= Len(stack),
         \A i \in 1 .. Len(rest) : rest[i] = stack[i],
         NEW n \in Int, n <= tx.gasLimit, LeavesGas(rest, n),
         pending' # None => pending'.gas \in Int
  PROVE  Metered'
<1>1. \A i \in 1 .. Len(rest) : i \in 1 .. Len(stack)
  OBVIOUS
<1>2. \A i \in 1 .. Len(stack') : stack'[i].msg.gas <= tx.gasLimit
  BY <1>1 DEF LeavesGas, Metered
<1>3. pending' # None => pending'.gas <= tx.gasLimit
  BY DEF LeavesGas
<1> QED BY <1>2, <1>3 DEF Metered

\* An interrupt of the interpreter keeps within the gas.
LEMMA TakesMetered ==
  ASSUME Metered, tx # None, tx' = tx, gasUsed' = gasUsed, stack \in Seq(FrameRecords),
         NEW n, n <= tx.gasLimit, TakesGas(n)
  PROVE  Metered'
<1>1. PICK f : f.msg.gas = n /\ stack' = Append(stack, f)
  BY DEF TakesGas
<1>2. stack \in Seq(FrameRecords \cup {f})
  OBVIOUS
<1>3. /\ Len(stack) \in Nat /\ Len(stack') = Len(stack) + 1
      /\ \A i \in 1 .. Len(stack) : stack'[i] = stack[i]
      /\ stack'[Len(stack) + 1] = f
  BY <1>1, <1>2, AppendProperties, LenProperties
<1>4. \A i \in 1 .. Len(stack') : i \in 1 .. Len(stack) \/ i = Len(stack) + 1
  BY <1>3
<1>5. \A i \in 1 .. Len(stack') : stack'[i].msg.gas <= tx.gasLimit
  BY <1>1, <1>3, <1>4 DEF Metered
<1>6. pending' = None
  BY DEF TakesGas
<1> QED BY <1>5, <1>6 DEF Metered

\* A step within a transaction keeps the gas metered.
LEMMA WithinMeters ==
  ASSUME Revertible, Metered, HandleMessage \/ Host \/ CompleteCall \/ CompleteCreate
  PROVE  Metered'
<1>1. tx # None /\ tx' = tx /\ gasUsed' = gasUsed
  BY DEF HandleMessage, Host, CompleteCall, CompleteCreate, Running, Halted, Revertible
<1>2. /\ tx \in Txs /\ Good(ibs) /\ Frames(ibs, stack)
      /\ PendingIn(db, ibs, stack, pending) /\ tx.gasLimit \in Nat
  BY <1>1, InTransaction, TxTypes
<1>3. stack \in Seq(FrameRecords) /\ Len(stack) \in Nat
  BY <1>2, LenProperties DEF Frames
<1>4. Revertible'
  BY HandleMessageKeeps, HostKeeps, CompleteKeeps
<1>5. pending' # None /\ pending'.kind = "Output" => pending'.gas \in Nat
  <2>1. pending' # None => pending' \in Messages \cup Outputs \cup Halts
    BY <1>1, <1>4 DEF Revertible, PendingIn
  <2> QED BY <2>1 DEF Messages, Outputs, Halts
<1>6. CASE HandleMessage
  <2>1. /\ pending # None /\ pending.kind \in {"Call", "CallCode", "DelegateCall", "Create"}
        /\ Call \/ \E a : Create(a)
    BY <1>6 DEF HandleMessage
  <2>2. pending \in Messages
    BY <1>2, <2>1, KindsApart DEF PendingIn
  <2>3. pending.gas \in Nat /\ pending.gas <= tx.gasLimit
    BY <1>1, <2>1, <2>2 DEF Metered, Messages
  <2>4. LeavesGas(stack, pending.gas) \/ TakesGas(pending.gas)
    BY <2>1, <2>2, CallGas, CreateGas
  <2>5. CASE LeavesGas(stack, pending.gas)
    BY <1>1, <1>2, <1>3, <1>5, <2>3, <2>5, LeavesMetered DEF LeavesGas
  <2>6. CASE TakesGas(pending.gas)
    BY <1>1, <1>3, <2>3, <2>6, TakesMetered
  <2> QED BY <2>4, <2>5, <2>6
<1>7. CASE Host
  <2>1. stack # <<>> /\ pending = None /\ ~IsPrecompiled(Frame.code) /\ stack' = stack
    BY <1>7 DEF Host, Running
  <2>2. /\ Frame \in Messages /\ Exists(ibs, Frame.to) /\ Frame.gas \in Nat
        /\ Last(stack) = stack[Len(stack)] /\ Len(stack) \in 1 .. Len(stack)
    BY <1>2, <2>1, FrameIs
  <2>3. \/ pending' = None
        \/ pending' = [kind |-> "Halt"]
        \/ \E c \in Calls : pending' = Message(c.kind, c.target, c.value)
    BY <1>2, <1>7, <2>1, <2>2, HostRuns
  <2>4. \A c : Message(c.kind, c.target, c.value).gas = Frame.gas
    BY DEF Message
  <2>5. Frame.gas <= tx.gasLimit
    BY <1>1, <2>2 DEF Metered, Frame
  <2>6. pending' # None /\ pending'.kind # "Halt" => pending'.gas <= tx.gasLimit
    BY <2>3, <2>4, <2>5
  <2> QED BY <1>1, <2>1, <2>6 DEF Metered
<1>8. CASE CompleteCall \/ CompleteCreate
  <2>1. stack # <<>>
    BY <1>2, <1>8, KindsApart DEF CompleteCall, CompleteCreate, Running, Halted, PendingIn
  <2>2. /\ Frame.gas \in Nat
        /\ Last(stack) = stack[Len(stack)] /\ Len(stack) \in 1 .. Len(stack)
    BY <1>2, <2>1, FrameIs
  <2>3. Frame.gas <= tx.gasLimit
    BY <1>1, <2>2 DEF Metered, Frame
  <2>4. LeavesGas(Front(stack), Frame.gas)
    BY <1>8, <2>2, CompleteGas
  <2>5. /\ Len(stack) \in Nat \ {0} /\ Len(Front(stack)) = Len(stack) - 1
        /\ \A i \in 1 .. Len(stack) - 1 : Front(stack)[i] = stack[i]
    BY <1>2, <2>1, FramePopped
  <2>6. pending' # None => pending'.gas \in Int
    BY <1>5, <2>4 DEF LeavesGas
  <2>7. Len(Front(stack)) \in Nat /\ Len(Front(stack)) <= Len(stack)
    BY <2>5
  <2> QED BY <1>1, <1>2, <1>3, <2>2, <2>3, <2>4, <2>5, <2>6, <2>7, LeavesMetered
<1> QED BY <1>6, <1>7, <1>8

-----------------------------------------------------------------------------
(* Balances and the refund *)

BalanceIn(d, s, a) == IF ExistsIn(d, s, a) THEN AccountIn(d, s, a).balance ELSE 0
RichIn(d, s) == \A a \in Addr : BalanceIn(d, s, a) >= 0
OriginalFor(d, s, a, k) == OriginalOf(d, Box(s, a), a, k, Incarnation(s, a))
CurrentFor(d, s, a, k) == CurrentOf(d, Box(s, a), a, k, Incarnation(s, a))
LostIn(d, s) ==
  {p \in Addr \X Slot : OriginalFor(d, s, p[1], p[2]) # 0 /\ CurrentFor(d, s, p[1], p[2]) = 0}
SolventIn(d, s) ==
  /\ RichIn(d, s) /\ s.refund >= 0
  /\ Eip1283 => s.refund >= SstoreClearsRefund * Cardinality(LostIn(d, s))

\* What all accounts together hold, and what they may hold during a block.
TotalIn(d, s) == SumFunction([a \in Addr |-> BalanceIn(d, s, a)])
KeptIn(d, M, s) == SolventIn(d, s) /\ TotalIn(d, s) <= M
Allowed(d) == SumFunction([a \in Addr |-> IF a \in DOMAIN BalanceChanges THEN BalanceChanges[a]
                                         ELSE BalanceIn(d, NewState, a)])
Left(d, t) == Allowed(d) - t.gasLimit * EffectivePrice(t)

\* With the database as it is, no account is overdrawn that was not.
LEMMA RichSame == ASSUME NEW s PROVE Rich(s) <=> RichIn(db, s)
BY AccountSame, ExistsIs DEF Rich, RichIn, Balance, BalanceIn

\* And the refund is covered as before.
LEMMA SolventIs == ASSUME NEW s PROVE Solvent(s) <=> SolventIn(db, s)
<1>1. \A a, k : /\ Original(s, a, k) = OriginalFor(db, s, a, k)
                /\ Current(s, a, k) = CurrentFor(db, s, a, k)
  BY ValuesSame DEF Original, Current, OriginalFor, CurrentFor
<1>2. Lost(s) = LostIn(db, s)
  BY <1>1 DEF Lost, LostIn
<1> QED BY <1>2, RichSame DEF Solvent, Refundable, Due, SolventIn

\* And a balance is what it was.
LEMMA BalanceSame == ASSUME NEW s, NEW a PROVE Balance(s, a) = BalanceIn(db, s, a)
BY AccountSame, ExistsIs DEF Balance, BalanceIn

\* And so is the total.
LEMMA TotalIs == ASSUME NEW s PROVE TotalBalance(s) = TotalIn(db, s)
<1>1. [a \in Addr |-> Balance(s, a)] = [a \in Addr |-> BalanceIn(db, s, a)]
  BY BalanceSame
<1> QED BY <1>1 DEF TotalBalance, TotalIn

\* And the bound is kept as before.
LEMMA KeptIs == ASSUME NEW M, NEW s PROVE Kept(M, s) <=> KeptIn(db, M, s)
BY SolventIs, TotalIs DEF Kept, KeptIn

\* What the accounts may hold is an integer.
LEMMA AllowedInt ==
  ASSUME db \in Databases
  PROVE  Allowed(db) \in Int /\ \A t \in Txs : Left(db, t) \in Int
<1> DEFINE g == [a \in Addr |-> IF a \in DOMAIN BalanceChanges THEN BalanceChanges[a]
                                ELSE BalanceIn(db, NewState, a)]
<1>1. \A a \in Addr : BalanceIn(db, NewState, a) \in Int
  <2>1. Counted(NewState)
    BY NewStateGood, GoodCounted
  <2> QED BY <2>1, BalanceSame DEF Counted
<1>2. g \in [Addr -> Int]
  BY <1>1, GenesisAssumption
<1> HIDE DEF g
<1>3. IsFiniteSet(Addr)
  BY AddrAssumption
<1>4. SumFunction(g) \in Int
  BY <1>2, <1>3, SumInt
<1>5. Allowed(db) \in Int
  BY <1>4 DEF Allowed, g
<1>6. ASSUME NEW t \in Txs PROVE t.gasLimit * EffectivePrice(t) \in Int
  BY TxTypes
<1> QED BY <1>5, <1>6 DEF Left

\* No account of a State, nor of its change sets, is overdrawn.
Backed(d) ==
  /\ \A a \in DOMAIN d.accounts : d.accounts[a].balance >= 0
  /\ \A a \in DOMAIN d.accountChanges :
       d.accountChanges[a] # None => d.accountChanges[a].balance >= 0

\* No account is overdrawn and no ether appears, and during a transaction the
\* refund is not overdrawn either and the gas is paid for, not even after any
\* message on the stack is reverted.
Funded ==
  /\ Backed(db)
  /\ ibs # None /\ tx = None => RichIn(db, ibs) /\ TotalIn(db, ibs) <= Allowed(db)
  /\ tx # None =>
       /\ KeptIn(db, Left(db, tx), ibs)
       /\ \A i \in 1 .. Len(stack) : KeptIn(db, Left(db, tx), Saving(ibs, stack[i]))

\* A step within a transaction keeps Funded, when each state that it goes
\* through does.
LEMMA WithinFunds ==
  ASSUME Revertible, Funded, tx # None, KeptStays, db' = db, tx' = tx
  PROVE  Funded'
<1> DEFINE M == Left(db, tx)
<1>1. M \in Int
  BY AllowedInt, InTransaction DEF Revertible
<1>2. Left(db', tx') = M
  OBVIOUS
<1>3. /\ KeptIn(db, M, ibs)
      /\ \A i \in 1 .. Len(stack) : KeptIn(db, M, Saving(ibs, stack[i]))
  BY DEF Funded
<1> HIDE DEF M
<1>4. AllKept(M, ibs, stack)
  BY <1>3, KeptIs DEF AllKept
<1>5. AllKept(M, ibs', stack')
  BY <1>1, <1>4 DEF KeptStays
<1>6. /\ KeptIn(db', M, ibs')
      /\ \A i \in 1 .. Len(stack') : KeptIn(db', M, Saving(ibs', stack'[i]))
  BY <1>5, KeptIs DEF AllKept
<1>7. Backed(db')
  BY DEF Funded
<1> QED BY <1>2, <1>6, <1>7 DEF Funded

\* A step that ends up between transactions does so when the accounts stay
\* within what they may hold.
LEMMA RichFunds ==
  ASSUME Funded, db' = db, tx' = None, ibs' # None => Within(Allowed(db), ibs')
  PROVE  Funded'
<1>1. ibs' # None => RichIn(db', ibs') /\ TotalIn(db', ibs') <= Allowed(db')
  BY RichSame, TotalIs DEF Within
<1>2. Backed(db')
  BY DEF Funded
<1> QED BY <1>1, <1>2 DEF Funded

\* No account that is read from the database is overdrawn.
LEMMA ReadBacked ==
  ASSUME Backed(db), NEW a, ReadAccount(a) # None
  PROVE  ReadAccount(a).balance >= 0
BY DEF Backed, ReadAccount

\* The irregular balance changes overdraw no account.
LEMMA BeginBlockFunds ==
  ASSUME Revertible, Funded, BeginBlock
  PROVE  Funded'
<1>1. ibs = None /\ ibs' = BalancesChanged /\ db' = db /\ tx' = tx
  BY DEF BeginBlock, Idle
<1>2. db \in Databases /\ tx = None
  BY <1>1 DEF Revertible
<1>3. Good(NewState) /\ Tidy(NewState) /\ NewState.refund = 0 /\ NewState.objects = Empty
  BY <1>2, NewStateGood, NewStateTidy DEF NewState
<1>4. Rich(NewState)
  <2>1. ASSUME NEW a \in Addr PROVE Balance(NewState, a) >= 0
    <3>1. Account(NewState, a) = ReadAccount(a)
      BY <1>3, EmptyType DEF Account
    <3> QED BY <3>1, ReadBacked DEF Funded, Balance, Exists
  <2> QED BY <2>1 DEF Rich
<1>5. \A a \in Addr : Balance(ibs', a) = IF a \in DOMAIN BalanceChanges THEN BalanceChanges[a]
                                          ELSE Balance(NewState, a)
  BY <1>1, <1>2, BalancesChangedGood
<1>6. Rich(ibs')
  BY <1>4, <1>5, GenesisAssumption DEF Rich
<1>7. TotalBalance(ibs') = Allowed(db)
  <2>1. [a \in Addr |-> Balance(ibs', a)]
          = [a \in Addr |-> IF a \in DOMAIN BalanceChanges THEN BalanceChanges[a]
                            ELSE BalanceIn(db, NewState, a)]
    BY <1>5, BalanceSame
  <2> QED BY <2>1 DEF TotalBalance, Allowed
<1>8. Within(Allowed(db), ibs')
  BY <1>2, <1>6, <1>7, AllowedInt DEF Within
<1> QED BY <1>1, <1>2, <1>8, RichFunds

\* The sender pays in advance for the gas and has the value as well.
LEMMA PreparedKept ==
  ASSUME NEW t \in Txs, Held(ibs), Tidy(ibs), NEW N \in Int, Within(N, ibs),
         TransactionValid(t)
  PROVE  Kept(N - t.gasLimit * EffectivePrice(t), Prepared(t))
<1> DEFINE c == ClearSubstate(ibs)
           from == AccessAccount(c, t.sender)
           paid == SubtractFromBalance(from, t.sender, t.gasLimit * EffectivePrice(t))
           to == AccessAccount(paid, t.to)
           counted == SetNonce(to, t.sender, t.nonce + 1)
           called == IF t.action = "Create" THEN paid ELSE counted
           listed == AccessAccount(called, t.to)
           keyed == AccessKeys(listed, t.to, t.access)
           cost == t.gasLimit * EffectivePrice(t)
           M == N - cost
<1>1. /\ t.sender \in Addr /\ t.to \in Addr /\ t.nonce + 1 \in Nat
      /\ cost \in Int /\ M \in Int /\ t.access \in Seq(Slot)
  BY TxTypes
<1>2. Prepared(t) = IF t.access = <<>> THEN called ELSE keyed
  BY DEF Prepared
<1>3. Good(c) /\ SameData(ibs, c) /\ c.refund = 0
  BY ClearedGood DEF Cleared
<1> HIDE DEF c
<1>4. \A a : Account(c, a) = Account(ibs, a) /\ Balance(c, a) = Balance(ibs, a)
  BY <1>3 DEF SameData, Account, Balance, Exists
<1>5. Kept(N, c)
  <2>1. Rich(c)
    BY <1>4 DEF Rich, Within
  <2>2. \A a \in Addr, k \in Slot : Original(c, a, k) = Current(c, a, k)
    <3>1. Settled(c) /\ c.incarnations = ibs.incarnations /\ c.storage = ibs.storage
      BY <1>3 DEF Good, SameData
    <3>2. \A a : Box(c, a) = Box(ibs, a)
      BY <3>1 DEF Box
    <3> QED BY <3>1, <3>2, PlainView DEF Tidy
  <2>3. Solvent(c)
    BY <1>3, <2>1, <2>2, NothingLost
  <2>4. TotalBalance(c) = TotalBalance(ibs)
    BY <1>4, TotalSame
  <2> QED BY <2>3, <2>4 DEF Within, Kept
<1>6. cost <= Balance(ibs, t.sender)
  <2> DEFINE g == t.gasLimit
             p == EffectivePrice(t)
             m == t.maxFee
             b == Balance(ibs, t.sender)
  <2>1. g \in Nat /\ p \in Nat /\ m \in Nat /\ t.value \in Nat /\ p <= m /\ b \in Int
    BY <1>1, TxTypes, HeldAccountType
  <2>2. b >= g * m + t.value
    BY DEF TransactionValid
  <2> HIDE DEF g, p, m, b
  <2>3. g * p <= g * m /\ g * m \in Nat /\ g * p \in Nat
    BY <2>1
  <2> QED BY <2>1, <2>2, <2>3 DEF g, p, b
<1> HIDE DEF cost, M
<1>7. Good(from) /\ Kept(N, from) /\ cost <= Balance(from, t.sender)
  <2>1. Calm(c, from) /\ Good(from)
    BY <1>1, <1>3, AccessAccountCalm, AccessAccountRuns, RunsGood
  <2> HIDE DEF from
  <2>2. Balance(from, t.sender) = Balance(ibs, t.sender)
    BY <1>1, <1>4, <2>1 DEF Calm
  <2> QED BY <1>5, <1>6, <2>1, <2>2, CalmPays DEF Pays
<1> HIDE DEF from
<1>8. Good(paid) /\ Kept(M, paid)
  BY <1>1, <1>7, SubtractKept DEF M, cost
<1> HIDE DEF paid
<1>9. Good(to) /\ Kept(M, to)
  BY <1>1, <1>8, AccessAccountRuns, RunsGood, AccessAccountCalm, CalmPays DEF Pays
<1> HIDE DEF to
<1>10. Good(counted) /\ Kept(M, counted)
  BY <1>1, <1>9, SetNonceRuns, RunsGood, SetNonceCalm, CalmPays DEF Pays
<1> HIDE DEF counted
<1>11. Good(called) /\ Kept(M, called)
  BY <1>8, <1>10
<1> HIDE DEF called
<1>12. Good(listed) /\ Kept(M, listed)
  BY <1>1, <1>11, AccessAccountRuns, RunsGood, AccessAccountCalm, CalmPays DEF Pays
<1> HIDE DEF listed
<1>13. Kept(M, keyed)
  BY <1>1, <1>12, AccessKeysRuns, CalmPays DEF Pays
<1> HIDE DEF keyed
<1> QED BY <1>2, <1>11, <1>13 DEF M, cost

\* The gas is bought by a sender that validate_transaction has found able to
\* pay.
LEMMA BeginTransactionFunds ==
  ASSUME Revertible, Remembered, Funded, NEW t \in Txs, BeginTransaction(t)
  PROVE  Funded'
<1>1. ibs # None /\ tx = None /\ stack = <<>>
  BY DEF BeginTransaction, Idle, Revertible
<1>2. CASE DropBlock
  <2>1. ibs' = None /\ tx' = None /\ db' = db
    BY <1>1, <1>2 DEF DropBlock
  <2> QED BY <2>1, RichFunds
<1>3. CASE ~DropBlock
  <2>1. /\ tx' = t /\ ibs' = Prepared(t) /\ db' = db /\ stack' = stack /\ TransactionValid(t)
    BY <1>3 DEF BeginTransaction
  <2>2. Held(ibs) /\ Tidy(ibs) /\ Within(Allowed(db), ibs) /\ db \in Databases
    BY <1>1, Between, TidySame, RichSame, TotalIs DEF Remembered, Funded, Within, Revertible
  <2>3. Allowed(db) \in Int
    BY <2>2, AllowedInt
  <2>4. Kept(Left(db, t), ibs')
    BY <2>1, <2>2, <2>3, PreparedKept DEF Left
  <2>5. KeptIn(db', Left(db', tx'), ibs')
    BY <2>1, <2>4, KeptIs
  <2>6. Len(stack') = 0 /\ tx' # None /\ Backed(db')
    BY <1>1, <2>1, TxTypes DEF Funded
  <2> QED BY <2>5, <2>6 DEF Funded
<1> QED BY <1>2, <1>3

\* refund_gas and the priority fee give back no more than the gas has cost.
LEMMA FinishTransactionFunds ==
  ASSUME Revertible, Funded, Metered, FinishTransaction
  PROVE  Funded' /\ Metered'
<1>1. /\ pending # None /\ pending.kind = "Output" /\ tx' = None /\ db' = db
      /\ gasUsed' = gasUsed + (tx.gasLimit - GasLeft(ibs, tx, pending.gas))
  BY DEF FinishTransaction
<1>2. tx # None
  BY <1>1 DEF Revertible
<1>3. /\ Good(ibs) /\ PendingIn(db, ibs, stack, pending) /\ tx \in Txs
  BY <1>2, InTransaction
<1>4. pending \in Outputs
  BY <1>1, <1>3, KindsApart DEF PendingIn
<1>5. /\ Kept(Left(db, tx), ibs) /\ pending.gas <= tx.gasLimit /\ pending.gas \in Nat
      /\ Allowed(db) \in Int
  BY <1>1, <1>2, <1>4, KeptIs, AllowedInt DEF Funded, Metered, Outputs, Revertible
<1>6. Within(Allowed(db), ibs')
  BY <1>1, <1>3, <1>4, <1>5, FinishHeld DEF Left
<1>7. Funded'
  BY <1>1, <1>6, RichFunds
<1> DEFINE left == GasLeft(ibs, tx, pending.gas)
<1>8. left \in 0 .. tx.gasLimit /\ tx.gasLimit \in Nat
  <2>1. ibs.refund >= 0
    BY <1>5 DEF Kept, Solvent, Refundable
  <2> QED BY <1>3, <1>5, <2>1, GoodHeld, GasLeftWithin, TxTypes
<1>9. gasUsed \in Nat /\ gasUsed + tx.gasLimit <= BlockGasLimit /\ BlockGasLimit \in Nat
  BY <1>2, FeeAssumption DEF Metered
<1>10. gasUsed' = gasUsed + (tx.gasLimit - left)
  BY <1>1
<1> HIDE DEF left
<1>11. gasUsed' \in Nat /\ gasUsed' + 0 <= BlockGasLimit
  BY <1>8, <1>9, <1>10
<1>12. Metered'
  BY <1>1, <1>11 DEF Metered
<1> QED BY <1>7, <1>12

\* The reward is added, and the State holds what the accounts hold.
LEMMA EndBlockFunds ==
  ASSUME Revertible, Funded, EndBlock
  PROVE  Funded'
<1>1. ibs # None /\ tx = None /\ db \in Databases
  BY DEF EndBlock, Idle, Revertible
<1>2. ibs' = None /\ tx' = None
  BY <1>1 DEF EndBlock, DropBlock
<1>3. Held(ibs) /\ Rich(ibs) /\ Backed(db)
  BY <1>1, Between, RichSame DEF Funded
<1>4. Backed(db')
  <2>1. CASE DropBlock
    BY <1>3, <2>1 DEF DropBlock
  <2>2. CASE ~DropBlock
    <3> DEFINE u == AddToBalance(ibs, Beneficiary, Reward)
               c == [OrNew(ibs, Beneficiary) EXCEPT
                       !.balance = Balance(ibs, Beneficiary) + Reward]
    <3>1. db' = With(u, Written)
      BY <2>2 DEF EndBlock
    <3>2. HeldSet(ibs, Beneficiary, c, u)
      BY <1>3, AddrAssumption, FeeAssumption, AddHeld
    <3>3. Balance(ibs, Beneficiary) \in Int /\ Balance(ibs, Beneficiary) >= 0 /\ Reward \in Nat
      BY <1>3, AddrAssumption, FeeAssumption, HeldAccountType DEF Rich
    <3>4. c.balance >= 0
      <4>1. OrNew(ibs, Beneficiary) \in Accounts
        BY <1>3, AddrAssumption, HeldAccountType, NewAccountType DEF OrNew, Exists
      <4>2. c.balance = Balance(ibs, Beneficiary) + Reward
        BY <4>1 DEF Accounts
      <4> HIDE DEF c
      <4> QED BY <3>3, <4>2
    <3> HIDE DEF u, c
    <3>5. db' = Written(u)
      BY <3>1 DEF With
    <3>6. ASSUME NEW a \in Addr, Exists(u, a) PROVE Account(u, a).balance >= 0
      <4>1. CASE a = Beneficiary
        BY <3>2, <3>4, <4>1 DEF HeldSet
      <4>2. CASE a # Beneficiary
        <5>1. Account(u, a) = Account(ibs, a) /\ Account(ibs, a) # None
          BY <3>2, <3>6, <4>2 DEF HeldSet, Exists
        <5>2. Balance(ibs, a) = Account(ibs, a).balance
          BY <5>1 DEF Balance, Exists
        <5> QED BY <1>3, <5>1, <5>2 DEF Rich
      <4> QED BY <4>1, <4>2
    <3>7. \A a \in DOMAIN u.objects : u.objects[a].initial = ReadAccount(a)
      BY <3>2 DEF HeldSet, Held, InitialsMatch
    <3>8. \A a \in DOMAIN u.objects :
            u.objects[a].initial # None => u.objects[a].initial.balance >= 0
      BY <1>3, <3>7, ReadBacked
    <3> DEFINE f == [a \in {x \in Addr : Exists(u, x)} |-> Account(u, a)]
               h == [a \in DOMAIN u.objects |-> u.objects[a].initial]
    <3>9. db'.accounts = f /\ db'.accountChanges = h
      BY <3>5 DEF Written
    <3>10. \A a \in DOMAIN f : f[a].balance >= 0
      BY <3>6
    <3>11. \A a \in DOMAIN h : h[a] # None => h[a].balance >= 0
      BY <3>8
    <3> HIDE DEF f, h
    <3> QED BY <3>9, <3>10, <3>11 DEF Backed
  <2> QED BY <2>1, <2>2
<1> QED BY <1>2, <1>4 DEF Funded

\* The change sets hold no account that is overdrawn.
LEMMA UnwindBlockFunds ==
  ASSUME Revertible, Funded, UnwindBlock
  PROVE  Funded'
<1>1. /\ ibs = None /\ db' = Unwound(db) /\ ibs' = None /\ tx' = tx
  BY DEF UnwindBlock, Idle
<1>2. db \in Databases /\ tx = None /\ Backed(db)
  BY <1>1 DEF Revertible, Funded
<1> DEFINE f == [a \in {x \in Addr : IF x \in DOMAIN db.accountChanges
                                     THEN db.accountChanges[x] # None
                                     ELSE x \in DOMAIN db.accounts} |->
                   IF a \in DOMAIN db.accountChanges THEN db.accountChanges[a]
                                                     ELSE db.accounts[a]]
<1>3. db'.accounts = f /\ db'.accountChanges = Empty
  BY <1>1, <1>2 DEF Unwound, Databases
<1>4. \A a \in DOMAIN f : f[a].balance >= 0
  BY <1>2 DEF Backed
<1> HIDE DEF f
<1>5. Backed(db')
  BY <1>3, <1>4, EmptyType DEF Backed
<1> QED BY <1>1, <1>2, <1>5 DEF Funded

\* Every step keeps Funded and Metered.
LEMMA NextFunds ==
  ASSUME Revertible, Remembered, Funded, Metered, [Next]_vars
  PROVE  Funded' /\ Metered'
<1>1. CASE UNCHANGED vars
  BY <1>1 DEF vars, Funded, Metered
<1>2. CASE BeginBlock
  <2>1. Metered'
    BY <1>2 DEF BeginBlock, Idle, Revertible, Metered
  <2> QED BY <1>2, <2>1, BeginBlockFunds
<1>3. ASSUME NEW t \in Txs, BeginTransaction(t) PROVE Funded' /\ Metered'
  <2>1. tx = None /\ ibs # None /\ stack = <<>> /\ pending = None
    BY <1>3 DEF BeginTransaction, Idle, Revertible
  <2>2. Metered'
    <3>1. CASE DropBlock
      <4>1. gasUsed' = 0 /\ tx' = None /\ BlockGasLimit \in Nat
        BY <2>1, <3>1, FeeAssumption DEF DropBlock
      <4> QED BY <4>1 DEF Metered
    <3>2. CASE ~DropBlock
      <4>1. /\ tx' = t /\ gasUsed' = gasUsed /\ stack' = stack
            /\ BlockGasLimit - gasUsed >= t.gasLimit
            /\ pending'.gas = t.gasLimit - IntrinsicGas(t)
        BY <1>3, <3>2 DEF BeginTransaction, TransactionValid
      <4>2. /\ t.gasLimit \in Nat /\ IntrinsicGas(t) \in Nat /\ BlockGasLimit \in Nat
            /\ gasUsed \in Nat /\ t # None
        BY TxTypes, FeeAssumption DEF Metered
      <4>3. Len(stack') = 0
        BY <2>1, <4>1
      <4>4. gasUsed' + t.gasLimit <= BlockGasLimit /\ pending'.gas <= t.gasLimit
        BY <4>1, <4>2
      <4> QED BY <4>1, <4>2, <4>3, <4>4 DEF Metered
    <3> QED BY <3>1, <3>2
  <2> QED BY <1>3, <2>2, BeginTransactionFunds
<1>4. CASE HandleMessage
  <2>1. tx # None
    BY <1>4 DEF HandleMessage, Revertible
  <2>2. UNCHANGED <<db, tx>>
    BY <1>4 DEF HandleMessage
  <2> QED BY <1>4, <2>1, <2>2, HandleMessageKeeps, WithinFunds, WithinMeters
<1>5. CASE Host
  <2>1. tx # None
    BY <1>5 DEF Host, Running, Revertible
  <2>2. UNCHANGED <<db, tx>>
    BY <1>5 DEF Host
  <2> QED BY <1>5, <2>1, <2>2, HostKeeps, WithinFunds, WithinMeters
<1>6. CASE CompleteCall \/ CompleteCreate
  <2>1. tx # None
    BY <1>6 DEF CompleteCall, CompleteCreate, Running, Halted, Revertible
  <2>2. UNCHANGED <<db, tx>>
    BY <1>6 DEF CompleteCall, CompleteCreate
  <2> QED BY <1>6, <2>1, <2>2, CompleteKeeps, WithinFunds, WithinMeters
<1>7. CASE FinishTransaction
  BY <1>7, FinishTransactionFunds
<1>8. CASE EndBlock
  <2>1. tx' = None /\ gasUsed' = 0 /\ BlockGasLimit \in Nat
    BY <1>8, FeeAssumption DEF EndBlock, DropBlock
  <2>2. Metered'
    BY <2>1 DEF Metered
  <2> QED BY <1>8, <2>2, EndBlockFunds
<1>9. CASE UnwindBlock
  <2>1. Metered'
    BY <1>9 DEF UnwindBlock, Metered
  <2> QED BY <1>9, <2>1, UnwindBlockFunds
<1> QED BY <1>1, <1>2, <1>3, <1>4, <1>5, <1>6, <1>7, <1>8, <1>9 DEF Next

\* The genesis block has no account that is overdrawn.
LEMMA InitFunds == Init => Funded /\ Metered
<1> SUFFICES ASSUME Init PROVE Funded /\ Metered
  OBVIOUS
<1>1. /\ db.accounts = Genesis /\ db.accountChanges = Empty
      /\ ibs = None /\ tx = None /\ gasUsed = 0
  BY DEF Init
<1>2. Backed(db)
  BY <1>1, GenesisAssumption, EmptyType DEF Backed
<1>3. BlockGasLimit \in Nat
  BY FeeAssumption
<1> QED BY <1>1, <1>2, <1>3 DEF Funded, Metered

\* In every reachable state no balance is negative, the accounts hold no more
\* than at the start of the block less the gas paid in advance, the refund
\* covers the cleared slots, and the transactions fit into the gas limit of the
\* block, also in each state that a message on the stack would be reverted to:
\* the inductive invariant of the accounting of ExecutionProcessor and EvmHost.
THEOREM BlockFunded == Spec => [](Revertible /\ Remembered /\ Funded /\ Metered)
<1>1. Init => Revertible /\ Remembered /\ Funded /\ Metered
  <2>1. Init => ibs = None /\ tx = None
    BY DEF Init
  <2> QED BY <2>1, InitRevertible, InitFunds DEF Remembered
<1>2. Revertible /\ Remembered /\ Funded /\ Metered /\ [Next]_vars
        => (Revertible /\ Remembered /\ Funded /\ Metered)'
  BY NextKeeps, NextRemembers, NextFunds
<1> QED BY <1>1, <1>2, PTL DEF Spec

\* The unsigned subtractions of execute_transaction, subtract_from_balance,
\* subtract_refund and available_gas never go below zero.
THEOREM NothingUnderflows == Spec => []NoUnderflow
<1>1. ASSUME Revertible, Remembered, Funded, Metered PROVE NoUnderflow
  <2>1. gasUsed + (IF tx = None THEN 0 ELSE tx.gasLimit) <= BlockGasLimit
    BY <1>1 DEF Metered
  <2>2. ASSUME ibs # None PROVE Rich(ibs)
    <3>1. tx = None => RichIn(db, ibs)
      BY <1>1, <2>2 DEF Funded
    <3>2. tx # None => RichIn(db, ibs)
      BY <1>1 DEF Funded, KeptIn, SolventIn
    <3> QED BY <3>1, <3>2, RichSame
  <2> DEFINE L == {p \in Addr \X Slot : /\ StorageAt(ibs, p[1], p[2], TRUE) # 0
                                        /\ StorageAt(ibs, p[1], p[2], FALSE) = 0}
  <2>3. ASSUME tx # None, Eip1283 PROVE ibs.refund >= SstoreClearsRefund * Cardinality(L)
    <3>1. Good(ibs)
      BY <1>1, <2>3, InTransaction
    <3>2. Settled(ibs) /\ InitialsMatch(ibs)
      BY <3>1 DEF Good, Sound
    <3>3. Sane(start, ibs)
      BY <1>1, <2>3, SaneIs DEF Remembered
    <3>4. ASSUME NEW a \in Addr, NEW k \in Slot
          PROVE  StorageAt(ibs, a, k, TRUE) # 0 /\ StorageAt(ibs, a, k, FALSE) = 0
                   <=> Original(ibs, a, k) # 0 /\ Current(ibs, a, k) = 0
      <4>1. CASE Exists(ibs, a)
        BY <3>2, <4>1, StorageIs
      <4>2. CASE ~Exists(ibs, a)
        <5>1. Original(ibs, a, k) = 0
          BY <3>3, <4>2 DEF Sane
        <5>2. StorageAt(ibs, a, k, TRUE) = 0
          BY <4>2 DEF StorageAt
        <5> QED BY <5>1, <5>2
      <4> QED BY <4>1, <4>2
    <3>5. L = Lost(ibs)
      BY <3>4 DEF Lost
    <3> HIDE DEF L
    <3>6. Solvent(ibs)
      BY <1>1, <2>3, SolventIs DEF Funded, KeptIn
    <3> QED BY <2>3, <3>5, <3>6 DEF Solvent, Refundable, Due
  <2> HIDE DEF L
  <2> QED BY <2>1, <2>2, <2>3 DEF NoUnderflow, Idle, Rich, L
<1> QED BY <1>1, BlockFunded, PTL

\* After the irregular changes and until the reward, the accounts and the gas
\* that the sender has paid in advance never hold more ether than the block
\* started with: transfers, SELFDESTRUCT, the gas refund and the priority fee
\* of ExecutionProcessor and EvmHost only move or burn it, also when messages
\* fail and are reverted.
THEOREM EtherOnlyBurns == Spec => []EtherNotCreated
<1>1. ASSUME Revertible, Remembered, Funded, Metered PROVE EtherNotCreated
  <2>1. SUFFICES ASSUME ibs # None
                 PROVE  TotalBalance(ibs)
                          + (IF tx = None THEN 0 ELSE tx.gasLimit * EffectivePrice(tx))
                        <= Allowed(db)
    <3>1. [a \in Addr |-> IF a \in DOMAIN BalanceChanges THEN BalanceChanges[a]
                          ELSE Balance(NewState, a)]
            = [a \in Addr |-> IF a \in DOMAIN BalanceChanges THEN BalanceChanges[a]
                              ELSE BalanceIn(db, NewState, a)]
      BY BalanceSame
    <3> QED BY <3>1 DEF EtherNotCreated, Idle, Allowed
  <2>2. Allowed(db) \in Int
    BY <1>1, AllowedInt DEF Revertible
  <2>3. CASE tx = None
    <3>1. TotalBalance(ibs) \in Int
      BY <1>1, <2>1, <2>3, Between, HeldCounted, TotalInt
    <3>2. TotalBalance(ibs) <= Allowed(db)
      BY <1>1, <2>1, <2>3, TotalIs DEF Funded
    <3> QED BY <2>2, <2>3, <3>1, <3>2
  <2>4. CASE tx # None
    <3> DEFINE cost == tx.gasLimit * EffectivePrice(tx)
    <3>1. Good(ibs) /\ tx \in Txs
      BY <1>1, <2>4, InTransaction
    <3>2. TotalBalance(ibs) \in Int
      BY <3>1, GoodCounted, TotalInt
    <3>3. cost \in Int
      BY <3>1, TxTypes
    <3>4. TotalBalance(ibs) <= Allowed(db) - cost
      BY <1>1, <2>4, TotalIs DEF Funded, KeptIn, Left
    <3> HIDE DEF cost
    <3>5. TotalBalance(ibs) + cost <= Allowed(db)
      BY <2>2, <3>2, <3>3, <3>4
    <3> QED BY <2>4, <3>5 DEF cost
  <2> QED BY <2>3, <2>4
<1> QED BY <1>1, BlockFunded, PTL
=============================================================================
