-------------------------- MODULE StagedSyncProofs --------------------------
(***************************************************************************)
(* Proofs about StagedSync: what is committed is consistent, and no stage  *)
(* fails, for every tree of chains, every height and every setting of      *)
(* run().                                                                  *)
(*                                                                         *)
(* The inductive invariant SyncInv says that the tables of the open        *)
(* transaction and the committed ones are consistent, which stages have    *)
(* caught up in this round, and which ones an unwind has been through.     *)
(* For each stage there is a lemma about unwind() and one about execute(). *)
(***************************************************************************)
EXTENDS StagedSync, NatLemmas

-----------------------------------------------------------------------------
(* The inductive invariant *)

\* The fields of the tables and their values.
WellTyped(t) ==
  /\ DOMAIN t = {"canonical", "totalGas", "headerNumber", "body", "blockTx",
                 "totalTx", "txSender", "overshot", "progress"}
  /\ t.progress \in [StageId -> Height]
  /\ t.canonical \in [DOMAIN t.canonical -> Nat]
  /\ t.totalGas = [n \in DOMAIN t.totalGas |-> t.totalGas[n]]
  /\ t.totalTx = [n \in DOMAIN t.totalTx |-> t.totalTx[n]]
  /\ t.headerNumber \in [DOMAIN t.headerNumber -> Height]
  /\ t.body \in [DOMAIN t.body -> [hash : Nat, base : Nat, amount : Nat]]
  /\ t.blockTx \in [DOMAIN t.blockTx -> Nat]
  /\ t.txSender \in [DOMAIN t.txSender -> Nat]

\* A body counts the transactions of its block; that of genesis has none.
AmountsMatch(t) ==
  /\ t.body[0].base = 0 /\ t.body[0].amount = 0
  /\ \A n \in 1 .. t.progress["Bodies"] :
       t.body[n].amount = TxAmount[t.canonical[n]]

\* HeaderNumber holds numbers of blocks that BlockHashes has come to.
NumbersBelow(t) ==
  \A h \in DOMAIN t.headerNumber :
    t.headerNumber[h] \in 0 .. t.progress["BlockHashes"]

Consistent(t) ==
  /\ WellTyped(t)
  /\ HeadersMatch(t)
  /\ CumulativeMatch(t, t.totalGas, t.progress["TotalGasIndex"])
  /\ BodiesMatch(t)
  /\ AmountsMatch(t)
  /\ CumulativeMatch(t, t.totalTx, t.progress["TotalTxIndex"])
  /\ SendersMatch(t)
  /\ HashesMatch(t)
  /\ NumbersBelow(t)
  /\ StagesInOrder(t)

\* The stages that BlockHashes, ConvertBodies and SenderRecovery rely on have
\* caught up in this round when stage k is the next one.
CaughtUp(t, k) ==
  /\ k >= 3 => t.progress["TotalGasIndex"] = t.progress["Headers"]
  /\ k >= 4 => t.progress["BlockHashes"] = t.progress["Headers"]
  /\ k >= 6 => t.progress["TotalTxIndex"] = t.progress["Bodies"]

\* The stages that have been unwound are not above the unwind point.
BelowUnwindPoint ==
  unwindTo # None =>
    /\ unwindTo \in Nat
    /\ at \in DOMAIN Stages
    /\ \A k \in at + 1 .. Len(Stages) : tx.progress[Stages[k]] <= unwindTo

SyncInv ==
  /\ Consistent(db)
  /\ Consistent(tx)
  /\ at \in 1 .. Len(Stages) + 1
  /\ erigon \in [branch : Branches, top : Height]
  /\ maxBlock \in ToBlocks
  /\ unwindTo = None => CaughtUp(tx, at)
  /\ BelowUnwindPoint
  /\ status # "failed"

\* f counts on from c by the steps a, from h on.
Counts(f, N, h, c, a) ==
  f = [n \in 0 .. N |-> IF n <= h THEN c ELSE f[n - 1] + a[n]]

\* Such a count exists: the recursion in NextIds is well-founded.
LEMMA SumExists ==
  ASSUME NEW N \in Nat, NEW h \in Nat, NEW c, NEW a
  PROVE  \E f : Counts(f, N, h, c, a)
<1> DEFINE Sums(f, k) == \A n \in 0 .. k : f[n] = IF n <= h THEN c ELSE f[n - 1] + a[n]
           T == {k \in 0 .. N : ~ \E f : Sums(f, k)}
<1>1. \E f : Sums(f, 0)
  <2>1. Sums([n \in 0 .. 0 |-> c], 0)
    OBVIOUS
  <2> QED BY <2>1
<1>2. ASSUME NEW k \in 0 .. N, \E f : Sums(f, k) PROVE \E f : Sums(f, k + 1)
  <2>1. PICK f : Sums(f, k)
    BY <1>2
  <2> DEFINE g == [n \in 0 .. k + 1 |->
                     IF n <= k THEN f[n] ELSE IF n <= h THEN c ELSE f[k] + a[n]]
  <2>2. \A n \in 0 .. k : g[n] = f[n]
    OBVIOUS
  <2>3. ASSUME NEW n \in 0 .. k + 1
        PROVE  g[n] = IF n <= h THEN c ELSE g[n - 1] + a[n]
    <3>1. CASE n = k + 1
      <4>1. g[n] = IF n <= h THEN c ELSE f[k] + a[n]
        BY <3>1
      <4>2. g[n - 1] = f[k]
        BY <3>1, <2>2
      <4> HIDE DEF g
      <4> QED BY <4>1, <4>2
    <3>2. CASE n \in 0 .. k
      <4>1. f[n] = IF n <= h THEN c ELSE f[n - 1] + a[n]
        BY <2>1, <3>2
      <4>2. CASE n <= h
        BY <4>1, <4>2, <2>2, <3>2
      <4>3. CASE ~(n <= h)
        <5>1. g[n - 1] = f[n - 1] /\ g[n] = f[n]
          BY <2>2, <3>2, <4>3
        <5> HIDE DEF g
        <5> QED BY <5>1, <4>1, <4>3
      <4> QED BY <4>2, <4>3
    <3> QED BY <3>1, <3>2
  <2>4. Sums(g, k + 1) BY <2>3
  <2> HIDE DEF Sums
  <2> QED BY <2>4
<1>3. T = {}
  <2> HIDE DEF Sums
  <2> SUFFICES ASSUME T # {} PROVE FALSE
    OBVIOUS
  <2>1. PICK m \in T : \A k \in T : m <= k
    BY LeastNat, T \subseteq Nat
  <2>2. m # 0 BY <1>1
  <2>3. m - 1 \in 0 .. N /\ m - 1 \notin T
    BY <2>1, <2>2
  <2>4. \E f : Sums(f, m - 1) BY <2>3
  <2>5. \E f : Sums(f, (m - 1) + 1) BY <2>4, <1>2, <2>3
  <2> QED BY <2>5, (m - 1) + 1 = m
<1>4. PICK f : Sums(f, N)
  BY <1>3
<1> DEFINE g == [n \in 0 .. N |-> f[n]]
<1>5. ASSUME NEW n \in 0 .. N PROVE g[n] = IF n <= h THEN c ELSE g[n - 1] + a[n]
  <2>1. g[n] = f[n] /\ (~(n <= h) => g[n - 1] = f[n - 1])
    OBVIOUS
  <2> HIDE DEF g
  <2> QED BY <2>1, <1>4
<1>6. g = [n \in 0 .. N |-> g[n]]
  OBVIOUS
<1> HIDE DEF g
<1>7. Counts(g, N, h, c, a)
  BY <1>5, <1>6 DEF Counts
<1> QED BY <1>7

\* NextIds satisfies the equation that defines it.
LEMMA NextIdsDef ==
  ASSUME NEW h \in Height
  PROVE  \A n \in Height :
           NextIds(h)[n] = IF n <= h THEN tx.body[h].base + tx.body[h].amount
                           ELSE NextIds(h)[n - 1] + TxAmount[tx.canonical[n]]
<1> DEFINE c == tx.body[h].base + tx.body[h].amount
           a == [n \in Height |-> TxAmount[tx.canonical[n]]]
<1>2. PICK f : Counts(f, MaxHeight, h, c, a)
  <2> HIDE DEF a, c
  <2>1. h \in Nat /\ MaxHeight \in Nat BY HeightAssumption DEF Height
  <2> QED BY <2>1, SumExists
<1>3. f = [n \in Height |-> IF n <= h THEN c ELSE f[n - 1] + TxAmount[tx.canonical[n]]]
  BY <1>2 DEF Height, Counts
<1>4. NextIds(h) = [n \in Height |-> IF n <= h THEN c ELSE NextIds(h)[n - 1] + TxAmount[tx.canonical[n]]]
  BY <1>3 DEF NextIds
<1> QED BY <1>4
\* left is the walk down from block N + 1, at which nothing has been deleted.
Walks(left, N, table, canonical) ==
  left = [n \in 0 .. N + 1 |->
            IF n \notin DOMAIN canonical
            THEN IF n = N + 1 THEN table ELSE left[n + 1]
            ELSE SeekDelete(left[n + 1], canonical[n])]

\* Such a walk exists: the recursion in HashesLeft is well-founded.
LEMMA WalkExists ==
  ASSUME NEW N \in Nat, NEW table, NEW canonical, N + 1 \notin DOMAIN canonical
  PROVE  \E f : Walks(f, N, table, canonical)
<1> DEFINE Step(f, n) == IF n \notin DOMAIN canonical
                         THEN IF n = N + 1 THEN table ELSE f[n + 1]
                         ELSE SeekDelete(f[n + 1], canonical[n])
           Walk(f, k) == \A n \in N + 1 - k .. N + 1 : f[n] = Step(f, n)
           T == {k \in 0 .. N + 1 : ~ \E f : Walk(f, k)}
<1>1. \E f : Walk(f, 0)
  <2>1. Walk([n \in N + 1 .. N + 1 |-> table], 0)
    OBVIOUS
  <2> QED BY <2>1
<1>2. ASSUME NEW k \in 0 .. N, \E f : Walk(f, k) PROVE \E f : Walk(f, k + 1)
  <2>1. PICK f : Walk(f, k)
    BY <1>2
  <2> DEFINE g == [n \in N + 1 - (k + 1) .. N + 1 |->
                     IF n >= N + 1 - k THEN f[n] ELSE Step(f, n)]
  <2>2. \A n \in N + 1 - k .. N + 1 : g[n] = f[n]
    <3> HIDE DEF Step
    <3> QED OBVIOUS
  <2>3. g[N - k] = Step(f, N - k)
    <3> HIDE DEF Step
    <3> QED OBVIOUS
  <2>4. N - k + 1 \in N + 1 - k .. N + 1
    OBVIOUS
  <2> HIDE DEF g
  <2>5. ASSUME NEW n \in N + 1 - (k + 1) .. N + 1
        PROVE  g[n] = Step(g, n)
    <3>1. CASE n = N - k
      BY <3>1, <2>3, <2>2, <2>4
    <3>2. CASE n \in N + 1 - k .. N + 1
      <4>1. f[n] = Step(f, n)
        BY <2>1, <3>2
      <4>2. CASE n = N + 1
        BY <4>1, <4>2, <2>2, <3>2
      <4>3. CASE n # N + 1
        <5>1. g[n + 1] = f[n + 1] /\ g[n] = f[n]
          BY <2>2, <3>2, <4>3
        <5> QED BY <5>1, <4>1, <4>3
      <4> QED BY <4>2, <4>3
    <3> QED BY <3>1, <3>2
  <2>6. Walk(g, k + 1)
    <3> HIDE DEF Step
    <3> QED BY <2>5
  <2> HIDE DEF Walk
  <2> QED BY <2>6
<1>3. T = {}
  <2> HIDE DEF Walk
  <2> SUFFICES ASSUME T # {} PROVE FALSE
    OBVIOUS
  <2>1. PICK m \in T : \A k \in T : m <= k
    BY LeastNat, T \subseteq Nat
  <2>2. m # 0 BY <1>1
  <2>3. m - 1 \in 0 .. N /\ m - 1 \notin T
    BY <2>1, <2>2
  <2>4. \E f : Walk(f, m - 1) BY <2>3
  <2>5. \E f : Walk(f, (m - 1) + 1) BY <2>4, <1>2, <2>3
  <2> QED BY <2>5, (m - 1) + 1 = m
<1>4. PICK f : Walk(f, N + 1)
  <2> HIDE DEF Walk
  <2> QED BY <1>3
<1> DEFINE g == [n \in 0 .. N + 1 |-> f[n]]
<1>5. ASSUME NEW n \in 0 .. N + 1 PROVE g[n] = Step(g, n)
  <2>1. g[n] = f[n] /\ (n # N + 1 => g[n + 1] = f[n + 1])
    OBVIOUS
  <2>2. f[n] = Step(f, n)
    BY <1>4
  <2> HIDE DEF g
  <2> QED BY <2>1, <2>2
<1>6. g = [n \in 0 .. N + 1 |-> g[n]]
  OBVIOUS
<1> HIDE DEF g
<1>7. Walks(g, N, table, canonical)
  BY <1>5, <1>6 DEF Walks
<1> QED BY <1>7

\* HashesLeft satisfies the equation that defines it.
LEMMA HashesLeftDef ==
  ASSUME NEW t, DOMAIN t.canonical \subseteq Height
  PROVE  Walks(HashesLeft(t), MaxHeight, t.headerNumber, t.canonical)
<1>1. PICK f : Walks(f, MaxHeight, t.headerNumber, t.canonical)
  <2>1. MaxHeight + 1 \notin DOMAIN t.canonical /\ MaxHeight \in Nat
    BY HeightAssumption DEF Height
  <2> QED BY <2>1, WalkExists
<1> QED BY <1>1 DEF HashesLeft, Walks

\* seek and delete_current remove the key if it is there; the rows that are left
\* keep their values.
LEMMA SeekDeleteDeletes ==
  ASSUME NEW table, DOMAIN table \subseteq Nat, NEW key \in Nat
  PROVE  /\ DOMAIN SeekDelete(table, key) \subseteq DOMAIN table \ {key}
         /\ \A k \in DOMAIN SeekDelete(table, key) : SeekDelete(table, key)[k] = table[k]
         /\ SeekDelete(table, key) = [k \in DOMAIN SeekDelete(table, key) |-> table[k]]
<1> DEFINE found == {k \in DOMAIN table :
                  /\ k >= key
                  /\ \A j \in DOMAIN table : j >= key => k <= j}
<1>1. key \in DOMAIN table => key \in found
  OBVIOUS
<1> HIDE DEF found
<1>2. SeekDelete(table, key) = [k \in DOMAIN table \ found |-> table[k]]
  BY DEF SeekDelete, found
<1> QED BY <1>1, <1>2

\* The walk only deletes rows, and it deletes every hash it has passed.
LEMMA WalkDeletes ==
  ASSUME NEW N \in Nat, NEW table, DOMAIN table \subseteq Nat,
         NEW canonical, canonical \in [DOMAIN canonical -> Nat],
         DOMAIN canonical \subseteq 0 .. N,
         NEW left, Walks(left, N, table, canonical), NEW n \in 0 .. N + 1,
         NEW V, table \in [DOMAIN table -> V]
  PROVE  /\ DOMAIN left[n] \subseteq DOMAIN table
         /\ left[n] \in [DOMAIN left[n] -> V]
         /\ \A h \in DOMAIN left[n] : left[n][h] = table[h]
         /\ \A k \in DOMAIN canonical : k >= n => canonical[k] \notin DOMAIN left[n]
<1> DEFINE Good(m) == /\ DOMAIN left[m] \subseteq DOMAIN table
                      /\ left[m] \in [DOMAIN left[m] -> V]
                      /\ \A h \in DOMAIN left[m] : left[m][h] = table[h]
                      /\ \A k \in DOMAIN canonical : k >= m => canonical[k] \notin DOMAIN left[m]
           T == {k \in 0 .. N + 1 : ~ Good(N + 1 - k)}
<1>1. \A m \in 0 .. N + 1 :
        left[m] = IF m \notin DOMAIN canonical
                  THEN IF m = N + 1 THEN table ELSE left[m + 1]
                  ELSE SeekDelete(left[m + 1], canonical[m])
  BY DEF Walks
<1>2. Good(N + 1)
  <2>1. left[N + 1] = table BY <1>1
  <2> QED BY <2>1
<1>3. ASSUME NEW m \in 0 .. N, Good(m + 1) PROVE Good(m)
  <2>1. CASE m \notin DOMAIN canonical
    <3>1. left[m] = left[m + 1] BY <1>1, <2>1
    <3>2. \A k \in DOMAIN canonical : k >= m => k >= m + 1 BY <2>1
    <3> QED BY <1>3, <3>1, <3>2
  <2>2. CASE m \in DOMAIN canonical
    <3>1. left[m] = SeekDelete(left[m + 1], canonical[m]) BY <1>1, <2>2
    <3>2. DOMAIN left[m + 1] \subseteq Nat BY <1>3
    <3>3. /\ DOMAIN left[m] \subseteq DOMAIN left[m + 1] \ {canonical[m]}
          /\ \A k \in DOMAIN left[m] : left[m][k] = left[m + 1][k]
          /\ left[m] = [k \in DOMAIN left[m] |-> left[m + 1][k]]
      <4> DEFINE key == canonical[m]
                 old == left[m + 1]
      <4>1. key \in Nat BY <2>2
      <4>2. DOMAIN old \subseteq Nat BY <3>2
      <4>3. left[m] = SeekDelete(old, key) BY <3>1
      <4> HIDE DEF key, old
      <4>4. DOMAIN left[m] \subseteq DOMAIN old \ {key}
        BY <4>1, <4>2, <4>3, SeekDeleteDeletes
      <4>5. SeekDelete(old, key) = [k \in DOMAIN SeekDelete(old, key) |-> old[k]]
        BY <4>1, <4>2, SeekDeleteDeletes, Zenon
      <4>6. left[m] = [k \in DOMAIN left[m] |-> old[k]]
        BY <4>3, <4>5
      <4> QED BY <4>4, <4>6 DEF key, old
    <3>4. left[m] \in [DOMAIN left[m] -> V]
      BY <1>3, <3>3
    <3>5. \A k \in DOMAIN canonical : k >= m => k >= m + 1 \/ k = m
      OBVIOUS
    <3>6. \A k \in DOMAIN canonical : k >= m => canonical[k] \notin DOMAIN left[m]
      BY <3>5, <1>3, <3>3
    <3> QED BY <1>3, <3>3, <3>4, <3>6
  <2> QED BY <2>1, <2>2
<1>4. T = {}
  <2> HIDE DEF Good
  <2> SUFFICES ASSUME T # {} PROVE FALSE
    OBVIOUS
  <2>1. PICK m \in T : \A k \in T : m <= k
    BY LeastNat, T \subseteq Nat
  <2>2. m # 0 BY <1>2
  <2>3. m - 1 \in 0 .. N + 1 /\ m - 1 \notin T
    BY <2>1, <2>2
  <2>4. Good((N + 1 - m) + 1)
    BY <2>3, N + 1 - (m - 1) = (N + 1 - m) + 1
  <2>5. N + 1 - m \in 0 .. N BY <2>2
  <2> QED BY <2>4, <2>5, <1>3
<1>5. Good(n)
  <2> HIDE DEF Good
  <2>1. N + 1 - n \in 0 .. N + 1 /\ N + 1 - (N + 1 - n) = n
    OBVIOUS
  <2> QED BY <1>4, <2>1
<1> QED BY <1>5

\* The stages by name.
LEMMA StagesFacts ==
  /\ DOMAIN Stages = 1 .. 7 /\ Len(Stages) = 7
  /\ Stages[1] = "Headers" /\ Stages[2] = "TotalGasIndex" /\ Stages[3] = "BlockHashes"
  /\ Stages[4] = "Bodies" /\ Stages[5] = "TotalTxIndex"
  /\ Stages[6] = "SenderRecovery" /\ Stages[7] = "Finish"
  /\ StageId = {"Headers", "TotalGasIndex", "BlockHashes", "Bodies",
                "TotalTxIndex", "SenderRecovery", "Finish"}
<1>1. /\ DOMAIN Stages = 1 .. 7 /\ Len(Stages) = 7
      /\ Stages[1] = "Headers" /\ Stages[2] = "TotalGasIndex" /\ Stages[3] = "BlockHashes"
      /\ Stages[4] = "Bodies" /\ Stages[5] = "TotalTxIndex"
      /\ Stages[6] = "SenderRecovery" /\ Stages[7] = "Finish"
  BY DEF Stages
<1>2. ASSUME NEW k \in 1 .. 7 PROVE k = 1 \/ k = 2 \/ k = 3 \/ k = 4 \/ k = 5 \/ k = 6 \/ k = 7
  OBVIOUS
<1> QED BY <1>1, <1>2 DEF StageId

\* The order of the stages, spelt out.
LEMMA OrderFacts ==
  ASSUME NEW t
  PROVE  StagesInOrder(t) <=>
           /\ t.progress["TotalGasIndex"] <= t.progress["Headers"]
           /\ t.progress["BlockHashes"] <= t.progress["TotalGasIndex"]
           /\ t.progress["Bodies"] <= t.progress["BlockHashes"]
           /\ t.progress["TotalTxIndex"] <= t.progress["Bodies"]
           /\ t.progress["SenderRecovery"] <= t.progress["TotalTxIndex"]
           /\ t.progress["Finish"] <= t.progress["SenderRecovery"]
<1>1. ASSUME NEW k \in 1 .. 7 \ {1} PROVE k = 2 \/ k = 3 \/ k = 4 \/ k = 5 \/ k = 6 \/ k = 7
  OBVIOUS
<1>2. {2, 3, 4, 5, 6, 7} \subseteq 1 .. 7 \ {1}
  OBVIOUS
<1>3. StagesInOrder(t) <=> \A k \in {2, 3, 4, 5, 6, 7} : t.progress[Stages[k]] <= t.progress[Stages[k - 1]]
  BY <1>1, <1>2, StagesFacts DEF StagesInOrder
<1> QED BY <1>3, StagesFacts

\* The blocks 0 .. p are the same in both.
SameChain(t, u, p) == \A n \in 0 .. p : u.canonical[n] = t.canonical[n]

\* A cumulative index depends on the blocks it sums over only.
LEMMA CumulativeFrame ==
  ASSUME NEW t, NEW u, NEW index, NEW p \in Nat, SameChain(t, u, p),
         CumulativeMatch(t, index, p)
  PROVE  CumulativeMatch(u, index, p)
<1>1. ASSUME NEW m \in 0 .. p
      PROVE  {u.canonical[k] : k \in 1 .. m} = {t.canonical[k] : k \in 1 .. m}
  <2>1. \A k \in 1 .. m : u.canonical[k] = t.canonical[k]
    BY DEF SameChain
  <2> QED BY <2>1
<1> QED BY <1>1 DEF CumulativeMatch

\* The bodies depend on the blocks up to their stage's progress only.
LEMMA BodiesFrame ==
  ASSUME NEW t, NEW u, SameChain(t, u, t.progress["Bodies"]),
         t.progress["Bodies"] \in Nat,
         u.progress["Bodies"] = t.progress["Bodies"],
         u.body = t.body, u.blockTx = t.blockTx,
         BodiesMatch(t), AmountsMatch(t)
  PROVE  BodiesMatch(u) /\ AmountsMatch(u)
BY DEF BodiesMatch, AmountsMatch, SameChain

\* The senders depend on the blocks up to their stage's progress only.
LEMMA SendersFrame ==
  ASSUME NEW t, NEW u, SameChain(t, u, t.progress["SenderRecovery"]),
         t.progress["SenderRecovery"] \in Nat,
         u.progress["SenderRecovery"] = t.progress["SenderRecovery"],
         u.txSender = t.txSender,
         SendersMatch(t)
  PROVE  SendersMatch(u)
<1> DEFINE p == t.progress["SenderRecovery"]
<1>1. \A n \in 1 .. p : u.canonical[n] = t.canonical[n]
  BY DEF SameChain
<1>2. {n \in 1 .. p : TxAmount[u.canonical[n]] > 0} = {n \in 1 .. p : TxAmount[t.canonical[n]] > 0}
  BY <1>1
<1> QED BY <1>1, <1>2 DEF SendersMatch

\* HeaderNumber depends on the blocks up to its stage's progress only.
LEMMA HashesFrame ==
  ASSUME NEW t, NEW u, SameChain(t, u, t.progress["BlockHashes"]),
         t.progress["BlockHashes"] \in Nat,
         u.progress["BlockHashes"] = t.progress["BlockHashes"],
         u.headerNumber = t.headerNumber, u.overshot = t.overshot,
         \A h \in DOMAIN t.headerNumber : t.headerNumber[h] \in 0 .. t.progress["BlockHashes"],
         HashesMatch(t)
  PROVE  HashesMatch(u)
<1> DEFINE p == t.progress["BlockHashes"]
<1>1. \A n \in 0 .. p : u.canonical[n] = t.canonical[n]
  BY DEF SameChain
<1>2. {u.canonical[n] : n \in 0 .. p} = {t.canonical[n] : n \in 0 .. p}
  BY <1>1
<1> QED BY <1>1, <1>2 DEF HashesMatch


\* What stage s does leaves the tables of the other stages consistent, if the
\* blocks these have come to stay the same.
LEMMA Frame ==
  ASSUME NEW t, NEW u, Consistent(t), NEW s \in StageId,
         \A r \in StageId \ {s} : /\ u.progress[r] = t.progress[r]
                                /\ SameChain(t, u, t.progress[r])
  PROVE  /\ s # "TotalGasIndex" /\ u.totalGas = t.totalGas
            => CumulativeMatch(u, u.totalGas, u.progress["TotalGasIndex"])
         /\ s # "BlockHashes" /\ u.headerNumber = t.headerNumber /\ u.overshot = t.overshot
            => HashesMatch(u) /\ NumbersBelow(u)
         /\ s # "Bodies" /\ u.body = t.body /\ u.blockTx = t.blockTx
            => BodiesMatch(u) /\ AmountsMatch(u)
         /\ s # "TotalTxIndex" /\ u.totalTx = t.totalTx
            => CumulativeMatch(u, u.totalTx, u.progress["TotalTxIndex"])
         /\ s # "SenderRecovery" /\ u.txSender = t.txSender
            => SendersMatch(u)
<1>0. \A r \in StageId : t.progress[r] \in Nat
  BY HeightAssumption DEF Consistent, WellTyped, Height
<1>1. s # "TotalGasIndex" /\ u.totalGas = t.totalGas
            => CumulativeMatch(u, u.totalGas, u.progress["TotalGasIndex"])
  BY <1>0, CumulativeFrame, StagesFacts DEF Consistent
<1>2. s # "BlockHashes" /\ u.headerNumber = t.headerNumber /\ u.overshot = t.overshot
            => HashesMatch(u) /\ NumbersBelow(u)
  BY <1>0, HashesFrame, StagesFacts DEF Consistent, NumbersBelow
<1>3. s # "Bodies" /\ u.body = t.body /\ u.blockTx = t.blockTx
            => BodiesMatch(u) /\ AmountsMatch(u)
  BY <1>0, BodiesFrame, StagesFacts DEF Consistent
<1>4. s # "TotalTxIndex" /\ u.totalTx = t.totalTx
            => CumulativeMatch(u, u.totalTx, u.progress["TotalTxIndex"])
  BY <1>0, CumulativeFrame, StagesFacts DEF Consistent
<1>5. s # "SenderRecovery" /\ u.txSender = t.txSender
            => SendersMatch(u)
  BY <1>0, SendersFrame, StagesFacts DEF Consistent
<1> QED BY <1>1, <1>2, <1>3, <1>4, <1>5

\* u is t with the fields in changed replaced and stage s at p.
Updates(t, u, changed, s, p) ==
  /\ DOMAIN u = DOMAIN t
  /\ \A f \in DOMAIN t \ (changed \cup {"progress"}) : u[f] = t[f]
  /\ u.progress \in [StageId -> Height]
  /\ u.progress[s] = p
  /\ \A r \in StageId \ {s} : u.progress[r] = t.progress[r]

\* save_progress changes the progress of one stage.
LEMMA ProgressUpdates ==
  ASSUME NEW t, WellTyped(t), NEW s \in StageId, NEW p \in Height
  PROVE  Updates(t, [t EXCEPT !.progress[s] = p], {}, s, p)
BY DEF Updates, WellTyped

\* The canonical chain may change above what all other stages have come to.
LEMMA HeadersChange ==
  ASSUME NEW t, Consistent(t), NEW u, NEW p \in Height,
         Updates(t, u, {"canonical"}, "Headers", p),
         u.canonical \in [DOMAIN u.canonical -> Nat],
         HeadersMatch(u),
         NEW q \in Nat, q <= p, SameChain(t, u, q),
         t.progress["TotalGasIndex"] <= q
  PROVE  Consistent(u)
<1>0. \A r \in StageId : t.progress[r] \in Nat
  BY HeightAssumption DEF Consistent, WellTyped, Height
<1>1. \A r \in StageId \ {"Headers"} : t.progress[r] <= q
  BY <1>0, OrderFacts, StagesFacts DEF Consistent
<1>2. \A r \in StageId \ {"Headers"} : /\ u.progress[r] = t.progress[r]
                                      /\ SameChain(t, u, t.progress[r])
  BY <1>0, <1>1 DEF SameChain, Updates
<1>3. WellTyped(u)
  BY DEF Updates, WellTyped, Consistent
<1>4. StagesInOrder(u)
  BY <1>0, <1>2, OrderFacts, StagesFacts, HeightAssumption DEF Consistent, Updates, Height
<1>5. /\ u.totalGas = t.totalGas /\ u.headerNumber = t.headerNumber
      /\ u.overshot = t.overshot /\ u.body = t.body /\ u.blockTx = t.blockTx
      /\ u.totalTx = t.totalTx /\ u.txSender = t.txSender
  BY DEF Updates, WellTyped, Consistent
<1>6. "Headers" \in StageId BY StagesFacts
<1> QED BY <1>2, <1>3, <1>4, <1>5, <1>6, Frame DEF Consistent

\* A stage above Headers changes its own tables only.
LEMMA IndexChange ==
  ASSUME NEW t, Consistent(t), NEW u, NEW p \in Height,
         NEW s \in StageId \ {"Headers"}, NEW changed, "canonical" \notin changed,
         Updates(t, u, changed, s, p), WellTyped(u), StagesInOrder(u),
         \/ s # "TotalGasIndex" /\ "totalGas" \notin changed
         \/ CumulativeMatch(u, u.totalGas, u.progress["TotalGasIndex"]),
         \/ s # "BlockHashes" /\ "headerNumber" \notin changed /\ "overshot" \notin changed
         \/ HashesMatch(u) /\ NumbersBelow(u),
         \/ s # "Bodies" /\ "body" \notin changed /\ "blockTx" \notin changed
         \/ BodiesMatch(u) /\ AmountsMatch(u),
         \/ s # "TotalTxIndex" /\ "totalTx" \notin changed
         \/ CumulativeMatch(u, u.totalTx, u.progress["TotalTxIndex"]),
         \/ s # "SenderRecovery" /\ "txSender" \notin changed
         \/ SendersMatch(u)
  PROVE  Consistent(u)
<1>1. u.canonical = t.canonical /\ u.progress["Headers"] = t.progress["Headers"]
  BY StagesFacts DEF Updates, WellTyped, Consistent
<1>2. \A r \in StageId \ {s} : /\ u.progress[r] = t.progress[r]
                              /\ SameChain(t, u, t.progress[r])
  BY <1>1 DEF SameChain, Updates
<1>3. HeadersMatch(u)
  BY <1>1 DEF HeadersMatch, Consistent
<1>4. /\ "totalGas" \notin changed => u.totalGas = t.totalGas
      /\ "headerNumber" \notin changed => u.headerNumber = t.headerNumber
      /\ "overshot" \notin changed => u.overshot = t.overshot
      /\ "body" \notin changed => u.body = t.body
      /\ "blockTx" \notin changed => u.blockTx = t.blockTx
      /\ "totalTx" \notin changed => u.totalTx = t.totalTx
      /\ "txSender" \notin changed => u.txSender = t.txSender
  BY DEF Updates, WellTyped, Consistent
<1> QED BY <1>2, <1>3, <1>4, Frame DEF Consistent

\* A stage that moves between its neighbours keeps the stages in order.
LEMMA OrderAfter ==
  ASSUME NEW t, Consistent(t), NEW u, NEW p \in Height, NEW changed,
         NEW k \in 1 .. 7, Updates(t, u, changed, Stages[k], p),
         k < 7 => t.progress[Stages[k + 1]] <= p,
         k > 1 => p <= t.progress[Stages[k - 1]]
  PROVE  StagesInOrder(u)
<1>1. ASSUME NEW j \in 1 .. 7 PROVE Stages[j] \in StageId /\ (j # k => Stages[j] # Stages[k])
  BY StagesFacts
<1>2. ASSUME NEW j \in DOMAIN Stages \ {1}
      PROVE  u.progress[Stages[j]] <= u.progress[Stages[j - 1]]
  <2>1. j \in 2 .. 7 /\ j - 1 \in 1 .. 6 /\ t.progress[Stages[j]] <= t.progress[Stages[j - 1]]
    BY StagesFacts DEF Consistent, StagesInOrder
  <2>2. CASE j = k
    <3>1. u.progress[Stages[j]] = p /\ u.progress[Stages[j - 1]] = t.progress[Stages[j - 1]]
      BY <1>1, <2>1, <2>2 DEF Updates
    <3> QED BY <3>1, <2>1, <2>2
  <2>3. CASE j - 1 = k
    <3>1. u.progress[Stages[j - 1]] = p /\ u.progress[Stages[j]] = t.progress[Stages[j]]
      BY <1>1, <2>1, <2>3 DEF Updates
    <3>2. j = k + 1 BY <2>1, <2>3
    <3> QED BY <3>1, <3>2, <2>1
  <2>4. CASE j # k /\ j - 1 # k
    <3>1. /\ u.progress[Stages[j - 1]] = t.progress[Stages[j - 1]]
          /\ u.progress[Stages[j]] = t.progress[Stages[j]]
      BY <1>1, <2>1, <2>4 DEF Updates
    <3> QED BY <3>1, <2>1
  <2> QED BY <2>2, <2>3, <2>4
<1> QED BY <1>2 DEF StagesInOrder

-----------------------------------------------------------------------------
(* unwind() of each stage *)

\* What holds when unwind() of stage k is called.
Unwindable(t, k, to) ==
  /\ Consistent(t)
  /\ to \in Nat
  /\ to < t.progress[Stages[k]]
  /\ k < 7 => t.progress[Stages[k + 1]] <= to

\* The numbers involved when unwind() of stage k is called.
LEMMA UnwindableFacts ==
  ASSUME NEW t, NEW k \in 1 .. 7, NEW to, Unwindable(t, k, to)
  PROVE  /\ to \in Height /\ to \in Nat
         /\ Stages[k] \in StageId
         /\ t.progress[Stages[k]] \in Height /\ t.progress[Stages[k]] \in Nat
         /\ to < t.progress[Stages[k]]
         /\ k > 1 => to <= t.progress[Stages[k - 1]]
         /\ k < 7 => t.progress[Stages[k + 1]] <= to
         /\ Consistent(t) /\ WellTyped(t)
<1>1. Stages[k] \in StageId /\ (k > 1 => Stages[k - 1] \in StageId)
  BY StagesFacts DEF StageId
<1>2. t.progress \in [StageId -> Height] /\ StagesInOrder(t)
  BY DEF Unwindable, Consistent, WellTyped
<1>3. t.progress[Stages[k]] \in Height /\ (k > 1 => t.progress[Stages[k - 1]] \in Height)
  BY <1>1, <1>2
<1>4. k > 1 => t.progress[Stages[k]] <= t.progress[Stages[k - 1]]
  BY <1>2, StagesFacts DEF StagesInOrder
<1> QED BY <1>1, <1>3, <1>4, HeightAssumption DEF Unwindable, Consistent, Height

\* ConvertHeaders::unwind keeps the tables consistent.
LEMMA UnwindHeadersKeeps ==
  ASSUME NEW t, NEW to, Unwindable(t, 1, to)
  PROVE  Consistent([UnwindHeaders(t, to) EXCEPT !.progress["Headers"] = to])
<1> DEFINE u == [UnwindHeaders(t, to) EXCEPT !.progress["Headers"] = to]
<1>0. to \in Height /\ to \in Nat /\ t.progress["Headers"] \in Nat /\ to < t.progress["Headers"]
      /\ Consistent(t) /\ WellTyped(t) /\ "Headers" \in StageId /\ t.progress["TotalGasIndex"] <= to
  BY UnwindableFacts, StagesFacts
<1>1. Updates(t, u, {"canonical"}, "Headers", to) /\ u.canonical = UpTo(t.canonical, to)
  <2> DEFINE x == UpTo(t.canonical, to)
  <2> HIDE DEF x
  <2> QED BY <1>0 DEF UnwindHeaders, x, Updates, WellTyped
<1> HIDE DEF u
<1>2. DOMAIN t.canonical = 0 .. t.progress["Headers"]
  BY <1>0 DEF Consistent, HeadersMatch
<1>3. /\ DOMAIN u.canonical = 0 .. to
      /\ \A m \in 0 .. to : u.canonical[m] = t.canonical[m]
      /\ u.canonical = [m \in 0 .. to |-> t.canonical[m]]
  <2>1. {k \in DOMAIN t.canonical : k <= to} = 0 .. to
    BY <1>0, <1>2
  <2>2. UpTo(t.canonical, to) = [m \in 0 .. to |-> t.canonical[m]]
    BY <2>1 DEF UpTo
  <2> QED BY <2>2, <1>1
<1>4. u.canonical \in [DOMAIN u.canonical -> Nat]
  BY <1>0, <1>2, <1>3 DEF WellTyped
<1>5. HeadersMatch(u)
  BY <1>0, <1>1, <1>2, <1>3 DEF HeadersMatch, Consistent, Updates
<1>6. SameChain(t, u, to)
  BY <1>3 DEF SameChain
<1>7. Consistent(u)
  BY <1>0, <1>1, <1>4, <1>5, <1>6, HeadersChange
<1> QED BY <1>7 DEF u

\* TotalGasIndex::unwind keeps the tables consistent.
LEMMA UnwindTotalGasKeeps ==
  ASSUME NEW t, NEW to, Unwindable(t, 2, to)
  PROVE  Consistent([UnwindTotalGas(t, to) EXCEPT !.progress["TotalGasIndex"] = to])
<1> DEFINE u == [UnwindTotalGas(t, to) EXCEPT !.progress["TotalGasIndex"] = to]
           p == t.progress["TotalGasIndex"]
<1>0. to \in Height /\ to \in Nat /\ p \in Nat /\ to < p
      /\ Consistent(t) /\ WellTyped(t) /\ "TotalGasIndex" \in StageId /\ "TotalGasIndex" # "Headers"
      /\ t.progress[Stages[3]] <= to /\ to <= t.progress[Stages[1]]
  BY UnwindableFacts, StagesFacts
<1>1. Updates(t, u, {"totalGas"}, "TotalGasIndex", to) /\ u.totalGas = UpTo(t.totalGas, to)
  <2> DEFINE x == UpTo(t.totalGas, to)
  <2> HIDE DEF x
  <2> QED BY <1>0 DEF UnwindTotalGas, x, Updates, WellTyped
<1> HIDE DEF u
<1>2. CumulativeMatch(t, t.totalGas, p) /\ DOMAIN t.totalGas = 0 .. p
  BY <1>0 DEF Consistent, CumulativeMatch
<1>3. /\ DOMAIN u.totalGas = 0 .. to
      /\ \A m \in 0 .. to : u.totalGas[m] = t.totalGas[m]
      /\ u.totalGas = [m \in 0 .. to |-> t.totalGas[m]]
  <2>1. {k \in DOMAIN t.totalGas : k <= to} = 0 .. to
    BY <1>0, <1>2
  <2>2. UpTo(t.totalGas, to) = [m \in 0 .. to |-> t.totalGas[m]]
    BY <2>1 DEF UpTo
  <2> QED BY <2>2, <1>1
<1>4. WellTyped(u)
  BY <1>0, <1>1, <1>3 DEF WellTyped, Updates
<1>5. u.canonical = t.canonical /\ u.progress["TotalGasIndex"] = to
  BY <1>0, <1>1 DEF WellTyped, Updates
<1>6. CumulativeMatch(u, u.totalGas, to)
  BY <1>0, <1>2, <1>3, <1>5 DEF CumulativeMatch
<1>7. StagesInOrder(u)
  BY <1>0, <1>1, OrderAfter, StagesFacts
<1>8. Consistent(u)
  BY <1>0, <1>1, <1>4, <1>5, <1>6, <1>7, IndexChange
<1> QED BY <1>8 DEF u

\* TotalTxIndex::unwind keeps the tables consistent.
LEMMA UnwindTotalTxKeeps ==
  ASSUME NEW t, NEW to, Unwindable(t, 5, to)
  PROVE  Consistent([UnwindTotalTx(t, to) EXCEPT !.progress["TotalTxIndex"] = to])
<1> DEFINE u == [UnwindTotalTx(t, to) EXCEPT !.progress["TotalTxIndex"] = to]
           p == t.progress["TotalTxIndex"]
<1>0. to \in Height /\ to \in Nat /\ p \in Nat /\ to < p
      /\ Consistent(t) /\ WellTyped(t) /\ "TotalTxIndex" \in StageId /\ "TotalTxIndex" # "Headers"
      /\ t.progress[Stages[6]] <= to /\ to <= t.progress[Stages[4]]
  BY UnwindableFacts, StagesFacts
<1>1. Updates(t, u, {"totalTx"}, "TotalTxIndex", to) /\ u.totalTx = UpTo(t.totalTx, to)
  <2> DEFINE x == UpTo(t.totalTx, to)
  <2> HIDE DEF x
  <2> QED BY <1>0 DEF UnwindTotalTx, x, Updates, WellTyped
<1> HIDE DEF u
<1>2. CumulativeMatch(t, t.totalTx, p) /\ DOMAIN t.totalTx = 0 .. p
  BY <1>0 DEF Consistent, CumulativeMatch
<1>3. /\ DOMAIN u.totalTx = 0 .. to
      /\ \A m \in 0 .. to : u.totalTx[m] = t.totalTx[m]
      /\ u.totalTx = [m \in 0 .. to |-> t.totalTx[m]]
  <2>1. {k \in DOMAIN t.totalTx : k <= to} = 0 .. to
    BY <1>0, <1>2
  <2>2. UpTo(t.totalTx, to) = [m \in 0 .. to |-> t.totalTx[m]]
    BY <2>1 DEF UpTo
  <2> QED BY <2>2, <1>1
<1>4. WellTyped(u)
  BY <1>0, <1>1, <1>3 DEF WellTyped, Updates
<1>5. u.canonical = t.canonical /\ u.progress["TotalTxIndex"] = to
  BY <1>0, <1>1 DEF WellTyped, Updates
<1>6. CumulativeMatch(u, u.totalTx, to)
  BY <1>0, <1>2, <1>3, <1>5 DEF CumulativeMatch
<1>7. StagesInOrder(u)
  BY <1>0, <1>1, OrderAfter, StagesFacts
<1>8. Consistent(u)
  BY <1>0, <1>1, <1>4, <1>5, <1>6, <1>7, IndexChange
<1> QED BY <1>8 DEF u

\* SenderRecovery::unwind keeps the tables consistent.
LEMMA UnwindSendersKeeps ==
  ASSUME NEW t, NEW to, Unwindable(t, 6, to)
  PROVE  Consistent([UnwindSenders(t, to) EXCEPT !.progress["SenderRecovery"] = to])
<1> DEFINE u == [UnwindSenders(t, to) EXCEPT !.progress["SenderRecovery"] = to]
           p == t.progress["SenderRecovery"]
<1>0. to \in Height /\ to \in Nat /\ p \in Nat /\ to < p
      /\ Consistent(t) /\ WellTyped(t) /\ "SenderRecovery" \in StageId /\ "SenderRecovery" # "Headers"
      /\ t.progress[Stages[7]] <= to /\ to <= t.progress[Stages[5]]
  BY UnwindableFacts, StagesFacts
<1>1. Updates(t, u, {"txSender"}, "SenderRecovery", to) /\ u.txSender = UpTo(t.txSender, to)
  <2> DEFINE x == UpTo(t.txSender, to)
  <2> HIDE DEF x
  <2> QED BY <1>0 DEF UnwindSenders, x, Updates, WellTyped
<1> HIDE DEF u
<1>2. SendersMatch(t)
  BY <1>0 DEF Consistent
<1>3. u.canonical = t.canonical /\ u.progress["SenderRecovery"] = to
  BY <1>0, <1>1 DEF WellTyped, Updates
<1>4. {n \in DOMAIN t.txSender : n <= to} = {n \in 1 .. to : TxAmount[t.canonical[n]] > 0}
  BY <1>0, <1>2 DEF SendersMatch
<1>5. u.txSender = [n \in {n \in 1 .. to : TxAmount[t.canonical[n]] > 0} |-> t.txSender[n]]
  BY <1>1, <1>4 DEF UpTo
<1>6. {n \in 1 .. to : TxAmount[t.canonical[n]] > 0} \subseteq DOMAIN t.txSender
  BY <1>4
<1>7. WellTyped(u)
  BY <1>0, <1>1, <1>5, <1>6 DEF WellTyped, Updates
<1>8. SendersMatch(u)
  BY <1>2, <1>3, <1>5, <1>6 DEF SendersMatch
<1>9. StagesInOrder(u)
  BY <1>0, <1>1, OrderAfter, StagesFacts
<1>10. Consistent(u)
  BY <1>0, <1>1, <1>7, <1>8, <1>9, IndexChange
<1> QED BY <1>10 DEF u

\* FinishStage::unwind keeps the tables consistent.
LEMMA UnwindFinishKeeps ==
  ASSUME NEW t, NEW to, Unwindable(t, 7, to)
  PROVE  Consistent([t EXCEPT !.progress["Finish"] = to])
<1> DEFINE u == [t EXCEPT !.progress["Finish"] = to]
<1>0. to \in Height /\ to \in Nat
      /\ Consistent(t) /\ WellTyped(t) /\ "Finish" \in StageId /\ "Finish" # "Headers"
      /\ to <= t.progress[Stages[6]]
  BY UnwindableFacts, StagesFacts
<1>1. Updates(t, u, {}, "Finish", to)
  BY <1>0, ProgressUpdates
<1> HIDE DEF u
<1>2. WellTyped(u)
  BY <1>0, <1>1 DEF WellTyped, Updates
<1>3. StagesInOrder(u)
  BY <1>0, <1>1, OrderAfter, StagesFacts
<1>4. Consistent(u)
  BY <1>0, <1>1, <1>2, <1>3, IndexChange
<1> QED BY <1>4 DEF u

\* A hash belongs to one block number.
LEMMA CanonicalInjective ==
  ASSUME NEW t, Consistent(t), NEW m \in DOMAIN t.canonical, NEW n \in DOMAIN t.canonical,
         t.canonical[m] = t.canonical[n]
  PROVE  m = n
<1>1. PICK b \in Branches : \A k \in DOMAIN t.canonical : t.canonical[k] = Tree[b][k]
  BY DEF Consistent, HeadersMatch
<1>2. t.progress["Headers"] \in Height
  BY StagesFacts DEF Consistent, WellTyped
<1>3. DOMAIN t.canonical \subseteq Height
  BY <1>2, HeightAssumption DEF Consistent, HeadersMatch, Height
<1> QED BY <1>1, <1>3, TreeAssumption

\* BlockHashes::unwind keeps the tables consistent: of the canonical hashes up
\* to the unwind point only those that were overshot are missing.
LEMMA UnwindBlockHashesKeeps ==
  ASSUME NEW t, NEW to, Unwindable(t, 3, to)
  PROVE  Consistent([UnwindBlockHashes(t, to) EXCEPT !.progress["BlockHashes"] = to])
<1> DEFINE u == [UnwindBlockHashes(t, to) EXCEPT !.progress["BlockHashes"] = to]
           p == t.progress["BlockHashes"]
           left == HashesLeft(t)[to + 1]
           asked == {t.canonical[n] : n \in {n \in DOMAIN t.canonical : n > to}}
           shot == (t.overshot \cup (DOMAIN t.headerNumber \ DOMAIN left)) \ asked
<1>0. to \in Height /\ to \in Nat /\ p \in Nat /\ to < p
      /\ Consistent(t) /\ WellTyped(t) /\ "BlockHashes" \in StageId /\ "BlockHashes" # "Headers"
      /\ t.progress[Stages[4]] <= to /\ to <= t.progress[Stages[2]]
  BY UnwindableFacts, StagesFacts
<1>1. /\ Updates(t, u, {"headerNumber", "overshot"}, "BlockHashes", to)
      /\ u.headerNumber = left
      /\ u.overshot = shot
  <2> HIDE DEF shot, left
  <2> QED BY <1>0 DEF UnwindBlockHashes, left, shot, Updates, WellTyped
<1>2. /\ p <= t.progress["Headers"] /\ t.progress["Headers"] \in Height
      /\ DOMAIN t.canonical = 0 .. t.progress["Headers"]
  <2>1. t.progress["Headers"] \in Height /\ t.progress["TotalGasIndex"] \in Height
    BY <1>0, StagesFacts DEF WellTyped
  <2> QED BY <2>1, <1>0, OrderFacts, HeightAssumption DEF Consistent, HeadersMatch, Height
<1>3. 0 .. p \subseteq DOMAIN t.canonical /\ DOMAIN t.canonical \subseteq Height
  BY <1>0, <1>2, HeightAssumption DEF Height
<1>4. /\ DOMAIN t.headerNumber \subseteq {t.canonical[n] : n \in 0 .. p}
      /\ {t.canonical[n] : n \in 0 .. p} \ DOMAIN t.headerNumber \subseteq t.overshot
      /\ \A h \in DOMAIN t.headerNumber : t.canonical[t.headerNumber[h]] = h /\ t.headerNumber[h] \in 0 .. p
  BY <1>0 DEF Consistent, HashesMatch, NumbersBelow
<1>5. DOMAIN t.headerNumber \subseteq Nat
  BY <1>0, <1>3, <1>4 DEF WellTyped
<1>6. /\ DOMAIN left \subseteq DOMAIN t.headerNumber
      /\ left \in [DOMAIN left -> Height]
      /\ \A h \in DOMAIN left : left[h] = t.headerNumber[h]
      /\ \A k \in DOMAIN t.canonical : k >= to + 1 => t.canonical[k] \notin DOMAIN left
  <2>1. Walks(HashesLeft(t), MaxHeight, t.headerNumber, t.canonical)
    BY <1>3, HashesLeftDef
  <2>2. MaxHeight \in Nat /\ to + 1 \in 0 .. MaxHeight + 1 /\ DOMAIN t.canonical \subseteq 0 .. MaxHeight
    BY <1>0, <1>3, HeightAssumption DEF Height
  <2>3. t.canonical \in [DOMAIN t.canonical -> Nat] /\ t.headerNumber \in [DOMAIN t.headerNumber -> Height]
    BY <1>0 DEF WellTyped
  <2> DEFINE walk == HashesLeft(t)
             canonical == t.canonical
             table == t.headerNumber
             n == to + 1
  <2>4. /\ Walks(walk, MaxHeight, table, canonical) /\ n \in 0 .. MaxHeight + 1
        /\ DOMAIN canonical \subseteq 0 .. MaxHeight /\ canonical \in [DOMAIN canonical -> Nat]
        /\ table \in [DOMAIN table -> Height] /\ DOMAIN table \subseteq Nat
    BY <2>1, <2>2, <2>3, <1>5
  <2> HIDE DEF walk, canonical, table, n
  <2>5. /\ DOMAIN walk[n] \subseteq DOMAIN table
        /\ walk[n] \in [DOMAIN walk[n] -> Height]
        /\ \A h \in DOMAIN walk[n] : walk[n][h] = table[h]
        /\ \A k \in DOMAIN canonical : k >= n => canonical[k] \notin DOMAIN walk[n]
    BY <2>2, <2>4, WalkDeletes
  <2> QED BY <2>5 DEF walk, canonical, table, n
<1> HIDE DEF u, left
<1>7. u.canonical = t.canonical /\ u.progress["BlockHashes"] = to
  BY <1>0, <1>1 DEF WellTyped, Updates
<1>8. WellTyped(u)
  BY <1>0, <1>1, <1>6 DEF WellTyped, Updates
<1>9. ASSUME NEW h \in DOMAIN left
      PROVE  left[h] \in 0 .. to /\ t.canonical[left[h]] = h
  <2>1. left[h] \in 0 .. p /\ t.canonical[left[h]] = h
    BY <1>4, <1>6
  <2>2. left[h] \in DOMAIN t.canonical /\ ~(left[h] >= to + 1)
    BY <2>1, <1>3, <1>6
  <2> QED BY <2>1, <2>2, <1>0
<1>10. NumbersBelow(u)
  BY <1>1, <1>7, <1>9 DEF NumbersBelow
<1>11. DOMAIN left \subseteq {t.canonical[n] : n \in 0 .. to}
  BY <1>9
<1>12. ASSUME NEW n \in 0 .. to, t.canonical[n] \notin DOMAIN left
       PROVE  t.canonical[n] \in shot
  <2>1. n \in 0 .. p /\ n \in DOMAIN t.canonical
    BY <1>0, <1>3
  <2>2. t.canonical[n] \notin asked
    <3> SUFFICES ASSUME NEW m \in DOMAIN t.canonical, m > to, t.canonical[n] = t.canonical[m]
                 PROVE  FALSE
      OBVIOUS
    <3>1. n = m
      BY <1>0, <2>1, CanonicalInjective
    <3> QED BY <3>1, <1>0
  <2>3. t.canonical[n] \in t.overshot \cup (DOMAIN t.headerNumber \ DOMAIN left)
    BY <1>4, <1>12, <2>1
  <2> QED BY <2>2, <2>3
<1>13. HashesMatch(u)
  <2> HIDE DEF shot
  <2>1. /\ DOMAIN left \subseteq {t.canonical[n] : n \in 0 .. to}
        /\ {t.canonical[n] : n \in 0 .. to} \ DOMAIN left \subseteq shot
        /\ \A h \in DOMAIN left : t.canonical[left[h]] = h
    BY <1>9, <1>11, <1>12
  <2> QED BY <2>1, <1>1, <1>7 DEF HashesMatch
<1>14. StagesInOrder(u)
  BY <1>0, <1>1, OrderAfter, StagesFacts
<1>15. Consistent(u)
  BY <1>0, <1>1, <1>8, <1>10, <1>13, <1>14, IndexChange
<1> QED BY <1>15 DEF u

\* The id after the last transaction of each body.
Ends(t) == [n \in 0 .. t.progress["Bodies"] |-> t.body[n].base + t.body[n].amount]

\* The bodies number the transactions without gaps.
LEMMA EndsFacts ==
  ASSUME NEW t, Consistent(t)
  PROVE  /\ t.progress["Bodies"] \in Nat
         /\ \A n \in 0 .. t.progress["Bodies"] :
              /\ t.body[n].base \in Nat /\ t.body[n].amount \in Nat /\ t.body[n].hash \in Nat
              /\ Ends(t)[n] = t.body[n].base + t.body[n].amount
              /\ Ends(t)[n] \in Nat
         /\ \A n \in 1 .. t.progress["Bodies"] :
              t.body[n].base = Ends(t)[n - 1] /\ Ends(t)[n - 1] <= Ends(t)[n]
         /\ DOMAIN t.blockTx = 0 .. Ends(t)[t.progress["Bodies"]] - 1
<1> DEFINE P == t.progress["Bodies"]
<1>1. P \in Nat
  BY StagesFacts, HeightAssumption DEF Consistent, WellTyped, Height
<1>2. DOMAIN t.body = 0 .. P
  BY DEF Consistent, BodiesMatch
<1>3. \A n \in 0 .. P : t.body[n] \in [hash : Nat, base : Nat, amount : Nat]
  BY <1>2 DEF Consistent, WellTyped
<1>4. \A n \in 0 .. P : /\ t.body[n].base \in Nat /\ t.body[n].amount \in Nat /\ t.body[n].hash \in Nat
                        /\ Ends(t)[n] = t.body[n].base + t.body[n].amount
                        /\ Ends(t)[n] \in Nat
  BY <1>3 DEF Ends
<1>5. \A n \in 1 .. P : t.body[n].base = t.body[n - 1].base + t.body[n - 1].amount
  BY <1>1, <1>2 DEF Consistent, BodiesMatch
<1>6. \A n \in 1 .. P : t.body[n].base = Ends(t)[n - 1] /\ Ends(t)[n - 1] <= Ends(t)[n]
  BY <1>1, <1>4, <1>5
<1>7. DOMAIN t.blockTx = 0 .. Ends(t)[P] - 1
  <2>1. DOMAIN t.blockTx = 0 .. t.body[P].base + t.body[P].amount - 1
    BY DEF Consistent, BodiesMatch
  <2>2. P \in 0 .. P BY <1>1
  <2>3. /\ Ends(t)[P] = t.body[P].base + t.body[P].amount
        /\ t.body[P].base \in Nat /\ t.body[P].amount \in Nat
    BY <1>4, <2>2
  <2> DEFINE base == t.body[P].base
             amount == t.body[P].amount
             end == Ends(t)[P]
  <2>4. /\ DOMAIN t.blockTx = 0 .. base + amount - 1
        /\ end = base + amount /\ base \in Nat /\ amount \in Nat
    BY <2>1, <2>3
  <2> HIDE DEF base, amount, end
  <2>5. DOMAIN t.blockTx = 0 .. end - 1
    BY <2>4
  <2> QED BY <2>5 DEF end
<1> QED BY <1>1, <1>4, <1>6, <1>7

\* ConvertBodies::unwind deletes the transactions of the unwound bodies, and
\* no others.
LEMMA UnwindBodiesKeeps ==
  ASSUME NEW t, NEW to, Unwindable(t, 4, to)
  PROVE  Consistent([UnwindBodies(t, to) EXCEPT !.progress["Bodies"] = to])
<1> DEFINE u == [UnwindBodies(t, to) EXCEPT !.progress["Bodies"] = to]
           p == t.progress["Bodies"]
           ids == UNION {t.body[n].base .. t.body[n].base + t.body[n].amount - 1 :
                           n \in {n \in DOMAIN t.body : n > to}}
           rest == [i \in DOMAIN t.blockTx \ ids |-> t.blockTx[i]]
           e == Ends(t)
<1>0. to \in Height /\ to \in Nat /\ p \in Nat /\ to < p
      /\ Consistent(t) /\ WellTyped(t) /\ "Bodies" \in StageId /\ "Bodies" # "Headers"
      /\ t.progress[Stages[5]] <= to /\ to <= t.progress[Stages[3]]
  BY UnwindableFacts, StagesFacts
<1>1. /\ Updates(t, u, {"body", "blockTx"}, "Bodies", to)
      /\ u.body = UpTo(t.body, to)
      /\ u.blockTx = rest
  <2> DEFINE x == UpTo(t.body, to)
  <2> HIDE DEF rest, x
  <2> QED BY <1>0 DEF UnwindBodies, rest, x, Updates, WellTyped
<1>2. DOMAIN t.body = 0 .. p
  BY <1>0 DEF Consistent, BodiesMatch
<1>3. u.body = [m \in 0 .. to |-> t.body[m]]
  <2>1. {k \in DOMAIN t.body : k <= to} = 0 .. to
    BY <1>0, <1>2
  <2> QED BY <2>1, <1>1 DEF UpTo
<1>4. /\ \A n \in 0 .. p : /\ t.body[n].base \in Nat /\ t.body[n].amount \in Nat
                           /\ e[n] = t.body[n].base + t.body[n].amount
                           /\ e[n] \in Nat
      /\ \A n \in 1 .. p : t.body[n].base = e[n - 1] /\ e[n - 1] <= e[n]
      /\ DOMAIN t.blockTx = 0 .. e[p] - 1
  BY <1>0, EndsFacts
<1> HIDE DEF u, e
<1>5. \A m \in 0 .. p : \A n \in m .. p : e[m] <= e[n]
  <2>1. \A n \in 0 + 1 .. p : e[n - 1] <= e[n]
    BY <1>4
  <2> QED BY <1>0, <1>4, <2>1, Monotone
<1>6. ASSUME NEW i \in 0 .. e[p] - 1 PROVE i \in ids <=> e[to] <= i
  <2>1. ASSUME i \in ids PROVE e[to] <= i
    <3>1. PICK n \in DOMAIN t.body : n > to /\ i \in t.body[n].base .. t.body[n].base + t.body[n].amount - 1
      BY <2>1
    <3>2. n \in 1 .. p /\ n - 1 \in to .. p /\ to \in 0 .. p
      BY <3>1, <1>0, <1>2
    <3>3. e[to] <= e[n - 1] /\ t.body[n].base = e[n - 1]
      BY <3>2, <1>4, <1>5
    <3>4. e[to] \in Nat /\ e[n - 1] \in Nat
      BY <3>2, <1>4
    <3> QED BY <3>1, <3>3, <3>4
  <2>2. ASSUME e[to] <= i PROVE i \in ids
    <3>1. /\ \A n \in to .. p : e[n] \in Nat
          /\ i \in Nat /\ to <= p /\ i < e[p] /\ e[p] \in Nat
      BY <1>0, <1>4
    <3>2. PICK k \in to + 1 .. p : e[k - 1] <= i /\ i < e[k]
      BY <1>0, <2>2, <3>1, Covered
    <3>3. k \in 1 .. p /\ k \in DOMAIN t.body /\ k > to
      BY <1>0, <1>2
    <3>4. k \in 0 .. p /\ k - 1 \in 0 .. p
      BY <1>0, <3>3
    <3>5. /\ t.body[k].base = e[k - 1] /\ e[k] = t.body[k].base + t.body[k].amount
          /\ t.body[k].amount \in Nat /\ e[k - 1] \in Nat /\ e[k] \in Nat
      BY <1>4, <3>3, <3>4
    <3>6. i \in t.body[k].base .. t.body[k].base + t.body[k].amount - 1
      BY <3>1, <3>2, <3>5
    <3> QED BY Zenon, <3>3, <3>6
  <2> QED BY <2>1, <2>2
<1>7. e[to] \in Nat /\ e[p] \in Nat /\ e[to] <= e[p]
  BY <1>0, <1>4, <1>5
<1> HIDE DEF ids
<1>8. DOMAIN rest = 0 .. e[to] - 1
  BY <1>4, <1>6, <1>7
<1>9. \A i \in 0 .. e[to] - 1 : rest[i] = t.blockTx[i] /\ i \in DOMAIN t.blockTx
  BY <1>4, <1>6, <1>7
<1>10. u.canonical = t.canonical /\ u.progress["Bodies"] = to
  BY <1>0, <1>1 DEF WellTyped, Updates
<1>11. WellTyped(u)
  <2>1. u.blockTx \in [DOMAIN u.blockTx -> Nat]
    BY <1>0, <1>1, <1>8, <1>9 DEF WellTyped
  <2>2. u.body \in [DOMAIN u.body -> [hash : Nat, base : Nat, amount : Nat]]
    <3> DEFINE B == [hash : Nat, base : Nat, amount : Nat]
    <3>1. t.body \in [0 .. p -> B]
      BY <1>0, <1>2 DEF WellTyped
    <3>2. 0 .. to \subseteq 0 .. p
      BY <1>0
    <3> HIDE DEF B
    <3>3. u.body \in [0 .. to -> B]
      BY <1>3, <3>1, <3>2
    <3> QED BY <3>3 DEF B
  <2> HIDE DEF rest
  <2> QED BY <1>0, <1>1, <2>1, <2>2 DEF WellTyped, Updates
<1> HIDE DEF rest
<1>12. DOMAIN u.body = 0 .. to /\ \A n \in 0 .. to : u.body[n] = t.body[n] /\ n \in 0 .. p
  BY <1>0, <1>3
<1>13. AmountsMatch(u)
  <2>1. AmountsMatch(t) BY <1>0 DEF Consistent
  <2> QED BY <2>1, <1>0, <1>10, <1>12 DEF AmountsMatch
<1>14. BodiesMatch(u)
  <2>1. BodiesMatch(t) BY <1>0 DEF Consistent
  <2>2. ASSUME NEW n \in 0 .. to
        PROVE  /\ u.body[n].hash = u.canonical[n]
               /\ n > 0 => u.body[n].base = u.body[n - 1].base + u.body[n - 1].amount
    <3>1. u.body[n] = t.body[n] /\ n \in DOMAIN t.body
      BY <1>2, <1>12
    <3>2. n > 0 => u.body[n - 1] = t.body[n - 1]
      BY <1>0, <1>12
    <3> QED BY <2>1, <1>10, <3>1, <3>2 DEF BodiesMatch
  <2>3. ASSUME NEW n \in 0 .. to,
               NEW i \in u.body[n].base .. u.body[n].base + u.body[n].amount - 1
        PROVE  Lookup(u.blockTx, i) = u.body[n].hash
    <3>1. u.body[n] = t.body[n] /\ n \in 0 .. p /\ n \in DOMAIN t.body
      BY <1>2, <1>12
    <3>2. Lookup(t.blockTx, i) = t.body[n].hash
      BY <2>1, <3>1 DEF BodiesMatch
    <3>3. e[n] <= e[to] /\ e[n] \in Nat /\ t.body[n].base \in Nat /\ i < e[n]
      <4>1. to \in n .. p /\ n \in 0 .. p
        BY <1>0, <3>1
      <4>2. e[n] <= e[to]
        BY <4>1, <1>5
      <4>3. e[n] \in Nat /\ t.body[n].base \in Nat /\ t.body[n].amount \in Nat
            /\ e[n] = t.body[n].base + t.body[n].amount
        BY <4>1, <1>4
      <4> QED BY <3>1, <4>2, <4>3
    <3>4. i \in 0 .. e[to] - 1
      BY <3>1, <3>3, <1>7
    <3> QED BY <3>1, <3>2, <3>4, <1>1, <1>8, <1>9 DEF Lookup
  <2>4. DOMAIN u.blockTx = 0 .. u.body[to].base + u.body[to].amount - 1
    <3>1. to \in 0 .. to /\ to \in 0 .. p
      BY <1>0
    <3>2. /\ u.body[to] = t.body[to] /\ e[to] = t.body[to].base + t.body[to].amount
          /\ t.body[to].base \in Nat /\ t.body[to].amount \in Nat
      BY <1>4, <1>12, <3>1
    <3> QED BY <1>1, <1>8, <3>2
  <2> QED BY <2>2, <2>3, <2>4, <1>10, <1>12 DEF BodiesMatch
<1>15. StagesInOrder(u)
  BY <1>0, <1>1, OrderAfter, StagesFacts
<1>16. Consistent(u)
  BY <1>0, <1>1, <1>11, <1>13, <1>14, <1>15, IndexChange
<1> QED BY <1>16 DEF u

-----------------------------------------------------------------------------
(* How run() goes on after a stage *)

\* What the open transaction sees, in the form the stages use it.
LEMMA TxFacts ==
  ASSUME SyncInv
  PROVE  /\ Consistent(tx) /\ WellTyped(tx)
         /\ \A r \in StageId : tx.progress[r] \in Height /\ tx.progress[r] \in Nat
         /\ DOMAIN tx.canonical = 0 .. tx.progress["Headers"]
         /\ 0 .. tx.progress["Headers"] \subseteq Height
         /\ \A n \in 0 .. tx.progress["Headers"] : tx.canonical[n] \in Nat /\ tx.canonical[n] \in Hashes
<1>1. Consistent(tx) /\ WellTyped(tx) /\ HeadersMatch(tx)
  BY DEF SyncInv, Consistent
<1>2. \A r \in StageId : tx.progress[r] \in Height /\ tx.progress[r] \in Nat
  BY <1>1, HeightAssumption DEF WellTyped, Height
<1>3. DOMAIN tx.canonical = 0 .. tx.progress["Headers"]
  BY <1>1 DEF HeadersMatch
<1>4. 0 .. tx.progress["Headers"] \subseteq Height
  BY <1>2, StagesFacts, HeightAssumption DEF Height
<1>5. \A n \in 0 .. tx.progress["Headers"] : tx.canonical[n] \in Nat
  BY <1>1, <1>3 DEF WellTyped
<1>6. \A n \in 0 .. tx.progress["Headers"] : tx.canonical[n] \in Hashes
  BY <1>1, <1>3, <1>4 DEF HeadersMatch, Hashes
<1> QED BY <1>1, <1>2, <1>3, <1>4, <1>5, <1>6

\* What a stage reaches keeps the record of the stages that have caught up.
LEMMA CaughtUpAfter ==
  ASSUME NEW t, NEW k \in 1 .. 7, CaughtUp(t, k), NEW u, NEW changed, NEW p,
         Updates(t, u, changed, Stages[k], p),
         k = 2 \/ k = 3 => p = t.progress["Headers"],
         k = 5 => p = t.progress["Bodies"]
  PROVE  CaughtUp(u, k) /\ CaughtUp(u, k + 1)
<1>1. k = 1 \/ k = 2 \/ k = 3 \/ k = 4 \/ k = 5 \/ k = 6 \/ k = 7
  OBVIOUS
<1>2. CASE k = 1 BY <1>2 DEF CaughtUp
<1>3. CASE k = 2 BY <1>3, StagesFacts DEF CaughtUp, Updates
<1>4. CASE k = 3 BY <1>4, StagesFacts DEF CaughtUp, Updates
<1>5. CASE k = 4 BY <1>5, StagesFacts DEF CaughtUp, Updates
<1>6. CASE k = 5 BY <1>6, StagesFacts DEF CaughtUp, Updates
<1>7. CASE k = 6 BY <1>7, StagesFacts DEF CaughtUp, Updates
<1>8. CASE k = 7 BY <1>8, StagesFacts DEF CaughtUp, Updates
<1> QED BY <1>1, <1>2, <1>3, <1>4, <1>5, <1>6, <1>7, <1>8

\* run() goes on with consistent tables after a stage that reports progress.
LEMMA ProgressKeeps ==
  ASSUME SyncInv, unwindTo = None, at \in 1 .. 7, NEW tables, NEW reached, NEW done \in BOOLEAN,
         StageProgresses(tables, reached, done),
         NEW u, u = [tables EXCEPT !.progress[Stages[at]] = reached],
         Consistent(u), CaughtUp(u, at), CaughtUp(u, at + 1)
  PROVE  SyncInv'
<1>1. /\ tx' = u /\ db' \in {u, db}
      /\ at' = IF done THEN at + 1 ELSE at
      /\ unwindTo' = unwindTo /\ erigon' = erigon /\ status' = status /\ maxBlock' = maxBlock
  BY DEF StageProgresses
<1>2. Consistent(tx') /\ Consistent(db') /\ CaughtUp(tx', at')
  BY <1>1 DEF SyncInv
<1>3. at' \in 1 .. Len(Stages) + 1
  BY <1>1, StagesFacts
<1> QED BY <1>1, <1>2, <1>3 DEF SyncInv, BelowUnwindPoint

\* run() begins to unwind from the committed tables.
LEMMA UnwindsKeeps ==
  ASSUME SyncInv, NEW to \in Nat, StageUnwinds(to)
  PROVE  SyncInv'
<1>1. /\ tx' = db /\ db' = db /\ at' = 7 /\ unwindTo' = to
      /\ erigon' = erigon /\ status' = status /\ maxBlock' = maxBlock
  BY StagesFacts DEF StageUnwinds
<1>2. to # None
  BY HeightAssumption
<1>3. \A k \in 7 + 1 .. Len(Stages) : FALSE
  BY StagesFacts
<1>4. Consistent(tx') /\ Consistent(db')
  BY <1>1 DEF SyncInv
<1> QED BY <1>1, <1>2, <1>3, <1>4, StagesFacts DEF SyncInv, BelowUnwindPoint

\* A round begins with consistent tables.
LEMMA RoundKeeps ==
  ASSUME SyncInv, NEW tables, Consistent(tables), BeginRound(tables), Consistent(db'),
         erigon' = erigon, maxBlock' = maxBlock, status' # "failed"
  PROVE  SyncInv'
<1>1. tx' = tables /\ at' = 1 /\ unwindTo' = None
  BY DEF BeginRound
<1>2. CaughtUp(tx', at')
  BY <1>1 DEF CaughtUp
<1>3. at' \in 1 .. Len(Stages) + 1
  BY <1>1, StagesFacts
<1> QED BY <1>1, <1>2, <1>3 DEF SyncInv, BelowUnwindPoint

-----------------------------------------------------------------------------
(* execute() of each stage *)

\* Two branches that share a block share every block below it.
LEMMA TreeJoins ==
  ASSUME NEW a \in Branches, NEW b \in Branches, NEW n \in Height, Tree[a][n] = Tree[b][n]
  PROVE  \A k \in 0 .. n : Tree[a][k] = Tree[b][k]
BY TreeAssumption

\* ConvertHeaders::execute extends the chain by blocks of the chain Erigon is
\* on, from a block the two have in common.
LEMMA HeadersKeep == SyncInv /\ ExecuteHeaders => SyncInv'
<1> SUFFICES ASSUME SyncInv, ExecuteHeaders PROVE SyncInv'
  OBVIOUS
<1> DEFINE highest == tx.progress["Headers"]
           imported == {n \in highest + 1 .. erigon.top :
                     /\ maxBlock = None \/ n <= maxBlock
                     /\ n - highest <= Increment}
           rows == [n \in imported |-> ErigonHash(n)]
<1>0. unwindTo = None /\ at = 1 /\ at \in 1 .. 7 /\ Stages[at] = "Headers"
  BY StagesFacts DEF ExecuteHeaders, Executing
<1>1. /\ Consistent(tx) /\ WellTyped(tx) /\ highest \in Height /\ highest \in Nat
      /\ DOMAIN tx.canonical = 0 .. highest
      /\ \A n \in 0 .. highest : tx.canonical[n] \in Nat
      /\ highest \in 0 .. highest /\ 0 .. highest \subseteq Height
      /\ tx.progress["TotalGasIndex"] \in Nat
  BY TxFacts, StagesFacts
<1>2. erigon.branch \in Branches /\ erigon.top \in Height /\ erigon.top \in Nat
  BY HeightAssumption DEF SyncInv, Height
<1>3. PICK b \in Branches : \A n \in 0 .. highest : tx.canonical[n] = Tree[b][n]
  BY <1>1 DEF Consistent, HeadersMatch
<1>4. Lookup(tx.canonical, highest) = Tree[b][highest]
  BY <1>1, <1>3 DEF Lookup
<1>5. CASE LeftChain(highest)
  <2>1. highest # 0
    <3> SUFFICES ASSUME highest = 0 PROVE FALSE
      OBVIOUS
    <3>1. ErigonHash(0) = Tree[erigon.branch][0]
      BY <1>2 DEF ErigonHash
    <3> QED BY <3>1, <1>2, <1>4, <1>5, TreeAssumption DEF LeftChain
  <2>2. StageUnwinds(highest - 1)
    BY <1>5, <2>1 DEF ExecuteHeaders
  <2> QED BY <2>1, <2>2, <1>1, UnwindsKeeps
<1>6. CASE ~LeftChain(highest)
  <2>1. highest <= erigon.top /\ Tree[erigon.branch][highest] = Tree[b][highest]
    <3>1. Tree[b][highest] \in Nat
      BY <1>1, TreeAssumption
    <3>2. ErigonHash(highest) = Tree[b][highest]
      BY <1>4, <1>6 DEF LeftChain
    <3> QED BY <3>1, <3>2, HeightAssumption DEF ErigonHash
  <2>2. \A n \in 0 .. highest : Tree[erigon.branch][n] = tx.canonical[n]
    <3>1. \A k \in 0 .. highest : Tree[erigon.branch][k] = Tree[b][k]
      <4> HIDE DEF highest
      <4> QED BY <2>1, <1>1, <1>2, TreeJoins
    <3> QED BY <3>1, <1>3
  <2>3. Appendable(tx.canonical, rows)
    BY <1>1, <1>2 DEF Appendable
  <2>4. PICK reached \in imported \cup {highest} :
               /\ \A n \in imported : n <= reached
               /\ StageProgresses([tx EXCEPT !.canonical = Put(@, rows)], reached, TRUE)
    <3> HIDE DEF imported
    <3> QED BY <1>6, <2>3 DEF ExecuteHeaders, imported
  <2>5. reached \in highest .. erigon.top /\ reached \in Nat
    BY <1>1, <1>2, <2>1
  <2>6. imported = highest + 1 .. reached
    <3>1. maxBlock = None \/ maxBlock \in Nat
      BY HeightAssumption DEF SyncInv, Height
    <3>2. ASSUME NEW n \in highest + 1 .. reached PROVE n \in imported
      <4>1. reached \in imported
        BY <1>1, <2>5
      <4> QED BY <4>1, <3>1, <1>1, <1>2, <2>5, HeightAssumption
    <3>3. ASSUME NEW n \in imported PROVE n \in highest + 1 .. reached
      BY <2>4, <1>1, <1>2
    <3> HIDE DEF imported
    <3> QED BY <3>2, <3>3
  <2> DEFINE new == Put(tx.canonical, rows)
             u == [[tx EXCEPT !.canonical = new] EXCEPT !.progress[Stages[at]] = reached]
  <2>7. /\ new = [n \in 0 .. reached |-> Tree[erigon.branch][n]]
    <3>1. DOMAIN tx.canonical \cup imported = 0 .. reached
      BY <1>1, <2>5, <2>6
    <3>2. ASSUME NEW n \in 0 .. reached
          PROVE  (IF n \in imported THEN rows[n] ELSE tx.canonical[n]) = Tree[erigon.branch][n]
      <4>1. CASE n \in imported
        BY <4>1, <1>1, <1>2 DEF ErigonHash
      <4>2. CASE n \notin imported
        <5>1. n \in 0 .. highest
          BY <4>2, <1>1, <2>6, <2>5
        <5> QED BY <4>2, <5>1, <2>2
      <4> QED BY <4>1, <4>2
    <3>3. new = [n \in DOMAIN tx.canonical \cup imported |-> IF n \in imported THEN rows[n] ELSE tx.canonical[n]]
      BY DEF Put
    <3> HIDE DEF imported, new
    <3> QED BY <3>1, <3>2, <3>3
  <2> HIDE DEF new, imported
  <2>8. reached \in Height
    BY <1>2, <2>5, HeightAssumption DEF Height
  <2>9. Updates(tx, u, {"canonical"}, "Headers", reached) /\ u.canonical = new
    BY <1>0, <1>1, <2>8, StagesFacts DEF Updates, WellTyped
  <2> HIDE DEF u
  <2>10. 0 .. reached \subseteq Height
    BY <2>8, HeightAssumption DEF Height
  <2>11. u.canonical \in [DOMAIN u.canonical -> Nat] /\ DOMAIN u.canonical = 0 .. reached
    BY <1>2, <2>7, <2>9, <2>10, TreeAssumption
  <2>12. HeadersMatch(u)
    BY <1>2, <2>7, <2>9, <2>11 DEF HeadersMatch, Updates
  <2>13. SameChain(tx, u, highest)
    BY <2>2, <2>5, <2>7, <2>9, <1>1 DEF SameChain
  <2>14. tx.progress["TotalGasIndex"] <= highest
    BY <1>1, OrderFacts DEF Consistent
  <2>15. Consistent(u)
    BY <1>1, <2>5, <2>8, <2>9, <2>11, <2>12, <2>13, <2>14, HeadersChange
  <2>16. CaughtUp(u, at) /\ CaughtUp(u, at + 1)
    BY <1>0 DEF CaughtUp
  <2>17. StageProgresses([tx EXCEPT !.canonical = new], reached, TRUE)
    BY <2>4 DEF new
  <2> QED BY <1>0, <2>15, <2>16, <2>17, ProgressKeeps DEF u
<1> QED BY <1>5, <1>6

\* The rows a cumulative stage appends continue the index.
LEMMA CumulativeGrows ==
  ASSUME NEW index, NEW p \in Nat, NEW last \in Nat, p <= last, CumulativeMatch(tx, index, p),
         NEW new, new = Put(index, CumulativeRows(index, p + 1, last))
  PROVE  CumulativeMatch(tx, new, last) /\ new = [n \in DOMAIN new |-> new[n]]
<1> DEFINE rows == CumulativeRows(index, p + 1, last)
<1>0. DOMAIN index = 0 .. p
  BY DEF CumulativeMatch
<1>1. rows = [n \in p + 1 .. last |-> index[p] \cup {tx.canonical[i] : i \in p + 1 .. n}]
  BY DEF CumulativeRows
<1>2. DOMAIN index \cup (p + 1 .. last) = 0 .. last
  BY <1>0
<1>3. new = [n \in 0 .. last |-> IF n \in p + 1 .. last THEN rows[n] ELSE index[n]]
  <2> HIDE DEF rows
  <2>1. DOMAIN rows = p + 1 .. last
    BY <1>1 DEF rows
  <2> QED BY <1>2, <2>1 DEF Put, rows
<1>4. ASSUME NEW n \in 0 .. last
      PROVE  new[n] = {tx.canonical[i] : i \in 1 .. n}
  <2>1. CASE n \in p + 1 .. last
    <3>1. new[n] = index[p] \cup {tx.canonical[i] : i \in p + 1 .. n}
      BY <2>1, <1>1, <1>3
    <3>2. index[p] = {tx.canonical[i] : i \in 1 .. p}
      BY DEF CumulativeMatch
    <3>3. 1 .. n = (1 .. p) \cup (p + 1 .. n)
      BY <2>1
    <3> QED BY <3>1, <3>2, <3>3
  <2>2. CASE n \notin p + 1 .. last
    <3>1. n \in 0 .. p /\ new[n] = index[n]
      BY <2>2, <1>3
    <3> QED BY <3>1 DEF CumulativeMatch
  <2> QED BY <2>1, <2>2
<1> QED BY <1>3, <1>4 DEF CumulativeMatch

\* TotalGasIndex::execute does not fail and catches up with the headers.
LEMMA TotalGasKeep == SyncInv /\ ExecuteTotalGas => SyncInv'
<1> SUFFICES ASSUME SyncInv, ExecuteTotalGas PROVE SyncInv'
  OBVIOUS
<1> DEFINE p == tx.progress["TotalGasIndex"]
           last == tx.progress["Headers"]
           rows == CumulativeRows(tx.totalGas, p + 1, last)
<1>0. unwindTo = None /\ at = 2 /\ at \in 1 .. 7 /\ Stages[at] = "TotalGasIndex" /\ PreviousProgress = last
  <2>1. at \in 1 .. 7 /\ Stages[at] = "TotalGasIndex" /\ unwindTo = None
    BY StagesFacts DEF ExecuteTotalGas, Executing
  <2>2. at = 2
    BY <2>1, StagesFacts
  <2> QED BY <2>1, <2>2, StagesFacts DEF PreviousProgress
<1>1. /\ Consistent(tx) /\ WellTyped(tx) /\ p \in Height /\ p \in Nat /\ last \in Height /\ last \in Nat
      /\ "TotalGasIndex" \in StageId /\ "TotalGasIndex" # "Headers"
  BY TxFacts, StagesFacts
<1>2. p <= last /\ last <= tx.progress["Headers"] /\ tx.progress["Headers"] \in Nat
      /\ tx.progress[Stages[3]] <= p
  <2>1. \A r \in StageId : tx.progress[r] \in Nat
    BY TxFacts
  <2> QED BY <2>1, <1>1, OrderFacts, StagesFacts DEF Consistent
<1>3. CumulativeMatch(tx, tx.totalGas, p) /\ DOMAIN tx.totalGas = 0 .. p
  BY <1>1 DEF Consistent, CumulativeMatch
<1>4. PICK tables :
        /\ StageProgresses(tables, last, TRUE)
        /\ \/ tables = tx /\ last = p
           \/ tables = [tx EXCEPT !.totalGas = Put(tx.totalGas, rows)] /\ last >= p + 1
  <2>1. CASE last < p + 1
    <3>1. last = p
      BY <2>1, <1>1, <1>2
    <3>2. StageProgresses(tx, last, TRUE)
      BY <2>1, <1>0 DEF ExecuteTotalGas
    <3> QED BY <3>1, <3>2
  <2>2. CASE ~(last < p + 1)
    <3>1. /\ (p + 1) - 1 \in DOMAIN tx.totalGas
          /\ p + 1 .. last \subseteq DOMAIN tx.canonical
          /\ \A j \in p + 1 .. last, i \in DOMAIN tx.totalGas : i < j
      BY <1>1, <1>2, <1>3, TxFacts
    <3>3. StageProgresses([tx EXCEPT !.totalGas = Put(tx.totalGas, rows)], last, TRUE)
      BY <2>2, <1>0, <3>1 DEF ExecuteTotalGas
    <3>4. last >= p + 1
      BY <2>2, <1>1
    <3> QED BY <3>3, <3>4, <1>1
  <2> QED BY <2>1, <2>2
<1> DEFINE u == [tables EXCEPT !.progress[Stages[at]] = last]
<1>5. /\ Updates(tx, u, {"totalGas"}, "TotalGasIndex", last)
      /\ \/ u.totalGas = tx.totalGas /\ last = p
         \/ u.totalGas = Put(tx.totalGas, rows) /\ last >= p + 1
  <2> DEFINE x == Put(tx.totalGas, rows)
  <2> HIDE DEF x
  <2>1. CASE tables = tx /\ last = p
    BY <2>1, <1>0, <1>1 DEF Updates, WellTyped
  <2>2. CASE tables = [tx EXCEPT !.totalGas = Put(tx.totalGas, rows)] /\ last >= p + 1
    <3>1. tables = [tx EXCEPT !.totalGas = x]
      BY <2>2 DEF x
    <3>2. Updates(tx, u, {"totalGas"}, "TotalGasIndex", last) /\ u.totalGas = x
      BY <3>1, <1>0, <1>1 DEF Updates, WellTyped
    <3> QED BY <3>2, <2>2 DEF x
  <2> QED BY <1>4, <2>1, <2>2
<1> HIDE DEF u
<1>6. CumulativeMatch(tx, u.totalGas, last) /\ u.totalGas = [n \in DOMAIN u.totalGas |-> u.totalGas[n]]
  <2>1. CASE u.totalGas = tx.totalGas /\ last = p
    BY <2>1, <1>1, <1>3 DEF WellTyped
  <2>2. CASE u.totalGas = Put(tx.totalGas, rows) /\ last >= p + 1
    <3> DEFINE index == tx.totalGas
               new == u.totalGas
    <3>1. new = Put(index, CumulativeRows(index, p + 1, last)) /\ CumulativeMatch(tx, index, p)
      BY <2>2, <1>3
    <3> HIDE DEF index, new
    <3>2. CumulativeMatch(tx, new, last) /\ new = [n \in DOMAIN new |-> new[n]]
      BY <3>1, <1>1, <1>2, CumulativeGrows
    <3> QED BY <3>2 DEF new
  <2> QED BY <1>5, <2>1, <2>2
<1>7. WellTyped(u)
  BY <1>1, <1>5, <1>6 DEF WellTyped, Updates
<1>8. u.canonical = tx.canonical /\ u.progress["TotalGasIndex"] = last
  BY <1>1, <1>5 DEF WellTyped, Updates
<1>9. CumulativeMatch(u, u.totalGas, u.progress["TotalGasIndex"])
  BY <1>6, <1>8 DEF CumulativeMatch
<1>10. StagesInOrder(u)
  <2>1. 2 \in 1 .. 7 /\ tx.progress[Stages[2 + 1]] <= last /\ last <= tx.progress[Stages[2 - 1]]
    <3>1. tx.progress[Stages[3]] \in Nat
      BY TxFacts, StagesFacts
    <3> QED BY <3>1, <1>1, <1>2, StagesFacts
  <2> QED BY <2>1, <1>1, <1>5, OrderAfter, StagesFacts
<1>11. Consistent(u)
  BY <1>1, <1>5, <1>7, <1>9, <1>10, IndexChange
<1>12. CaughtUp(u, at) /\ CaughtUp(u, at + 1)
  <2>1. CaughtUp(tx, at)
    BY <1>0 DEF SyncInv
  <2> QED BY <1>0, <1>5, <2>1, CaughtUpAfter
<1> QED BY <1>0, <1>4, <1>11, <1>12, ProgressKeeps DEF u

\* TotalTxIndex::execute does not fail and catches up with the bodies.
LEMMA TotalTxKeep == SyncInv /\ ExecuteTotalTx => SyncInv'
<1> SUFFICES ASSUME SyncInv, ExecuteTotalTx PROVE SyncInv'
  OBVIOUS
<1> DEFINE p == tx.progress["TotalTxIndex"]
           last == tx.progress["Bodies"]
           rows == CumulativeRows(tx.totalTx, p + 1, last)
<1>0. unwindTo = None /\ at = 5 /\ at \in 1 .. 7 /\ Stages[at] = "TotalTxIndex" /\ PreviousProgress = last
  <2>1. at \in 1 .. 7 /\ Stages[at] = "TotalTxIndex" /\ unwindTo = None
    BY StagesFacts DEF ExecuteTotalTx, Executing
  <2>2. at = 5
    BY <2>1, StagesFacts
  <2> QED BY <2>1, <2>2, StagesFacts DEF PreviousProgress
<1>1. /\ Consistent(tx) /\ WellTyped(tx) /\ p \in Height /\ p \in Nat /\ last \in Height /\ last \in Nat
      /\ "TotalTxIndex" \in StageId /\ "TotalTxIndex" # "Headers"
  BY TxFacts, StagesFacts
<1>2. p <= last /\ last <= tx.progress["Headers"] /\ tx.progress["Headers"] \in Nat
      /\ tx.progress[Stages[6]] <= p
  <2>1. \A r \in StageId : tx.progress[r] \in Nat
    BY TxFacts
  <2> QED BY <2>1, <1>1, OrderFacts, StagesFacts DEF Consistent
<1>3. CumulativeMatch(tx, tx.totalTx, p) /\ DOMAIN tx.totalTx = 0 .. p
  BY <1>1 DEF Consistent, CumulativeMatch
<1>4. PICK tables :
        /\ StageProgresses(tables, last, TRUE)
        /\ \/ tables = tx /\ last = p
           \/ tables = [tx EXCEPT !.totalTx = Put(tx.totalTx, rows)] /\ last >= p + 1
  <2>1. CASE last < p + 1
    <3>1. last = p
      BY <2>1, <1>1, <1>2
    <3>2. StageProgresses(tx, last, TRUE)
      BY <2>1, <1>0 DEF ExecuteTotalTx
    <3> QED BY <3>1, <3>2
  <2>2. CASE ~(last < p + 1)
    <3>1. /\ (p + 1) - 1 \in DOMAIN tx.totalTx
          /\ p + 1 .. last \subseteq DOMAIN tx.canonical
          /\ \A j \in p + 1 .. last, i \in DOMAIN tx.totalTx : i < j
      BY <1>1, <1>2, <1>3, TxFacts
    <3>2. \A j \in p + 1 .. last :
            j \in DOMAIN tx.canonical /\ j \in DOMAIN tx.body /\ tx.body[j].hash = tx.canonical[j]
      BY <1>1, <3>1 DEF Consistent, BodiesMatch
    <3>3. StageProgresses([tx EXCEPT !.totalTx = Put(tx.totalTx, rows)], last, TRUE)
      BY <2>2, <1>0, <3>1, <3>2 DEF ExecuteTotalTx
    <3>4. last >= p + 1
      BY <2>2, <1>1
    <3> QED BY <3>3, <3>4, <1>1
  <2> QED BY <2>1, <2>2
<1> DEFINE u == [tables EXCEPT !.progress[Stages[at]] = last]
<1>5. /\ Updates(tx, u, {"totalTx"}, "TotalTxIndex", last)
      /\ \/ u.totalTx = tx.totalTx /\ last = p
         \/ u.totalTx = Put(tx.totalTx, rows) /\ last >= p + 1
  <2> DEFINE x == Put(tx.totalTx, rows)
  <2> HIDE DEF x
  <2>1. CASE tables = tx /\ last = p
    BY <2>1, <1>0, <1>1 DEF Updates, WellTyped
  <2>2. CASE tables = [tx EXCEPT !.totalTx = Put(tx.totalTx, rows)] /\ last >= p + 1
    <3>1. tables = [tx EXCEPT !.totalTx = x]
      BY <2>2 DEF x
    <3>2. Updates(tx, u, {"totalTx"}, "TotalTxIndex", last) /\ u.totalTx = x
      BY <3>1, <1>0, <1>1 DEF Updates, WellTyped
    <3> QED BY <3>2, <2>2 DEF x
  <2> QED BY <1>4, <2>1, <2>2
<1> HIDE DEF u
<1>6. CumulativeMatch(tx, u.totalTx, last) /\ u.totalTx = [n \in DOMAIN u.totalTx |-> u.totalTx[n]]
  <2>1. CASE u.totalTx = tx.totalTx /\ last = p
    BY <2>1, <1>1, <1>3 DEF WellTyped
  <2>2. CASE u.totalTx = Put(tx.totalTx, rows) /\ last >= p + 1
    <3> DEFINE index == tx.totalTx
               new == u.totalTx
    <3>1. new = Put(index, CumulativeRows(index, p + 1, last)) /\ CumulativeMatch(tx, index, p)
      BY <2>2, <1>3
    <3> HIDE DEF index, new
    <3>2. CumulativeMatch(tx, new, last) /\ new = [n \in DOMAIN new |-> new[n]]
      BY <3>1, <1>1, <1>2, CumulativeGrows
    <3> QED BY <3>2 DEF new
  <2> QED BY <1>5, <2>1, <2>2
<1>7. WellTyped(u)
  BY <1>1, <1>5, <1>6 DEF WellTyped, Updates
<1>8. u.canonical = tx.canonical /\ u.progress["TotalTxIndex"] = last
  BY <1>1, <1>5 DEF WellTyped, Updates
<1>9. CumulativeMatch(u, u.totalTx, u.progress["TotalTxIndex"])
  BY <1>6, <1>8 DEF CumulativeMatch
<1>10. StagesInOrder(u)
  <2>1. 5 \in 1 .. 7 /\ tx.progress[Stages[5 + 1]] <= last /\ last <= tx.progress[Stages[5 - 1]]
    <3>1. tx.progress[Stages[6]] \in Nat
      BY TxFacts, StagesFacts
    <3> QED BY <3>1, <1>1, <1>2, StagesFacts
  <2> QED BY <2>1, <1>1, <1>5, OrderAfter, StagesFacts
<1>11. Consistent(u)
  BY <1>1, <1>5, <1>7, <1>9, <1>10, IndexChange
<1>12. CaughtUp(u, at) /\ CaughtUp(u, at + 1)
  <2>1. CaughtUp(tx, at)
    BY <1>0 DEF SyncInv
  <2> QED BY <1>0, <1>5, <2>1, CaughtUpAfter
<1> QED BY <1>0, <1>4, <1>11, <1>12, ProgressKeeps DEF u

\* BlockHashes::execute catches up with the headers.
LEMMA BlockHashesKeep == SyncInv /\ ExecuteBlockHashes => SyncInv'
<1> SUFFICES ASSUME SyncInv, ExecuteBlockHashes PROVE SyncInv'
  OBVIOUS
<1> DEFINE p == tx.progress["BlockHashes"]
           last == tx.progress["Headers"]
           added == {n \in DOMAIN tx.canonical : n > p}
           hashes == {tx.canonical[n] : n \in added}
           rows == [h \in hashes |-> CHOOSE n \in added : tx.canonical[n] = h]
           new == Put(tx.headerNumber, rows)
           shot == tx.overshot \ DOMAIN rows
<1>0. unwindTo = None /\ at = 3 /\ at \in 1 .. 7 /\ Stages[at] = "BlockHashes"
  <2>1. at \in 1 .. 7 /\ Stages[at] = "BlockHashes" /\ unwindTo = None
    BY StagesFacts DEF ExecuteBlockHashes, Executing
  <2> QED BY <2>1, StagesFacts
<1>1. /\ Consistent(tx) /\ WellTyped(tx) /\ p \in Height /\ p \in Nat /\ last \in Height /\ last \in Nat
      /\ DOMAIN tx.canonical = 0 .. last
      /\ "BlockHashes" \in StageId /\ "BlockHashes" # "Headers"
  BY TxFacts, StagesFacts
<1>2. tx.progress["TotalGasIndex"] = last /\ CaughtUp(tx, at)
  BY <1>0 DEF SyncInv, CaughtUp
<1>3. p <= last /\ tx.progress[Stages[4]] <= p /\ tx.progress[Stages[4]] \in Nat
  BY <1>1, <1>2, TxFacts, OrderFacts, StagesFacts DEF Consistent
<1>4. added = p + 1 .. last
  BY <1>1, <1>3
<1>5. StageProgresses([tx EXCEPT !.headerNumber = new, !.overshot = shot], last, TRUE)
  <2>1. PICK reached \in added \cup {p} :
          /\ \A n \in added : n <= reached
          /\ StageProgresses([tx EXCEPT !.headerNumber = new, !.overshot = shot], reached, TRUE)
    <3> HIDE DEF added, rows, new, shot
    <3> QED BY DEF ExecuteBlockHashes, added, rows, new, shot
  <2>2. reached = last
    BY <2>1, <1>1, <1>3, <1>4
  <2> QED BY <2>1, <2>2
<1> DEFINE u == [[tx EXCEPT !.headerNumber = new, !.overshot = shot] EXCEPT !.progress[Stages[at]] = last]
<1>6. /\ Updates(tx, u, {"headerNumber", "overshot"}, "BlockHashes", last)
      /\ u.headerNumber = new /\ u.overshot = shot
  <2> HIDE DEF new, shot
  <2> QED BY <1>0, <1>1 DEF Updates, WellTyped
<1>7. \A h \in hashes : rows[h] \in p + 1 .. last /\ tx.canonical[rows[h]] = h
  <2> SUFFICES ASSUME NEW h \in hashes
               PROVE  rows[h] \in p + 1 .. last /\ tx.canonical[rows[h]] = h
    OBVIOUS
  <2>1. \E n \in added : tx.canonical[n] = h
    OBVIOUS
  <2>2. rows[h] \in added /\ tx.canonical[rows[h]] = h
    BY <2>1
  <2> QED BY <2>2, <1>4
<1>8. DOMAIN rows = hashes
  OBVIOUS
<1>9. hashes = {tx.canonical[n] : n \in p + 1 .. last}
  BY <1>4
<1> HIDE DEF rows, hashes, added
<1>10. /\ DOMAIN new = DOMAIN tx.headerNumber \cup hashes
       /\ new = [h \in DOMAIN new |-> IF h \in hashes THEN rows[h] ELSE tx.headerNumber[h]]
  BY <1>8 DEF Put
<1>11. /\ DOMAIN tx.headerNumber \subseteq {tx.canonical[n] : n \in 0 .. p}
       /\ {tx.canonical[n] : n \in 0 .. p} \ DOMAIN tx.headerNumber \subseteq tx.overshot
       /\ \A h \in DOMAIN tx.headerNumber : tx.canonical[tx.headerNumber[h]] = h /\ tx.headerNumber[h] \in 0 .. p
  BY <1>1 DEF Consistent, HashesMatch, NumbersBelow
<1>12. {tx.canonical[n] : n \in 0 .. last} = {tx.canonical[n] : n \in 0 .. p} \cup hashes
  <2>1. 0 .. last = (0 .. p) \cup (p + 1 .. last)
    BY <1>1, <1>3
  <2> QED BY <2>1, <1>9
<1>13. \A h \in DOMAIN new : new[h] \in 0 .. last /\ tx.canonical[new[h]] = h
  <2> SUFFICES ASSUME NEW h \in DOMAIN new
               PROVE  new[h] \in 0 .. last /\ tx.canonical[new[h]] = h
    OBVIOUS
  <2> HIDE DEF new
  <2>1. CASE h \in hashes
    <3>1. new[h] = rows[h]
      BY <2>1, <1>10
    <3> QED BY <3>1, <2>1, <1>7, <1>1
  <2>2. CASE h \notin hashes
    <3>1. new[h] = tx.headerNumber[h] /\ h \in DOMAIN tx.headerNumber
      BY <2>2, <1>10
    <3>2. 0 .. p \subseteq 0 .. last
      BY <1>1, <1>3
    <3> QED BY <3>1, <3>2, <1>11
  <2> QED BY <2>1, <2>2
<1> HIDE DEF new, u
<1>14. u.canonical = tx.canonical /\ u.progress["BlockHashes"] = last
  BY <1>1, <1>6 DEF WellTyped, Updates
<1>15. WellTyped(u)
  <2>1. 0 .. last \subseteq Height
    BY <1>1, HeightAssumption DEF Height
  <2>2. new \in [DOMAIN new -> Height]
    BY <1>10, <1>13, <2>1
  <2> HIDE DEF shot
  <2> QED BY <1>1, <1>6, <2>2 DEF WellTyped, Updates
<1>16. NumbersBelow(u)
  BY <1>6, <1>13, <1>14 DEF NumbersBelow
<1>17. HashesMatch(u)
  <2>1. DOMAIN new \subseteq {tx.canonical[n] : n \in 0 .. last}
    BY <1>10, <1>11, <1>12
  <2>2. {tx.canonical[n] : n \in 0 .. last} \ DOMAIN new \subseteq shot
    BY <1>8, <1>10, <1>11, <1>12
  <2> HIDE DEF shot
  <2> QED BY <2>1, <2>2, <1>6, <1>13, <1>14 DEF HashesMatch
<1>18. StagesInOrder(u)
  <2>1. tx.progress[Stages[3 + 1]] <= last /\ last <= tx.progress[Stages[3 - 1]]
    BY <1>1, <1>2, <1>3, StagesFacts
  <2> QED BY <2>1, <1>1, <1>6, OrderAfter, StagesFacts
<1>19. Consistent(u)
  BY <1>1, <1>6, <1>15, <1>16, <1>17, <1>18, IndexChange
<1>20. CaughtUp(u, at) /\ CaughtUp(u, at + 1)
  BY <1>0, <1>2, <1>6, CaughtUpAfter
<1> QED BY <1>0, <1>5, <1>19, <1>20, ProgressKeeps DEF u

\* SenderRecovery::execute appends the senders of the bodies it has read.
LEMMA SendersKeep == SyncInv /\ ExecuteSenders => SyncInv'
<1> SUFFICES ASSUME SyncInv, ExecuteSenders PROVE SyncInv'
  OBVIOUS
<1> DEFINE p == tx.progress["SenderRecovery"]
           last == tx.progress["Bodies"]
           read == {n \in DOMAIN tx.body : n > p}
           rows(reached) == [n \in {n \in read : n <= reached /\ tx.body[n].amount > 0}
                               |-> tx.body[n].hash]
<1>0. unwindTo = None /\ at = 6 /\ at \in 1 .. 7 /\ Stages[at] = "SenderRecovery"
  <2>1. at \in 1 .. 7 /\ Stages[at] = "SenderRecovery" /\ unwindTo = None
    BY StagesFacts DEF ExecuteSenders, Executing
  <2> QED BY <2>1, StagesFacts
<1>1. /\ Consistent(tx) /\ WellTyped(tx) /\ p \in Height /\ p \in Nat /\ last \in Height /\ last \in Nat
      /\ "SenderRecovery" \in StageId /\ "SenderRecovery" # "Headers"
  BY TxFacts, StagesFacts
<1>2. tx.progress["TotalTxIndex"] = last /\ CaughtUp(tx, at)
  BY <1>0 DEF SyncInv, CaughtUp
<1>3. p <= last /\ tx.progress[Stages[7]] <= p /\ tx.progress[Stages[7]] \in Nat
  BY <1>1, <1>2, TxFacts, OrderFacts, StagesFacts DEF Consistent
<1>4. /\ DOMAIN tx.body = 0 .. last
      /\ \A n \in 1 .. last : /\ tx.body[n].hash = tx.canonical[n]
                              /\ tx.body[n].amount = TxAmount[tx.canonical[n]]
                              /\ tx.canonical[n] \in Nat
  <2>1. \A n \in 0 .. last : tx.canonical[n] \in Nat
    <3>1. last <= tx.progress["Headers"] /\ tx.progress["Headers"] \in Nat
      <4>1. \A r \in StageId : tx.progress[r] \in Nat
        BY TxFacts
      <4> QED BY <4>1, <1>1, OrderFacts, StagesFacts DEF Consistent
    <3> QED BY <3>1, <1>1, TxFacts
  <2> QED BY <2>1, <1>1 DEF Consistent, BodiesMatch, AmountsMatch
<1>5. read = p + 1 .. last
  BY <1>1, <1>3, <1>4
<1>6. /\ DOMAIN tx.txSender = {n \in 1 .. p : TxAmount[tx.canonical[n]] > 0}
      /\ \A n \in DOMAIN tx.txSender : tx.txSender[n] = tx.canonical[n]
      /\ tx.txSender \in [DOMAIN tx.txSender -> Nat]
  BY <1>1 DEF Consistent, SendersMatch, WellTyped
<1>7. PICK reached \in read \cup {p}, done \in BOOLEAN :
        IF Appendable(tx.txSender, rows(reached))
        THEN StageProgresses([tx EXCEPT !.txSender = Put(tx.txSender, rows(reached))], reached, done)
        ELSE StageFails
  BY DEF ExecuteSenders
<1> HIDE DEF read
<1>8. reached \in p .. last /\ reached \in Nat /\ reached \in Height
  BY <1>1, <1>3, <1>5, HeightAssumption DEF Height
<1> DEFINE sent == {n \in p + 1 .. reached : TxAmount[tx.canonical[n]] > 0}
<1>9. rows(reached) = [n \in sent |-> tx.canonical[n]]
  <2>1. {n \in read : n <= reached /\ tx.body[n].amount > 0} = sent
    BY <1>1, <1>4, <1>5, <1>8
  <2>2. \A n \in sent : tx.body[n].hash = tx.canonical[n]
    BY <1>1, <1>4, <1>8
  <2> HIDE DEF sent
  <2> QED BY <2>1, <2>2
<1>10. Appendable(tx.txSender, rows(reached))
  BY <1>1, <1>6, <1>9 DEF Appendable
<1> DEFINE new == Put(tx.txSender, rows(reached))
           u == [[tx EXCEPT !.txSender = new] EXCEPT !.progress[Stages[at]] = reached]
<1> HIDE DEF rows
<1>11. StageProgresses([tx EXCEPT !.txSender = new], reached, done)
  BY <1>7, <1>10
<1>12. Updates(tx, u, {"txSender"}, "SenderRecovery", reached) /\ u.txSender = new
  <2> HIDE DEF new
  <2> QED BY <1>0, <1>1, <1>8 DEF Updates, WellTyped
<1>13. new = [n \in {n \in 1 .. reached : TxAmount[tx.canonical[n]] > 0} |-> tx.canonical[n]]
  <2>1. DOMAIN tx.txSender \cup sent = {n \in 1 .. reached : TxAmount[tx.canonical[n]] > 0}
    BY <1>1, <1>6, <1>8
  <2>2. new = [n \in DOMAIN tx.txSender \cup sent |-> IF n \in sent THEN tx.canonical[n] ELSE tx.txSender[n]]
    <3> HIDE DEF sent
    <3> QED BY <1>9 DEF Put
  <2> HIDE DEF new
  <2>3. \A n \in DOMAIN tx.txSender \cup sent :
          (IF n \in sent THEN tx.canonical[n] ELSE tx.txSender[n]) = tx.canonical[n]
    <3> HIDE DEF sent
    <3> QED BY <1>6
  <2> HIDE DEF sent
  <2> QED BY <2>1, <2>2, <2>3
<1> HIDE DEF new, u
<1>14. u.canonical = tx.canonical /\ u.progress["SenderRecovery"] = reached
  BY <1>1, <1>12 DEF WellTyped, Updates
<1>15. SendersMatch(u)
  BY <1>12, <1>13, <1>14 DEF SendersMatch
<1>16. WellTyped(u)
  <2>1. new \in [DOMAIN new -> Nat]
    BY <1>4, <1>8, <1>13, <1>1
  <2> QED BY <2>1, <1>1, <1>12 DEF WellTyped, Updates
<1>17. StagesInOrder(u)
  <2>1. tx.progress[Stages[6 + 1]] <= reached /\ reached <= tx.progress[Stages[6 - 1]]
    BY <1>1, <1>2, <1>3, <1>8, StagesFacts
  <2> QED BY <2>1, <1>1, <1>8, <1>12, OrderAfter, StagesFacts
<1>18. Consistent(u)
  BY <1>1, <1>8, <1>12, <1>15, <1>16, <1>17, IndexChange
<1>19. CaughtUp(u, at) /\ CaughtUp(u, at + 1)
  BY <1>0, <1>2, <1>12, CaughtUpAfter
<1> QED BY <1>0, <1>11, <1>18, <1>19, ProgressKeeps DEF u

\* FinishStage::execute only follows the stage before.
LEMMA FinishKeeps == SyncInv /\ ExecuteFinish => SyncInv'
<1> SUFFICES ASSUME SyncInv, ExecuteFinish PROVE SyncInv'
  OBVIOUS
<1> DEFINE last == tx.progress["SenderRecovery"]
           u == [tx EXCEPT !.progress[Stages[at]] = last]
<1>0. unwindTo = None /\ at = 7 /\ at \in 1 .. 7 /\ Stages[at] = "Finish" /\ PreviousProgress = last
  <2>1. at \in 1 .. 7 /\ Stages[at] = "Finish" /\ unwindTo = None
    BY StagesFacts DEF ExecuteFinish, Executing
  <2>2. at = 7
    BY <2>1, StagesFacts
  <2> QED BY <2>1, <2>2, StagesFacts DEF PreviousProgress
<1>1. /\ Consistent(tx) /\ WellTyped(tx) /\ last \in Height /\ last \in Nat
      /\ "Finish" \in StageId /\ "Finish" # "Headers"
  BY TxFacts, StagesFacts
<1>2. Updates(tx, u, {}, "Finish", last)
  BY <1>0, <1>1, ProgressUpdates
<1>3. StageProgresses(tx, last, TRUE)
  BY <1>0 DEF ExecuteFinish
<1> HIDE DEF u
<1>4. WellTyped(u)
  BY <1>1, <1>2 DEF WellTyped, Updates
<1>5. StagesInOrder(u)
  <2>1. last <= tx.progress[Stages[7 - 1]]
    BY <1>1, StagesFacts
  <2> QED BY <2>1, <1>1, <1>2, OrderAfter, StagesFacts
<1>6. Consistent(u)
  BY <1>1, <1>2, <1>4, <1>5, IndexChange
<1>7. CaughtUp(u, at) /\ CaughtUp(u, at + 1)
  <2>1. CaughtUp(tx, at)
    BY <1>0 DEF SyncInv
  <2> QED BY <1>0, <1>2, <2>1, CaughtUpAfter
<1> QED BY <1>0, <1>3, <1>6, <1>7, ProgressKeeps DEF u

\* base_tx_id over the bodies that are imported: each count goes on from the
\* one before.
LEMMA NextIdsFacts ==
  ASSUME SyncInv, NEW h \in Nat, h = tx.progress["Bodies"],
         NEW r \in h .. tx.progress["Headers"]
  PROVE  /\ NextIds(h)[h] = Ends(tx)[h]
         /\ \A n \in h .. r : NextIds(h)[n] \in Nat
         /\ \A n \in h + 1 .. r : /\ NextIds(h)[n] = NextIds(h)[n - 1] + TxAmount[tx.canonical[n]]
                                 /\ TxAmount[tx.canonical[n]] \in Nat
                                 /\ NextIds(h)[n - 1] <= NextIds(h)[n]
<1> DEFINE f == NextIds(h)
           H == tx.progress["Headers"]
           T == {n \in h .. r : f[n] \notin Nat}
<1>0. H \in Nat /\ 0 .. H \subseteq Height /\ h \in Height /\ Consistent(tx)
      /\ \A n \in 0 .. H : tx.canonical[n] \in Hashes
  BY TxFacts, StagesFacts
<1>1. /\ f[h] = tx.body[h].base + tx.body[h].amount
      /\ \A n \in h + 1 .. r : f[n] = f[n - 1] + TxAmount[tx.canonical[n]]
  <2>1. \A n \in Height : f[n] = IF n <= h THEN tx.body[h].base + tx.body[h].amount
                                 ELSE f[n - 1] + TxAmount[tx.canonical[n]]
    BY <1>0, NextIdsDef
  <2>2. h + 1 .. r \subseteq Height /\ \A n \in h + 1 .. r : ~(n <= h)
    BY <1>0
  <2> HIDE DEF f
  <2> QED BY <1>0, <2>1, <2>2
<1>2. \A n \in h + 1 .. r : TxAmount[tx.canonical[n]] \in Nat
  BY <1>0, TreeAssumption
<1>3. f[h] = Ends(tx)[h] /\ f[h] \in Nat
  <2>1. h \in 0 .. tx.progress["Bodies"]
    OBVIOUS
  <2>2. Ends(tx)[h] = tx.body[h].base + tx.body[h].amount /\ Ends(tx)[h] \in Nat
    BY <1>0, <2>1, EndsFacts
  <2> HIDE DEF f
  <2> QED BY <1>1, <2>2
<1> HIDE DEF f
<1>4. T = {}
  <2> SUFFICES ASSUME T # {} PROVE FALSE
    OBVIOUS
  <2>1. PICK k \in T : \A j \in T : k <= j
    BY LeastNat, T \subseteq Nat
  <2>2. k # h
    BY <1>3
  <2>3. k \in h + 1 .. r /\ k - 1 \in h .. r /\ k - 1 \notin T
    BY <2>1, <2>2
  <2>4. f[k - 1] \in Nat
    BY <2>3
  <2> QED BY <2>3, <2>4, <1>1, <1>2
<1>5. \A n \in h .. r : f[n] \in Nat
  BY <1>4
<1>6. ASSUME NEW n \in h + 1 .. r PROVE f[n - 1] <= f[n]
  <2>1. n - 1 \in h .. r
    OBVIOUS
  <2>2. f[n - 1] \in Nat /\ TxAmount[tx.canonical[n]] \in Nat /\ f[n] = f[n - 1] + TxAmount[tx.canonical[n]]
    BY <2>1, <1>1, <1>2, <1>5
  <2> QED BY <2>2
<1> QED BY <1>1, <1>2, <1>3, <1>5, <1>6 DEF f

\* ConvertBodies::execute appends bodies and transactions that count on from
\* the last body.
LEMMA BodiesKeep == SyncInv /\ ExecuteBodies => SyncInv'
<1> SUFFICES ASSUME SyncInv, ExecuteBodies PROVE SyncInv'
  OBVIOUS
<1> DEFINE h == tx.progress["Bodies"]
           last == tx.progress["Headers"]
           f == NextIds(h)
           bodies(r) == [n \in h + 1 .. r |->
                           [hash   |-> tx.canonical[n],
                            base   |-> f[n - 1],
                            amount |-> TxAmount[tx.canonical[n]]]]
           txs(r) == [i \in f[h] .. f[r] - 1 |->
                        tx.canonical[CHOOSE n \in h + 1 .. r : i \in f[n - 1] .. f[n] - 1]]
<1>0. unwindTo = None /\ at = 4 /\ at \in 1 .. 7 /\ Stages[at] = "Bodies"
  <2>1. at \in 1 .. 7 /\ Stages[at] = "Bodies" /\ unwindTo = None
    BY StagesFacts DEF ExecuteBodies, Executing
  <2>2. at = 1 \/ at = 2 \/ at = 3 \/ at = 4 \/ at = 5 \/ at = 6 \/ at = 7
    BY <2>1
  <2> QED BY <2>1, <2>2, StagesFacts
<1>1. /\ Consistent(tx) /\ WellTyped(tx) /\ h \in Height /\ h \in Nat /\ last \in Height /\ last \in Nat
      /\ DOMAIN tx.canonical = 0 .. last /\ 0 .. last \subseteq Height
      /\ \A n \in 0 .. last : tx.canonical[n] \in Nat
      /\ "Bodies" \in StageId /\ "Bodies" # "Headers"
  BY TxFacts, StagesFacts
<1>2. tx.progress["BlockHashes"] = last /\ CaughtUp(tx, at)
  BY <1>0 DEF SyncInv, CaughtUp
<1>3. h <= last /\ tx.progress[Stages[5]] <= h /\ tx.progress[Stages[5]] \in Nat
  BY <1>1, <1>2, TxFacts, OrderFacts, StagesFacts DEF Consistent
<1>4. /\ DOMAIN tx.body = 0 .. h /\ h \in DOMAIN tx.canonical /\ h \in DOMAIN tx.body
      /\ tx.body[h].hash = tx.canonical[h]
  BY <1>1, <1>3 DEF Consistent, BodiesMatch
<1>5. CASE LeftChain(h)
  <2>1. h # 0
    <3> SUFFICES ASSUME h = 0 PROVE FALSE
      OBVIOUS
    <3>1. PICK b \in Branches : \A n \in 0 .. last : tx.canonical[n] = Tree[b][n]
      BY <1>1 DEF Consistent, HeadersMatch
    <3>2. erigon.branch \in Branches /\ erigon.top \in Height /\ 0 <= erigon.top
      BY HeightAssumption DEF SyncInv, Height
    <3>3. ErigonHash(0) = Tree[erigon.branch][0]
      BY <3>2 DEF ErigonHash
    <3>4. Lookup(tx.canonical, 0) = Tree[b][0]
      BY <1>1, <3>1 DEF Lookup
    <3> QED BY <3>2, <3>3, <3>4, <1>5, TreeAssumption DEF LeftChain
  <2>2. StageUnwinds(h - 1)
    BY <1>5, <2>1 DEF ExecuteBodies
  <2> QED BY <2>1, <2>2, <1>1, UnwindsKeeps
<1>6. CASE ~LeftChain(h)
  <2>1. PICK r \in {n \in DOMAIN tx.canonical : n >= h}, done \in BOOLEAN :
          IF Appendable(tx.body, bodies(r)) /\ Appendable(tx.blockTx, txs(r))
          THEN StageProgresses([tx EXCEPT !.body = Put(tx.body, bodies(r)),
                                          !.blockTx = Put(tx.blockTx, txs(r))], r, done)
          ELSE StageFails
    BY <1>4, <1>6 DEF ExecuteBodies
  <2>2. r \in h .. last /\ r \in Nat /\ r \in Height
    BY <1>1, <2>1
  <2> DEFINE e == Ends(tx)
  <2>3. /\ f[h] = e[h]
        /\ \A n \in h .. r : f[n] \in Nat
        /\ \A n \in h + 1 .. r : /\ f[n] = f[n - 1] + TxAmount[tx.canonical[n]]
                                /\ TxAmount[tx.canonical[n]] \in Nat
                                /\ f[n - 1] <= f[n]
    <3>1. h = tx.progress["Bodies"] OBVIOUS
    <3> HIDE DEF h
    <3> QED BY <1>1, <2>2, <3>1, NextIdsFacts
  <2>4. DOMAIN tx.blockTx = 0 .. e[h] - 1
    BY <1>1, EndsFacts
  <2>5. /\ \A n \in 0 .. h : /\ tx.body[n].base \in Nat /\ tx.body[n].amount \in Nat
                             /\ e[n] = tx.body[n].base + tx.body[n].amount /\ e[n] \in Nat
        /\ \A m \in 0 .. h : e[m] <= e[h]
    <3>1. /\ \A n \in 0 .. h : /\ tx.body[n].base \in Nat /\ tx.body[n].amount \in Nat
                               /\ e[n] = tx.body[n].base + tx.body[n].amount /\ e[n] \in Nat
          /\ \A n \in 0 + 1 .. h : e[n - 1] <= e[n]
      BY <1>1, EndsFacts
    <3> HIDE DEF e
    <3>2. \A m \in 0 .. h : h \in m .. h
      BY <1>1
    <3>3. \A m \in 0 .. h : e[m] <= e[h]
      BY <1>1, <3>1, <3>2, Monotone
    <3> QED BY <3>1, <3>3
  <2> HIDE DEF e, f
  <2>6. \A m \in h .. r : \A n \in m .. r : f[m] <= f[n]
    BY <1>1, <2>2, <2>3, Monotone
  <2>7. f[h] \in Nat /\ f[r] \in Nat /\ f[h] <= f[r]
    <3>1. h \in h .. r /\ r \in h .. r
      BY <1>1, <2>2
    <3> QED BY <3>1, <2>3, <2>6
  <2>8. Appendable(tx.body, bodies(r)) /\ Appendable(tx.blockTx, txs(r))
    <3>1. Appendable(tx.body, bodies(r))
      BY <1>1, <1>4 DEF Appendable
    <3>2. DOMAIN txs(r) = f[h] .. f[r] - 1 /\ DOMAIN tx.blockTx = 0 .. f[h] - 1
      BY <2>3, <2>4
    <3>3. Appendable(tx.blockTx, txs(r))
      BY <2>7, <3>2 DEF Appendable
    <3> QED BY <3>1, <3>3
  <2>9. ASSUME NEW n \in h + 1 .. r, NEW i \in f[n - 1] .. f[n] - 1
        PROVE  i \in f[h] .. f[r] - 1 /\ txs(r)[i] = tx.canonical[n]
    <3>1. n - 1 \in h .. r /\ n \in h .. r
      BY <1>1, <2>2
    <3>2. f[n - 1] \in Nat /\ f[n] \in Nat /\ f[h] <= f[n - 1] /\ f[n] <= f[r]
      <4>1. h \in h .. r /\ r \in n .. r
        BY <1>1, <2>2
      <4>2. f[h] <= f[n - 1] /\ f[n] <= f[r]
        BY <3>1, <4>1, <2>6
      <4> QED BY <3>1, <4>2, <2>3
    <3>3. i \in f[h] .. f[r] - 1
      BY <2>7, <3>2
    <3> DEFINE m == CHOOSE k \in h + 1 .. r : i \in f[k - 1] .. f[k] - 1
    <3>4. m \in h + 1 .. r /\ i \in f[m - 1] .. f[m] - 1
      <4>1. \E k \in h + 1 .. r : i \in f[k - 1] .. f[k] - 1
        BY <2>9
      <4> QED BY <4>1
    <3> HIDE DEF m
    <3>5. m = n
      <4>1. m - 1 \in h .. r /\ m \in h .. r /\ f[m - 1] \in Nat /\ f[m] \in Nat
        BY <1>1, <2>2, <2>3, <3>4
      <4>2. ~(m < n)
        <5> SUFFICES ASSUME m < n PROVE FALSE
          OBVIOUS
        <5>1. n - 1 \in m .. r
          BY <3>1, <4>1, <1>1, <2>2
        <5>2. f[m] <= f[n - 1]
          BY <4>1, <5>1, <2>6
        <5> QED BY <5>2, <4>1, <3>2, <3>4
      <4>3. ~(n < m)
        <5> SUFFICES ASSUME n < m PROVE FALSE
          OBVIOUS
        <5>1. m - 1 \in n .. r
          BY <3>1, <4>1, <1>1, <2>2
        <5>2. f[n] <= f[m - 1]
          BY <3>1, <5>1, <2>6
        <5> QED BY <5>2, <4>1, <3>2, <3>4
      <4> QED BY <4>2, <4>3, <3>4, <1>1, <2>2
    <3>6. txs(r)[i] = tx.canonical[m]
      BY <3>3 DEF m
    <3> QED BY <3>3, <3>5, <3>6
  <2>10. ASSUME NEW i \in f[h] .. f[r] - 1 PROVE txs(r)[i] \in Nat
    <3>1. PICK k \in h + 1 .. r : f[k - 1] <= i /\ i < f[k]
      <4>1. i \in Nat /\ f[h] <= i /\ i < f[r] /\ h <= r
        BY <2>2, <2>7, <1>1
      <4> QED BY <4>1, <1>1, <2>2, <2>3, Covered
    <3>2. f[k - 1] \in Nat /\ f[k] \in Nat /\ k \in 0 .. last
      BY <1>1, <2>2, <2>3
    <3>3. i \in f[k - 1] .. f[k] - 1
      BY <2>7, <3>1, <3>2
    <3> QED BY <2>9, <3>2, <3>3, <1>1
  <2> DEFINE nb == Put(tx.body, bodies(r))
             nt == Put(tx.blockTx, txs(r))
             u == [[tx EXCEPT !.body = nb, !.blockTx = nt] EXCEPT !.progress[Stages[at]] = r]
  <2>11. StageProgresses([tx EXCEPT !.body = nb, !.blockTx = nt], r, done)
    <3> HIDE DEF bodies, txs
    <3> QED BY <2>1, <2>8
  <2>12. DOMAIN nb = 0 .. r /\ nb = [n \in 0 .. r |-> IF n \in h + 1 .. r THEN bodies(r)[n] ELSE tx.body[n]]
    <3>1. DOMAIN tx.body \cup (h + 1 .. r) = 0 .. r
      BY <1>1, <1>4, <2>2
    <3>2. DOMAIN bodies(r) = h + 1 .. r
      OBVIOUS
    <3> HIDE DEF bodies
    <3> QED BY <3>1, <3>2 DEF Put
  <2>13. DOMAIN nt = 0 .. f[r] - 1
         /\ nt = [i \in 0 .. f[r] - 1 |-> IF i \in f[h] .. f[r] - 1 THEN txs(r)[i] ELSE tx.blockTx[i]]
    <3>1. DOMAIN tx.blockTx \cup (f[h] .. f[r] - 1) = 0 .. f[r] - 1
      BY <2>3, <2>4, <2>7
    <3>2. DOMAIN txs(r) = f[h] .. f[r] - 1
      OBVIOUS
    <3> HIDE DEF txs
    <3> QED BY <3>1, <3>2 DEF Put
  <2>14. /\ Updates(tx, u, {"body", "blockTx"}, "Bodies", r)
         /\ u.body = nb /\ u.blockTx = nt
    <3> HIDE DEF nb, nt
    <3> QED BY <1>0, <1>1, <2>2 DEF Updates, WellTyped
  <2>15. \A n \in 0 .. h : nb[n] = tx.body[n] /\ n \in 0 .. r
    BY <2>12, <2>2, <1>1
  <2>16. ASSUME NEW n \in h + 1 .. r
         PROVE  /\ nb[n] = [hash |-> tx.canonical[n], base |-> f[n - 1], amount |-> TxAmount[tx.canonical[n]]]
                /\ nb[n].hash = tx.canonical[n]
                /\ nb[n].base = f[n - 1]
                /\ nb[n].amount = TxAmount[tx.canonical[n]]
    <3>1. n \in 0 .. r
      BY <2>2, <1>1
    <3>2. nb[n] = bodies(r)[n]
      <4> HIDE DEF nb, bodies
      <4> QED BY <2>12, <3>1
    <3>3. bodies(r)[n] = [hash |-> tx.canonical[n], base |-> f[n - 1], amount |-> TxAmount[tx.canonical[n]]]
      OBVIOUS
    <3> HIDE DEF nb, bodies
    <3> QED BY <3>2, <3>3
  <2>17. \A i \in 0 .. f[h] - 1 : nt[i] = tx.blockTx[i] /\ i \in DOMAIN nt /\ i \in DOMAIN tx.blockTx
    <3> HIDE DEF txs
    <3> QED BY <2>3, <2>4, <2>7, <2>13
  <2>18. \A i \in f[h] .. f[r] - 1 : nt[i] = txs(r)[i] /\ i \in DOMAIN nt
    <3> HIDE DEF txs
    <3> QED BY <2>7, <2>13
  <2> HIDE DEF nb, nt, bodies, txs, u
  <2>19. u.canonical = tx.canonical /\ u.progress["Bodies"] = r
    BY <1>1, <2>14 DEF WellTyped, Updates
  <2>20. nb \in [DOMAIN nb -> [hash : Nat, base : Nat, amount : Nat]]
    <3> DEFINE B == [hash : Nat, base : Nat, amount : Nat]
    <3>1. ASSUME NEW n \in 0 .. h PROVE nb[n] \in B
      <4>1. tx.body[n] \in B
        BY <1>1, <1>4 DEF WellTyped
      <4> QED BY <4>1, <2>15
    <3>2. ASSUME NEW n \in h + 1 .. r PROVE nb[n] \in B
      <4>1. tx.canonical[n] \in Nat /\ f[n - 1] \in Nat /\ TxAmount[tx.canonical[n]] \in Nat
        BY <1>1, <2>2, <2>3
      <4>2. nb[n] = [hash |-> tx.canonical[n], base |-> f[n - 1], amount |-> TxAmount[tx.canonical[n]]]
        BY <2>16
      <4> QED BY <4>1, <4>2
    <3>3. \A n \in 0 .. r : n \in 0 .. h \/ n \in h + 1 .. r
      BY <1>1, <2>2
    <3> HIDE DEF B
    <3>4. \A n \in 0 .. r : nb[n] \in B
      BY <3>1, <3>2, <3>3
    <3>5. nb = [n \in 0 .. r |-> nb[n]]
      BY <2>12
    <3>6. nb \in [0 .. r -> B]
      BY <3>4, <3>5
    <3> QED BY <3>6, <2>12 DEF B
  <2>21. nt \in [DOMAIN nt -> Nat]
    <3>1. ASSUME NEW i \in 0 .. f[r] - 1 PROVE nt[i] \in Nat
      <4>1. CASE i \in 0 .. f[h] - 1
        <5>1. nt[i] = tx.blockTx[i] /\ i \in DOMAIN tx.blockTx
          BY <4>1, <2>17
        <5> QED BY <5>1, <1>1 DEF WellTyped
      <4>2. CASE i \in f[h] .. f[r] - 1
        BY <4>2, <2>10, <2>18
      <4> QED BY <4>1, <4>2, <2>7
    <3>2. nt = [i \in 0 .. f[r] - 1 |-> nt[i]]
      BY <2>13
    <3> QED BY <3>1, <3>2
  <2>22. WellTyped(u)
    BY <1>1, <2>14, <2>20, <2>21 DEF WellTyped, Updates
  <2>23. AmountsMatch(u)
    <3>1. AmountsMatch(tx) BY <1>1 DEF Consistent
    <3>2. nb[0] = tx.body[0]
      BY <1>1, <2>15
    <3>3. ASSUME NEW n \in 1 .. r PROVE nb[n].amount = TxAmount[tx.canonical[n]]
      <4>1. CASE n \in 0 .. h
        BY <4>1, <3>1, <2>15 DEF AmountsMatch
      <4>2. CASE n \in h + 1 .. r
        BY <4>2, <2>16
      <4> QED BY <4>1, <4>2, <1>1, <2>2
    <3> QED BY <3>1, <3>2, <3>3, <2>14, <2>19 DEF AmountsMatch
  <2>24. BodiesMatch(u)
    <3>1. BodiesMatch(tx) BY <1>1 DEF Consistent
    <3>2. ASSUME NEW n \in 0 .. r
          PROVE  /\ nb[n].hash = tx.canonical[n]
                 /\ n > 0 => nb[n].base = nb[n - 1].base + nb[n - 1].amount
                 /\ \A i \in nb[n].base .. nb[n].base + nb[n].amount - 1 : Lookup(nt, i) = nb[n].hash
      <4>1. CASE n \in 0 .. h
        <5>1. nb[n] = tx.body[n] /\ (n > 0 => nb[n - 1] = tx.body[n - 1])
          BY <4>1, <1>1, <2>15
        <5>2. /\ tx.body[n].hash = tx.canonical[n]
              /\ n > 0 => tx.body[n].base = tx.body[n - 1].base + tx.body[n - 1].amount
              /\ \A i \in tx.body[n].base .. tx.body[n].base + tx.body[n].amount - 1 : Lookup(tx.blockTx, i) = tx.body[n].hash
          BY <4>1, <3>1, <1>4 DEF BodiesMatch
        <5>3. ASSUME NEW i \in tx.body[n].base .. tx.body[n].base + tx.body[n].amount - 1
              PROVE  Lookup(nt, i) = Lookup(tx.blockTx, i)
          <6>1. /\ tx.body[n].base \in Nat /\ tx.body[n].amount \in Nat
                /\ e[n] = tx.body[n].base + tx.body[n].amount /\ e[n] \in Nat
                /\ e[n] <= e[h] /\ e[h] \in Nat
            BY <4>1, <2>3, <2>5, <2>7
          <6>2. i \in 0 .. f[h] - 1
            BY <6>1, <2>3
          <6> QED BY <6>2, <2>17 DEF Lookup
        <5> QED BY <5>1, <5>2, <5>3
      <4>2. CASE n \in h + 1 .. r
        <5>1. nb[n].hash = tx.canonical[n] /\ nb[n].base = f[n - 1] /\ nb[n].amount = TxAmount[tx.canonical[n]]
          BY <4>2, <2>16
        <5>2. nb[n - 1].base + nb[n - 1].amount = f[n - 1]
          <6>1. CASE n = h + 1
            <7>1. n - 1 = h /\ h \in 0 .. h
              BY <6>1, <1>1
            <7>2. nb[h] = tx.body[h]
              BY <7>1, <2>15
            <7>3. f[h] = tx.body[h].base + tx.body[h].amount
              BY <7>1, <2>3, <2>5
            <7> QED BY <7>1, <7>2, <7>3
          <6>2. CASE n # h + 1
            <7>1. n - 1 \in h + 1 .. r
              BY <4>2, <6>2, <1>1, <2>2
            <7>2. nb[n - 1].base = f[(n - 1) - 1] /\ nb[n - 1].amount = TxAmount[tx.canonical[n - 1]]
              BY <7>1, <2>16
            <7>3. f[n - 1] = f[(n - 1) - 1] + TxAmount[tx.canonical[n - 1]]
              BY <7>1, <2>3
            <7> QED BY <7>2, <7>3
          <6> QED BY <6>1, <6>2
        <5>3. ASSUME NEW i \in nb[n].base .. nb[n].base + nb[n].amount - 1
              PROVE  Lookup(nt, i) = nb[n].hash
          <6>1. f[n] = f[n - 1] + TxAmount[tx.canonical[n]]
            BY <4>2, <2>3
          <6>2. i \in f[n - 1] .. f[n] - 1
            <7>1. n - 1 \in h .. r /\ n \in h .. r
              BY <4>2, <1>1, <2>2
            <7>2. f[n - 1] \in Nat /\ f[n] \in Nat /\ TxAmount[tx.canonical[n]] \in Nat
              BY <4>2, <7>1, <2>3
            <7> QED BY <5>1, <6>1, <7>2
          <6>3. i \in f[h] .. f[r] - 1 /\ txs(r)[i] = tx.canonical[n]
            BY <4>2, <6>2, <2>9
          <6> QED BY <6>3, <5>1, <2>18 DEF Lookup
        <5> QED BY <5>1, <5>2, <5>3
      <4> QED BY <4>1, <4>2, <1>1, <2>2
    <3>3. nb[r].base + nb[r].amount = f[r] /\ nb[r].base \in Nat /\ nb[r].amount \in Nat
      <4>1. CASE r = h
        <5>1. r \in 0 .. h
          BY <4>1, <1>1
        <5>2. nb[r] = tx.body[r]
          BY <5>1, <2>15
        <5>3. f[r] = e[r]
          BY <4>1, <2>3
        <5> QED BY <5>1, <5>2, <5>3, <2>5
      <4>2. CASE r # h
        <5>1. r \in h + 1 .. r /\ r - 1 \in h .. r
          BY <4>2, <1>1, <2>2
        <5>2. nb[r].base = f[r - 1] /\ nb[r].amount = TxAmount[tx.canonical[r]]
          BY <5>1, <2>16
        <5> QED BY <5>1, <5>2, <2>3
      <4> QED BY <4>1, <4>2
    <3>4. DOMAIN nt = 0 .. nb[r].base + nb[r].amount - 1
      <4>1. nb[r].base + nb[r].amount - 1 = f[r] - 1
        BY <3>3
      <4> QED BY <4>1, <2>13
    <3> QED BY <3>2, <3>4, <2>12, <2>14, <2>19 DEF BodiesMatch
  <2>25. StagesInOrder(u)
    <3>1. tx.progress[Stages[4 + 1]] <= r /\ r <= tx.progress[Stages[4 - 1]]
      BY <1>1, <1>2, <1>3, <2>2, StagesFacts
    <3> QED BY <3>1, <1>1, <2>2, <2>14, OrderAfter, StagesFacts
  <2>26. Consistent(u)
    BY <1>1, <2>2, <2>14, <2>22, <2>23, <2>24, <2>25, IndexChange
  <2>27. CaughtUp(u, at) /\ CaughtUp(u, at + 1)
    BY <1>0, <1>2, <2>14, CaughtUpAfter
  <2> QED BY Zenon, <1>0, <2>11, <2>26, <2>27, ProgressKeeps DEF u
<1> QED BY <1>5, <1>6

-----------------------------------------------------------------------------
(* The steps of run(), and the theorems *)

\* One stage of the unwinding loop keeps the tables consistent.
LEMMA UnwindKeeps == SyncInv /\ Unwind => SyncInv'
<1> SUFFICES ASSUME SyncInv, Unwind PROVE SyncInv'
  OBVIOUS
<1> DEFINE s == Stages[at]
           new == IF tx.progress[s] > unwindTo
                  THEN [Unwound(s, tx, unwindTo) EXCEPT !.progress[s] = unwindTo]
                  ELSE tx
<1>0. /\ unwindTo # None /\ unwindTo \in Nat /\ at \in 1 .. 7
      /\ \A k \in at + 1 .. 7 : tx.progress[Stages[k]] <= unwindTo
  BY StagesFacts DEF Unwind, SyncInv, BelowUnwindPoint
<1>1. Consistent(tx) /\ WellTyped(tx) /\ Consistent(db)
  BY DEF SyncInv, Consistent
<1>2. ASSUME tx.progress[s] > unwindTo
      PROVE  Consistent(new) /\ new.progress = [tx.progress EXCEPT ![s] = unwindTo]
  <2>1. Unwindable(tx, at, unwindTo)
    <3>1. at < 7 => at + 1 \in at + 1 .. 7
      BY <1>0
    <3>2. s \in StageId /\ tx.progress[s] \in Nat
      BY <1>0, TxFacts, StagesFacts DEF StageId
    <3> QED BY <1>0, <1>1, <1>2, <3>1, <3>2 DEF Unwindable
  <2>2. new = [Unwound(s, tx, unwindTo) EXCEPT !.progress[s] = unwindTo]
    BY <1>2
  <2>3. at = 1 \/ at = 2 \/ at = 3 \/ at = 4 \/ at = 5 \/ at = 6 \/ at = 7
    BY <1>0
  <2> HIDE DEF new
  <2>4. CASE at = 1
    <3>1. new = [UnwindHeaders(tx, unwindTo) EXCEPT !.progress["Headers"] = unwindTo] /\ s = "Headers"
      BY <2>2, <2>4, StagesFacts DEF Unwound
    <3>2. Consistent(new)
      BY <3>1, <2>1, <2>4, UnwindHeadersKeeps
    <3>3. new.progress = [tx.progress EXCEPT ![s] = unwindTo]
      BY <3>1, <1>1 DEF UnwindHeaders, WellTyped
    <3> QED BY <3>2, <3>3
  <2>5. CASE at = 2
    <3>1. new = [UnwindTotalGas(tx, unwindTo) EXCEPT !.progress["TotalGasIndex"] = unwindTo] /\ s = "TotalGasIndex"
      BY <2>2, <2>5, StagesFacts DEF Unwound
    <3>2. Consistent(new)
      BY <3>1, <2>1, <2>5, UnwindTotalGasKeeps
    <3>3. new.progress = [tx.progress EXCEPT ![s] = unwindTo]
      BY <3>1, <1>1 DEF UnwindTotalGas, WellTyped
    <3> QED BY <3>2, <3>3
  <2>6. CASE at = 3
    <3>1. new = [UnwindBlockHashes(tx, unwindTo) EXCEPT !.progress["BlockHashes"] = unwindTo] /\ s = "BlockHashes"
      BY <2>2, <2>6, StagesFacts DEF Unwound
    <3>2. Consistent(new)
      BY <3>1, <2>1, <2>6, UnwindBlockHashesKeeps
    <3>3. new.progress = [tx.progress EXCEPT ![s] = unwindTo]
      BY <3>1, <1>1 DEF UnwindBlockHashes, WellTyped
    <3> QED BY <3>2, <3>3
  <2>7. CASE at = 4
    <3>1. new = [UnwindBodies(tx, unwindTo) EXCEPT !.progress["Bodies"] = unwindTo] /\ s = "Bodies"
      BY <2>2, <2>7, StagesFacts DEF Unwound
    <3>2. Consistent(new)
      BY <3>1, <2>1, <2>7, UnwindBodiesKeeps
    <3>3. new.progress = [tx.progress EXCEPT ![s] = unwindTo]
      BY <3>1, <1>1 DEF UnwindBodies, WellTyped
    <3> QED BY <3>2, <3>3
  <2>8. CASE at = 5
    <3>1. new = [UnwindTotalTx(tx, unwindTo) EXCEPT !.progress["TotalTxIndex"] = unwindTo] /\ s = "TotalTxIndex"
      BY <2>2, <2>8, StagesFacts DEF Unwound
    <3>2. Consistent(new)
      BY <3>1, <2>1, <2>8, UnwindTotalTxKeeps
    <3>3. new.progress = [tx.progress EXCEPT ![s] = unwindTo]
      BY <3>1, <1>1 DEF UnwindTotalTx, WellTyped
    <3> QED BY <3>2, <3>3
  <2>9. CASE at = 6
    <3>1. new = [UnwindSenders(tx, unwindTo) EXCEPT !.progress["SenderRecovery"] = unwindTo] /\ s = "SenderRecovery"
      BY <2>2, <2>9, StagesFacts DEF Unwound
    <3>2. Consistent(new)
      BY <3>1, <2>1, <2>9, UnwindSendersKeeps
    <3>3. new.progress = [tx.progress EXCEPT ![s] = unwindTo]
      BY <3>1, <1>1 DEF UnwindSenders, WellTyped
    <3> QED BY <3>2, <3>3
  <2>10. CASE at = 7
    <3>1. new = [tx EXCEPT !.progress["Finish"] = unwindTo] /\ s = "Finish"
      BY <2>2, <2>10, StagesFacts DEF Unwound
    <3>2. Consistent(new)
      BY <3>1, <2>1, <2>10, UnwindFinishKeeps
    <3>3. new.progress = [tx.progress EXCEPT ![s] = unwindTo]
      BY <3>1, <1>1 DEF WellTyped
    <3> QED BY <3>2, <3>3
  <2> QED BY <2>3, <2>4, <2>5, <2>6, <2>7, <2>8, <2>9, <2>10
<1>3. /\ Consistent(new)
      /\ \A k \in at .. 7 : new.progress[Stages[k]] <= unwindTo
  <2>1. CASE tx.progress[s] > unwindTo
    <3>1. Consistent(new) /\ new.progress = [tx.progress EXCEPT ![s] = unwindTo]
      BY <1>2, <2>1
    <3> HIDE DEF new
    <3>2. ASSUME NEW k \in at .. 7 PROVE new.progress[Stages[k]] <= unwindTo
      <4>1. Stages[k] \in StageId /\ tx.progress \in [StageId -> Height]
        BY <1>0, <1>1, StagesFacts DEF StageId, WellTyped
      <4>2. CASE k = at
        BY <4>1, <4>2, <3>1, <1>0
      <4>3. CASE k # at
        <5>1. k \in at + 1 .. 7
          BY <4>3, <1>0
        <5>2. tx.progress[Stages[k]] <= unwindTo
          BY <5>1, <1>0
        <5>3. new.progress[Stages[k]] = unwindTo \/ new.progress[Stages[k]] = tx.progress[Stages[k]]
          BY <3>1, <4>1
        <5> QED BY <5>2, <5>3, <1>0
      <4> QED BY <4>2, <4>3
    <3> QED BY <3>1, <3>2
  <2>2. CASE ~(tx.progress[s] > unwindTo)
    <3>1. new = tx
      BY <2>2
    <3>2. s \in StageId /\ tx.progress[s] \in Nat
      BY <1>0, TxFacts, StagesFacts DEF StageId
    <3>3. ASSUME NEW k \in at .. 7 PROVE tx.progress[Stages[k]] <= unwindTo
      <4>1. k = at \/ k \in at + 1 .. 7
        BY <1>0
      <4> QED BY <4>1, <1>0, <2>2, <3>2
    <3> QED BY <3>1, <3>3, <1>1
  <2> QED BY <2>1, <2>2
<1>4. /\ IF at = 1
         THEN db' = new /\ BeginRound(new)
         ELSE /\ tx' = new
              /\ at' = at - 1
              /\ UNCHANGED <<db, start, minProgress, unwindTo>>
      /\ UNCHANGED <<erigon, status, maxBlock>>
  BY DEF Unwind, UnwindOrder
<1> HIDE DEF new
<1>5. CASE at = 1
  <2>1. status' # "failed"
    BY <1>4 DEF SyncInv
  <2> QED BY <1>3, <1>4, <1>5, <2>1, RoundKeeps
<1>6. CASE at # 1
  <2>1. at' \in 1 .. 6 /\ at' + 1 = at /\ at' \in DOMAIN Stages
    BY <1>0, <1>4, <1>6, StagesFacts
  <2>2. \A k \in at' + 1 .. Len(Stages) : tx'.progress[Stages[k]] <= unwindTo'
    BY <1>3, <1>4, <1>6, <2>1, StagesFacts
  <2> QED BY <1>0, <1>1, <1>3, <1>4, <1>6, <2>1, <2>2, StagesFacts DEF SyncInv, BelowUnwindPoint
<1> QED BY <1>5, <1>6

\* initialize_genesis leaves consistent tables.
LEMMA InitKeeps == Init => SyncInv
<1> SUFFICES ASSUME Init PROVE SyncInv
  OBVIOUS
<1> DEFINE b == CHOOSE b \in Branches : TRUE
           g == Tree[b][0]
           t == GenesisTables
<1>1. b \in Branches /\ 0 \in Height /\ g \in Nat
  <2>1. erigon.branch \in Branches
    BY DEF Init
  <2>2. b \in Branches
    BY <2>1
  <2>3. 0 \in Height
    BY HeightAssumption DEF Height
  <2> QED BY <2>2, <2>3, TreeAssumption
<1>2. /\ t.canonical = [n \in {0} |-> g] /\ t.totalGas = [n \in {0} |-> {}]
      /\ t.headerNumber = [h \in {g} |-> 0]
      /\ t.body = [n \in {0} |-> [hash |-> g, base |-> 0, amount |-> 0]]
      /\ t.blockTx = [i \in {} |-> g] /\ t.totalTx = [n \in {0} |-> {}]
      /\ t.txSender = [n \in {} |-> g] /\ t.overshot = {}
      /\ t.progress = [s \in StageId |-> 0]
      /\ DOMAIN t = {"canonical", "totalGas", "headerNumber", "body", "blockTx",
                     "totalTx", "txSender", "overshot", "progress"}
  <2> HIDE DEF g
  <2> QED BY DEF GenesisTables, g
<1> HIDE DEF g, t, b
<1>3. \A s \in StageId : t.progress[s] = 0
  BY <1>2
<1>4. WellTyped(t)
  BY <1>1, <1>2 DEF WellTyped
<1>5. HeadersMatch(t)
  <2>1. t.canonical[0] = Tree[b][0]
    BY <1>2 DEF g
  <2>2. DOMAIN t.canonical = 0 .. 0
    BY <1>2
  <2> QED BY <2>1, <2>2, <1>1, <1>3, StagesFacts DEF HeadersMatch
<1>6. CumulativeMatch(t, t.totalGas, 0) /\ CumulativeMatch(t, t.totalTx, 0)
  BY <1>2 DEF CumulativeMatch
<1>7. t.body[0].hash = g /\ t.body[0].base = 0 /\ t.body[0].amount = 0 /\ DOMAIN t.body = 0 .. 0
  BY <1>2
<1>8. BodiesMatch(t) /\ AmountsMatch(t)
  BY <1>2, <1>3, <1>7, StagesFacts DEF BodiesMatch, AmountsMatch
<1>9. SendersMatch(t)
  BY <1>2, <1>3, StagesFacts DEF SendersMatch
<1>10. HashesMatch(t) /\ NumbersBelow(t)
  BY <1>2, <1>3, StagesFacts DEF HashesMatch, NumbersBelow
<1>11. StagesInOrder(t)
  BY <1>3, OrderFacts, StagesFacts
<1>12. Consistent(t)
  BY <1>3, <1>4, <1>5, <1>6, <1>8, <1>9, <1>10, <1>11, StagesFacts DEF Consistent
<1>13. Consistent(db) /\ Consistent(tx)
  BY <1>12 DEF Init, t
<1>14. CaughtUp(tx, at)
  BY DEF Init, CaughtUp
<1> QED BY <1>13, <1>14, StagesFacts DEF Init, SyncInv, BelowUnwindPoint

\* Every step of run(), of Erigon and every crash preserves the invariant.
THEOREM SyncInvariant == Spec => []SyncInv
<1>1. Init => SyncInv
  BY InitKeeps
<1>2. SyncInv /\ [Next]_vars => SyncInv'
  <2> SUFFICES ASSUME SyncInv, [Next]_vars PROVE SyncInv'
    OBVIOUS
  <2>1. CASE Execute
    <3>1. CASE EndRound
      <4>1. BeginRound(tx) /\ db' = tx /\ erigon' = erigon /\ maxBlock' = maxBlock
        BY <3>1 DEF EndRound
      <4>2. status' # "failed"
        BY <3>1 DEF EndRound
      <4>3. Consistent(tx) /\ Consistent(db')
        BY <4>1 DEF SyncInv
      <4> QED BY <4>1, <4>2, <4>3, RoundKeeps
    <3> QED BY <2>1, <3>1, HeadersKeep, TotalGasKeep, BlockHashesKeep, BodiesKeep,
               TotalTxKeep, SendersKeep, FinishKeeps DEF Execute
  <2>2. CASE Unwind
    BY <2>2, UnwindKeeps
  <2>3. CASE Crash
    <3>1. BeginRound(db) /\ db' = db /\ erigon' = erigon /\ maxBlock' = maxBlock /\ status' = "running"
      BY <2>3 DEF Crash
    <3>2. Consistent(db) /\ Consistent(db')
      BY <3>1 DEF SyncInv
    <3> QED BY <3>1, <3>2, RoundKeeps
  <2>4. CASE ErigonMoves
    BY <2>4 DEF ErigonMoves, SyncInv, BelowUnwindPoint
  <2>5. CASE UNCHANGED vars
    BY <2>5 DEF vars, SyncInv, BelowUnwindPoint
  <2> QED BY <2>1, <2>2, <2>3, <2>4, <2>5 DEF Next
<1> QED BY <1>1, <1>2, PTL DEF Spec

\* What is committed is consistent at every moment.
THEOREM CommitsAreConsistent == Spec => []CommittedConsistent
<1>1. SyncInv => CommittedConsistent
  BY DEF SyncInv, Consistent, CommittedConsistent
<1> QED BY <1>1, SyncInvariant, PTL

\* No stage ever meets an append that is refused or a row that is missing.
THEOREM StagesNeverFail == Spec => []NoStageFails
<1>1. SyncInv => NoStageFails
  BY DEF SyncInv, NoStageFails
<1> QED BY <1>1, SyncInvariant, PTL

-----------------------------------------------------------------------------
(* run() returns only when max_block has been reached *)

\* minimum_progress is not above what any stage of this round has reached.
MinimumBelow ==
  /\ minProgress \in Nat \cup {None}
  /\ unwindTo = None =>
       \A k \in 1 .. at - 1 : /\ minProgress \in Nat
                              /\ minProgress <= tx.progress[Stages[k]]

ReturnInv == MinimumBelow /\ ReturnedReached

\* A stage that reports progress saves its own progress and no other.
LEMMA ExecuteProgresses ==
  ASSUME SyncInv, Execute, ~EndRound, ~(\E to \in Nat : StageUnwinds(to)), SyncInv'
  PROVE  /\ status = "running" /\ unwindTo = None /\ at \in 1 .. 7
         /\ \E tables, reached, done :
              /\ StageProgresses(tables, reached, done)
              /\ DOMAIN tables = DOMAIN tx /\ tables.progress = tx.progress
<1>1. status = "running" /\ unwindTo = None /\ at \in 1 .. 7
  BY Zenon, StagesFacts DEF Execute, ExecuteHeaders, ExecuteTotalGas, ExecuteBlockHashes,
     ExecuteBodies, ExecuteTotalTx, ExecuteSenders, ExecuteFinish, Executing
<1>2. ~StageFails
  BY DEF StageFails, SyncInv
<1>3. WellTyped(tx) /\ \A r \in StageId : tx.progress[r] \in Nat
  BY TxFacts
<1> DEFINE Goal == \E tables, reached, done :
                     /\ StageProgresses(tables, reached, done)
                     /\ DOMAIN tables = DOMAIN tx /\ tables.progress = tx.progress
<1> SUFFICES Goal BY <1>1
<1>4. CASE ExecuteHeaders
  <2> DEFINE highest == tx.progress["Headers"]
  <2>1. \E x, reached : StageProgresses([tx EXCEPT !.canonical = x], reached, TRUE)
    <3>1. highest # 0 => highest - 1 \in Nat
      BY <1>3, StagesFacts
    <3> QED BY <1>2, <1>4, <3>1 DEF ExecuteHeaders
  <2>2. PICK x, reached : StageProgresses([tx EXCEPT !.canonical = x], reached, TRUE)
    BY <2>1
  <2>3. DOMAIN [tx EXCEPT !.canonical = x] = DOMAIN tx /\ [tx EXCEPT !.canonical = x].progress = tx.progress
    BY <1>3 DEF WellTyped
  <2> QED BY <2>2, <2>3
<1>5. CASE ExecuteTotalGas
  <2>1. CASE \E reached : StageProgresses(tx, reached, TRUE)
    BY <2>1
  <2>2. CASE \E x, reached : StageProgresses([tx EXCEPT !.totalGas = x], reached, TRUE)
    <3>1. PICK x, reached : StageProgresses([tx EXCEPT !.totalGas = x], reached, TRUE)
      BY <2>2
    <3>2. DOMAIN [tx EXCEPT !.totalGas = x] = DOMAIN tx /\ [tx EXCEPT !.totalGas = x].progress = tx.progress
      BY <1>3 DEF WellTyped
    <3> QED BY <3>1, <3>2
  <2> QED BY <1>2, <1>5, <2>1, <2>2 DEF ExecuteTotalGas
<1>6. CASE ExecuteBlockHashes
  <2>1. PICK x, y, reached : StageProgresses([tx EXCEPT !.headerNumber = x, !.overshot = y], reached, TRUE)
    BY <1>6 DEF ExecuteBlockHashes
  <2>2. /\ DOMAIN [tx EXCEPT !.headerNumber = x, !.overshot = y] = DOMAIN tx
        /\ [tx EXCEPT !.headerNumber = x, !.overshot = y].progress = tx.progress
    BY <1>3 DEF WellTyped
  <2> QED BY <2>1, <2>2
<1>7. CASE ExecuteBodies
  <2> DEFINE highest == tx.progress["Bodies"]
  <2>1. PICK x, y, reached, done : StageProgresses([tx EXCEPT !.body = x, !.blockTx = y], reached, done)
    <3>1. highest # 0 => highest - 1 \in Nat
      BY <1>3, StagesFacts
    <3> QED BY <1>2, <1>7, <3>1 DEF ExecuteBodies
  <2>2. /\ DOMAIN [tx EXCEPT !.body = x, !.blockTx = y] = DOMAIN tx
        /\ [tx EXCEPT !.body = x, !.blockTx = y].progress = tx.progress
    BY <1>3 DEF WellTyped
  <2> QED BY <2>1, <2>2
<1>8. CASE ExecuteTotalTx
  <2>1. CASE \E reached : StageProgresses(tx, reached, TRUE)
    BY <2>1
  <2>2. CASE \E x, reached : StageProgresses([tx EXCEPT !.totalTx = x], reached, TRUE)
    <3>1. PICK x, reached : StageProgresses([tx EXCEPT !.totalTx = x], reached, TRUE)
      BY <2>2
    <3>2. DOMAIN [tx EXCEPT !.totalTx = x] = DOMAIN tx /\ [tx EXCEPT !.totalTx = x].progress = tx.progress
      BY <1>3 DEF WellTyped
    <3> QED BY <3>1, <3>2
  <2> QED BY <1>2, <1>8, <2>1, <2>2 DEF ExecuteTotalTx
<1>9. CASE ExecuteSenders
  <2>1. PICK x, reached, done : StageProgresses([tx EXCEPT !.txSender = x], reached, done)
    BY <1>2, <1>9 DEF ExecuteSenders
  <2>2. DOMAIN [tx EXCEPT !.txSender = x] = DOMAIN tx /\ [tx EXCEPT !.txSender = x].progress = tx.progress
    BY <1>3 DEF WellTyped
  <2> QED BY <2>1, <2>2
<1>10. CASE ExecuteFinish
  BY <1>10 DEF ExecuteFinish
<1> HIDE DEF Goal
<1> QED BY Zenon, <1>4, <1>5, <1>6, <1>7, <1>8, <1>9, <1>10 DEF Execute

\* run() returns only when every stage has committed max_block: the part of
\* ReturnsOnceReached that is an invariant.
THEOREM ReturnsOnlyWhenReached == Spec => []ReturnedReached
<1>1. Init => ReturnInv
  BY DEF Init, ReturnInv, MinimumBelow, ReturnedReached
<1>2. SyncInv /\ SyncInv' /\ ReturnInv /\ [Next]_vars => ReturnInv'
  <2> SUFFICES ASSUME SyncInv, SyncInv', ReturnInv, [Next]_vars PROVE ReturnInv'
    OBVIOUS
  <2>0. None \notin Nat
    BY HeightAssumption
  <2>1. CASE EndRound
    <3>1. at' = 1 /\ minProgress' = None /\ db' = tx /\ maxBlock' = maxBlock /\ at - 1 = 7
          /\ unwindTo = None /\ (status' = "returned" => maxBlock # None /\ minProgress = maxBlock)
      BY <2>1, StagesFacts DEF EndRound, BeginRound
    <3>2. ASSUME status' = "returned", NEW s \in StageId PROVE db'.progress[s] >= maxBlock
      <4>1. PICK k \in 1 .. 7 : s = Stages[k]
        BY StagesFacts DEF StageId
      <4>2. minProgress \in Nat /\ minProgress <= tx.progress[Stages[k]] /\ tx.progress[s] \in Nat
        BY <3>1, TxFacts DEF ReturnInv, MinimumBelow
      <4> QED BY <3>1, <3>2, <4>1, <4>2
    <3> QED BY <3>1, <3>2 DEF ReturnInv, MinimumBelow, ReturnedReached, Reached
  <2>2. CASE \E to \in Nat : StageUnwinds(to) /\ status = "running"
    <3>1. unwindTo' # None /\ minProgress' = minProgress /\ status' = "running"
      BY <2>0, <2>2 DEF StageUnwinds
    <3> QED BY <3>1 DEF ReturnInv, MinimumBelow, ReturnedReached
  <2>3. CASE Execute /\ ~EndRound /\ ~(\E to \in Nat : StageUnwinds(to))
    <3>1. status = "running" /\ unwindTo = None /\ at \in 1 .. 7
      BY <2>3, ExecuteProgresses
    <3>2. PICK tables, reached, done :
              /\ StageProgresses(tables, reached, done)
              /\ DOMAIN tables = DOMAIN tx /\ tables.progress = tx.progress
      BY <2>3, ExecuteProgresses
    <3>3. WellTyped(tx) /\ Stages[at] \in StageId
      BY <3>1, TxFacts, StagesFacts DEF StageId
    <3>4. /\ tx'.progress = [tx.progress EXCEPT ![Stages[at]] = reached]
          /\ minProgress' = Minimum(reached) /\ at' \in {at, at + 1}
          /\ status' = status
      BY <3>2, <3>3 DEF StageProgresses, WellTyped
    <3>5. \A r \in StageId : tx'.progress[r] \in Nat
      BY HeightAssumption DEF SyncInv, Consistent, WellTyped, Height
    <3>6. tx'.progress[Stages[at]] = reached /\ reached \in Nat
      BY <3>3, <3>4, <3>5 DEF WellTyped
    <3>7. minProgress \in Nat \cup {None}
      BY DEF ReturnInv, MinimumBelow
    <3>8. minProgress' \in Nat /\ minProgress' <= reached /\ (minProgress \in Nat => minProgress' <= minProgress)
      BY <2>0, <3>4, <3>6, <3>7 DEF Minimum
    <3>9. ASSUME NEW k \in 1 .. at' - 1 PROVE minProgress' <= tx'.progress[Stages[k]]
      <4>0. k \in 1 .. 7 /\ k <= at
        <5>1. at \in Int /\ at <= 7 /\ at' \in Int /\ at' <= at + 1
          BY <3>1, <3>4
        <5>2. \A a, b \in Int : a <= 7 /\ b <= a + 1 => \A j \in 1 .. b - 1 : j \in 1 .. 7 /\ j <= a
          OBVIOUS
        <5> QED BY <5>1, <5>2, Zenon
      <4>1. k \in 1 .. 7 /\ k <= at /\ Stages[k] \in StageId
        BY <4>0, StagesFacts DEF StageId
      <4>2. CASE k = at
        BY <4>2, <3>6, <3>8
      <4>3. CASE k # at
        <5>1. k \in 1 .. at - 1 /\ Stages[k] # Stages[at]
          BY <3>1, <4>1, <4>3, StagesFacts
        <5>2. minProgress \in Nat /\ minProgress <= tx.progress[Stages[k]]
          BY <3>1, <5>1 DEF ReturnInv, MinimumBelow
        <5>3. tx'.progress[Stages[k]] = tx.progress[Stages[k]] /\ tx.progress[Stages[k]] \in Nat
          BY <3>3, <3>4, <4>1, <5>1, TxFacts DEF WellTyped
        <5> QED BY <5>2, <5>3, <3>8
      <4> QED BY <4>2, <4>3
    <3> QED BY <3>1, <3>4, <3>8, <3>9 DEF ReturnInv, MinimumBelow, ReturnedReached
  <2>4. CASE Unwind
    <3>1. status' = "running" /\ unwindTo # None
      BY <2>4 DEF Unwind
    <3>2. minProgress' \in {None, minProgress} /\ (unwindTo' = None => at' = 1)
      BY <2>4, <3>1 DEF Unwind, BeginRound
    <3> QED BY <3>1, <3>2 DEF ReturnInv, MinimumBelow, ReturnedReached
  <2>5. CASE Crash
    BY <2>5 DEF Crash, BeginRound, ReturnInv, MinimumBelow, ReturnedReached
  <2>6. CASE ErigonMoves
    BY <2>6 DEF ErigonMoves, ReturnInv, MinimumBelow, ReturnedReached, Reached
  <2>7. CASE UNCHANGED vars
    <3>1. /\ minProgress' = minProgress /\ unwindTo' = unwindTo /\ at' = at /\ tx' = tx
          /\ db' = db /\ status' = status /\ maxBlock' = maxBlock
      BY <2>7 DEF vars
    <3>2. MinimumBelow' /\ ReturnedReached'
      BY <3>1 DEF ReturnInv, MinimumBelow, ReturnedReached, Reached
    <3> QED BY <3>2 DEF ReturnInv
  <2>8. Execute => status = "running"
    BY Zenon DEF Execute, ExecuteHeaders, ExecuteTotalGas, ExecuteBlockHashes, ExecuteBodies,
       ExecuteTotalTx, ExecuteSenders, ExecuteFinish, EndRound, Executing
  <2> QED BY <2>1, <2>2, <2>3, <2>4, <2>5, <2>6, <2>7, <2>8 DEF Next
<1>3. ReturnInv => ReturnedReached
  BY DEF ReturnInv
<1> QED BY <1>1, <1>2, <1>3, SyncInvariant, PTL DEF Spec
=============================================================================
