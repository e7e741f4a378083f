----------------------------- MODULE StagedSync -----------------------------
(***************************************************************************)
(* StagedSync::run with the stages that import a chain from an Erigon      *)
(* database and index it: ConvertHeaders, TotalGasIndex, BlockHashes,      *)
(* ConvertBodies, TotalTxIndex, SenderRecovery and FinishStage, in the     *)
(* order bin/akula.rs pushes them (the stages from Execution on are not    *)
(* modelled here).                                                         *)
(*                                                                         *)
(* The database has one writer, so an invocation of a stage is one action: *)
(* execute() or unwind(), save_progress and the commit that may follow.    *)
(* tx is what the open write transaction sees and db what has been         *)
(* committed; an abort and a crash both take tx back to db.  What runs     *)
(* concurrently is Erigon, which goes on syncing and reorganising: every   *)
(* begin() of a stage sees its chain of that moment.                       *)
(*                                                                         *)
(* Data.  A header is its hash, a number, since HeaderNumber is a table    *)
(* ordered by hash.  Header and HeadersTotalDifficulty are written and     *)
(* unwound together with CanonicalHeader, so one table stands for the      *)
(* three.  A cumulative sum (TotalGas, TotalTx) is the set of the headers  *)
(* it sums over.  A stage without saved progress counts as being at 0.     *)
(***************************************************************************)
EXTENDS Integers, Sequences

CONSTANTS
  MaxHeight,  \* bound: the greatest block number of any chain
  Branches,   \* the chains Erigon may be on
  Tree,       \* branch -> block number -> hash
  TxAmount,   \* hash -> number of transactions of the block
  MinCommit,  \* min_progress_to_commit_after_stage
  ToBlocks,   \* what max_block may be: block numbers, or None
  Increment,  \* exit_after_progress of ConvertHeaders
  None        \* Option::None

Height == 0 .. MaxHeight
Hashes == {Tree[b][n] : b \in Branches, n \in Height}

ASSUME HeightAssumption == /\ MaxHeight \in Nat
                           /\ MinCommit \in Nat
                           /\ Increment \in Nat \ {0}
                           /\ ToBlocks \subseteq Height \cup {None}
                           /\ None \notin Int

\* A hash determines the block number and all ancestors; the chains have the
\* genesis block in common.
ASSUME TreeAssumption ==
  /\ Tree \in [Branches -> [Height -> Nat]]
  /\ TxAmount \in [Hashes -> Nat]
  /\ \A a, b \in Branches, m, n \in Height :
       Tree[a][m] = Tree[b][n] =>
         m = n /\ \A k \in 0 .. n : Tree[a][k] = Tree[b][k]
  /\ \A a, b \in Branches : Tree[a][0] = Tree[b][0]

\* The order in which main() pushes the stages.
Stages == <<"Headers", "TotalGasIndex", "BlockHashes", "Bodies",
            "TotalTxIndex", "SenderRecovery", "Finish">>

StageId == {Stages[k] : k \in DOMAIN Stages}

VARIABLES
  db,          \* the committed tables
  tx,          \* the tables as the open transaction sees them
  at,          \* index of the stage that is executed or unwound next;
               \* Len(Stages) + 1 when all have been executed
  start,       \* start_progress of that stage
  unwindTo,    \* unwind_to: a block number while unwinding, else None
  minProgress, \* minimum_progress, or None
  erigon,      \* the chain Erigon is on: [branch, top]
  status,      \* of run(): "running", "failed" or "returned"
  maxBlock     \* max_block of this run: a block number, or None

vars == <<db, tx, at, start, unwindTo, minProgress, erigon, status, maxBlock>>

-----------------------------------------------------------------------------
(* Tables *)

Lookup(table, key) == IF key \in DOMAIN table THEN table[key] ELSE None

\* The rows whose key is at most n: what unwind() leaves of a table from
\* which it deletes the last row as long as its block is above n.
UpTo(table, n) == [k \in {k \in DOMAIN table : k <= n} |-> table[k]]

\* WriteFlags::APPEND fails unless each key is greater than the last one.
Appendable(table, rows) ==
  \A k \in DOMAIN rows, j \in DOMAIN table : j < k

Put(table, rows) ==
  [k \in DOMAIN table \cup DOMAIN rows |->
     IF k \in DOMAIN rows THEN rows[k] ELSE table[k]]

\* cursor.seek(key), then delete_current(): seek finds the first key that is
\* not less than the one asked for.
SeekDelete(table, key) ==
  LET found == {k \in DOMAIN table :
                  /\ k >= key
                  /\ \A j \in DOMAIN table : j >= key => k <= j}
  IN [k \in DOMAIN table \ found |-> table[k]]

\* What initialize_genesis leaves.
GenesisTables ==
  LET hash == Tree[CHOOSE b \in Branches : TRUE][0]
  IN [canonical    |-> [n \in {0} |-> hash],
      totalGas     |-> [n \in {0} |-> {}],
      headerNumber |-> [h \in {hash} |-> 0],
      body         |-> [n \in {0} |-> [hash |-> hash, base |-> 0, amount |-> 0]],
      blockTx      |-> [i \in {} |-> hash],
      totalTx      |-> [n \in {0} |-> {}],
      txSender     |-> [n \in {} |-> hash],
      overshot     |-> {},
      progress     |-> [s \in StageId |-> 0]]

-----------------------------------------------------------------------------
(* StagedSync::run *)

\* Mutant: minimum_progress is not reset.
BeginRoundKeepMinimum(tables) ==
  /\ tx' = tables
  /\ at' = 1
  /\ start' = tables.progress[Stages[1]]
  /\ unwindTo' = None
  /\ UNCHANGED minProgress

\* begin_mutable() and the start of a round of the loop with these tables.
BeginRound(tables) ==
  /\ tx' = tables
  /\ at' = 1
  /\ start' = tables.progress[Stages[1]]
  /\ minProgress' = None
  /\ unwindTo' = None

Executing(s) ==
  /\ status = "running"
  /\ unwindTo = None
  /\ at \in DOMAIN Stages /\ Stages[at] = s

\* Mutant: the bound is taken to be exclusive.
PreviousProgressExclusive == tx.progress[Stages[at - 1]] + 1

\* previous_stage: save_progress has stored what the stage before reported.
PreviousProgress == tx.progress[Stages[at - 1]]

\* minimum_progress, over all invocations of all stages of the round.
Minimum(reached) == IF minProgress = None \/ reached < minProgress
                    THEN reached ELSE minProgress

\* execute() has returned Progress: the progress is saved, the transaction is
\* committed if the stage has moved far enough since its first invocation in
\* this round, and the next stage follows if this one is done.
StageProgresses(tables, reached, done) ==
  LET new == [tables EXCEPT !.progress[Stages[at]] = reached]
  IN /\ tx' = new
     /\ db' = IF MinCommit = 0 \/ reached - start >= MinCommit
              THEN new ELSE db
     /\ minProgress' = Minimum(reached)
     /\ at' = IF done THEN at + 1 ELSE at
     /\ start' = IF at' \in DOMAIN Stages /\ done
                 THEN new.progress[Stages[at']] ELSE start
     /\ UNCHANGED <<unwindTo, erigon, status, maxBlock>>

\* Mutant: the block to unwind is taken for the one to unwind to.
StageUnwindsNowhere(to) ==
  /\ tx' = db
  /\ unwindTo' = to + 1
  /\ at' = Len(Stages)
  /\ UNCHANGED <<db, start, minProgress, erigon, status, maxBlock>>

\* execute() has returned Unwind: the transaction is dropped.
StageUnwinds(to) ==
  /\ tx' = db
  /\ unwindTo' = to
  /\ at' = Len(Stages)
  /\ UNCHANGED <<db, start, minProgress, erigon, status, maxBlock>>

\* execute() has returned an error or panicked.
StageFails ==
  /\ status' = "failed"
  /\ UNCHANGED <<db, tx, at, start, unwindTo, minProgress, erigon, maxBlock>>

\* All stages are done: commit, and return if max_block has been reached.
EndRound ==
  /\ status = "running" /\ unwindTo = None
  /\ at = Len(Stages) + 1
  /\ db' = tx
  /\ BeginRound(tx)
  /\ status' = IF maxBlock # None /\ minProgress = maxBlock
               THEN "returned" ELSE status
  /\ UNCHANGED <<erigon, maxBlock>>

\* The process is killed, or it is started again after an error; everything
\* but the committed tables is lost.
Crash ==
  /\ status # "returned"
  /\ status' = "running"
  /\ BeginRound(db)
  /\ UNCHANGED <<db, erigon, maxBlock>>

\* Erigon imports or unwinds blocks, or switches to another chain (external).
ErigonMoves ==
  /\ status # "returned"
  /\ \E b \in Branches, n \in Height : erigon' = [branch |-> b, top |-> n]
  /\ erigon' # erigon
  /\ UNCHANGED <<db, tx, at, start, unwindTo, minProgress, status, maxBlock>>

ErigonHash(n) == IF n <= erigon.top THEN Tree[erigon.branch][n] ELSE None

-----------------------------------------------------------------------------
(* ConvertHeaders *)

\* Erigon is no longer on the chain that block n has been imported from.
LeftChain(n) == ErigonHash(n) # Lookup(tx.canonical, n)

ExecuteHeaders ==
  LET highest == tx.progress["Headers"]
      imported == {n \in highest + 1 .. erigon.top :
                     /\ maxBlock = None \/ n <= maxBlock
                     /\ n - highest <= Increment}
      rows == [n \in imported |-> ErigonHash(n)]
  IN /\ Executing("Headers")
     /\ IF LeftChain(highest)
        THEN IF highest = 0 THEN StageFails ELSE StageUnwinds(highest - 1)
        ELSE IF Appendable(tx.canonical, rows)
        THEN \E reached \in imported \cup {highest} :
               /\ \A n \in imported : n <= reached
               /\ StageProgresses([tx EXCEPT !.canonical = Put(@, rows)],
                                  reached, TRUE)
        ELSE StageFails

UnwindHeaders(tables, to) ==
  [tables EXCEPT !.canonical = UpTo(@, to)]

-----------------------------------------------------------------------------
(* TotalGasIndex and TotalTxIndex *)

\* The rows from first on that extend a cumulative index up to last.
CumulativeRows(index, first, last) ==
  [n \in first .. last |->
     index[first - 1] \cup {tx.canonical[k] : k \in first .. n}]

ExecuteTotalGas ==
  LET first == tx.progress["TotalGasIndex"] + 1
      last == PreviousProgress
      rows == CumulativeRows(tx.totalGas, first, last)
  IN /\ Executing("TotalGasIndex")
     /\ IF last < first THEN StageProgresses(tx, last, TRUE)
        ELSE IF /\ first - 1 \in DOMAIN tx.totalGas
                /\ first .. last \subseteq DOMAIN tx.canonical
                /\ \A k \in first .. last, j \in DOMAIN tx.totalGas : j < k
        THEN StageProgresses([tx EXCEPT !.totalGas = Put(@, rows)], last, TRUE)
        ELSE StageFails

\* Mutant: the index keeps the rows of the blocks that are unwound.
UnwindTotalGasKept(tables, to) == tables

UnwindTotalGas(tables, to) == [tables EXCEPT !.totalGas = UpTo(@, to)]

ExecuteTotalTx ==
  LET first == tx.progress["TotalTxIndex"] + 1
      last == PreviousProgress
      rows == CumulativeRows(tx.totalTx, first, last)
  IN /\ Executing("TotalTxIndex")
     /\ IF last < first THEN StageProgresses(tx, last, TRUE)
        ELSE IF /\ first - 1 \in DOMAIN tx.totalTx
                /\ \A k \in first .. last :
                     /\ k \in DOMAIN tx.canonical /\ k \in DOMAIN tx.body
                     /\ tx.body[k].hash = tx.canonical[k]
                     /\ \A j \in DOMAIN tx.totalTx : j < k
        THEN StageProgresses([tx EXCEPT !.totalTx = Put(@, rows)], last, TRUE)
        ELSE StageFails

UnwindTotalTx(tables, to) == [tables EXCEPT !.totalTx = UpTo(@, to)]

-----------------------------------------------------------------------------
(* BlockHashes *)

\* The stage takes every canonical header above its own progress, whatever
\* the stage before it reported.
ExecuteBlockHashes ==
  LET highest == tx.progress["BlockHashes"]
      added == {n \in DOMAIN tx.canonical : n > highest}
      rows == [h \in {tx.canonical[n] : n \in added} |->
                 CHOOSE n \in added : tx.canonical[n] = h]
  IN /\ Executing("BlockHashes")
     /\ \E reached \in added \cup {highest} :
          /\ \A n \in added : n <= reached
          /\ StageProgresses([tx EXCEPT !.headerNumber = Put(@, rows),
                                        !.overshot = @ \ DOMAIN rows],
                             reached, TRUE)

\* walk_back over CanonicalHeader, which deletes the hashes from the last one
\* on: what is left of HeaderNumber when it has come to block n.
HashesLeft(tables) ==
  LET left[n \in 0 .. MaxHeight + 1] ==
        IF n \notin DOMAIN tables.canonical
        THEN IF n = MaxHeight + 1 THEN tables.headerNumber ELSE left[n + 1]
        ELSE SeekDelete(left[n + 1], tables.canonical[n])
  IN left

\* The walk goes on as long as the block is above the unwind point.
UnwindBlockHashes(tables, to) ==
  LET left == HashesLeft(tables)[to + 1]
      asked == {tables.canonical[n] : n \in {n \in DOMAIN tables.canonical : n > to}}
  IN [tables EXCEPT !.headerNumber = left,
                    !.overshot = (@ \cup (DOMAIN tables.headerNumber
                                           \ DOMAIN left)) \ asked]

-----------------------------------------------------------------------------
(* ConvertBodies *)

\* base_tx_id counts on from the body of block highest: the first id after the
\* transactions of block n.
NextIds(highest) ==
  LET nextId[n \in Height] ==
        IF n <= highest THEN tx.body[highest].base + tx.body[highest].amount
        ELSE nextId[n - 1] + TxAmount[tx.canonical[n]]
  IN nextId

\* The bodies of the canonical blocks above the stage's progress, as far as
\* Erigon has them (which is up to Erigon).  With done = FALSE the stage has
\* run longer than commit_after.
ExecuteBodies ==
  LET highest == tx.progress["Bodies"]
      nextId == NextIds(highest)
  IN /\ Executing("Bodies")
     /\ IF LeftChain(highest)
        THEN IF highest = 0 THEN StageFails ELSE StageUnwinds(highest - 1)
        ELSE IF /\ highest \in DOMAIN tx.canonical
                /\ highest \in DOMAIN tx.body
                /\ tx.body[highest].hash = tx.canonical[highest]
        THEN \E reached \in {n \in DOMAIN tx.canonical : n >= highest},
                done \in BOOLEAN :
               LET bodies == [n \in highest + 1 .. reached |->
                                [hash   |-> tx.canonical[n],
                                 base   |-> nextId[n - 1],
                                 amount |-> TxAmount[tx.canonical[n]]]]
                   txs == [i \in nextId[highest] .. nextId[reached] - 1 |->
                             tx.canonical[CHOOSE n \in highest + 1 .. reached :
                               i \in nextId[n - 1] .. nextId[n] - 1]]
               IN /\ done \/ reached > highest
                  /\ IF Appendable(tx.body, bodies)
                        /\ Appendable(tx.blockTx, txs)
                     THEN StageProgresses(
                            [tx EXCEPT !.body = Put(@, bodies),
                                       !.blockTx = Put(@, txs)],
                            reached, done)
                     ELSE StageFails
        ELSE StageFails

\* The rows of BlockTransaction are contiguous, so that seek(base_tx_id + k)
\* finds that very row.
UnwindBodies(tables, to) ==
  LET ids == UNION {tables.body[n].base ..
                      tables.body[n].base + tables.body[n].amount - 1 :
                    n \in {n \in DOMAIN tables.body : n > to}}
  IN [tables EXCEPT !.body = UpTo(@, to),
                    !.blockTx = [i \in DOMAIN @ \ ids |-> @[i]]]

-----------------------------------------------------------------------------
(* SenderRecovery and FinishStage *)

\* The senders of the bodies above the stage's progress, up to the last one or
\* to the end of a batch when the stage has run for more than 30 s.
ExecuteSenders ==
  LET highest == tx.progress["SenderRecovery"]
      read == {n \in DOMAIN tx.body : n > highest}
  IN /\ Executing("SenderRecovery")
     /\ \E reached \in read \cup {highest}, done \in BOOLEAN :
          LET rows == [n \in {n \in read : n <= reached /\ tx.body[n].amount > 0}
                         |-> tx.body[n].hash]
          IN /\ done => \A n \in read : n <= reached
             /\ done \/ reached > highest
             /\ IF Appendable(tx.txSender, rows)
                THEN StageProgresses([tx EXCEPT !.txSender = Put(@, rows)],
                                     reached, done)
                ELSE StageFails

UnwindSenders(tables, to) == [tables EXCEPT !.txSender = UpTo(@, to)]

ExecuteFinish ==
  /\ Executing("Finish")
  /\ StageProgresses(tx, PreviousProgress, TRUE)

-----------------------------------------------------------------------------

\* What unwind() of each stage does to the tables.
Unwound(s, tables, to) ==
  CASE s = "Headers"        -> UnwindHeaders(tables, to)
    [] s = "TotalGasIndex"  -> UnwindTotalGas(tables, to)
    [] s = "BlockHashes"    -> UnwindBlockHashes(tables, to)
    [] s = "Bodies"         -> UnwindBodies(tables, to)
    [] s = "TotalTxIndex"   -> UnwindTotalTx(tables, to)
    [] s = "SenderRecovery" -> UnwindSenders(tables, to)
    [] s = "Finish"         -> tables

\* The order in which Unwind gets at = Len(Stages), ..., 1 to the stages.
UnwindOrder == Stages

\* One stage of the unwinding loop; the transaction is committed after the
\* last one.
Unwind ==
  LET s == UnwindOrder[at]
      new == IF tx.progress[s] > unwindTo
             THEN [Unwound(s, tx, unwindTo) EXCEPT !.progress[s] = unwindTo]
             ELSE tx
  IN /\ status = "running"
     /\ unwindTo # None
     /\ IF at = 1
        THEN db' = new /\ BeginRound(new)
        ELSE /\ tx' = new
             /\ at' = at - 1
             /\ UNCHANGED <<db, start, minProgress, unwindTo>>
     /\ UNCHANGED <<erigon, status, maxBlock>>

Init ==
  /\ db = GenesisTables
  /\ tx = GenesisTables
  /\ at = 1
  /\ start = 0
  /\ unwindTo = None
  /\ minProgress = None
  /\ erigon \in [branch : Branches, top : Height]
  /\ status = "running"
  /\ maxBlock \in ToBlocks

Execute ==
  \/ ExecuteHeaders
  \/ ExecuteTotalGas
  \/ ExecuteBlockHashes
  \/ ExecuteBodies
  \/ ExecuteTotalTx
  \/ ExecuteSenders
  \/ ExecuteFinish
  \/ EndRound

Next ==
  \/ Execute
  \/ Unwind
  \/ Crash
  \/ ErigonMoves

Spec == Init /\ [][Next]_vars

\* run() never waits for anything but its own stages: each round goes on.
FairSpec == Spec /\ WF_vars(Execute) /\ WF_vars(Unwind)

-----------------------------------------------------------------------------
(* Properties *)

\* The tables as they are: an index over the blocks 0 .. n of the canonical
\* chain for each stage that has progress n.
HeadersMatch(t) ==
  /\ DOMAIN t.canonical = 0 .. t.progress["Headers"]
  /\ \E b \in Branches : \A n \in DOMAIN t.canonical :
       t.canonical[n] = Tree[b][n]

CumulativeMatch(t, index, n) ==
  /\ DOMAIN index = 0 .. n
  /\ \A m \in 0 .. n : index[m] = {t.canonical[k] : k \in 1 .. m}

BodiesMatch(t) ==
  /\ DOMAIN t.body = 0 .. t.progress["Bodies"]
  /\ \A n \in DOMAIN t.body :
       /\ t.body[n].hash = t.canonical[n]
       /\ n > 0 => t.body[n].base = t.body[n - 1].base + t.body[n - 1].amount
       /\ \A i \in t.body[n].base .. t.body[n].base + t.body[n].amount - 1 :
            Lookup(t.blockTx, i) = t.body[n].hash
  /\ LET last == t.body[t.progress["Bodies"]]
     IN DOMAIN t.blockTx = 0 .. last.base + last.amount - 1

SendersMatch(t) ==
  /\ DOMAIN t.txSender = {n \in 1 .. t.progress["SenderRecovery"] :
                            TxAmount[t.canonical[n]] > 0}
  /\ \A n \in DOMAIN t.txSender : t.txSender[n] = t.canonical[n]

\* HeaderNumber maps the hashes of the canonical blocks up to the stage's
\* progress and no others; except for the hashes that an unwind deleted in
\* place of one the stage had not come to add.
HashesMatch(t) ==
  LET canonical == {t.canonical[n] : n \in 0 .. t.progress["BlockHashes"]}
  IN /\ DOMAIN t.headerNumber \subseteq canonical
     /\ canonical \ DOMAIN t.headerNumber \subseteq t.overshot
     /\ \A h \in DOMAIN t.headerNumber : t.canonical[t.headerNumber[h]] = h

\* No stage is ahead of the one it reads from.
StagesInOrder(t) ==
  \A k \in DOMAIN Stages \ {1} :
    t.progress[Stages[k]] <= t.progress[Stages[k - 1]]

\* Whatever is committed, in the middle of a round, after an unwind or before
\* a crash, is consistent: each table covers the blocks up to its stage's
\* progress, and only these, with the data of the canonical chain, and no
\* stage is ahead of the one before it.
CommittedConsistent ==
  /\ HeadersMatch(db)
  /\ CumulativeMatch(db, db.totalGas, db.progress["TotalGasIndex"])
  /\ BodiesMatch(db)
  /\ CumulativeMatch(db, db.totalTx, db.progress["TotalTxIndex"])
  /\ SendersMatch(db)
  /\ HashesMatch(db)
  /\ StagesInOrder(db)

\* No legal sequence of imports, reorganisations, unwinds and crashes leads a
\* stage to an append that MDBX refuses or to a row it expects and misses.
NoStageFails == status # "failed"

\* From some moment on every step is one of run(): there is no crash and
\* Erigon stays where it is.
Quiet == <>[][Execute \/ Unwind]_vars

Reached == \A s \in StageId : maxBlock = None \/ db.progress[s] >= maxBlock

ReturnedReached == status = "returned" => maxBlock # None /\ Reached

\* run() returns only when every stage has committed max_block, and if all
\* stages stay there it notices: a stage that needed several invocations
\* lowers minimum_progress, but only in that round.
ReturnsOnceReached ==
  /\ []ReturnedReached
  /\ (maxBlock # None /\ Quiet /\ <>[]Reached) => <>(status = "returned")

\* Once Erigon and the machine are quiet, a node without max_block leaves any
\* chain it was on and follows Erigon's up to its head.
FollowsErigon ==
  (maxBlock = None /\ Quiet)
    => <>[](db.canonical = [n \in 0 .. erigon.top |-> Tree[erigon.branch][n]])
=============================================================================
