# Akula in TLA+

A verification project for Akula, a staged-sync Ethereum node in Rust. The
modules model the node's own logic, TLC checks them on small instances, and TLAPS
proves the safety of the header downloader's pipeline, of the staged sync loop, of
the choice of the canonical chain, of the sentry reactor and of the remote database
for every size.
Paths below are relative to the repository's root.

## 1. The system

Akula runs one loop, `StagedSync::run`, which executes a list of stages in order
inside one MDBX write transaction, commits, and starts again; when a stage asks
for it, the loop unwinds all stages in reverse order. The first stages bring the
chain in, either from peers (`HeaderDownload`) or from an Erigon database
(`ConvertHeaders`, `ConvertBodies`); the later ones index and execute it.

| Component | State | Operations | Interacts with |
|---|---|---|---|
| Staged sync loop (`src/stagedsync`) | open transaction, committed tables, progress per stage, `unwind_to`, `minimum_progress` | execute, re-invoke, commit, unwind, return | every stage, database |
| Erigon import (`bin/akula.rs`) | CanonicalHeader, Header, HeadersTotalDifficulty, BlockBody, BlockTransaction | append what Erigon has; ask for an unwind when Erigon has left the chain | Erigon's database, which changes at any time |
| Index stages (`src/stages/{total_gas_index,total_tx_index,block_hashes,sender_recovery}.rs`) | TotalGas, TotalTx, HeaderNumber, TxSender | execute, unwind | tables of earlier stages |
| Header downloader, window (`headers/header_slices.rs`) | deque of slices with a status each, counters, watch channels, `max_block_num` | set status, remove, refill, notify | all downloader stages |
| Header downloader, stages (`headers_downloader/stages`) | each stage's wait point, pending requests, last verified header, remaining counts | request, receive, retry, verify, link, penalize, save, refill, estimate, (forky) extend, fork mode, fork switch | window, sentry reactor, database |
| Header downloader, phases (`downloader_{preverified,linear,forky}.rs`) | the window and stages of one phase | run a stage loop to its end, report the final block | HeaderDownload stage |
| Sentry reactor and connector (`src/sentry/sentry_client_{reactor,connector}.rs`, `downloader/sentry_status_provider.rs`) | send queue, broadcast channels, stream map, connector stream, status | send, penalize, subscribe, connect again, stop | sentry process over gRPC |
| Execution and state (`src/stages/execution.rs`, `src/state`, `src/execution`) | plain state, change sets, journal of the current block | execute a batch, revert, write history, unwind | tables, EVM |
| State commitment (`src/stages/{hashstate,interhashes}.rs`, `src/trie`) | hashed state, intermediate trie nodes | promote, regenerate or increment, unwind | change sets |
| Call trace and lookup indexes (`call_trace_index.rs`, `tx_lookup.rs`, `src/bitmapdb`) | chunked bitmaps, hash to number tables | collect, load, truncate on unwind | etl collector |
| Consensus (`src/consensus`) | headers, canonical hashes, bad blocks, in-memory state | validate, execute a branch, reorganise or restore | state |
| Remote database (`src/kv/{remote,server}.rs`) | one bidirectional gRPC stream, a mutex around it, the server's cursors | open, operate on a cursor, close, drop | read transaction of the database |
| Key-value layer, accessors, models, RPC | - | cursors, encodings | all |

What is hard to test in it: stages that interleave at awaits and wake each other
through watch channels; answers of peers that come late, twice or cut short;
state read before an await and used after it; commits in the middle of a round
followed by a crash; reorganisations between two stages of one round; unwinding
code that must be the exact inverse of what several rounds have written.
`PROJECT.json` lists these hazards at their lines, with the properties aimed at
each.

What makes each component correct:

* downloader phase: counters agree with statuses; nothing is saved before it is
  verified and linked to what precedes it; the reported block covers saved
  headers only; the loop ends when the range is done and not before; the stages
  never all sleep;
* staged sync: each commit is a state from which the next start can carry on;
  unwinding leaves exactly the blocks up to the unwind point; the node ends up
  on the chain it imports from; `run` returns when it should;
* forky phase: the canonical table is one chain through any fork switch, and
  what the window believes to be saved is in the database;
* reactor: a command is sent once and in order, or lost for a failure; a lost
  connection is made again with a status that is not stale; a subscriber either gets
  messages or learns that none will come;
* block execution: a failed message leaves nothing behind; no ether is made; what is
  written is what the transactions saw, and the change sets lead back;
* state history: history written and unwound is the state before; the incremental
  root is the root from scratch;
* consensus: the state is that of the canonical chain, which is the heaviest;
* indexes: what is found is what was executed, through unwinds;
* remote database: an answer belongs to its question, and nobody waits for ever.

## 2. Modules

| Module | What it is |
|---|---|
| `HeaderPipeline` | preverified and linear phase of the header downloader |
| `HeaderChain` | what a phase promises: an append-only linked chain and a progress over it |
| `HeaderPipelineProofs` | theorems about `HeaderPipeline`, and that it implements `HeaderChain` |
| `StagedSync`, `StagedSyncProofs` | the staged sync loop with the Erigon import and index stages, and theorems about it |
| `StateHistory`, `StateHistoryProofs` | Execution with its Buffer, HashState and Interhashes: state, history, hashed copy, state root; and theorems about them |
| `HeaderFork` | forky phase of the header downloader under the HeaderDownload stage and its transaction |
| `SentryReactor`, `SentryReactorProofs` | the sentry client's event loop with its connector, and theorems about it |
| `BlockExecution`, `BlockExecutionProofs` | ExecutionProcessor, the EVM host, IntraBlockState and InMemoryState for a block; and theorems about them, among them that they implement `Rollback` |
| `Rollback` | what nested execution promises: a failed message leaves the world it started from |
| `Consensus` | header rules: base fee, difficulty, gas limit, ommer reward |
| `Chain` | `Blockchain::insert_block` |
| `ForkChoice` | what it promises: the heaviest accepted block, the first of several |
| `ChainProofs` | theorems about `Chain`, and that it implements `ForkChoice` |
| `NatLemmas` | induction over numbers, trees and finite sets, sums over a set, and integer division, for the proofs |
| `Indexes` | CallTraceIndex with bitmapdb and the ETL collector, TxLookup |
| `RemoteKv`, `RemoteKvProofs` | RemoteTransaction, RemoteCursor and KvServer::tx, and theorems about them |
| `MC...` | instances for TLC |

Definitions marked `Mutant` are alternative forms of the definition that follows
them, each with a plausible mistake. Nothing refers to them; `PROJECT.json` pairs
each with the property that rejects it.

### HeaderPipeline

*State.* `slices`, `maxNum` and `count` are the fields of `HeaderSlices`; `watch`
is the value last sent on each watch channel; `requestPc`, `retryPc`, `verifying`,
`penalizePc`/`badPeers` say at which await a stage is suspended and what it holds
there; `linkTip`, `linkRemaining`, `saveRemaining` are fields of the stages;
`reactorUp` and `streamsUp` say whether the reactor's event loop lives and whether
its message streams have ended, which are different things: when the sentry ends
its stream, requests still succeed; `db` is what has been saved.

*Actions.* All stages are streams of one `StreamMap` polled by one task, so an
action is the stretch of a stage between two awaits that really suspend: for a
counter, for room in the send queue, for a message, for a timer, for verification
tasks. Each action ends with what the loop does when `execute()` returns
(`StageDone`: check for the end, notify the watchers), fails (`StageFailed`) or
yields (`StageYields`). MDBX is synchronous, so `SaveStage` never suspends.

*Waiting.* `wait_while` looks at the counter when it is first polled and at the
channel afterwards. The model lets a stage start in both cases (`MayStart`), which
allows more than the code for a stage that is already asleep; fairness is claimed
only for a stage that has really been woken (`Woken`), so that liveness does not
profit from it.

*Data.* A slice's headers are a record: the branch its first header hangs from,
the branch of its last header, whether it is consistent inside and how many
headers it holds. `full` is `HEADER_SLICE_SIZE` headers in the linear phase and one
more in the preverified phase, whose request includes the first header of the next
slice; `long` is an answer that goes on to the first header of a later slice, of
which `verify_slice` compares the first and the last header only. Any answer in
`Contents` may come for any slice at any time. `collected` is a ghost: the slices
whose peers `PenalizeStage` has collected before its await.

*Left out.* Block numbers inside a slice, request ids, attempts and timeouts (a
Waiting slice may expire in any round of `RetryStage`), hashes and difficulties,
logging. The phase's transaction is the one of the staged sync loop: `db` is what
that transaction sees.

### StagedSync

*State.* `db` is committed, `tx` is what the open transaction sees; `at` is the
stage to be executed or unwound next, `start` its `start_progress`, `unwindTo` and
`minProgress` are the loop's local variables; `erigon` is the chain Erigon is on.

*Actions.* One per stage's `execute()`, with all that `run` does with its result:
save the progress, commit if far enough, go on, or drop the transaction and start
unwinding. `Unwind` is one stage of the unwinding loop, `EndRound` the commit and
the test for `max_block`. `Crash` takes `tx` back to `db` and restarts the loop;
`ErigonMoves` puts Erigon on any chain of the tree. An append to a table whose last
key is not smaller, a missing row that is unwrapped, and an unwind past the
genesis block all lead to the status `failed`.

*Data.* A header is its hash, a number, because HeaderNumber is ordered by hash and
`seek` depends on that order. Header and HeadersTotalDifficulty are written and
removed together with CanonicalHeader and one table stands for them. A cumulative
sum is the set of headers it sums over, so that two different sums never agree by
accident. `ConvertBodies` may stop before the last header (Erigon has no more
bodies) or report `done = false` (it ran longer than `commit_after`);
`SenderRecovery` likewise.

*Left out.* Execution and the stages after it (`StateHistory`), so `FinishStage`
follows `SenderRecovery`; `delay_after_sync`; uncles and the contents of transactions.

### StateHistory

*State.* `db` holds the tables (Account, Storage, the two change sets, the blocks
with rows in Log and CallTraceSet, HashedAccount, HashedStorage, TrieAccount,
TrieStorage); `buf` is the `Buffer` of the current batch, `cur` the block it has
got to; `progress` is SyncStage; `stage` is where the round is. `world` is a ghost:
`world[n]` is the state after block n, for every block up to `cur`.

*Actions.* `ExecuteBlock` is one turn of the loop of `execute_batch_of_blocks`:
write the block into the buffer, the call traces into the table, perhaps
`write_history`, perhaps `write_to_db` and the end of the batch.
`ExecuteHashState` and `ExecuteInterhashes` choose freely between the way from
scratch and the incremental one, except at genesis, where the code has no choice
either. `Unwind` is the unwinding of the three stages, in reverse order and each
only if it is above the unwind point; the rows of the account change set are put
back one by one, from the last block and address down (`PutBack`, `PutBackBlock`,
`UnwindAccounts`), because each `seek` meets the table as the later rows left it.
`Restart` drops what an unfinished batch has
written; it is also how HashState gets behind Execution. A wrong root and an append
below the last key of a table set `failed`.

*Data.* What a block does to an address is the object `IntraBlockState::write_to_db`
finds, one of ten kinds (`Effects`): update, an absent account that is paid, creation,
destruction, destruction and revival by a payment, absence before and after (an empty
account that was touched), a payment or a creation where a contract was destructed
earlier, and two kinds of destruction and creation in one block. Addresses are numbers because `seek` depends
on their order; the order of the hashed addresses is another one. A remembered
trie hash is what it hashes: the leaf of an account with its storage, and for each
`Slot` the content of one branch of the storage trie. An account or branch is taken
from the trie tables if the change sets do not mention it, as if its neighbours
under the same branch do not change either.

*Left out.* Code (content addressed, only added to), gas, the cursor over nibble
paths and the hash builder. No stage of this repository fills AccountHistory and
StorageHistory; `AccountAt` and `StorageAt` take the index they would hold.

### HeaderFork

*State.* `main` and `fork` are the two `HeaderSlices`, `mode`, `command` and
`verifying` the state of VerifyLinkForkyStage, the pending termination command and
the await of VerifySlicesStage; `run` says whether the stage loop runs, has
reported, waits for an unwind, or has stopped; `tx` and `db` are the tables as the
transaction and as the next start see them. `answers` is what peers may say for each
position; it does not change. Three ghosts name what the code does not keep together:
`lost` is the number of the first block of which tables and windows may say different
things, because a transaction that had written it was dropped and the windows kept, or
because the process ended between an unwind and the rest of a fork switch; `early` are
the headers of fork slices that a switch found Saved above one that was not; `stale`
says that a good verdict was applied to headers that it was not about and that are not
consistent.

*Actions.* Fetching, verification (two steps on the main window, because the
continuation slice may be reset during its await), penalizing, both ways of saving,
extending, and `LinkLinear` and `LinkFork` for VerifyLinkForkyStage with ForkMode:
setting up a fork, growing it downwards, finding the connection, and leaving a
command to switch if the fork is heavier or dropping it if it is not.
`Execute`, `Commit`, `Unwind` are what the sync loop does with the stage; the command
is executed at the start of the next `Execute`. `Timeout` ends a run at any moment
and `Restart` loses all memory. Fetching is coarse here: `HeaderPipeline` has it in
detail.

*Progress.* `DownloaderPreverified::run` aligns the first block down to a slice and
returns it as its final block also when it loads nothing (`downloader_preverified.rs:57`,
`:68`); the linear phase hands it on, and the forky phase counts from it. After an
unwind to the middle of a slice the first block of the phase is therefore at or below
the progress (`ProgressStart`), and a run that ends before that slice is Saved again
reports less than it started from (`DownloadedEnd`). `TablesMatch` holds all the same,
because it speaks of what is below the progress; that `TotalGasIndex` may then be ahead
of the stage before it is not modelled.

### SentryReactor

*State.* `loop`, `streams`, `held`: the event loop, its `StreamMap` and
`sentry_stream_holder`; `connector`, `attempt`, `announced`, `status`: the connector
stream, the status it connects with, announced and provided; `queue`, `sending`,
`closed`: the send queue; `senders`, `arrived`, `subs`: the broadcast channels and
the streams of subscribers.

*Actions.* One per arm of the loop's `match` and per thing the streams do meanwhile;
callers send, subscribe, read, stop and update the status. `Break` is the
connection's end. The loop's variables are dropped in an order that callers can see
(`Close`, then `DropSenders`). A lagging subscriber loses the oldest messages.

### BlockExecution and Rollback

*State.* `ibs` is an IntraBlockState with objects, storage, journal and substate;
`stack` the messages that wait for the interpreter, each with its snapshot; `db`
InMemoryState with the change sets of the last block.

*Actions.* `BeginTransaction` validates and buys gas; `HandleMessage` is `Evm::call`
or `create` up to the interpreter; `Host` is any host call of the interpreter, which
is another crate and may ask for anything; `CompleteCall` and `CompleteCreate` end a
message; `FinishTransaction` refunds, pays and destructs; `EndBlock` rewards and
writes; `UnwindBlock` takes the block back. Gas and fees have real values; what a
computation costs is not modelled, so a message may end in any way at any time.

`RevertsExactly` is a refinement: mapped to the world (accounts, storage, original
values, substate) and to what each outer message would be reverted to, execution
implements `Rollback`.

### Consensus, Chain and ForkChoice

`InsertBlock` is the whole of `insert_block`: pre-validation with ommers, the
canonical ancestor, unwinding, execution of the branch, and either the new canonical
chain or marking a bad block and executing the old chain again. The state is the list
of blocks whose changes it holds, the change set of a block the state before it -
which is what `BlockExecution` establishes. Whether a block executes and has the
right root is part of the offered block. Every order of offering, and offering a
block again, is a behaviour. `ChoosesHeaviest` is the refinement of `ForkChoice`.

`RulesKept` says what the header rules are there for. That the base fee moves by an
eighth at most is true only for even gas limits: the target is half the limit rounded
down, so a full block with an odd limit has used one more than twice the target, and
the fee rises by an eighth of itself and of what that one adds (`excess` in
`BaseFeeMoves`).

### Indexes

Bodies arrive, Execution leaves call traces, `ExecuteCallTraces` collects bitmaps,
flushes them through the sorted runs of the collector and merges them into chunks;
`ExecuteTxLookup` does the same for hashes. `AskUnwind` and `UnwindStage` take the
stages back in reverse order; `Restart` ends a round before its last stage. An
encoded block number of `BlockTransactionLookup` keeps its trimmed bytes, in base
`Radix`. `shadowed` and `overshot` are ghosts for the exceptions of section 4.

### RemoteKv

Tasks share one transaction: `Lock`, `Send`, `Receive`, with a closing process for
every dropped cursor; the server's task begins, serves one request, replies. `Cancel`
drops an operation at an await, `Break` the connection. An answer is the cursor and
the operations it has executed, so a wrong one can be told.

An error status is sent in the place of a reply and ends the response stream only
(`failed`): the server's task goes on to receive and serve requests, whose replies
nobody reads, and keeps its read transaction until the client has dropped its side or
the connection is lost (`broken`). The client's requests are still accepted, and each
`message()` fails once the replies before the status are read. `dropped` counts the
operations that were dropped between request and reply.

## 3. What TLC checks

| Run | Instance | Distinct states | Shows |
|---|---|---|---|
| `linear` | 3 slices, window of 2, 1 verification task, four kinds of answers, fairness | 104,178 | `CountersMatch`, `VerdictsFresh`, `LoopEndsWhenDone`; the pipeline implements `HeaderChain`; `PhaseCompletes` |
| `preverified` | the same with 2 tasks, 2 peers, answers cut short and too long ones | 1,462,028 | `ReportedIsSaved`, `SavedSlicesComplete`, `PenalizedBeforeRefetch` |
| `sync` | 3 blocks, 3 chains that fork after 0 and after 1, a commit every 2 blocks, with and without `max_block`, fairness | 167,148 | `CommittedConsistent`, `NoStageFails`, `FollowsErigon`, `ReturnsOnceReached` |
| `history` | 3 blocks, 1 address with 2 slots, 1 unwind, 1 restart | 40,209 | `ReadsCurrentState`, `HistoryReadable`, `HashedFollows`, `AppendsSucceed` |
| `roots` | 3 blocks, 2 addresses, 1 unwind, no account comes back where a contract was destructed | 248,410 | `RootsAgree` |
| `dead` | 2 blocks, 2 addresses, 1 unwind, touched empty accounts | - | `HistoryReadable` is violated |
| `execution` | 4 addresses, 1 slot, London rules, 2 transactions, 3 host calls, nesting of 2 | about 70,000 | `RevertsExactly`, `EtherNotCreated`, `NoUnderflow`, `OriginalAsAtStart`, `WritesExactly` |
| `chain` | all trees of 4 blocks with two weights and one invalid block, and trees for the header and ommer rules | 92,499 | `StateIsCanonical`, `ChoosesHeaviest`, `OnlyBadIsBad`, `RulesKept` |
| `fork` | slices of 2, window of 3, positions 1 to 4, 6 networks, 1 restart in all but the deepest | 364,843 | `StopsKnown`, `WindowLinked`, `TablesMatch`, `NeverLighter` |
| `sentry` | 2 subscribers, channels of 1, 2 commands, messages and failures, 1 status update, fairness | 231,180 | `DiesKnown`, `CommandsSurvive`, `StatusFresh`, `SubscribersUnblocked`, `Reconnects` |
| `index` | 4 blocks, 2 addresses, chunks of 2, a flush every 2 blocks, 2 unwinds | 760,632 | `CallIndexExact`, `LookupExact` |
| `remote` | 2 tasks, 3 operations, buffers of 1, fairness | 60,616 | `OneInFlight`, `OwnAnswers`, `OperationsEnd` |

*Bounds.* Three slices with a window of two make the window move twice, leave a
slice outside it, and let a later slice overtake an earlier one in every status.
One task makes the verifier take several batches; two make it verify a batch. Three
blocks on three chains give reorganisations of depth 1 to 3, with a fork right
after the genesis block; a commit every two blocks makes both commits in the middle
of a round and uncommitted work happen; the hashes are not in the order of the
block numbers. Blocks of 0, 1 and 2 transactions occur.

In `StateHistory` three blocks are what it takes for a slot to be written, erased
and written again with a batch or a history write after any of them, and for an
unwind to stop between two blocks that HashState has promoted; two slots let an
erased storage be partly in the overlay and partly in the table; two addresses are
enough for `seek` to find the wrong one. A block affects at most one address: the
Buffer treats each by itself. `history` has one address and restarts, so HashState
lags behind Execution when the unwind comes; `roots` has two addresses and whole
rounds.

In `HeaderFork` a window of three is the smallest in which a switch can be executed,
and four positions are needed for the window to be trimmed under it; the networks
have a branch that leaves in the middle of a slice, one that never meets the
canonical one, an answer cut short and inconsistent answers. After a restart the
tables multiply what can happen, so the deepest network is checked without one and
its parts with one. In `SentryReactor` channels of one place make a subscriber lag,
two failures make a second disconnect happen after a reconnection. In
`BlockExecution` three host calls in two nested messages allow a change, its revert
and a later read; a sender, a contract, an absent address and the precompiled
contract with the exceptional touch are the kinds of account the code tells apart.
Four blocks make every shape of a reorganisation up to three against one, and back.
In `Indexes` four blocks fill a chunk of two and start another; unwinds hit either.
Two tasks and their closing processes are four contenders for the lock. Three
operations let a cursor be opened, moved and closed beside another one, and dropped
half-way at every await; moves of two cursors take more, and are left to the theorems.
The exception `Clogged` of `OperationsEnd` takes more too: TLC finds that it is needed
with one task and four operations.

What the ghosts `lost`, `early` and `stale` of `HeaderFork` and the slots `Rewritten` of
`BlockExecution` excuse happens in these instances.

*Deadlock* is checked in `roots`, `index` and `dead`. The other runs may stop for
good: the downloader's loop ends, `run` returns at `max_block`, a wrong root or a
panic stops the process, and the bounds on blocks, commands, operations and failures
leave nothing to do.

*Fairness.* Downloader: `StreamMap` polls its streams from a random position, so a
stage that has been woken, whose timer fired, whose tasks ended or whose queue slot
is free is resumed (weak fairness of each of these). The reactor drains the send
queue, so requests do not find it full each time (strong fairness of a request that
sends). A slice that stays Waiting expires in some round of `RetryStage` (strong
fairness, per slice). That peers answer is not assumed but a premise inside
`PhaseCompletes`: no stream ends, and a slice that is requested over and over gets
an honest answer over and over. Staged sync: `run` waits only for its own stages
(weak fairness of executing and of unwinding); that crashes and Erigon's moves come
to an end is the premise `Quiet`. Reactor: the event loop, the connector and the
subscribers are tasks that tokio polls (weak fairness of each); `Connect` is fair
because `connect` retries for ever, under the premise that the sentry comes back.
Remote database: the server and the tasks run (weak fairness), and tokio's mutex is
first come, first served (strong fairness of `Lock`).

## 4. Where the code departs from what one expects

One run shows a disagreement between the code and its own comments:

* `dead`: `update_account` records accounts that were absent before and after the
  block, and `Execution::unwind` deletes with `seek` the account that comes next
  (`execution.rs:266`), while `write_to_db` uses `seek_exact`; the comment at
  `buffer.rs:214` says the change sets restore the beginning of the block.

Other cases are known exceptions. They are reachable in the passing runs, and the
property says exactly what is still guaranteed when one of them happens:

| Where | What happens | Exception in |
|---|---|---|
| `verify_preverified_stage.rs:130` | an answer of one header passes the check of first and last hash, and is saved in place of the slice | `SavedSlicesComplete` |
| `verify_preverified_stage.rs:130` | an answer of several slices passes it too and is saved in place of one | `SavedSlicesComplete` |
| `penalize_stage.rs:45` | a slice that becomes Invalid while the peers are being reported is requested again, its peer not reported | `PenalizedBeforeRefetch` |
| `block_hashes.rs:80` | `unwind` uses `seek` where it needs `seek_exact` and deletes the entry of another block (ghost `overshot`) | `CommittedConsistent` |
| `fork_mode_stage.rs:191` | the continuation slice is reset while its verdict is being computed, and the verdict lets in headers that do not link (ghost `stale`) | `WindowLinked`, `TablesMatch` |
| `stagedsync/mod.rs:281` | the windows keep slices Saved whose transaction was dropped: nothing is said of blocks from there on (ghost `lost`) | `TablesMatch`, `StopsKnown` |
| `downloader_forky.rs:288` | trimming clears the fork that a pending command will read; the switch panics | `StopsKnown` |
| `save_stage.rs:195` | after a switch, headers of a fork slice saved above one that was not, and what is built on them, never get a total difficulty (ghost `early`) | `TablesMatch` |
| `sentry_client_reactor.rs:371`, `:468` | a failure to subscribe ends the loop; so does a message after the end of an earlier stream, which has cleared the senders for good | `DiesKnown`, `Reconnects` |
| `sentry_client_connector.rs:78` | an error that is not a lost connection ends the connector stream | `DiesKnown`, `Reconnects` |
| `in_memory_state.rs:332` | for a contract destructed and created again in one block the change set loses what the erasure recorded of the slots that it writes | `WritesExactly` |
| `consensus/blockchain.rs:241` | inserting a block that is already canonical underflows | `StateIsCanonical` |
| `models/block.rs:57` | a sender that cannot be recovered panics | `StateIsCanonical` |
| `call_trace_index.rs:259` | unwinding writes what is left of several chunks over each other (ghost `shadowed`) | `CallIndexExact` |
| `tx_lookup.rs:124` | `unwind` uses `seek` and may delete another hash (ghost `overshot`) | `LookupExact` |
| `kv/remote.rs:141` | an operation dropped before its reply leaves the reply to the next one (ghost `dropped`) | `OneInFlight` counts it, `OwnAnswers`; `OperationsEnd` if enough of them fill both directions |
| `kv/server.rs:76` | an error status does not end the server's task; its read transaction stays until the client drops its side | `OperationsEnd` |

Five cases are left out of the passing instances that check the property concerned:

* `HashState::unwind` undoes rows of blocks it has not promoted, again with `seek`
  (`hashstate.rs:224`): two addresses and a restart violate `HashedFollows`;
* for a contract destructed and created again in one block (effect `recreate`),
  `update_storage` overwrites with zero what `erase_storage` recorded
  (`buffer.rs:274`): `HistoryReadable` is violated;
* if such a contract comes back as it was but without storage (`rebirth`), there is
  no account change and its leaf is not recalculated (`buffer.rs:232`): `RootsAgree`
  is violated;
* the TrieStorage rows of a destructed contract stay and are reused when a contract
  is created at its address in a later round (`again`, `intermediate_hashes.rs:380`):
  `RootsAgree` is violated;
* they are also reused when a later block only pays ether to that address (`payAgain`,
  `intermediate_hashes.rs:395`): `RootsAgree` is violated by a plain account.

Met while reading and outside the models: `--exit-after-sync` is stored and never
read (`stagedsync/mod.rs:64`); `headers_mem_limit` below one slice makes a window of
none (`header_slices.rs:494`); `TxLookup` never reports that it is done
(`tx_lookup.rs:79`) and `main` does not push it.

## 5. What is proved

All theorems hold for every value of the constants that the assumptions named below
allow, and the hypotheses where a theorem names some; none depends on the bounds of
section 3. Each inductive invariant was checked by TLC on the instance of its run
first.

### HeaderPipelineProofs

For every number of slices, window size, number of tasks, set of peers, of branches
and of answers, in both phases:

* `TypeCorrect`: `Spec => []TypeOK`;
* `CoreInvariant`: `Spec => []Core`, the inductive invariant;
* `CountersExact`, `WindowNeverSplit`, `ReportIsTrue`, `VerdictsNeverStale`,
  `LoopNeverStopsShort`: the invariants `CountersMatch`, `WindowContiguous`,
  `ReportedIsSaved`, `VerdictsFresh` and `LoopEndsWhenDone`;
* `LinksInvariant`: `Spec => []LinkInv`, and from it `SavedComplete`
  (`SavedSlicesComplete`), `ReportedBeforeRefetch` (the action property
  `PenalizedBeforeRefetch`) and `RefinesHeaderChain`: the pipeline implements
  `HeaderChain` under the refinement mapping of `ImplementsChain`.

Assumptions: `PhaseAssumption`, `SizeAssumption` (the window holds at least one
slice and no more than the phase has; the code computes the number from
`headers-mem-limit` and does not enforce the lower bound) and `DataAssumption`.

*Argument.* None of the invariants is inductive. That the window has no hole
needs that `remove(Saved)` takes slices from its front only; that needs that Saved
slices come before all others (`SavedFirst`), which `Save` preserves because it
takes a front of Verified slices after the Saved ones - up to `pending_count` of
them, which is all of them only if the counter is right (`CountersMatch`). What is
saved is then the blocks below the window and the Saved slices in it (`DbMatches`),
which gives `ReportedIsSaved`. That the loop does not end early needs, besides, that
a slice that is verified has headers (`HeadersPresent`), so that `Save` never fails,
and that `remaining_count` never exceeds the number of Verified slices some earlier
slice blocks (`RemainingBounded`): if it equals the counter, then some slice is not
Verified, and another stage can proceed. `Core` is the conjunction, with
`ReceiveOver` (a stage thinks its stream is over only if it is). The step lemma has
one case per action; actions that only change statuses share the lemma
`StatusStep`.

`LinkInv` adds what a slice that is *settled* - Verified, Saved or out of the window
- holds: in the preverified phase the headers with the hashes of its position, in the
linear phase headers that hang from the slice before, where the settled slices are a
front part of the phase and `linkTip` is the branch of the last of them. Most actions
settle nothing and share one lemma; the ones that do are the two verifications, and
`Save` and the refill, which change where the headers of a settled slice are found.
For `ReportedBeforeRefetch`, `CollectedKnown` says that while `PenalizeStage` waits in the
middle of its reports the slices it has collected stay Invalid, and the peer of each is
reported or still to be; what it resets besides became Invalid during the await.

### StagedSyncProofs

For every height, tree of chains, number of transactions, setting of `run` and order
of rounds, crashes, commits and reorganisations:

* `SyncInvariant`: `Spec => []SyncInv`, the inductive invariant;
* `CommitsAreConsistent` and `StagesNeverFail`: `CommittedConsistent` and
  `NoStageFails`;
* `ReturnsOnlyWhenReached`: `run` returns only when all stages have committed
  `max_block`, which is the safety part of `ReturnsOnceReached`.

Assumptions: `HeightAssumption` and `TreeAssumption` (a hash determines the number
and the ancestors of a block; the chains share the genesis block).

*Argument.* `SyncInv` says that the tables of the open transaction and the committed
ones are each `Consistent`: every table covers the blocks up to its stage's progress
with the data of the canonical chain, and no stage is ahead of the one before. That
is not inductive alone, because a stage reads rows of earlier ones: `CaughtUp` says
which stages have caught up when stage `at` runs, and `BelowUnwindPoint` which ones an
unwind has been through. Each stage has a lemma for `execute` and one for `unwind`.
The hard case is `ConvertHeaders` after a reorganisation in the middle of a round,
where the tables above the common ancestor belong to the other chain until the unwind
is over; then the walk back (`WalkExists`) ends at the last common block because a
hash determines its ancestors. `NextIds` is a recursive sum, reasoned about through
its defining equation (`SumExists`).

### ChainProofs

For every tree of blocks, weight, flaw and order of insertion, with and without
checked state roots:

* `ChainInvariant`: `Spec => []ChainInv`, the inductive invariant;
* `StateFollowsChain`, `BadAreInvalid`: `StateIsCanonical` and `OnlyBadIsBad`;
* `RefinesForkChoice`: `insert_block` implements `ForkChoice`;
* `RulesAreKept`: `RulesKept`, from `RulesInvariant`: what an accepted block has been
  checked for holds ever after.

Assumptions: `RuleAssumption` and `ChainAssumption` (hashes form no circle; numbers,
gas and fees are natural numbers; the genesis block keeps to its gas limit, which is
one that a header may have, and has a base fee if the fork is not after it).

*Argument.* The state that belongs to the first k blocks of a branch is a function of
the branch (`StateOf`). Unwinding leads from one such state to a lower one
(`Unwinds`); executing the rest of a branch leads to the state of the branch or to the
one below the first block that fails (`ExecutesChain`); and a branch and the canonical
chain are the same up to the canonical ancestor (`Ancestor`), so that they have that
state in common (`SharedState`). Executing the canonical chain again cannot fail
(`Restores`) because every known block has been executed once on the same state, which
is why `ChainInv` says that known blocks execute. `InsertOutcome` sums this up:
`insert_block` stops, rejects a block of an invalid branch and leaves everything else
as it was, or accepts it, and it is canonical exactly if it is heavier. Invariant and
refinement follow from the three outcomes alone.

For the ommers, an ommer of x stands beside the block i generations above x, so its
number is that of x less i (`OmmerBeside`). If two blocks of a branch had the same
ommer, the lower one would be among the blocks whose ommers are looked through for
the upper one; if an ommer were on the branch, it would be the very block beside which
it stands. `ExpectedFeeMoves` is the arithmetic of the base fee, and that the fee is
never zero an induction along the branch.

### StateHistoryProofs

For any number of addresses, slots, contents and blocks, any order of the hashed
addresses, any genesis accounts, and any place of batches, history writes, unwinds and
restarts:

* `BaseInvariant` and `HistoryAppends`: `AppendsSucceed`, for all blocks;
* `HistoryInvariant`, and from it `ReadsAreCurrent` (`ReadsCurrentState`) and
  `HistoryIsReadable` (`HistoryReadable`), under `HistoryEffects`;
* `HashInvariant`, and from it `HashedTablesFollow` (`HashedFollows`), under
  `HistoryEffects` and `NoHashLag`;
* `RootsAreRight` (`RootsAgree`), under `OnceEffects` and `NoHashLag`.

Assumptions: `SizesAssumption` (there is an address, a slot, a content) and
`HashRankAssumption` (the order of the hashed addresses is one). The three hypotheses
leave out the cases of section 4: `HistoryEffects` says that no contract is destructed
and created again with slots in one block and, unless there is only one address, that
no absent account is touched; `NoHashLag` that there is no restart or only one address;
`OnceEffects` that in a later block no account comes back where a contract was
destructed, neither by a creation nor by a payment, that in the same block only a payment
revives it, and that no absent account is touched.
That they are needed is what section 4 says; the run `dead` shows it of the second half
of `HistoryEffects`, and TLC finds the violations of section 4 when the effects are allowed. The instances of `history` and `roots` satisfy them.

*Argument.* `RowsExact` says of every executed block, whether its rows are still in the
buffer or already in the tables: a row holds the value before the block, and what has no
row has not changed. It is inductive together with `TablesAtExec` (the tables are the
state after the last batch) and `ReadsCurrentState`: `BlockAt` shows for each kind of
object that the row written is the value read, with erased and overlaid slots the hard
part. It needs `RowsInv`, which is also why appends succeed: what the buffer still
holds is above what the tables hold, and nothing is above the last executed block.
Unwinding then leads from the state of block h to that of block `to` (`UnwindAccountsIs`,
an induction over blocks, each an induction over addresses): a row that deletes an
account finds it, because the state after its block has it. Reading back and promoting
need only that the next row after m holds the value after m, and that without one nothing
has changed (`AccountSince`, `StorageSince`). For the root, `RootInv` adds that an account
that had storage and is gone stays gone (`WorldInv`), that without an account row the
storage has not changed either (`RecordedInv`), so that a leaf that is not visited is
right, and that a row of TrieStorage is absent, current, or of an account that is gone for
good (`TrieInv`).

### SentryReactorProofs, RemoteKvProofs

For any number of subscribers, message ids, commands, failures and status updates:

* `DiesAsKnown`: `Spec => []DiesKnown`. The invariant adds that the queue is closed
  whenever the loop no longer runs, so that a caller without a sender is told apart
  from one that races with `stop`, and that a running loop without senders has seen
  a message stream end;
* `StatusNeverOlder`: `Spec => []StatusFresh`. While a connection is in use the
  connector stream is out of the stream map and idle; what it is connecting with, or
  has ready, is not older than the end of the last connection;
* `CommandsAccounted`: `Spec => []CommandsSurvive`. The queue has one place, so that
  what waits in it was accepted last; what is being sent is older, what was sent
  older still; each failure adds at most one command to the lost ones.

For any number of tasks and operations and any buffers:

* `OneAtATime`: `Spec => []OneInFlight`. The invariant says that, as long as replies
  come, requests, replies and the server's own reply together are as many as operations
  were dropped half-way, and one more if the process that holds the lock awaits its
  reply (`LockHeld`, `Awaited`), and what is under way during opening;
* `AnswersAreOwn`: `Spec => []OwnAnswers`. On top of that, while nothing has been dropped
  what is under way is the request of the process that holds the lock or the answer to
  it, no two tasks have the same cursor, and every cursor at the server is held, being
  closed or awaited.

Their assumptions are `ReactorAssumption` (a channel holds at least one message),
`BufferAssumption` and `NoneAssumption`.

### BlockExecutionProofs

For any accounts, slots and values, any number of transactions, messages, nested to any
depth, and host calls, each with any outcome, and for every revision of the rules:

* `SnapshotsRevertible`: `Spec => []Revertible`, the inductive invariant of the journal;
* `ExecutionRevertsExactly`: `RevertsExactly`, the refinement of `Rollback`;
* `OriginalsRemembered`: `Spec => []Remembered`, and from it `OriginalsAsAtStart`
  (`OriginalAsAtStart`);
* `BlockFunded`: `Spec => [](Revertible /\ Remembered /\ Funded /\ Metered)`, and from it
  `NothingUnderflows` (`NoUnderflow`) and `EtherOnlyBurns` (`EtherNotCreated`).

Assumptions: `AddrAssumption` and `ValueAssumption` (finitely many addresses and slots;
zero is no address), `FeeAssumption` (no base fee before London), `TxAssumption` (the
fees of a transaction are such as pre-validation accepts, which `validate_transaction`
expects), `CallAssumption`, `GenesisAssumption` (no account starts overdrawn) and
`NoneAssumption`.

*Argument.* Reverting takes the journal back delta by delta, as a recursive function of
the number of turns (`Undone`). What has to be shown of it is not that a delta undoes
the change it was pushed for, but that it still does so after everything that happens
later. Two states have the same view (`SameView`) if they show the same accounts, slots
and substate, whatever they cache; a step *extends* a state (`Ext`) if undoing the
deltas that it pushed gives the same view as before. Extension composes (`ExtTrans`),
each host call is a composition of the few functions that change something, and each of
these is an extension (`PushExt`). For that the journal has to be sound (`Good`): a
delta that restores a balance finds the account that it was pushed for, and
`create_contract` pushes its two storage deltas together, so that no snapshot lies
between them (`Settled`). `Frames` says of the stack that each snapshot is one of the
journal, in the order of the stack, and that the account that runs in a frame exists,
also after the frames above it were reverted (`Anchored`); without it a failed inner
message could take away the account that the outer one goes on to write.

`Remembered` is about original values. It has two forms: between transactions original
and current values agree (`Tidy`), and during one the originals are those of its start, or
zero in a contract created since (`Sane`). `Sane` has to be kept in every state that a
message on the stack would be reverted to as well, since after a failure it is that
state that goes on; `SaneSame` gets this from the frame's view not changing.
`finalize_transaction` leads from the one form to the other (`StorageFinalView`).

`Funded` has the same shape. Between transactions no account is overdrawn and all
together hold no more than the block may hand on (`Within`); during one they hold that
less the gas that was paid in advance, and the refund covers what clearing slots has
given (`Kept`), again also in the states of all frames. That the refund is covered needs
a number: it is at least the refund for one slot times the slots whose original value is
not zero and whose current one is (`Refundable`). SSTORE takes back a refund only for a
slot that is among them, and that stays true when a message in between is reverted,
because refund and slots go back together. A step *pays* if it keeps every bound on the
total (`Pays`); what touches no balance and leaves the refund covered is `Calm`.
The total is a sum over the accounts; `SubsetInduction` shows that changing one balance
changes it by the difference (`TotalMoves`) and that destructing accounts never adds to it
(`TotalLess`). `Metered` says that no message has more gas than its transaction, which
is why the gas given back never exceeds what was paid for. The State and its change sets
hold no account that is overdrawn (`Backed`), so neither does a later block, nor one
that was unwound.

TLC has `Remembered`, `Funded` and `Metered` on the instance of the run, and
`Revertible` up to the types of its parts, which are infinite sets.

### Induction, and what is only model-checked

The provers cannot instantiate an induction theorem that takes an operator. What is
proved by induction here goes through the least-number principle in first-order form
(`LeastNat`, from the well-foundedness of the natural numbers): the least number, or
block, for which a fact fails. A recursive function is used through its defining
equation, which `SumExists`, `WalkExists`, `TreeRecursion` and `CountRecursion`
establish. What holds of a finite set is proved by taking a smallest subset for which it
fails (`SubsetInduction`).

Only model-checked are:

* the liveness properties, since fairness is out of the prover's reach:
  `PhaseCompletes`, `FollowsErigon`, the liveness part of `ReturnsOnceReached`,
  `SubscribersUnblocked`, `Reconnects` and `OperationsEnd`;
* of `BlockExecution`, `WritesExactly`: it needs, on top of `BlockFunded`, that what
  each object and slot caches as its initial value is that of the State, slot by slot,
  and which addresses the tracer has seen, through every host call and every revert;
* `CallIndexExact` and `LookupExact` of `Indexes`. One invocation of a stage is one
  action there, a fold over the rows of a table, over sorted runs that are merged and
  over the chunks of a bitmap: its proof is an induction over data, which would have to
  be done through recursive functions for each of the folds;
* `StopsKnown`, `WindowLinked`, `TablesMatch` and `NeverLighter` of `HeaderFork`.
  `WindowLinked` is not inductive without an invariant that relates the two windows and
  a pending command to the tables in every state of the fork mode, through aborted
  runs and restarts, which has not been worked out.

## 6. What is not modelled

`PROJECT.json` gives the reason for each component. The interpreter (another crate),
precompiled contracts, ethash's proof of work, RLP, table and message encodings,
gRPC, the terminal interface, the RPC server and the toolbox are I/O, data or
functions of byte strings without state of their own. The hash builder and the
cursor over nibble paths compute a function of byte strings; `StateHistory` has
which remembered hashes they reuse. The three phases of the downloader run one after
the other; no module has all three, and the other stages of a round are reduced in
`HeaderFork` and `Indexes` to what they do to the tables these read.

## 7. What is left

1. Proofs about `HeaderFork` (`WindowLinked`), `Indexes` (`LookupExact`) and
   `BlockExecution` (`WritesExactly`).
2. `HashBuilder` as an operator on nibble paths, against a reference trie.
3. The composition of the three header phases with `StagedSync`, and of the reactor
   with `HeaderPipeline`, which so far assumes of it what `SentryReactor` shows.
