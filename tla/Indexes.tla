------------------------------ MODULE Indexes ------------------------------
(***************************************************************************)
(* The index stages behind Execution: CallTraceIndex, with the chunked     *)
(* bitmaps of bitmapdb and the ETL collector it sorts through, and         *)
(* TxLookup.  The stages before them are here as far as the indexes read   *)
(* their tables: bodies and transactions arrive, Execution appends the     *)
(* call traces of a block, and both are taken back by an unwind.           *)
(*                                                                         *)
(* The database has one writer, so an invocation of a stage is one action. *)
(* at is the stage the round has come to; a round may end before any stage *)
(* (a restart, or an Unwind that another stage asks for), so the indexes   *)
(* may lag behind what they index.  TxLookup is not pushed by main(): it   *)
(* is placed last, and since its execute() never reports done, the round   *)
(* goes on without waiting for it.                                         *)
(*                                                                         *)
(* Data.  Addresses and transaction hashes are numbers, since their tables *)
(* are ordered by them.  The size of a bitmap is its cardinality and the   *)
(* size of an entry of the collector is 1.  A transaction is its hash.     *)
(***************************************************************************)
EXTENDS Integers, FiniteSets, SequencesExt, FiniteSetsExt, TLC

CONSTANTS
  Addr,           \* addresses
  Kinds,          \* what a block may hold: [traces, hashes]
  MaxBlock,       \* bound: the greatest block number
  MaxUnwinds,     \* bound: unwinds of a behaviour
  ChunkLimit,     \* CHUNK_LIMIT
  FlushInterval,  \* CallTraceIndex::flush_interval
  Capacity,       \* buffer_capacity of a collector
  Radix           \* values of a byte

Dir == {"from", "to"}
Block == 0 .. MaxBlock
LastKey == MaxBlock + 1            \* u64::MAX, above every block number
Stage == {"Bodies", "Execution", "CallTraces", "TxLookup"}

ASSUME IndexAssumption ==
  /\ Addr \subseteq Nat /\ IsFiniteSet(Addr)
  /\ MaxBlock \in Nat /\ MaxUnwinds \in Nat
  /\ ChunkLimit \in Nat \ {0}
  /\ FlushInterval \in Nat /\ Capacity \in Nat
  /\ Radix \in Nat \ {0, 1}
  /\ \A k \in Kinds : /\ k.traces \in [Addr -> SUBSET Dir]
                      /\ k.hashes \in Seq(Nat)

VARIABLES
  bodies,    \* BlockBody: block number -> base_tx_id and tx_amount
  blockTx,   \* BlockTransaction: id -> transaction
  traces,    \* CallTraceSet: block number -> address -> flags
  index,     \* CallFromIndex and CallToIndex: address -> key -> bitmap
  lookup,    \* BlockTransactionLookup: hash -> encoded block number
  progress,  \* stage progress
  at,        \* the next stage of the round
  unwindTo,  \* the block being unwound to, or -1
  unwinds,   \* number of unwinds so far
  shadowed,  \* history: the addresses whose chunks an unwind wrote over
  overshot   \* history: the hashes an unwind deleted in place of another

tables == <<bodies, blockTx, traces, index, lookup>>
vars == <<tables, progress, at, unwindTo, unwinds, shadowed, overshot>>

-----------------------------------------------------------------------------
(* ETL collector: entries [key, value], spilled to sorted runs. *)

EmptyCollector == [buffer |-> <<>>, providers |-> <<>>]

Sorted(entries) == SortSeq(entries, LAMBDA a, b : a.key < b.key)

Flush(c) == [buffer |-> <<>>, providers |-> Append(c.providers, Sorted(c.buffer))]

Push(c, entry) ==
  LET pushed == [c EXCEPT !.buffer = Append(@, entry)]
  IN IF Len(pushed.buffer) > Capacity THEN Flush(pushed) ELSE pushed

\* One pop of the heap that holds the next entry of each run: the smallest
\* key, and of equal keys the run that was spilled first.
Pop(runs) ==
  LET live == {i \in DOMAIN runs : runs[i] # <<>>}
      id == CHOOSE i \in live : \A j \in live :
              \/ runs[i][1].key < runs[j][1].key
              \/ runs[i][1].key = runs[j][1].key /\ i <= j
  IN [entry |-> runs[id][1], rest |-> [runs EXCEPT ![id] = Tail(@)]]

\* Everything the runs hold, popped until the heap is empty.
Merged(runs) ==
  LET size == FoldLeft(LAMBDA n, run : n + Len(run), 0, runs)
      left[n \in 0 .. size] ==
        IF n = 0 THEN [out |-> <<>>, runs |-> runs]
        ELSE LET p == Pop(left[n - 1].runs)
             IN [out |-> Append(left[n - 1].out, p.entry), runs |-> p.rest]
  IN left[size].out

\* Collector::iter.
Collected(c) ==
  IF c.providers = <<>> THEN Sorted(c.buffer)
  ELSE Merged((IF c.buffer # <<>> THEN Flush(c) ELSE c).providers)

-----------------------------------------------------------------------------
(* bitmapdb *)

\* Chunks: greedy, each as long as the limit allows.
Chunks(bitmap) ==
  LET s == SetToSortSeq(bitmap, <)
      count == (Len(s) + ChunkLimit - 1) \div ChunkLimit
  IN [i \in 1 .. count |->
        ToSet(SubSeq(s, (i - 1) * ChunkLimit + 1, Min({i * ChunkLimit, Len(s)})))]

\* The last chunk is stored at u64::MAX, the others at their last block.
ChunkKey(chunks, i) == IF i = Len(chunks) THEN LastKey ELSE Max(chunks[i])

WithKeys(chunks) ==
  [k \in {ChunkKey(chunks, i) : i \in DOMAIN chunks} |->
     chunks[CHOOSE i \in DOMAIN chunks : ChunkKey(chunks, i) = k]]

\* get(): walk from the first key not below the range until a key that is not
\* below its end.
Get(chunks, from, to) ==
  LET walked == {k \in DOMAIN chunks : k >= from}
  IN UNION {chunks[k] : k \in {k \in walked : \A j \in walked : j < k => j < to}}

-----------------------------------------------------------------------------
(* CallTraceIndex *)

\* The rows of CallTraceSet above a block, in the order of the table.
Rows(from, to) ==
  LET addresses == SetToSortSeq(Addr, <)
      row(n) == [i \in DOMAIN addresses |->
                   [block |-> n, address |-> addresses[i],
                    flags |-> traces[n][addresses[i]]]]
  IN FlattenSeq([i \in 1 .. to - from |->
                   SelectSeq(row(from + i), LAMBDA e : e.flags # {})])

\* flush(): the map is drained, in the order of its hashes, into the collector.
Drain(acc, order) ==
  [acc EXCEPT !.pending = [a \in Addr |-> {}],
              !.collector =
                 FoldLeft(LAMBDA c, a : IF acc.pending[a] = {} THEN c
                                        ELSE Push(c, [key |-> a, value |-> acc.pending[a]]),
                          @, order)]

\* One row of the walk, for one of the two directions.
Collect(acc, row, dir, order) ==
  LET noted == IF dir \in row.flags
               THEN [acc EXCEPT !.pending[row.address] = @ \cup {row.block}]
               ELSE acc
      moved == [noted EXCEPT !.highest = row.block]
  IN IF acc.highest = row.block THEN noted
     ELSE IF row.block - acc.lastFlush >= FlushInterval
          THEN [Drain(moved, order) EXCEPT !.lastFlush = row.block]
          ELSE moved

\* What the collector of a direction holds when the walk has ended.
Walked(rows, dir, start, order) ==
  Drain(FoldLeft(LAMBDA acc, row : Collect(acc, row, dir, order),
                 [pending |-> [a \in Addr |-> {}], collector |-> EmptyCollector,
                  highest |-> start, lastFlush |-> start],
                 rows),
        order).collector

\* coalesce: neighbours with the same address become one.
Coalesced(entries) ==
  FoldLeft(LAMBDA done, e :
             IF done # <<>> /\ Last(done).key = e.key
             THEN Append(Front(done), [e EXCEPT !.value = @ \cup Last(done).value])
             ELSE Append(done, e),
           <<>>, entries)

\* Mutant: the last chunk that is already stored is written over.
LoadEntryOver(table, e) ==
  [table EXCEPT ![e.key] = WithKeys(Chunks(e.value)) @@ @]

\* load_call_traces, one address: the last chunk is taken up again.
LoadEntry(table, e) ==
  LET stored == table[e.key]
      last == IF LastKey \in DOMAIN stored THEN stored[LastKey] ELSE {}
  IN [table EXCEPT ![e.key] = WithKeys(Chunks(e.value \cup last)) @@ @]

Loaded(table, entries) == FoldLeft(LoadEntry, table, Coalesced(entries))

ExecuteCallTraces ==
  /\ at = "CallTraces"
  /\ unwindTo = -1
  /\ \E order \in SetToSeqs(Addr) :
       LET start == progress["CallTraces"]
           rows == Rows(start, progress["Execution"])
       IN index' = [d \in Dir |->
                      Loaded(index[d], Collected(Walked(rows, d, start, order)))]
  /\ progress' = [progress EXCEPT !["CallTraces"] = progress["Execution"]]
  /\ at' = "TxLookup"
  /\ UNCHANGED <<bodies, blockTx, traces, lookup, unwindTo, unwinds, shadowed, overshot>>

\* One turn of the loop of unwind_call_traces: what remains of a chunk is
\* upserted at u64::MAX, over what an earlier turn has put there.
UnwindChunk(chunks, key, to) ==
  LET kept == {n \in chunks[key] : n <= to}
      others == [k \in DOMAIN chunks \ {key} |-> chunks[k]]
  IN IF kept = {} THEN others ELSE (LastKey :> kept) @@ others

\* From the last chunk backwards to the first; nothing without a last chunk.
UnwoundChunks(chunks, to) ==
  IF LastKey \in DOMAIN chunks
  THEN FoldLeft(LAMBDA c, k : UnwindChunk(c, k, to), chunks,
                SetToSortSeq(DOMAIN chunks, >))
  ELSE chunks

\* The addresses with a row above the block: all the unwind looks at.
TracedAbove(to, dir) ==
  {a \in Addr : \E n \in DOMAIN traces : n > to /\ dir \in traces[n][a]}

\* The chunks of an address of which a part stays.
Kept(chunks, to) == {k \in DOMAIN chunks : \E n \in chunks[k] : n <= to}

UnwindCallTraces ==
  /\ index' = [d \in Dir |-> [a \in Addr |->
                 IF a \in TracedAbove(unwindTo, d)
                 THEN UnwoundChunks(index[d][a], unwindTo) ELSE index[d][a]]]
  /\ shadowed' = [d \in Dir |-> shadowed[d] \cup
                    {a \in TracedAbove(unwindTo, d) :
                       Cardinality(Kept(index[d][a], unwindTo)) > 1}]

-----------------------------------------------------------------------------
(* TxLookup *)

\* TruncateStart: the number without its leading zero bytes; 0 is empty.
Digits == CHOOSE d \in 1 .. MaxBlock + 1 :
            Radix ^ d > MaxBlock /\ \A e \in 1 .. d - 1 : Radix ^ e <= MaxBlock

TruncateStart(n) ==
  LET bytes == [i \in 1 .. Digits |-> (n \div Radix ^ (Digits - i)) % Radix]
      zeros == Cardinality({i \in 1 .. Digits : \A j \in 1 .. i : bytes[j] = 0})
  IN SubSeq(bytes, zeros + 1, Digits)

Decoded(bytes) == FoldLeft(LAMBDA n, b : n * Radix + b, 0, bytes)

\* The transactions of a body: tx_amount of them from base_tx_id on.
Transactions(n) ==
  [i \in 1 .. bodies[n].amount |-> blockTx[bodies[n].base + i - 1]]

\* walk() over BlockBody.
BodiesFrom(n) == SetToSortSeq({m \in DOMAIN bodies : m >= n}, <)

\* The block of the last row of the table, which is the greatest hash.
LastProcessed ==
  IF DOMAIN lookup = {} THEN 0 ELSE Decoded(lookup[Max(DOMAIN lookup)])

\* Mutant: the block after the last one processed is skipped.
FirstToLookUpSkipped == LastProcessed + 2

FirstToLookUp == LastProcessed + 1

\* Every body from there on is read, whatever the previous stage has reached.
LookedUp ==
  LET body(n) == [i \in DOMAIN Transactions(n) |->
                    [key |-> Transactions(n)[i], value |-> TruncateStart(n)]]
      blocks == BodiesFrom(FirstToLookUp)
      entries == FlattenSeq([i \in DOMAIN blocks |-> body(blocks[i])])
  IN Collected(FoldLeft(Push, EmptyCollector, entries))

\* TableCollector::load puts the rows one by one.
ExecuteTxLookup ==
  /\ at = "TxLookup"
  /\ unwindTo = -1
  /\ lookup' = FoldLeft(LAMBDA t, e : (e.key :> e.value) @@ t, lookup, LookedUp)
  /\ progress' = [progress EXCEPT !["TxLookup"] = progress["CallTraces"]]
  /\ at' = "Bodies"
  /\ UNCHANGED <<bodies, blockTx, traces, index, unwindTo, unwinds, shadowed, overshot>>

\* seek finds the hash or, without it, the next greater one; what it finds is
\* deleted.
DeleteHash(state, hash) ==
  LET found == {h \in DOMAIN state.lookup : h >= hash}
  IN IF found = {} THEN state
     ELSE [lookup |-> [h \in DOMAIN state.lookup \ {Min(found)} |-> state.lookup[h]],
           overshot |-> state.overshot \cup ({Min(found)} \ {hash})]

UnwindTxLookup ==
  LET blocks == BodiesFrom(unwindTo + 1)
      above == FlattenSeq([i \in DOMAIN blocks |-> Transactions(blocks[i])])
      after == FoldLeft(DeleteHash, [lookup |-> lookup, overshot |-> overshot], above)
  IN /\ lookup' = after.lookup
     /\ overshot' = after.overshot

-----------------------------------------------------------------------------
(* The stages that feed the indexes, and the loop. *)

\* Bodies come in one after the other; a transaction is in a chain once.
AppendBody(kind) ==
  LET n == Cardinality(DOMAIN bodies)
      base == Cardinality(DOMAIN blockTx)
  IN /\ at = "Bodies"
     /\ unwindTo = -1
     /\ n <= MaxBlock
     /\ ToSet(kind.hashes) \cap {blockTx[i] : i \in DOMAIN blockTx} = {}
     /\ bodies' = (n :> [base |-> base, amount |-> Len(kind.hashes),
                         traces |-> kind.traces]) @@ bodies
     /\ blockTx' = [i \in base .. base + Len(kind.hashes) - 1 |->
                      kind.hashes[i - base + 1]] @@ blockTx
     /\ progress' = [progress EXCEPT !["Bodies"] = n]
     /\ UNCHANGED <<traces, index, lookup, at, unwindTo, unwinds, shadowed, overshot>>

\* Execution runs to the last body and appends the traces of each block.
ExecuteBlocks ==
  /\ at = "Execution"
  /\ unwindTo = -1
  /\ traces' = [n \in 1 .. progress["Bodies"] |->
                  IF n <= progress["Execution"] THEN traces[n] ELSE bodies[n].traces]
  /\ progress' = [progress EXCEPT !["Execution"] = progress["Bodies"]]
  /\ at' = "CallTraces"
  /\ UNCHANGED <<bodies, blockTx, index, lookup, unwindTo, unwinds, shadowed, overshot>>

\* The stage before is done with what there is for now.
BodiesDone ==
  /\ at = "Bodies"
  /\ unwindTo = -1
  /\ at' = "Execution"
  /\ UNCHANGED <<tables, progress, unwindTo, unwinds, shadowed, overshot>>

\* A stage asks for an unwind (HeaderDownload at the start of a round,
\* Interhashes just before CallTraces).
AskUnwind(to) ==
  /\ at \in {"Bodies", "CallTraces"}
  /\ unwindTo = -1
  /\ unwinds < MaxUnwinds
  /\ to < progress["Bodies"]
  /\ unwindTo' = to
  /\ at' = "TxLookup"
  /\ unwinds' = unwinds + 1
  /\ UNCHANGED <<tables, progress, shadowed, overshot>>

\* A restart begins a new round.
Restart ==
  /\ at # "Bodies"
  /\ unwindTo = -1
  /\ at' = "Bodies"
  /\ UNCHANGED <<tables, progress, unwindTo, unwinds, shadowed, overshot>>

PreviousStage == [TxLookup |-> "CallTraces", CallTraces |-> "Execution",
                  Execution |-> "Bodies", Bodies |-> "Bodies"]

\* Execution's unwind deletes the traces above the block, and the bodies
\* stage its bodies and their transactions.
UnwindExecution ==
  /\ traces' = [n \in {n \in DOMAIN traces : n <= unwindTo} |-> traces[n]]

UnwindBodies ==
  /\ bodies' = [n \in {n \in DOMAIN bodies : n <= unwindTo} |-> bodies[n]]
  /\ blockTx' = [i \in 0 .. bodies[unwindTo + 1].base - 1 |-> blockTx[i]]

\* The stages are unwound in reverse order, those that are above the block.
UnwindStage ==
  /\ unwindTo # -1
  /\ IF progress[at] <= unwindTo
     THEN UNCHANGED <<tables, shadowed, overshot>>
     ELSE \/ /\ at = "TxLookup"
             /\ UnwindTxLookup
             /\ UNCHANGED <<bodies, blockTx, traces, index, shadowed>>
          \/ /\ at = "CallTraces"
             /\ UnwindCallTraces
             /\ UNCHANGED <<bodies, blockTx, traces, lookup, overshot>>
          \/ /\ at = "Execution"
             /\ UnwindExecution
             /\ UNCHANGED <<bodies, blockTx, index, lookup, shadowed, overshot>>
          \/ /\ at = "Bodies"
             /\ UnwindBodies
             /\ UNCHANGED <<traces, index, lookup, shadowed, overshot>>
  /\ progress' = [progress EXCEPT ![at] = Min({@, unwindTo})]
  /\ at' = PreviousStage[at]
  /\ unwindTo' = IF at = "Bodies" THEN -1 ELSE unwindTo
  /\ UNCHANGED unwinds

\* The genesis block has no transactions and no traces.
Init ==
  /\ bodies = (0 :> [base |-> 0, amount |-> 0, traces |-> [a \in Addr |-> {}]])
  /\ blockTx = <<>>
  /\ traces = <<>>
  /\ index = [d \in Dir |-> [a \in Addr |-> <<>>]]
  /\ lookup = <<>>
  /\ progress = [s \in Stage |-> 0]
  /\ at = "Bodies"
  /\ unwindTo = -1
  /\ unwinds = 0
  /\ shadowed = [d \in Dir |-> {}]
  /\ overshot = {}

Next ==
  \/ \E kind \in Kinds : AppendBody(kind)
  \/ BodiesDone
  \/ ExecuteBlocks
  \/ ExecuteCallTraces
  \/ ExecuteTxLookup
  \/ \E to \in Block : AskUnwind(to)
  \/ UnwindStage
  \/ Restart

Spec == Init /\ [][Next]_vars

-----------------------------------------------------------------------------
(* Properties *)

Indexed(dir, a) ==
  {n \in 1 .. progress["CallTraces"] : dir \in traces[n][a]}

\* The chunks of an address are consecutive parts of its blocks, none over
\* the limit, each under its last block but the last one under u64::MAX: so
\* the next execute finds the chunk to continue.
ChunksInOrder ==
  \A d \in Dir, a \in Addr :
    LET chunks == index[d][a]
    IN /\ chunks # <<>> => LastKey \in DOMAIN chunks
       /\ \A k \in DOMAIN chunks :
            /\ Cardinality(chunks[k]) \in 1 .. ChunkLimit
            /\ k # LastKey => Max(chunks[k]) = k
       /\ \A j, k \in DOMAIN chunks : j < k => Max(chunks[j]) < Min(chunks[k])

\* Reading an index over any range of blocks finds no block where the address
\* was not traced, and all where it was; except that an address of which an
\* unwind kept parts of several chunks has lost some of them, since each is
\* written over the one before.
CallIndexExact ==
  /\ ChunksInOrder
  /\ unwindTo = -1 => \A d \in Dir, a \in Addr, from \in Block : \A to \in from .. MaxBlock :
       LET found == Get(index[d][a], from, to) \cap from .. to
           truth == Indexed(d, a) \cap from .. to
       IN /\ found \subseteq truth
          /\ a \notin shadowed[d] => found = truth

\* Every transaction of a block the stage has passed is found, although the
\* stage continues from the block of the greatest hash and not from its own
\* progress; except the ones that were deleted in place of another.  What is
\* found is the block that holds the transaction: no entry of a block that was
\* unwound stays behind.
LookupExact ==
  unwindTo = -1 =>
    /\ \A n \in 1 .. progress["TxLookup"] : \A h \in ToSet(Transactions(n)) :
         h \in DOMAIN lookup \/ h \in overshot
    /\ \A h \in DOMAIN lookup :
         LET n == Decoded(lookup[h])
         IN n \in DOMAIN bodies /\ h \in ToSet(Transactions(n))
=============================================================================
