----------------------------- MODULE HeaderFork -----------------------------
(***************************************************************************)
(* The forky phase of the header downloader and the HeaderDownload stage   *)
(* that runs it: the last headers of the chain are kept in a window of     *)
(* slices (main); a slice that does not link to it starts a fork, kept in  *)
(* a second window that grows downwards until it meets the first one.  If  *)
(* the fork is the heavier chain the stage asks the sync loop to unwind to *)
(* the connection block and, when it is executed again, switches to it.    *)
(*                                                                         *)
(* Units.  Blocks stand for their hashes.  A slice is identified by its    *)
(* position, start_block_num / HEADER_SLICE_SIZE; its headers are a        *)
(* sequence of blocks, empty for None.  Windows are functions of the       *)
(* positions in memory.                                                    *)
(*                                                                         *)
(* What HeaderPipeline models in detail is coarser here: Empty stands for  *)
(* Empty and Waiting, a stage is awake whenever a slice has the status it  *)
(* works on (the counters of HeaderSlices are those of the window), and a  *)
(* run of the stage loop may end by its timeout at any moment.  A stretch  *)
(* between two awaits is an action; the only await that another stage can  *)
(* disturb is that of VerifySlicesStage on the main window.                *)
(***************************************************************************)
EXTENDS Integers, FiniteSets, Sequences, SequencesExt, TLC

CONSTANTS
  Blocks,      \* headers, of all branches
  Parent,      \* block -> parent_hash (None: not a known block)
  Number,      \* block -> number
  Difficulty,  \* block -> difficulty
  SliceSize,   \* HEADER_SLICE_SIZE
  MaxSlices,   \* max_slices of the window
  Base,        \* no_forks_final_block_num, as a position
  Top,         \* the last position the window may be extended to
  Networks,    \* what peers may answer: position -> headers
  Saved0,      \* blocks that the earlier phases have saved
  MaxCrashes,  \* bound: restarts, for each of the Networks
  None

Status == {"Empty", "Downloaded", "VerifiedInternally", "Verified",
           "Invalid", "Fork", "Saved"}

ASSUME SizesAssumption == /\ SliceSize \in Nat \ {0} /\ MaxSlices \in Nat \ {0}
                          /\ Base \in Nat \ {0} /\ Top \in Nat
                          /\ Base + MaxSlices - 1 <= Top
ASSUME BlocksAssumption ==
  \A b \in Blocks : Parent[b] # None => /\ Parent[b] \in Blocks
                                        /\ Number[b] = Number[Parent[b]] + 1

VARIABLES
  answers,    \* what the peers of this behaviour may answer
  main,       \* header_slices: position -> slice
  fork,       \* fork_header_slices
  loaded,     \* previous_run_state holds the windows
  command,    \* unwind_request / termination_command: ForkSwitchCommand
  mode,       \* VerifyLinkForkyStage.mode
  verifying,  \* VerifySlicesStage's batch of main: position -> headers
  run,        \* where the HeaderDownload stage and the sync loop are
  tx,         \* the tables as the open transaction sees them
  db,         \* the tables as last committed
  crashes,
  lost,       \* history: the number from which on the tables and the windows
              \* have come apart, because a transaction with writes was dropped
              \* and the windows kept, or the windows were lost when a fork
              \* switch was half stored
  early,      \* history: headers of fork slices that a switch found Saved above
              \* one that was not
  stale       \* history: a good verdict was applied to headers that had replaced
              \* those it was about, and that are not consistent

\* Option::None of the termination command.
NoCommand == [connection |-> -1, canonicalEnd |-> 0, forkStart |-> 0, forkEnd |-> 0]

memory == <<main, fork, loaded, command, mode, verifying>>
history == <<answers, crashes, lost, early, stale>>
vars == <<memory, run, tx, db, history>>

-----------------------------------------------------------------------------
(* HeaderSlices *)

Slice(status, headers) == [status |-> status, headers |-> headers]
EmptySlice == Slice("Empty", <<>>)

Start(p) == p * SliceSize
PositionOf(n) == n \div SliceSize
End(w, p) == Start(p) + Len(w[p].headers)
First(w) == CHOOSE p \in DOMAIN w : \A q \in DOMAIN w : p <= q
Final(w) == CHOOSE p \in DOMAIN w : \A q \in DOMAIN w : p >= q
In(w, S) == {p \in DOMAIN w : w[p].status \in S}
Canonical == {"Verified", "Saved"}

\* find_by_block_num: the slice has to hold the header of that number.
Holds(w, n) == PositionOf(n) \in DOMAIN w /\ n < End(w, PositionOf(n))

SetSlice(w, p, s) == (p :> s) @@ w
SetStatus(w, p, status) == [w EXCEPT ![p].status = status]

\* find_canonical_range().end: the end of the leading canonical slices, and
\* those slices.
Leading(w) == LET first == First(w)
              IN {p \in DOMAIN w : \A q \in first .. p : w[q].status \in Canonical}
CanonicalEnd(w) == IF Leading(w) = {} THEN Start(First(w))
                   ELSE End(w, First(w) + Cardinality(Leading(w)) - 1)

\* find_fork_range(): the trailing canonical slices of the fork.
Trailing(w) == LET final == Final(w)
               IN {p \in DOMAIN w : \A q \in p .. final : w[q].status \in Canonical}
ForkStart(w) == IF Trailing(w) = {} THEN End(w, Final(w))
                ELSE Start(Final(w) - Cardinality(Trailing(w)) + 1)

\* prepend_slice, which returns an error when the window is full.
CanPrepend(w) == Cardinality(DOMAIN w) < MaxSlices /\ First(w) > 0
Prepended(w) == SetSlice(w, First(w) - 1, EmptySlice)

\* trim_start_to_fit_max_slices
Trimmed(w) == [p \in {q \in DOMAIN w : Final(w) - q < MaxSlices} |-> w[p]]

-----------------------------------------------------------------------------
(* SaveStage: the tables *)

\* update_canonical_chain_header; the total difficulty is that of the parent
\* plus the header's own, if the parent has one, so that tables::
\* HeadersTotalDifficulty is the set of blocks that have one.
UpdateCanonicalChainHeader(t, h) ==
  [t EXCEPT !.canon[Number[h]] = h, !.last = h,
            !.totals = IF Parent[h] \in @ THEN @ \cup {h} ELSE @]

\* save_header on the canonical chain and on the fork.
SaveHeader(t, h) == [UpdateCanonicalChainHeader(t, h) EXCEPT !.headers = @ \cup {h}]
SaveForkHeader(t, h) == [t EXCEPT !.headers = @ \cup {h}]

\* Mutant: the rows of the old chain are kept.
UnwoundKept(t, to) == [t EXCEPT !.last = t.canon[to]]

\* SaveStage::unwind: rows are deleted until one is not found.
Unwound(t, to) ==
  LET gone == {n \in DOMAIN t.canon : n > to /\ \A m \in to + 1 .. n : t.canon[m] # None}
  IN [t EXCEPT !.canon = [n \in DOMAIN @ |-> IF n \in gone THEN None ELSE @[n]],
               !.last = t.canon[to]]

-----------------------------------------------------------------------------
(* The stages that fetch and verify slices, for both windows *)

Running == run = "running"

\* FetchRequestStage and FetchReceiveStage.
Fetch ==
  /\ Running
  /\ UNCHANGED <<loaded, command, mode, verifying, run, tx, db, history>>
  /\ \/ \E p \in In(main, {"Empty"}) : \E h \in answers[p] :
          main' = SetSlice(main, p, Slice("Downloaded", h)) /\ UNCHANGED fork
     \/ \E p \in In(fork, {"Empty"}) : \E h \in answers[p] :
          fork' = SetSlice(fork, p, Slice("Downloaded", h)) /\ UNCHANGED main

Links(child, parent) == Parent[child] = parent

\* HeaderSliceVerifier::verify_slice
VerifySlice(h, p) ==
  /\ h # <<>>
  /\ \A i \in 1 .. Len(h) : Number[h[i]] = Start(p) + i - 1
  /\ \A i \in 1 .. Len(h) - 1 : Links(h[i + 1], h[i])

VerdictStatus(ok) == IF ok THEN "VerifiedInternally" ELSE "Invalid"

VerifyStart ==
  /\ Running
  /\ DOMAIN verifying = {} /\ In(main, {"Downloaded"}) # {}
  /\ verifying' = [p \in In(main, {"Downloaded"}) |-> main[p].headers]
  /\ UNCHANGED <<main, fork, loaded, command, mode, run, tx, db, history>>

\* The verdicts are applied to whatever the slices are now.  A task that ran
\* after its slice was reset has seen what the slice holds now.
VerifyFinish ==
  /\ Running
  /\ DOMAIN verifying # {}
  /\ \E seen \in [DOMAIN verifying -> BOOLEAN] :
       LET headers(p) == IF seen[p] THEN verifying[p] ELSE main[p].headers
       IN /\ \A p \in DOMAIN verifying : ~seen[p] => main[p].headers # verifying[p]
          /\ main' = [p \in DOMAIN main |->
               IF p \in DOMAIN verifying
               THEN Slice(VerdictStatus(VerifySlice(headers(p), p)), main[p].headers)
               ELSE main[p]]
          /\ stale' = (stale \/ \E p \in DOMAIN verifying :
                                   /\ VerifySlice(headers(p), p)
                                   /\ ~VerifySlice(main[p].headers, p))
  /\ verifying' = <<>>
  /\ UNCHANGED <<answers, fork, loaded, command, mode, run, tx, db, crashes, lost, early>>

\* Nothing resets a Downloaded slice of the fork, so its await is not seen.
VerifyFork ==
  /\ Running
  /\ \E p \in In(fork, {"Downloaded"}) :
       fork' = SetStatus(fork, p, VerdictStatus(VerifySlice(fork[p].headers, p)))
  /\ UNCHANGED <<main, loaded, command, mode, verifying, run, tx, db, history>>

\* PenalizeStage::reset_pending
Penalize ==
  /\ Running
  /\ \/ /\ In(main, {"Invalid"}) # {} /\ UNCHANGED fork
        /\ main' = [p \in In(main, {"Invalid"}) |-> EmptySlice] @@ main
     \/ /\ In(fork, {"Invalid"}) # {} /\ UNCHANGED main
        /\ fork' = [p \in In(fork, {"Invalid"}) |-> EmptySlice] @@ fork
  /\ UNCHANGED <<loaded, command, mode, verifying, run, tx, db, history>>

-----------------------------------------------------------------------------
(* SaveStage, ExtendStage *)

\* The slices that are in order and Verified, and their headers in order.
PendingMonotonic == {p \in Leading(main) : main[p].status = "Verified"}
HeadersOf(w, S) ==
  FlattenSeq([i \in 1 .. Cardinality(S) |->
                w[CHOOSE p \in S : Cardinality({q \in S : q <= p}) = i].headers])

\* save_pending_monotonic
SaveMain ==
  /\ Running
  /\ PendingMonotonic # {}
  /\ tx' = FoldLeft(SaveHeader, tx, HeadersOf(main, PendingMonotonic))
  /\ main' = [p \in PendingMonotonic |-> Slice("Saved", main[p].headers)] @@ main
  /\ UNCHANGED <<fork, loaded, command, mode, verifying, run, db, history>>

\* save_pending_all, with is_canonical_chain false.
SaveFork ==
  /\ Running
  /\ In(fork, {"Verified"}) # {}
  /\ tx' = FoldLeft(SaveForkHeader, tx, HeadersOf(fork, In(fork, {"Verified"})))
  /\ fork' = [p \in In(fork, {"Verified"}) |-> Slice("Saved", fork[p].headers)] @@ fork
  /\ UNCHANGED <<main, loaded, command, mode, verifying, run, db, history>>

\* append_slice; Top bounds the model.
Extend ==
  /\ Running
  /\ In(main, {"Saved"}) = DOMAIN main
  /\ Final(main) < Top
  /\ main' = SetSlice(main, Final(main) + 1, EmptySlice)
  /\ UNCHANGED <<fork, loaded, command, mode, verifying, run, tx, db, history>>

-----------------------------------------------------------------------------
(* The end of a run, DownloaderForky::run and HeaderDownload::execute *)

\* progress_start_block_num: DownloaderPreverified::run aligns the stage's first
\* block down to a slice, also when it downloads nothing, and the linear phase
\* hands it on.
ProgressStart(t) == PositionOf(t.progress + 1)

\* downloaded_count: the headers of the leading Saved slices, counted from the
\* aligned start.  After an unwind to the middle of a slice, and before that
\* slice is Saved again, the reported progress is below the one the run had.
DownloadedEnd(w, from) ==
  LET count(p) == IF p >= from THEN Len(w[p].headers) ELSE 0
      saved == {p \in DOMAIN w : \A q \in First(w) .. p : w[q].status = "Saved"}
  IN Start(from) + FoldLeft(LAMBDA n, k : n + k, 0, [i \in 1 .. Cardinality(saved) |->
                                                     count(First(w) + i - 1)])

\* Mutant: the fork is cleared at the end of every run.
AdjustedForkCleared(f, w) == <<>>

\* adjust_fork_slices_after_header_slices_trim
AdjustedFork(f, w) == IF DOMAIN f = {} \/ First(f) <= First(w) THEN <<>> ELSE f

\* The numbers of what the open transaction has written.
Written == {n \in DOMAIN db.canon : tx.canon[n] # db.canon[n]}
           \cup {Number[b] : b \in tx.headers \ db.headers}

\* The loop is left with windows w and f, whatever its stages wait for.  A
\* termination command makes the stage ask for an unwind, and the sync loop
\* drops the transaction; otherwise it reports its progress.
EndRun(w, f, c) ==
  /\ main' = Trimmed(w)
  /\ fork' = AdjustedFork(f, Trimmed(w))
  /\ command' = c
  /\ verifying' = <<>>
  /\ UNCHANGED <<answers, loaded, mode, db, crashes, early, stale>>
  /\ IF c # NoCommand
     THEN run' = "unwind" /\ tx' = db /\ lost' = Min({lost} \cup Written)
     ELSE /\ run' = "done" /\ UNCHANGED lost
          /\ tx' = [tx EXCEPT !.progress = DownloadedEnd(w, ProgressStart(tx)) - 1]

\* TimeoutStage
Timeout == Running /\ EndRun(main, fork, NoCommand)

\* The stage's execute() has returned and the loop goes on.
GoOn(w, f, m) ==
  /\ main' = w /\ fork' = f /\ mode' = m
  /\ UNCHANGED <<loaded, command, verifying, run, tx, db, history>>

-----------------------------------------------------------------------------
(* VerifyLinkForkyStage, linear mode *)

\* last_verified_header before position p.
LastHeader(w, p) == IF p - 1 \in DOMAIN w THEN Last(w[p - 1].headers)
                    ELSE tx.canon[Start(p) - 1]

\* VerifyLinkLinearStage::verify_slice_link
LinksLinear(w, p) == /\ Len(w[p].headers) = SliceSize
                     /\ Links(Head(w[p].headers), LastHeader(w, p))

\* verify_pending_monotonic: pending slices become Verified up to the first
\* one that does not link, which becomes Fork.
LinkedLinear(w) ==
  LET from == First(w) + Cardinality(Leading(w))
      pending == {p \in In(w, {"VerifiedInternally"}) :
                    \A q \in from .. p : w[q].status = "VerifiedInternally"}
      good == {p \in pending : \A q \in from .. p : LinksLinear(w, q)}
      bad == {p \in pending \ good : p - 1 \in good \/ p = from}
  IN [p \in DOMAIN w |-> IF p \in good THEN Slice("Verified", w[p].headers)
                         ELSE IF p \in bad THEN Slice("Fork", w[p].headers)
                         ELSE w[p]]

\* ForkModeStage::setup moves the slice after the canonical ones to the fork
\* and makes room for the one below it.
SetupFork(w) ==
  LET c == PositionOf(CanonicalEnd(w))
      initial == c :> Slice("Verified", w[c].headers)
      cleared == SetSlice(w, c, EmptySlice)
  IN IF ~Holds(w, CanonicalEnd(w)) \/ w[c].status # "Fork" THEN EndRun(w, fork, NoCommand)
     ELSE IF ~CanPrepend(initial) THEN EndRun(cleared, initial, NoCommand)
     ELSE GoOn(cleared, Prepended(initial), "fork")

LinkLinear ==
  /\ Running /\ mode = "linear"
  /\ In(main, {"VerifiedInternally"}) # {}
  /\ LET w == LinkedLinear(main)
         forks == In(w, {"Fork"})
         root == First(w)
     IN IF forks = {} THEN GoOn(w, fork, "linear")
        ELSE IF root \in forks THEN GoOn(SetStatus(w, root, "Invalid"), fork, "linear")
        ELSE SetupFork(w)

-----------------------------------------------------------------------------
(* ForkModeStage *)

\* Mutant: the parent hash is not compared.
ExtendsCanonicalAny(w, c) == c - 1 \in DOMAIN w

\* try_extend_canonical, for the slice after the canonical ones.
ExtendsCanonical(w, c) ==
  /\ c - 1 \in DOMAIN w
  /\ Links(Head(w[c].headers), Last(w[c - 1].headers))

\* The canonical window after process_pending has tried to extend it: the
\* slice is Verified or fetched again.
ExtendedCanonical(w, c, did) ==
  SetSlice(w, c, IF did THEN Slice("Verified", w[c].headers) ELSE EmptySlice)

\* The slice that follows is fetched again whatever its status.
RefetchNext(w) ==
  LET n == CanonicalEnd(w)
  IN IF Holds(w, n) THEN SetSlice(w, PositionOf(n), EmptySlice) ELSE w

\* find_fork_connection_block_num: the last common header of the fork's
\* first slice and the canonical one, -1 if there is none.
Connection(w, f) ==
  LET p == PositionOf(ForkStart(f))
      common == IF p \notin DOMAIN w THEN {}
                ELSE {i \in DOMAIN w[p].headers \cap DOMAIN f[p].headers :
                        w[p].headers[i] = f[p].headers[i]}
  IN IF common = {} THEN -1 ELSE Start(p) + Max(common) - 1

\* range_difficulty of the canonical slices S above the connection.
RangeDifficulty(w, S, above) ==
  LET heavy(b) == IF Number[b] > above THEN Difficulty[b] ELSE 0
  IN FoldLeft(LAMBDA n, b : n + heavy(b), 0, HeadersOf(w, S))

\* Mutant: the whole slices are compared, the common headers included.
HeavierSlices(w, f, at) ==
  RangeDifficulty(f, Trailing(f), -1) > RangeDifficulty(w, Leading(w), at)

Heavier(w, f, at) ==
  RangeDifficulty(f, Trailing(f), at) > RangeDifficulty(w, Leading(w), at)

ForkSwitchCommand(w, f, at) ==
  [connection |-> at, canonicalEnd |-> CanonicalEnd(w),
   forkStart |-> ForkStart(f), forkEnd |-> End(f, Final(f))]

\* process_pending and what VerifyLinkForkyStage::execute does after it.
LinkFork ==
  /\ Running /\ mode = "fork"
  /\ In(main, {"VerifiedInternally"}) \cup In(fork, {"VerifiedInternally"}) # {}
  /\ LET ce == CanonicalEnd(main)
         c == PositionOf(ce)
         tryMain == Holds(main, ce) /\ main[c].status = "VerifiedInternally"
         didMain == tryMain /\ ExtendsCanonical(main, c)
         w == IF tryMain THEN ExtendedCanonical(main, c, didMain) ELSE main
         fe == ForkStart(fork) - 1
         q == PositionOf(fe)
         tryFork == Holds(fork, fe) /\ fork[q].status = "VerifiedInternally"
         didFork == /\ tryFork /\ q + 1 \in DOMAIN fork
                    /\ Links(Head(fork[q + 1].headers), Last(fork[q].headers))
         f == IF tryFork THEN ExtendedCanonical(fork, q, didFork) ELSE fork
         at == IF didFork THEN Connection(w, f) ELSE -1
         next == IF didMain THEN RefetchNext(w) ELSE w
     IN CASE at >= 0 /\ Heavier(w, f, at) -> EndRun(w, f, ForkSwitchCommand(w, f, at))
          [] at >= 0 /\ ~Heavier(w, f, at) -> GoOn(w, <<>>, "linear")
          [] at < 0 /\ didFork /\ ForkStart(f) = Start(First(w)) -> GoOn(w, <<>>, "linear")
          [] at < 0 /\ didFork /\ ForkStart(f) # Start(First(w)) ->
               IF ~CanPrepend(f) THEN EndRun(next, f, NoCommand)
                                      ELSE GoOn(next, Prepended(f), "fork")
          [] ~didFork -> GoOn(next, f, "fork")

-----------------------------------------------------------------------------
(* ForkSwitchCommand::execute *)

Promoted(c) == {p \in PositionOf(c.forkStart) .. Top : Start(p) < c.forkEnd}
Discarded(c) == {p \in 0 .. Top : Start(p) >= c.forkEnd /\ Start(p) < c.canonicalEnd}

\* The unwraps and assertions of switch_to_fork.
SwitchPanics(c) ==
  \/ \E p \in Promoted(c) : p \notin DOMAIN main \cap DOMAIN fork
  \/ \E p \in Discarded(c) : p \notin Leading(main)

SwitchedMain(c) ==
  [p \in DOMAIN main |-> IF p \in Promoted(c) THEN fork[p]
                         ELSE IF p \in Discarded(c) THEN EmptySlice
                         ELSE main[p]]

\* Headers that a switch finds Saved above a fork slice that is not.
Early(w, c) ==
  LET saved == {p \in Promoted(c) : w[p].status = "Saved"}
      above == {p \in saved : \E q \in Promoted(c) \ saved : q < p}
  IN ToSet(HeadersOf(w, above))

\* update_canonical_chain_headers: those of Saved slices only; the others
\* will be written by SaveStage.
UpdatedCanonical(t, w, c) ==
  FoldLeft(UpdateCanonicalChainHeader, t,
           SelectSeq(HeadersOf(w, {p \in Promoted(c) : w[p].status = "Saved"}),
                     LAMBDA b : Number[b] > c.connection))

-----------------------------------------------------------------------------
(* HeaderDownload::execute up to the start of the loop *)

\* load_header_slices: full slices of canonical headers, all Saved.
Loaded(t) ==
  LET whole(p) == \A n \in Start(p) .. Start(p) + SliceSize - 1 :
                    t.canon[n] # None /\ t.canon[n] \in t.headers
  IN [p \in Base .. Base + MaxSlices - 1 |->
        IF \A q \in Base .. p : whole(q)
        THEN Slice("Saved", [i \in 1 .. SliceSize |-> t.canon[Start(p) + i - 1]])
        ELSE EmptySlice]

\* load_canonical_header_by_num for the window's parent.
ParentSaved(t, w) == LET n == Start(First(w)) - 1
                     IN t.canon[n] # None /\ t.canon[n] \in t.headers

\* The phase starts with the windows of the previous run, unless the progress
\* is now before them.
StartWith(t, w, f, keep) ==
  LET w1 == IF keep /\ ProgressStart(t) >= First(w) THEN w ELSE Loaded(t)
      f1 == IF keep /\ ProgressStart(t) >= First(w) THEN f ELSE <<>>
  IN /\ tx' = t
     /\ main' = w1 /\ fork' = f1
     /\ mode' = IF DOMAIN f1 = {} THEN "linear" ELSE "fork"
     /\ run' = IF ParentSaved(t, w1) THEN "running" ELSE "failed"

Execute ==
  /\ run = "idle"
  /\ UNCHANGED <<answers, verifying, db, crashes, lost, stale>>
  /\ IF command = NoCommand
     THEN /\ StartWith(tx, main, fork, loaded)
          /\ loaded' = TRUE
          /\ UNCHANGED <<command, early>>
     ELSE IF SwitchPanics(command)
     THEN run' = "panicked" /\ UNCHANGED <<main, fork, loaded, command, mode, tx, early>>
     ELSE /\ StartWith(UpdatedCanonical(tx, SwitchedMain(command), command),
                       SwitchedMain(command), <<>>, loaded)
          /\ command' = NoCommand
          /\ early' = early \cup Early(SwitchedMain(command), command)
          /\ UNCHANGED loaded

-----------------------------------------------------------------------------
(* The sync loop around the stage; the other stages follow the headers *)

\* The iteration's commit.
Commit ==
  /\ run = "done"
  /\ db' = tx /\ run' = "idle"
  /\ UNCHANGED <<memory, tx, history>>

\* The unwind iteration: HeaderDownload::unwind if its progress is above.
Unwind ==
  /\ run = "unwind"
  /\ UNCHANGED <<memory, history>>
  /\ IF tx.progress <= command.connection
     THEN run' = "idle" /\ UNCHANGED <<tx, db>>
     ELSE IF tx.canon[command.connection] = None
     THEN run' = "failed" /\ UNCHANGED <<tx, db>>
     ELSE /\ tx' = [Unwound(tx, command.connection) EXCEPT !.progress = command.connection]
          /\ db' = tx'
          /\ run' = "idle"

\* The numbers without a canonical row below one that has one.
Gaps(t) == {n \in DOMAIN t.canon : /\ n >= Start(Base) /\ t.canon[n] = None
                                   /\ n + 1 \in DOMAIN t.canon /\ t.canon[n + 1] # None}

\* The process ends, by a fault, by an error of a stage or by a panic, and is
\* started again.
Restart ==
  /\ crashes < MaxCrashes[answers]
  /\ crashes' = crashes + 1
  /\ main' = <<>> /\ fork' = <<>> /\ loaded' = FALSE /\ command' = NoCommand
  /\ mode' = "linear" /\ verifying' = <<>>
  /\ tx' = db /\ run' = "idle"
  /\ lost' = Min({lost} \cup Gaps(db))
  /\ UNCHANGED <<answers, db, early, stale>>

-----------------------------------------------------------------------------

Numbers == 0 .. Start(Top + 1)

\* Nothing has been lost.
Nothing == Start(Top + 1) + 1

Init ==
  /\ answers \in Networks
  /\ main = <<>> /\ fork = <<>> /\ loaded = FALSE /\ command = NoCommand
  /\ mode = "linear" /\ verifying = <<>> /\ run = "idle"
  /\ db = [canon |-> [n \in Numbers |->
                        IF \E b \in Saved0 : Number[b] = n
                        THEN CHOOSE b \in Saved0 : Number[b] = n ELSE None],
           headers |-> Saved0, totals |-> Saved0,
           last |-> CHOOSE b \in Saved0 : \A c \in Saved0 : Number[b] >= Number[c],
           progress |-> Start(Base) - 1]
  /\ tx = db
  /\ crashes = 0 /\ lost = Nothing /\ early = {} /\ stale = FALSE

Next ==
  \/ Fetch \/ VerifyStart \/ VerifyFinish \/ VerifyFork \/ Penalize
  \/ SaveMain \/ SaveFork \/ Extend \/ Timeout
  \/ LinkLinear \/ LinkFork
  \/ Execute \/ Commit \/ Unwind \/ Restart

Spec == Init /\ [][Next]_vars

-----------------------------------------------------------------------------
(* Properties *)

Linked(s) == \A i \in 1 .. Len(s) - 1 : Links(s[i + 1], s[i])

\* While the link stage works on both windows, the canonical slices of the
\* main one are its first ones and form one chain, and so do those of the
\* fork, whatever a refetch, a fork switch, a dropped transaction, a trimming or
\* a timeout did to them, unless a verdict let in headers it was not about.
WindowLinked ==
  (run \in {"running", "done"} /\ ~stale) =>
     /\ Linked(HeadersOf(main, Leading(main)))
     /\ Leading(main) = In(main, Canonical)
     /\ Linked(HeadersOf(fork, In(fork, Canonical)))

\* A slice marked Saved has its headers in the tables, and those of the main
\* window are the canonical ones, also after an unwind and the switch that
\* follows it, up to where the tables and the windows have come apart.
SavedIsStored ==
  command = NoCommand =>
     /\ \A p \in In(main, {"Saved"}) : \A i \in DOMAIN main[p].headers :
          Start(p) + i - 1 < lost =>
            /\ main[p].headers[i] \in tx.headers
            /\ tx.canon[Start(p) + i - 1] = main[p].headers[i]
     /\ \A p \in In(fork, {"Saved"}) : \A i \in DOMAIN fork[p].headers :
          Start(p) + i - 1 < lost => fork[p].headers[i] \in tx.headers

\* Canonical rows of successive numbers are parent and child: no row of the
\* chain that was left stays above the connection block.
CanonicalLinked ==
  ~stale =>
     \A n \in Numbers : (n + 1 < lost /\ None \notin {tx.canon[n], tx.canon[n + 1]}) =>
                          Links(tx.canon[n + 1], tx.canon[n])

\* The stages that follow find every header up to the committed progress of
\* this one, although a run counts what the window says is Saved.
ProgressCovered ==
  \A n \in Start(Base) .. db.progress :
     n < lost => db.canon[n] # None /\ db.canon[n] \in db.headers

\* A block and its ancestors.
LineOf[b \in Blocks] == {b} \cup IF Parent[b] = None THEN {} ELSE LineOf[Parent[b]]

\* Every canonical header has its total difficulty, but for those of a fork
\* slice that a switch found Saved before the one below it, which never get it,
\* and what is built on them.
TotalsKnown ==
  ~stale =>
     \A n \in Numbers :
       (n < lost /\ tx.canon[n] # None /\ LineOf[tx.canon[n]] \cap early = {}) =>
         tx.canon[n] \in tx.totals

\* What SentryStatusProvider reports, tables::LastHeader, is a canonical
\* header at any time, also between an unwind and the switch.
LastIsCanonical == Number[tx.last] < lost => tx.canon[Number[tx.last]] = tx.last

\* The total difficulty of a block, from the first known one of its branch.
Total[b \in Blocks] ==
  Difficulty[b] + IF Parent[b] = None THEN 0 ELSE Total[Parent[b]]

\* The total difficulty at the end of the window's canonical slices.
Weight == LET leading == Leading(main)
          IN IF leading = {} THEN 0
             ELSE Total[Last(main[First(main) + Cardinality(leading) - 1].headers)]

\* The stage stops for two reasons only.  A switch panics if the fork reached
\* down to the first slice that the trimmed window keeps: then the end of the
\* run has cleared it although the command was pending.  A header is missed,
\* below the window or at the connection, only if the tables and the windows
\* have come apart.
StopsKnown ==
  /\ run = "panicked" => command.forkStart <= Start(First(main))
  /\ run = "failed" => lost # Nothing

\* What the tables, the windows and the other stages know of the chain stays
\* the same through runs, aborts, unwinds, switches and restarts.
TablesMatch ==
  SavedIsStored /\ CanonicalLinked /\ ProgressCovered /\ TotalsKnown /\ LastIsCanonical

\* The chain in the window is never left for a lighter one: not by the fork
\* mode, not by a switch that is executed after an unwind, not by trimming.
\* Only a window read again from the tables may end lower.
NeverLighter == [][loaded /\ loaded' => Weight' >= Weight]_vars
=============================================================================
