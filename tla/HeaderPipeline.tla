--------------------------- MODULE HeaderPipeline ---------------------------
(***************************************************************************)
(* The preverified and the linear phase of the header downloader: a window *)
(* of header slices (HeaderSlices) that the downloader's stages move       *)
(* through their statuses.                                                 *)
(*                                                                         *)
(* All stages of a phase are streams of one StreamMap, polled by a single  *)
(* task (DownloaderStageLoop::run).  A stage runs undisturbed from one     *)
(* await that is really pending to the next, so an action of this module   *)
(* is such a stretch.  The database calls of SaveStage never suspend (MDBX *)
(* is synchronous), the waits that do are: for a status counter, for room  *)
(* in the send queue, for a message, for a timer, for verification tasks.  *)
(*                                                                         *)
(* Units.  A slice is identified by its position in the phase, start block *)
(* / HEADER_SLICE_SIZE relative to the phase's start; 0 is the first slice *)
(* of the phase and NumSlices stands for final_block_num.  The deque of    *)
(* slices is a function whose domain is the set of positions in memory;    *)
(* its order is the order of the positions.                                *)
(*                                                                         *)
(* Headers.  What the verifiers can tell of a downloaded slice is: the     *)
(* branch its first header hangs from (up), the branch of its last header  *)
(* (tip), whether the headers are consistent with each other (ok) and      *)
(* whether it holds as many headers as a slice has to hold (in the         *)
(* preverified phase one more, the first of the next slice), those of one  *)
(* or more of the next slices too, up to another preverified hash, only    *)
(* the first, or some other number (len).                                  *)
(***************************************************************************)
EXTENDS Integers, FiniteSets

CONSTANTS
  Phase,        \* "preverified" or "linear"
  NumSlices,    \* slices between the phase's start and final block
  MaxSlices,    \* max_slices: what the memory limit allows
  Cpus,         \* num_cpus::get(), the verification batch size
  Peers,
  Branches,     \* branches of the header tree
  Trusted,      \* the branch of the phase's parent / preverified hashes
  Contents,     \* the header slices peers may answer with
  None          \* Option::None, of slice.headers and of slice.from_peer_id

SliceNum == 0 .. NumSlices - 1

Headers == [up : Branches, tip : Branches, ok : BOOLEAN,
            len : {"full", "long", "first", "part"}]

ASSUME PhaseAssumption == Phase \in {"preverified", "linear"}
ASSUME SizeAssumption == /\ NumSlices \in Nat \ {0}
                         /\ MaxSlices \in 1 .. NumSlices
                         /\ Cpus \in Nat \ {0}
ASSUME DataAssumption == /\ Trusted \in Branches
                         /\ Contents \subseteq Headers
                         /\ None \notin Headers \cup Peers

\* HeaderSliceStatus; Fork is a status of the forky phase only.
Status == {"Empty", "Waiting", "Downloaded", "VerifiedInternally",
           "Verified", "Invalid", "Saved"}

VARIABLES
  slices,        \* HeaderSlices.slices: position -> HeaderSlice
  maxNum,        \* HeaderSlices.max_block_num
  count,         \* HeaderSlices.state_watches[s].count
  watch,         \* value last sent to the receivers of state_watches[s]
  loop,          \* DownloaderStageLoop::run: "running", "over" or "failed"
  requestPc,     \* FetchRequestStage: "wait", or "capacity" when it waits
                 \* for room in the send queue
  retryPc,       \* RetryStage: "wait", or "sleep" in its 1 s timer
  verifying,     \* verification batch in flight: position -> verdict
  linkTip,       \* VerifyLinkLinearStage.last_verified_header
  linkRemaining, \* VerifyLinkLinearStage.remaining_count
  penalizePc,    \* PenalizeStage: "wait", or "send" in penalize_peers
  badPeers,      \* peers PenalizeStage has still to report
  collected,     \* history: slices whose peers it collected before it yielded
  saveRemaining, \* SaveStage.remaining_count
  reactorUp,     \* the sentry reactor's event loop is alive
  streamsUp,     \* its receive_messages() streams have not ended
  receivePc,     \* FetchReceiveStage: "new" before it subscribes to the
                 \* message stream, then "receiving", then "over" (is_over)
  estimatePc,    \* TopBlockEstimateStage, likewise
  penalized,     \* peers reported to the sentry
  db             \* tables::CanonicalHeader and Header, by the slice whose save
                 \* wrote them (a long one writes rows that the slices after
                 \* it write again, with the same headers)

window   == <<slices, maxNum, count>>
stagePcs == <<requestPc, retryPc, verifying, linkTip, linkRemaining,
              penalizePc, badPeers, collected, saveRemaining>>
streams  == <<reactorUp, streamsUp, receivePc, estimatePc>>
env      == <<streams, penalized>>
vars     == <<window, watch, loop, stagePcs, env, db>>

-----------------------------------------------------------------------------
(* HeaderSlices *)

Slice == [status : Status, headers : Contents \cup {None},
          peer : Peers \cup {None}]

\* HeaderSlice { start_block_num, ..Default::default() }
EmptySlice == [status |-> "Empty", headers |-> None, peer |-> None]

InStatus(s) == {i \in DOMAIN slices : slices[i].status = s}

\* The first n elements of a set of positions, in window order.
FirstN(S, n) == {i \in S : Cardinality({j \in S : j < i}) < n}

\* Mutant: the counter of the old status is not decremented.
CountAfterNoDecrement(f) ==
  [s \in Status |->
     count[s] + Cardinality({i \in DOMAIN slices : /\ slices[i].status # s
                                                   /\ f[i].status = s})]

\* set_slice_status for every slice that f changes: one counter goes down and
\* one goes up by one for each slice whose status really changes.
CountAfter(f) ==
  [s \in Status |->
     (count[s] - Cardinality({i \in DOMAIN slices : /\ slices[i].status = s
                                                    /\ f[i].status # s}))
     + Cardinality({i \in DOMAIN slices : /\ slices[i].status # s
                                          /\ f[i].status = s})]

Update(f) == /\ slices' = f
             /\ count' = CountAfter(f)
             /\ UNCHANGED maxNum

\* set_slice_status(slices[i], new[i]) for every i in the domain of new.
SetStatus(new) ==
  Update([i \in DOMAIN slices |->
            IF i \in DOMAIN new
            THEN [status |-> new[i], headers |-> slices[i].headers,
                  peer |-> slices[i].peer]
            ELSE slices[i]])

\* min_block_num(): the first slice in memory, or max_block_num.
MinNum ==
  IF DOMAIN slices = {} THEN maxNum
  ELSE CHOOSE i \in DOMAIN slices : \A j \in DOMAIN slices : i <= j

\* is_empty_at_final_position()
IsOver == maxNum >= NumSlices /\ DOMAIN slices = {}

-----------------------------------------------------------------------------
(* DownloaderStageLoop *)

\* The disjunction of the stages' can_proceed_check()s.  RetryStage never
\* says it can; TopBlockEstimateStage, which only the preverified phase runs,
\* says so until the reactor's streams end.
SomeStageCanProceed ==
  \/ count["Empty"] > 0
  \/ count["Waiting"] > 0 /\ receivePc # "over"
  \/ count["Downloaded"] > 0
  \/ count["VerifiedInternally"] > 0 /\ Phase = "linear"
  \/ count["Invalid"] > 0
  \/ count["Verified"] # saveRemaining
  \/ count["Saved"] > 0
  \/ Phase = "preverified" /\ estimatePc # "over"

\* Mutant: the watchers are not notified.
StageDoneSilent ==
  /\ UNCHANGED watch
  /\ IF IsOver' \/ ~SomeStageCanProceed' THEN loop' = "over"
                                          ELSE UNCHANGED loop

\* What the loop does when a stage's execute() has returned Ok.
StageDone ==
  IF IsOver' \/ ~SomeStageCanProceed'
  THEN loop' = "over" /\ UNCHANGED watch
  ELSE watch' = count' /\ UNCHANGED loop

\* What it does when execute() has returned an error.
StageFailed == loop' = "failed" /\ UNCHANGED watch

\* A stage that yields inside execute() leaves the loop waiting.
StageYields == UNCHANGED <<loop, watch>>

\* HeaderSliceStatusWatch::wait_while(value).  A stage that is asleep inside
\* changed().await is woken by the value last sent; one that has not been
\* polled yet also looks at the counter itself.
Woken(s, value) == watch[s] # value
MayStart(s, value) == count[s] # value \/ Woken(s, value)

-----------------------------------------------------------------------------
(* FetchRequestStage *)

\* request_pending: the first slices of the window that are Empty are
\* requested until the send queue is full; the queue is drained concurrently,
\* so how many fit is not determined.
FetchRequest ==
  /\ loop = "running"
  /\ requestPc = "wait"
  /\ MayStart("Empty", 0)
  /\ UNCHANGED <<retryPc, verifying, linkTip, linkRemaining, penalizePc,
                 badPeers, collected, saveRemaining, env, db>>
  /\ IF ~reactorUp /\ InStatus("Empty") # {}
     THEN StageFailed /\ UNCHANGED <<window, requestPc>>
     ELSE \E n \in 0 .. Cardinality(InStatus("Empty")) :
            /\ SetStatus([i \in FirstN(InStatus("Empty"), n) |-> "Waiting"])
            /\ IF count'["Empty"] > 0
               THEN requestPc' = "capacity" /\ StageYields
               ELSE UNCHANGED requestPc /\ StageDone

\* capacity_future resolves: a slot is free, or the channel is closed.
FetchRequestCapacity ==
  /\ loop = "running"
  /\ requestPc = "capacity"
  /\ requestPc' = "wait"
  /\ UNCHANGED <<window, retryPc, verifying, linkTip, linkRemaining,
                 penalizePc, badPeers, collected, saveRemaining, env, db>>
  /\ IF reactorUp THEN StageDone ELSE StageFailed

-----------------------------------------------------------------------------
(* FetchReceiveStage *)

\* receive_messages(): a stopped reactor is an error; if only the sentry's
\* stream has ended the subscription is an empty stream.
Subscribe(pc) ==
  IF reactorUp THEN pc' = "receiving" /\ StageYields
               ELSE UNCHANGED pc /\ StageFailed

FetchReceiveSubscribe ==
  /\ loop = "running"
  /\ receivePc = "new"
  /\ UNCHANGED <<window, stagePcs, reactorUp, streamsUp, estimatePc,
                 penalized, db>>
  /\ Subscribe(receivePc)

\* Mutant: an answer to a slice that has been downloaded replaces it.
ReceivableTwice == InStatus("Waiting") \cup InStatus("Downloaded")

\* The slices whose answer on_headers_message takes.
Receivable == InStatus("Waiting")

\* on_headers_message: headers c for slice i from peer p.  A peer that was
\* asked may answer late, twice or after another one, and the request id is
\* not compared, so any answer for any slice may come at any time.
FetchReceive(i, c, p) ==
  /\ loop = "running"
  /\ receivePc = "receiving"
  /\ i \in Receivable
  /\ Update([slices EXCEPT ![i] = [status |-> "Downloaded",
                                   headers |-> c, peer |-> p]])
  /\ UNCHANGED <<stagePcs, env, db>>
  /\ StageDone

\* An empty message, or one for a slice that is not (or no longer) Waiting.
FetchReceiveIgnored ==
  /\ loop = "running"
  /\ receivePc = "receiving"
  /\ UNCHANGED <<window, stagePcs, env, db>>
  /\ StageDone

\* The message stream has ended; execute() finds it so again every second.
FetchReceiveEnds ==
  /\ loop = "running"
  /\ receivePc # "new" /\ ~streamsUp
  /\ receivePc' = "over"
  /\ UNCHANGED <<window, stagePcs, reactorUp, streamsUp, estimatePc,
                 penalized, db>>
  /\ StageDone

-----------------------------------------------------------------------------
(* RetryStage *)

RetryWait ==
  /\ loop = "running"
  /\ retryPc = "wait"
  /\ MayStart("Waiting", 0)
  /\ retryPc' = "sleep"
  /\ StageYields
  /\ UNCHANGED <<window, requestPc, verifying, linkTip, linkRemaining,
                 penalizePc, badPeers, collected, saveRemaining, env, db>>

\* reset_pending: time is not modelled, any Waiting slice may have expired.
RetryReset ==
  /\ loop = "running"
  /\ retryPc = "sleep"
  /\ retryPc' = "wait"
  /\ \E expired \in SUBSET InStatus("Waiting") :
       SetStatus([i \in expired |-> "Empty"])
  /\ UNCHANGED <<requestPc, verifying, linkTip, linkRemaining, penalizePc,
                 badPeers, collected, saveRemaining, env, db>>
  /\ StageDone

-----------------------------------------------------------------------------
(* VerifyPreverifiedStage (preverified) and VerifySlicesStage (linear) *)

\* Mutant: the last header is not compared with the hash of its position.
VerifyPreverifiedFirst(h) ==
  /\ h # None
  /\ h.ok /\ h.up = Trusted /\ h.tip = Trusted

\* VerifyPreverifiedStage::verify_slice: the first and the last header have
\* the preverified hash of their position and parent hashes link them.  The
\* last position is start + len - 1, whatever len is: a slice of one header is
\* compared with the hash of its start twice, a long one with a later hash.
VerifyPreverified(h) ==
  /\ h # None
  /\ h.ok /\ h.up = Trusted /\ h.tip = Trusted
  /\ h.len # "part"

\* HeaderSliceVerifier::verify_slice: consistency inside the slice only.
VerifyInternally(h) == h # None /\ h.ok

Verdict(h) == IF Phase = "preverified" THEN VerifyPreverified(h)
                                       ELSE VerifyInternally(h)

VerifiedStatus == IF Phase = "preverified" THEN "Verified"
                                           ELSE "VerifiedInternally"

\* find_batch_by_status, and the verdicts its tasks will come back with.
Batch(f) ==
  LET downloaded == {i \in DOMAIN f : f[i].status = "Downloaded"}
  IN [i \in FirstN(downloaded, Cpus) |-> Verdict(f[i].headers)]

VerifyStart ==
  /\ loop = "running"
  /\ DOMAIN verifying = {}
  /\ MayStart("Downloaded", 0)
  /\ verifying' = Batch(slices)
  /\ UNCHANGED <<window, requestPc, retryPc, linkTip, linkRemaining,
                 penalizePc, badPeers, collected, saveRemaining, env, db>>
  /\ IF DOMAIN verifying' = {} THEN StageDone ELSE StageYields

\* The tasks are joined; the statuses are set from their verdicts and the next
\* batch is started, or execute() returns if nothing is Downloaded any more.
VerifyFinish ==
  /\ loop = "running"
  /\ DOMAIN verifying # {}
  /\ SetStatus([i \in DOMAIN verifying |->
                  IF verifying[i] THEN VerifiedStatus ELSE "Invalid"])
  /\ verifying' = Batch(slices')
  /\ UNCHANGED <<requestPc, retryPc, linkTip, linkRemaining, penalizePc,
                 badPeers, collected, saveRemaining, env, db>>
  /\ IF DOMAIN verifying' = {} THEN StageDone ELSE StageYields

-----------------------------------------------------------------------------
(* VerifyLinkLinearStage, invalid_status = Invalid *)

\* find_next_pending_monotonic, repeated: the VerifiedInternally slices that
\* nothing but linked slices precedes, at most pending_count of them.
LinkCandidates ==
  FirstN({i \in InStatus("VerifiedInternally") :
            \A j \in DOMAIN slices :
              j < i => slices[j].status \in {"Verified", "Saved",
                                             "VerifiedInternally"}},
         count["VerifiedInternally"])

\* Mutant: every slice is compared with the header the pass started with.
ParentTipStale(i) == linkTip

\* The branch of the header that precedes slice i: last_verified_header when
\* the pass gets to i.
ParentTip(i) == IF i - 1 \in LinkCandidates THEN slices[i - 1].headers.tip
                                            ELSE linkTip

\* verify_slice_link against the header that precedes the slice.
LinkVerified(i) ==
  LET h == slices[i].headers
  IN h # None /\ h.len = "full" /\ h.up = ParentTip(i)

\* verify_pending_monotonic: links slices up to the first that does not link;
\* that one becomes Invalid and ends the pass.
Linked == {i \in LinkCandidates :
             \A j \in LinkCandidates : j <= i => LinkVerified(j)}
Broken == {i \in LinkCandidates \ Linked :
             \A j \in LinkCandidates : j < i => j \in Linked}

VerifyLink ==
  /\ loop = "running"
  /\ Phase = "linear"
  /\ MayStart("VerifiedInternally", linkRemaining)
  /\ SetStatus([i \in Linked \cup Broken |->
                  IF i \in Linked THEN "Verified" ELSE "Invalid"])
  /\ IF Linked = {} THEN UNCHANGED linkTip
     ELSE \E last \in Linked : /\ \A i \in Linked : i <= last
                               /\ linkTip' = slices[last].headers.tip
  /\ linkRemaining' = count["VerifiedInternally"]
                      - Cardinality(Linked \cup Broken)
  /\ UNCHANGED <<requestPc, retryPc, verifying, penalizePc, badPeers,
                 collected, saveRemaining, env, db>>
  /\ StageDone

-----------------------------------------------------------------------------
(* PenalizeStage *)

\* reset_pending: every Invalid slice is Empty again.
ResetInvalid ==
  Update([i \in DOMAIN slices |->
            IF slices[i].status = "Invalid"
            THEN [status |-> "Empty", headers |-> None, peer |-> slices[i].peer]
            ELSE slices[i]])

\* Mutant: a full queue makes the stage forget the peers it has left.
PenalizePeersForget(bad, invalid) ==
  IF ~reactorUp /\ bad # {}
  THEN /\ StageFailed
       /\ UNCHANGED <<window, penalizePc, badPeers, collected, penalized>>
  ELSE \E sent \in SUBSET bad :
         /\ penalized' = penalized \cup sent
         /\ badPeers' = {}
         /\ \/ /\ sent = bad
               /\ penalizePc' = "wait"
               /\ collected' = {}
               /\ ResetInvalid
               /\ StageDone
            \/ /\ sent # bad
               /\ penalizePc' = "send"
               /\ collected' = invalid
               /\ UNCHANGED window
               /\ StageYields

\* penalize_peers(bad), the peers of the slices that were Invalid, then
\* reset_pending.  Each send waits for room in the send queue, so only some of
\* the peers may be reported before it yields; reset_pending looks at the
\* statuses again after the last one.
PenalizePeers(bad, invalid) ==
  IF ~reactorUp /\ bad # {}
  THEN /\ StageFailed
       /\ UNCHANGED <<window, penalizePc, badPeers, collected, penalized>>
  ELSE \E sent \in SUBSET bad :
         /\ penalized' = penalized \cup sent
         /\ badPeers' = bad \ sent
         /\ \/ /\ sent = bad
               /\ penalizePc' = "wait"
               /\ collected' = {}
               /\ ResetInvalid
               /\ StageDone
            \/ /\ sent # bad
               /\ penalizePc' = "send"
               /\ collected' = invalid
               /\ UNCHANGED window
               /\ StageYields

\* collect_bad_peers
Penalize ==
  /\ loop = "running"
  /\ penalizePc = "wait"
  /\ MayStart("Invalid", 0)
  /\ UNCHANGED <<requestPc, retryPc, verifying, linkTip, linkRemaining,
                 saveRemaining, streams, db>>
  /\ PenalizePeers({slices[i].peer : i \in InStatus("Invalid")} \ {None},
                   InStatus("Invalid"))

PenalizeContinue ==
  /\ loop = "running"
  /\ penalizePc = "send"
  /\ UNCHANGED <<requestPc, retryPc, verifying, linkTip, linkRemaining,
                 saveRemaining, streams, db>>
  /\ PenalizePeers(badPeers, collected)

-----------------------------------------------------------------------------
(* SaveStage, SaveOrder::Monotonic, is_canonical_chain = true *)

\* find_next_pending_monotonic, repeated at most pending_count times.
SaveCandidates ==
  FirstN({i \in InStatus("Verified") :
            \A j \in DOMAIN slices :
              j < i => slices[j].status \in {"Saved", "Verified"}},
         count["Verified"])

\* save_pending_monotonic stops with an error at a slice without headers.
Savable == {i \in SaveCandidates :
              \A j \in SaveCandidates : j <= i => slices[j].headers # None}

\* Mutant: the slices that have been saved are counted among the remaining.
RemainingAll == count["Verified"]

\* pending_count - saved_count
Remaining == count["Verified"] - Cardinality(Savable)

Save ==
  /\ loop = "running"
  /\ MayStart("Verified", saveRemaining)
  /\ db' = [i \in SliceNum |-> IF i \in Savable THEN slices[i].headers
                                               ELSE db[i]]
  /\ SetStatus([i \in Savable |-> "Saved"])
  /\ UNCHANGED <<requestPc, retryPc, verifying, linkTip, linkRemaining,
                 penalizePc, badPeers, collected, env>>
  /\ \/ /\ Savable = SaveCandidates
        /\ saveRemaining' = Remaining
        /\ StageDone
     \/ /\ Savable # SaveCandidates
        /\ UNCHANGED saveRemaining
        /\ StageFailed

-----------------------------------------------------------------------------
(* RefillStage *)

\* Mutant: Verified slices are removed too.
RemovableVerified == InStatus("Saved") \cup InStatus("Verified")

\* The slices refill() adds when there is room for that many.
Refillable(room) == {i \in SliceNum : maxNum <= i /\ i < maxNum + room}

\* The slices that remove(Saved) takes out.
Removable == InStatus("Saved")

Refill ==
  /\ loop = "running"
  /\ MayStart("Saved", 0)
  /\ LET kept  == DOMAIN slices \ Removable
         added == Refillable(MaxSlices - Cardinality(kept))
     IN /\ slices' = [i \in kept \cup added |->
                        IF i \in kept THEN slices[i] ELSE EmptySlice]
        /\ maxNum' = maxNum + Cardinality(added)
        /\ count' = [count EXCEPT !["Saved"] = @ - Cardinality(Removable),
                                  !["Empty"] = @ + Cardinality(added)]
  /\ UNCHANGED <<stagePcs, env, db>>
  /\ StageDone

-----------------------------------------------------------------------------
(* TopBlockEstimateStage and the sentry reactor *)

TopBlockEstimateSubscribe ==
  /\ loop = "running"
  /\ Phase = "preverified"
  /\ estimatePc = "new"
  /\ UNCHANGED <<window, stagePcs, reactorUp, streamsUp, receivePc,
                 penalized, db>>
  /\ Subscribe(estimatePc)

\* on_message: the estimate is no input of this phase, but the stage's
\* execute() returns and the loop goes round.
TopBlockEstimate ==
  /\ loop = "running"
  /\ estimatePc = "receiving"
  /\ UNCHANGED <<window, stagePcs, env, db>>
  /\ StageDone

TopBlockEstimateEnds ==
  /\ loop = "running"
  /\ estimatePc # "new" /\ ~streamsUp
  /\ estimatePc' = "over"
  /\ UNCHANGED <<window, stagePcs, reactorUp, streamsUp, receivePc,
                 penalized, db>>
  /\ StageDone

\* The sentry ends its message stream: the reactor drops the senders of its
\* subscribers, but still takes commands.
ReceiveStreamEnds ==
  /\ loop = "running"
  /\ streamsUp
  /\ streamsUp' = FALSE
  /\ UNCHANGED <<window, watch, loop, stagePcs, reactorUp, receivePc,
                 estimatePc, penalized, db>>

\* SentryClientReactorEventLoop::run returns and drops all its channels.
ReactorStops ==
  /\ loop = "running"
  /\ reactorUp
  /\ reactorUp' = FALSE
  /\ streamsUp' = FALSE
  /\ UNCHANGED <<window, watch, loop, stagePcs, receivePc, estimatePc,
                 penalized, db>>

-----------------------------------------------------------------------------

Init ==
  /\ slices = [i \in 0 .. MaxSlices - 1 |-> EmptySlice]
  /\ maxNum = MaxSlices
  /\ count = [s \in Status |-> IF s = "Empty" THEN MaxSlices ELSE 0]
  /\ watch = count
  /\ loop = "running"
  /\ requestPc = "wait"
  /\ retryPc = "wait"
  /\ verifying = [i \in {} |-> TRUE]
  /\ linkTip = Trusted
  /\ linkRemaining = 0
  /\ penalizePc = "wait"
  /\ badPeers = {}
  /\ collected = {}
  /\ saveRemaining = 0
  /\ reactorUp = TRUE
  /\ streamsUp = TRUE
  /\ receivePc = "new"
  /\ estimatePc = "new"
  /\ penalized = {}
  /\ db = [i \in SliceNum |-> None]

\* The stages are only polled while the loop runs, so every action says so.
Next ==
  \/ FetchRequest
  \/ FetchRequestCapacity
  \/ FetchReceiveSubscribe
  \/ \E i \in SliceNum, c \in Contents, p \in Peers \cup {None} :
       FetchReceive(i, c, p)
  \/ FetchReceiveIgnored
  \/ FetchReceiveEnds
  \/ RetryWait
  \/ RetryReset
  \/ VerifyStart
  \/ VerifyFinish
  \/ VerifyLink
  \/ Penalize
  \/ PenalizeContinue
  \/ Save
  \/ Refill
  \/ TopBlockEstimateSubscribe
  \/ TopBlockEstimate
  \/ TopBlockEstimateEnds
  \/ ReceiveStreamEnds
  \/ ReactorStops

Spec == Init /\ [][Next]_vars

\* What the runtime guarantees: StreamMap polls the streams from a random
\* position, so a stage that has been woken, whose timer has fired, whose
\* send queue slot is free or whose tasks have ended is resumed eventually.
\* A stage asleep in wait_while() is woken by a notification only: nothing is
\* promised for one whose counter has changed since.  The reactor drains the
\* send queue, so FetchRequestStage does not find it full each time; a slice
\* that stays Waiting while RetryStage makes its rounds expires.
Fairness ==
  /\ WF_vars(Woken("Empty", 0) /\ FetchRequest)
  /\ SF_vars(/\ Woken("Empty", 0) /\ FetchRequest
             /\ slices' # slices)
  /\ WF_vars(FetchRequestCapacity)
  /\ WF_vars(FetchReceiveSubscribe)
  /\ WF_vars(Woken("Waiting", 0) /\ RetryWait)
  /\ WF_vars(RetryReset)
  /\ \A i \in SliceNum :
       SF_vars(/\ RetryReset
               /\ i \in InStatus("Waiting") /\ slices'[i].status = "Empty")
  /\ WF_vars(Woken("Downloaded", 0) /\ VerifyStart)
  /\ WF_vars(VerifyFinish)
  /\ WF_vars(/\ VerifyLink
             /\ Woken("VerifiedInternally", linkRemaining))
  /\ WF_vars(Woken("Invalid", 0) /\ Penalize)
  /\ WF_vars(PenalizeContinue)
  /\ WF_vars(Woken("Verified", saveRemaining) /\ Save)
  /\ WF_vars(Woken("Saved", 0) /\ Refill)

FairSpec == Spec /\ Fairness

-----------------------------------------------------------------------------
(* Properties *)

WindowType ==
  /\ DOMAIN slices \subseteq SliceNum
  /\ slices \in [DOMAIN slices -> Slice]
  /\ maxNum \in 0 .. NumSlices
  /\ count \in [Status -> Int]

StageType ==
  /\ requestPc \in {"wait", "capacity"}
  /\ retryPc \in {"wait", "sleep"}
  /\ DOMAIN verifying \subseteq SliceNum
  /\ verifying \in [DOMAIN verifying -> BOOLEAN]
  /\ linkTip \in Branches
  /\ linkRemaining \in Int
  /\ penalizePc \in {"wait", "send"}
  /\ badPeers \subseteq Peers
  /\ collected \subseteq SliceNum
  /\ saveRemaining \in Int

EnvType ==
  /\ reactorUp \in BOOLEAN
  /\ streamsUp \in BOOLEAN
  /\ receivePc \in {"new", "receiving", "over"}
  /\ estimatePc \in {"new", "receiving", "over"}
  /\ penalized \subseteq Peers

\* The variables have the types of the fields they stand for; in particular
\* the window stays inside the phase's range of slices, and only peers that
\* are known are reported.
TypeOK ==
  /\ WindowType
  /\ watch \in [Status -> Int]
  /\ loop \in {"running", "over", "failed"}
  /\ StageType
  /\ EnvType
  /\ db \in [SliceNum -> Contents \cup {None}]

\* The status counters, which stages wait on and which decide when the loop
\* ends, always agree with the statuses of the slices in memory, although
\* they are updated one by one by set_slice_status, remove and refill.
CountersMatch ==
  \A s \in Status : count[s] = Cardinality(InStatus(s))

\* The window is an unbroken range of at most max_slices slices that ends at
\* max_block_num: remove(Saved) never leaves a hole.
WindowContiguous ==
  /\ DOMAIN slices = MinNum .. maxNum - 1
  /\ Cardinality(DOMAIN slices) <= MaxSlices

\* Everything below min_block_num, the final block number the phase reports,
\* has been saved, and nothing was saved ahead of a gap.
ReportedIsSaved ==
  /\ \A i \in SliceNum : i < MinNum => db[i] # None
  /\ \A i, j \in SliceNum : (j < i /\ db[i] # None) => db[j] # None

\* verify_pending applies verdicts after an await: they are still about the
\* headers the slice holds, and the slice is still Downloaded.
VerdictsFresh ==
  \A i \in DOMAIN verifying :
    /\ i \in InStatus("Downloaded")
    /\ verifying[i] = Verdict(slices[i].headers)

\* The loop ends early only when no more answers can come: it never concludes
\* that no stage can proceed while slices are missing, and SaveStage, which says
\* so by comparing a counter with what its last pass left, is never silent by
\* coincidence.  Nor does a stage meet the inconsistent state that
\* SaveStage::save_slice reports as an error.
LoopEndsWhenDone ==
  /\ loop = "over" => IsOver \/ ~streamsUp
  /\ loop = "failed" => ~reactorUp

Chain == INSTANCE HeaderChain
           WITH chain <- [k \in 1 .. Cardinality({i \in SliceNum :
                                                  db[i] # None}) |-> db[k - 1]],
                progress <- MinNum

\* The pipeline implements an append-only chain of linked headers with a
\* progress that only moves forward over saved headers: whatever the stages'
\* interleaving and the peers' answers, each saved slice hangs from the last
\* header of the one before it, none is written again or saved past a gap, and
\* min_block_num never moves back.
ImplementsChain == Chain!Spec

Requested(i) == i \in InStatus("Waiting")
AnsweredHonestly(i) ==
  /\ i \in InStatus("Downloaded")
  /\ slices[i].headers = [up |-> Trusted, tip |-> Trusted, ok |-> TRUE,
                          len |-> "full"]

\* If no message stream ends, and a slice that is requested again and again
\* is answered honestly now and then (any answer may be lost and the peer is
\* picked at random), the phase completes: the stages never all wait for each
\* other's notifications.  Only a consistent slice that leaves the trusted
\* branch, once it is verified, leaves the slices after it without a parent.
PhaseCompletes ==
  (/\ []streamsUp
   /\ \A i \in SliceNum :
        []<>Requested(i) /\ []<>~Requested(i) => []<>AnsweredHonestly(i))
  => \/ <>(loop = "over" /\ IsOver)
     \/ <>(\E i \in InStatus("Verified") : slices[i].headers.tip # Trusted)

\* A preverified slice is saved only with all its headers, whatever peers cut
\* short or add: what is beyond the slice are headers up to another preverified
\* hash.  The exception is an answer of a single header, whose last header is
\* its first one and is compared with the hash of its start twice.
SavedSlicesComplete ==
  \A i \in SliceNum : db[i] # None => db[i].len \in {"full", "long", "first"}

\* An Invalid slice is requested again only when the peer that sent it has
\* been reported, whatever else the queue and the other stages do; except a
\* slice that became Invalid while PenalizeStage was waiting for the queue,
\* which is reset with the others although its peer was not collected.
PenalizedBeforeRefetch ==
  [][\A i \in InStatus("Invalid") :
       i \in DOMAIN slices' /\ slices'[i].status = "Empty" =>
         \/ slices[i].peer \in penalized' \cup {None}
         \/ penalizePc = "send" /\ i \notin collected]_vars
=============================================================================
