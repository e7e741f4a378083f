------------------------ MODULE HeaderPipelineProofs ------------------------
(***************************************************************************)
(* Proofs about HeaderPipeline, that it implements HeaderChain and of what *)
(* else follows from how slices are linked, for every number of slices,    *)
(* window size, batch size, set of peers and set of answers.               *)
(***************************************************************************)
EXTENDS HeaderPipeline, Sequences, FiniteSetTheorems, TLAPS

-----------------------------------------------------------------------------
(* Type correctness *)

\* Any set of slice positions is finite.
LEMMA FinitePositions ==
  ASSUME NEW S \in SUBSET SliceNum
  PROVE  IsFiniteSet(S) /\ Cardinality(S) \in Nat
<1>1. IsFiniteSet(SliceNum)
  BY SizeAssumption, FS_Interval DEF SliceNum
<1> QED
  BY <1>1, FS_Subset, FS_CardinalityType

\* Counters stay integers when statuses change.
LEMMA CountAfterType ==
  ASSUME DOMAIN slices \subseteq SliceNum, count \in [Status -> Int], NEW f
  PROVE  CountAfter(f) \in [Status -> Int]
<1> SUFFICES ASSUME NEW s \in Status
             PROVE  CountAfter(f)[s] \in Int
  BY DEF CountAfter
<1> DEFINE L == {i \in DOMAIN slices : slices[i].status = s /\ f[i].status # s}
           E == {i \in DOMAIN slices : slices[i].status # s /\ f[i].status = s}
<1>1. Cardinality(L) \in Nat /\ Cardinality(E) \in Nat
  BY FinitePositions
<1>2. CountAfter(f)[s] = (count[s] - Cardinality(L)) + Cardinality(E)
  BY DEF CountAfter
<1> QED
  BY <1>1, <1>2

\* Replacing slices by slices of the right type keeps the window's types.
LEMMA UpdateType ==
  ASSUME WindowType, NEW f \in [DOMAIN slices -> Slice], Update(f)
  PROVE  WindowType'
<1>1. CountAfter(f) \in [Status -> Int]
  BY CountAfterType DEF WindowType
<1> QED
  BY <1>1 DEF WindowType, Update

\* set_slice_status keeps the window's types.
LEMMA SetStatusType ==
  ASSUME WindowType, NEW new, \A i \in DOMAIN new : new[i] \in Status,
         SetStatus(new)
  PROVE  WindowType'
<1> DEFINE f == [i \in DOMAIN slices |->
                   IF i \in DOMAIN new
                   THEN [status |-> new[i], headers |-> slices[i].headers,
                         peer |-> slices[i].peer]
                   ELSE slices[i]]
<1>1. f \in [DOMAIN slices -> Slice]
  BY DEF WindowType, Slice
<1>2. Update(f)
  BY DEF SetStatus
<1> QED
  BY <1>1, <1>2, UpdateType

\* The end of a step of a stage leaves the loop in one of its three states.
LEMMA StageEndType ==
  ASSUME TypeOK, count' \in [Status -> Int],
         StageDone \/ StageFailed \/ StageYields
  PROVE  /\ watch' \in [Status -> Int]
         /\ loop' \in {"running", "over", "failed"}
BY DEF TypeOK, StageDone, StageFailed, StageYields

\* A verification batch maps positions of the phase to verdicts.
LEMMA BatchType ==
  ASSUME NEW f, DOMAIN f \subseteq SliceNum
  PROVE  /\ DOMAIN Batch(f) \subseteq SliceNum
         /\ Batch(f) \in [DOMAIN Batch(f) -> BOOLEAN]
<1>1. \A h : Verdict(h) \in BOOLEAN
  BY DEF Verdict, VerifyPreverified, VerifyInternally
<1> QED
  BY <1>1 DEF Batch, FirstN

\* penalize_peers and reset_pending keep the types, for any set of peers.
LEMMA PenalizeType ==
  ASSUME TypeOK, NEW bad \in SUBSET Peers, NEW invalid \in SUBSET SliceNum,
         PenalizePeers(bad, invalid),
         UNCHANGED <<requestPc, retryPc, verifying, linkTip, linkRemaining,
                     saveRemaining, streams, db>>
  PROVE  TypeOK'
<1> USE DEF TypeOK, StageType, EnvType, streams
<1>1. CASE ~reactorUp /\ bad # {}
  BY <1>1, StageEndType DEF PenalizePeers, window, WindowType
<1>2. CASE ~(~reactorUp /\ bad # {})
  <2> DEFINE f == [i \in DOMAIN slices |->
                     IF slices[i].status = "Invalid"
                     THEN [status |-> "Empty", headers |-> None,
                           peer |-> slices[i].peer]
                     ELSE slices[i]]
  <2>1. f \in [DOMAIN slices -> Slice]
    BY DEF WindowType, Slice, Status
  <2>2. PICK sent \in SUBSET bad :
          /\ penalized' = penalized \cup sent
          /\ badPeers' = bad \ sent
          /\ \/ /\ penalizePc' = "wait" /\ collected' = {}
                /\ Update(f) /\ StageDone
             \/ /\ penalizePc' = "send" /\ collected' = invalid
                /\ UNCHANGED window /\ StageYields
    BY <1>2 DEF PenalizePeers, ResetInvalid
  <2> HIDE DEF f
  <2>3. WindowType'
    BY <2>1, <2>2, UpdateType DEF window, WindowType
  <2> QED
    BY <2>2, <2>3, StageEndType DEF WindowType
<1> QED
  BY <1>1, <1>2

\* The slices that refill() adds are the next ones, up to the final block.
LEMMA RefillableInterval ==
  ASSUME NEW room \in Int, maxNum \in 0 .. NumSlices
  PROVE  \E last \in Int :
           /\ Refillable(room) = maxNum .. last
           /\ last <= NumSlices - 1
           /\ last <= maxNum + room - 1
           /\ last = NumSlices - 1 \/ last = maxNum + room - 1
<1>1. CASE maxNum + room <= NumSlices
  <2>1. Refillable(room) = maxNum .. maxNum + room - 1
    BY <1>1, SizeAssumption DEF Refillable, SliceNum
  <2> WITNESS maxNum + room - 1 \in Int
  <2> QED
    BY <1>1, <2>1, SizeAssumption
<1>2. CASE maxNum + room > NumSlices
  BY <1>2, SizeAssumption DEF Refillable, SliceNum
<1> QED
  BY <1>1, <1>2, SizeAssumption

\* RefillStage keeps the window inside the phase's range.
LEMMA RefillType ==
  ASSUME WindowType, Refill
  PROVE  WindowType'
<1> DEFINE kept == DOMAIN slices \ Removable
           added == Refillable(MaxSlices - Cardinality(kept))
<1>1. kept \subseteq SliceNum /\ Cardinality(kept) \in Nat
  BY FinitePositions DEF WindowType
<1>2. PICK last \in Int : /\ added = maxNum .. last
                          /\ last <= NumSlices - 1
  <2>1. MaxSlices - Cardinality(kept) \in Int
    BY <1>1, SizeAssumption
  <2> QED
    BY <2>1, RefillableInterval DEF WindowType
<1>3. Cardinality(added) = IF maxNum > last THEN 0 ELSE last - maxNum + 1
  BY <1>2, FS_Interval DEF WindowType
<1>4. Cardinality(Removable) \in Nat
  <2>1. Removable \in SUBSET SliceNum
    BY DEF Removable, InStatus, WindowType
  <2> QED
    BY <2>1, FinitePositions
<1>5. /\ slices' = [i \in kept \cup added |->
                      IF i \in kept THEN slices[i] ELSE EmptySlice]
      /\ maxNum' = maxNum + Cardinality(added)
      /\ count' = [count EXCEPT !["Saved"] = @ - Cardinality(Removable),
                                !["Empty"] = @ + Cardinality(added)]
  BY DEF Refill
<1>6. maxNum' \in 0 .. NumSlices /\ added \subseteq SliceNum
  <2>1. added \subseteq SliceNum
    BY DEF Refillable
  <2>2. maxNum' \in 0 .. NumSlices
    BY <1>2, <1>3, <1>5, SizeAssumption DEF WindowType
  <2> QED
    BY <2>1, <2>2
<1>7. count' \in [Status -> Int]
  <2>1. Cardinality(added) \in Int
    BY <1>2, <1>3 DEF WindowType
  <2> DEFINE afterRemove ==
               [count EXCEPT !["Saved"] = @ - Cardinality(Removable)]
  <2>2. afterRemove \in [Status -> Int]
    BY <1>4 DEF WindowType, Status
  <2>3. count' = [afterRemove EXCEPT !["Empty"] = @ + Cardinality(added)]
    BY <1>5
  <2> HIDE DEF afterRemove
  <2> QED
    BY <2>1, <2>2, <2>3 DEF Status
<1>8. EmptySlice \in Slice
  BY DEF EmptySlice, Slice, Status
<1>9. DOMAIN slices' \subseteq SliceNum /\ slices' \in [DOMAIN slices' -> Slice]
  BY <1>1, <1>5, <1>6, <1>8 DEF WindowType
<1> QED
  BY <1>6, <1>7, <1>9 DEF WindowType

\* Every step of every stage preserves the types.
LEMMA TypeStep ==
  ASSUME TypeOK, [Next]_vars
  PROVE  TypeOK'
<1> USE DEF TypeOK, StageType, EnvType
<1>0. CASE UNCHANGED vars
  BY <1>0 DEF vars, window, stagePcs, streams, env, WindowType
<1> DEFINE OthersUnchanged == UNCHANGED <<stagePcs, env, db>>
<1>1. CASE FetchRequest
  <2>1. CASE ~reactorUp /\ InStatus("Empty") # {}
    <3>1. WindowType' /\ count' \in [Status -> Int]
      BY <1>1, <2>1 DEF FetchRequest, window, WindowType
    <3> QED
      BY <1>1, <2>1, <3>1, StageEndType DEF FetchRequest, env, streams
  <2>2. CASE ~(~reactorUp /\ InStatus("Empty") # {})
    <3>1. PICK n \in 0 .. Cardinality(InStatus("Empty")) :
            /\ SetStatus([i \in FirstN(InStatus("Empty"), n) |-> "Waiting"])
            /\ IF count'["Empty"] > 0
               THEN requestPc' = "capacity" /\ StageYields
               ELSE UNCHANGED requestPc /\ StageDone
      BY <1>1, <2>2 DEF FetchRequest
    <3>2. WindowType'
      BY <3>1, SetStatusType DEF Status
    <3> QED
      BY <1>1, <3>1, <3>2, StageEndType
         DEF FetchRequest, WindowType, env, streams
  <2> QED
    BY <2>1, <2>2
<1>2. CASE FetchRequestCapacity
  BY <1>2, StageEndType
     DEF FetchRequestCapacity, window, WindowType, env, streams
<1>3. CASE FetchReceiveSubscribe
  BY <1>3, StageEndType
     DEF FetchReceiveSubscribe, Subscribe, window, WindowType, stagePcs
<1>4. ASSUME NEW i \in SliceNum, NEW c \in Contents,
             NEW p \in Peers \cup {None}, FetchReceive(i, c, p)
      PROVE  TypeOK'
  <2> DEFINE f == [slices EXCEPT ![i] = [status |-> "Downloaded",
                                         headers |-> c, peer |-> p]]
  <2>1. f \in [DOMAIN slices -> Slice]
    BY DEF WindowType, Slice, Status
  <2>2. Update(f) /\ OthersUnchanged /\ StageDone
    BY <1>4 DEF FetchReceive
  <2> HIDE DEF f
  <2>3. WindowType'
    BY <2>1, <2>2, UpdateType
  <2> QED
    BY <2>2, <2>3, StageEndType DEF WindowType, stagePcs, env, streams
<1>5. CASE FetchReceiveIgnored
  BY <1>5, StageEndType
     DEF FetchReceiveIgnored, window, WindowType, stagePcs, env, streams
<1>6. CASE FetchReceiveEnds
  BY <1>6, StageEndType DEF FetchReceiveEnds, window, WindowType, stagePcs
<1>7. CASE RetryWait
  BY <1>7, StageEndType DEF RetryWait, window, WindowType, env, streams
<1>8. CASE RetryReset
  <2>1. WindowType'
    BY <1>8, SetStatusType DEF RetryReset, Status
  <2> QED
    BY <1>8, <2>1, StageEndType DEF RetryReset, WindowType, env, streams
<1>9. CASE VerifyStart
  <2>1. WindowType'
    BY <1>9 DEF VerifyStart, window, WindowType
  <2>2. /\ DOMAIN verifying' \subseteq SliceNum
        /\ verifying' \in [DOMAIN verifying' -> BOOLEAN]
    BY <1>9, BatchType DEF VerifyStart, WindowType
  <2> QED
    BY <1>9, <2>1, <2>2, StageEndType
       DEF VerifyStart, WindowType, env, streams
<1>10. CASE VerifyFinish
  <2>1. WindowType'
    BY <1>10, SetStatusType DEF VerifyFinish, VerifiedStatus, Status
  <2>2. /\ DOMAIN verifying' \subseteq SliceNum
        /\ verifying' \in [DOMAIN verifying' -> BOOLEAN]
    BY <1>10, <2>1, BatchType DEF VerifyFinish, WindowType
  <2> QED
    BY <1>10, <2>1, <2>2, StageEndType
       DEF VerifyFinish, WindowType, env, streams
<1>11. CASE VerifyLink
  <2>1. WindowType'
    BY <1>11, SetStatusType DEF VerifyLink, Status
  <2>2. Linked \cup Broken \subseteq DOMAIN slices
    BY DEF Linked, Broken, LinkCandidates, FirstN, InStatus
  <2>3. \A i \in Linked : slices[i].headers.tip \in Branches
    <3> SUFFICES ASSUME NEW i \in Linked
                 PROVE  slices[i].headers.tip \in Branches
      OBVIOUS
    <3>1. i \in DOMAIN slices /\ i \in Int
      BY <2>2, SizeAssumption DEF WindowType, SliceNum
    <3>2. LinkVerified(i)
      BY <3>1 DEF Linked
    <3>3. slices[i].headers \in Headers
      BY <3>1, <3>2, DataAssumption DEF LinkVerified, WindowType, Slice
    <3> QED
      BY <3>3 DEF Headers
  <2>4. linkTip' \in Branches
    BY <1>11, <2>3 DEF VerifyLink
  <2>5. linkRemaining' \in Int
    <3>1. Linked \cup Broken \in SUBSET SliceNum
      BY <2>2 DEF WindowType
    <3>2. Cardinality(Linked \cup Broken) \in Nat
      BY <3>1, FinitePositions
    <3> QED
      BY <1>11, <3>2 DEF VerifyLink, WindowType, Status
  <2> QED
    BY <1>11, <2>1, <2>4, <2>5, StageEndType
       DEF VerifyLink, WindowType, env, streams
<1>12. CASE Penalize
  <2> DEFINE invalid == InStatus("Invalid")
             bad == {slices[i].peer : i \in invalid} \ {None}
  <2>1. invalid \in SUBSET SliceNum /\ bad \in SUBSET Peers
    BY DEF InStatus, WindowType, Slice
  <2>2. /\ PenalizePeers(bad, invalid)
        /\ UNCHANGED <<requestPc, retryPc, verifying, linkTip, linkRemaining,
                       saveRemaining, streams, db>>
    BY <1>12 DEF Penalize
  <2> HIDE DEF invalid, bad
  <2> QED
    BY <2>1, <2>2, PenalizeType
<1>13. CASE PenalizeContinue
  <2>1. badPeers \in SUBSET Peers /\ collected \in SUBSET SliceNum
    BY DEF StageType
  <2> QED
    BY <1>13, <2>1, PenalizeType DEF PenalizeContinue
<1>14. CASE Save
  <2>1. WindowType'
    BY <1>14, SetStatusType DEF Save, Status
  <2>2. Savable \subseteq DOMAIN slices
    BY DEF Savable, SaveCandidates, FirstN, InStatus
  <2>3. db' \in [SliceNum -> Contents \cup {None}]
    BY <1>14, <2>2 DEF Save, WindowType, Slice
  <2>4. saveRemaining' \in Int
    <3>1. Savable \in SUBSET SliceNum
      BY <2>2 DEF WindowType
    <3>2. Cardinality(Savable) \in Nat
      BY <3>1, FinitePositions
    <3> QED
      BY <1>14, <3>2 DEF Save, Remaining, WindowType, Status
  <2> QED
    BY <1>14, <2>1, <2>3, <2>4, StageEndType
       DEF Save, WindowType, env, streams
<1>15. CASE Refill
  <2>1. WindowType'
    BY <1>15, RefillType
  <2> QED
    BY <1>15, <2>1, StageEndType
       DEF Refill, WindowType, stagePcs, env, streams
<1>16. CASE TopBlockEstimateSubscribe
  BY <1>16, StageEndType
     DEF TopBlockEstimateSubscribe, Subscribe, window, WindowType, stagePcs
<1>17. CASE TopBlockEstimate
  BY <1>17, StageEndType
     DEF TopBlockEstimate, window, WindowType, stagePcs, env, streams
<1>18. CASE TopBlockEstimateEnds
  BY <1>18, StageEndType DEF TopBlockEstimateEnds, window, WindowType, stagePcs
<1>19. CASE ReceiveStreamEnds
  BY <1>19 DEF ReceiveStreamEnds, window, WindowType, stagePcs
<1>20. CASE ReactorStops
  BY <1>20 DEF ReactorStops, window, WindowType, stagePcs
<1> QED
  BY <1>0, <1>1, <1>2, <1>3, <1>4, <1>5, <1>6, <1>7, <1>8, <1>9, <1>10,
     <1>11, <1>12, <1>13, <1>14, <1>15, <1>16, <1>17, <1>18, <1>19, <1>20
     DEF Next

\* TypeOK is an invariant: the window never leaves the phase's range, whatever
\* the order in which the stages are polled.
THEOREM TypeCorrect == Spec => []TypeOK
<1>1. Init => TypeOK
  BY SizeAssumption, DataAssumption
     DEF Init, TypeOK, WindowType, StageType, EnvType, SliceNum, Slice,
         EmptySlice, Status
<1>2. TypeOK /\ [Next]_vars => TypeOK'
  BY TypeStep
<1> QED
  BY <1>1, <1>2, PTL DEF Spec

-----------------------------------------------------------------------------
(* The inductive invariant *)

\* Saved slices are at the front of the window.
SavedFirst ==
  \A i, j \in DOMAIN slices :
    slices[i].status = "Saved" /\ j < i => slices[j].status = "Saved"

\* The window is a range that ends at max_block_num, full unless the end of
\* the phase has been reached.
WindowShape ==
  \E m \in 0 .. maxNum :
    /\ DOMAIN slices = m .. maxNum - 1
    /\ maxNum - m <= MaxSlices
    /\ maxNum = NumSlices \/ maxNum - m = MaxSlices

\* A slice is in the database iff it is Saved or has left the window.
DbMatches ==
  \A i \in SliceNum :
    db[i] # None <=> /\ i < maxNum
                     /\ i \in DOMAIN slices => slices[i].status = "Saved"

\* Only slices that have been requested or reset are without headers.
HeadersPresent ==
  \A i \in DOMAIN slices :
    slices[i].status \in {"Downloaded", "VerifiedInternally", "Verified",
                          "Saved"} => slices[i].headers # None

\* The Verified slices that SaveStage cannot save yet; what it remembers as
\* remaining_count is never more.
SaveBlocked ==
  {i \in InStatus("Verified") :
     \E j \in DOMAIN slices : j < i /\ slices[j].status # "Saved"}

RemainingBounded == saveRemaining <= Cardinality(SaveBlocked)

\* The stages that listen give up only when the message streams have ended.
ReceiveOver ==
  /\ receivePc = "over" => ~streamsUp
  /\ estimatePc = "over" => ~streamsUp

Core ==
  /\ TypeOK
  /\ CountersMatch
  /\ WindowShape
  /\ SavedFirst
  /\ DbMatches
  /\ HeadersPresent
  /\ VerdictsFresh
  /\ RemainingBounded
  /\ ReceiveOver

-----------------------------------------------------------------------------
(* Counters *)

\* Taking the members that leave away and adding those that enter gives the
\* size of the new set.
LEMMA CountSplit ==
  ASSUME NEW A, NEW B, IsFiniteSet(A), IsFiniteSet(B)
  PROVE  Cardinality(B) = (Cardinality(A) - Cardinality(A \ B))
                          + Cardinality(B \ A)
<1>1. Cardinality(A \ B) = Cardinality(A) - Cardinality(A \cap B)
  BY FS_Difference
<1>2. Cardinality(B \ A) = Cardinality(B) - Cardinality(A \cap B)
  <2>1. B \cap A = A \cap B
    OBVIOUS
  <2>2. Cardinality(B \ A) = Cardinality(B) - Cardinality(B \cap A)
    BY FS_Difference
  <2> QED
    BY <2>1, <2>2
<1>3. /\ Cardinality(A) \in Nat
      /\ Cardinality(B) \in Nat
      /\ Cardinality(A \cap B) \in Nat
  BY FS_CardinalityType, FS_Intersection
<1> DEFINE a == Cardinality(A) b == Cardinality(B) c == Cardinality(A \cap B)
           d == Cardinality(A \ B) e == Cardinality(B \ A)
<1> HIDE DEF a, b, c, d, e
<1>4. d = a - c /\ e = b - c /\ a \in Nat /\ b \in Nat /\ c \in Nat
  BY <1>1, <1>2, <1>3 DEF a, b, c, d, e
<1>5. b = (a - d) + e
  BY <1>4
<1> QED
  BY <1>5 DEF a, b, d, e

\* set_slice_status keeps the counters exact, however many slices change.
LEMMA UpdateCounters ==
  ASSUME WindowType, CountersMatch, NEW f, DOMAIN f = DOMAIN slices, Update(f)
  PROVE  CountersMatch'
<1> SUFFICES ASSUME NEW s \in Status
             PROVE  count'[s] = Cardinality(InStatus(s)')
  BY DEF CountersMatch
<1> DEFINE A == InStatus(s)
           B == {i \in DOMAIN slices : f[i].status = s}
<1>1. A \in SUBSET SliceNum /\ B \in SUBSET SliceNum
  BY DEF InStatus, WindowType
<1>2. IsFiniteSet(A) /\ IsFiniteSet(B)
  BY <1>1, FinitePositions
<1>3. InStatus(s)' = B
  BY DEF Update, InStatus
<1>4. count'[s] = (count[s] - Cardinality(A \ B)) + Cardinality(B \ A)
  <2>1. A \ B = {i \in DOMAIN slices : /\ slices[i].status = s
                                       /\ f[i].status # s}
    BY DEF InStatus
  <2>2. B \ A = {i \in DOMAIN slices : /\ slices[i].status # s
                                       /\ f[i].status = s}
    BY DEF InStatus
  <2> QED
    BY <2>1, <2>2 DEF Update, CountAfter
<1>5. count[s] = Cardinality(A)
  BY DEF CountersMatch
<1> QED
  BY <1>2, <1>3, <1>4, <1>5, CountSplit

\* set_slice_status keeps the counters exact.
LEMMA SetStatusCounters ==
  ASSUME WindowType, CountersMatch, NEW new, SetStatus(new)
  PROVE  CountersMatch'
BY UpdateCounters DEF SetStatus

-----------------------------------------------------------------------------
(* Steps that neither save nor remove slices *)

\* The statuses of slices that hold headers.
Holding == {"Downloaded", "VerifiedInternally", "Verified", "Saved"}

\* The step neither saves nor removes slices, leaves Verified ones alone and
\* never gives a status of Holding to a slice without headers.
Tame ==
  /\ DOMAIN slices' = DOMAIN slices
  /\ UNCHANGED <<maxNum, db, saveRemaining>>
  /\ \A i \in DOMAIN slices :
       /\ slices'[i].status = "Saved" <=> slices[i].status = "Saved"
       /\ slices[i].status = "Verified" => slices'[i].status = "Verified"
       /\ slices'[i].status \in Holding => slices'[i].headers # None

\* A tame step keeps what the invariant says about saved slices.
LEMMA TameStep ==
  ASSUME Core, TypeOK', Tame
  PROVE  /\ WindowShape' /\ SavedFirst' /\ DbMatches'
         /\ HeadersPresent' /\ RemainingBounded'
<1>1. WindowShape'
  BY DEF Core, Tame, WindowShape
<1>2. SavedFirst'
  BY DEF Core, Tame, SavedFirst
<1>3. DbMatches'
  BY DEF Core, Tame, DbMatches
<1>4. HeadersPresent'
  BY DEF Tame, HeadersPresent, Holding
<1>5. RemainingBounded'
  <2>1. SaveBlocked \subseteq SaveBlocked'
    BY DEF Tame, SaveBlocked, InStatus
  <2>2. SaveBlocked' \in SUBSET SliceNum
    BY DEF SaveBlocked, InStatus, TypeOK, WindowType
  <2>3. /\ Cardinality(SaveBlocked) <= Cardinality(SaveBlocked')
        /\ Cardinality(SaveBlocked') \in Nat
        /\ Cardinality(SaveBlocked) \in Nat
    BY <2>1, <2>2, FinitePositions, FS_Subset, FS_CardinalityType
  <2> QED
    BY <2>3 DEF Core, RemainingBounded, Tame, TypeOK, StageType
<1> QED
  BY <1>1, <1>2, <1>3, <1>4, <1>5

\* A step that does not touch the window is tame.
LEMMA UnchangedTame ==
  ASSUME Core, UNCHANGED <<window, db, saveRemaining>>
  PROVE  Tame /\ CountersMatch'
BY DEF Core, window, Tame, HeadersPresent, Holding, CountersMatch, InStatus

\* So is one that changes the status of slices that are neither Saved nor
\* Verified, and gives no status that needs headers to a slice without.
LEMMA SetStatusTame ==
  ASSUME Core, NEW new, SetStatus(new), UNCHANGED <<db, saveRemaining>>,
         \A i \in DOMAIN new :
           /\ i \in DOMAIN slices
           /\ slices[i].status \notin {"Saved", "Verified"}
           /\ new[i] # "Saved"
           /\ new[i] \in Holding => slices[i].headers # None
  PROVE  Tame
<1>1. /\ DOMAIN slices' = DOMAIN slices
      /\ UNCHANGED maxNum
      /\ \A i \in DOMAIN slices :
           slices'[i] = IF i \in DOMAIN new
                        THEN [status |-> new[i], headers |-> slices[i].headers,
                              peer |-> slices[i].peer]
                        ELSE slices[i]
  BY DEF SetStatus, Update
<1>2. ASSUME NEW i \in DOMAIN slices
      PROVE  /\ slices'[i].status = "Saved" <=> slices[i].status = "Saved"
             /\ slices[i].status = "Verified" => slices'[i].status = "Verified"
             /\ slices'[i].status \in Holding => slices'[i].headers # None
  BY <1>1 DEF Core, HeadersPresent, Holding
<1> QED
  BY <1>1, <1>2 DEF Tame

-----------------------------------------------------------------------------
(* Verdicts *)

\* Verdicts stay fresh as long as no Downloaded slice is touched.
LEMMA VerdictsKept ==
  ASSUME Core, UNCHANGED verifying,
         \A i \in InStatus("Downloaded") :
           i \in DOMAIN slices' /\ slices'[i] = slices[i]
  PROVE  VerdictsFresh'
BY DEF Core, VerdictsFresh, InStatus

\* The verdicts of a new batch are fresh.
LEMMA BatchFresh ==
  ASSUME verifying' = Batch(slices')
  PROVE  VerdictsFresh'
BY DEF Batch, VerdictsFresh, InStatus, FirstN, Verdict, VerifyPreverified,
       VerifyInternally

-----------------------------------------------------------------------------
(* SaveStage *)

\* FirstN takes a whole set that is no larger than n.
LEMMA FirstNAll ==
  ASSUME NEW X \in SUBSET SliceNum, NEW n \in Int, Cardinality(X) <= n
  PROVE  FirstN(X, n) = X
<1> SUFFICES ASSUME NEW i \in X
             PROVE  Cardinality({j \in X : j < i}) < n
  BY DEF FirstN
<1> DEFINE below == {j \in X : j < i}
<1>1. IsFiniteSet(X) /\ Cardinality(X) \in Nat
  BY FinitePositions
<1>2. i \in Int
  BY SizeAssumption DEF SliceNum
<1>3. below \subseteq X /\ i \notin below
  BY <1>2
<1>4. Cardinality(below) <= Cardinality(X) /\ Cardinality(below) # Cardinality(X)
  BY <1>1, <1>3, FS_Subset
<1>5. Cardinality(below) \in Nat
  BY <1>1, <1>3, FS_Subset, FS_CardinalityType
<1> QED
  BY <1>1, <1>4, <1>5

\* The slices that SaveStage saves: the Verified ones that nothing but Saved
\* and Verified slices precedes.  None of them is without headers, so that the
\* error of save_slice cannot happen.
LEMMA SaveFront ==
  ASSUME Core
  PROVE  /\ SaveCandidates = {i \in InStatus("Verified") :
                               \A j \in DOMAIN slices :
                                 j < i => slices[j].status \in {"Saved",
                                                                "Verified"}}
         /\ Savable = SaveCandidates
<1> DEFINE V == InStatus("Verified")
           Front == {i \in V : \A j \in DOMAIN slices :
                       j < i => slices[j].status \in {"Saved", "Verified"}}
<1>1. V \in SUBSET SliceNum /\ Front \in SUBSET V
  BY DEF InStatus, Core, TypeOK, WindowType
<1>2. count["Verified"] = Cardinality(V) /\ count["Verified"] \in Int
  BY DEF Core, CountersMatch, TypeOK, WindowType, Status
<1>3. Cardinality(Front) <= Cardinality(V)
  BY <1>1, FinitePositions, FS_Subset
<1>4. FirstN(Front, count["Verified"]) = Front
  BY <1>1, <1>2, <1>3, FirstNAll
<1>5. SaveCandidates = Front
  BY <1>4 DEF SaveCandidates
<1>6. \A i \in Front : slices[i].headers # None
  BY DEF InStatus, Core, HeadersPresent
<1> QED
  BY <1>5, <1>6 DEF Savable

\* SaveStage preserves the invariant.
LEMMA SaveStep ==
  ASSUME Core, TypeOK', Save
  PROVE  Core'
<1> DEFINE V == InStatus("Verified")
           Front == {i \in V : \A j \in DOMAIN slices :
                       j < i => slices[j].status \in {"Saved", "Verified"}}
<1>1. SaveCandidates = Front /\ Savable = Front
  BY SaveFront
<1>2. Front \subseteq DOMAIN slices /\ DOMAIN slices \subseteq SliceNum
      /\ V \subseteq DOMAIN slices
  BY DEF InStatus, Core, TypeOK, WindowType
<1>3. SliceNum \subseteq Int
  BY SizeAssumption DEF SliceNum
<1>4. /\ db' = [i \in SliceNum |-> IF i \in Front THEN slices[i].headers
                                                ELSE db[i]]
      /\ SetStatus([i \in Front |-> "Saved"])
      /\ saveRemaining' = count["Verified"] - Cardinality(Front)
      /\ UNCHANGED <<verifying, env>>
  BY <1>1 DEF Save, Remaining
<1>5. /\ DOMAIN slices' = DOMAIN slices
      /\ maxNum' = maxNum
      /\ \A i \in DOMAIN slices :
           slices'[i] = IF i \in Front
                        THEN [status |-> "Saved", headers |-> slices[i].headers,
                              peer |-> slices[i].peer]
                        ELSE slices[i]
  BY <1>4 DEF SetStatus, Update
<1>6. \A i \in DOMAIN slices :
        slices'[i].status = "Saved" <=> \/ slices[i].status = "Saved"
                                        \/ i \in Front
  BY <1>5
<1>7. CountersMatch'
  BY <1>4, SetStatusCounters DEF Core, TypeOK
<1>8. WindowShape'
  BY <1>5 DEF Core, WindowShape
<1>9. SavedFirst'
  <2> SUFFICES ASSUME NEW i \in DOMAIN slices, NEW j \in DOMAIN slices,
                      slices'[i].status = "Saved", j < i
               PROVE  slices[j].status = "Saved" \/ j \in Front
    BY <1>5, <1>6 DEF SavedFirst
  <2>1. CASE slices[i].status = "Saved"
    BY <2>1 DEF Core, SavedFirst
  <2>2. CASE i \in Front
    <3>1. slices[j].status \in {"Saved", "Verified"}
      BY <2>2
    <3>2. \A k \in DOMAIN slices : k < j => k < i
      <4>1. DOMAIN slices \subseteq Int
        BY <1>2, <1>3
      <4> QED
        BY <4>1
    <3> QED
      BY <2>2, <3>1, <3>2 DEF InStatus
  <2> QED
    BY <1>6, <2>1, <2>2
<1>10. DbMatches'
  <2> SUFFICES ASSUME NEW i \in SliceNum
               PROVE  db'[i] # None <=> /\ i < maxNum
                                        /\ i \in DOMAIN slices =>
                                             slices'[i].status = "Saved"
    BY <1>5 DEF DbMatches
  <2>1. CASE i \in Front
    <3>1. slices[i].headers # None
      BY <2>1 DEF InStatus, Core, HeadersPresent
    <3>2. i < maxNum
      BY <2>1, <1>2, <1>3 DEF Core, WindowShape, TypeOK, WindowType
    <3> QED
      BY <1>2, <1>4, <1>5, <2>1, <3>1, <3>2
  <2>2. CASE i \notin Front
    BY <1>4, <1>6, <2>2 DEF Core, DbMatches
  <2> QED
    BY <2>1, <2>2
<1>11. HeadersPresent'
  <2>1. \A i \in Front : slices[i].headers # None
    BY DEF InStatus, Core, HeadersPresent
  <2> QED
    BY <1>5, <2>1 DEF Core, HeadersPresent
<1>12. VerdictsFresh'
  <2>1. \A i \in InStatus("Downloaded") :
          i \in DOMAIN slices' /\ slices'[i] = slices[i]
    BY <1>5 DEF InStatus
  <2> QED
    BY <1>4, <2>1, VerdictsKept
<1>13. RemainingBounded'
  <2>1. V \ Front \subseteq SaveBlocked'
    <3> SUFFICES ASSUME NEW i \in V \ Front
                 PROVE  /\ i \in DOMAIN slices /\ slices'[i].status = "Verified"
                        /\ \E j \in DOMAIN slices :
                             j < i /\ slices'[j].status # "Saved"
      BY <1>5 DEF SaveBlocked, InStatus
    <3>1. PICK j \in DOMAIN slices : j < i /\ slices[j].status \notin {"Saved",
                                                                      "Verified"}
      OBVIOUS
    <3>2. slices'[j].status # "Saved"
      BY <1>6, <3>1 DEF InStatus
    <3>3. slices'[i].status = "Verified"
      BY <1>2, <1>5 DEF InStatus
    <3> QED
      BY <1>2, <3>1, <3>2, <3>3
  <2>2. SaveBlocked' \in SUBSET SliceNum /\ V \in SUBSET SliceNum
    BY <1>2 DEF SaveBlocked, InStatus, TypeOK, WindowType
  <2>3. /\ IsFiniteSet(V) /\ Cardinality(V) \in Nat
        /\ IsFiniteSet(SaveBlocked') /\ Cardinality(SaveBlocked') \in Nat
    BY <2>2, FinitePositions
  <2>4. Cardinality(V \ Front) = Cardinality(V) - Cardinality(Front)
    <3>1. V \cap Front = Front
      OBVIOUS
    <3> QED
      BY <2>3, <3>1, FS_Difference
  <2>5. Cardinality(V \ Front) <= Cardinality(SaveBlocked')
    BY <2>1, <2>3, FS_Subset
  <2>6. count["Verified"] = Cardinality(V)
    BY DEF Core, CountersMatch, Status
  <2> QED
    BY <1>4, <2>4, <2>5, <2>6 DEF RemainingBounded
<1>14. ReceiveOver'
  BY <1>4 DEF Core, ReceiveOver, env, streams
<1> QED
  BY <1>7, <1>8, <1>9, <1>10, <1>11, <1>12, <1>13, <1>14 DEF Core

-----------------------------------------------------------------------------
(* RefillStage *)

\* A front part of a range that holds k positions is its first k positions.
LEMMA PrefixInterval ==
  ASSUME NEW m \in Int, NEW n \in Int, NEW S \in SUBSET (m .. n - 1),
         \A i \in S : \A j \in m .. n - 1 : j < i => j \in S
  PROVE  /\ Cardinality(S) \in Nat
         /\ S = m .. m + Cardinality(S) - 1
<1>1. IsFiniteSet(S)
  <2>1. n - 1 \in Int
    OBVIOUS
  <2>2. IsFiniteSet(m .. n - 1)
    BY <2>1, FS_Interval
  <2> QED
    BY <2>2, FS_Subset
<1> DEFINE k == Cardinality(S)
<1>2. k \in Nat
  BY <1>1, FS_CardinalityType
<1>3. S \subseteq m .. m + k - 1
  <2> SUFFICES ASSUME NEW i \in S
               PROVE  i \in m .. m + k - 1
    OBVIOUS
  <2>1. m .. i \subseteq S
    OBVIOUS
  <2>2. Cardinality(m .. i) = i - m + 1
    BY FS_Interval
  <2>3. Cardinality(m .. i) <= k
    BY <1>1, <2>1, FS_Subset
  <2> HIDE DEF k
  <2> QED
    BY <1>2, <2>2, <2>3
<1>4. IsFiniteSet(m .. m + k - 1) /\ Cardinality(m .. m + k - 1) = k
  <2> HIDE DEF k
  <2> QED
    BY <1>2, FS_Interval
<1>5. S = m .. m + k - 1
  BY <1>3, <1>4, FS_Subset
<1> QED
  BY <1>2, <1>5

\* RefillStage preserves the invariant.
LEMMA RefillStep ==
  ASSUME Core, TypeOK', Refill
  PROVE  Core'
<1> DEFINE S == InStatus("Saved")
           kept == DOMAIN slices \ S
           added == Refillable(MaxSlices - Cardinality(kept))
           k == Cardinality(S)
<1>1. PICK m \in 0 .. maxNum :
        /\ DOMAIN slices = m .. maxNum - 1
        /\ maxNum - m <= MaxSlices
  BY DEF Core, WindowShape
<1>2. maxNum \in 0 .. NumSlices /\ m \in Int /\ maxNum \in Int
  BY <1>1, SizeAssumption DEF Core, TypeOK, WindowType
<1>3. k \in Nat /\ S = m .. m + k - 1
  <2>1. S \in SUBSET (m .. maxNum - 1)
    BY <1>1 DEF InStatus
  <2>2. \A i \in S : \A j \in m .. maxNum - 1 : j < i => j \in S
    BY <1>1 DEF InStatus, Core, SavedFirst
  <2> QED
    BY <1>2, <2>1, <2>2, PrefixInterval
<1>4. k <= maxNum - m
  <2>1. S \subseteq m .. maxNum - 1
    BY <1>1 DEF InStatus
  <2>2. CASE k = 0
    BY <1>1, <1>2, <2>2
  <2>3. CASE k # 0
    <3> HIDE DEF k, S
    <3>1. m + k - 1 \in S
      BY <1>2, <1>3, <2>3
    <3>2. m + k - 1 \in m .. maxNum - 1
      BY <2>1, <3>1
    <3> QED
      BY <1>2, <1>3, <3>2
  <2> QED
    BY <2>2, <2>3
<1> HIDE DEF k
<1>5. kept = m + k .. maxNum - 1
  BY <1>1, <1>2, <1>3, <1>4
<1>6. Cardinality(kept) = maxNum - (m + k)
  <2>1. m + k \in Int /\ maxNum - 1 \in Int
    BY <1>2, <1>3
  <2>2. Cardinality(kept) = IF m + k > maxNum - 1 THEN 0
                            ELSE (maxNum - 1) - (m + k) + 1
    BY <1>5, <2>1, FS_Interval
  <2> QED
    BY <1>2, <1>3, <1>4, <2>2
<1>7. PICK last \in Int :
        /\ added = maxNum .. last
        /\ last <= NumSlices - 1
        /\ last <= maxNum + (MaxSlices - Cardinality(kept)) - 1
        /\ \/ last = NumSlices - 1
           \/ last = maxNum + (MaxSlices - Cardinality(kept)) - 1
  <2>1. MaxSlices - Cardinality(kept) \in Int
    BY <1>2, <1>3, <1>6, SizeAssumption
  <2> QED
    BY <1>2, <2>1, RefillableInterval
<1>8. last >= maxNum - 1
  BY <1>1, <1>2, <1>3, <1>6, <1>7, SizeAssumption
<1>9. Cardinality(added) = last - maxNum + 1
  BY <1>2, <1>7, <1>8, FS_Interval
<1>10. /\ slices' = [i \in kept \cup added |->
                       IF i \in kept THEN slices[i] ELSE EmptySlice]
       /\ maxNum' = maxNum + Cardinality(added)
       /\ count' = [count EXCEPT !["Saved"] = @ - k,
                                 !["Empty"] = @ + Cardinality(added)]
       /\ UNCHANGED <<stagePcs, env, db>>
  BY DEF Refill, Removable, k
<1>11. maxNum' = last + 1
  BY <1>2, <1>9, <1>10
<1>12. DOMAIN slices' = m + k .. maxNum' - 1
  BY <1>2, <1>3, <1>4, <1>5, <1>7, <1>8, <1>10, <1>11
<1>13. kept \cap added = {} /\ DOMAIN slices' = kept \cup added
  BY <1>2, <1>3, <1>5, <1>7, <1>10
<1>14. /\ \A i \in kept : slices'[i] = slices[i]
       /\ \A i \in added : slices'[i] = EmptySlice
  BY <1>10, <1>13
<1>15. \A i \in DOMAIN slices' : slices'[i].status # "Saved"
  BY <1>13, <1>14 DEF EmptySlice, InStatus
<1>16. CountersMatch'
  <2> SUFFICES ASSUME NEW s \in Status
               PROVE  count'[s] = Cardinality(InStatus(s)')
    BY DEF CountersMatch
  <2>1. InStatus(s)' = (InStatus(s) \ S)
                       \cup (IF s = "Empty" THEN added ELSE {})
    BY <1>13, <1>14 DEF InStatus, EmptySlice
  <2>2. count[s] = Cardinality(InStatus(s)) /\ count \in [Status -> Int]
    BY DEF Core, CountersMatch, TypeOK, WindowType
  <2>3. CASE s = "Saved"
    <3>1. InStatus(s)' = {}
      BY <2>1, <2>3
    <3>2. count'[s] = count[s] - k
      BY <1>10, <2>2, <2>3 DEF Status
    <3>3. count[s] = k
      BY <2>2, <2>3 DEF k
    <3> QED
      BY <1>3, <3>1, <3>2, <3>3, FS_EmptySet
  <2>4. CASE s = "Empty"
    <3>1. InStatus(s)' = InStatus(s) \cup added
      BY <2>1, <2>4 DEF InStatus
    <3>2. InStatus(s) \cap added = {}
      BY <1>13, <2>4 DEF InStatus
    <3>3. InStatus(s) \in SUBSET SliceNum /\ added \in SUBSET SliceNum
      BY DEF InStatus, Refillable, Core, TypeOK, WindowType
    <3>4. Cardinality(InStatus(s) \cup added)
            = Cardinality(InStatus(s)) + Cardinality(added)
      <4>1. IsFiniteSet(InStatus(s)) /\ IsFiniteSet(added)
        BY <3>3, FinitePositions
      <4>2. Cardinality(InStatus(s)) \in Nat /\ Cardinality(added) \in Nat
        BY <3>3, FinitePositions
      <4>3. Cardinality(InStatus(s) \cap added) = 0
        BY <3>2, FS_EmptySet
      <4>4. Cardinality(InStatus(s) \cup added)
              = Cardinality(InStatus(s)) + Cardinality(added)
                - Cardinality(InStatus(s) \cap added)
        BY <4>1, FS_Union
      <4> QED
        BY <4>2, <4>3, <4>4
    <3>5. count'[s] = count[s] + Cardinality(added)
      BY <1>10, <2>2, <2>4 DEF Status
    <3> QED
      BY <2>2, <3>1, <3>4, <3>5
  <2>5. CASE s \notin {"Saved", "Empty"}
    <3>1. InStatus(s)' = InStatus(s)
      BY <2>1, <2>5 DEF InStatus
    <3>2. count'[s] = count[s]
      BY <1>10, <2>2, <2>5
    <3> QED
      BY <2>2, <3>1, <3>2
  <2> QED
    BY <2>3, <2>4, <2>5
<1>17. WindowShape'
  <2>1. m + k \in 0 .. maxNum'
    BY <1>1, <1>2, <1>3, <1>4, <1>8, <1>11
  <2>2. maxNum' - (m + k) <= MaxSlices
    BY <1>2, <1>3, <1>6, <1>7, <1>11, SizeAssumption
  <2>3. maxNum' = NumSlices \/ maxNum' - (m + k) = MaxSlices
    BY <1>2, <1>3, <1>6, <1>7, <1>11, SizeAssumption
  <2> QED
    BY <1>12, <2>1, <2>2, <2>3 DEF WindowShape
<1>18. SavedFirst'
  BY <1>15 DEF SavedFirst
<1>19. DbMatches'
  <2> SUFFICES ASSUME NEW i \in SliceNum
               PROVE  db[i] # None <=> i < maxNum' /\ i \notin DOMAIN slices'
    BY <1>10, <1>15 DEF DbMatches
  <2>1. i \in Int
    BY SizeAssumption DEF SliceNum
  <2>2. db[i] # None <=> /\ i < maxNum
                         /\ i \in DOMAIN slices => slices[i].status = "Saved"
    BY DEF Core, DbMatches
  <2>3. i \in DOMAIN slices => (slices[i].status = "Saved" <=> i \in S)
    BY DEF InStatus
  <2> HIDE DEF S
  <2>4. db[i] # None <=> i < m + k
    BY <1>1, <1>2, <1>3, <1>4, <2>1, <2>2, <2>3
  <2>5. (i < maxNum' /\ i \notin DOMAIN slices') <=> i < m + k
    BY <1>2, <1>3, <1>4, <1>8, <1>11, <1>12, <2>1
  <2> QED
    BY <2>4, <2>5
<1>20. HeadersPresent'
  <2>1. \A i \in kept :
          slices'[i].status \in Holding => slices'[i].headers # None
    BY <1>14 DEF Core, HeadersPresent, Holding
  <2>2. \A i \in added : slices'[i].status \notin Holding
    BY <1>14 DEF EmptySlice, Holding
  <2> QED
    BY <1>13, <2>1, <2>2 DEF HeadersPresent, Holding
<1>21. VerdictsFresh'
  <2>1. \A i \in InStatus("Downloaded") :
          i \in DOMAIN slices' /\ slices'[i] = slices[i]
    BY <1>13, <1>14 DEF InStatus
  <2> QED
    BY <1>10, <2>1, VerdictsKept DEF stagePcs
<1>22. RemainingBounded'
  <2>1. SaveBlocked \subseteq SaveBlocked'
    BY <1>13, <1>14 DEF SaveBlocked, InStatus
  <2>2. SaveBlocked' \in SUBSET SliceNum
    BY DEF SaveBlocked, InStatus, TypeOK, WindowType
  <2>3. /\ Cardinality(SaveBlocked) <= Cardinality(SaveBlocked')
        /\ Cardinality(SaveBlocked') \in Nat
        /\ Cardinality(SaveBlocked) \in Nat
    BY <2>1, <2>2, FinitePositions, FS_Subset, FS_CardinalityType
  <2>4. saveRemaining' = saveRemaining /\ saveRemaining \in Int
    BY <1>10 DEF stagePcs, Core, TypeOK, StageType
  <2> QED
    BY <2>3, <2>4 DEF Core, RemainingBounded
<1>23. ReceiveOver'
  BY <1>10 DEF Core, ReceiveOver, env, streams
<1> QED
  BY <1>16, <1>17, <1>18, <1>19, <1>20, <1>21, <1>22, <1>23 DEF Core

-----------------------------------------------------------------------------
(* All steps *)

\* A step that changes no slice and no verification batch.
LEMMA IdleStep ==
  ASSUME Core, TypeOK', UNCHANGED <<window, db, saveRemaining, verifying>>,
         ReceiveOver'
  PROVE  Core'
<1>1. Tame /\ CountersMatch'
  BY UnchangedTame
<1>2. VerdictsFresh'
  BY VerdictsKept DEF window, InStatus
<1> QED
  BY <1>1, <1>2, TameStep DEF Core

\* A step that changes the status of slices that are neither Saved, nor
\* Verified, nor being verified.
LEMMA StatusStep ==
  ASSUME Core, TypeOK', NEW new, SetStatus(new),
         UNCHANGED <<db, saveRemaining, verifying>>, ReceiveOver',
         \A i \in DOMAIN new :
           /\ i \in DOMAIN slices
           /\ slices[i].status \notin {"Saved", "Verified", "Downloaded"}
           /\ new[i] # "Saved"
           /\ new[i] \in Holding => slices[i].headers # None
  PROVE  Core'
<1>1. Tame
  BY SetStatusTame
<1>2. CountersMatch'
  BY SetStatusCounters DEF Core, TypeOK
<1>3. VerdictsFresh'
  <2>1. \A i \in InStatus("Downloaded") :
          i \in DOMAIN slices' /\ slices'[i] = slices[i]
    BY DEF SetStatus, Update, InStatus
  <2> QED
    BY <2>1, VerdictsKept
<1> QED
  BY <1>1, <1>2, <1>3, TameStep DEF Core

\* PenalizeStage preserves the invariant.
LEMMA PenalizeStep ==
  ASSUME Core, TypeOK', NEW bad, NEW invalid, PenalizePeers(bad, invalid),
         UNCHANGED <<verifying, saveRemaining, streams, db>>
  PROVE  Core'
<1> DEFINE f == [i \in DOMAIN slices |->
                   IF slices[i].status = "Invalid"
                   THEN [status |-> "Empty", headers |-> None,
                         peer |-> slices[i].peer]
                   ELSE slices[i]]
<1>1. ReceiveOver'
  BY DEF Core, ReceiveOver, streams
<1>2. CASE UNCHANGED window
  BY <1>1, <1>2, IdleStep
<1>3. CASE Update(f)
  <2>1. /\ DOMAIN slices' = DOMAIN slices /\ maxNum' = maxNum
        /\ \A i \in DOMAIN slices : slices'[i] = f[i]
    BY <1>3 DEF Update
  <2>2. Tame
    BY <2>1 DEF Tame, Core, HeadersPresent, Holding
  <2>3. CountersMatch'
    BY <1>3, UpdateCounters DEF Core, TypeOK
  <2>4. VerdictsFresh'
    <3>1. \A i \in InStatus("Downloaded") :
            i \in DOMAIN slices' /\ slices'[i] = slices[i]
      BY <2>1 DEF InStatus
    <3> QED
      BY <3>1, VerdictsKept
  <2> QED
    BY <1>1, <2>2, <2>3, <2>4, TameStep DEF Core
<1> QED
  BY <1>2, <1>3 DEF PenalizePeers, ResetInvalid

\* Every step of every stage preserves the invariant.
LEMMA CoreStep ==
  ASSUME Core, TypeOK', [Next]_vars
  PROVE  Core'
<1>0. CASE UNCHANGED vars
  BY <1>0, IdleStep
     DEF vars, stagePcs, streams, env, Core, ReceiveOver
<1>1. CASE FetchRequest
  <2>1. ReceiveOver' /\ UNCHANGED <<db, saveRemaining, verifying>>
    BY <1>1 DEF FetchRequest, env, streams, Core, ReceiveOver
  <2>2. CASE UNCHANGED window
    BY <2>1, <2>2, IdleStep
  <2>3. CASE ~UNCHANGED window
    <3>1. PICK n \in 0 .. Cardinality(InStatus("Empty")) :
            SetStatus([i \in FirstN(InStatus("Empty"), n) |-> "Waiting"])
      BY <1>1, <2>3 DEF FetchRequest
    <3>2. \A i \in FirstN(InStatus("Empty"), n) :
            i \in DOMAIN slices /\ slices[i].status = "Empty"
      BY DEF FirstN, InStatus
    <3> QED
      BY <2>1, <3>1, <3>2, StatusStep DEF Holding
  <2> QED
    BY <2>2, <2>3
<1>2. CASE FetchRequestCapacity
  BY <1>2, IdleStep
     DEF FetchRequestCapacity, env, streams, Core, ReceiveOver
<1>3. CASE FetchReceiveSubscribe
  BY <1>3, IdleStep
     DEF FetchReceiveSubscribe, Subscribe, stagePcs, Core, ReceiveOver
<1>4. ASSUME NEW i \in SliceNum, NEW c \in Contents,
             NEW p \in Peers \cup {None}, FetchReceive(i, c, p)
      PROVE  Core'
  <2> DEFINE f == [slices EXCEPT ![i] = [status |-> "Downloaded",
                                         headers |-> c, peer |-> p]]
  <2>1. /\ Update(f) /\ i \in DOMAIN slices
        /\ slices[i].status = "Waiting"
        /\ UNCHANGED <<stagePcs, env, db>>
    BY <1>4 DEF FetchReceive, Receivable, InStatus
  <2>2. c # None
    BY DataAssumption
  <2>3. /\ DOMAIN slices' = DOMAIN slices /\ maxNum' = maxNum
        /\ \A j \in DOMAIN slices :
             slices'[j] = IF j = i THEN [status |-> "Downloaded",
                                         headers |-> c, peer |-> p]
                          ELSE slices[j]
    BY <2>1 DEF Update
  <2>4. Tame
    BY <2>1, <2>2, <2>3 DEF Tame, stagePcs, Core, HeadersPresent, Holding
  <2>5. CountersMatch'
    BY <2>1, UpdateCounters DEF Core, TypeOK
  <2>6. VerdictsFresh'
    <3>1. \A j \in InStatus("Downloaded") :
            j \in DOMAIN slices' /\ slices'[j] = slices[j]
      BY <2>1, <2>3 DEF InStatus
    <3> QED
      BY <2>1, <3>1, VerdictsKept DEF stagePcs
  <2>7. ReceiveOver'
    BY <2>1 DEF env, streams, Core, ReceiveOver
  <2> QED
    BY <2>4, <2>5, <2>6, <2>7, TameStep DEF Core
<1>5. CASE FetchReceiveIgnored
  BY <1>5, IdleStep
     DEF FetchReceiveIgnored, stagePcs, env, streams, Core, ReceiveOver
<1>6. CASE FetchReceiveEnds
  BY <1>6, IdleStep DEF FetchReceiveEnds, stagePcs, Core, ReceiveOver
<1>7. CASE RetryWait
  BY <1>7, IdleStep DEF RetryWait, env, streams, Core, ReceiveOver
<1>8. CASE RetryReset
  <2>1. ReceiveOver' /\ UNCHANGED <<db, saveRemaining, verifying>>
    BY <1>8 DEF RetryReset, env, streams, Core, ReceiveOver
  <2>2. PICK expired \in SUBSET InStatus("Waiting") :
          SetStatus([i \in expired |-> "Empty"])
    BY <1>8 DEF RetryReset
  <2>3. \A i \in expired : i \in DOMAIN slices /\ slices[i].status = "Waiting"
    BY DEF InStatus
  <2> QED
    BY <2>1, <2>2, <2>3, StatusStep DEF Holding
<1>9. CASE VerifyStart
  <2>1. Tame /\ CountersMatch'
    BY <1>9, UnchangedTame DEF VerifyStart
  <2>2. VerdictsFresh'
    BY <1>9, BatchFresh DEF VerifyStart, window
  <2>3. ReceiveOver'
    BY <1>9 DEF VerifyStart, env, streams, Core, ReceiveOver
  <2> QED
    BY <2>1, <2>2, <2>3, TameStep DEF Core
<1>10. CASE VerifyFinish
  <2> DEFINE new == [i \in DOMAIN verifying |->
                       IF verifying[i] THEN VerifiedStatus ELSE "Invalid"]
  <2>1. SetStatus(new) /\ UNCHANGED <<db, saveRemaining>>
    BY <1>10 DEF VerifyFinish
  <2>2. \A i \in DOMAIN new :
          /\ i \in DOMAIN slices
          /\ slices[i].status = "Downloaded"
          /\ new[i] # "Saved"
          /\ slices[i].headers # None
    BY DEF Core, VerdictsFresh, HeadersPresent, InStatus, VerifiedStatus
  <2>3. CountersMatch'
    BY <2>1, SetStatusCounters DEF Core, TypeOK
  <2> HIDE DEF new
  <2>4. Tame
    BY <2>1, <2>2, SetStatusTame
  <2>5. VerdictsFresh'
    BY <1>10, BatchFresh DEF VerifyFinish
  <2>6. ReceiveOver'
    BY <1>10 DEF VerifyFinish, env, streams, Core, ReceiveOver
  <2> QED
    BY <2>3, <2>4, <2>5, <2>6, TameStep DEF Core
<1>11. CASE VerifyLink
  <2> DEFINE new == [i \in Linked \cup Broken |->
                       IF i \in Linked THEN "Verified" ELSE "Invalid"]
  <2>1. /\ SetStatus(new) /\ UNCHANGED <<db, saveRemaining, verifying>>
        /\ ReceiveOver'
    BY <1>11 DEF VerifyLink, env, streams, Core, ReceiveOver
  <2>2. \A i \in Linked \cup Broken :
          /\ i \in DOMAIN slices
          /\ slices[i].status = "VerifiedInternally"
          /\ slices[i].headers # None
    BY DEF Linked, Broken, LinkCandidates, FirstN, InStatus, Core,
           HeadersPresent
  <2>3. \A i \in DOMAIN new :
          /\ i \in DOMAIN slices
          /\ slices[i].status \notin {"Saved", "Verified", "Downloaded"}
          /\ new[i] # "Saved"
          /\ new[i] \in Holding => slices[i].headers # None
    BY <2>2
  <2> HIDE DEF new
  <2> QED
    BY <2>1, <2>3, StatusStep
<1>12. CASE Penalize
  BY <1>12, PenalizeStep DEF Penalize
<1>13. CASE PenalizeContinue
  BY <1>13, PenalizeStep DEF PenalizeContinue
<1>14. CASE Save
  BY <1>14, SaveStep
<1>15. CASE Refill
  BY <1>15, RefillStep
<1>16. CASE TopBlockEstimateSubscribe
  BY <1>16, IdleStep
     DEF TopBlockEstimateSubscribe, Subscribe, stagePcs, Core, ReceiveOver
<1>17. CASE TopBlockEstimate
  BY <1>17, IdleStep
     DEF TopBlockEstimate, stagePcs, env, streams, Core, ReceiveOver
<1>18. CASE TopBlockEstimateEnds
  BY <1>18, IdleStep DEF TopBlockEstimateEnds, stagePcs, Core, ReceiveOver
<1>19. CASE ReceiveStreamEnds
  BY <1>19, IdleStep DEF ReceiveStreamEnds, stagePcs, ReceiveOver
<1>20. CASE ReactorStops
  BY <1>20, IdleStep DEF ReactorStops, stagePcs, ReceiveOver
<1> QED
  BY <1>0, <1>1, <1>2, <1>3, <1>4, <1>5, <1>6, <1>7, <1>8, <1>9, <1>10,
     <1>11, <1>12, <1>13, <1>14, <1>15, <1>16, <1>17, <1>18, <1>19, <1>20
     DEF Next

\* The invariant holds of a fresh window.
LEMMA InitCore ==
  ASSUME Init
  PROVE  Core
<1>1. TypeOK
  BY SizeAssumption, DataAssumption
     DEF Init, TypeOK, WindowType, StageType, EnvType, SliceNum, Slice,
         EmptySlice, Status
<1>2. \A i \in DOMAIN slices : slices[i] = EmptySlice
  BY DEF Init
<1>3. CountersMatch
  <2>1. InStatus("Empty") = 0 .. MaxSlices - 1
    BY DEF Init, InStatus, EmptySlice
  <2>2. Cardinality(0 .. MaxSlices - 1) = MaxSlices
    BY SizeAssumption, FS_Interval
  <2>3. \A s \in Status \ {"Empty"} : InStatus(s) = {}
    BY <1>2 DEF InStatus, EmptySlice
  <2> QED
    BY <2>1, <2>2, <2>3, FS_EmptySet DEF CountersMatch, Init
<1>4. WindowShape
  BY SizeAssumption DEF Init, WindowShape
<1>5. SavedFirst /\ HeadersPresent
  BY <1>2 DEF SavedFirst, HeadersPresent, EmptySlice
<1>6. DbMatches
  BY SizeAssumption DEF Init, DbMatches, SliceNum, EmptySlice
<1>7. VerdictsFresh /\ ReceiveOver
  BY DEF Init, VerdictsFresh, ReceiveOver
<1>8. RemainingBounded
  <2>1. SaveBlocked \in SUBSET SliceNum
    BY <1>1 DEF SaveBlocked, InStatus, TypeOK, WindowType
  <2>2. Cardinality(SaveBlocked) \in Nat
    BY <2>1, FinitePositions
  <2> QED
    BY <2>2 DEF Init, RemainingBounded
<1> QED
  BY <1>1, <1>3, <1>4, <1>5, <1>6, <1>7, <1>8 DEF Core

\* The inductive invariant holds in every reachable state.
THEOREM CoreInvariant == Spec => []Core
<1>1. Init => Core
  BY InitCore
<1>2. Core /\ [Next]_vars => Core'
  BY TypeStep, CoreStep DEF Core
<1> QED
  BY <1>1, <1>2, PTL DEF Spec

\* The status counters that stages wait on are exact, so that no slice is ever
\* forgotten or waited for in vain.
THEOREM CountersExact == Spec => []CountersMatch
<1>1. Core => CountersMatch
  BY DEF Core
<1> QED
  BY <1>1, CoreInvariant, PTL

\* min_block_num is the start of the range of slices in memory.
LEMMA MinNumIsStart ==
  ASSUME Core
  PROVE  \E m \in 0 .. maxNum : /\ DOMAIN slices = m .. maxNum - 1
                                /\ maxNum - m <= MaxSlices
                                /\ MinNum = m
<1>1. PICK m \in 0 .. maxNum : /\ DOMAIN slices = m .. maxNum - 1
                              /\ maxNum - m <= MaxSlices
  BY DEF Core, WindowShape
<1>2. maxNum \in Int
  BY DEF Core, TypeOK, WindowType
<1>3. MinNum = m
  <2>1. CASE m = maxNum
    <3>1. DOMAIN slices = {}
      BY <1>1, <1>2, <2>1
    <3> QED
      BY <2>1, <3>1 DEF MinNum
  <2>2. CASE m # maxNum
    <3>1. m \in DOMAIN slices /\ \A j \in DOMAIN slices : m <= j
      BY <1>1, <1>2, <2>2
    <3>2. \A i \in DOMAIN slices :
            (\A j \in DOMAIN slices : i <= j) => i = m
      <4> SUFFICES ASSUME NEW i \in DOMAIN slices,
                          \A j \in DOMAIN slices : i <= j
                   PROVE  i = m
        OBVIOUS
      <4>1. i <= m /\ m <= i
        BY <3>1
      <4>2. i \in Int /\ m \in Int
        BY <1>1, <1>2
      <4> QED
        BY <4>1, <4>2
    <3> QED
      BY <3>1, <3>2 DEF MinNum
  <2> QED
    BY <2>1, <2>2
<1> QED
  BY <1>1, <1>3

\* remove(Saved) never leaves a hole in the window, and the window never grows
\* past the memory limit.
THEOREM WindowNeverSplit == Spec => []WindowContiguous
<1>1. Core => WindowContiguous
  <2> SUFFICES ASSUME Core PROVE WindowContiguous
    OBVIOUS
  <2>1. PICK m \in 0 .. maxNum : /\ DOMAIN slices = m .. maxNum - 1
                                /\ maxNum - m <= MaxSlices
                                /\ MinNum = m
    BY MinNumIsStart
  <2>2. maxNum \in Int /\ m \in Int /\ maxNum - 1 \in Int
    BY DEF Core, TypeOK, WindowType
  <2>3. Cardinality(DOMAIN slices) = IF m > maxNum - 1 THEN 0
                                     ELSE (maxNum - 1) - m + 1
    BY <2>1, <2>2, FS_Interval
  <2>4. Cardinality(DOMAIN slices) <= MaxSlices
    BY <2>1, <2>2, <2>3, SizeAssumption
  <2> QED
    BY <2>1, <2>4 DEF WindowContiguous
<1> QED
  BY <1>1, CoreInvariant, PTL

\* What a phase reports as its final block number has been saved, without a
\* gap, at whatever moment the loop ends.
THEOREM ReportIsTrue == Spec => []ReportedIsSaved
<1>1. Core => ReportedIsSaved
  <2> SUFFICES ASSUME Core PROVE ReportedIsSaved
    OBVIOUS
  <2>1. PICK m \in 0 .. maxNum : /\ DOMAIN slices = m .. maxNum - 1
                                /\ MinNum = m
    BY MinNumIsStart
  <2>2. maxNum \in Int /\ m \in Int /\ SliceNum \subseteq Int
    BY SizeAssumption DEF Core, TypeOK, WindowType, SliceNum
  <2>3. \A i \in SliceNum : i < m => db[i] # None
    BY <2>1, <2>2 DEF Core, DbMatches
  <2>4. ASSUME NEW i \in SliceNum, NEW j \in SliceNum, j < i, db[i] # None
        PROVE  db[j] # None
    <3>1. i < maxNum /\ (i \in DOMAIN slices => slices[i].status = "Saved")
      BY <2>4 DEF Core, DbMatches
    <3>2. j < maxNum
      <4>1. i \in Int /\ j \in Int
        BY <2>2
      <4> QED
        BY <2>2, <2>4, <3>1, <4>1
    <3>3. CASE j \in DOMAIN slices
      <4>1. i \in DOMAIN slices
        BY <2>1, <2>2, <2>4, <3>1, <3>3
      <4>2. slices[j].status = "Saved"
        BY <2>4, <3>1, <3>3, <4>1 DEF Core, SavedFirst
      <4> QED
        BY <3>2, <4>2 DEF Core, DbMatches
    <3> QED
      BY <3>2, <3>3 DEF Core, DbMatches
  <2> QED
    BY <2>1, <2>3, <2>4 DEF ReportedIsSaved
<1> QED
  BY <1>1, CoreInvariant, PTL

\* Verdicts that are applied after an await are about the headers they were
\* computed from.
THEOREM VerdictsNeverStale == Spec => []VerdictsFresh
<1>1. Core => VerdictsFresh
  BY DEF Core
<1> QED
  BY <1>1, CoreInvariant, PTL

-----------------------------------------------------------------------------
(* The end of the loop *)

\* Before the end of the phase some stage can always proceed.
Progress == IsOver \/ ~streamsUp \/ SomeStageCanProceed

\* A slice at the front of the window always has a stage that takes it on:
\* SaveStage's remaining_count cannot hide the first Verified slice.
LEMMA SomeStageAlwaysCan ==
  ASSUME Core
  PROVE  Progress
<1> SUFFICES ASSUME ~IsOver, streamsUp, ~SomeStageCanProceed
             PROVE  FALSE
  BY DEF Progress
<1>1. PICK m \in 0 .. maxNum :
        /\ DOMAIN slices = m .. maxNum - 1
        /\ maxNum = NumSlices \/ maxNum - m = MaxSlices
  BY DEF Core, WindowShape
<1>2. maxNum \in 0 .. NumSlices /\ m \in Int
  BY DEF Core, TypeOK, WindowType
<1>3. m \in DOMAIN slices
  <2>1. DOMAIN slices # {}
    BY <1>1, <1>2, SizeAssumption DEF IsOver
  <2> QED
    BY <1>1, <1>2, <2>1
<1>4. Phase = "linear"
  BY PhaseAssumption DEF SomeStageCanProceed, Core, ReceiveOver
<1>5. ASSUME NEW s \in Status, s # "Verified"
      PROVE  InStatus(s) = {}
  <2>1. InStatus(s) \in SUBSET SliceNum
    BY DEF InStatus, Core, TypeOK, WindowType
  <2>2. IsFiniteSet(InStatus(s)) /\ Cardinality(InStatus(s)) \in Nat
    BY <2>1, FinitePositions
  <2>3. count[s] = Cardinality(InStatus(s))
    BY DEF Core, CountersMatch
  <2>4. ~(count[s] > 0)
    BY <1>4, <1>5 DEF SomeStageCanProceed, Status, Core, ReceiveOver
  <2>5. Cardinality(InStatus(s)) = 0
    BY <2>2, <2>3, <2>4
  <2> QED
    BY <2>2, <2>5, FS_EmptySet
<1>6. m \in InStatus("Verified") /\ m \notin SaveBlocked
  <2>1. slices[m].status \in Status
    BY <1>3 DEF Core, TypeOK, WindowType, Slice
  <2>2. m \in InStatus("Verified")
    BY <1>3, <1>5, <2>1 DEF InStatus
  <2>3. \A j \in DOMAIN slices : ~(j < m)
    BY <1>1, <1>2
  <2> QED
    BY <2>2, <2>3 DEF SaveBlocked
<1>7. Cardinality(SaveBlocked) < Cardinality(InStatus("Verified"))
  <2>1. InStatus("Verified") \in SUBSET SliceNum
    BY DEF InStatus, Core, TypeOK, WindowType
  <2>2. IsFiniteSet(InStatus("Verified"))
    BY <2>1, FinitePositions
  <2>3. SaveBlocked \subseteq InStatus("Verified")
    BY DEF SaveBlocked
  <2>4. SaveBlocked # InStatus("Verified")
    BY <1>6
  <2>5. /\ Cardinality(SaveBlocked) <= Cardinality(InStatus("Verified"))
        /\ Cardinality(SaveBlocked) # Cardinality(InStatus("Verified"))
    BY <2>2, <2>3, <2>4, FS_Subset
  <2>6. SaveBlocked \in SUBSET SliceNum
    BY <2>1, <2>3
  <2>7. /\ Cardinality(SaveBlocked) \in Nat
        /\ Cardinality(InStatus("Verified")) \in Nat
    BY <2>1, <2>6, FinitePositions
  <2> QED
    BY <2>5, <2>7
<1>8. count["Verified"] = Cardinality(InStatus("Verified"))
  BY DEF Core, CountersMatch, Status
<1>9. count["Verified"] = saveRemaining
  BY DEF SomeStageCanProceed
<1> DEFINE b == Cardinality(SaveBlocked)
           v == Cardinality(InStatus("Verified"))
<1>10. saveRemaining <= b /\ b < v /\ v = saveRemaining
  BY <1>7, <1>8, <1>9 DEF Core, RemainingBounded
<1>11. b \in Int /\ saveRemaining \in Int
  <2>1. SaveBlocked \in SUBSET SliceNum
    BY DEF SaveBlocked, InStatus, Core, TypeOK, WindowType
  <2> QED
    BY <2>1, FinitePositions DEF Core, TypeOK, StageType
<1> HIDE DEF b, v
<1> QED
  BY <1>10, <1>11

\* What a step does with the loop: it may go on, end normally because no stage
\* can proceed or the phase is complete, or fail because the reactor is gone.
LoopStep ==
  \/ UNCHANGED loop
  \/ loop' = "over" /\ (IsOver' \/ ~SomeStageCanProceed')
  \/ loop' = "failed" /\ ~reactorUp

\* A step of a running loop ends it in one of these ways only, and the streams
\* that have ended stay ended.
LEMMA LoopStepTaken ==
  ASSUME Core, Next
  PROVE  /\ loop = "running"
         /\ LoopStep
         /\ streamsUp' => streamsUp
         /\ reactorUp' => reactorUp
<1> DEFINE Goal == /\ loop = "running"
                   /\ LoopStep
                   /\ streamsUp' => streamsUp
                   /\ reactorUp' => reactorUp
<1> USE DEF LoopStep, StageDone, StageFailed, StageYields, env, streams
<1>1. CASE FetchRequest
  BY <1>1 DEF FetchRequest
<1>2. CASE FetchRequestCapacity
  BY <1>2 DEF FetchRequestCapacity
<1>3. CASE FetchReceiveSubscribe
  BY <1>3 DEF FetchReceiveSubscribe, Subscribe
<1>4. ASSUME NEW i \in SliceNum, NEW c \in Contents,
             NEW p \in Peers \cup {None}, FetchReceive(i, c, p)
      PROVE  Goal
  BY <1>4 DEF FetchReceive
<1>5. CASE FetchReceiveIgnored \/ FetchReceiveEnds
  BY <1>5 DEF FetchReceiveIgnored, FetchReceiveEnds
<1>6. CASE RetryWait \/ RetryReset
  BY <1>6 DEF RetryWait, RetryReset
<1>7. CASE VerifyStart \/ VerifyFinish
  BY <1>7 DEF VerifyStart, VerifyFinish
<1>8. CASE VerifyLink
  BY <1>8 DEF VerifyLink
<1>9. CASE Penalize \/ PenalizeContinue
  <2>1. PICK bad, invalid : PenalizePeers(bad, invalid)
    BY <1>9 DEF Penalize, PenalizeContinue
  <2>2. LoopStep
    BY <2>1 DEF PenalizePeers
  <2> QED
    BY <1>9, <2>2 DEF Penalize, PenalizeContinue
<1>10. CASE Save
  <2>1. Savable = SaveCandidates
    BY SaveFront
  <2> QED
    BY <1>10, <2>1 DEF Save
<1>11. CASE Refill
  BY <1>11 DEF Refill
<1>12. CASE TopBlockEstimateSubscribe
  BY <1>12 DEF TopBlockEstimateSubscribe, Subscribe
<1>13. CASE TopBlockEstimate \/ TopBlockEstimateEnds
  BY <1>13 DEF TopBlockEstimate, TopBlockEstimateEnds
<1>14. CASE ReceiveStreamEnds \/ ReactorStops
  BY <1>14 DEF ReceiveStreamEnds, ReactorStops
<1> QED
  BY <1>1, <1>2, <1>3, <1>4, <1>5, <1>6, <1>7, <1>8, <1>9, <1>10, <1>11,
     <1>12, <1>13, <1>14 DEF Next

\* The loop of a phase never ends early with the streams alive: no combination
\* of counters and remembered counts makes all stages say that they cannot
\* proceed while slices are missing.
THEOREM LoopNeverStopsShort == Spec => []LoopEndsWhenDone
<1>1. Init => LoopEndsWhenDone
  BY DEF Init, LoopEndsWhenDone
<1>2. Core => Progress
  BY SomeStageAlwaysCan
<1>3. /\ LoopEndsWhenDone /\ Core /\ Progress' /\ [Next]_vars
      => LoopEndsWhenDone'
  <2> SUFFICES ASSUME LoopEndsWhenDone, Core, Progress', [Next]_vars
               PROVE  LoopEndsWhenDone'
    OBVIOUS
  <2>1. CASE UNCHANGED vars
    BY <2>1 DEF LoopEndsWhenDone, vars, window, env, streams, IsOver
  <2>2. CASE Next
    <3>1. /\ loop = "running"
          /\ LoopStep
          /\ reactorUp' => reactorUp
      BY <2>2, LoopStepTaken
    <3> QED
      BY <3>1 DEF LoopStep, LoopEndsWhenDone, Progress
  <2> QED
    BY <2>1, <2>2
<1> QED
  BY <1>1, <1>2, <1>3, CoreInvariant, PTL DEF Spec

-----------------------------------------------------------------------------
(* The invariant of the links *)

\* The slices whose headers are taken for part of the chain: they are Verified
\* or Saved, or have left the window; and those headers.
Settled ==
  {i \in SliceNum :
     i < maxNum /\ (i \in DOMAIN slices =>
                      slices[i].status \in {"Verified", "Saved"})}

HeadersOf(i) == IF i \in InStatus("Verified") THEN slices[i].headers ELSE db[i]

\* The branch that slice i has to hang from.
Before(i) == IF i = 0 THEN Trusted ELSE HeadersOf(i - 1).tip

\* In the preverified phase each slice is compared with the hashes of its
\* positions, in any order.
PreverifiedLinks == \A i \in Settled : VerifyPreverified(HeadersOf(i))

\* In the linear phase the settled slices are a front part of the phase, each
\* hangs from the one before it, and VerifyLinkLinearStage remembers the branch
\* of the last of them.
LinearLinks ==
  /\ \A i \in InStatus("VerifiedInternally") : VerifyInternally(slices[i].headers)
  /\ \A i \in Settled, j \in SliceNum : j < i => j \in Settled
  /\ \A i \in Settled : /\ HeadersOf(i).ok /\ HeadersOf(i).len = "full"
                        /\ HeadersOf(i).up = Before(i)
  /\ \A i \in SliceNum \ Settled :
       i = 0 \/ i - 1 \in Settled => linkTip = Before(i)

Links == IF Phase = "preverified" THEN PreverifiedLinks ELSE LinearLinks

LinkInv == Core /\ Links

-----------------------------------------------------------------------------
(* Steps that settle no slice *)

\* The settled slices, their headers and the remembered branch stay, and so do
\* the slices that wait to be linked, unless they have just been verified.
Calm ==
  /\ Settled' = Settled /\ linkTip' = linkTip
  /\ \A i \in Settled : HeadersOf(i)' = HeadersOf(i)
  /\ \A i \in InStatus("VerifiedInternally")' :
       \/ i \in InStatus("VerifiedInternally") /\ slices'[i].headers = slices[i].headers
       \/ VerifyInternally(slices'[i].headers)

\* Such a step keeps the links.
LEMMA CalmStep ==
  ASSUME Links, Calm
  PROVE  Links'
<1>1. CASE Phase = "preverified"
  <2>1. \A i \in Settled' : VerifyPreverified(HeadersOf(i)') 
    BY <1>1 DEF Links, PreverifiedLinks, Calm
  <2> QED BY <1>1, <2>1 DEF Links, PreverifiedLinks, VerifyPreverified
<1>2. CASE Phase # "preverified"
  <2>1. LinearLinks
    BY <1>2 DEF Links
  <2>2. \A i \in SliceNum : i = 0 \/ i - 1 \in Settled => Before(i)' = Before(i)
    BY DEF Calm, Before
  <2>3. \A i \in InStatus("VerifiedInternally")' : VerifyInternally(slices'[i].headers)
    BY <2>1 DEF LinearLinks, Calm
  <2>4. ASSUME NEW i \in Settled
        PROVE  HeadersOf(i)'.ok /\ HeadersOf(i)'.len = "full" /\ HeadersOf(i)'.up = Before(i)'
    <3>1. i \in SliceNum /\ (i = 0 \/ i - 1 \in Settled)
      <4>1. i \in SliceNum
        BY DEF Settled
      <4>2. i # 0 => i - 1 \in SliceNum /\ i - 1 < i
        BY <4>1, SizeAssumption DEF SliceNum
      <4> QED BY <2>1, <4>1, <4>2 DEF LinearLinks
    <3> QED BY <3>1, <2>1, <2>2 DEF LinearLinks, Calm
  <2>5. ASSUME NEW i \in SliceNum \ Settled, i = 0 \/ i - 1 \in Settled
        PROVE  linkTip' = Before(i)'
    BY <2>5, <2>1, <2>2 DEF LinearLinks, Calm
  <2>6. Settled' = Settled
    BY DEF Calm
  <2>7. LinearLinks'
    <3>1. \A i \in Settled', j \in SliceNum : j < i => j \in Settled'
      BY <2>1, <2>6 DEF LinearLinks
    <3> QED BY <2>3, <2>4, <2>5, <2>6, <3>1 DEF LinearLinks, VerifyInternally
  <2> QED BY <1>2, <2>7 DEF Links
<1> QED BY <1>1, <1>2

\* No slice that has passed a verification is touched, and none passes one.
Quiet ==
  /\ DOMAIN slices' = DOMAIN slices
  /\ UNCHANGED <<maxNum, db, linkTip>>
  /\ \A i \in DOMAIN slices :
       \/ slices'[i] = slices[i]
       \/ /\ slices[i].status \notin {"VerifiedInternally", "Verified", "Saved"}
          /\ slices'[i].status \notin {"VerifiedInternally", "Verified", "Saved"}

\* Such a step keeps the links.
LEMMA QuietStep ==
  ASSUME Links, Quiet
  PROVE  Links'
<1>1. InStatus("Verified")' = InStatus("Verified")
  BY DEF Quiet, InStatus
<1>2. Settled' = Settled
  BY DEF Quiet, Settled
<1>3. ASSUME NEW i \in Settled PROVE HeadersOf(i)' = HeadersOf(i)
  BY <1>1 DEF Quiet, HeadersOf, InStatus
<1>4. ASSUME NEW i \in InStatus("VerifiedInternally")'
      PROVE  i \in InStatus("VerifiedInternally") /\ slices'[i].headers = slices[i].headers
  BY DEF Quiet, InStatus
<1> QED BY <1>2, <1>3, <1>4, CalmStep DEF Calm, Quiet

\* A step that does not touch the window, the database or the link stage.
LEMMA IdleQuiet ==
  ASSUME UNCHANGED <<window, db, linkTip>>
  PROVE  Quiet
BY DEF window, Quiet

\* A step that changes the status of slices that have passed no verification.
LEMMA StatusQuiet ==
  ASSUME NEW new, SetStatus(new), UNCHANGED <<db, linkTip>>,
         \A i \in DOMAIN new :
           /\ i \in DOMAIN slices
           /\ slices[i].status \notin {"VerifiedInternally", "Verified", "Saved"}
           /\ new[i] \notin {"VerifiedInternally", "Verified", "Saved"}
  PROVE  Quiet
<1>1. /\ DOMAIN slices' = DOMAIN slices
      /\ UNCHANGED maxNum
      /\ \A i \in DOMAIN slices :
           slices'[i] = IF i \in DOMAIN new
                        THEN [status |-> new[i], headers |-> slices[i].headers,
                              peer |-> slices[i].peer]
                        ELSE slices[i]
  BY DEF SetStatus, Update
<1> QED BY <1>1 DEF Quiet

\* PenalizeStage resets Invalid slices only.
LEMMA PenalizeQuiet ==
  ASSUME NEW bad, NEW invalid, PenalizePeers(bad, invalid), UNCHANGED <<db, linkTip>>
  PROVE  Quiet
<1> DEFINE f == [i \in DOMAIN slices |->
                   IF slices[i].status = "Invalid"
                   THEN [status |-> "Empty", headers |-> None,
                         peer |-> slices[i].peer]
                   ELSE slices[i]]
<1>1. CASE UNCHANGED window
  BY <1>1, IdleQuiet
<1>2. CASE Update(f)
  <2>1. /\ DOMAIN slices' = DOMAIN slices /\ maxNum' = maxNum
        /\ \A i \in DOMAIN slices : slices'[i] = f[i]
    BY <1>2 DEF Update
  <2> QED BY <2>1 DEF Quiet
<1> QED BY <1>1, <1>2 DEF PenalizePeers, ResetInvalid

-----------------------------------------------------------------------------
(* Verification *)

\* The verification of slices preserves the links: in the preverified phase it
\* settles slices that match the hashes of their positions.
LEMMA VerifyFinishLinks ==
  ASSUME Core, Links, VerifyFinish
  PROVE  Links'
<1> DEFINE new == [i \in DOMAIN verifying |->
                     IF verifying[i] THEN VerifiedStatus ELSE "Invalid"]
<1>1. /\ DOMAIN slices' = DOMAIN slices /\ maxNum' = maxNum /\ db' = db /\ linkTip' = linkTip
      /\ \A i \in DOMAIN slices :
           slices'[i] = IF i \in DOMAIN verifying
                        THEN [status |-> new[i], headers |-> slices[i].headers,
                              peer |-> slices[i].peer]
                        ELSE slices[i]
  BY DEF VerifyFinish, SetStatus, Update
<1>2. \A i \in DOMAIN verifying :
        /\ i \in DOMAIN slices /\ slices[i].status = "Downloaded"
        /\ new[i] \in {VerifiedStatus, "Invalid"}
        /\ new[i] = VerifiedStatus => Verdict(slices[i].headers)
  BY DEF Core, VerdictsFresh, InStatus, VerifiedStatus
<1> HIDE DEF new
<1>3. CASE Phase = "preverified"
  <2>0. VerifiedStatus = "Verified" /\ \A h : Verdict(h) = VerifyPreverified(h)
    BY <1>3 DEF VerifiedStatus, Verdict
  <2>1. ASSUME NEW i \in Settled' PROVE VerifyPreverified(HeadersOf(i)')
    <3>1. CASE i \in DOMAIN verifying
      <4>1. i \in DOMAIN slices /\ slices'[i].status = new[i] /\ slices'[i].headers = slices[i].headers
        BY <1>1, <1>2, <3>1
      <4>2. new[i] = "Verified"
        BY <1>1, <1>2, <2>0, <3>1, <4>1 DEF Settled
      <4>3. HeadersOf(i)' = slices[i].headers
        BY <4>1, <4>2, <1>1 DEF HeadersOf, InStatus
      <4> QED BY <4>2, <4>3, <1>2, <2>0, <3>1
    <3>2. CASE i \notin DOMAIN verifying
      <4>1. i \in DOMAIN slices => slices'[i] = slices[i]
        BY <1>1, <3>2
      <4>2. i \in Settled
        BY <1>1, <4>1 DEF Settled
      <4>3. HeadersOf(i)' = HeadersOf(i)
        BY <1>1, <4>1 DEF HeadersOf, InStatus
      <4> QED BY <4>2, <4>3, <1>3 DEF Links, PreverifiedLinks
    <3> QED BY <3>1, <3>2
  <2> QED BY <1>3, <2>1 DEF Links, PreverifiedLinks, VerifyPreverified
<1>4. CASE Phase # "preverified"
  <2>0. VerifiedStatus = "VerifiedInternally" /\ \A h : Verdict(h) = VerifyInternally(h)
    BY <1>4 DEF VerifiedStatus, Verdict
  <2>1. InStatus("Verified")' = InStatus("Verified")
    BY <1>1, <1>2, <2>0 DEF InStatus
  <2>2. Settled' = Settled
    BY <1>1, <1>2, <2>0 DEF Settled
  <2>3. ASSUME NEW i \in Settled PROVE HeadersOf(i)' = HeadersOf(i)
    BY <1>1, <1>2, <2>1 DEF HeadersOf, InStatus
  <2>4. ASSUME NEW i \in InStatus("VerifiedInternally")'
        PROVE  \/ i \in InStatus("VerifiedInternally") /\ slices'[i].headers = slices[i].headers
               \/ VerifyInternally(slices'[i].headers)
    BY <1>1, <1>2, <2>0 DEF InStatus
  <2> QED BY <1>1, <2>2, <2>3, <2>4, CalmStep DEF Calm
<1> QED BY <1>3, <1>4

\* VerifyLinkLinearStage looks at the slices that wait to be linked and that
\* nothing but settled or waiting slices precedes.
LEMMA LinkFront ==
  ASSUME Core
  PROVE  LinkCandidates = {i \in InStatus("VerifiedInternally") :
                             \A j \in DOMAIN slices :
                               j < i => slices[j].status \in {"Verified", "Saved",
                                                              "VerifiedInternally"}}
<1> DEFINE V == InStatus("VerifiedInternally")
           Front == {i \in V : \A j \in DOMAIN slices :
                       j < i => slices[j].status \in {"Verified", "Saved",
                                                      "VerifiedInternally"}}
<1>1. V \in SUBSET SliceNum /\ Front \in SUBSET V
  BY DEF InStatus, Core, TypeOK, WindowType
<1>2. count["VerifiedInternally"] = Cardinality(V) /\ count["VerifiedInternally"] \in Int
  BY DEF Core, CountersMatch, TypeOK, WindowType, Status
<1>3. Cardinality(Front) <= Cardinality(V)
  BY <1>1, FinitePositions, FS_Subset
<1>4. FirstN(Front, count["VerifiedInternally"]) = Front
  BY <1>1, <1>2, <1>3, FirstNAll
<1> QED BY <1>4 DEF LinkCandidates

\* What is linked in one pass: slices that were waiting, with nothing but
\* settled and linked slices before them.
LEMMA LinkedFront ==
  ASSUME Core
  PROVE  /\ Linked \subseteq DOMAIN slices /\ Linked \subseteq SliceNum
         /\ \A i \in Linked :
              /\ slices[i].status = "VerifiedInternally" /\ i \notin Settled
              /\ i \in LinkCandidates /\ LinkVerified(i)
              /\ \A j \in SliceNum : j < i => j \in Settled \cup Linked
              /\ \A j \in LinkCandidates : j < i => j \in Linked
<1>1. DOMAIN slices \subseteq SliceNum /\ SliceNum \subseteq Int /\ maxNum \in Int
  BY SizeAssumption DEF Core, TypeOK, WindowType, SliceNum
<1>2. /\ Linked \subseteq LinkCandidates /\ LinkCandidates \subseteq DOMAIN slices
      /\ \A i \in LinkCandidates :
           /\ slices[i].status = "VerifiedInternally"
           /\ \A j \in DOMAIN slices : j < i => slices[j].status \in {"Verified", "Saved", "VerifiedInternally"}
  BY LinkFront DEF Linked, InStatus
<1>3. ASSUME NEW i \in LinkCandidates, NEW j \in DOMAIN slices, j < i, slices[j].status = "VerifiedInternally"
      PROVE  j \in LinkCandidates
  <2>1. \A k \in DOMAIN slices : k < j => k < i
    <3>1. i \in Int /\ j \in Int /\ DOMAIN slices \subseteq Int
      BY <1>1, <1>2
    <3> QED BY <3>1, <1>3
  <2> QED BY <1>2, <1>3, <2>1, LinkFront DEF InStatus
<1>4. ASSUME NEW i \in Linked, NEW j \in LinkCandidates, j < i
      PROVE  j \in Linked
  <2>1. i \in Int /\ j \in Int /\ LinkCandidates \subseteq Int
    BY <1>1, <1>2
  <2>2. \A k \in LinkCandidates : k <= j => k <= i
    BY <1>4, <2>1
  <2> QED BY <2>2, <1>4 DEF Linked
<1>5. ASSUME NEW i \in Linked, NEW j \in SliceNum, j < i
      PROVE  j \in Settled \cup Linked
  <2>1. CASE j \notin DOMAIN slices
    <3>1. i < maxNum /\ i \in Int /\ j \in Int
      BY <1>1, <1>2 DEF Core, WindowShape
    <3>2. j < maxNum
      BY <3>1, <1>1, <1>5
    <3> QED BY <2>1, <3>2 DEF Settled
  <2>2. CASE j \in DOMAIN slices
    <3>1. slices[j].status \in {"Verified", "Saved", "VerifiedInternally"}
      BY <1>2, <1>5, <2>2
    <3>2. j < maxNum
      BY <1>1, <2>2 DEF Core, WindowShape
    <3>3. CASE slices[j].status = "VerifiedInternally"
      BY <1>2, <1>3, <1>4, <1>5, <2>2, <3>3
    <3>4. CASE slices[j].status # "VerifiedInternally"
      BY <3>1, <3>2, <3>4 DEF Settled
    <3> QED BY <3>3, <3>4
  <2> QED BY <2>1, <2>2
<1>6. ASSUME NEW i \in Linked PROVE LinkVerified(i) /\ i \notin Settled
  <2>1. i \in Int
    BY <1>1, <1>2
  <2>2. i <= i
    BY <2>1
  <2> QED BY <1>2, <2>2 DEF Linked, Settled
<1> QED BY <1>1, <1>2, <1>4, <1>5, <1>6

\* VerifyLinkLinearStage preserves the links: it settles the slices that hang
\* from each other and from the last settled one, and remembers the new last.
LEMMA VerifyLinkLinks ==
  ASSUME Core, Links, VerifyLink
  PROVE  Links'
<1>0. Phase # "preverified" /\ LinearLinks
  BY DEF VerifyLink, Links
<1>1. /\ DOMAIN slices' = DOMAIN slices /\ maxNum' = maxNum /\ db' = db
      /\ \A i \in DOMAIN slices :
           slices'[i] = IF i \in Linked \cup Broken
                        THEN [status |-> IF i \in Linked THEN "Verified" ELSE "Invalid",
                              headers |-> slices[i].headers, peer |-> slices[i].peer]
                        ELSE slices[i]
  BY DEF VerifyLink, SetStatus, Update
<1>2. /\ Linked \subseteq DOMAIN slices /\ Linked \subseteq SliceNum
      /\ \A i \in Linked :
           /\ slices[i].status = "VerifiedInternally" /\ i \notin Settled
           /\ i \in LinkCandidates /\ LinkVerified(i)
           /\ \A j \in SliceNum : j < i => j \in Settled \cup Linked
           /\ \A j \in LinkCandidates : j < i => j \in Linked
  BY LinkedFront
<1>3. \A i \in Broken : i \in DOMAIN slices /\ slices[i].status = "VerifiedInternally" /\ i \notin Linked
  BY LinkFront DEF Broken, InStatus
<1>4. SliceNum \subseteq Int /\ maxNum \in Int /\ DOMAIN slices \subseteq SliceNum
  BY SizeAssumption DEF Core, TypeOK, WindowType, SliceNum
<1>5. Settled' = Settled \cup Linked
  <2>1. \A i \in Linked : i < maxNum
    BY <1>2, <1>4 DEF Core, WindowShape
  <2>2. \A i \in DOMAIN slices : slices'[i].status \in {"Verified", "Saved"} <=>
                                   slices[i].status \in {"Verified", "Saved"} \/ i \in Linked
    BY <1>1, <1>2, <1>3
  <2> QED BY <1>1, <1>2, <2>1, <2>2 DEF Settled
<1>6. \A i \in Settled : HeadersOf(i)' = HeadersOf(i)
  <2>1. ASSUME NEW i \in Settled PROVE HeadersOf(i)' = HeadersOf(i)
    <3>1. i \notin Linked \cup Broken
      BY <1>2, <1>3 DEF Settled
    <3>2. i \in DOMAIN slices => slices'[i] = slices[i]
      BY <1>1, <3>1
    <3> QED BY <1>1, <3>2 DEF HeadersOf, InStatus
  <2> QED BY <2>1
<1>7. \A i \in Linked : HeadersOf(i)' = slices[i].headers
  BY <1>1, <1>2 DEF HeadersOf, InStatus
<1>8. ASSUME NEW i \in SliceNum, i # 0 PROVE i - 1 \in SliceNum /\ i - 1 < i
  BY <1>8, SizeAssumption DEF SliceNum
<1>9. \A i \in Settled, j \in SliceNum : j < i => j \in Settled
  BY <1>0 DEF LinearLinks
<1>10. ASSUME NEW i \in SliceNum, i = 0 \/ i - 1 \in Settled PROVE Before(i)' = Before(i)
  BY <1>6, <1>10 DEF Before
<1>11. ASSUME NEW i \in Settled
       PROVE  HeadersOf(i)'.ok /\ HeadersOf(i)'.len = "full" /\ HeadersOf(i)'.up = Before(i)'
  <2>1. i \in SliceNum
    BY DEF Settled
  <2>2. i = 0 \/ i - 1 \in Settled
    BY <1>8, <1>9, <2>1
  <2> QED BY <1>0, <1>6, <1>10, <2>1, <2>2 DEF LinearLinks
<1>12. ASSUME NEW i \in Linked
       PROVE  HeadersOf(i)'.ok /\ HeadersOf(i)'.len = "full" /\ HeadersOf(i)'.up = Before(i)'
  <2>1. /\ slices[i].headers.len = "full" /\ slices[i].headers.up = ParentTip(i)
        /\ slices[i].headers.ok
    BY <1>0, <1>2 DEF LinkVerified, LinearLinks, VerifyInternally, InStatus
  <2>2. i \in SliceNum /\ (i # 0 => i - 1 \in Settled \cup Linked)
    BY <1>2, <1>8
  <2>3. CASE i - 1 \in LinkCandidates
    <3>1. i # 0 /\ i - 1 < i
      <4>1. i - 1 \in SliceNum /\ i \in Int
        BY <2>2, <2>3, <1>4, LinkFront DEF InStatus
      <4> QED BY <4>1, SizeAssumption DEF SliceNum
    <3>2. i - 1 \in Linked
      BY <1>2, <2>3, <3>1
    <3>3. Before(i)' = slices[i - 1].headers.tip
      BY <3>1, <3>2, <1>7 DEF Before
    <3> QED BY <1>7, <2>1, <2>3, <3>3 DEF ParentTip
  <2>4. CASE i - 1 \notin LinkCandidates
    <3>1. i = 0 \/ i - 1 \in Settled
      BY <1>2, <2>2, <2>4
    <3>2. linkTip = Before(i)
      BY <1>0, <1>2, <2>2, <3>1 DEF LinearLinks
    <3>3. Before(i)' = Before(i)
      BY <1>10, <2>2, <3>1
    <3> QED BY <1>7, <2>1, <2>4, <3>2, <3>3 DEF ParentTip
  <2> QED BY <2>3, <2>4
<1>13. ASSUME NEW i \in SliceNum \ Settled', i = 0 \/ i - 1 \in Settled'
       PROVE  linkTip' = Before(i)'
  <2>1. i \notin Settled /\ i \notin Linked /\ i \in Int
    BY <1>4, <1>5
  <2>2. CASE Linked = {}
    <3>1. linkTip' = linkTip /\ (i = 0 \/ i - 1 \in Settled)
      BY <1>5, <1>13, <2>2 DEF VerifyLink
    <3> QED BY <1>0, <1>10, <2>1, <3>1 DEF LinearLinks
  <2>3. CASE Linked # {}
    <3>1. PICK last \in Linked : /\ \A k \in Linked : k <= last
                                 /\ linkTip' = slices[last].headers.tip
      BY <2>3 DEF VerifyLink
    <3>2. last \in Int /\ last \in SliceNum /\ 0 <= last
      BY <1>2, <1>4, SizeAssumption DEF SliceNum
    <3>3. ~(i <= last)
      <4>1. i # last
        BY <2>1
      <4>2. ~(i < last)
        BY <1>2, <2>1
      <4> QED BY <4>1, <4>2, <2>1, <3>2
    <3>4. i # 0 /\ i - 1 \in Settled \cup Linked
      BY <1>5, <1>13, <3>2, <3>3
    <3>5. i - 1 = last
      <4>1. CASE i - 1 \in Linked
        <5>1. i - 1 <= last
          BY <3>1, <4>1
        <5> QED BY <5>1, <2>1, <3>2, <3>3
      <4>2. CASE i - 1 \in Settled
        <5>1. ~(last < i - 1)
          BY <1>2, <1>9, <3>2, <4>2
        <5> QED BY <5>1, <2>1, <3>2, <3>3
      <4> QED BY <3>4, <4>1, <4>2
    <3> QED BY <1>7, <3>1, <3>4, <3>5 DEF Before
  <2> QED BY <2>2, <2>3
<1>14. ASSUME NEW i \in Settled', NEW j \in SliceNum, j < i PROVE j \in Settled'
  BY <1>2, <1>5, <1>9, <1>14
<1>15. ASSUME NEW i \in InStatus("VerifiedInternally")' PROVE VerifyInternally(slices'[i].headers)
  <2>1. i \in InStatus("VerifiedInternally") /\ slices'[i].headers = slices[i].headers
    BY <1>1 DEF InStatus
  <2> QED BY <1>0, <2>1 DEF LinearLinks
<1>16. \A i \in Settled' : HeadersOf(i)'.ok /\ HeadersOf(i)'.len = "full" /\ HeadersOf(i)'.up = Before(i)'
  BY <1>5, <1>11, <1>12
<1>17. LinearLinks'
  BY <1>13, <1>14, <1>15, <1>16 DEF LinearLinks, VerifyInternally
<1> QED BY <1>0, <1>17 DEF Links

-----------------------------------------------------------------------------
(* SaveStage and RefillStage *)

\* SaveStage writes the headers that were settled, and settles no others.
LEMMA SaveLinks ==
  ASSUME Core, Links, Save
  PROVE  Links'
<1>1. /\ DOMAIN slices' = DOMAIN slices /\ maxNum' = maxNum /\ linkTip' = linkTip
      /\ \A i \in DOMAIN slices :
           slices'[i] = IF i \in Savable
                        THEN [status |-> "Saved", headers |-> slices[i].headers,
                              peer |-> slices[i].peer]
                        ELSE slices[i]
      /\ db' = [i \in SliceNum |-> IF i \in Savable THEN slices[i].headers ELSE db[i]]
  BY DEF Save, SetStatus, Update
<1>2. \A i \in Savable : i \in DOMAIN slices /\ slices[i].status = "Verified"
  BY SaveFront DEF InStatus
<1>3. Settled' = Settled
  BY <1>1, <1>2 DEF Settled
<1>4. ASSUME NEW i \in Settled PROVE HeadersOf(i)' = HeadersOf(i)
  <2>1. i \in SliceNum
    BY DEF Settled
  <2>2. CASE i \in Savable
    BY <1>1, <1>2, <2>1, <2>2 DEF HeadersOf, InStatus
  <2>3. CASE i \notin Savable
    BY <1>1, <2>1, <2>3 DEF HeadersOf, InStatus
  <2> QED BY <2>2, <2>3
<1>5. ASSUME NEW i \in InStatus("VerifiedInternally")'
      PROVE  i \in InStatus("VerifiedInternally") /\ slices'[i].headers = slices[i].headers
  BY <1>1 DEF InStatus
<1> QED BY <1>1, <1>3, <1>4, <1>5, CalmStep DEF Calm

\* The settled slices are those in the database and the Verified ones.
LEMMA SettledSplit ==
  ASSUME Core
  PROVE  Settled = {i \in SliceNum : db[i] # None} \cup InStatus("Verified")
<1>1. DOMAIN slices \subseteq SliceNum /\ \A i \in DOMAIN slices : i < maxNum
  BY SizeAssumption DEF Core, TypeOK, WindowType, WindowShape, SliceNum
<1>2. \A i \in SliceNum : db[i] # None <=> /\ i < maxNum
                                           /\ i \in DOMAIN slices => slices[i].status = "Saved"
  BY DEF Core, DbMatches
<1> QED BY <1>1, <1>2 DEF Settled, InStatus

\* RefillStage takes away slices that are in the database, and adds Empty ones.
LEMMA RefillLinks ==
  ASSUME Core, Core', Links, Refill
  PROVE  Links'
<1> DEFINE kept == DOMAIN slices \ Removable
           added == Refillable(MaxSlices - Cardinality(kept))
<1>1. /\ slices' = [i \in kept \cup added |-> IF i \in kept THEN slices[i] ELSE EmptySlice]
      /\ db' = db /\ linkTip' = linkTip
  BY DEF Refill, stagePcs
<1> HIDE DEF added
<1>2. /\ DOMAIN slices' = kept \cup added
      /\ \A i \in DOMAIN slices' : slices'[i] = IF i \in kept THEN slices[i] ELSE EmptySlice
  BY <1>1
<1>3. \A s \in {"Verified", "VerifiedInternally"} :
        InStatus(s)' = InStatus(s) /\ \A i \in InStatus(s) : slices'[i] = slices[i]
  BY <1>2 DEF InStatus, EmptySlice, Removable
<1>4. Settled' = Settled
  <2>1. Settled = {i \in SliceNum : db[i] # None} \cup InStatus("Verified")
    BY SettledSplit
  <2>2. Settled' = {i \in SliceNum : db'[i] # None} \cup InStatus("Verified")'
    <3>1. DOMAIN slices' \subseteq SliceNum /\ \A i \in DOMAIN slices' : i < maxNum'
      BY SizeAssumption DEF Core, TypeOK, WindowType, WindowShape, SliceNum
    <3>2. \A i \in SliceNum : db'[i] # None <=> /\ i < maxNum'
                                                /\ i \in DOMAIN slices' => slices'[i].status = "Saved"
      BY DEF Core, DbMatches
    <3> QED BY <3>1, <3>2 DEF Settled, InStatus
  <2> QED BY <1>1, <1>3, <2>1, <2>2
<1>5. \A i \in Settled : HeadersOf(i)' = HeadersOf(i)
  BY <1>1, <1>3 DEF HeadersOf
<1> QED BY <1>1, <1>3, <1>4, <1>5, CalmStep DEF Calm

-----------------------------------------------------------------------------
(* All steps *)

\* Every step but those of the verification, save and refill stages is quiet.
Loud == VerifyFinish \/ VerifyLink \/ Save \/ Refill

\* So the others keep the links.
LEMMA OthersQuiet ==
  ASSUME [Next]_vars, ~Loud
  PROVE  Quiet
<1>0. CASE UNCHANGED vars
  BY <1>0, IdleQuiet DEF vars, stagePcs
<1>1. CASE FetchRequest
  <2>1. UNCHANGED <<db, linkTip>>
    BY <1>1 DEF FetchRequest
  <2>2. CASE UNCHANGED window
    BY <2>1, <2>2, IdleQuiet
  <2>3. CASE ~UNCHANGED window
    <3>1. PICK n \in 0 .. Cardinality(InStatus("Empty")) :
            SetStatus([i \in FirstN(InStatus("Empty"), n) |-> "Waiting"])
      BY <1>1, <2>3 DEF FetchRequest
    <3>2. \A i \in FirstN(InStatus("Empty"), n) :
            i \in DOMAIN slices /\ slices[i].status = "Empty"
      BY DEF FirstN, InStatus
    <3> QED BY <2>1, <3>1, <3>2, StatusQuiet
  <2> QED BY <2>2, <2>3
<1>2. CASE FetchRequestCapacity
  BY <1>2, IdleQuiet DEF FetchRequestCapacity
<1>3. CASE FetchReceiveSubscribe
  BY <1>3, IdleQuiet DEF FetchReceiveSubscribe, stagePcs
<1>4. ASSUME NEW i \in SliceNum, NEW c \in Contents,
             NEW p \in Peers \cup {None}, FetchReceive(i, c, p)
      PROVE  Quiet
  <2>1. /\ i \in DOMAIN slices /\ slices[i].status = "Waiting" /\ db' = db /\ linkTip' = linkTip
        /\ slices' = [slices EXCEPT ![i] = [status |-> "Downloaded", headers |-> c, peer |-> p]]
        /\ maxNum' = maxNum
    BY <1>4 DEF FetchReceive, Receivable, InStatus, Update, stagePcs
  <2> QED BY <2>1 DEF Quiet
<1>5. CASE FetchReceiveIgnored
  BY <1>5, IdleQuiet DEF FetchReceiveIgnored, stagePcs
<1>6. CASE FetchReceiveEnds
  BY <1>6, IdleQuiet DEF FetchReceiveEnds, stagePcs
<1>7. CASE RetryWait
  BY <1>7, IdleQuiet DEF RetryWait
<1>8. CASE RetryReset
  <2>1. UNCHANGED <<db, linkTip>>
    BY <1>8 DEF RetryReset
  <2>2. PICK expired \in SUBSET InStatus("Waiting") :
          SetStatus([i \in expired |-> "Empty"])
    BY <1>8 DEF RetryReset
  <2>3. \A i \in expired : i \in DOMAIN slices /\ slices[i].status = "Waiting"
    BY DEF InStatus
  <2> QED BY <2>1, <2>2, <2>3, StatusQuiet
<1>9. CASE VerifyStart
  BY <1>9, IdleQuiet DEF VerifyStart
<1>10. CASE Penalize
  BY <1>10, PenalizeQuiet DEF Penalize
<1>11. CASE PenalizeContinue
  BY <1>11, PenalizeQuiet DEF PenalizeContinue
<1>12. CASE TopBlockEstimateSubscribe
  BY <1>12, IdleQuiet DEF TopBlockEstimateSubscribe, stagePcs
<1>13. CASE TopBlockEstimate
  BY <1>13, IdleQuiet DEF TopBlockEstimate, stagePcs
<1>14. CASE TopBlockEstimateEnds
  BY <1>14, IdleQuiet DEF TopBlockEstimateEnds, stagePcs
<1>15. CASE ReceiveStreamEnds
  BY <1>15, IdleQuiet DEF ReceiveStreamEnds, stagePcs
<1>16. CASE ReactorStops
  BY <1>16, IdleQuiet DEF ReactorStops, stagePcs
<1> QED
  BY <1>0, <1>1, <1>2, <1>3, <1>4, <1>5, <1>6, <1>7, <1>8, <1>9, <1>10, <1>11, <1>12, <1>13,
     <1>14, <1>15, <1>16 DEF Next, Loud

\* A window of Empty slices is linked.
LEMMA InitLinks ==
  ASSUME Init
  PROVE  Links
<1>1. Settled = {}
  BY SizeAssumption DEF Init, Settled, SliceNum, EmptySlice
<1>2. InStatus("VerifiedInternally") = {}
  BY DEF Init, InStatus, EmptySlice
<1>3. linkTip = Trusted
  BY DEF Init
<1> QED BY <1>1, <1>2, <1>3 DEF Links, PreverifiedLinks, LinearLinks, Before

\* In every reachable state the settled slices are linked.
THEOREM LinksInvariant == Spec => []LinkInv
<1>1. Init => LinkInv
  BY InitCore, InitLinks DEF LinkInv
<1>2. LinkInv /\ [Next]_vars => LinkInv'
  <2> SUFFICES ASSUME LinkInv, [Next]_vars PROVE LinkInv'
    OBVIOUS
  <2>1. Core /\ Core' /\ Links
    BY TypeStep, CoreStep DEF LinkInv, Core
  <2>2. Links'
    BY <2>1, OthersQuiet, QuietStep, VerifyFinishLinks, VerifyLinkLinks, SaveLinks, RefillLinks DEF Loud
  <2> QED BY <2>1, <2>2 DEF LinkInv
<1> QED BY <1>1, <1>2, PTL DEF Spec

\* A preverified slice is saved with all its headers, with those of the next
\* slices too up to another preverified hash, or as a single header that has the
\* hash of its position; a linear one with all its headers.
THEOREM SavedComplete == Spec => []SavedSlicesComplete
<1>1. LinkInv => SavedSlicesComplete
  <2> SUFFICES ASSUME LinkInv, NEW i \in SliceNum, db[i] # None
               PROVE  db[i].len \in {"full", "long", "first"}
    BY DEF SavedSlicesComplete
  <2>1. i \in Settled /\ i \notin InStatus("Verified")
    BY SettledSplit DEF LinkInv, Core, DbMatches, InStatus
  <2>2. HeadersOf(i) = db[i] /\ db[i] \in Headers
    BY <2>1, DataAssumption DEF HeadersOf, LinkInv, Core, TypeOK
  <2>3. CASE Phase = "preverified"
    BY <2>1, <2>2, <2>3 DEF LinkInv, Links, PreverifiedLinks, VerifyPreverified, Headers
  <2>4. CASE Phase # "preverified"
    BY <2>1, <2>2, <2>4 DEF LinkInv, Links, LinearLinks
  <2> QED BY <2>3, <2>4
<1> QED BY <1>1, LinksInvariant, PTL

\* A step that sets statuses of other slices leaves an Invalid slice alone.
LEMMA OthersSet ==
  ASSUME NEW new, SetStatus(new), \A j \in DOMAIN new : slices[j].status # "Invalid",
         NEW i \in InStatus("Invalid")
  PROVE  i \in DOMAIN slices' /\ slices'[i] = slices[i]
<1>1. i \in DOMAIN slices /\ i \notin DOMAIN new
  BY DEF InStatus
<1> QED BY <1>1 DEF SetStatus, Update

\* Nothing but PenalizeStage touches an Invalid slice, or what it remembers of
\* its reports.
LEMMA InvalidKept ==
  ASSUME Core, [Next]_vars, ~Penalize, ~PenalizeContinue
  PROVE  /\ \A i \in InStatus("Invalid") : i \in DOMAIN slices' /\ slices'[i] = slices[i]
         /\ UNCHANGED <<penalizePc, badPeers, collected, penalized>>
<1> DEFINE Kept == \A i \in InStatus("Invalid") : i \in DOMAIN slices' /\ slices'[i] = slices[i]
<1> DEFINE Goal == Kept /\ UNCHANGED <<penalizePc, badPeers, collected, penalized>>
<1> USE DEF env, stagePcs
<1>1. CASE UNCHANGED window /\ UNCHANGED <<penalizePc, badPeers, collected, penalized>>
  BY <1>1 DEF window, InStatus
<1>2. CASE FetchRequest
  <2>1. CASE UNCHANGED window
    BY <1>1, <1>2, <2>1 DEF FetchRequest
  <2>2. CASE ~UNCHANGED window
    <3>1. PICK n \in 0 .. Cardinality(InStatus("Empty")) :
            SetStatus([j \in FirstN(InStatus("Empty"), n) |-> "Waiting"])
      BY <1>2, <2>2 DEF FetchRequest
    <3>2. \A j \in FirstN(InStatus("Empty"), n) : slices[j].status = "Empty"
      BY DEF FirstN, InStatus
    <3>3. Kept
      BY <3>1, <3>2, OthersSet
    <3> QED BY <1>2, <3>3 DEF FetchRequest
  <2> QED BY <2>1, <2>2
<1>3. CASE RetryReset
  <2>1. PICK expired \in SUBSET InStatus("Waiting") :
          SetStatus([j \in expired |-> "Empty"])
    BY <1>3 DEF RetryReset
  <2>2. \A j \in expired : slices[j].status = "Waiting"
    BY DEF InStatus
  <2>3. Kept
    BY <2>1, <2>2, OthersSet
  <2> QED BY <1>3, <2>3 DEF RetryReset
<1>4. CASE VerifyFinish
  <2>1. \A j \in DOMAIN verifying : slices[j].status = "Downloaded"
    BY DEF Core, VerdictsFresh, InStatus
  <2>2. Kept
    BY <1>4, <2>1, OthersSet DEF VerifyFinish
  <2> QED BY <1>4, <2>2 DEF VerifyFinish
<1>5. CASE VerifyLink
  <2>1. \A j \in Linked \cup Broken : slices[j].status = "VerifiedInternally"
    BY LinkFront DEF Linked, Broken, InStatus
  <2>2. Kept
    BY <1>5, <2>1, OthersSet DEF VerifyLink
  <2> QED BY <1>5, <2>2 DEF VerifyLink
<1>6. CASE Save
  <2>1. \A j \in Savable : slices[j].status = "Verified"
    BY SaveFront DEF InStatus
  <2>2. Kept
    BY <1>6, <2>1, OthersSet DEF Save
  <2> QED BY <1>6, <2>2 DEF Save
<1>7. CASE Refill
  <2> SUFFICES ASSUME NEW i \in InStatus("Invalid")
               PROVE  i \in DOMAIN slices' /\ slices'[i] = slices[i]
    BY <1>7 DEF Refill
  <2>1. i \in DOMAIN slices \ Removable
    BY DEF Removable, InStatus
  <2> QED BY <1>7, <2>1 DEF Refill
<1>8. ASSUME NEW j \in SliceNum, NEW c \in Contents,
             NEW p \in Peers \cup {None}, FetchReceive(j, c, p)
      PROVE  Goal
  BY <1>8 DEF FetchReceive, Receivable, InStatus, Update
<1>9. CASE UNCHANGED vars
  BY <1>1, <1>9 DEF vars
<1> QED
  BY <1>1, <1>2, <1>3, <1>4, <1>5, <1>6, <1>7, <1>8, <1>9
     DEF Next, FetchRequestCapacity, FetchReceiveSubscribe, FetchReceiveIgnored,
         FetchReceiveEnds, RetryWait, VerifyStart, TopBlockEstimateSubscribe,
         TopBlockEstimate, TopBlockEstimateEnds, ReceiveStreamEnds, ReactorStops

\* While PenalizeStage waits in the middle of its reports the slices it collected
\* the peers of stay Invalid, and each peer is reported or still to report.
CollectedKnown ==
  penalizePc = "send" =>
    \A i \in collected : /\ i \in InStatus("Invalid")
                         /\ slices[i].peer \in penalized \cup badPeers \cup {None}

\* PenalizeStage preserves that, if it holds for what it is given.
LEMMA PenalizeKnown ==
  ASSUME NEW bad, NEW invalid, PenalizePeers(bad, invalid),
         \A i \in invalid : /\ i \in InStatus("Invalid")
                            /\ slices[i].peer \in penalized \cup bad \cup {None},
         penalizePc = "wait" \/ (bad = badPeers /\ invalid = collected)
  PROVE  CollectedKnown'
<1>1. CASE ~reactorUp /\ bad # {}
  <2>1. UNCHANGED <<window, penalizePc, badPeers, collected, penalized>>
    BY <1>1 DEF PenalizePeers
  <2> QED BY <2>1 DEF CollectedKnown, window, InStatus
<1>2. CASE ~(~reactorUp /\ bad # {})
  <2>1. PICK sent \in SUBSET bad :
          /\ penalized' = penalized \cup sent
          /\ badPeers' = bad \ sent
          /\ \/ penalizePc' = "wait"
             \/ collected' = invalid /\ UNCHANGED window
    BY <1>2 DEF PenalizePeers
  <2>2. CASE penalizePc' = "wait"
    BY <2>2 DEF CollectedKnown
  <2>3. CASE collected' = invalid /\ UNCHANGED window
    <3>1. \A i \in invalid : i \in InStatus("Invalid")'
      BY <2>3 DEF window, InStatus
    <3>2. \A i \in invalid : slices'[i].peer \in penalized' \cup badPeers' \cup {None}
      BY <2>1, <2>3 DEF window
    <3> QED BY <2>3, <3>1, <3>2 DEF CollectedKnown
  <2> QED BY <2>1, <2>2, <2>3
<1> QED BY <1>1, <1>2

\* Every step preserves it.
LEMMA KnownStep ==
  ASSUME Core, CollectedKnown, [Next]_vars
  PROVE  CollectedKnown'
<1>1. CASE Penalize
  <2> DEFINE invalid == InStatus("Invalid")
             bad == {slices[i].peer : i \in invalid} \ {None}
  <2>1. /\ penalizePc = "wait" /\ PenalizePeers(bad, invalid)
        /\ \A i \in invalid : slices[i].peer \in penalized \cup bad \cup {None}
    BY <1>1 DEF Penalize
  <2> QED BY <2>1, PenalizeKnown
<1>2. CASE PenalizeContinue
  <2>1. penalizePc = "send" /\ PenalizePeers(badPeers, collected)
    BY <1>2 DEF PenalizeContinue
  <2>2. \A i \in collected : /\ i \in InStatus("Invalid")
                             /\ slices[i].peer \in penalized \cup badPeers \cup {None}
    BY <2>1 DEF CollectedKnown
  <2> QED BY <2>1, <2>2, PenalizeKnown
<1>3. CASE ~Penalize /\ ~PenalizeContinue
  <2>1. /\ \A i \in InStatus("Invalid") : i \in DOMAIN slices' /\ slices'[i] = slices[i]
        /\ UNCHANGED <<penalizePc, badPeers, collected, penalized>>
    BY <1>3, InvalidKept
  <2> SUFFICES ASSUME penalizePc = "send", NEW i \in collected
               PROVE  /\ i \in InStatus("Invalid")'
                      /\ slices'[i].peer \in penalized \cup badPeers \cup {None}
    BY <2>1 DEF CollectedKnown
  <2>2. /\ i \in InStatus("Invalid")
        /\ slices[i].peer \in penalized \cup badPeers \cup {None}
    BY DEF CollectedKnown
  <2> QED BY <2>1, <2>2 DEF InStatus
<1> QED BY <1>1, <1>2, <1>3

\* An Invalid slice is asked for again only when the peer that sent it has been
\* reported, or when it became Invalid while PenalizeStage was waiting in the
\* middle of its reports.
THEOREM ReportedBeforeRefetch == Spec => PenalizedBeforeRefetch
<1> DEFINE Reported ==
      \A i \in InStatus("Invalid") :
        i \in DOMAIN slices' /\ slices'[i].status = "Empty" =>
          \/ slices[i].peer \in penalized' \cup {None}
          \/ penalizePc = "send" /\ i \notin collected
<1>1. Init => CollectedKnown
  BY DEF Init, CollectedKnown
<1>2. Core /\ CollectedKnown /\ [Next]_vars => CollectedKnown'
  BY KnownStep
<1>3. Core /\ CollectedKnown /\ [Next]_vars => [Reported]_vars
  <2> SUFFICES ASSUME Core, CollectedKnown, [Next]_vars,
                      NEW i \in InStatus("Invalid"),
                      i \in DOMAIN slices', slices'[i].status = "Empty",
                      ~(penalizePc = "send" /\ i \notin collected)
               PROVE  slices[i].peer \in penalized' \cup {None}
    OBVIOUS
  <2>1. slices'[i] # slices[i]
    BY DEF InStatus
  <2>2. CASE Penalize
    <3> DEFINE bad == {slices[j].peer : j \in InStatus("Invalid")} \ {None}
    <3>1. PICK sent \in SUBSET bad :
            penalized' = penalized \cup sent /\ (sent # bad => UNCHANGED window)
      BY <2>1, <2>2 DEF Penalize, PenalizePeers, window
    <3>2. sent = bad
      BY <2>1, <3>1 DEF window
    <3> QED BY <3>1, <3>2
  <2>3. CASE PenalizeContinue
    <3>1. PICK sent \in SUBSET badPeers :
            penalized' = penalized \cup sent /\ (sent # badPeers => UNCHANGED window)
      BY <2>1, <2>3 DEF PenalizeContinue, PenalizePeers, window
    <3>2. sent = badPeers
      BY <2>1, <3>1 DEF window
    <3>3. slices[i].peer \in penalized \cup badPeers \cup {None}
      BY <2>3 DEF PenalizeContinue, CollectedKnown
    <3> QED BY <3>1, <3>2, <3>3
  <2> QED BY <2>1, <2>2, <2>3, InvalidKept
<1> QED BY <1>1, <1>2, <1>3, CoreInvariant, PTL DEF Spec, PenalizedBeforeRefetch

-----------------------------------------------------------------------------
(* The refinement of HeaderChain *)

\* The saved slices, and the chain they are seen as.
SavedNums == {i \in SliceNum : db[i] # None}
SavedChain == [k \in 1 .. Cardinality(SavedNums) |-> db[k - 1]]

\* The slices in the database are the first ones of the phase.
LEMMA SavedIsFront ==
  ASSUME TypeOK, ReportedIsSaved
  PROVE  /\ Cardinality(SavedNums) \in Nat
         /\ SavedNums = 0 .. Cardinality(SavedNums) - 1
         /\ SavedChain \in Seq(Headers)
         /\ Len(SavedChain) = Cardinality(SavedNums)
<1>1. /\ SavedNums \in SUBSET (0 .. NumSlices - 1) /\ NumSlices \in Int
      /\ \A i \in SavedNums : \A j \in 0 .. NumSlices - 1 : j < i => j \in SavedNums
  BY SizeAssumption DEF SavedNums, ReportedIsSaved, SliceNum
<1> DEFINE n == Cardinality(SavedNums)
<1>2. n \in Nat /\ SavedNums = 0 .. 0 + n - 1
  <2>1. 0 \in Int
    OBVIOUS
  <2> QED BY <1>1, <2>1, PrefixInterval, Zenon
<1>3. SavedNums = 0 .. n - 1
  <2> HIDE DEF n
  <2> QED BY <1>2
<1>4. \A i \in SavedNums : db[i] \in Headers
  BY DataAssumption DEF SavedNums, TypeOK
<1>5. SavedChain \in Seq(Headers) /\ Len(SavedChain) = n
  <2>1. SavedChain = [k \in 1 .. n |-> db[k - 1]]
    BY DEF SavedChain
  <2> HIDE DEF n
  <2>2. \A k \in 1 .. n : k - 1 \in SavedNums
    BY <1>2, <1>3
  <2>3. SavedChain \in [1 .. n -> Headers]
    BY <1>4, <2>1, <2>2
  <2> QED BY <1>2, <2>3
<1> QED BY <1>2, <1>3, <1>5

\* They are linked.
LEMMA SavedIsLinked ==
  ASSUME LinkInv, ReportedIsSaved
  PROVE  \A k \in 1 .. Len(SavedChain) :
           /\ SavedChain[k].ok
           /\ SavedChain[k].up = IF k = 1 THEN Trusted ELSE SavedChain[k - 1].tip
<1> DEFINE n == Cardinality(SavedNums)
<1>1. n \in Nat /\ SavedNums = 0 .. n - 1 /\ Len(SavedChain) = n
  BY SavedIsFront DEF LinkInv, Core
<1>2. SavedChain = [k \in 1 .. n |-> db[k - 1]]
  BY DEF SavedChain
<1> HIDE DEF n
<1>3. ASSUME NEW i \in SavedNums PROVE i \in Settled /\ HeadersOf(i) = db[i]
  <2>1. i \in Settled /\ i \notin InStatus("Verified")
    BY SettledSplit DEF LinkInv, Core, DbMatches, InStatus, SavedNums
  <2> QED BY <2>1 DEF HeadersOf
<1> SUFFICES ASSUME NEW k \in 1 .. n
             PROVE  /\ SavedChain[k].ok
                    /\ SavedChain[k].up = IF k = 1 THEN Trusted ELSE SavedChain[k - 1].tip
  BY <1>1
<1>4. k - 1 \in SavedNums /\ (k # 1 => k - 2 \in SavedNums /\ k - 1 \in 1 .. n /\ (k - 1) - 1 = k - 2)
  BY <1>1
<1>5. SavedChain[k] = db[k - 1] /\ (k # 1 => SavedChain[k - 1] = db[k - 2])
  BY <1>2, <1>4
<1>6. CASE Phase = "preverified"
  <2>1. \A i \in SavedNums : db[i].ok /\ db[i].up = Trusted /\ db[i].tip = Trusted
    BY <1>3, <1>6 DEF LinkInv, Links, PreverifiedLinks, VerifyPreverified
  <2> QED BY <1>4, <1>5, <2>1
<1>7. CASE Phase # "preverified"
  <2>1. \A i \in SavedNums : db[i].ok /\ db[i].up = Before(i)
    BY <1>3, <1>7 DEF LinkInv, Links, LinearLinks
  <2>2. Before(k - 1) = IF k = 1 THEN Trusted ELSE db[k - 2].tip
    BY <1>3, <1>4 DEF Before
  <2> QED BY <1>4, <1>5, <2>1, <2>2
<1> QED BY <1>6, <1>7

\* What HeaderChain sees of a state: a linked sequence of the saved slices, and
\* a progress within it.
ChainShape ==
  /\ Cardinality(SavedNums) \in Nat
  /\ SavedNums = 0 .. Cardinality(SavedNums) - 1
  /\ SavedChain \in Seq(Headers)
  /\ Len(SavedChain) = Cardinality(SavedNums)
  /\ Chain!Linked(SavedChain)
  /\ MinNum \in Nat /\ MinNum <= Cardinality(SavedNums)

\* Every state of the pipeline has that shape.
LEMMA ShapeHolds ==
  ASSUME LinkInv, ReportedIsSaved
  PROVE  ChainShape
<1> DEFINE n == Cardinality(SavedNums)
<1>1. /\ n \in Nat /\ SavedNums = 0 .. n - 1
      /\ SavedChain \in Seq(Headers) /\ Len(SavedChain) = n
  BY SavedIsFront DEF LinkInv, Core
<1>2. Chain!Linked(SavedChain)
  BY SavedIsLinked DEF Chain!Linked
<1>3. MinNum \in Nat /\ MinNum <= NumSlices
  <2>1. maxNum \in 0 .. NumSlices
    BY DEF LinkInv, Core, TypeOK, WindowType
  <2>2. PICK m \in 0 .. maxNum : MinNum = m
    BY MinNumIsStart DEF LinkInv
  <2> QED BY <2>1, <2>2, SizeAssumption
<1> HIDE DEF n
<1>4. MinNum <= n
  <2> SUFFICES ASSUME n < MinNum PROVE FALSE
    BY <1>1, <1>3
  <2>1. n \in SliceNum
    BY <1>1, <1>3, SizeAssumption DEF SliceNum
  <2>2. n \in SavedNums
    BY <2>1 DEF SavedNums, ReportedIsSaved
  <2> QED BY <1>1, <2>2
<1> QED BY <1>1, <1>2, <1>3, <1>4 DEF ChainShape, n

\* Only SaveStage writes headers, and it writes them at the end of the chain.
LEMMA SaveExtends ==
  ASSUME LinkInv, ChainShape, ChainShape', Save
  PROVE  MinNum' = MinNum /\ (SavedChain' = SavedChain \/
           /\ SavedChain' \in Seq(Headers)
           /\ Len(SavedChain') > Len(SavedChain)
           /\ \A k \in 1 .. Len(SavedChain) : SavedChain'[k] = SavedChain[k]
           /\ Chain!Linked(SavedChain'))
<1> DEFINE n == Cardinality(SavedNums)
           o == Cardinality(SavedNums')
<1>1. /\ DOMAIN slices' = DOMAIN slices /\ maxNum' = maxNum
      /\ db' = [i \in SliceNum |-> IF i \in Savable THEN slices[i].headers ELSE db[i]]
  BY DEF Save, SetStatus, Update
<1>2. MinNum' = MinNum
  BY <1>1 DEF MinNum
<1>3. \A i \in Savable : i \in SliceNum /\ i \notin SavedNums /\ slices[i].headers # None
  BY SaveFront DEF InStatus, SavedNums, LinkInv, Core, TypeOK, WindowType, DbMatches, HeadersPresent
<1>4. SavedNums' = SavedNums \cup Savable /\ \A i \in SavedNums : db'[i] = db[i]
  BY <1>1, <1>3 DEF SavedNums
<1>5. CASE Savable = {}
  <2>1. SavedNums' = SavedNums
    BY <1>4, <1>5
  <2>2. \A i \in SavedNums : db'[i] = db[i]
    BY <1>4
  <2>3. \A k \in 1 .. n : k - 1 \in SavedNums
    <3>1. n \in Nat /\ SavedNums = 0 .. n - 1
      BY DEF ChainShape
    <3> HIDE DEF n
    <3> QED BY <3>1
  <2>4. SavedChain' = [k \in 1 .. n |-> db'[k - 1]] /\ SavedChain = [k \in 1 .. n |-> db[k - 1]]
    BY <2>1 DEF SavedChain
  <2> QED BY <1>2, <2>2, <2>3, <2>4
<1>6. CASE Savable # {}
  <2>1. /\ n \in Nat /\ SavedNums = 0 .. n - 1 /\ Len(SavedChain) = n
        /\ o \in Nat /\ SavedNums' = 0 .. o - 1 /\ Len(SavedChain') = o
        /\ SavedChain' \in Seq(Headers) /\ Chain!Linked(SavedChain')
    <3>1. ChainShape => /\ n \in Nat /\ SavedNums = 0 .. n - 1 /\ Len(SavedChain) = n
      BY DEF ChainShape
    <3>2. ChainShape' => /\ o \in Nat /\ SavedNums' = 0 .. o - 1 /\ Len(SavedChain') = o
                         /\ SavedChain' \in Seq(Headers) /\ Chain!Linked(SavedChain')
      BY DEF ChainShape, Chain!Linked
    <3> QED BY <3>1, <3>2
  <2>2. SavedChain = [k \in 1 .. n |-> db[k - 1]] /\ SavedChain' = [k \in 1 .. o |-> db'[k - 1]]
    BY DEF SavedChain
  <2> HIDE DEF n, o
  <2>3. PICK i \in Savable : i \in SavedNums' /\ i \notin SavedNums
    BY <1>3, <1>4, <1>6
  <2>4. o > n
    BY <2>1, <2>3
  <2>5. ASSUME NEW k \in 1 .. n PROVE SavedChain'[k] = SavedChain[k]
    <3>1. k \in 1 .. o /\ k - 1 \in SavedNums
      BY <2>1, <2>4
    <3> QED BY <2>2, <3>1, <1>4
  <2> QED BY <1>2, <2>1, <2>4, <2>5
<1> QED BY <1>5, <1>6

\* Only RefillStage moves min_block_num, forward and over saved slices.
LEMMA RefillReports ==
  ASSUME LinkInv, LinkInv', ChainShape, ChainShape', Refill
  PROVE  /\ SavedChain' = SavedChain
         /\ MinNum' = MinNum \/ MinNum' \in MinNum + 1 .. Len(SavedChain)
<1> DEFINE kept == DOMAIN slices \ Removable
           added == Refillable(MaxSlices - Cardinality(kept))
<1>1. db' = db
  BY DEF Refill
<1>2. SavedNums' = SavedNums /\ SavedChain' = SavedChain
  BY <1>1 DEF SavedNums, SavedChain
<1>3. DOMAIN slices' = kept \cup added
  BY DEF Refill
<1>4. \A i \in added : maxNum <= i
  BY DEF Refillable
<1> HIDE DEF added
<1>5. PICK m \in 0 .. maxNum : DOMAIN slices = m .. maxNum - 1 /\ MinNum = m
  BY MinNumIsStart DEF LinkInv
<1>6. maxNum \in Nat /\ maxNum' \in Nat
  BY SizeAssumption DEF LinkInv, Core, TypeOK, WindowType
<1>7. PICK p \in 0 .. maxNum' : DOMAIN slices' = p .. maxNum' - 1
  BY DEF LinkInv, Core, WindowShape
<1>8. MinNum' = p
  <2>0. /\ p .. maxNum' - 1 = {} => p = maxNum'
        /\ p .. maxNum' - 1 # {} => p \in p .. maxNum' - 1
        /\ \A j \in p .. maxNum' - 1 : p <= j
    <3>1. \A b \in Nat : \A a \in 0 .. b : /\ a .. b - 1 = {} => a = b
                                           /\ a .. b - 1 # {} => a \in a .. b - 1
                                           /\ \A j \in a .. b - 1 : a <= j
      <4> SUFFICES ASSUME NEW b \in Nat, NEW a \in 0 .. b
                   PROVE  /\ a .. b - 1 = {} => a = b
                          /\ a .. b - 1 # {} => a \in a .. b - 1
                          /\ \A j \in a .. b - 1 : a <= j
        OBVIOUS
      <4>1. CASE a = b
        BY <4>1
      <4>2. CASE a # b
        <5>1. a \in a .. b - 1
          BY <4>2
        <5> QED BY <5>1
      <4> QED BY <4>1, <4>2
    <3> QED BY <1>6, <3>1, Zenon
  <2>1. CASE DOMAIN slices' = {}
    BY <1>7, <2>0, <2>1 DEF MinNum
  <2>2. CASE DOMAIN slices' # {}
    <3>1. p \in DOMAIN slices' /\ \A j \in DOMAIN slices' : p <= j
      BY <1>7, <2>0, <2>2
    <3>2. \A i \in DOMAIN slices' : (\A j \in DOMAIN slices' : i <= j) => i = p
      <4> SUFFICES ASSUME NEW i \in DOMAIN slices', \A j \in DOMAIN slices' : i <= j PROVE i = p
        OBVIOUS
      <4>1. i <= p /\ p <= i /\ i \in Int /\ p \in Int
        BY <1>6, <1>7, <3>1
      <4> QED BY <4>1
    <3> QED BY <2>2, <3>1, <3>2 DEF MinNum
  <2> QED BY <2>1, <2>2
<1>9. maxNum <= maxNum'
  <2>1. added \in SUBSET SliceNum
    BY DEF added, Refillable
  <2>2. Cardinality(added) \in Nat
    BY <2>1, FinitePositions
  <2>3. maxNum' = maxNum + Cardinality(added)
    BY DEF Refill, added
  <2> QED BY <1>6, <2>2, <2>3
<1>10. m <= p
  <2>1. CASE p = maxNum'
    BY <1>5, <1>6, <1>9, <2>1
  <2>2. CASE p # maxNum'
    <3>1. p \in kept \cup added
      BY <1>3, <1>6, <1>7, <2>2
    <3> QED BY <3>1, <1>4, <1>5, <1>6, <1>7
  <2> QED BY <2>1, <2>2
<1>11. MinNum' <= Len(SavedChain) /\ Len(SavedChain) \in Nat
  <2>1. Len(SavedChain) = Cardinality(SavedNums) /\ Cardinality(SavedNums) \in Nat
    BY DEF ChainShape
  <2>2. MinNum' <= Cardinality(SavedNums')
    BY DEF ChainShape
  <2> QED BY <1>2, <2>1, <2>2
<1> QED BY <1>2, <1>5, <1>6, <1>7, <1>8, <1>10, <1>11

\* The pipeline implements an append-only chain of linked headers, with a
\* progress that only moves forward over headers that have been saved.
THEOREM RefinesHeaderChain == Spec => ImplementsChain
<1>1. LinkInv /\ ReportedIsSaved => ChainShape
  BY ShapeHolds
<1>2. Init => Chain!Init
  <2> SUFFICES ASSUME Init PROVE Chain!Init
    OBVIOUS
  <2>1. SavedNums = {}
    BY DEF Init, SavedNums
  <2>2. Cardinality(SavedNums) = 0
    BY <2>1, FS_EmptySet
  <2>3. SavedChain = <<>>
    BY <2>2 DEF SavedChain
  <2>4. MinNum = 0
    <3>1. DOMAIN slices = 0 .. MaxSlices - 1 /\ MaxSlices \in Nat /\ MaxSlices > 0
      BY SizeAssumption DEF Init
    <3>2. 0 \in DOMAIN slices /\ \A i \in DOMAIN slices : (\A j \in DOMAIN slices : i <= j) <=> i = 0
      BY <3>1
    <3> QED BY <3>2 DEF MinNum
  <2> QED BY <2>3, <2>4 DEF Chain!Init, SavedChain, SavedNums
<1>3. /\ LinkInv /\ LinkInv' /\ ChainShape /\ ChainShape' /\ [Next]_vars
      => [Chain!Next]_(Chain!vars)
  <2> SUFFICES ASSUME LinkInv, LinkInv', ChainShape, ChainShape', [Next]_vars
               PROVE  Chain!Next \/ UNCHANGED <<SavedChain, MinNum>>
    BY DEF Chain!vars, SavedChain, SavedNums
  <2>1. CASE Save
    <3>1. CASE UNCHANGED SavedChain
      BY <2>1, <3>1, SaveExtends
    <3>2. CASE SavedChain' # SavedChain
      BY <2>1, <3>2, SaveExtends DEF Chain!Next, Chain!Extend, SavedChain, SavedNums
    <3> QED BY <3>1, <3>2
  <2>2. CASE Refill
    <3>1. CASE MinNum' = MinNum
      BY <2>2, <3>1, RefillReports
    <3>2. CASE MinNum' # MinNum
      BY <2>2, <3>2, RefillReports DEF Chain!Next, Chain!Report, SavedChain, SavedNums
    <3> QED BY <3>1, <3>2
  <2>3. CASE ~Save /\ ~Refill
    <3>1. DOMAIN slices' = DOMAIN slices /\ UNCHANGED <<maxNum, db>>
      <4>1. CASE VerifyFinish \/ VerifyLink
        BY <4>1 DEF VerifyFinish, VerifyLink, SetStatus, Update
      <4>2. CASE ~Loud
        BY <4>2, OthersQuiet DEF Quiet
      <4> QED BY <2>3, <4>1, <4>2 DEF Loud
    <3> QED BY <3>1 DEF MinNum, SavedChain, SavedNums
  <2> QED BY <2>1, <2>2, <2>3
<1> QED BY <1>1, <1>2, <1>3, LinksInvariant, ReportIsTrue, PTL DEF Spec, ImplementsChain, Chain!Spec
=============================================================================
