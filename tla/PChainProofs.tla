----------------------------- MODULE PChainProofs -----------------------------
(***************************************************************************)
(* Proofs about the P-chain loop, for every chain, chunk size, concurrency *)
(* and number of faults, and about the platform.* reads beside it, for any *)
(* number of requests and of restarts between them.                        *)
(***************************************************************************)
EXTENDS PReads, StorageProofs, SequenceTheorems

\* The stored heights are one interval that starts at the store's minimum.
OneInterval ==
  IF opened THEN \E t \in minH..MaxHeight : Stored = minH..t ELSE Stored = {}

\* The height about to be emitted is the one right above the interval or, in an
\* empty store, one that put will anchor the store at.
EmitsNextHeight ==
  pc \in {"fetch", "write"} =>
    IF opened THEN EmitHeight = high_water + 1 ELSE HasFloor => EmitHeight = FloorAt

\* What is held, and what is about to be written, is resolved.
EmitsResolved ==
  /\ held => pc \notin {"poll", "measure"} /\ next >= 1 /\ kind[next - 1] = "reward"
  /\ pc \in {"write", "index"} =>
       /\ ahead # <<>>
       /\ IF held
          THEN \/ kind[next] = "commit" /\ half = "data"
               \/ kind[next] = "abort" /\ half = "[]"
          ELSE kind[next] # "reward" /\ half = "[]"

\* Between the stages of put the height is stored, the newest, and unpublished.
IndexingNewest == pc = "index" => EmitHeight = high_water /\ opened /\ EmitHeight \notin announced

\* Until the store exists the loop knows the configured floor.
FloorKnown == ~opened => floorSet = HasFloor

IInv ==
  /\ TypeOK
  /\ FloorKnown
  /\ OneInterval
  /\ EmitsNextHeight
  /\ EmitsResolved
  /\ IndexingNewest
  /\ RewardsResolved
  /\ AnnouncedDurable

------------------------------------------------------------------------------
\* The frontier and the high-water mark read off the interval.
LEMMA FrontierOfInterval ==
  ASSUME StorageTypeOK, OneInterval, opened
  PROVE  /\ high_water \in minH..MaxHeight
         /\ Stored = minH..high_water
         /\ FirstGap(minH, Stored) = high_water + 1
         /\ max_contiguous_height = high_water
<1>1. PICK t \in minH..MaxHeight : Stored = minH..t
  BY DEF OneInterval
<1>2. high_water = t /\ FirstGap(minH, Stored) = t + 1
  BY <1>1, IntervalFacts DEF StorageTypeOK, high_water
<1>3. max_contiguous_height = t
  BY <1>1, <1>2, StorageAssumption DEF max_contiguous_height, Pred, StorageTypeOK, Heights
<1> QED
  BY <1>1, <1>2, <1>3

\* The initial states satisfy the invariant.
LEMMA InitIInv == Init => IInv
<1> SUFFICES ASSUME Init PROVE IInv
  OBVIOUS
<1>0. StorageInit /\ 0 \in Heights
  BY StorageAssumption DEF Init, Heights
<1>1. StorageTypeOK /\ Stored = {} /\ ~opened
  <2>1. minH \in Heights /\ rec \in [Heights -> Halves \cup {Absent}] /\ idx \in SUBSET Heights
    BY <1>0 DEF StorageInit
  <2>2. opened \in BOOLEAN /\ ~opened
    BY <1>0, Zenon DEF StorageInit
  <2>3. Stored = {}
    BY <1>0 DEF StorageInit, Stored
  <2> QED
    BY <2>1, <2>2, <2>3 DEF StorageTypeOK
<1>2. floorSet \in BOOLEAN
  BY StorageAssumption, Zenon DEF Init
<1>3. ahead \in Seq({"block", "none"}) /\ Len(ahead) <= Concurrency
  BY PChainAssumption DEF Init
<1>4. TypeOK
  <2>1. /\ height \in Heights /\ tip \in Heights /\ next \in Heights /\ end \in Heights
        /\ behind_tip \in 0..(MaxHeight + 1) /\ faults \in 0..MaxFaults
    BY <1>0, StorageAssumption, PChainAssumption DEF Init
  <2>2. fresh \in BOOLEAN /\ held \in BOOLEAN
    BY Zenon DEF Init
  <2>3. /\ kind \in [Heights -> Kinds] /\ half \in Halves /\ announced \in SUBSET Heights
        /\ pc \in {"poll", "measure", "fetch", "write", "index"}
    BY DEF Init, Halves
  <2> QED
    BY <1>1, <1>2, <1>3, <2>1, <2>2, <2>3 DEF TypeOK
<1> QED
  BY <1>1, <1>4 DEF Init, IInv, FloorKnown, OneInterval, EmitsNextHeight, EmitsResolved, IndexingNewest,
                    RewardsResolved, AnnouncedDurable

\* A step that leaves the store, the published heights and the chain alone
\* keeps the conjuncts that speak of nothing else.
LEMMA QuietStep ==
  ASSUME IInv, UNCHANGED <<storageVars, announced, kind>>
  PROVE  /\ StorageTypeOK' /\ Stored' = Stored
         /\ high_water' = high_water /\ max_contiguous_height' = max_contiguous_height
         /\ OneInterval' /\ RewardsResolved' /\ AnnouncedDurable'
<1>1. /\ opened' = opened /\ minH' = minH /\ rec' = rec /\ idx' = idx
      /\ announced' = announced /\ kind' = kind
  BY DEF storageVars
<1>2. Stored' = Stored
  BY <1>1 DEF Stored
<1>3. StorageTypeOK /\ OneInterval /\ RewardsResolved /\ AnnouncedDurable
  BY DEF IInv, TypeOK
<1>4. StorageTypeOK'
  BY <1>1, <1>3 DEF StorageTypeOK
<1>5. high_water' = high_water /\ max_contiguous_height' = max_contiguous_height
  BY <1>1, <1>2 DEF high_water, max_contiguous_height
<1>6. OneInterval'
  BY <1>1, <1>2, <1>3 DEF OneInterval
<1>7. RewardsResolved'
  BY <1>1, <1>2, <1>3 DEF RewardsResolved
<1>8. AnnouncedDurable'
  BY <1>1, <1>2, <1>3 DEF AnnouncedDurable
<1> QED
  BY <1>2, <1>4, <1>5, <1>6, <1>7, <1>8

\* The floor's conjunct, when neither it nor the store is touched.
LEMMA FloorKept ==
  ASSUME IInv, opened' = opened, floorSet' = floorSet
  PROVE  FloorKnown'
<1>1. FloorKnown
  BY DEF IInv
<1> QED
  BY <1>1, Zenon DEF FloorKnown

\* A quiet step back to the top of the loop keeps the whole invariant.
LEMMA RemeasureStep ==
  ASSUME IInv, Remeasure, UNCHANGED <<storageVars, announced, kind, height>>,
         floorSet' \in BOOLEAN, FloorKnown',
         tip' \in Heights, fresh' \in BOOLEAN, behind_tip' \in 0..(MaxHeight + 1),
         faults' \in 0..MaxFaults
  PROVE  IInv'
<1>1. UNCHANGED <<storageVars, announced, kind>>
  OBVIOUS
<1>2. StorageTypeOK' /\ OneInterval' /\ RewardsResolved' /\ AnnouncedDurable'
  BY <1>1, QuietStep
<1>3. pc' = "poll" /\ next' = 0 /\ end' = 0 /\ ahead' = <<>> /\ held' = FALSE /\ half' = "[]"
  BY DEF Remeasure
<1>4. TypeOK'
  <2>1. ahead' \in Seq({"block", "none"}) /\ Len(ahead') <= Concurrency
    BY <1>3, PChainAssumption
  <2>2. next' \in Heights /\ end' \in Heights /\ half' \in Halves
    BY <1>3, StorageAssumption DEF Halves, Heights
  <2>3. kind' \in [Heights -> Kinds] /\ height' \in Heights /\ announced' \in SUBSET Heights
    BY DEF IInv, TypeOK
  <2>4. pc' \in {"poll", "measure", "fetch", "write", "index"} /\ held' \in BOOLEAN
    BY <1>3
  <2> QED
    BY <1>2, <2>1, <2>2, <2>3, <2>4, Zenon DEF TypeOK
<1>5. EmitsNextHeight' /\ EmitsResolved' /\ IndexingNewest'
  BY <1>3 DEF EmitsNextHeight, EmitsResolved, IndexingNewest
<1> QED
  BY <1>2, <1>4, <1>5 DEF IInv

\* A quiet step within the loop keeps the invariant if it keeps the conjuncts
\* about the loop's own variables.
LEMMA LoopStep ==
  ASSUME IInv, UNCHANGED <<storageVars, announced, worldVars>>,
         pc' \in {"poll", "measure", "fetch", "write", "index"}, tip' \in Heights,
         fresh' \in BOOLEAN, next' \in Heights, end' \in Heights,
         ahead' \in Seq({"block", "none"}), Len(ahead') <= Concurrency,
         held' \in BOOLEAN, half' \in Halves, behind_tip' \in 0..(MaxHeight + 1),
         EmitsNextHeight', EmitsResolved', IndexingNewest'
  PROVE  IInv'
<1>1. UNCHANGED <<storageVars, announced, kind>> /\ opened' = opened
  BY DEF worldVars, storageVars
<1>2. StorageTypeOK' /\ OneInterval' /\ RewardsResolved' /\ AnnouncedDurable'
  BY <1>1, QuietStep
<1>3. FloorKnown'
  BY <1>1, FloorKept DEF worldVars
<1>4. TypeOK'
  BY <1>2 DEF IInv, TypeOK, worldVars
<1> QED
  BY <1>2, <1>3, <1>4 DEF IInv

\* What stage one of put does to the store when it writes the height the loop
\* emits: the interval grows by that height, or starts with it.
LEMMA WriteStep ==
  ASSUME IInv, Write
  PROVE  /\ StorageTypeOK' /\ opened' /\ EmitHeight \in Heights
         /\ Stored' = Stored \cup {EmitHeight} /\ EmitHeight \notin Stored
         /\ minH' \in Heights /\ EmitHeight \in minH'..MaxHeight
         /\ Stored' = minH'..EmitHeight /\ high_water' = EmitHeight
         /\ IF opened THEN minH' = minH /\ EmitHeight = high_water + 1 ELSE minH' = EmitHeight
<1> USE StorageAssumption DEF Heights
<1>1. EmitHeight \in Heights /\ half \in Halves
  BY DEF IInv, TypeOK, EmitsResolved, EmitHeight
<1>2. /\ opened' = TRUE
      /\ minH' = IF opened THEN minH ELSE Anchor(EmitHeight)
      /\ rec' = [rec EXCEPT ![EmitHeight] = half]
      /\ idx' = idx /\ pc = "write"
  BY DEF Write, PutBlock
<1>3. StorageTypeOK
  BY DEF IInv, TypeOK
<1>4. Stored' = Stored \cup {EmitHeight}
  BY <1>1, <1>2, <1>3 DEF Stored, StorageTypeOK, Halves, Absent
<1>5. CASE opened
  <2>1. /\ high_water \in minH..MaxHeight /\ Stored = minH..high_water
        /\ EmitHeight = high_water + 1
    BY <1>2, <1>3, <1>5, FrontierOfInterval DEF IInv, EmitsNextHeight
  <2>2. /\ minH' = minH /\ minH \in Heights /\ EmitHeight \in minH..MaxHeight
        /\ Stored' = minH..EmitHeight
    BY <1>1, <1>2, <1>3, <1>4, <1>5, <2>1 DEF StorageTypeOK
  <2>3. HighestOf(minH..EmitHeight) = EmitHeight
    BY <2>2, IntervalFacts
  <2>4. high_water' = EmitHeight
    BY <2>2, <2>3 DEF high_water
  <2>5. StorageTypeOK' /\ opened'
    BY <1>1, <1>2, <1>3, <2>2 DEF StorageTypeOK
  <2> QED
    BY <1>1, <1>4, <1>5, <2>1, <2>2, <2>4, <2>5
<1>6. CASE ~opened
  <2>1. Stored = {} /\ (HasFloor => EmitHeight = FloorAt)
    BY <1>2, <1>6 DEF IInv, OneInterval, EmitsNextHeight
  <2>2. Anchor(EmitHeight) = EmitHeight
    BY <1>1, <2>1 DEF Anchor
  <2>3. /\ minH' = EmitHeight /\ EmitHeight \in EmitHeight..MaxHeight
        /\ Stored' = EmitHeight..EmitHeight
    BY <1>1, <1>2, <1>4, <1>6, <2>1, <2>2
  <2>4. HighestOf(EmitHeight..EmitHeight) = EmitHeight
    BY <1>1, <2>3, IntervalFacts
  <2>5. high_water' = EmitHeight
    BY <2>3, <2>4 DEF high_water
  <2>6. StorageTypeOK' /\ opened'
    BY <1>1, <1>2, <1>3, <2>3 DEF StorageTypeOK
  <2> QED
    BY <1>1, <1>4, <1>6, <2>1, <2>3, <2>5, <2>6
<1> QED
  BY <1>5, <1>6

\* Measure: the run starts at the height right above the interval.
LEMMA MeasureStep ==
  ASSUME IInv, Measure
  PROVE  IInv'
<1> USE StorageAssumption, PChainAssumption DEF Heights
<1>1. pc = "measure" /\ UNCHANGED <<storageVars, tip, announced, worldVars>>
  BY DEF Measure
<1>2. /\ TypeOK /\ StorageTypeOK /\ OneInterval /\ EmitsResolved
  BY DEF IInv, TypeOK
<1>3. UNCHANGED <<storageVars, announced, kind, height, floorSet, faults, tip, opened>>
  BY <1>1 DEF worldVars, storageVars
<1>4. CASE next_height > tip
  <2>1. behind_tip' = 0 /\ fresh' = FALSE /\ Remeasure
    BY <1>4 DEF Measure
  <2>2. behind_tip' \in 0..(MaxHeight + 1) /\ fresh' \in BOOLEAN
    <3>1. behind_tip' \in 0..(MaxHeight + 1)
      BY <2>1
    <3>2. fresh' \in BOOLEAN
      BY <2>1, Zenon
    <3> QED
      BY <3>1, <3>2
  <2>3. FloorKnown'
    BY <1>3, FloorKept
  <2>4. floorSet' \in BOOLEAN /\ tip' \in Heights /\ faults' \in 0..MaxFaults
    BY <1>2, <1>3 DEF TypeOK
  <2> QED
    BY <1>3, <2>1, <2>2, <2>3, <2>4, RemeasureStep
<1>5. CASE ~(next_height > tip)
  <2>1. /\ behind_tip' = tip - next_height + 1 /\ next' = next_height
        /\ end' = MinOf(tip, next_height + FILL_CHUNK - 1) /\ pc' = "fetch"
        /\ fresh' = fresh /\ ahead' = ahead /\ held' = held /\ half' = half
    BY <1>5 DEF Measure
  <2>2. opened => next_height = high_water + 1 /\ high_water \in Heights
    BY <1>2, FrontierOfInterval DEF next_height, is_empty, StorageTypeOK
  <2>3. ~opened => next_height \in Heights /\ (HasFloor => next_height = FloorAt)
    <3>1. CASE opened
      BY <3>1
    <3>2. CASE ~opened
      <4>1. floorSet = HasFloor
        BY <3>2, Zenon DEF IInv, FloorKnown
      <4>2. next_height = IF floorSet THEN FloorAt ELSE tip
        BY <3>2 DEF next_height, is_empty
      <4>3. tip \in Heights
        BY <1>2 DEF TypeOK
      <4> QED
        BY <4>1, <4>2, <4>3
    <3> QED
      BY <3>1, <3>2
  <2>4. next_height \in Nat /\ next_height <= tip /\ tip \in Heights
    <3>1. opened \in BOOLEAN
      BY <1>2 DEF StorageTypeOK
    <3> QED
      BY <1>2, <1>5, <2>2, <2>3, <3>1 DEF TypeOK
  <2>5. behind_tip' \in 0..(MaxHeight + 1) /\ next' \in Heights /\ end' \in Heights
    BY <2>1, <2>4 DEF MinOf
  <2>6. high_water' = high_water
    BY <1>3, QuietStep
  <2>7. EmitsNextHeight' /\ EmitsResolved' /\ IndexingNewest'
    <3>1. ~held' /\ EmitHeight' = next_height /\ opened' = opened
      BY <1>1, <1>2, <1>3, <2>1 DEF EmitsResolved, EmitHeight
    <3>2. EmitsNextHeight'
      BY <2>1, <2>2, <2>3, <2>6, <3>1 DEF EmitsNextHeight
    <3> QED
      BY <2>1, <3>1, <3>2 DEF EmitsResolved, IndexingNewest
  <2> QED
    BY <1>1, <1>2, <2>1, <2>5, <2>7, LoopStep DEF TypeOK
<1> QED
  BY <1>4, <1>5

\* Onward: the next height of the run is the next one to emit, whether the
\* block just taken is held or stored.
LEMMA OnwardKeeps ==
  ASSUME IInv, NEW holding \in BOOLEAN, Onward(holding), UNCHANGED <<kind, tip, fresh>>,
         pc \in {"fetch", "index"}, ahead # <<>>,
         holding => kind[next] = "reward"
  PROVE  /\ pc' \in {"poll", "fetch"} /\ next' \in Heights /\ end' \in Heights
         /\ ahead' \in Seq({"block", "none"}) /\ Len(ahead') <= Concurrency
         /\ held' \in BOOLEAN /\ half' \in Halves
         /\ EmitsResolved' /\ IndexingNewest'
         /\ pc' = "fetch" => EmitHeight' = IF holding THEN next ELSE next + 1
<1> USE StorageAssumption, PChainAssumption DEF Heights
<1>1. /\ next \in Heights /\ end \in Heights /\ ahead \in Seq({"block", "none"})
      /\ Len(ahead) <= Concurrency
  BY DEF IInv, TypeOK
<1>2. CASE next >= end
  <2>1. /\ pc' = "poll" /\ next' = 0 /\ end' = 0 /\ ahead' = <<>> /\ held' = FALSE
        /\ half' = "[]"
    BY <1>2 DEF Onward, Remeasure
  <2>2. held' \in BOOLEAN /\ half' \in Halves
    BY <2>1 DEF Halves
  <2>3. EmitsResolved' /\ IndexingNewest'
    BY <2>1 DEF EmitsResolved, IndexingNewest
  <2> QED
    BY <2>1, <2>2, <2>3
<1>3. CASE ~(next >= end)
  <2>1. /\ next' = next + 1 /\ ahead' = Tail(ahead) /\ pc' = "fetch"
        /\ held' = holding /\ half' = "[]" /\ end' = end
    BY <1>3 DEF Onward
  <2>2. ahead' \in Seq({"block", "none"}) /\ Len(ahead') <= Concurrency
    BY <1>1, <2>1
  <2>3. next' \in Heights /\ end' \in Heights
    BY <1>1, <1>3, <2>1
  <2>4. held' \in BOOLEAN /\ half' \in Halves
    BY <2>1 DEF Halves
  <2>5. next' - 1 = next /\ next' >= 1
    BY <1>1, <2>1
  <2>6. EmitsResolved' /\ IndexingNewest'
    BY <2>1, <2>5 DEF EmitsResolved, IndexingNewest
  <2>7. EmitHeight' = IF holding THEN next ELSE next + 1
    BY <2>1, <2>5 DEF EmitHeight
  <2> QED
    BY <2>1, <2>2, <2>3, <2>4, <2>6, <2>7
<1> QED
  BY <1>2, <1>3

\* A fetched block is taken: held, or handed to emit with its rewards resolved.
LEMMA TakeStep ==
  ASSUME IInv, HoldProposal \/ EmitPlain \/ ResolveAbort \/ ResolveCommit
  PROVE  IInv'
<1>1. /\ UNCHANGED <<storageVars, announced, worldVars, tip, fresh, behind_tip>>
      /\ pc = "fetch" /\ ahead # <<>>
  BY DEF HoldProposal, EmitPlain, ResolveAbort, ResolveCommit, Resolve, Out
<1>2. kind' = kind /\ opened' = opened
  BY <1>1 DEF worldVars, storageVars
<1>3. high_water' = high_water
  BY <1>1, <1>2, QuietStep
<1>4. TypeOK /\ EmitsNextHeight /\ EmitsResolved
  BY DEF IInv
<1>5. CASE HoldProposal
  <2>1. Onward(TRUE) /\ ~held /\ kind[next] = "reward"
    BY <1>5 DEF HoldProposal
  <2>2. /\ pc' \in {"poll", "fetch"} /\ next' \in Heights /\ end' \in Heights
        /\ ahead' \in Seq({"block", "none"}) /\ Len(ahead') <= Concurrency
        /\ held' \in BOOLEAN /\ half' \in Halves
        /\ EmitsResolved' /\ IndexingNewest'
        /\ pc' = "fetch" => EmitHeight' = next
    BY <1>1, <1>2, <2>1, OnwardKeeps
  <2>3. EmitsNextHeight'
    BY <1>1, <1>2, <1>3, <1>4, <2>1, <2>2 DEF EmitsNextHeight, EmitHeight
  <2> QED
    BY <1>1, <1>4, <2>2, <2>3, LoopStep DEF TypeOK
<1>6. CASE EmitPlain \/ ResolveAbort \/ ResolveCommit
  <2>1. pc' = "write" /\ UNCHANGED <<next, end, ahead, held>>
    BY <1>6 DEF EmitPlain, ResolveAbort, ResolveCommit, Resolve
  <2>2. /\ half' \in Halves
        /\ IF held
           THEN \/ kind[next] = "commit" /\ half' = "data"
                \/ kind[next] = "abort" /\ half' = "[]"
           ELSE kind[next] # "reward" /\ half' = "[]"
    BY <1>6 DEF EmitPlain, ResolveAbort, ResolveCommit, Resolve, Halves
  <2>3. EmitsResolved' /\ IndexingNewest'
    BY <1>1, <1>2, <1>4, <2>1, <2>2 DEF EmitsResolved, IndexingNewest
  <2>4. EmitsNextHeight'
    BY <1>1, <1>2, <1>3, <1>4, <2>1 DEF EmitsNextHeight, EmitHeight
  <2> QED
    BY <1>1, <1>4, <2>1, <2>2, <2>3, <2>4, LoopStep DEF TypeOK
<1> QED
  BY <1>5, <1>6

\* Stage one of put.
LEMMA WriteKeeps ==
  ASSUME IInv, Write
  PROVE  IInv'
<1> USE StorageAssumption DEF Heights
<1>1. /\ StorageTypeOK' /\ opened' /\ EmitHeight \in Heights
      /\ Stored' = Stored \cup {EmitHeight} /\ EmitHeight \notin Stored
      /\ minH' \in Heights /\ EmitHeight \in minH'..MaxHeight
      /\ Stored' = minH'..EmitHeight /\ high_water' = EmitHeight
  BY WriteStep
<1>2. /\ pc = "write" /\ pc' = "index" /\ rec' = [rec EXCEPT ![EmitHeight] = half]
      /\ UNCHANGED <<idx, tip, fresh, next, end, ahead, held, half, behind_tip, announced,
                      worldVars>>
  BY DEF Write, PutBlock
<1>3. kind' = kind /\ EmitHeight' = EmitHeight
  BY <1>2 DEF worldVars, EmitHeight
<1>4. TypeOK /\ EmitsResolved /\ RewardsResolved /\ AnnouncedDurable
  BY DEF IInv
<1>5. TypeOK'
  BY <1>1, <1>2, <1>4 DEF TypeOK, worldVars
<1>6. FloorKnown' /\ OneInterval'
  BY <1>1 DEF FloorKnown, OneInterval
<1>7. EmitsNextHeight' /\ EmitsResolved'
  BY <1>2, <1>3, <1>4 DEF EmitsNextHeight, EmitsResolved
<1>8. IndexingNewest'
  BY <1>1, <1>2, <1>3, <1>4 DEF IndexingNewest, AnnouncedDurable
<1>9. RewardsResolved'
  <2> SUFFICES ASSUME NEW h \in Stored'
               PROVE  IF kind[h] = "reward"
                      THEN /\ h < MaxHeight
                           /\ \/ kind[h + 1] = "commit" /\ rec'[h] = "data"
                              \/ kind[h + 1] = "abort" /\ rec'[h] = "[]"
                      ELSE rec'[h] = "[]"
    BY <1>3 DEF RewardsResolved
  <2>1. rec \in [Heights -> Halves \cup {Absent}] /\ next \in Heights
    BY <1>4 DEF TypeOK, StorageTypeOK
  <2>2. CASE h # EmitHeight
    <3>1. h \in Stored /\ rec'[h] = rec[h]
      BY <1>1, <1>2, <2>1, <2>2 DEF Stored
    <3> QED
      BY <1>4, <3>1 DEF RewardsResolved
  <2>3. CASE h = EmitHeight
    <3>1. rec'[h] = half
      BY <1>1, <1>2, <2>1, <2>3
    <3> QED
      BY <1>2, <1>4, <2>1, <2>3, <3>1 DEF EmitsResolved, EmitHeight
  <2> QED
    BY <2>2, <2>3
<1>10. AnnouncedDurable'
  BY <1>1, <1>2, <1>4 DEF AnnouncedDurable
<1> QED
  BY <1>5, <1>6, <1>7, <1>8, <1>9, <1>10 DEF IInv

\* Stage two of put, and what the loop does next.
LEMMA IndexKeeps ==
  ASSUME IInv, Index
  PROVE  IInv'
<1> USE StorageAssumption DEF Heights
<1>1. /\ pc = "index" /\ idx' = idx \cup {EmitHeight}
      /\ behind_tip' = MaxOf(tip - EmitHeight, 0)
      /\ announced' = IF EmitHeight >= tip THEN announced \cup {EmitHeight} ELSE announced
      /\ UNCHANGED <<opened, minH, rec, tip, fresh, worldVars>>
  BY DEF Index, PutIndex
<1>2. /\ TypeOK /\ StorageTypeOK /\ OneInterval /\ EmitsResolved /\ RewardsResolved
      /\ AnnouncedDurable
  BY DEF IInv, TypeOK
<1>3. opened /\ EmitHeight = high_water
  BY <1>1 DEF IInv, IndexingNewest
<1>4. EmitHeight \in Heights /\ EmitHeight \in Stored
  BY <1>2, <1>3, FrontierOfInterval DEF StorageTypeOK
<1>5. Stored' = Stored /\ high_water' = high_water /\ kind' = kind
  BY <1>1 DEF Stored, high_water, worldVars
<1>6. /\ StorageTypeOK' /\ announced' \in SUBSET Heights
      /\ behind_tip' \in 0..(MaxHeight + 1)
  <2>1. StorageTypeOK'
    BY <1>1, <1>2, <1>4 DEF StorageTypeOK
  <2>2. announced' \in SUBSET Heights
    BY <1>1, <1>2, <1>4 DEF TypeOK
  <2>3. behind_tip' \in 0..(MaxHeight + 1)
    BY <1>1, <1>2, <1>4 DEF TypeOK, MaxOf
  <2> QED
    BY <2>1, <2>2, <2>3
<1>7. OneInterval' /\ RewardsResolved' /\ AnnouncedDurable' /\ FloorKnown'
  BY <1>1, <1>2, <1>3, <1>4, <1>5
     DEF OneInterval, RewardsResolved, AnnouncedDurable, FloorKnown
<1>8. /\ pc' \in {"poll", "measure", "fetch", "write", "index"}
      /\ next' \in Heights /\ end' \in Heights
      /\ ahead' \in Seq({"block", "none"}) /\ Len(ahead') <= Concurrency
      /\ held' \in BOOLEAN /\ half' \in Halves
      /\ EmitsNextHeight' /\ EmitsResolved' /\ IndexingNewest'
  <2>1. CASE held
    <3>1. pc' = "write" /\ held' = FALSE /\ half' = "[]" /\ UNCHANGED <<next, end, ahead>>
      BY <2>1 DEF Index
    <3>2. next \in Heights /\ EmitHeight = next - 1 /\ EmitHeight' = next
      BY <1>2, <2>1, <3>1 DEF TypeOK, EmitHeight
    <3>3. EmitsNextHeight'
      BY <1>1, <1>3, <1>5, <3>1, <3>2 DEF EmitsNextHeight
    <3>4. EmitsResolved' /\ IndexingNewest'
      BY <1>1, <1>2, <1>5, <2>1, <3>1 DEF EmitsResolved, IndexingNewest
    <3>5. half' \in Halves /\ held' \in BOOLEAN
      BY <3>1 DEF Halves
    <3> QED
      BY <1>2, <3>1, <3>3, <3>4, <3>5 DEF TypeOK
  <2>2. CASE ~held
    <3>1. Onward(FALSE) /\ ahead # <<>>
      BY <1>1, <1>2, <2>2 DEF Index, EmitsResolved
    <3>2. /\ pc' \in {"poll", "fetch"} /\ next' \in Heights /\ end' \in Heights
          /\ ahead' \in Seq({"block", "none"}) /\ Len(ahead') <= Concurrency
          /\ held' \in BOOLEAN /\ half' \in Halves
          /\ EmitsResolved' /\ IndexingNewest'
          /\ pc' = "fetch" => EmitHeight' = next + 1
      BY <1>1, <1>5, <3>1, OnwardKeeps
    <3>3. EmitsNextHeight'
      BY <1>1, <1>3, <1>5, <2>2, <3>2 DEF EmitsNextHeight, EmitHeight
    <3> QED
      BY <3>2, <3>3
  <2> QED
    BY <2>1, <2>2
<1>9. TypeOK'
  BY <1>1, <1>2, <1>6, <1>8 DEF TypeOK, worldVars
<1> QED
  BY <1>7, <1>8, <1>9 DEF IInv

\* Every step keeps the invariant.
LEMMA NextIInv == IInv /\ [Next]_vars => IInv'
<1> SUFFICES ASSUME IInv, [Next]_vars PROVE IInv'
  OBVIOUS
<1> USE StorageAssumption, PChainAssumption
<1>1. TypeOK /\ EmitsNextHeight /\ EmitsResolved /\ IndexingNewest
  BY DEF IInv
<1>2. ASSUME UNCHANGED <<storageVars, announced, kind, loopVars>>,
             floorSet' = floorSet, height' \in Heights, faults' \in 0..MaxFaults
      PROVE  IInv'
  <2>1. /\ StorageTypeOK' /\ high_water' = high_water /\ opened' = opened
        /\ OneInterval' /\ RewardsResolved' /\ AnnouncedDurable'
    BY <1>2, QuietStep DEF storageVars
  <2>2. FloorKnown'
    BY <1>2, <2>1, FloorKept
  <2>3. TypeOK'
    BY <1>1, <1>2, <2>1 DEF TypeOK, loopVars
  <2>4. EmitsNextHeight' /\ EmitsResolved' /\ IndexingNewest'
    BY <1>1, <1>2, <2>1 DEF EmitsNextHeight, EmitsResolved, IndexingNewest, EmitHeight, loopVars
  <2> QED
    BY <2>1, <2>2, <2>3, <2>4 DEF IInv
<1>3. ASSUME Remeasure, UNCHANGED <<storageVars, announced, kind, height, floorSet, tip, fresh,
                                    behind_tip>>,
             faults' \in 0..MaxFaults
      PROVE  IInv'
  <2>1. FloorKnown'
    BY <1>3, FloorKept DEF storageVars
  <2>2. floorSet' \in BOOLEAN /\ tip' \in Heights /\ fresh' \in BOOLEAN
        /\ behind_tip' \in 0..(MaxHeight + 1)
    BY <1>1, <1>3 DEF TypeOK
  <2> QED
    BY <1>3, <2>1, <2>2, RemeasureStep
<1>4. CASE Grow
  BY <1>1, <1>2, <1>4 DEF Grow, TypeOK, Heights
<1>5. CASE Crash
  <2>1. /\ Remeasure /\ UNCHANGED <<storageVars, announced, kind, height>>
        /\ tip' = 0 /\ fresh' = FALSE /\ behind_tip' = 0
        /\ faults' = faults + 1 /\ faults < MaxFaults
        /\ floorSet' = (HasFloor /\ ~opened)
    BY <1>5 DEF Crash, Remeasure
  <2>2. FloorKnown' /\ floorSet' \in BOOLEAN
    <3>1. opened' = opened
      BY <2>1 DEF storageVars
    <3> QED
      BY <2>1, <3>1, Zenon DEF FloorKnown
  <2>3. tip' \in Heights /\ behind_tip' \in 0..(MaxHeight + 1) /\ faults' \in 0..MaxFaults
    BY <1>1, <2>1 DEF TypeOK, Heights
  <2>4. fresh' \in BOOLEAN
    BY <2>1, Zenon
  <2> QED
    BY <2>1, <2>2, <2>3, <2>4, RemeasureStep
<1>6. ASSUME NEW h \in 0..height, Poll(h) PROVE IInv'
  <2>1. /\ pc = "poll" /\ pc' = "measure" /\ tip' = h /\ fresh' = TRUE
        /\ UNCHANGED <<storageVars, next, end, ahead, held, half, behind_tip, announced,
                        worldVars>>
    BY <1>6 DEF Poll
  <2>2. tip' \in Heights /\ fresh' \in BOOLEAN
    BY <1>1, <2>1 DEF TypeOK, Heights
  <2>3. EmitsNextHeight' /\ EmitsResolved' /\ IndexingNewest'
    BY <1>1, <2>1 DEF EmitsNextHeight, EmitsResolved, IndexingNewest
  <2> QED
    BY <1>1, <2>1, <2>2, <2>3, LoopStep DEF TypeOK
<1>7. CASE PollFails
  <2>1. /\ pc = "poll" /\ fresh' = FALSE
        /\ UNCHANGED <<storageVars, pc, tip, next, end, ahead, held, half, behind_tip,
                        announced, worldVars>>
    BY <1>7 DEF PollFails
  <2>2. EmitsNextHeight' /\ EmitsResolved' /\ IndexingNewest'
    BY <1>1, <2>1 DEF EmitsNextHeight, EmitsResolved, IndexingNewest
  <2>3. fresh' \in BOOLEAN
    BY <2>1
  <2> QED
    BY <1>1, <2>1, <2>2, <2>3, LoopStep DEF TypeOK
<1>8. CASE PollNotDue
  <2>1. /\ pc = "poll" /\ pc' = "measure"
        /\ UNCHANGED <<storageVars, tip, fresh, next, end, ahead, held, half, behind_tip,
                        announced, worldVars>>
    BY <1>8 DEF PollNotDue
  <2>2. EmitsNextHeight' /\ EmitsResolved' /\ IndexingNewest'
    BY <1>1, <2>1 DEF EmitsNextHeight, EmitsResolved, IndexingNewest
  <2> QED
    BY <1>1, <2>1, <2>2, LoopStep DEF TypeOK
<1>9. CASE Measure
  BY <1>9, MeasureStep
<1>10. ASSUME NEW h \in Heights, FetchBlock(h) \/ FetchFails(h) PROVE IInv'
  <2>1. PICK result \in {"block", "none"} : Fetch(h, result)
    BY <1>10 DEF FetchBlock, FetchFails
  <2>2. /\ pc = "fetch" /\ Len(ahead) < Concurrency /\ ahead' = Append(ahead, result)
        /\ UNCHANGED <<storageVars, pc, tip, fresh, next, end, held, half, behind_tip,
                        announced, worldVars>>
    BY <2>1 DEF Fetch
  <2>3. ahead' \in Seq({"block", "none"}) /\ Len(ahead') <= Concurrency
    BY <1>1, <2>2 DEF TypeOK
  <2>4. opened' = opened /\ kind' = kind /\ high_water' = high_water
    BY <2>2, QuietStep DEF storageVars, worldVars
  <2>5. EmitsNextHeight' /\ EmitsResolved' /\ IndexingNewest'
    BY <1>1, <2>2, <2>4 DEF EmitsNextHeight, EmitsResolved, IndexingNewest, EmitHeight
  <2> QED
    BY <1>1, <2>2, <2>3, <2>5, LoopStep DEF TypeOK
<1>11. CASE OutNone \/ ResolveFails \/ ResolveOther
  <2>1. Remeasure /\ UNCHANGED <<storageVars, tip, fresh, behind_tip, announced, worldVars>>
    BY <1>11 DEF OutNone, ResolveFails, ResolveOther, CutShort
  <2>2. UNCHANGED <<kind, height, floorSet>> /\ faults' \in 0..MaxFaults
    BY <1>1, <2>1 DEF worldVars, TypeOK
  <2> QED
    BY <1>3, <2>1, <2>2
<1>12. CASE HoldProposal \/ EmitPlain \/ ResolveAbort \/ ResolveCommit
  BY <1>12, TakeStep
<1>13. CASE Write
  BY <1>13, WriteKeeps
<1>14. CASE Index
  BY <1>14, IndexKeeps
<1>15. CASE PutError
  BY <1>1, <1>3, <1>15 DEF PutError, TypeOK
<1>16. CASE UNCHANGED vars
  <2>1. /\ UNCHANGED <<storageVars, announced, kind, loopVars>> /\ floorSet' = floorSet
        /\ height' = height /\ faults' = faults
    BY <1>16 DEF vars, worldVars
  <2> QED
    BY <1>1, <1>2, <2>1 DEF TypeOK
<1> QED
  BY <1>4, <1>5, <1>6, <1>7, <1>8, <1>9, <1>10, <1>11, <1>12, <1>13, <1>14, <1>15, <1>16
     DEF Next, Loop

------------------------------------------------------------------------------
\* The invariant holds throughout.
LEMMA Invariance == Spec => []IInv
<1> QED
  BY InitIInv, NextIInv, PTL DEF Spec

\* The loop's variables always have their types: the look-ahead never exceeds
\* the configured concurrency and no height leaves the chain's range.
THEOREM PTypeCorrect == Spec => []TypeOK
<1>1. IInv => TypeOK
  BY DEF IInv
<1> QED
  BY <1>1, Invariance, PTL

\* Whatever the chain, the chunk size and the failures, no record is stored with
\* a rewards element its deciding block did not resolve (fill_range).
THEOREM PRewardsResolved == Spec => []RewardsResolved
<1>1. IInv => RewardsResolved
  BY DEF IInv
<1> QED
  BY <1>1, Invariance, PTL

\* A published record is stored and indexed (emit).
THEOREM PAnnouncedDurable == Spec => []AnnouncedDurable
<1>1. IInv => AnnouncedDurable
  BY DEF IInv
<1> QED
  BY <1>1, Invariance, PTL

\* The store never has a hole: getHeight's frontier is the high-water mark.
THEOREM PFrontierIsHighWater == Spec => []FrontierIsHighWater
<1>1. IInv => FrontierIsHighWater
  <2> SUFFICES ASSUME IInv, opened
               PROVE  max_contiguous_height = high_water /\ minH \in Stored
    BY DEF FrontierIsHighWater
  <2>1. StorageTypeOK /\ OneInterval
    BY DEF IInv, TypeOK
  <2>2. /\ high_water \in minH..MaxHeight /\ Stored = minH..high_water
        /\ max_contiguous_height = high_water
    BY <2>1, FrontierOfInterval
  <2> QED
    BY <2>1, <2>2, StorageAssumption DEF StorageTypeOK, Heights
<1> QED
  BY <1>1, Invariance, PTL

\* Every step of the loop is a step of the abstract feed, or invisible to it.
LEMMA StepRefines == IInv /\ [Next]_vars => [Feed!FeedNext]_(Feed!feedVars)
<1> SUFFICES ASSUME IInv, [Next]_vars PROVE [Feed!FeedNext]_(Feed!feedVars)
  OBVIOUS
<1>1. ASSUME UNCHANGED <<storageVars, announced>> PROVE UNCHANGED Feed!feedVars
  BY <1>1 DEF Feed!feedVars, storageVars, high_water, Stored
<1>2. CASE Write
  <2>1. /\ opened' /\ EmitHeight \in Heights /\ EmitHeight \in minH'..MaxHeight
        /\ high_water' = EmitHeight /\ announced' = announced
        /\ IF opened THEN minH' = minH /\ EmitHeight = high_water + 1 ELSE minH' = EmitHeight
    BY <1>2, WriteStep DEF Write
  <2>2. opened' = TRUE
    BY <1>2 DEF Write, PutBlock
  <2>3. StorageTypeOK /\ OneInterval
    BY DEF IInv, TypeOK
  <2>4. CASE opened
    <3>1. high_water \in minH..MaxHeight /\ minH \in Heights
      BY <2>3, <2>4, FrontierOfInterval DEF StorageTypeOK
    <3>2. high_water < MaxHeight /\ high_water' = high_water + 1 /\ minH' = minH
      BY <2>1, <2>4, <3>1, StorageAssumption DEF Heights
    <3>3. opened' = opened
      BY <2>2, <2>3, <2>4 DEF StorageTypeOK
    <3> QED
      BY <2>1, <2>4, <3>2, <3>3 DEF Feed!FeedNext, Feed!Extend
  <2>5. CASE ~opened
    BY <2>1, <2>2, <2>5 DEF Feed!FeedNext, Feed!Open, Heights
  <2> QED
    BY <2>4, <2>5
<1>3. CASE Index
  <2>1. /\ opened /\ EmitHeight = high_water /\ high_water \notin announced
        /\ UNCHANGED <<opened, minH, rec>>
        /\ announced' = announced \cup {high_water} \/ announced' = announced
    BY <1>3 DEF Index, IInv, IndexingNewest
  <2>2. high_water' = high_water
    BY <2>1 DEF high_water, Stored
  <2> QED
    BY <2>1, <2>2 DEF Feed!FeedNext, Feed!Publish, Feed!feedVars
<1>4. CASE [Next]_vars /\ ~Write /\ ~Index
  <2>1. UNCHANGED <<storageVars, announced>>
    BY <1>4 DEF Next, Loop, Grow, Crash, Poll, PollFails, PollNotDue, Measure, FetchBlock,
                FetchFails, Fetch, OutNone, CutShort, HoldProposal, EmitPlain, ResolveAbort,
                ResolveCommit, Resolve, ResolveFails, ResolveOther, PutError, vars
  <2> QED
    BY <1>1, <2>1
<1> QED
  BY <1>2, <1>3, <1>4

\* Seen by its readers - getHeight and the newRecords subscribers - the loop
\* implements the feed a mirror follows.
THEOREM PImplementsFeed == Spec => ImplementsFeed
<1>1. Init => Feed!FeedInit
  <2> SUFFICES ASSUME Init PROVE Feed!FeedInit
    OBVIOUS
  <2>1. Stored = {}
    BY DEF Init, StorageInit, Stored
  <2> QED
    BY <2>1 DEF Init, StorageInit, Feed!FeedInit, high_water, HighestOf
<1> QED
  BY <1>1, Invariance, StepRefines, PTL DEF Spec, ImplementsFeed, Feed!FeedSpec

\* The P-chain loop fills a store that its readers can rely on, for every floor:
\* the first block it writes is the one the store is anchored at.
THEOREM PFillsStore == Spec => FillsStore
<1>1. Init => Store!StorageInit
  BY InitFills DEF Init
<1>2. IInv => AnchorHeld
  <2> SUFFICES ASSUME IInv, opened PROVE minH \in Stored
    BY DEF AnchorHeld
  <2>1. PICK t \in minH..MaxHeight : Stored = minH..t
    BY DEF IInv, OneInterval
  <2> QED
    BY <2>1, StorageAssumption DEF IInv, TypeOK, StorageTypeOK, Heights
<1>3. IInv /\ AnchorHeld' /\ [Next]_vars => [Store!Puts]_(Store!storageVars)
  <2> SUFFICES ASSUME IInv, AnchorHeld', [Next]_vars PROVE [Store!Puts]_(Store!storageVars)
    OBVIOUS
  <2>1. StorageTypeOK /\ half \in Halves
    BY DEF IInv, TypeOK
  <2>2. CASE Write
    <3>1. EmitHeight \in Heights /\ PutBlock(EmitHeight, half)
      BY <2>2, WriteStep DEF Write
    <3> QED
      BY <2>1, <3>1, StepFills
  <2>3. CASE [Next]_vars /\ ~Write
    <3>1. UNCHANGED <<opened, minH, rec>>
      BY <2>3 DEF Next, Loop, Grow, Crash, Poll, PollFails, PollNotDue, Measure, FetchBlock,
                  FetchFails, Fetch, OutNone, CutShort, HoldProposal, EmitPlain, ResolveAbort,
                  ResolveCommit, Resolve, ResolveFails, ResolveOther, PutError, Index, vars, storageVars
    <3> QED
      BY <2>1, <3>1, StepFills
  <2> QED
    BY <2>2, <2>3
<1> QED
  BY <1>1, <1>2, <1>3, Invariance, PTL DEF Spec, FillsStore, Store!StoreSpec

------------------------------------------------------------------------------
(* The reads. *)

\* The block at h has the transaction tx.
Holds(h, tx) == \E n \in DOMAIN block_txs(h) : block_txs(h)[n] = tx

\* What the client was told rests on something that does not go away.
AnswersGrounded ==
  /\ told \in Heights \cup {Nothing}
  /\ told # Nothing => opened /\ told <= high_water
  /\ \A h \in Heights, tx \in TxNames : <<h, tx>> \in committed => h \in idx /\ Holds(h, tx)

\* What a request knows at each of its reads.
RequestGrounded ==
  /\ rpc \in {"idle", "empty", "contig", "index", "store", "done"}
  /\ rpc # "idle" => ask \in Asks
  /\ rpc \in {"empty", "contig"} => ask.kind \in {"getHeight", "getTimestamp"}
  /\ rpc = "contig" => opened
  /\ rpc = "index" => at = Nothing /\ ask.kind \in {"getBlock", "getTx", "getTxStatus"}
  /\ rpc = "store" =>
       /\ at \in Heights
       /\ ask.kind \in {"getTimestamp", "getBlockByHeight", "getBlock", "getTx"}
       /\ ask.kind # "getTimestamp" => at = ask.height
       /\ ask.kind # "getBlockByHeight" => at \in Stored
       /\ ask.kind = "getTx" => nth \in DOMAIN block_txs(at) /\ block_txs(at)[nth] = ask.tx

RInv ==
  /\ IInv
  /\ idx \subseteq Stored
  /\ AnswersGrounded
  /\ RequestGrounded
  /\ ReportedHeightStands
  /\ CommittedIsServed

------------------------------------------------------------------------------
\* The transactions of a block, by the block's kind.
LEMMA TxsOfKind ==
  ASSUME NEW h \in Heights, kind \in [Heights -> Kinds]
  PROVE  block_txs(h) = IF kind[h] = "reward" THEN <<"first", "proposal">>
                        ELSE IF kind[h] = "standard" THEN <<"first">> ELSE <<>>
<1>1. CASE kind[h] = "reward"
  <2>1. TxsArray(h) = <<"first">> /\ TxField(h) = <<"proposal">>
    BY <1>1 DEF TxsArray, TxField
  <2>2. <<"first">> \o <<"proposal">> = <<"first", "proposal">>
    <3> DEFINE s == <<"first">>
               u == <<"proposal">>
               v == <<"first", "proposal">>
    <3>1. s \in Seq(TxNames) /\ u \in Seq(TxNames) /\ v \in Seq(TxNames)
      BY DEF TxNames
    <3>2. Len(s) = 1 /\ Len(u) = 1 /\ Len(v) = 2
          /\ s[1] = "first" /\ u[1] = "proposal" /\ v[1] = "first" /\ v[2] = "proposal"
      OBVIOUS
    <3> HIDE DEF s, u, v
    <3>3. /\ s \o u \in Seq(TxNames) /\ Len(s \o u) = Len(s) + Len(u)
          /\ \A i \in 1..(Len(s) + Len(u)) :
               (s \o u)[i] = IF i <= Len(s) THEN s[i] ELSE u[i - Len(s)]
      BY <3>1, ConcatProperties
    <3>4. \A i \in 1..Len(v) : (s \o u)[i] = v[i]
      BY <3>2, <3>3
    <3>5. s \o u = v
      BY <3>1, <3>2, <3>3, <3>4, SeqEqual
    <3> QED
      BY <3>5 DEF s, u, v
  <2> QED
    BY <1>1, <2>1, <2>2 DEF block_txs
<1>2. CASE kind[h] = "standard"
  <2>1. TxsArray(h) = <<"first">> /\ TxField(h) = <<>>
    BY <1>2 DEF TxsArray, TxField
  <2>2. <<"first">> \o <<>> = <<"first">>
    OBVIOUS
  <2> QED
    BY <1>2, <2>1, <2>2 DEF block_txs
<1>3. CASE kind[h] \notin {"reward", "standard"}
  <2>1. TxsArray(h) = <<>> /\ TxField(h) = <<>>
    BY <1>3 DEF TxsArray, TxField
  <2>2. <<>> \o <<>> = <<>>
    OBVIOUS
  <2> QED
    BY <1>3, <2>1, <2>2 DEF block_txs
<1> QED
  BY <1>1, <1>2, <1>3

\* block_txs and take_nth_tx number a block's transactions alike.
LEMMA SameIndex ==
  ASSUME NEW h \in Heights, kind \in [Heights -> Kinds], NEW n \in DOMAIN block_txs(h)
  PROVE  /\ n \in Nat \ {0}
         /\ take_nth_tx(h, n) = block_txs(h)[n]
         /\ block_txs(h)[n] \in TxNames
<1>1. CASE kind[h] = "reward"
  <2>1. block_txs(h) = <<"first", "proposal">> /\ TxsArray(h) = <<"first">>
        /\ TxField(h) = <<"proposal">>
    BY <1>1, TxsOfKind DEF TxsArray, TxField
  <2>2. n = 1 \/ n = 2
    BY <2>1
  <2>3. CASE n = 1
    BY <2>1, <2>3 DEF take_nth_tx, TxNames
  <2>4. CASE n = 2
    BY <2>1, <2>4 DEF take_nth_tx, TxNames
  <2> QED
    BY <2>2, <2>3, <2>4
<1>2. CASE kind[h] = "standard"
  <2>1. block_txs(h) = <<"first">> /\ TxsArray(h) = <<"first">>
    BY <1>2, TxsOfKind DEF TxsArray
  <2>2. n = 1
    BY <2>1
  <2> QED
    BY <2>1, <2>2 DEF take_nth_tx, TxNames
<1>3. CASE kind[h] \notin {"reward", "standard"}
  BY <1>3, TxsOfKind
<1> QED
  BY <1>1, <1>2, <1>3

\* An index entry for a transaction is its place in an indexed block.
LEMMA LocationMeans ==
  ASSUME NEW h \in Heights, NEW tx \in TxNames, kind \in [Heights -> Kinds]
  PROVE  /\ Location(h, tx) # 0 => /\ h \in idx
                                   /\ Location(h, tx) \in DOMAIN block_txs(h)
                                   /\ block_txs(h)[Location(h, tx)] = tx
         /\ h \in idx /\ Holds(h, tx) => Location(h, tx) # 0
<1>1. CASE h \in idx /\ Holds(h, tx)
  <2>1. Location(h, tx) = CHOOSE n \in DOMAIN block_txs(h) : block_txs(h)[n] = tx
    BY <1>1 DEF Location, Holds
  <2>2. Location(h, tx) \in DOMAIN block_txs(h) /\ block_txs(h)[Location(h, tx)] = tx
    BY <1>1, <2>1 DEF Holds
  <2>3. Location(h, tx) # 0
    BY <2>2, SameIndex
  <2> QED
    BY <1>1, <2>2, <2>3
<1>2. CASE ~(h \in idx /\ Holds(h, tx))
  <2>1. Location(h, tx) = 0
    BY <1>2 DEF Location, Holds
  <2> QED
    BY <1>2, <2>1
<1> QED
  BY <1>1, <1>2

\* The store only grows, its minimum stays, and entries follow their blocks.
LEMMA StoreGrows ==
  ASSUME IInv, idx \subseteq Stored, [Next]_vars
  PROVE  /\ Stored \subseteq Stored' /\ idx \subseteq idx' /\ idx' \subseteq Stored'
         /\ kind' = kind
         /\ opened => opened' /\ minH' = minH /\ high_water <= high_water'
<1>0. StorageTypeOK /\ OneInterval
  BY DEF IInv, TypeOK
<1>1. CASE Write
  <2>1. /\ opened' /\ Stored' = Stored \cup {EmitHeight} /\ high_water' = EmitHeight
        /\ EmitHeight \in Heights
        /\ opened => minH' = minH /\ EmitHeight = high_water + 1
    BY <1>1, WriteStep
  <2>2. idx' = idx /\ kind' = kind
    BY <1>1 DEF Write, worldVars
  <2>3. opened => high_water \in Nat
    BY <1>0, FrontierOfInterval, StorageAssumption DEF StorageTypeOK, Heights
  <2>4. opened => high_water <= high_water'
    BY <2>1, <2>3
  <2> QED
    BY <2>1, <2>2, <2>4
<1>2. CASE Index
  <2>1. /\ UNCHANGED <<opened, minH, rec, kind>> /\ idx' = idx \cup {EmitHeight}
        /\ opened /\ EmitHeight = high_water
    BY <1>2 DEF Index, PutIndex, worldVars, IInv, IndexingNewest
  <2>2. high_water \in minH..MaxHeight /\ Stored = minH..high_water /\ minH \in Heights
    BY <1>0, <2>1, FrontierOfInterval DEF StorageTypeOK
  <2>3. high_water \in Stored /\ high_water <= high_water
    BY <2>2, StorageAssumption DEF Heights
  <2>4. Stored' = Stored /\ high_water' = high_water
    BY <2>1 DEF high_water, Stored
  <2> QED
    BY <2>1, <2>3, <2>4
<1>3. CASE ~Write /\ ~Index
  <2>1. UNCHANGED <<storageVars, kind>>
    BY <1>3 DEF Next, Loop, Grow, Crash, Poll, PollFails, PollNotDue, Measure, FetchBlock,
                FetchFails, Fetch, OutNone, CutShort, HoldProposal, EmitPlain, ResolveAbort,
                ResolveCommit, Resolve, ResolveFails, ResolveOther, PutError, vars, worldVars
  <2>2. UNCHANGED <<opened, minH, rec, idx>> /\ Stored' = Stored /\ high_water' = high_water
    BY <2>1 DEF storageVars, Stored, high_water
  <2>3. high_water \in Int
    BY <1>0, HighestOfIsHighest, StorageAssumption DEF high_water, Stored, Heights
  <2> QED
    BY <2>1, <2>2, <2>3
<1> QED
  BY <1>1, <1>2, <1>3

------------------------------------------------------------------------------
\* The initial states satisfy the invariant.
LEMMA ReadsInitRInv == ReadsInit => RInv
<1> SUFFICES ASSUME ReadsInit PROVE RInv
  OBVIOUS
<1>1. IInv
  BY InitIInv DEF ReadsInit
<1>2. idx = {} /\ rpc = "idle" /\ told = Nothing /\ committed = {}
  BY DEF ReadsInit, Init, StorageInit
<1> QED
  BY <1>1, <1>2 DEF RInv, AnswersGrounded, RequestGrounded, ReportedHeightStands,
                    CommittedIsServed

\* What the client was told keeps its ground while the pipeline runs or restarts.
LEMMA AnswersKept ==
  ASSUME RInv, [Next]_vars, UNCHANGED <<told, committed>>
  PROVE  IInv' /\ (idx \subseteq Stored)' /\ AnswersGrounded'
<1>1. IInv' /\ TypeOK
  BY NextIInv DEF RInv, IInv
<1>2. /\ Stored \subseteq Stored' /\ idx \subseteq idx' /\ idx' \subseteq Stored'
      /\ kind' = kind
      /\ opened => opened' /\ minH' = minH /\ high_water <= high_water'
  BY StoreGrows DEF RInv
<1>3. \A h, tx : Holds(h, tx)' = Holds(h, tx)
  BY <1>2 DEF Holds, block_txs, TxsArray, TxField
<1>4. high_water \in Int /\ high_water' \in Int
  BY <1>1, HighestOfIsHighest, StorageAssumption DEF high_water, Stored, Heights
<1>5. told # Nothing => opened' /\ told <= high_water'
  BY <1>2, <1>4, StorageAssumption DEF RInv, AnswersGrounded, Heights
<1>6. \A h \in Heights, tx \in TxNames : <<h, tx>> \in committed => h \in idx' /\ Holds(h, tx)
  BY <1>2 DEF RInv, AnswersGrounded
<1>7. AnswersGrounded'
  BY <1>3, <1>5, <1>6 DEF RInv, AnswersGrounded
<1> QED
  BY <1>1, <1>2, <1>7

\* A step of the pipeline leaves a request under way on the same ground.
LEMMA PipelineKeeps ==
  ASSUME RInv, [Next]_vars, UNCHANGED clientVars
  PROVE  RInv'
<1>1. UNCHANGED <<rpc, ask, at, nth, ans, told, committed>>
  BY DEF clientVars, localVars
<1>2. IInv' /\ (idx \subseteq Stored)' /\ AnswersGrounded'
  BY <1>1, AnswersKept
<1>3. /\ Stored \subseteq Stored' /\ kind' = kind
      /\ opened => opened' /\ minH' = minH
  BY StoreGrows DEF RInv
<1>4. \A h : block_txs(h)' = block_txs(h)
  BY <1>3 DEF block_txs, TxsArray, TxField
<1>5. RequestGrounded'
  BY <1>1, <1>3, <1>4 DEF RInv, RequestGrounded
<1>6. ReportedHeightStands'
  BY <1>1, <1>3 DEF RInv, AnswersGrounded, ReportedHeightStands
<1>7. CommittedIsServed'
  BY <1>1 DEF RInv, CommittedIsServed
<1> QED
  BY <1>2, <1>5, <1>6, <1>7 DEF RInv

\* So does a crash, which forgets the request.
LEMMA CrashKeeps ==
  ASSUME RInv, ReadsCrash
  PROVE  RInv'
<1>1. [Next]_vars /\ rpc' = "idle" /\ UNCHANGED <<told, committed>>
  BY DEF ReadsCrash, Idle, Next
<1>2. IInv' /\ (idx \subseteq Stored)' /\ AnswersGrounded'
  BY <1>1, AnswersKept
<1> QED
  BY <1>1, <1>2 DEF RInv, RequestGrounded, ReportedHeightStands, CommittedIsServed

\* A step of a request changes nothing the pipeline's invariant speaks of.
LEMMA ReadOnly ==
  ASSUME RInv, UNCHANGED vars
  PROVE  /\ IInv' /\ (idx \subseteq Stored)'
         /\ UNCHANGED <<opened, minH, rec, idx, kind>>
         /\ Stored' = Stored /\ high_water' = high_water
         /\ \A h : block_txs(h)' = block_txs(h)
         /\ \A h, tx : Holds(h, tx)' = Holds(h, tx)
<1>1. UNCHANGED <<opened, minH, rec, idx, kind>>
  BY DEF vars, storageVars, worldVars
<1>2. Stored' = Stored /\ high_water' = high_water
  BY <1>1 DEF Stored, high_water
<1>3. \A h : block_txs(h)' = block_txs(h)
  BY <1>1 DEF block_txs, TxsArray, TxField
<1>4. \A h, tx : Holds(h, tx)' = Holds(h, tx)
  BY <1>3 DEF Holds
<1>5. IInv' /\ (idx \subseteq Stored)'
  BY <1>1, <1>2, NextIInv DEF RInv
<1> QED
  BY <1>1, <1>2, <1>3, <1>4, <1>5

------------------------------------------------------------------------------
(* The steps of a request. *)

\* A request arrives knowing nothing, or is answered at once.
LEMMA ArrivesKeeps ==
  ASSUME RInv, NEW r \in Asks, Arrives(r)
  PROVE  RInv'
<1>1. /\ UNCHANGED vars /\ ask' = r /\ told' = told /\ committed' = committed
      /\ at' = IF r.kind = "getBlockByHeight" THEN r.height ELSE Nothing
      /\ IF r.kind = "getTx" /\ r.encoding # "json"
         THEN rpc' = "done" /\ ans' = "null" ELSE rpc' = First(r)
  BY DEF Arrives
<1>2. /\ IInv' /\ (idx \subseteq Stored)'
      /\ UNCHANGED <<opened, minH, idx, kind>> /\ high_water' = high_water
      /\ \A h, tx : Holds(h, tx)' = Holds(h, tx)
  BY <1>1, ReadOnly
<1>3. AnswersGrounded'
  BY <1>1, <1>2 DEF RInv, AnswersGrounded
<1>4. r.kind \in {"getHeight", "getTimestamp", "getBlockByHeight", "getBlock", "getTx", "getTxStatus"}
      /\ r.height \in Heights
  BY StorageAssumption DEF Asks, Heights
<1>5. RequestGrounded' /\ ReportedHeightStands' /\ CommittedIsServed'
  BY <1>1, <1>4 DEF First, RequestGrounded, ReportedHeightStands, CommittedIsServed
<1> QED
  BY <1>2, <1>3, <1>5 DEF RInv

\* The two reads of the tip: a store that is not empty stays so, and its frontier
\* is what it has reached.
LEMMA TipEmptyKeeps ==
  ASSUME RInv, TipEmpty
  PROVE  RInv'
<1>1. /\ UNCHANGED vars /\ UNCHANGED <<ask, at, told, committed>> /\ rpc = "empty"
      /\ IF ~opened THEN rpc' = "done" /\ ans' = "null" ELSE rpc' = "contig"
  BY DEF TipEmpty, Answer, is_empty
<1>2. /\ IInv' /\ (idx \subseteq Stored)'
      /\ UNCHANGED <<opened, minH, idx, kind>> /\ high_water' = high_water
      /\ \A h, tx : Holds(h, tx)' = Holds(h, tx)
  BY <1>1, ReadOnly
<1>3. AnswersGrounded'
  BY <1>1, <1>2 DEF RInv, AnswersGrounded
<1>4. RequestGrounded' /\ ReportedHeightStands' /\ CommittedIsServed'
  BY <1>1, <1>2 DEF RInv, AnswersGrounded, RequestGrounded, ReportedHeightStands,
                    CommittedIsServed
<1> QED
  BY <1>2, <1>3, <1>4 DEF RInv

\* getHeight and getTimestamp read the frontier.
LEMMA GetHeightKeeps ==
  ASSUME RInv, get_height
  PROVE  RInv'
<1>1. /\ UNCHANGED vars /\ UNCHANGED <<ask, committed>> /\ rpc = "contig"
      /\ at' = max_contiguous_height
      /\ IF ask.kind = "getHeight"
         THEN rpc' = "done" /\ ans' = "height" /\ told' = MaxOf(told, at')
         ELSE rpc' = "store" /\ told' = told
  BY DEF get_height, Answer
<1>2. /\ IInv' /\ (idx \subseteq Stored)' /\ Stored' = Stored
      /\ UNCHANGED <<opened, minH, idx, kind>> /\ high_water' = high_water
      /\ \A h, tx : Holds(h, tx)' = Holds(h, tx)
  BY <1>1, ReadOnly
<1>3. opened /\ ask \in Asks /\ ask.kind \in {"getHeight", "getTimestamp"}
  BY <1>1 DEF RInv, RequestGrounded
<1>4. high_water \in minH..MaxHeight /\ Stored = minH..high_water /\ at' = high_water
      /\ minH \in Heights
  BY <1>1, <1>3, FrontierOfInterval DEF RInv, IInv, TypeOK, StorageTypeOK
<1>5. at' \in Heights /\ at' \in Stored
  BY <1>4, StorageAssumption DEF Heights
<1>6. told' \in Heights \cup {Nothing} /\ told' <= high_water
      /\ (ask.kind = "getHeight" => told' = at')
  BY <1>1, <1>4, <1>5, StorageAssumption DEF RInv, AnswersGrounded, MaxOf, Heights, Nothing
<1>7. AnswersGrounded'
  BY <1>1, <1>2, <1>3, <1>6 DEF RInv, AnswersGrounded
<1>8. RequestGrounded' /\ ReportedHeightStands' /\ CommittedIsServed'
  <2>1. ask' = ask /\ rpc' \in {"done", "store"} /\ (rpc' = "done" <=> ask.kind = "getHeight")
    BY <1>1
  <2>2. RequestGrounded'
    BY <1>2, <1>3, <1>5, <2>1 DEF RequestGrounded
  <2>3. CommittedIsServed'
    BY <1>3, <2>1 DEF CommittedIsServed
  <2>4. rpc' = "done" => ans' # "null" /\ at' >= told'
    BY <1>1, <1>5, <1>6, <2>1, StorageAssumption DEF Heights
  <2>5. ReportedHeightStands'
    BY <1>3, <2>1, <2>4 DEF ReportedHeightStands
  <2> QED
    BY <2>2, <2>3, <2>5
<1> QED
  BY <1>2, <1>7, <1>8 DEF RInv

\* The three outcomes of the index.
LEMMA LookUpKeeps ==
  ASSUME RInv, LookUpMisses \/ get_tx_status \/ LookUpHits
  PROVE  RInv'
<1>1. UNCHANGED vars /\ ask' = ask /\ told' = told /\ rpc = "index"
  BY DEF LookUpMisses, get_tx_status, LookUpHits
<1>2. /\ IInv' /\ (idx \subseteq Stored)' /\ Stored' = Stored
      /\ UNCHANGED <<opened, minH, idx, kind>> /\ high_water' = high_water
      /\ \A h : block_txs(h)' = block_txs(h)
      /\ \A h, tx : Holds(h, tx)' = Holds(h, tx)
  BY <1>1, ReadOnly
<1>3. /\ ask \in Asks /\ at = Nothing /\ kind \in [Heights -> Kinds] /\ idx \subseteq Stored
      /\ ask.kind \in {"getBlock", "getTx", "getTxStatus"}
  BY <1>1 DEF RInv, RequestGrounded, IInv, TypeOK
<1>4. ask.height \in Heights /\ (ask.kind # "getBlock" => ask.tx \in TxNames)
  BY <1>3, StorageAssumption DEF Asks, Heights
<1>5. ask.kind # "getBlock" =>
        /\ Found => /\ ask.height \in idx /\ Holds(ask.height, ask.tx)
                    /\ Location(ask.height, ask.tx) \in DOMAIN block_txs(ask.height)
                    /\ block_txs(ask.height)[Location(ask.height, ask.tx)] = ask.tx
        /\ <<ask.height, ask.tx>> \in committed => Found
  <2> SUFFICES ASSUME ask.kind # "getBlock"
               PROVE  /\ Found => /\ ask.height \in idx /\ Holds(ask.height, ask.tx)
                                  /\ Location(ask.height, ask.tx) \in DOMAIN block_txs(ask.height)
                                  /\ block_txs(ask.height)[Location(ask.height, ask.tx)] = ask.tx
                      /\ <<ask.height, ask.tx>> \in committed => Found
    OBVIOUS
  <2>1. Found <=> Location(ask.height, ask.tx) # 0
    BY DEF Found
  <2>2. <<ask.height, ask.tx>> \in committed => ask.height \in idx /\ Holds(ask.height, ask.tx)
    BY <1>4 DEF RInv, AnswersGrounded
  <2> QED
    BY <1>3, <1>4, <2>1, <2>2, LocationMeans DEF Holds
<1>6. CASE LookUpMisses
  <2>1. ~Found /\ rpc' = "done" /\ ans' = "null" /\ at' = at /\ committed' = committed
    BY <1>6 DEF LookUpMisses, Answer
  <2>2. AnswersGrounded'
    BY <1>1, <1>2, <2>1 DEF RInv, AnswersGrounded
  <2>3. RequestGrounded' /\ ReportedHeightStands' /\ CommittedIsServed'
    BY <1>1, <1>3, <1>5, <2>1 DEF RequestGrounded, ReportedHeightStands, CommittedIsServed
  <2> QED
    BY <1>2, <2>2, <2>3 DEF RInv
<1>7. CASE get_tx_status
  <2>1. /\ Found /\ ask.kind = "getTxStatus" /\ rpc' = "done" /\ ans' = "status"
        /\ committed' = committed \cup {<<ask.height, ask.tx>>}
    BY <1>7 DEF get_tx_status, Answer
  <2>2. AnswersGrounded'
    BY <1>1, <1>2, <1>5, <2>1 DEF RInv, AnswersGrounded
  <2>3. RequestGrounded' /\ ReportedHeightStands' /\ CommittedIsServed'
    BY <1>1, <1>3, <2>1 DEF RequestGrounded, ReportedHeightStands, CommittedIsServed
  <2> QED
    BY <1>2, <2>2, <2>3 DEF RInv
<1>8. CASE LookUpHits
  <2>1. /\ Found /\ ask.kind # "getTxStatus" /\ rpc' = "store" /\ committed' = committed
        /\ at' = ask.height /\ nth' = Location(ask.height, ask.tx)
    BY <1>8 DEF LookUpHits
  <2>2. AnswersGrounded'
    BY <1>1, <1>2, <2>1 DEF RInv, AnswersGrounded
  <2>3. ask.height \in idx
    BY <1>5, <2>1 DEF Found
  <2>4. RequestGrounded'
    BY <1>1, <1>2, <1>3, <1>4, <1>5, <2>1, <2>3 DEF RequestGrounded
  <2>5. ReportedHeightStands' /\ CommittedIsServed'
    BY <2>1 DEF ReportedHeightStands, CommittedIsServed
  <2> QED
    BY <1>2, <2>2, <2>4, <2>5 DEF RInv
<1> QED
  BY <1>6, <1>7, <1>8

\* The block is read: what was reported or indexed is there, and the transaction
\* cut out of it is the one asked for.
LEMMA ReadStoreKeeps ==
  ASSUME RInv, ReadStore
  PROVE  RInv'
<1>1. /\ UNCHANGED vars /\ UNCHANGED <<ask, at, told, committed>> /\ rpc = "store" /\ rpc' = "done"
      /\ ans' = IF rec[at] = Absent THEN "null"
                ELSE IF ask.kind = "getTx" THEN SlicedTx ELSE "block"
  BY DEF ReadStore, Answer
<1>2. /\ IInv' /\ (idx \subseteq Stored)'
      /\ UNCHANGED <<opened, minH, idx, kind>> /\ high_water' = high_water
      /\ \A h, tx : Holds(h, tx)' = Holds(h, tx)
  BY <1>1, ReadOnly
<1>3. AnswersGrounded'
  BY <1>1, <1>2 DEF RInv, AnswersGrounded
<1>4. /\ ask \in Asks /\ at \in Heights /\ kind \in [Heights -> Kinds]
      /\ ask.kind \in {"getTimestamp", "getBlockByHeight", "getBlock", "getTx"}
      /\ ask.kind # "getTimestamp" => at = ask.height
      /\ ask.kind # "getBlockByHeight" => at \in Stored
      /\ ask.kind = "getTx" => nth \in DOMAIN block_txs(at) /\ block_txs(at)[nth] = ask.tx
  BY <1>1 DEF RInv, RequestGrounded, IInv, TypeOK
<1>5. ask.kind = "getTx" => SlicedTx = ask.tx
  <2> SUFFICES ASSUME ask.kind = "getTx" PROVE SlicedTx = ask.tx
    OBVIOUS
  <2>1. take_nth_tx(at, nth) = ask.tx /\ ask.tx \in TxNames
    BY <1>4, SameIndex
  <2> QED
    BY <2>1 DEF SlicedTx, TxNames
<1>6. at \in Stored => rec[at] # Absent
  BY DEF Stored
<1>7. told # Nothing /\ minH <= at /\ at <= told => at \in Stored
  <2> SUFFICES ASSUME told # Nothing, minH <= at, at <= told PROVE at \in Stored
    OBVIOUS
  <2>1. opened /\ told <= high_water /\ told \in Heights
    BY DEF RInv, AnswersGrounded
  <2>2. Stored = minH..high_water /\ minH \in Heights /\ high_water \in minH..MaxHeight
    BY <2>1, FrontierOfInterval DEF RInv, IInv, TypeOK, StorageTypeOK
  <2> QED
    BY <1>4, <2>1, <2>2, StorageAssumption DEF Heights
<1>8. RequestGrounded'
  BY <1>1, <1>4 DEF RequestGrounded
<1>9. ReportedHeightStands'
  BY <1>1, <1>2, <1>4, <1>6, <1>7 DEF ReportedHeightStands
<1>10. CommittedIsServed'
  BY <1>1, <1>4, <1>5, <1>6 DEF CommittedIsServed
<1> QED
  BY <1>2, <1>3, <1>8, <1>9, <1>10 DEF RInv

\* An answered request is forgotten; what the client learned is not.
LEMMA AnsweredKeeps ==
  ASSUME RInv, Answered
  PROVE  RInv'
<1>1. UNCHANGED vars /\ rpc' = "idle" /\ UNCHANGED <<told, committed>>
  BY DEF Answered, Idle
<1>2. IInv' /\ (idx \subseteq Stored)' /\ AnswersGrounded'
  BY <1>1, AnswersKept
<1> QED
  BY <1>1, <1>2 DEF RInv, RequestGrounded, ReportedHeightStands, CommittedIsServed

------------------------------------------------------------------------------
\* The invariant holds of every behaviour.
LEMMA ReadsInvariant == ReadsSpec => []RInv
<1>1. RInv /\ [ReadsNext]_readsVars => RInv'
  <2> SUFFICES ASSUME RInv, [ReadsNext]_readsVars PROVE RInv'
    OBVIOUS
  <2>1. CASE Pipeline
    BY <2>1, PipelineKeeps DEF Pipeline, Next
  <2>2. CASE ReadsCrash
    BY <2>2, CrashKeeps
  <2>3. CASE Reads
    BY <2>3, ArrivesKeeps, TipEmptyKeeps, GetHeightKeeps, LookUpKeeps, ReadStoreKeeps,
       AnsweredKeeps DEF Reads
  <2>4. CASE UNCHANGED readsVars
    BY <2>4, PipelineKeeps DEF readsVars
  <2> QED
    BY <2>1, <2>2, <2>3, <2>4 DEF ReadsNext
<1> QED
  BY <1>1, ReadsInitRInv, PTL DEF ReadsSpec

\* What platform.getHeight reported holds for every later request, for every chain
\* and any number of writes, failures and restarts in between.
THEOREM ReportedHeightAlwaysStands == ReadsSpec => []ReportedHeightStands
<1>1. RInv => ReportedHeightStands
  BY DEF RInv
<1> QED
  BY <1>1, ReadsInvariant, PTL

\* What the index names is served as asked for, by getBlock and getTx alike, and
\* what getTxStatus called Committed stays committed.
THEOREM CommittedIsAlwaysServed == ReadsSpec => []CommittedIsServed
<1>1. RInv => CommittedIsServed
  BY DEF RInv
<1> QED
  BY <1>1, ReadsInvariant, PTL

------------------------------------------------------------------------------
(* Types. *)

\* What RInv does not say of a request and of the client.
ReadTypes ==
  /\ ask \in Asks \cup {NoAsk}
  /\ at \in Heights \cup {Nothing} /\ nth \in 0..2
  /\ ans \in {"none", "null", "height", "block", "status"} \cup TxNames
  /\ asked \in 0..MaxRequests
  /\ committed \subseteq Heights \X TxNames

\* A transaction's place is one of its block's two at most.
LEMMA LocationBound ==
  ASSUME NEW h \in Heights, NEW tx, kind \in [Heights -> Kinds]
  PROVE  Location(h, tx) \in 0..2
<1>1. DOMAIN block_txs(h) \subseteq 1..2
  <2>1. DOMAIN <<"first", "proposal">> \subseteq 1..2 /\ DOMAIN <<"first">> \subseteq 1..2
        /\ DOMAIN <<>> \subseteq 1..2
    OBVIOUS
  <2> QED
    BY <2>1, TxsOfKind
<1> DEFINE Is(n) == block_txs(h)[n] = tx
           place == CHOOSE n \in DOMAIN block_txs(h) : Is(n)
<1>2. CASE \E n \in DOMAIN block_txs(h) : Is(n)
  <2>1. place \in DOMAIN block_txs(h)
    BY <1>2
  <2>2. Location(h, tx) = place \/ Location(h, tx) = 0
    BY DEF Location
  <2> HIDE DEF place
  <2> QED
    BY <1>1, <2>1, <2>2
<1>3. CASE ~\E n \in DOMAIN block_txs(h) : Is(n)
  BY <1>3 DEF Location
<1> QED
  BY <1>2, <1>3

\* Every step of a request, of the client and of the pipeline keeps the types.
LEMMA ReadTypesStep ==
  ASSUME RInv, ReadTypes, [ReadsNext]_readsVars
  PROVE  ReadTypes'
<1>0. kind \in [Heights -> Kinds] /\ StorageTypeOK
  BY DEF RInv, IInv, TypeOK
<1>1. CASE Pipeline \/ UNCHANGED readsVars
  <2>1. UNCHANGED <<ask, at, nth, ans, asked, committed>>
    BY <1>1 DEF Pipeline, readsVars, clientVars, localVars
  <2> QED
    BY <2>1 DEF ReadTypes
<1>2. CASE ReadsCrash \/ Answered
  <2>1. ask' = NoAsk /\ at' = Nothing /\ nth' = 0 /\ ans' = "none" /\ UNCHANGED <<asked, committed>>
    BY <1>2 DEF ReadsCrash, Answered, Idle
  <2> QED
    BY <2>1 DEF ReadTypes
<1>3. ASSUME NEW r \in Asks, Arrives(r) PROVE ReadTypes'
  <2>1. r.height \in Heights
    BY StorageAssumption DEF Asks, Heights
  <2>2. ask' = r /\ asked' = asked + 1 /\ asked < MaxRequests /\ UNCHANGED <<nth, committed>>
        /\ (at' = r.height \/ at' = Nothing) /\ (ans' = "null" \/ ans' = ans)
    BY <1>3 DEF Arrives
  <2>3. asked' \in 0..MaxRequests
    BY <2>2, PReadsAssumption DEF ReadTypes
  <2> QED
    BY <2>1, <2>2, <2>3 DEF ReadTypes
<1>4. CASE TipEmpty \/ LookUpMisses
  <2>1. UNCHANGED <<ask, at, nth, asked, committed>> /\ (ans' = "null" \/ ans' = ans)
    BY <1>4 DEF TipEmpty, LookUpMisses, Answer
  <2> QED
    BY <2>1 DEF ReadTypes
<1>5. CASE get_height
  <2>1. UNCHANGED <<ask, nth, asked, committed>> /\ at' = max_contiguous_height
        /\ (ans' = "height" \/ ans' = ans)
    BY <1>5 DEF get_height, Answer
  <2>2. opened
    BY <1>5 DEF get_height, RInv, RequestGrounded
  <2>3. high_water \in minH..MaxHeight /\ max_contiguous_height = high_water /\ minH \in Heights
    BY <2>2, FrontierOfInterval DEF RInv, IInv, TypeOK, StorageTypeOK
  <2>4. max_contiguous_height \in Heights
    BY <2>3, StorageAssumption DEF Heights
  <2> QED
    BY <2>1, <2>4 DEF ReadTypes
<1>6. CASE get_tx_status
  <2>1. UNCHANGED <<ask, at, nth, asked>> /\ ans' = "status"
        /\ committed' = committed \cup {<<ask.height, ask.tx>>}
        /\ rpc = "index" /\ ask.kind = "getTxStatus"
    BY <1>6 DEF get_tx_status, Answer
  <2>2. ask \in Asks
    BY <2>1 DEF RInv, RequestGrounded
  <2>3. ask.height \in Heights /\ ask.tx \in TxNames
    BY <2>1, <2>2 DEF Asks
  <2> QED
    BY <2>1, <2>3 DEF ReadTypes
<1>7. CASE LookUpHits
  <2>1. UNCHANGED <<ask, ans, asked, committed>> /\ at' = ask.height
        /\ nth' = Location(ask.height, ask.tx) /\ rpc = "index"
    BY <1>7 DEF LookUpHits
  <2>2. ask.height \in Heights
    BY <2>1, StorageAssumption DEF RInv, RequestGrounded, Asks, Heights
  <2>3. nth' \in 0..2
    BY <1>0, <2>1, <2>2, LocationBound
  <2> QED
    BY <2>1, <2>2, <2>3 DEF ReadTypes
<1>8. CASE ReadStore
  <2>1. UNCHANGED <<ask, at, nth, asked, committed>> /\ rpc = "store"
        /\ (ans' = "null" \/ ans' = "block" \/ (ask.kind = "getTx" /\ ans' = SlicedTx))
    BY <1>8 DEF ReadStore, Answer
  <2>2. at \in Heights /\ (ask.kind = "getTx" => nth \in DOMAIN block_txs(at))
    BY <2>1 DEF RInv, RequestGrounded
  <2>3. ask.kind = "getTx" => SlicedTx \in TxNames \cup {"null"}
    BY <1>0, <2>2, SameIndex DEF SlicedTx
  <2> QED
    BY <2>1, <2>3 DEF ReadTypes
<1> QED
  BY <1>1, <1>2, <1>3, <1>4, <1>5, <1>6, <1>7, <1>8 DEF ReadsNext, Reads

\* The client, its request and the loop are type correct: a request never resolves
\* to a height or a place outside the chain (get_tx_location, tip).
THEOREM RTypeCorrect == ReadsSpec => []ReadsTypeOK
<1>1. ReadsInit => ReadTypes
  BY PReadsAssumption DEF ReadsInit, ReadTypes
<1>2. RInv /\ ReadTypes /\ [ReadsNext]_readsVars => ReadTypes'
  BY ReadTypesStep
<1>3. RInv /\ ReadTypes => ReadsTypeOK
  BY DEF RInv, IInv, RequestGrounded, AnswersGrounded, ReadTypes, ReadsTypeOK
<1> QED
  BY <1>1, <1>2, <1>3, ReadsInvariant, PTL DEF ReadsSpec

==============================================================================
