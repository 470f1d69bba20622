----------------------------- MODULE CChainProofs -----------------------------
(***************************************************************************)
(* Proofs about the C-chain pipeline, for every chain, floor, buffer size, *)
(* window, concurrency and number of faults.                               *)
(***************************************************************************)
EXTENDS CChain, StorageProofs, FiniteSetTheorems

\* The live task: only a mirror bootstraps, a block is indexed after it is
\* written, and with log ingestion what it writes is the logs of its height.
LiveShape ==
  /\ lpc \in {"boot", "bootRecv", "bootIndex"} => Mirror
  /\ lpc \in {"index", "bootIndex"} => rec[lh] # Absent
  /\ lpc = "write" /\ IngestLogs => lhalf = LogsAt(lh)

\* The backfill task: a run lies below its target, a block is indexed after it
\* is written, and the window holds the logs of every height left in the run.
FillShape ==
  /\ bpc \in {"window", "fetch", "index"} => bnext <= bend /\ bend <= btarget
  /\ bpc = "index" => rec[bnext] # Absent /\ ahead # <<>>
  /\ bpc \in {"fetch", "index"} /\ IngestLogs /\ ~Receipts =>
       \A h \in bnext..bend : h \in window <=> h \in HasData

\* Where a run starts is not below the minimum the store has or, while there is
\* none, below the floor, which bounds the minimum it will get.
NotBelow(h) == IF opened THEN minH <= h ELSE floorSet /\ FloorAt <= h

AboveMinimum ==
  /\ floorSet => HasFloor
  /\ ~opened => Stored = {}
  /\ bpc = "contig" => opened \/ floorSet
  /\ bpc = "tip" => NotBelow(bcont + 1)
  /\ bpc \in {"window", "fetch", "index"} => NotBelow(bnext)

IInv ==
  /\ TypeOK
  /\ LiveShape
  /\ FillShape
  /\ AboveMinimum
  /\ IndexSound
  /\ ~Mirror => CompleteRecords
  /\ AnnouncedDurable

\* The types of each task's own variables.
LiveTypes ==
  /\ pending \in [Heights -> Pendings]
  /\ announced \in SUBSET Heights
  /\ lpc \in LivePCs /\ lh \in Heights /\ lend \in Heights /\ lhalf \in Halves

FillTypes ==
  /\ bpc \in FillPCs /\ bhw \in Heights /\ bcont \in Heights
  /\ btarget \in Heights /\ bnext \in 0..(MaxHeight + 1) /\ bend \in Heights
  /\ window \in SUBSET Heights
  /\ ahead \in Seq(Results) /\ Len(ahead) <= Concurrency
  /\ tipHeight \in Heights /\ tipRead \in BOOLEAN
  /\ behind_tip \in Heights

WorldTypes ==
  /\ tip \in Heights
  /\ floorSet \in BOOLEAN
  /\ faults \in 0..MaxFaults

\* The type invariant, one part per task, so that a step is only asked about the
\* part it touches.
LEMMA TypesSplit == TypeOK <=> StorageTypeOK /\ LiveTypes /\ FillTypes /\ WorldTypes
  BY DEF TypeOK, LiveTypes, FillTypes, WorldTypes

\* The same of the state after a step.
LEMMA TypesSplitNext == TypeOK' <=> (StorageTypeOK /\ LiveTypes /\ FillTypes /\ WorldTypes)'
  BY DEF TypeOK, LiveTypes, FillTypes, WorldTypes

------------------------------------------------------------------------------
\* The frontier is a height, and not below the store's minimum.
LEMMA FrontierRange ==
  ASSUME StorageTypeOK
  PROVE  /\ max_contiguous_height \in Heights
         /\ opened => minH <= max_contiguous_height + 1
<1> USE StorageAssumption DEF Heights
<1>1. CASE opened
  <2>1. minH \in Heights /\ Stored \in SUBSET Heights
    BY DEF StorageTypeOK, Stored
  <2>2. FirstGap(minH, Stored) \in minH..(MaxHeight + 1)
    BY <2>1, FirstGapIsFirstGap
  <2> QED
    BY <1>1, <2>1, <2>2 DEF max_contiguous_height, Pred
<1>2. CASE ~opened
  BY <1>2 DEF max_contiguous_height
<1> QED
  BY <1>1, <1>2

\* What stage one of put does, whoever calls it.
LEMMA PutEffect ==
  ASSUME StorageTypeOK, AboveMinimum, NEW h \in Heights, NEW r \in Halves,
         PutBlock(h, r), idx' = idx
  PROVE  /\ StorageTypeOK' /\ opened' = TRUE /\ (opened => minH' = minH)
         /\ rec'[h] = r /\ r # Absent
         /\ \A k \in Heights \ {h} : rec'[k] = rec[k]
         /\ \A k \in Heights : rec[k] # Absent => rec'[k] # Absent
         /\ Stored' = Stored \cup {h}
         /\ \A k \in Int : NotBelow(k) => minH' <= k
<1> USE StorageAssumption DEF Heights
<1>1. /\ opened' = TRUE /\ minH' = IF opened THEN minH ELSE Anchor(h)
      /\ rec' = [rec EXCEPT ![h] = r]
  BY DEF PutBlock
<1>2. /\ opened \in BOOLEAN /\ minH \in Heights /\ idx \in SUBSET Heights
      /\ rec \in [Heights -> Halves \cup {Absent}]
  BY DEF StorageTypeOK
<1>3. r # Absent
  BY DEF Halves, Absent
<1>4. /\ rec'[h] = r /\ \A k \in Heights \ {h} : rec'[k] = rec[k]
      /\ rec' \in [Heights -> Halves \cup {Absent}]
  BY <1>1, <1>2
<1>5. Stored' = Stored \cup {h}
  BY <1>3, <1>4 DEF Stored
<1>6. Anchor(h) \in Heights /\ (HasFloor => Anchor(h) <= FloorAt)
  BY DEF Anchor
<1>7. StorageTypeOK'
  <2>1. opened' \in BOOLEAN
    BY <1>1, Zenon
  <2>2. minH' \in Heights
    BY <1>1, <1>2, <1>6
  <2> QED
    BY <1>2, <1>4, <2>1, <2>2 DEF StorageTypeOK
<1>8. \A k \in Int : NotBelow(k) => minH' <= k
  <2>1. CASE opened
    BY <1>1, <2>1 DEF NotBelow
  <2>2. CASE ~opened
    BY <1>1, <1>6, <2>2 DEF NotBelow, AboveMinimum
  <2> QED
    BY <2>1, <2>2
<1> QED
  BY <1>1, <1>3, <1>4, <1>5, <1>7, <1>8

\* The initial states satisfy the invariant.
LEMMA InitIInv == Init => IInv
<1> SUFFICES ASSUME Init PROVE IInv
  OBVIOUS
<1> USE StorageAssumption
<1>1. StorageTypeOK /\ Stored = {}
  <2>1. opened = FALSE /\ minH = 0 /\ rec = [h \in Heights |-> Absent] /\ idx = {}
    BY DEF Init, StorageInit
  <2>2. opened \in BOOLEAN
    BY <2>1, Zenon
  <2>3. 0 \in Heights
    BY DEF Heights
  <2> QED
    BY <2>1, <2>2, <2>3 DEF StorageTypeOK, Stored
<1> USE CChainAssumption DEF Init, StorageInit, MemoryInit
<1>2. LiveTypes
  BY DEF LiveTypes, NothingPending, Pendings, LivePCs, Halves, Heights
<1>3. FillTypes
  <2>1. ahead \in Seq(Results) /\ Len(ahead) <= Concurrency
    OBVIOUS
  <2>2. tipRead \in BOOLEAN
    BY Zenon
  <2> QED
    BY <2>1, <2>2 DEF FillTypes, FillPCs, Heights
<1>4. WorldTypes
  <2>1. floorSet \in BOOLEAN
    BY Zenon
  <2> QED
    BY <2>1 DEF WorldTypes, Heights
<1>5. LiveShape /\ FillShape
  BY DEF LiveShape, FillShape
<1>6. AboveMinimum
  BY <1>1 DEF AboveMinimum
<1>7. IndexSound /\ CompleteRecords /\ AnnouncedDurable
  BY <1>1 DEF IndexSound, CompleteRecords, AnnouncedDurable
<1> QED
  BY <1>1, <1>2, <1>3, <1>4, <1>5, <1>6, <1>7, TypesSplit DEF IInv

------------------------------------------------------------------------------
\* A step that leaves the store alone keeps what is said of it alone.
LEMMA QuietStore ==
  ASSUME IInv, UNCHANGED storageVars
  PROVE  /\ StorageTypeOK' /\ Stored' = Stored /\ opened' = opened /\ minH' = minH
         /\ rec' = rec /\ idx' = idx /\ IndexSound'
         /\ max_contiguous_height' = max_contiguous_height
         /\ ~Mirror => CompleteRecords'
<1>1. opened' = opened /\ minH' = minH /\ rec' = rec /\ idx' = idx
  BY DEF storageVars
<1>2. Stored' = Stored
  BY <1>1 DEF Stored
<1>3. max_contiguous_height' = max_contiguous_height
  BY <1>1, <1>2 DEF max_contiguous_height
<1>4. StorageTypeOK' /\ IndexSound'
  BY <1>1, <1>2 DEF StorageTypeOK, IndexSound, IInv, TypeOK
<1>5. ~Mirror => CompleteRecords'
  BY <1>1, <1>2 DEF IInv, CompleteRecords
<1> QED
  BY <1>1, <1>2, <1>3, <1>4, <1>5

\* A step of the live task that does not touch the store.
LEMMA LiveStep ==
  ASSUME IInv, UNCHANGED <<storageVars, fillVars, floorSet>>,
         tip' \in Heights, faults' \in 0..MaxFaults,
         LiveTypes', LiveShape', AnnouncedDurable'
  PROVE  IInv'
<1>1. /\ StorageTypeOK' /\ Stored' = Stored /\ opened' = opened /\ minH' = minH
      /\ rec' = rec /\ IndexSound' /\ (~Mirror => CompleteRecords')
  BY QuietStore
<1>2. FillTypes /\ WorldTypes /\ FillShape /\ AboveMinimum
  BY TypesSplit DEF IInv
<1>3. FillTypes' /\ WorldTypes'
  BY <1>2 DEF FillTypes, WorldTypes, fillVars
<1>4. FillShape'
  BY <1>1, <1>2 DEF FillShape, fillVars
<1>5. AboveMinimum'
  BY <1>1, <1>2 DEF AboveMinimum, NotBelow, fillVars
<1> QED
  BY <1>1, <1>3, <1>4, <1>5, TypesSplitNext DEF IInv

\* A step of the backfill task that does not touch the store.
LEMMA FillStep ==
  ASSUME IInv, UNCHANGED <<storageVars, pending, announced, liveVars, tip, floorSet>>,
         faults' \in 0..MaxFaults, FillTypes', FillShape', AboveMinimum'
  PROVE  IInv'
<1>1. /\ StorageTypeOK' /\ Stored' = Stored /\ rec' = rec /\ idx' = idx
      /\ IndexSound' /\ (~Mirror => CompleteRecords')
  BY QuietStore
<1>2. LiveTypes /\ WorldTypes /\ LiveShape /\ AnnouncedDurable
  BY TypesSplit DEF IInv
<1>3. LiveTypes' /\ WorldTypes'
  BY <1>2 DEF LiveTypes, WorldTypes, liveVars
<1>4. LiveShape' /\ AnnouncedDurable'
  BY <1>1, <1>2 DEF LiveShape, AnnouncedDurable, liveVars
<1> QED
  BY <1>1, <1>3, <1>4, TypesSplitNext DEF IInv

\* Stage one of put by the live task or the bootstrap.
LEMMA LivePut ==
  ASSUME IInv, NEW r \in Halves, PutBlock(lh, r), lpc' \in {"index", "bootIndex"},
         lpc' = "bootIndex" => Mirror, IngestLogs /\ ~Mirror => r = LogsAt(lh),
         UNCHANGED <<idx, pending, announced, lh, lend, lhalf, fillVars, worldVars>>
  PROVE  IInv'
<1>1. /\ StorageTypeOK /\ LiveTypes /\ FillTypes /\ WorldTypes /\ FillShape
      /\ AboveMinimum /\ IndexSound /\ AnnouncedDurable /\ (~Mirror => CompleteRecords)
  BY TypesSplit DEF IInv
<1>2. lh \in Heights
  BY <1>1 DEF LiveTypes
<1>3. /\ StorageTypeOK' /\ opened' = TRUE /\ (opened => minH' = minH)
      /\ rec'[lh] = r /\ r # Absent
      /\ \A k \in Heights \ {lh} : rec'[k] = rec[k]
      /\ \A k \in Heights : rec[k] # Absent => rec'[k] # Absent
      /\ Stored' = Stored \cup {lh}
      /\ \A k \in Int : NotBelow(k) => minH' <= k
  BY <1>1, <1>2, PutEffect
<1>4. LiveTypes' /\ FillTypes' /\ WorldTypes'
  BY <1>1 DEF LiveTypes, FillTypes, WorldTypes, fillVars, worldVars, LivePCs
<1>5. LiveShape'
  BY <1>3 DEF LiveShape
<1>6. FillShape'
  <2>1. bpc = "index" => bnext \in Heights
    BY <1>1, StorageAssumption DEF FillShape, FillTypes, Heights
  <2> QED
    BY <1>1, <1>3, <2>1 DEF FillShape, fillVars
<1>7. AboveMinimum'
  <2>1. bcont + 1 \in Int /\ bnext \in Int
    BY <1>1, StorageAssumption DEF FillTypes, Heights
  <2>2. bpc' = bpc /\ bcont' = bcont /\ bnext' = bnext /\ floorSet' = floorSet
    BY DEF fillVars, worldVars
  <2> QED
    BY <1>1, <1>3, <2>1, <2>2 DEF AboveMinimum, NotBelow
<1>8. IndexSound' /\ AnnouncedDurable'
  BY <1>1, <1>3 DEF IndexSound, AnnouncedDurable
<1>9. ~Mirror => CompleteRecords'
  BY <1>1, <1>3 DEF CompleteRecords, Stored
<1> QED
  BY <1>3, <1>4, <1>5, <1>6, <1>7, <1>8, <1>9, TypesSplitNext DEF IInv

\* Stage two of put by the live task or the bootstrap: the batch commit names
\* a height that is stored.
LEMMA LiveIndexed ==
  ASSUME IInv, PutIndex(lh), lpc \in {"index", "bootIndex"}, LiveTypes', LiveShape',
         announced' = announced \/ (announced' = announced \cup {lh}),
         UNCHANGED <<opened, minH, rec, fillVars, worldVars>>
  PROVE  IInv'
<1>1. /\ StorageTypeOK /\ LiveTypes /\ FillTypes /\ WorldTypes /\ LiveShape /\ FillShape
      /\ AboveMinimum /\ IndexSound /\ AnnouncedDurable /\ (~Mirror => CompleteRecords)
  BY TypesSplit DEF IInv
<1>2. lh \in Heights /\ lh \in Stored /\ Stored' = Stored /\ idx' = idx \cup {lh}
  BY <1>1 DEF LiveTypes, LiveShape, Stored, PutIndex
<1>3. StorageTypeOK'
  BY <1>1, <1>2 DEF StorageTypeOK
<1>4. FillTypes' /\ WorldTypes'
  BY <1>1 DEF FillTypes, WorldTypes, fillVars, worldVars
<1>5. FillShape'
  BY <1>1 DEF FillShape, fillVars
<1>6. AboveMinimum'
  BY <1>1, <1>2 DEF AboveMinimum, NotBelow, fillVars, worldVars
<1>7. IndexSound' /\ AnnouncedDurable'
  BY <1>1, <1>2 DEF IndexSound, AnnouncedDurable
<1>8. ~Mirror => CompleteRecords'
  BY <1>1, <1>2 DEF CompleteRecords
<1> QED
  BY <1>3, <1>4, <1>5, <1>6, <1>7, <1>8, TypesSplitNext DEF IInv

\* Every step of the bootstrap keeps the invariant.
LEMMA BootKeeps ==
  ASSUME IInv, Boot
  PROVE  IInv'
<1> USE StorageAssumption
<1>1. /\ StorageTypeOK /\ LiveTypes /\ WorldTypes /\ LiveShape /\ AnnouncedDurable
  BY TypesSplit DEF IInv
<1>2. 0 \in Heights
  BY DEF Heights
<1>3. CASE BootStart
  <2>1. /\ lpc = "boot" /\ UNCHANGED <<storageVars, fillVars, worldVars, pending, announced, lhalf>>
    BY <1>3 DEF BootStart
  <2>2. max_contiguous_height \in Heights /\ Floor \in Heights
    BY <1>1, FrontierRange DEF Floor, Heights
  <2>3. \/ lpc' = "idle" /\ lh' = lh /\ lend' = lend
        \/ lpc' = "bootRecv" /\ lh' \in Heights /\ lend' \in Heights
    BY <1>1, <1>3, <2>2 DEF BootStart, WorldTypes, Heights, MaxOf
  <2>4. LiveTypes'
    BY <1>1, <2>1, <2>3 DEF LiveTypes, LivePCs
  <2>5. LiveShape'
    BY <1>1, <2>1, <2>3 DEF LiveShape
  <2>6. AnnouncedDurable'
    BY <1>1, <2>1, QuietStore DEF AnnouncedDurable
  <2> QED
    BY <1>1, <2>1, <2>4, <2>5, <2>6, LiveStep DEF WorldTypes, worldVars
<1>4. CASE BootFail
  <2>1. /\ lpc' = "idle" /\ lh' = 0 /\ lend' = 0
        /\ UNCHANGED <<storageVars, fillVars, worldVars, pending, announced, lhalf>>
    BY <1>4 DEF BootFail
  <2>2. LiveTypes' /\ LiveShape'
    BY <1>1, <1>2, <2>1 DEF LiveTypes, LivePCs, LiveShape
  <2>3. AnnouncedDurable'
    BY <1>1, <2>1, QuietStore DEF AnnouncedDurable
  <2> QED
    BY <1>1, <2>1, <2>2, <2>3, LiveStep DEF WorldTypes, worldVars
<1>5. CASE BootBlock
  <2>1. /\ lpc = "bootRecv" /\ PutBlock(lh, "[]") /\ lpc' = "bootIndex"
        /\ UNCHANGED <<idx, pending, announced, lh, lend, lhalf, fillVars, worldVars>>
    BY <1>5 DEF BootBlock
  <2>2. Mirror /\ "[]" \in Halves
    BY <1>1, <2>1 DEF LiveShape, Halves
  <2> QED
    BY <2>1, <2>2, LivePut
<1>6. CASE BootIndex
  <2>1. /\ lpc = "bootIndex" /\ PutIndex(lh)
        /\ UNCHANGED <<opened, minH, rec, pending, announced, lhalf, fillVars, worldVars>>
    BY <1>6 DEF BootIndex
  <2>2. \/ lpc' = "idle" /\ lh' = 0 /\ lend' = 0
        \/ lpc' = "bootRecv" /\ lh' \in Heights /\ lend' = lend
    BY <1>1, <1>6 DEF BootIndex, LiveTypes, Heights
  <2>3. LiveTypes' /\ LiveShape'
    BY <1>1, <1>2, <2>1, <2>2 DEF LiveTypes, LivePCs, LiveShape
  <2> QED
    BY <2>1, <2>3, LiveIndexed
<1> QED
  BY <1>3, <1>4, <1>5, <1>6 DEF Boot

\* The join buffer's map keeps its type.
LEMMA ArriveTypes ==
  ASSUME NEW p \in [Heights -> Pendings], NEW h \in Heights, NEW half \in {"block", "logs"}
  PROVE  Arrive(p, h, half).pending \in [Heights -> Pendings]
<1>1. CASE p[h] = OtherHalf(half)
  <2>1. p[h] # "none"
    BY <1>1 DEF OtherHalf
  <2>2. Arrive(p, h, half) = [act |-> "write", pending |-> [p EXCEPT ![h] = "none"]]
    BY <1>1, <2>1 DEF Arrive
  <2> QED
    BY <2>2 DEF Pendings
<1>2. CASE p[h] # OtherHalf(half) /\ p[h] = "none" /\ Full(p)
  BY <1>2 DEF Arrive, NothingPending, Pendings
<1>3. CASE p[h] # OtherHalf(half) /\ ~(p[h] = "none" /\ Full(p))
  <2>1. Arrive(p, h, half) = [act |-> "buffered", pending |-> [p EXCEPT ![h] = half]]
    BY <1>3 DEF Arrive
  <2> QED
    BY <2>1 DEF Pendings
<1> QED
  BY <1>1, <1>2, <1>3

\* Every step of the live task keeps the invariant.
LEMMA LiveKeeps ==
  ASSUME IInv, Live
  PROVE  IInv'
<1> USE StorageAssumption
<1>1. /\ StorageTypeOK /\ LiveTypes /\ WorldTypes /\ LiveShape /\ AnnouncedDurable
  BY TypesSplit DEF IInv
<1>2. 0 \in Heights /\ "[]" \in Halves /\ "data" \in Halves
  BY DEF Heights, Halves
<1>3. ASSUME UNCHANGED <<storageVars, fillVars, floorSet, tip>>, faults' \in 0..MaxFaults,
             LiveTypes', LiveShape', IngestLogs \/ announced' = announced
      PROVE  IInv'
  <2>1. AnnouncedDurable'
    BY <1>1, <1>3, QuietStore DEF AnnouncedDurable
  <2> QED
    BY <1>1, <1>3, <2>1, LiveStep DEF WorldTypes
<1>4. faults \in 0..MaxFaults
  BY <1>1 DEF WorldTypes
<1>5. CASE NewHead
  <2>1. /\ lh' \in Heights /\ lpc' = "fetch"
        /\ UNCHANGED <<storageVars, pending, announced, lend, lhalf, fillVars, worldVars>>
    BY <1>1, <1>5 DEF NewHead, WorldTypes, Heights
  <2>2. LiveTypes' /\ LiveShape'
    BY <1>1, <2>1 DEF LiveTypes, LiveShape, LivePCs
  <2> QED
    BY <1>3, <1>4, <2>1, <2>2 DEF worldVars
<1>6. CASE HeadSkipped \/ LogsNone
  <2>1. /\ lh' = 0 /\ lpc' = "idle"
        /\ UNCHANGED <<storageVars, pending, announced, lend, lhalf, fillVars, worldVars>>
    BY <1>6 DEF HeadSkipped, LogsNone
  <2>2. LiveTypes' /\ LiveShape'
    BY <1>1, <1>2, <2>1 DEF LiveTypes, LiveShape, LivePCs
  <2> QED
    BY <1>3, <1>4, <2>1, <2>2 DEF worldVars
<1>7. CASE BlockPlain
  <2>1. /\ ~IngestLogs /\ lpc' = "write" /\ lhalf' = "[]"
        /\ UNCHANGED <<storageVars, pending, announced, lh, lend, fillVars, worldVars>>
    BY <1>7 DEF BlockPlain
  <2>2. LiveTypes' /\ LiveShape'
    BY <1>1, <1>2, <2>1 DEF LiveTypes, LiveShape, LivePCs
  <2> QED
    BY <1>3, <1>4, <2>1, <2>2 DEF worldVars
<1>8. CASE BlockJoin
  <2>1. /\ IngestLogs /\ pending' = on_block(pending, lh).pending
        /\ \/ lpc' = "idle" /\ lh' = 0 /\ announced' = announced
           \/ lpc' = "logs" /\ lh' = lh /\ announced' = announced \cup {lh}
        /\ UNCHANGED <<storageVars, lend, lhalf, fillVars, worldVars>>
    BY <1>8 DEF BlockJoin
  <2>2. pending' \in [Heights -> Pendings]
    BY <1>1, <2>1, ArriveTypes DEF LiveTypes, on_block
  <2>3. LiveTypes' /\ LiveShape'
    BY <1>1, <1>2, <2>1, <2>2 DEF LiveTypes, LiveShape, LivePCs
  <2> QED
    BY <1>3, <1>4, <2>1, <2>3 DEF worldVars
<1>9. CASE LogsJoin
  <2>1. /\ pending' = on_logs(pending, lh).pending
        /\ \/ lpc' = "idle" /\ lh' = 0 /\ lhalf' = lhalf
           \/ lpc' = "write" /\ lh' = lh /\ lhalf' = LogsAt(lh)
        /\ UNCHANGED <<storageVars, announced, lend, fillVars, worldVars>>
    BY <1>9 DEF LogsJoin
  <2>2. pending' \in [Heights -> Pendings]
    BY <1>1, <2>1, ArriveTypes DEF LiveTypes, on_logs
  <2>3. LiveTypes' /\ LiveShape'
    BY <1>1, <1>2, <2>1, <2>2 DEF LiveTypes, LiveShape, LivePCs, LogsAt
  <2> QED
    BY <1>3, <1>4, <2>1, <2>3 DEF worldVars
<1>10. CASE LiveWrite
  <2>1. /\ lpc = "write" /\ PutBlock(lh, lhalf) /\ lpc' = "index"
        /\ UNCHANGED <<idx, pending, announced, lh, lend, lhalf, fillVars, worldVars>>
    BY <1>10 DEF LiveWrite
  <2>2. lhalf \in Halves /\ (IngestLogs => lhalf = LogsAt(lh))
    BY <1>1, <2>1 DEF LiveTypes, LiveShape
  <2> QED
    BY <2>1, <2>2, LivePut
<1>11. CASE LiveWriteRefused \/ LivePutError
  <2>1. /\ lh' = 0 /\ lpc' = "idle" /\ lhalf' = "[]" /\ faults' \in 0..MaxFaults
        /\ lend' \in {0, lend}
        /\ UNCHANGED <<storageVars, pending, announced, fillVars, tip, floorSet>>
    BY <1>4, <1>11, CChainAssumption DEF LiveWriteRefused, LivePutError, worldVars
  <2>2. LiveTypes' /\ LiveShape'
    BY <1>1, <1>2, <2>1 DEF LiveTypes, LiveShape, LivePCs
  <2> QED
    BY <1>3, <2>1, <2>2
<1>12. CASE LiveIndex
  <2>1. /\ lpc = "index" /\ PutIndex(lh) /\ lh' = 0 /\ lpc' = "idle" /\ lhalf' = "[]"
        /\ announced' = announced \/ (announced' = announced \cup {lh})
        /\ UNCHANGED <<opened, minH, rec, pending, lend, fillVars, worldVars>>
    BY <1>12 DEF LiveIndex
  <2>2. LiveTypes' /\ LiveShape'
    BY <1>1, <1>2, <2>1 DEF LiveTypes, LiveShape, LivePCs
  <2> QED
    BY <2>1, <2>2, LiveIndexed
<1> QED
  BY <1>5, <1>6, <1>7, <1>8, <1>9, <1>10, <1>11, <1>12 DEF Live

------------------------------------------------------------------------------
\* Back at the top of the loop nothing is left to say of the run.
LEMMA RemeasureKeeps ==
  ASSUME IInv, Remeasure, UNCHANGED <<storageVars, pending, announced, liveVars, tip, floorSet,
                                      window>>,
         tipHeight' \in Heights, tipRead' \in BOOLEAN, behind_tip' \in Heights,
         faults' \in 0..MaxFaults
  PROVE  IInv'
<1>1. FillTypes /\ AboveMinimum
  BY TypesSplit DEF IInv
<1>2. /\ bpc' = "hw" /\ bhw' = 0 /\ bcont' = 0 /\ btarget' = 0 /\ bnext' = 0 /\ bend' = 0
      /\ ahead' = <<>>
  BY DEF Remeasure
<1>3. 0 \in Heights /\ 0 \in 0..(MaxHeight + 1)
  BY StorageAssumption DEF Heights
<1>4. ahead' \in Seq(Results) /\ Len(ahead') <= Concurrency
  BY <1>2, CChainAssumption
<1>5. window' \in SUBSET Heights
  BY <1>1 DEF FillTypes
<1>6. FillTypes'
  BY <1>2, <1>3, <1>4, <1>5 DEF FillTypes, FillPCs
<1>7. FillShape'
  BY <1>2 DEF FillShape
<1>8. AboveMinimum'
  <2>1. Stored' = Stored /\ opened' = opened
    BY QuietStore
  <2> QED
    BY <1>1, <1>2, <2>1 DEF AboveMinimum
<1> QED
  BY <1>6, <1>7, <1>8, FillStep

\* The decision of an iteration.
LEMMA PlanKeeps ==
  ASSUME IInv, NEW t \in Heights, bpc = "tip", Plan(t), tipHeight' \in Heights,
         tipRead' \in BOOLEAN,
         UNCHANGED <<storageVars, pending, announced, liveVars, window, worldVars>>
  PROVE  IInv'
<1> USE StorageAssumption, CChainAssumption
<1>1. FillTypes /\ WorldTypes /\ AboveMinimum
  BY TypesSplit DEF IInv
<1> DEFINE target == MaxOf(bhw, t)
<1>2. target \in Heights /\ bcont \in Heights
  BY <1>1 DEF FillTypes, MaxOf
<1>3. UNCHANGED <<tip, floorSet>> /\ faults' \in 0..MaxFaults
  BY <1>1 DEF worldVars, WorldTypes
<1>4. CASE bcont >= target
  <2>1. behind_tip' = 0 /\ Remeasure
    BY <1>4 DEF Plan
  <2>2. behind_tip' \in Heights
    BY <2>1 DEF Heights
  <2> QED
    BY <1>3, <2>1, <2>2, RemeasureKeeps
<1>5. CASE ~(bcont >= target)
  <2>1. /\ behind_tip' = target - bcont /\ btarget' = target /\ bnext' = bcont + 1
        /\ bend' = MinOf(target, bcont + LOGS_WINDOW) /\ bhw' = 0 /\ bcont' = 0
        /\ bpc' = (IF IngestLogs /\ ~Receipts THEN "window" ELSE "fetch")
        /\ ahead' = ahead
    BY <1>5 DEF Plan
  <2> HIDE DEF target
  <2>2. /\ behind_tip' \in Heights /\ btarget' \in Heights /\ bnext' \in 0..(MaxHeight + 1)
        /\ bend' \in Heights /\ bhw' \in Heights /\ bcont' \in Heights
        /\ bnext' <= bend' /\ bend' <= btarget'
    BY <1>2, <1>5, <2>1 DEF MinOf, Heights
  <2>3. FillTypes'
    BY <1>1, <2>1, <2>2 DEF FillTypes, FillPCs
  <2>4. FillShape'
    BY <2>1, <2>2 DEF FillShape
  <2>5. AboveMinimum'
    <3>1. Stored' = Stored /\ opened' = opened /\ minH' = minH
      BY QuietStore
    <3> QED
      BY <1>1, <1>3, <2>1, <3>1 DEF AboveMinimum, NotBelow
  <2> QED
    BY <1>3, <2>3, <2>4, <2>5, FillStep
<1> QED
  BY <1>4, <1>5

\* NextOfRun after a height is skipped or stored.
LEMMA NextOfRunKeeps ==
  ASSUME IInv, NextOfRun, bpc \in {"fetch", "index"}, ahead # <<>>,
         opened' = opened, minH' = minH, Stored' = Stored, floorSet' = floorSet,
         UNCHANGED <<window, tipHeight, tipRead>>, behind_tip' \in Heights
  PROVE  FillTypes' /\ FillShape' /\ AboveMinimum'
<1> USE StorageAssumption, CChainAssumption
<1>1. FillTypes /\ FillShape /\ AboveMinimum
  BY TypesSplit DEF IInv
<1>2. CASE bnext >= bend
  <2>1. /\ bpc' = "hw" /\ bhw' = 0 /\ bcont' = 0 /\ btarget' = 0 /\ bnext' = 0 /\ bend' = 0
        /\ ahead' = <<>>
    BY <1>2 DEF NextOfRun, Remeasure
  <2>2. 0 \in Heights /\ 0 \in 0..(MaxHeight + 1)
    BY DEF Heights
  <2>3. ahead' \in Seq(Results) /\ Len(ahead') <= Concurrency
    BY <2>1
  <2>4. FillTypes'
    BY <1>1, <2>1, <2>2, <2>3 DEF FillTypes, FillPCs
  <2>5. FillShape' /\ AboveMinimum'
    BY <1>1, <2>1 DEF FillShape, AboveMinimum
  <2> QED
    BY <2>4, <2>5
<1>3. CASE ~(bnext >= bend)
  <2>1. /\ bpc' = "fetch" /\ bnext' = bnext + 1 /\ ahead' = Tail(ahead)
        /\ UNCHANGED <<bhw, bcont, btarget, bend>>
    BY <1>3 DEF NextOfRun
  <2>2. ahead' \in Seq(Results) /\ Len(ahead') <= Concurrency
    BY <1>1, <2>1 DEF FillTypes
  <2>3. bnext \in Nat /\ bend \in Heights /\ bnext' \in 0..(MaxHeight + 1) /\ bnext' <= bend
    BY <1>1, <1>3, <2>1 DEF FillTypes, Heights
  <2>4. FillTypes'
    BY <1>1, <2>1, <2>2, <2>3 DEF FillTypes, FillPCs
  <2>5. FillShape'
    BY <1>1, <2>1, <2>3 DEF FillShape, Heights
  <2>6. AboveMinimum'
    <3>1. opened => minH \in Int
      BY TypesSplit DEF IInv, StorageTypeOK, Heights
    <3> QED
      BY <1>1, <2>1, <2>3, <3>1 DEF AboveMinimum, NotBelow
  <2> QED
    BY <2>4, <2>5, <2>6
<1> QED
  BY <1>2, <1>3

\* Stage one of put by backfill.
LEMMA FillBlockKeeps ==
  ASSUME IInv, FillBlock
  PROVE  IInv'
<1> USE StorageAssumption
<1>1. /\ StorageTypeOK /\ LiveTypes /\ FillTypes /\ WorldTypes /\ LiveShape /\ FillShape
      /\ AboveMinimum /\ IndexSound /\ AnnouncedDurable /\ (~Mirror => CompleteRecords)
  BY TypesSplit DEF IInv
<1>2. /\ bpc = "fetch" /\ ahead # <<>> /\ PutBlock(bnext, FillHalf(bnext)) /\ bpc' = "index"
      /\ UNCHANGED <<idx, pending, announced, liveVars, bhw, bcont, btarget, bnext, bend,
                      window, ahead, tipHeight, tipRead, behind_tip, worldVars>>
  BY DEF FillBlock, Ready
<1>3. bnext \in Heights /\ bnext \in bnext..bend /\ bend \in Heights
  BY <1>1, <1>2 DEF FillTypes, FillShape, Heights
<1>4. FillHalf(bnext) \in Halves
  BY CChainAssumption DEF FillHalf, LogsAt, Halves
<1>5. IngestLogs => FillHalf(bnext) = LogsAt(bnext)
  <2>1. CASE IngestLogs /\ Receipts
    BY <2>1 DEF FillHalf
  <2>2. CASE IngestLogs /\ ~Receipts
    <3>1. bnext \in window <=> bnext \in HasData
      BY <1>1, <1>2, <1>3, <2>2 DEF FillShape
    <3>2. FillHalf(bnext) = IF bnext \in window THEN "data" ELSE "[]"
      BY <2>2 DEF FillHalf
    <3> QED
      BY <3>1, <3>2 DEF LogsAt
  <2> QED
    BY <2>1, <2>2
<1>6. /\ StorageTypeOK' /\ opened' = TRUE /\ (opened => minH' = minH)
      /\ rec'[bnext] = FillHalf(bnext) /\ FillHalf(bnext) # Absent
      /\ \A k \in Heights \ {bnext} : rec'[k] = rec[k]
      /\ \A k \in Heights : rec[k] # Absent => rec'[k] # Absent
      /\ Stored' = Stored \cup {bnext}
      /\ \A k \in Int : NotBelow(k) => minH' <= k
  BY <1>1, <1>2, <1>3, <1>4, PutEffect
<1>7. LiveTypes' /\ FillTypes' /\ WorldTypes'
  BY <1>1, <1>2 DEF LiveTypes, FillTypes, WorldTypes, liveVars, worldVars, FillPCs
<1>8. LiveShape'
  BY <1>1, <1>2, <1>6 DEF LiveShape, LiveTypes, liveVars
<1>9. FillShape'
  BY <1>1, <1>2, <1>6 DEF FillShape
<1>10. AboveMinimum'
  <2>1. bnext \in Int /\ NotBelow(bnext) /\ floorSet' = floorSet
    BY <1>1, <1>2, <1>3 DEF AboveMinimum, worldVars, Heights
  <2> QED
    BY <1>1, <1>2, <1>6, <2>1 DEF AboveMinimum, NotBelow
<1>11. IndexSound' /\ AnnouncedDurable'
  BY <1>1, <1>2, <1>6 DEF IndexSound, AnnouncedDurable
<1>12. ~Mirror => CompleteRecords'
  BY <1>1, <1>5, <1>6 DEF CompleteRecords, Stored
<1> QED
  BY <1>6, <1>7, <1>8, <1>9, <1>10, <1>11, <1>12, TypesSplitNext DEF IInv

\* Stage two of put by backfill.
LEMMA FillIndexKeeps ==
  ASSUME IInv, FillIndex
  PROVE  IInv'
<1> USE StorageAssumption
<1>1. /\ StorageTypeOK /\ LiveTypes /\ FillTypes /\ WorldTypes /\ LiveShape /\ FillShape
      /\ AboveMinimum /\ IndexSound /\ AnnouncedDurable /\ (~Mirror => CompleteRecords)
  BY TypesSplit DEF IInv
<1>2. /\ bpc = "index" /\ idx' = idx \cup {bnext} /\ behind_tip' = btarget - bnext /\ NextOfRun
      /\ UNCHANGED <<opened, minH, rec, pending, announced, liveVars, window, tipHeight,
                      tipRead, worldVars>>
  BY DEF FillIndex, PutIndex
<1>3. /\ bnext \in Heights /\ bnext \in Stored /\ ahead # <<>> /\ Stored' = Stored
      /\ behind_tip' \in Heights
  BY <1>1, <1>2 DEF FillTypes, FillShape, Heights, Stored
<1>4. FillTypes' /\ FillShape' /\ AboveMinimum'
  BY <1>2, <1>3, NextOfRunKeeps DEF worldVars
<1>5. StorageTypeOK'
  BY <1>1, <1>2, <1>3 DEF StorageTypeOK
<1>6. LiveTypes' /\ WorldTypes'
  BY <1>1, <1>2 DEF LiveTypes, WorldTypes, liveVars, worldVars
<1>7. LiveShape' /\ IndexSound' /\ AnnouncedDurable'
  BY <1>1, <1>2, <1>3 DEF LiveShape, IndexSound, AnnouncedDurable, liveVars
<1>8. ~Mirror => CompleteRecords'
  BY <1>1, <1>2, <1>3 DEF CompleteRecords
<1> QED
  BY <1>4, <1>5, <1>6, <1>7, <1>8, TypesSplitNext DEF IInv

\* Every step of the backfill task keeps the invariant.
LEMMA BackfillKeeps ==
  ASSUME IInv, Backfill
  PROVE  IInv'
<1> USE StorageAssumption, CChainAssumption
<1>1. /\ StorageTypeOK /\ FillTypes /\ WorldTypes /\ FillShape /\ AboveMinimum
  BY TypesSplit DEF IInv
<1>2. tip \in Heights /\ faults \in 0..MaxFaults
  BY <1>1 DEF WorldTypes
<1>3. CASE BackfillStart
  <2>1. /\ bpc = "start" /\ bpc' = "hw"
        /\ UNCHANGED <<storageVars, pending, announced, liveVars, bhw, bcont, btarget, bnext,
                        bend, window, ahead, tipHeight, tipRead, behind_tip, worldVars>>
    BY <1>3 DEF BackfillStart
  <2>2. FillTypes' /\ FillShape'
    BY <1>1, <2>1 DEF FillTypes, FillShape, FillPCs
  <2>3. AboveMinimum'
    BY <1>1, <2>1, QuietStore DEF AboveMinimum, worldVars
  <2> QED
    BY <1>2, <2>1, <2>2, <2>3, FillStep DEF worldVars
<1>4. CASE ReadHighWater
  <2>1. /\ bpc = "hw" /\ bpc' = "contig" /\ bhw' = high_water /\ (high_water # 0 \/ floorSet)
        /\ UNCHANGED <<storageVars, pending, announced, liveVars, bcont, btarget, bnext,
                        bend, window, ahead, tipHeight, tipRead, behind_tip, worldVars>>
    BY <1>4 DEF ReadHighWater
  <2>2. high_water \in Heights
    BY HighestOfIsHighest DEF high_water, Stored
  <2>3. FillTypes' /\ FillShape'
    BY <1>1, <2>1, <2>2 DEF FillTypes, FillShape, FillPCs
  <2>4. opened \/ floorSet
    BY <1>1, <2>1 DEF AboveMinimum, high_water, HighestOf
  <2>5. AboveMinimum'
    BY <1>1, <2>1, <2>4, QuietStore DEF AboveMinimum, worldVars
  <2> QED
    BY <1>2, <2>1, <2>3, <2>5, FillStep DEF worldVars
<1>5. CASE ReadContiguous
  <2>1. /\ bpc = "contig" /\ bpc' = "tip" /\ bcont' = MaxOf(max_contiguous_height, Pred(Floor))
        /\ UNCHANGED <<storageVars, pending, announced, liveVars, bhw, btarget, bnext,
                        bend, window, ahead, tipHeight, tipRead, behind_tip, worldVars>>
    BY <1>5 DEF ReadContiguous
  <2>2. /\ max_contiguous_height \in Heights
        /\ opened => minH <= max_contiguous_height + 1
    BY <1>1, FrontierRange
  <2>3. /\ bcont' \in Heights /\ bcont' >= max_contiguous_height
        /\ floorSet => FloorAt <= bcont' + 1
    BY <2>1, <2>2 DEF MaxOf, Pred, Floor, Heights
  <2>4. FillTypes' /\ FillShape'
    BY <1>1, <2>1, <2>3 DEF FillTypes, FillShape, FillPCs
  <2>5. opened => minH <= bcont' + 1
    <3> SUFFICES ASSUME opened PROVE minH <= bcont' + 1
      OBVIOUS
    <3>1. minH \in Int
      BY <1>1 DEF StorageTypeOK, Heights
    <3>2. max_contiguous_height \in Int /\ bcont' \in Int
      BY <2>2, <2>3 DEF Heights
    <3>3. minH <= max_contiguous_height + 1 /\ max_contiguous_height <= bcont'
      BY <2>2, <2>3, <3>2
    <3>4. \A a, b, c \in Int : a <= b + 1 /\ b <= c => a <= c + 1
      OBVIOUS
    <3> QED
      BY <3>1, <3>2, <3>3, <3>4
  <2>6. AboveMinimum'
    BY <1>1, <2>1, <2>3, <2>5, QuietStore DEF AboveMinimum, NotBelow, worldVars
  <2> QED
    BY <1>2, <2>1, <2>4, <2>6, FillStep DEF worldVars
<1>6. CASE TipCached \/ TipFetched \/ TipFailed
  <2>1. PICK t \in Heights : Plan(t)
    BY <1>1, <1>2, <1>6 DEF TipCached, TipFetched, TipFailed, FillTypes
  <2>2. /\ bpc = "tip"
        /\ UNCHANGED <<storageVars, pending, announced, liveVars, window, worldVars>>
    BY <1>6 DEF TipCached, TipFetched, TipFailed
  <2>3. tipHeight' \in Heights
    BY <1>1, <1>2, <1>6 DEF TipCached, TipFetched, TipFailed, FillTypes
  <2>4. tipRead' \in BOOLEAN
    BY <1>1, <1>6 DEF TipCached, TipFetched, TipFailed, FillTypes
  <2> QED
    BY <2>1, <2>2, <2>3, <2>4, PlanKeeps
<1>7. CASE WindowLoaded
  <2>1. /\ bpc = "window" /\ bpc' = "fetch" /\ window' = (bnext..bend) \cap HasData
        /\ UNCHANGED <<storageVars, pending, announced, liveVars, bhw, bcont, btarget, bnext,
                        bend, ahead, tipHeight, tipRead, behind_tip, worldVars>>
    BY <1>7 DEF WindowLoaded
  <2>2. FillTypes'
    BY <1>1, <2>1 DEF FillTypes, FillPCs
  <2>3. FillShape'
    BY <1>1, <2>1 DEF FillShape
  <2>4. AboveMinimum'
    BY <1>1, <2>1, QuietStore DEF AboveMinimum, NotBelow, worldVars
  <2> QED
    BY <1>2, <2>1, <2>2, <2>3, <2>4, FillStep DEF worldVars
<1>8. CASE WindowFailed \/ FillNone \/ FillPutError
  <2>1. /\ Remeasure /\ faults' \in 0..MaxFaults
        /\ UNCHANGED <<storageVars, pending, announced, liveVars, window, tipHeight, tipRead,
                        behind_tip, tip, floorSet>>
    BY <1>2, <1>8 DEF WindowFailed, FillNone, FillPutError, worldVars
  <2> QED
    BY <1>1, <2>1, RemeasureKeeps DEF FillTypes
<1>9. CASE Fetch
  <2>1. PICK h \in Heights, result \in Results : FetchOne(h, result)
    BY <1>9 DEF Fetch, FetchSkips, FetchBlock, FetchFails, Results
  <2>2. /\ bpc = "fetch" /\ Len(ahead) < Concurrency /\ ahead' = Append(ahead, result)
        /\ UNCHANGED <<storageVars, pending, announced, liveVars, bpc, bhw, bcont, btarget,
                        bnext, bend, window, tipHeight, tipRead, behind_tip, worldVars>>
    BY <2>1 DEF FetchOne
  <2>3. ahead' \in Seq(Results) /\ Len(ahead') <= Concurrency
    BY <1>1, <2>2 DEF FillTypes
  <2>4. FillTypes' /\ FillShape'
    BY <1>1, <2>2, <2>3 DEF FillTypes, FillShape
  <2>5. AboveMinimum'
    <3>1. Stored' = Stored /\ UNCHANGED <<opened, minH, floorSet, bpc, bcont, bnext>>
      BY <1>1, <2>2, QuietStore DEF storageVars, worldVars
    <3> QED
      BY <1>1, <3>1 DEF AboveMinimum, NotBelow
  <2> QED
    BY <1>2, <2>2, <2>4, <2>5, FillStep DEF worldVars
<1>10. CASE FillSkip
  <2>1. /\ bpc = "fetch" /\ ahead # <<>> /\ NextOfRun
        /\ UNCHANGED <<storageVars, pending, announced, liveVars, window, tipHeight, tipRead,
                        behind_tip, worldVars>>
    BY <1>10 DEF FillSkip, Ready
  <2>2. /\ opened' = opened /\ minH' = minH /\ Stored' = Stored /\ floorSet' = floorSet
        /\ behind_tip' \in Heights
    BY <1>1, <2>1, QuietStore DEF FillTypes, worldVars
  <2>3. FillTypes' /\ FillShape' /\ AboveMinimum'
    BY <2>1, <2>2, NextOfRunKeeps
  <2> QED
    BY <1>2, <2>1, <2>3, FillStep DEF worldVars
<1>11. CASE FillBlock
  BY <1>11, FillBlockKeeps
<1>12. CASE FillIndex
  BY <1>12, FillIndexKeeps
<1> QED
  BY <1>3, <1>4, <1>5, <1>6, <1>7, <1>8, <1>9, <1>10, <1>11, <1>12 DEF Backfill

\* Every step keeps the invariant.
LEMMA NextIInv == IInv /\ [Next]_vars => IInv'
<1> SUFFICES ASSUME IInv, [Next]_vars PROVE IInv'
  OBVIOUS
<1> USE StorageAssumption, CChainAssumption
<1>1. /\ StorageTypeOK /\ LiveTypes /\ FillTypes /\ WorldTypes /\ LiveShape /\ AnnouncedDurable
      /\ AboveMinimum
  BY TypesSplit DEF IInv
<1>2. CASE Grow \/ UNCHANGED vars
  <2>1. /\ tip' \in Heights /\ faults' \in 0..MaxFaults
        /\ UNCHANGED <<storageVars, pending, announced, liveVars, fillVars, floorSet>>
    BY <1>1, <1>2 DEF Grow, vars, worldVars, WorldTypes, Heights
  <2>2. LiveTypes'
    BY <1>1, <2>1 DEF LiveTypes, liveVars
  <2>3. LiveShape' /\ AnnouncedDurable'
    BY <1>1, <2>1, QuietStore DEF LiveShape, AnnouncedDurable, liveVars
  <2> QED
    BY <2>1, <2>2, <2>3, LiveStep
<1>3. CASE Crash
  <2>1. /\ faults' \in 0..MaxFaults /\ floorSet' = (HasFloor /\ ~opened)
        /\ MemoryLost /\ UNCHANGED <<storageVars, tip, announced>>
    BY <1>1, <1>3 DEF Crash, WorldTypes
  <2>2. 0 \in Heights /\ "[]" \in Halves /\ 0 \in 0..(MaxHeight + 1)
    BY DEF Heights, Halves
  <2>3. LiveTypes'
    BY <1>1, <2>1, <2>2 DEF LiveTypes, LivePCs, MemoryLost, NothingPending, Pendings
  <2>4. FillTypes'
    <3>1. ahead' \in Seq(Results) /\ Len(ahead') <= Concurrency
      BY <2>1 DEF MemoryLost
    <3>2. tipRead' \in BOOLEAN
      BY <2>1, Zenon DEF MemoryLost
    <3> QED
      BY <2>1, <2>2, <3>1, <3>2 DEF FillTypes, FillPCs, MemoryLost
  <2>5. WorldTypes' /\ (floorSet' => HasFloor)
    <3>1. floorSet' \in BOOLEAN /\ (floorSet' => HasFloor)
      BY <2>1, Zenon
    <3> QED
      BY <1>1, <2>1, <3>1 DEF WorldTypes
  <2>6. LiveShape' /\ FillShape'
    BY <2>1 DEF LiveShape, FillShape, MemoryLost
  <2>7. /\ StorageTypeOK' /\ Stored' = Stored /\ opened' = opened /\ idx' = idx /\ IndexSound'
        /\ ~Mirror => CompleteRecords'
    BY <2>1, QuietStore
  <2>8. AboveMinimum'
    BY <1>1, <2>1, <2>5, <2>7 DEF AboveMinimum, MemoryLost
  <2>9. AnnouncedDurable'
    BY <1>1, <2>1, <2>7 DEF AnnouncedDurable
  <2> QED
    BY <2>3, <2>4, <2>5, <2>6, <2>7, <2>8, <2>9, TypesSplitNext DEF IInv
<1>4. CASE Boot
  BY <1>4, BootKeeps
<1>5. CASE Live
  BY <1>5, LiveKeeps
<1>6. CASE Backfill
  BY <1>6, BackfillKeeps
<1> QED
  BY <1>2, <1>3, <1>4, <1>5, <1>6 DEF Next

------------------------------------------------------------------------------
\* The invariant holds throughout.
LEMMA Invariance == Spec => []IInv
<1> QED
  BY InitIInv, NextIInv, PTL DEF Spec

\* The variables of the two tasks always have their types: the fetches in
\* flight stay within the concurrency and no arithmetic leaves its range.
THEOREM CTypeCorrect == Spec => []TypeOK
<1>1. IInv => TypeOK
  BY DEF IInv
<1> QED
  BY <1>1, Invariance, PTL

\* No index entry points at a missing block, whatever the two writers, the
\* bootstrap, the crashes and the I/O errors do (put's order).
THEOREM CIndexSound == Spec => []IndexSound
<1>1. IInv => IndexSound
  BY DEF IInv
<1> QED
  BY <1>1, Invariance, PTL

\* A pipeline that is not a mirror never stores logs it did not fetch.
THEOREM CCompleteRecords ==
  ASSUME ~Mirror
  PROVE  Spec => []CompleteRecords
<1>1. IInv => CompleteRecords
  BY DEF IInv
<1> QED
  BY <1>1, Invariance, PTL

\* Without log ingestion a published block is stored and indexed.
THEOREM CAnnouncedDurable == Spec => []AnnouncedDurable
<1>1. IInv => AnnouncedDurable
  BY DEF IInv
<1> QED
  BY <1>1, Invariance, PTL

\* Backfill never writes below the store's minimum, whoever created the store.
THEOREM CBackfillNeverRefused == Spec => []BackfillNeverRefused
<1>1. IInv => BackfillNeverRefused
  <2> SUFFICES ASSUME IInv, bpc = "fetch", opened PROVE ~(bnext < minH)
    BY DEF BackfillNeverRefused, Ready, BelowMinimum
  <2>1. minH <= bnext /\ minH \in Heights /\ bnext \in 0..(MaxHeight + 1)
    BY DEF IInv, TypeOK, StorageTypeOK, AboveMinimum, NotBelow
  <2> QED
    BY <2>1, StorageAssumption DEF Heights
<1> QED
  BY <1>1, Invariance, PTL

\* How a step may change the store: not at all, stage one of put at a height,
\* or stage two.
LEMMA StoreSteps ==
  ASSUME IInv, [Next]_vars
  PROVE  \/ UNCHANGED <<opened, minH, rec>>
         \/ idx' = idx /\ \E h \in Heights, r \in Halves : PutBlock(h, r)
<1> USE StorageAssumption
<1>1. LiveTypes /\ FillTypes /\ FillShape
  BY TypesSplit DEF IInv
<1>2. CASE BootBlock
  BY <1>1, <1>2 DEF BootBlock, LiveTypes, Halves
<1>3. CASE LiveWrite
  BY <1>1, <1>3 DEF LiveWrite, LiveTypes
<1>4. CASE FillBlock
  <2>1. bnext \in Heights
    BY <1>1, <1>4 DEF FillBlock, Ready, FillTypes, FillShape, Heights
  <2>2. FillHalf(bnext) \in Halves
    BY CChainAssumption DEF FillHalf, LogsAt, Halves
  <2> QED
    BY <1>4, <2>1, <2>2 DEF FillBlock
<1>5. CASE Grow \/ Crash \/ BootStart \/ BootFail \/ BootIndex \/ UNCHANGED vars
  BY <1>5 DEF Grow, Crash, BootStart, BootFail, BootIndex, vars, storageVars
<1>6. CASE Live /\ ~LiveWrite
  BY <1>6 DEF Live, NewHead, HeadSkipped, BlockPlain, BlockJoin, LogsNone, LogsJoin,
              LiveWriteRefused, LiveIndex, LivePutError, storageVars
<1>7. CASE Backfill /\ ~FillBlock
  BY <1>7 DEF Backfill, BackfillStart, ReadHighWater, ReadContiguous, TipCached, TipFetched,
              TipFailed, WindowLoaded, WindowFailed, Fetch, FetchSkips, FetchBlock, FetchFails,
              FetchOne, FillSkip, FillNone, FillIndex, FillPutError, storageVars
<1> QED
  BY <1>2, <1>3, <1>4, <1>5, <1>6, <1>7 DEF Next, Boot

\* What an open store has it keeps.
LEMMA StoreKept ==
  ASSUME IInv, [Next]_vars, opened
  PROVE  /\ opened' /\ minH' = minH /\ Stored \subseteq Stored'
         /\ max_contiguous_height <= max_contiguous_height'
<1> USE StorageAssumption
<1>1. StorageTypeOK /\ AboveMinimum
  BY TypesSplit DEF IInv
<1>2. max_contiguous_height \in Int
  BY <1>1, FrontierRange DEF Heights
<1>3. CASE UNCHANGED <<opened, minH, rec>>
  BY <1>2, <1>3 DEF Stored, max_contiguous_height
<1>4. CASE idx' = idx /\ \E h \in Heights, r \in Halves : PutBlock(h, r)
  <2>1. PICK h \in Heights, r \in Halves : PutBlock(h, r)
    BY <1>4
  <2>2. /\ opened' = TRUE /\ minH' = minH /\ Stored' = Stored \cup {h}
    BY <1>1, <1>4, <2>1, PutEffect
  <2>3. minH \in Heights /\ Stored \in SUBSET Heights /\ Stored' \in SUBSET Heights
    BY <1>1, <2>2 DEF StorageTypeOK, Stored
  <2>4. FirstGap(minH, Stored) <= FirstGap(minH, Stored')
    BY <2>2, <2>3, FirstGapMonotone
  <2>5. /\ FirstGap(minH, Stored) \in minH..(MaxHeight + 1)
        /\ FirstGap(minH, Stored') \in minH..(MaxHeight + 1)
    BY <2>3, FirstGapIsFirstGap
  <2>6. max_contiguous_height <= max_contiguous_height'
    BY <2>2, <2>3, <2>4, <2>5 DEF max_contiguous_height, Pred, Heights
  <2> QED
    BY <2>2, <2>6
<1> QED
  BY <1>3, <1>4, StoreSteps

\* A store does not come to lack its first block, unless the floor is 0.
LEMMA AnchorKept ==
  ASSUME IInv, [Next]_vars, FloorAboveZero, AnchorHeld
  PROVE  AnchorHeld'
<1>1. CASE UNCHANGED <<opened, minH, rec>>
  BY <1>1 DEF AnchorHeld, Stored
<1>2. CASE \E h \in Heights, r \in Halves : PutBlock(h, r)
  BY <1>2, PutAnchors DEF IInv, TypeOK
<1> QED
  BY <1>1, <1>2, StoreSteps

\* The minimum is baked in, no record is lost and the frontier only advances,
\* over every interleaving, error and restart (what serve_range relies on).
THEOREM CFrontierNeverRetreats == Spec => FrontierNeverRetreats
<1> DEFINE Kept == opened => /\ opened' /\ minH' = minH
                             /\ Stored \subseteq Stored'
                             /\ max_contiguous_height <= max_contiguous_height'
<1>1. IInv /\ [Next]_vars => Kept
  BY StoreKept
<1>2. Spec => [][Kept]_vars
  BY <1>1, Invariance, PTL DEF Spec
<1> QED
  BY <1>2 DEF FrontierNeverRetreats

\* Live ingest, backfill and their crashes fill a store that its readers can rely
\* on: one minimum, nothing lost, and block 0 whenever it starts there.  (With a
\* floor of 0 the last is not so: backfill starts at 1.)
THEOREM CFillsStore ==
  ASSUME FloorAboveZero
  PROVE  Spec => FillsStore
<1>1. Init => Store!StorageInit /\ AnchorHeld
  BY InitFills DEF Init
<1>2. IInv /\ AnchorHeld /\ [Next]_vars => AnchorHeld'
  BY AnchorKept
<1>3. IInv /\ AnchorHeld' /\ [Next]_vars => [Store!Puts]_(Store!storageVars)
  BY StoreSteps, StepFills DEF IInv, TypeOK
<1> QED
  BY <1>1, <1>2, <1>3, Invariance, PTL DEF Spec, FillsStore, Store!StoreSpec

------------------------------------------------------------------------------
(* Bounds: sets of heights are finite, so a step is judged by what it adds. *)

\* A set of heights is finite.
LEMMA HeightsFinite ==
  ASSUME NEW S \in SUBSET Heights
  PROVE  IsFiniteSet(S) /\ Cardinality(S) \in Nat
<1>1. IsFiniteSet(Heights)
  BY StorageAssumption, FS_Interval DEF Heights
<1>2. IsFiniteSet(S)
  BY <1>1, FS_Subset
<1> QED
  BY <1>2, FS_CardinalityType

\* A half that arrives adds an entry only below the cap.
LEMMA ArriveBounded ==
  ASSUME NEW p \in [Heights -> Pendings], NEW h \in Heights, NEW half \in {"block", "logs"},
         Cardinality(Held(p)) <= Cap
  PROVE  Cardinality(Held(Arrive(p, h, half).pending)) <= Cap
<1>1. /\ IsFiniteSet(Held(p)) /\ Cardinality(Held(p)) \in Nat /\ Cap \in Nat
      /\ half # "none" /\ OtherHalf(half) # "none"
  BY HeightsFinite, JoinAssumption DEF Held, OtherHalf
<1>2. CASE p[h] = OtherHalf(half)
  <2> DEFINE q == [p EXCEPT ![h] = "none"]
  <2>1. Arrive(p, h, half) = [act |-> "write", pending |-> q]
    BY <1>1, <1>2 DEF Arrive
  <2>2. Held(q) \subseteq Held(p)
    BY DEF Held
  <2>3. Cardinality(Held(q)) <= Cardinality(Held(p)) /\ Cardinality(Held(q)) \in Nat
    BY <1>1, <2>2, FS_Subset, HeightsFinite DEF Held
  <2>4. Arrive(p, h, half).pending = q
    BY <2>1
  <2> HIDE DEF q
  <2>5. Cardinality(Held(q)) <= Cap
    BY <1>1, <2>3
  <2> QED
    BY <2>4, <2>5
<1>3. CASE p[h] # OtherHalf(half) /\ p[h] = "none" /\ Full(p)
  <2>1. Arrive(p, h, half).pending = NothingPending
    BY <1>3 DEF Arrive
  <2>2. Held(NothingPending) = {}
    BY DEF Held, NothingPending
  <2>3. Cardinality(Held(NothingPending)) = 0
    BY <2>2, FS_EmptySet
  <2>4. 0 <= Cap
    BY <1>1
  <2> QED
    BY <2>1, <2>3, <2>4
<1>4. CASE p[h] # OtherHalf(half) /\ ~(p[h] = "none" /\ Full(p))
  <2> DEFINE q == [p EXCEPT ![h] = half]
  <2>1. Arrive(p, h, half) = [act |-> "buffered", pending |-> q]
    BY <1>4 DEF Arrive
  <2>2. Held(q) = Held(p) \cup {h}
    BY <1>1 DEF Held
  <2>3. Cardinality(Held(q)) = IF h \in Held(p) THEN Cardinality(Held(p)) ELSE Cardinality(Held(p)) + 1
    BY <1>1, <2>2, FS_AddElement
  <2>4. h \in Held(p) \/ Cardinality(Held(p)) < Cap
    BY <1>1, <1>4 DEF Held, Full
  <2>5. Arrive(p, h, half).pending = q
    BY <2>1
  <2> HIDE DEF q
  <2>6. Cardinality(Held(q)) <= Cap
    BY <1>1, <2>3, <2>4
  <2> QED
    BY <2>5, <2>6
<1> QED
  BY <1>2, <1>3, <1>4

\* The join buffer never holds more than join_buffer_cap entries: on_block and
\* on_logs flush it rather than grow it, whatever halves never meet.
THEOREM CBufferBounded == Spec => []BufferBounded
<1>1. Init => BufferBounded
  <2>1. Held(NothingPending) = {}
    BY DEF Held, NothingPending
  <2> QED
    BY <2>1, FS_EmptySet, JoinAssumption DEF Init, MemoryInit, BufferBounded
<1>2. IInv /\ BufferBounded /\ [Next]_vars => BufferBounded'
  <2> SUFFICES ASSUME IInv, BufferBounded, [Next]_vars PROVE BufferBounded'
    OBVIOUS
  <2>1. pending \in [Heights -> Pendings] /\ lh \in Heights
    BY DEF IInv, TypeOK
  <2>2. CASE BlockJoin \/ LogsJoin
    <3>1. \E half \in {"block", "logs"} : pending' = Arrive(pending, lh, half).pending
      BY <2>2 DEF BlockJoin, LogsJoin, on_block, on_logs
    <3> QED
      BY <2>1, <3>1, ArriveBounded DEF BufferBounded
  <2>3. CASE Crash
    <3>1. Held(NothingPending) = {}
      BY DEF Held, NothingPending
    <3> QED
      BY <2>3, <3>1, FS_EmptySet, JoinAssumption DEF Crash, MemoryLost, BufferBounded
  <2>4. CASE Grow \/ Boot \/ UNCHANGED vars
    <3>1. pending' = pending
      BY <2>4 DEF Grow, Boot, BootStart, BootFail, BootBlock, BootIndex, vars
    <3> QED
      BY <3>1 DEF BufferBounded
  <2>5. CASE Live /\ ~(BlockJoin \/ LogsJoin)
    <3>1. pending' = pending
      BY <2>5 DEF Live, NewHead, HeadSkipped, BlockPlain, LogsNone, LiveWrite, LiveWriteRefused,
                  LiveIndex, LivePutError
    <3> QED
      BY <3>1 DEF BufferBounded
  <2>6. CASE Backfill
    <3>1. pending' = pending
      BY <2>6 DEF Backfill, BackfillStart, ReadHighWater, ReadContiguous, TipCached, TipFetched,
                  TipFailed, WindowLoaded, WindowFailed, Fetch, FetchSkips, FetchBlock, FetchFails,
                  FetchOne, FillSkip, FillNone, FillBlock, FillIndex, FillPutError
    <3> QED
      BY <3>1 DEF BufferBounded
  <2> QED
    BY <2>2, <2>3, <2>4, <2>5, <2>6 DEF Next
<1> QED
  BY <1>1, <1>2, Invariance, PTL DEF Spec

\* What IndexGapBounded counts, and the puts in flight, one part per task.
Gap == (Stored \ idx) \ InFlightPuts

LivePuts == IF lpc \in {"index", "bootIndex"} THEN {lh} ELSE {}

FillPuts == IF bpc = "index" THEN {bnext} ELSE {}

\* A step leaves no block unindexed but by a fault, and then only the blocks of
\* the puts it cut short.
LEMMA GapStep ==
  ASSUME IInv, [Next]_vars
  PROVE  \/ Gap' \subseteq Gap /\ faults' = faults
         \/ Gap' \subseteq Gap \cup {lh, bnext} /\ faults' = faults + 1
<1> USE StorageAssumption
<1>1. StorageTypeOK /\ LiveTypes /\ FillTypes /\ FillShape /\ AboveMinimum
  BY TypesSplit DEF IInv
<1>2. InFlightPuts = LivePuts \cup FillPuts /\ InFlightPuts' = LivePuts' \cup FillPuts'
  BY DEF InFlightPuts, LivePuts, FillPuts
<1>3. CASE BootBlock \/ LiveWrite
  <2>1. /\ \E r \in Halves : PutBlock(lh, r)
        /\ idx' = idx /\ lh' = lh /\ faults' = faults /\ UNCHANGED fillVars
        /\ lpc' \in {"index", "bootIndex"} /\ lpc \notin {"index", "bootIndex"}
    BY <1>1, <1>3 DEF BootBlock, LiveWrite, LiveTypes, Halves, worldVars
  <2>2. Stored' = Stored \cup {lh}
    BY <1>1, <2>1, PutEffect DEF LiveTypes
  <2>3. LivePuts = {} /\ LivePuts' = {lh} /\ FillPuts' = FillPuts
    BY <2>1 DEF LivePuts, FillPuts, fillVars
  <2> QED
    BY <1>2, <2>1, <2>2, <2>3 DEF Gap
<1>4. CASE FillBlock
  <2>1. /\ PutBlock(bnext, FillHalf(bnext)) /\ idx' = idx /\ bnext' = bnext /\ faults' = faults
        /\ UNCHANGED liveVars /\ bpc = "fetch" /\ bpc' = "index"
    BY <1>4 DEF FillBlock, Ready, worldVars
  <2>2. bnext \in Heights
    BY <1>1, <2>1 DEF FillTypes, FillShape, Heights
  <2>3. FillHalf(bnext) \in Halves
    BY CChainAssumption DEF FillHalf, LogsAt, Halves
  <2>4. Stored' = Stored \cup {bnext}
    BY <1>1, <2>1, <2>2, <2>3, PutEffect
  <2>5. LivePuts' = LivePuts /\ FillPuts = {} /\ FillPuts' = {bnext}
    BY <2>1 DEF LivePuts, FillPuts, liveVars
  <2> QED
    BY <1>2, <2>1, <2>4, <2>5 DEF Gap
<1>5. CASE BootIndex \/ LiveIndex
  <2>1. /\ rec' = rec /\ idx' = idx \cup {lh} /\ faults' = faults /\ UNCHANGED fillVars
        /\ lpc' \notin {"index", "bootIndex"} /\ lpc \in {"index", "bootIndex"}
    BY <1>5 DEF BootIndex, LiveIndex, PutIndex, worldVars
  <2>2. Stored' = Stored /\ LivePuts = {lh} /\ LivePuts' = {} /\ FillPuts' = FillPuts
    BY <2>1 DEF Stored, LivePuts, FillPuts, fillVars
  <2> QED
    BY <1>2, <2>1, <2>2 DEF Gap
<1>6. CASE FillIndex
  <2>1. /\ rec' = rec /\ idx' = idx \cup {bnext} /\ faults' = faults /\ UNCHANGED liveVars
        /\ bpc' # "index" /\ bpc = "index"
    BY <1>6 DEF FillIndex, PutIndex, NextOfRun, Remeasure, worldVars
  <2>2. Stored' = Stored /\ FillPuts = {bnext} /\ FillPuts' = {} /\ LivePuts' = LivePuts
    BY <2>1 DEF Stored, LivePuts, FillPuts, liveVars
  <2> QED
    BY <1>2, <2>1, <2>2 DEF Gap
<1>7. CASE Crash \/ LivePutError \/ FillPutError
  <2>1. rec' = rec /\ idx' = idx /\ faults' = faults + 1
    BY <1>7 DEF Crash, LivePutError, FillPutError, storageVars
  <2>2. Stored' = Stored /\ LivePuts \subseteq {lh} /\ FillPuts \subseteq {bnext}
    BY <2>1 DEF Stored, LivePuts, FillPuts
  <2> QED
    BY <1>2, <2>1, <2>2 DEF Gap
<1>8. ASSUME rec' = rec, idx' = idx, faults' = faults, LivePuts' = LivePuts, FillPuts' = FillPuts
      PROVE  Gap' \subseteq Gap /\ faults' = faults
  BY <1>2, <1>8 DEF Gap, Stored
<1>9. CASE Grow \/ UNCHANGED vars
  BY <1>8, <1>9 DEF Grow, vars, storageVars, worldVars, LivePuts, FillPuts, liveVars, fillVars
<1>10. CASE BootStart \/ BootFail
  BY <1>8, <1>10 DEF BootStart, BootFail, storageVars, worldVars, LivePuts, FillPuts, fillVars
<1>11. CASE NewHead \/ HeadSkipped \/ BlockPlain \/ BlockJoin \/ LogsNone \/ LogsJoin \/ LiveWriteRefused
  <2>1. /\ rec' = rec /\ idx' = idx /\ faults' = faults /\ UNCHANGED fillVars
        /\ lpc \notin {"index", "bootIndex"} /\ lpc' \notin {"index", "bootIndex"}
    BY <1>11 DEF NewHead, HeadSkipped, BlockPlain, BlockJoin, LogsNone, LogsJoin, LiveWriteRefused,
                 storageVars, worldVars
  <2> QED
    BY <1>8, <2>1 DEF LivePuts, FillPuts, fillVars
<1>12. CASE Backfill /\ ~(FillBlock \/ FillIndex \/ FillPutError)
  <2>1. /\ rec' = rec /\ idx' = idx /\ faults' = faults /\ UNCHANGED liveVars
        /\ bpc # "index" /\ bpc' # "index"
    <3>1. CASE BackfillStart \/ ReadHighWater \/ ReadContiguous \/ WindowLoaded \/ WindowFailed
      BY <3>1 DEF BackfillStart, ReadHighWater, ReadContiguous, WindowLoaded, WindowFailed, Remeasure,
                  storageVars, worldVars
    <3>2. CASE TipCached \/ TipFetched \/ TipFailed
      <4>1. \A t : Plan(t) => bpc' # "index"
        BY DEF Plan, Remeasure
      <4> QED
        BY <3>2, <4>1 DEF TipCached, TipFetched, TipFailed, storageVars, worldVars
    <3>3. CASE Fetch
      BY <3>3 DEF Fetch, FetchSkips, FetchBlock, FetchFails, FetchOne, storageVars, worldVars
    <3>4. CASE FillSkip \/ FillNone
      BY <3>4 DEF FillSkip, FillNone, Ready, NextOfRun, Remeasure, storageVars, worldVars
    <3> QED
      BY <1>12, <3>1, <3>2, <3>3, <3>4 DEF Backfill
  <2> QED
    BY <1>8, <2>1 DEF LivePuts, FillPuts, liveVars
<1> QED
  BY <1>3, <1>4, <1>5, <1>6, <1>7, <1>9, <1>10, <1>11, <1>12 DEF Next, Boot, Live

\* Each fault leaves at most one block per writer stored and unindexed, and
\* nothing else ever does: the blocks that a lookup by hash misses for good are
\* counted by the crashes and I/O errors of put.
THEOREM CIndexGapBounded == Spec => []IndexGapBounded
<1>1. Init => IndexGapBounded
  <2> SUFFICES ASSUME Init PROVE IndexGapBounded
    OBVIOUS
  <2>1. Stored = {} /\ faults = 0
    BY DEF Init, StorageInit, Stored
  <2>2. (Stored \ idx) \ InFlightPuts = {}
    BY <2>1
  <2> QED
    BY <2>1, <2>2, FS_EmptySet DEF IndexGapBounded
<1>2. IInv /\ IndexGapBounded /\ [Next]_vars => IndexGapBounded'
  <2> SUFFICES ASSUME IInv, IndexGapBounded, [Next]_vars PROVE IndexGapBounded'
    OBVIOUS
  <2>1. /\ IsFiniteSet(Gap) /\ Cardinality(Gap) \in Nat
        /\ faults \in Nat /\ Cardinality(Gap) <= 2 * faults
    <3>1. Gap \in SUBSET Heights
      BY DEF Gap, Stored
    <3>2. IsFiniteSet(Gap) /\ Cardinality(Gap) \in Nat
      BY <3>1, HeightsFinite
    <3>3. faults \in Nat
      BY CChainAssumption DEF IInv, TypeOK
    <3>4. Cardinality(Gap) <= 2 * faults
      BY DEF IndexGapBounded, Gap
    <3> QED
      BY <3>2, <3>3, <3>4
  <2>2. Gap' \in SUBSET Heights
    BY DEF Gap, Stored
  <2>3. Cardinality(Gap') \in Nat
    BY <2>2, HeightsFinite
  <2> SUFFICES Cardinality(Gap') <= 2 * faults'
    BY DEF IndexGapBounded, Gap
  <2>4. CASE Gap' \subseteq Gap /\ faults' = faults
    BY <2>1, <2>3, <2>4, FS_Subset
  <2>5. CASE Gap' \subseteq Gap \cup {lh, bnext} /\ faults' = faults + 1
    <3> DEFINE One == Gap \cup {lh}
               Two == One \cup {bnext}
    <3>1. IsFiniteSet(One) /\ Cardinality(One) <= Cardinality(Gap) + 1 /\ Cardinality(One) \in Nat
      BY <2>1, FS_AddElement, FS_CardinalityType
    <3>2. IsFiniteSet(Two) /\ Cardinality(Two) <= Cardinality(One) + 1 /\ Cardinality(Two) \in Nat
      <4> HIDE DEF One
      <4>1. IsFiniteSet(Two)
            /\ Cardinality(Two) = IF bnext \in One THEN Cardinality(One) ELSE Cardinality(One) + 1
        BY <3>1, FS_AddElement
      <4> HIDE DEF Two
      <4> QED
        BY <3>1, <4>1
    <3>3. Gap' \subseteq Two
      BY <2>5
    <3> HIDE DEF One, Two
    <3>4. Cardinality(Gap') <= Cardinality(Two)
      BY <3>2, <3>3, FS_Subset
    <3> QED
      BY <2>1, <2>3, <2>5, <3>1, <3>2, <3>4
  <2> QED
    BY <2>4, <2>5, GapStep
<1> QED
  BY <1>1, <1>2, Invariance, PTL DEF Spec

------------------------------------------------------------------------------
(* Backfill leaves no hole behind it. *)

\* Every height from the floor to h is stored.
Reached(h) == \A k \in Heights : MaxOf(minH, Floor) <= k /\ k <= h => rec[k] # Absent

\* What backfill has measured, and what its run has passed, is stored up to
\* there, and a height it skips is a stored one.
NoHoleBehind ==
  /\ bpc = "tip" => Reached(bcont)
  /\ bpc \in {"window", "fetch", "index"} => Reached(bnext - 1)
  /\ bpc \in {"fetch", "index"} =>
       \A i \in DOMAIN ahead : ahead[i] = "skip" => bnext + i - 1 \in Stored

SolidInv ==
  /\ ~opened => minH = 0
  /\ AnchorHeld
  /\ bpc \notin {"fetch", "index"} => ahead = <<>>
  /\ NoHoleBehind

\* A measurement of the frontier is one of stored heights.
LEMMA MeasuredIsReached ==
  ASSUME IInv, AnchorHeld, FloorAboveZero, opened \/ floorSet
  PROVE  Reached(MaxOf(max_contiguous_height, Pred(Floor)))
<1> USE StorageAssumption DEF Heights
<1>1. StorageTypeOK /\ AboveMinimum /\ floorSet \in BOOLEAN
  BY DEF IInv, TypeOK
<1>2. floorSet => Floor > 0 /\ Floor \in Heights
  BY <1>1 DEF AboveMinimum, FloorAboveZero, Floor
<1>3. ~floorSet => Floor = 0
  BY DEF Floor
<1>4. CASE ~opened
  <2>1. Floor > 0 /\ Floor \in Heights /\ minH \in Heights
    BY <1>1, <1>2, <1>4 DEF StorageTypeOK
  <2>2. MaxOf(max_contiguous_height, Pred(Floor)) = Floor - 1
    BY <1>4, <2>1 DEF max_contiguous_height, Pred, MaxOf
  <2>3. \A k \in Heights : ~(MaxOf(minH, Floor) <= k /\ k <= Floor - 1)
    BY <2>1 DEF MaxOf
  <2> QED
    BY <2>2, <2>3 DEF Reached
<1>5. CASE opened
  <2>1. minH \in Heights /\ Stored \in SUBSET Heights
    BY <1>1 DEF StorageTypeOK, Stored
  <2>2. /\ FirstGap(minH, Stored) \in minH..(MaxHeight + 1)
        /\ IsFirstGap(minH, Stored, FirstGap(minH, Stored))
    BY <2>1, FirstGapIsFirstGap
  <2> DEFINE g == FirstGap(minH, Stored)
  <2>3. /\ g \in minH..(MaxHeight + 1) /\ g \notin Stored
        /\ \A k \in Heights : minH <= k /\ k < g => k \in Stored
    BY <2>1, <2>2 DEF IsFirstGap
  <2>4. max_contiguous_height = Pred(g)
    BY <1>5 DEF max_contiguous_height
  <2> HIDE DEF g
  <2>5. g > 0 /\ (minH = 0 => 0 \in Stored)
    BY <1>5, <2>1, <2>3 DEF AnchorHeld
  <2>6. max_contiguous_height = g - 1
    BY <2>3, <2>4, <2>5, <2>1 DEF Pred
  <2>7. ASSUME NEW k \in Heights, minH <= k, Floor <= k,
               k <= max_contiguous_height \/ k <= Pred(Floor)
        PROVE  k \in Stored
    <3>1. CASE k <= max_contiguous_height
      BY <2>1, <2>3, <2>6, <2>7, <3>1
    <3>2. CASE k <= Pred(Floor)
      BY <1>2, <1>3, <2>1, <2>5, <2>7, <3>2 DEF Pred
    <3> QED
      BY <2>7, <3>1, <3>2
  <2>8. max_contiguous_height \in Int /\ Pred(Floor) \in Int /\ Floor \in Int
    BY <1>2, <1>3, <2>1, <2>3, <2>6 DEF Pred
  <2>9. ASSUME NEW k \in Heights, MaxOf(minH, Floor) <= k, k <= MaxOf(max_contiguous_height, Pred(Floor))
        PROVE  rec[k] # Absent
    <3>1. minH <= k /\ Floor <= k /\ (k <= max_contiguous_height \/ k <= Pred(Floor))
      BY <2>1, <2>8, <2>9 DEF MaxOf
    <3> QED
      BY <2>7, <3>1 DEF Stored
  <2> QED
    BY <2>9 DEF Reached
<1> QED
  BY <1>4, <1>5

\* What is reached stays reached, also when the store is created after it was
\* measured.
LEMMA ReachedKept ==
  ASSUME IInv, [Next]_vars, floorSet' = floorSet, ~opened => minH = 0, NEW h \in Int, Reached(h)
  PROVE  /\ \A k \in Heights : MaxOf(minH', Floor') <= k /\ k <= h => rec'[k] # Absent
         /\ Stored \subseteq Stored'
<1> USE StorageAssumption DEF Heights
<1>1. StorageTypeOK /\ AboveMinimum /\ floorSet \in BOOLEAN
  BY DEF IInv, TypeOK
<1>2. Floor' = Floor /\ Floor \in Heights
  BY <1>1 DEF Floor
<1>3. CASE UNCHANGED <<opened, minH, rec>>
  BY <1>2, <1>3 DEF Reached, Stored
<1>4. CASE idx' = idx /\ \E k \in Heights, r \in Halves : PutBlock(k, r)
  <2>1. PICK n \in Heights, r \in Halves : PutBlock(n, r)
    BY <1>4
  <2>2. /\ StorageTypeOK' /\ (opened => minH' = minH)
        /\ \A k \in Heights : rec[k] # Absent => rec'[k] # Absent
    <3>1. idx' = idx
      BY <1>4
    <3> QED
      BY <1>1, <2>1, <3>1, PutEffect, Zenon
  <2>3. CASE opened
    BY <1>2, <2>2, <2>3 DEF Reached, Stored
  <2>4. CASE ~opened
    <3>1. minH = 0 /\ \A k \in Heights : rec[k] = Absent
      BY <1>1, <2>4 DEF AboveMinimum, Stored
    <3>2. \A k \in Heights : ~(Floor <= k /\ k <= h)
      BY <1>2, <3>1 DEF Reached, MaxOf
    <3>3. minH' \in Heights
      BY <2>2 DEF StorageTypeOK
    <3>4. Floor' <= MaxOf(minH', Floor') /\ MaxOf(minH', Floor') \in Heights
      BY <1>2, <3>3 DEF MaxOf
    <3>5. \A k \in Heights : ~(MaxOf(minH', Floor') <= k /\ k <= h)
      BY <1>2, <3>2, <3>4
    <3>6. Stored \subseteq Stored'
      BY <3>1 DEF Stored
    <3> QED
      BY <3>5, <3>6
  <2> QED
    BY <2>2, <2>3, <2>4
<1> QED
  BY <1>3, <1>4, StoreSteps

\* A task that leaves backfill's variables alone leaves no hole behind it either.
LEMMA OthersLeaveNoHole ==
  ASSUME IInv, SolidInv, [Next]_vars, floorSet' = floorSet,
         UNCHANGED <<bpc, bcont, bnext, ahead>>
  PROVE  NoHoleBehind'
<1> USE StorageAssumption DEF Heights
<1>1. bcont \in Heights /\ bnext \in 0..(MaxHeight + 1) /\ bnext - 1 \in Int
  BY DEF IInv, TypeOK
<1>2. ASSUME bpc = "tip" PROVE Reached(bcont)'
  <2>1. (~opened => minH = 0) /\ Reached(bcont) /\ bcont \in Int
    BY <1>1, <1>2 DEF SolidInv, NoHoleBehind
  <2>2. \A k \in Heights : MaxOf(minH', Floor') <= k /\ k <= bcont => rec'[k] # Absent
    BY <2>1, ReachedKept
  <2> QED
    BY <2>2 DEF Reached
<1>3. ASSUME bpc \in {"window", "fetch", "index"}
      PROVE  Reached(bnext - 1)' /\ Stored \subseteq Stored'
  <2>1. (~opened => minH = 0) /\ Reached(bnext - 1)
    BY <1>3 DEF SolidInv, NoHoleBehind
  <2>2. /\ \A k \in Heights : MaxOf(minH', Floor') <= k /\ k <= bnext - 1 => rec'[k] # Absent
        /\ Stored \subseteq Stored'
    BY <1>1, <2>1, ReachedKept
  <2> QED
    BY <2>2 DEF Reached
<1>4. bpc \in {"fetch", "index"} => Stored \subseteq Stored'
  BY <1>3
<1>5. ASSUME bpc \in {"fetch", "index"}, NEW i \in DOMAIN ahead, ahead[i] = "skip"
      PROVE  bnext + i - 1 \in Stored'
  BY <1>4, <1>5 DEF SolidInv, NoHoleBehind
<1> QED
  BY <1>2, <1>3, <1>5 DEF NoHoleBehind

\* Going on to the next height of a run, the one just passed being stored.
LEMMA NextOfRunLeavesNoHole ==
  ASSUME IInv, SolidInv, NextOfRun, bpc \in {"fetch", "index"}, ahead # <<>>, bnext \in Stored,
         UNCHANGED <<opened, minH, rec, floorSet>>
  PROVE  NoHoleBehind' /\ (bpc' \notin {"fetch", "index"} => ahead' = <<>>)
<1> USE StorageAssumption DEF Heights
<1>1. CASE bnext >= bend
  BY <1>1 DEF NextOfRun, Remeasure, NoHoleBehind
<1>2. CASE ~(bnext >= bend)
  <2>1. bpc' = "fetch" /\ bnext' = bnext + 1 /\ ahead' = Tail(ahead)
    BY <1>2 DEF NextOfRun
  <2>2. ahead \in Seq(Results) /\ bnext \in 0..(MaxHeight + 1)
    BY DEF IInv, TypeOK
  <2>3. Stored' = Stored /\ Floor' = Floor
    BY DEF Stored, Floor
  <2>4. Reached(bnext)
    <3>1. Reached(bnext - 1) /\ rec[bnext] # Absent
      BY DEF SolidInv, NoHoleBehind, Stored
    <3>2. \A k \in Heights : k <= bnext => k <= bnext - 1 \/ k = bnext
      BY <2>2
    <3> QED
      BY <3>1, <3>2 DEF Reached
  <2>5. Reached(bnext - 1)'
    <3>1. bnext' - 1 = bnext
      BY <2>1, <2>2
    <3> QED
      BY <2>3, <2>4, <3>1 DEF Reached
  <2>6. ASSUME NEW i \in DOMAIN ahead', ahead'[i] = "skip"
        PROVE  bnext' + i - 1 \in Stored'
    <3>1. i + 1 \in DOMAIN ahead /\ ahead[i + 1] = "skip" /\ i \in Nat
      BY <2>1, <2>2, <2>6
    <3>2. bnext + (i + 1) - 1 \in Stored
      BY <3>1 DEF SolidInv, NoHoleBehind
    <3>3. bnext + (i + 1) - 1 = bnext' + i - 1
      BY <2>1, <2>2, <3>1
    <3> QED
      BY <2>3, <3>2, <3>3
  <2> QED
    BY <2>1, <2>5, <2>6 DEF NoHoleBehind
<1> QED
  BY <1>1, <1>2

\* The decision on a tip either starts a run right above what was measured or
\* starts over.
LEMMA PlanLeavesNoHole ==
  ASSUME IInv, SolidInv, NEW t, Plan(t), bpc = "tip", UNCHANGED <<opened, minH, rec, floorSet>>
  PROVE  NoHoleBehind' /\ (bpc' \notin {"fetch", "index"} => ahead' = <<>>)
<1> USE StorageAssumption DEF Heights
<1>1. CASE Remeasure
  BY <1>1 DEF Remeasure, NoHoleBehind
<1>2. CASE ~Remeasure
  <2>1. bnext' = bcont + 1 /\ bpc' \in {"window", "fetch"} /\ ahead' = ahead
    BY <1>2 DEF Plan
  <2>2. ahead' = <<>> /\ Reached(bcont) /\ bcont \in Heights
    BY <2>1 DEF SolidInv, NoHoleBehind, IInv, TypeOK
  <2>3. Reached(bnext - 1)'
    <3>1. bnext' - 1 = bcont /\ Floor' = Floor
      BY <2>1, <2>2 DEF Floor
    <3> QED
      BY <2>2, <3>1 DEF Reached
  <2> QED
    BY <2>1, <2>2, <2>3 DEF NoHoleBehind
<1> QED
  BY <1>1, <1>2

\* The invariant holds before the first step ...
LEMMA SolidInit == Init => SolidInv
BY DEF Init, StorageInit, MemoryInit, SolidInv, AnchorHeld, NoHoleBehind

\* ... and is kept by all of them: only backfill moves its own position.
LEMMA SolidNext ==
  ASSUME IInv, SolidInv, [Next]_vars, FloorAboveZero
  PROVE  SolidInv'
<1> USE StorageAssumption
<1>1. AnchorHeld'
  BY AnchorKept DEF SolidInv
<1>2. ~opened' => minH' = 0
  <2>1. CASE UNCHANGED <<opened, minH, rec>>
    BY <2>1 DEF SolidInv
  <2>2. ASSUME NEW h, NEW r, PutBlock(h, r) PROVE opened'
    BY <2>2 DEF PutBlock
  <2> QED
    BY <2>1, <2>2, StoreSteps
<1>3. NoHoleBehind' /\ (bpc' \notin {"fetch", "index"} => ahead' = <<>>)
  <2>1. CASE Crash
    BY <2>1 DEF Crash, MemoryLost, NoHoleBehind
  <2>2. CASE Grow \/ Boot \/ Live \/ UNCHANGED vars
    <3>1. UNCHANGED <<bpc, bcont, bnext, ahead, floorSet>>
      <4>1. CASE Grow \/ Boot \/ UNCHANGED vars
        BY <4>1 DEF Grow, Boot, BootStart, BootFail, BootBlock, BootIndex, vars, fillVars, worldVars
      <4>2. CASE Live
        <5>1. CASE NewHead \/ HeadSkipped \/ BlockPlain \/ BlockJoin \/ LogsNone \/ LogsJoin
          BY <5>1 DEF NewHead, HeadSkipped, BlockPlain, BlockJoin, LogsNone, LogsJoin, fillVars,
             worldVars
        <5>2. CASE LiveWrite \/ LiveWriteRefused \/ LiveIndex \/ LivePutError
          BY <5>2 DEF LiveWrite, LiveWriteRefused, LiveIndex, LivePutError, fillVars, worldVars
        <5> QED
          BY <4>2, <5>1, <5>2 DEF Live
      <4> QED
        BY <2>2, <4>1, <4>2
    <3> QED
      BY <3>1, OthersLeaveNoHole DEF SolidInv
  <2>3. CASE BackfillStart \/ ReadHighWater
    BY <2>3 DEF BackfillStart, ReadHighWater, SolidInv, NoHoleBehind
  <2>4. CASE ReadContiguous
    <3>1. /\ bpc = "contig" /\ bpc' = "tip" /\ bcont' = MaxOf(max_contiguous_height, Pred(Floor))
          /\ UNCHANGED <<opened, minH, rec, floorSet, ahead>>
      BY <2>4 DEF ReadContiguous, storageVars, worldVars
    <3>2. Reached(bcont')
      BY <3>1, MeasuredIsReached DEF SolidInv, IInv, AboveMinimum
    <3>3. Reached(bcont)'
      BY <3>1, <3>2 DEF Reached, Floor
    <3> QED
      BY <3>1, <3>3 DEF NoHoleBehind, SolidInv
  <2>5. CASE TipCached \/ TipFetched \/ TipFailed
    <3>1. bpc = "tip" /\ UNCHANGED <<opened, minH, rec, floorSet>> /\ \E t : Plan(t)
      BY <2>5 DEF TipCached, TipFetched, TipFailed, storageVars, worldVars
    <3> QED
      BY <3>1, PlanLeavesNoHole
  <2>6. CASE WindowLoaded
    <3>1. /\ bpc = "window" /\ bpc' = "fetch"
          /\ UNCHANGED <<opened, minH, rec, floorSet, bnext, ahead>>
      BY <2>6 DEF WindowLoaded, storageVars, worldVars
    <3>2. Reached(bnext - 1)' /\ ahead' = <<>>
      BY <3>1 DEF SolidInv, NoHoleBehind, Reached, Floor
    <3> QED
      BY <3>1, <3>2 DEF NoHoleBehind
  <2>7. CASE WindowFailed \/ FillNone \/ FillPutError
    BY <2>7 DEF WindowFailed, FillNone, FillPutError, Remeasure, NoHoleBehind
  <2>8. CASE Fetch
    <3>1. PICK h \in Heights, result \in Results :
            FetchOne(h, result) /\ (result = "skip" => rec[h] # Absent)
      BY <2>8 DEF Fetch, FetchSkips, FetchBlock, FetchFails, Results
    <3>2. /\ bpc = "fetch" /\ h = bnext + Len(ahead) /\ ahead' = Append(ahead, result)
          /\ UNCHANGED <<opened, minH, rec, floorSet, bpc, bnext>>
      BY <3>1 DEF FetchOne, storageVars, worldVars
    <3>3. ahead \in Seq(Results) /\ bnext \in 0..(MaxHeight + 1)
      BY DEF IInv, TypeOK
    <3>4. Reached(bnext - 1)' /\ Stored' = Stored
      BY <3>2 DEF SolidInv, NoHoleBehind, Reached, Floor, Stored
    <3>5. ASSUME NEW i \in DOMAIN ahead', ahead'[i] = "skip" PROVE bnext' + i - 1 \in Stored'
      <4>2. CASE i \in DOMAIN ahead
        <5>0. i \in 1..Len(ahead)
          BY <3>3, <4>2
        <5>1. Append(ahead, result)[i] = ahead[i]
          BY <3>3, <5>0
        <5>2. bnext + i - 1 \in Stored
          BY <3>2, <3>5, <4>2, <5>1 DEF SolidInv, NoHoleBehind
        <5> QED
          BY <3>2, <3>4, <5>2
      <4>3. CASE i \notin DOMAIN ahead
        <5>1. i = Len(ahead) + 1 /\ Len(ahead) \in Nat
          BY <3>2, <3>3, <3>5, <4>3
        <5>2. ahead'[i] = result
          BY <3>2, <3>3, <5>1
        <5>3. h \in Stored
          BY <3>1, <3>5, <5>2 DEF Stored
        <5>4. bnext' + i - 1 = h
          BY <3>2, <3>3, <5>1
        <5> QED
          BY <3>4, <5>3, <5>4
      <4> QED
        BY <4>2, <4>3
    <3> QED
      BY <3>2, <3>4, <3>5 DEF NoHoleBehind
  <2>9. CASE FillSkip
    <3>1. /\ bpc = "fetch" /\ ahead # <<>> /\ Head(ahead) = "skip" /\ NextOfRun
          /\ UNCHANGED <<opened, minH, rec, floorSet>>
      BY <2>9 DEF FillSkip, Ready, storageVars, worldVars
    <3>2. ahead \in Seq(Results) /\ bnext \in 0..(MaxHeight + 1)
      BY DEF IInv, TypeOK
    <3>3. 1 \in DOMAIN ahead /\ ahead[1] = "skip"
      BY <3>1, <3>2
    <3>4. bnext + 1 - 1 \in Stored
      BY <3>1, <3>3 DEF SolidInv, NoHoleBehind
    <3>5. bnext + 1 - 1 = bnext
      BY <3>2
    <3> QED
      BY <3>1, <3>4, <3>5, NextOfRunLeavesNoHole
  <2>10. CASE FillBlock
    <3>1. /\ bpc = "fetch" /\ bpc' = "index" /\ UNCHANGED <<bnext, ahead, floorSet>>
      BY <2>10 DEF FillBlock, Ready, worldVars
    <3>2. Reached(bnext - 1) /\ (~opened => minH = 0)
      BY <3>1 DEF SolidInv, NoHoleBehind
    <3>5. bnext - 1 \in Int
      BY DEF IInv, TypeOK
    <3>3. /\ \A k \in Heights : MaxOf(minH', Floor') <= k /\ k <= bnext - 1 => rec'[k] # Absent
          /\ Stored \subseteq Stored'
      BY <3>1, <3>2, <3>5, ReachedKept
    <3>4. Reached(bnext - 1)'
      BY <3>1, <3>3 DEF Reached
    <3> QED
      BY <3>1, <3>3, <3>4 DEF SolidInv, NoHoleBehind
  <2>11. CASE FillIndex
    <3>1. /\ bpc = "index" /\ NextOfRun /\ UNCHANGED <<opened, minH, rec, floorSet>>
      BY <2>11 DEF FillIndex, worldVars
    <3>3. bnext \in Heights
      <4>1. bnext <= bend /\ bend <= btarget
        BY <3>1 DEF IInv, FillShape
      <4>2. bnext \in 0..(MaxHeight + 1) /\ bend \in Heights /\ btarget \in Heights
        BY DEF IInv, TypeOK
      <4> QED
        BY <4>1, <4>2, StorageAssumption DEF Heights
    <3>2. ahead # <<>> /\ bnext \in Stored
      BY <3>1, <3>3 DEF IInv, FillShape, Stored
    <3> QED
      BY <3>1, <3>2, NextOfRunLeavesNoHole
  <2> QED
    BY <2>1, <2>2, <2>3, <2>4, <2>5, <2>6, <2>7, <2>8, <2>9, <2>10, <2>11 DEF Next, Backfill
<1> QED
  BY <1>1, <1>2, <1>3 DEF SolidInv

\* Backfill passes a height only once it is stored - fetched, or skipped because
\* the live task stored it - whatever fails, so each of its runs leaves every
\* height from the floor up to where it stands filled, and the next measurement
\* finds them (fill_range's early returns, backfill_loop's re-measuring).
THEOREM CNoHoleBehind ==
  ASSUME FloorAboveZero
  PROVE  Spec => []NoHoleBehind
<1>1. IInv /\ SolidInv /\ [Next]_vars => SolidInv'
  BY SolidNext
<1>2. SolidInv => NoHoleBehind
  BY DEF SolidInv
<1> QED
  BY <1>1, <1>2, SolidInit, Invariance, PTL DEF Spec

\* Backfill declares itself caught up only when no height from the floor to the
\* tip is missing, for every chain, window and concurrency, although the live
\* task stores heights between its reads (backfill_loop's `known`).
THEOREM CCaughtUpIsComplete ==
  ASSUME FloorAboveZero
  PROVE  Spec => CaughtUpIsComplete
<1> USE StorageAssumption DEF Heights
<1> DEFINE Complete ==
             (bpc = "tip" /\ bpc' = "hw")
               => LET known == IF "tip" \in Failing THEN tipHeight' ELSE tip
                  IN \A h \in Heights : MaxOf(minH, Floor) <= h /\ h <= known => rec[h] # Absent
<1>1. ASSUME IInv, NoHoleBehind, [Next]_vars PROVE Complete
  <2> SUFFICES ASSUME bpc = "tip", bpc' = "hw", NEW h \in Heights, MaxOf(minH, Floor) <= h,
                      h <= (IF "tip" \in Failing THEN tipHeight' ELSE tip)
               PROVE  rec[h] # Absent
    OBVIOUS
  <2>1. bcont \in Heights /\ bhw \in Heights /\ tip \in Heights /\ tipHeight \in Heights
    BY <1>1 DEF IInv, TypeOK
  <2>2. Reached(bcont)
    BY <1>1 DEF NoHoleBehind
  <2>3. ASSUME NEW t \in Heights, Plan(t) PROVE t <= bcont /\ bhw <= bcont
    <3>1. bcont >= MaxOf(bhw, t)
      BY <2>3 DEF Plan
    <3> QED
      BY <2>1, <3>1 DEF MaxOf
  <2>4. TipCached \/ TipFetched \/ TipFailed
    <3>1. CASE Grow \/ Crash \/ Boot \/ Live \/ UNCHANGED vars
      BY <3>1 DEF Grow, Crash, MemoryLost, Boot, BootStart, BootFail, BootBlock, BootIndex, Live,
         NewHead, HeadSkipped, BlockPlain, BlockJoin, LogsNone, LogsJoin, LiveWrite,
         LiveWriteRefused, LiveIndex, LivePutError, vars, fillVars
    <3>2. CASE Backfill
      BY <3>2 DEF Backfill, BackfillStart, ReadHighWater, ReadContiguous, WindowLoaded, WindowFailed,
         Fetch, FetchSkips, FetchBlock, FetchFails, FetchOne, FillSkip, FillNone, FillBlock,
         FillIndex, FillPutError, Ready
    <3> QED
      BY <1>1, <3>1, <3>2 DEF Next
  <2>5. h <= bcont
    <3>1. CASE TipCached
      <4>1. bcont < MaxOf(bhw, tipHeight) /\ Plan(tipHeight)
        BY <3>1 DEF TipCached, CachedTipServes
      <4> QED
        BY <2>1, <2>3, <4>1 DEF MaxOf
    <3>2. CASE TipFetched
      <4>1. tipHeight' = tip /\ Plan(tip)
        BY <3>2 DEF TipFetched
      <4> QED
        BY <2>1, <2>3, <4>1
    <3>3. CASE TipFailed
      <4>1. "tip" \in Failing /\ tipHeight' = tipHeight /\ Plan(tipHeight)
        BY <3>3 DEF TipFailed
      <4> QED
        BY <2>1, <2>3, <4>1
    <3> QED
      BY <2>4, <3>1, <3>2, <3>3
  <2> QED
    BY <2>2, <2>5 DEF Reached
<1>2. IInv /\ NoHoleBehind /\ [Next]_vars => Complete
  BY <1>1
<1>3. Spec => [][Complete]_vars
  BY <1>2, CNoHoleBehind, Invariance, PTL DEF Spec
<1> QED
  BY <1>3 DEF CaughtUpIsComplete

==============================================================================
