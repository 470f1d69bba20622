---------------------------- MODULE EthReadsProofs ----------------------------
(***************************************************************************)
(* Proofs about the eth_* reads, for every request, chain, chunk and range *)
(* limit, and every interleaving with the pipeline.                        *)
(***************************************************************************)
EXTENDS EthReads, CChainProofs

\* The reads of each kind of request, and what they leave in the handler.
Shape ==
  /\ from \in Heights /\ to \in Heights /\ next \in Heights /\ got \in SUBSET Heights
  /\ rpc = "idle" => ask.kind = "none" /\ ~inside
  /\ rpc # "idle" => /\ ask.kind \in {"number", "hash", "tx", "logsHash", "logs"}
                     /\ ask.a \in Tags /\ ask.b \in Tags
                     /\ ask.kind \in {"hash", "tx", "logsHash"} => ask.a \in Heights
  /\ rpc # "done" => ans = "none"
  /\ rpc = "tagFrom" => ask.kind \in {"number", "logs"}
  /\ rpc \in {"tagTo", "min", "contig"} => ask.kind = "logs"
  /\ rpc = "index" => ask.kind \in {"hash", "tx", "logsHash"}
  /\ rpc = "store" => ask.kind \in {"number", "hash", "tx"}
  /\ rpc = "buffer" => ask.kind = "number" /\ ask.a # Latest
  /\ rpc = "range" => ask.kind \in {"logs", "logsHash"} /\ from <= next /\ next <= to
  /\ rpc \in {"min", "contig"} => from <= to
  /\ rpc # "done" /\ ask.kind \in {"logs", "logsHash"} => IngestLogs

\* A height that was looked up is a stored block's.
Known ==
  /\ rpc = "store" /\ (ask.kind # "number" \/ ask.a = Latest) => from \in Stored
  /\ rpc = "range" /\ ask.kind = "logsHash" => from \in Stored /\ to = from
  /\ LatestServed
  /\ IndexedServed

\* The logs gathered are those of the heights read.
Gathered ==
  /\ rpc \notin {"range", "done"} => got = {}
  /\ rpc = "range" => got = (from..(next - 1)) \cap HasData
  /\ LogsAnswerComplete

\* A range inside the gapless one stays inside it from read to read.
StaysInside ==
  /\ AnchorHeld
  /\ inside => /\ ask.kind = "logs" /\ opened
               /\ ask.a \in Heights /\ ask.b \in Heights
               /\ minH <= ask.a /\ ask.a <= ask.b /\ ask.b <= max_contiguous_height
               /\ ask.b - ask.a < MAX_GETLOGS_RANGE
               /\ rpc \in {"tagTo", "min", "contig", "range"} => from = ask.a
               /\ rpc \in {"min", "contig", "range"} => to = ask.b
               /\ rpc = "contig" => rmin = minH
  /\ GaplessRangeAnswered

EInv ==
  /\ IInv
  /\ Shape
  /\ Known
  /\ ~Mirror => Gathered
  /\ FloorAboveZero => StaysInside

------------------------------------------------------------------------------
\* The invariant holds before the first request.
LEMMA ReadsInitEInv == ReadsInit => EInv
<1> SUFFICES ASSUME ReadsInit PROVE EInv
  OBVIOUS
<1>1. IInv
  BY InitIInv DEF ReadsInit
<1>2. /\ rpc = "idle" /\ ask = NoAsk /\ from = 0 /\ to = 0 /\ next = 0 /\ got = {} /\ ans = "none"
      /\ 0 \in Heights
  BY StorageAssumption DEF ReadsInit, Heights
<1>3. ~inside /\ ~opened
  BY DEF ReadsInit, Init, StorageInit
<1>4. Shape /\ Known /\ Gathered
  BY <1>2, <1>3 DEF Shape, Known, Gathered, NoAsk, LatestServed, IndexedServed, LogsAnswerComplete
<1>5. StaysInside
  BY <1>3 DEF StaysInside, AnchorHeld, GaplessRangeAnswered
<1> QED
  BY <1>1, <1>4, <1>5 DEF EInv

\* A step of the pipeline leaves a request on the same ground.
LEMMA PipelineKeeps ==
  ASSUME EInv, [Next]_vars, UNCHANGED readVars
  PROVE  EInv'
<1>1. UNCHANGED <<rpc, ask, from, to, rmin, next, got, inside, ans>>
  BY DEF readVars
<1>2. IInv'
  BY NextIInv DEF EInv
<1>3. /\ Stored \subseteq Stored'
      /\ opened => /\ opened' /\ minH' = minH
                   /\ max_contiguous_height <= max_contiguous_height'
  BY StoreKept DEF EInv, IInv, AboveMinimum
<1>4. max_contiguous_height \in Heights /\ max_contiguous_height' \in Heights
  BY <1>2, FrontierRange, FrontierNext DEF EInv, IInv, TypeOK
<1>5. Shape'
  BY <1>1 DEF EInv, Shape
<1>6. Known'
  BY <1>1, <1>3 DEF EInv, Known, LatestServed, IndexedServed
<1>7. Gathered => Gathered'
  BY <1>1 DEF Gathered, LogsAnswerComplete
<1>8. FloorAboveZero => StaysInside'
  <2> SUFFICES ASSUME FloorAboveZero PROVE StaysInside'
    OBVIOUS
  <2>1. StaysInside /\ AnchorHeld'
    BY AnchorKept DEF EInv, StaysInside
  <2>2. \A n \in Heights : opened /\ n <= max_contiguous_height => n <= max_contiguous_height'
    BY <1>3, <1>4, StorageAssumption DEF Heights
  <2> QED
    BY <1>1, <1>3, <2>1, <2>2 DEF StaysInside, GaplessRangeAnswered
<1> QED
  BY <1>2, <1>5, <1>6, <1>7, <1>8 DEF EInv

\* A crash forgets the request.
LEMMA CrashKeeps ==
  ASSUME EInv, ReadsCrash
  PROVE  EInv'
<1>1. IInv'
  BY NextIInv DEF EInv, ReadsCrash, Next
<1>2. /\ rpc' = "idle" /\ ask' = NoAsk /\ from' = 0 /\ to' = 0 /\ next' = 0 /\ got' = {} /\ ans' = "none"
      /\ 0 \in Heights
  BY StorageAssumption DEF ReadsCrash, Heights
<1>3. ~inside'
  BY DEF ReadsCrash
<1>4. Shape' /\ Known' /\ Gathered'
  BY <1>2, <1>3 DEF Shape, Known, Gathered, NoAsk, LatestServed, IndexedServed, LogsAnswerComplete
<1>5. FloorAboveZero => StaysInside'
  BY <1>3, AnchorKept DEF EInv, StaysInside, GaplessRangeAnswered, ReadsCrash, Next
<1> QED
  BY <1>1, <1>4, <1>5 DEF EInv

------------------------------------------------------------------------------
(* The steps of a request: they read the store as it is. *)

\* A step of a request leaves the pipeline, and what is said of it, alone.
LEMMA ReadsOnly ==
  ASSUME EInv, UNCHANGED vars
  PROVE  /\ IInv' /\ UNCHANGED <<opened, minH, rec, idx>> /\ Stored' = Stored
         /\ max_contiguous_height' = max_contiguous_height
         /\ FloorAboveZero => AnchorHeld'
<1>1. UNCHANGED storageVars
  BY DEF vars
<1>2. /\ UNCHANGED <<opened, minH, rec, idx>> /\ Stored' = Stored
      /\ max_contiguous_height' = max_contiguous_height
  BY <1>1, QuietStore DEF EInv
<1>3. IInv'
  BY NextIInv DEF EInv
<1> QED
  BY <1>2, <1>3, AnchorKept DEF EInv, StaysInside

\* A request arrives: nothing is read yet, and `inside` notes whether its range is gapless.
LEMMA ArrivesKeeps ==
  ASSUME EInv, NEW r \in Asks, Arrives(r)
  PROVE  EInv'
<1>1. /\ UNCHANGED vars /\ UNCHANGED <<from, to, rmin, next, got>> /\ rpc = "idle" /\ ask' = r
      /\ inside' => Inside(r)
      /\ IF r.kind \in {"logs", "logsHash"} /\ ~IngestLogs
         THEN rpc' = "done" /\ ans' = "miss"
         ELSE rpc' = Reading(r) /\ ans' = ans
  BY DEF Arrives
<1>2. /\ IInv' /\ UNCHANGED <<opened, minH, rec, idx>> /\ Stored' = Stored
      /\ max_contiguous_height' = max_contiguous_height /\ (FloorAboveZero => AnchorHeld')
  BY <1>1, ReadsOnly
<1>3. /\ r.kind \in {"number", "hash", "tx", "logsHash", "logs"} /\ r.a \in Tags /\ r.b \in Tags
      /\ r.kind \in {"hash", "tx", "logsHash"} => r.a \in Heights
  BY DEF Asks, Tags
<1>4. Shape /\ ans = "none"
  BY <1>1 DEF EInv, Shape
<1>5. Shape' /\ Known'
  BY <1>1, <1>3, <1>4 DEF Shape, Known, Reading, LatestServed, IndexedServed
<1>6. Gathered => Gathered'
  BY <1>1, <1>3, <1>4 DEF Gathered, Reading, LogsAnswerComplete
<1>7. FloorAboveZero => StaysInside'
  BY <1>1, <1>2, <1>3 DEF StaysInside, Inside, Reading, Tags, GaplessRangeAnswered
<1> QED
  BY <1>2, <1>5, <1>6, <1>7 DEF EInv

\* The high-water mark, when it is not 0, is a stored block's height.
LEMMA HighWaterStored ==
  ASSUME EInv
  PROVE  high_water \in Heights /\ (high_water # 0 => high_water \in Stored)
<1>1. Stored \in SUBSET Heights
  BY DEF Stored
<1>2. Stored = {} => high_water = 0
  BY DEF high_water, HighestOf
<1> QED
  BY <1>1, <1>2, HighestOfIsHighest DEF high_water, IsHighest

\* The lower bound of the range is resolved.
LEMMA TagFromKeeps ==
  ASSUME EInv, TagFrom
  PROVE  EInv'
<1>1. /\ UNCHANGED vars /\ UNCHANGED <<ask, to, rmin, next, got, inside>> /\ rpc = "tagFrom"
      /\ IF ask.a = Latest /\ high_water = 0
         THEN rpc' = "done" /\ ans' = "error" /\ from' = from
         ELSE /\ from' = (IF ask.a = Latest THEN high_water ELSE ask.a)
              /\ rpc' = (IF ask.kind = "logs" THEN "tagTo" ELSE "store") /\ ans' = ans
  BY DEF TagFrom, Answer
<1>2. /\ IInv' /\ UNCHANGED <<opened, minH, rec, idx>> /\ Stored' = Stored
      /\ max_contiguous_height' = max_contiguous_height /\ (FloorAboveZero => AnchorHeld')
  BY <1>1, ReadsOnly
<1>3. /\ Shape /\ ans = "none" /\ ask.kind \in {"number", "logs"} /\ ask.a \in Tags
      /\ high_water \in Heights /\ (high_water # 0 => high_water \in Stored)
  BY <1>1, HighWaterStored DEF EInv, Shape
<1>4. from' \in Heights
  BY <1>1, <1>3 DEF Shape, Tags
<1>5. Shape' /\ Known'
  BY <1>1, <1>2, <1>3, <1>4 DEF Shape, Known, LatestServed, IndexedServed
<1>6. Gathered => Gathered'
  BY <1>1, <1>3 DEF Gathered, LogsAnswerComplete
<1>7. StaysInside /\ AnchorHeld' => StaysInside'
  BY <1>1, <1>2, <1>3, StorageAssumption DEF StaysInside, GaplessRangeAnswered, Latest, Heights
<1> QED
  BY <1>2, <1>5, <1>6, <1>7 DEF EInv

\* The upper bound of the range is resolved.
LEMMA TagToKeeps ==
  ASSUME EInv, TagTo
  PROVE  EInv'
<1> DEFINE t == IF ask.b = Latest THEN high_water ELSE ask.b
<1>1. /\ UNCHANGED vars /\ UNCHANGED <<ask, from, rmin, next, got, inside>> /\ rpc = "tagTo"
      /\ IF (ask.b = Latest /\ high_water = 0) \/ from > t \/ t - from >= MAX_GETLOGS_RANGE
         THEN rpc' = "done" /\ ans' = "error" /\ to' = to
         ELSE to' = t /\ rpc' = "min" /\ ans' = ans
  BY DEF TagTo, Answer
<1>2. /\ IInv' /\ UNCHANGED <<opened, minH, rec, idx>> /\ Stored' = Stored
      /\ max_contiguous_height' = max_contiguous_height /\ (FloorAboveZero => AnchorHeld')
  BY <1>1, ReadsOnly
<1>3. Shape /\ ans = "none" /\ ask.kind = "logs" /\ t \in Heights /\ from \in Heights
  BY <1>1, HighWaterStored DEF EInv, Shape, Tags
<1>4. to' \in Heights /\ (rpc' = "min" => from <= to')
  BY <1>1, <1>3, StorageAssumption DEF Shape, Heights
<1>5. Shape' /\ Known'
  BY <1>1, <1>2, <1>3, <1>4 DEF Shape, Known, LatestServed, IndexedServed
<1>6. Gathered => Gathered'
  BY <1>1, <1>3 DEF Gathered, LogsAnswerComplete
<1>7. StaysInside /\ AnchorHeld' => StaysInside'
  BY <1>1, <1>2, <1>3, StorageAssumption, EthReadsAssumption
     DEF StaysInside, GaplessRangeAnswered, Latest, Heights
<1> QED
  BY <1>2, <1>5, <1>6, <1>7 DEF EInv

\* A lookup in the index, which a store read follows.
LEMMA IndexKeeps ==
  ASSUME EInv, Index
  PROVE  EInv'
<1>1. /\ UNCHANGED vars /\ UNCHANGED <<ask, rmin, got, inside>> /\ rpc = "index"
      /\ IF ask.a \notin idx
         THEN rpc' = "done" /\ ans' = "miss" /\ UNCHANGED <<from, to, next>>
         ELSE /\ from' = ask.a /\ to' = ask.a /\ next' = ask.a /\ ans' = ans
              /\ rpc' = IF ask.kind = "logsHash" THEN "range" ELSE "store"
  BY DEF Index, Answer
<1>2. /\ IInv' /\ UNCHANGED <<opened, minH, rec, idx>> /\ Stored' = Stored
      /\ max_contiguous_height' = max_contiguous_height /\ (FloorAboveZero => AnchorHeld')
  BY <1>1, ReadsOnly
<1>3. /\ Shape /\ ans = "none" /\ ask.kind \in {"hash", "tx", "logsHash"} /\ ask.a \in Heights
      /\ idx \subseteq Stored
  BY <1>1 DEF EInv, Shape, IInv, IndexSound
<1>4. Shape' /\ Known'
  BY <1>1, <1>2, <1>3, StorageAssumption DEF Shape, Known, LatestServed, IndexedServed, Heights
<1>5. Gathered => Gathered'
  <2>1. ask.a..(ask.a - 1) = {}
    BY <1>3, StorageAssumption DEF Heights
  <2> QED
    BY <1>1, <1>3, <2>1 DEF Gathered, LogsAnswerComplete
<1>6. StaysInside /\ AnchorHeld' => StaysInside'
  BY <1>1, <1>2, <1>3 DEF StaysInside, GaplessRangeAnswered
<1> QED
  BY <1>2, <1>4, <1>5, <1>6 DEF EInv

\* The block, from the store or the join buffer.
LEMMA ReadBlockKeeps ==
  ASSUME EInv, ReadStore \/ ReadBuffer
  PROVE  EInv'
<1>1. /\ UNCHANGED vars /\ UNCHANGED <<ask, from, to, rmin, next, got, inside>>
      /\ \/ rpc = "store" /\ rpc' = "done" /\ rec[from] # Absent /\ ans' = "block"
         \/ rpc = "store" /\ rpc' = "done" /\ rec[from] = Absent /\ ans' = "null" /\ ask.kind = "hash"
         \/ rpc = "store" /\ rpc' = "buffer" /\ rec[from] = Absent /\ ans' = ans
         \/ rpc = "buffer" /\ rpc' = "done" /\ ans' \in {"block", "null"}
  BY DEF ReadStore, ReadBuffer, Answer
<1>2. /\ IInv' /\ UNCHANGED <<opened, minH, rec, idx>> /\ Stored' = Stored
      /\ max_contiguous_height' = max_contiguous_height /\ (FloorAboveZero => AnchorHeld')
  BY <1>1, ReadsOnly
<1>3. /\ Shape /\ Known /\ ans = "none" /\ ask.kind \in {"number", "hash", "tx"}
      /\ from \in Stored => rec[from] # Absent
  BY <1>1 DEF EInv, Shape, Stored
<1>4. Shape' /\ Known'
  BY <1>1, <1>2, <1>3 DEF Shape, Known, LatestServed, IndexedServed
<1>5. Gathered => Gathered'
  BY <1>1, <1>3 DEF Gathered, LogsAnswerComplete
<1>6. StaysInside /\ AnchorHeld' => StaysInside'
  BY <1>1, <1>2, <1>3 DEF StaysInside, GaplessRangeAnswered
<1> QED
  BY <1>2, <1>4, <1>5, <1>6 DEF EInv

\* The range check of eth_getLogs: what was inside the range still is.
LEMMA RangeCheckKeeps ==
  ASSUME EInv, ReadMin \/ ReadContig
  PROVE  EInv'
<1>1. /\ UNCHANGED vars /\ UNCHANGED <<ask, from, to, got, inside>>
      /\ \/ rpc = "min" /\ rpc' = "contig" /\ rmin' = minH /\ UNCHANGED <<next, ans>>
         \/ /\ rpc = "contig" /\ rpc' = "done" /\ ans' = "null" /\ UNCHANGED <<rmin, next>>
            /\ from < rmin \/ to > max_contiguous_height
         \/ rpc = "contig" /\ rpc' = "range" /\ next' = from /\ UNCHANGED <<rmin, ans>>
  BY DEF ReadMin, ReadContig, Answer
<1>2. /\ IInv' /\ UNCHANGED <<opened, minH, rec, idx>> /\ Stored' = Stored
      /\ max_contiguous_height' = max_contiguous_height /\ (FloorAboveZero => AnchorHeld')
  BY <1>1, ReadsOnly
<1>3. /\ Shape /\ ans = "none" /\ ask.kind = "logs"
      /\ max_contiguous_height \in Heights /\ minH \in Heights
  BY <1>1, FrontierRange DEF EInv, Shape, IInv, TypeOK, StorageTypeOK
<1>4. Shape' /\ Known'
  BY <1>1, <1>2, <1>3, StorageAssumption DEF Shape, Known, LatestServed, IndexedServed, Heights
<1>5. Gathered => Gathered'
  <2>1. from..(from - 1) = {}
    BY <1>3, StorageAssumption DEF Shape, Heights
  <2> QED
    BY <1>1, <1>3, <2>1 DEF Gathered, LogsAnswerComplete
<1>6. StaysInside /\ AnchorHeld' => StaysInside'
  BY <1>1, <1>2, <1>3, StorageAssumption DEF StaysInside, GaplessRangeAnswered, Heights
<1> QED
  BY <1>2, <1>4, <1>5, <1>6 DEF EInv

\* A chunk that is complete adds its logs; one of a range inside the gapless one,
\* or of an indexed block, is.
LEMMA ReadRangeKeeps ==
  ASSUME EInv, ReadRange
  PROVE  EInv'
<1> USE StorageAssumption, EthReadsAssumption DEF Heights
<1> DEFINE end == MinOf(next + GETLOGS_READ_CHUNK - 1, to)
           logs == {k \in next..end : rec[k] = "data"}
<1>1. /\ UNCHANGED vars /\ UNCHANGED <<ask, from, to, rmin, inside>> /\ rpc = "range"
      /\ IF ~ChunkComplete(next..end)
         THEN rpc' = "done" /\ ans' = "null" /\ UNCHANGED <<next, got>>
         ELSE /\ got' = got \cup logs
              /\ IF end = to THEN rpc' = "done" /\ ans' = "logs" /\ next' = next
                 ELSE next' = end + 1 /\ rpc' = rpc /\ ans' = ans
  BY DEF ReadRange, Answer
<1>2. /\ IInv' /\ UNCHANGED <<opened, minH, rec, idx>> /\ Stored' = Stored
      /\ max_contiguous_height' = max_contiguous_height /\ (FloorAboveZero => AnchorHeld')
  BY <1>1, ReadsOnly
<1>3. /\ Shape /\ ans = "none" /\ ask.kind \in {"logs", "logsHash"} /\ IngestLogs
      /\ from \in Heights /\ to \in Heights /\ next \in Heights /\ from <= next /\ next <= to
      /\ got \in SUBSET Heights
  BY <1>1 DEF EInv, Shape
<1>4. end \in Heights /\ next <= end /\ end <= to
  BY <1>3 DEF MinOf
<1> HIDE DEF end, logs
<1>5. logs \in SUBSET Heights
  BY <1>3, <1>4 DEF logs
<1>6. Shape'
  <2>1. ask' = ask /\ from' \in Heights /\ to' \in Heights /\ next' \in Heights
    BY <1>1, <1>3, <1>4
  <2>2. got' \in SUBSET Heights
    BY <1>1, <1>3, <1>5
  <2>3. \/ rpc' = "done"
        \/ rpc' = "range" /\ ans' = "none" /\ from' <= next' /\ next' <= to'
    BY <1>1, <1>3, <1>4
  <2> QED
    BY <1>3, <2>1, <2>2, <2>3 DEF Shape
<1>7. from \in Stored /\ to = from => ChunkComplete(next..end)
  <2> SUFFICES ASSUME from \in Stored, to = from PROVE ChunkComplete(next..end)
    OBVIOUS
  <2>1. \A k \in next..end : k = from
    BY <1>3, <1>4
  <2> QED
    BY <2>1 DEF ChunkComplete, Stored
<1>8. Known'
  BY <1>1, <1>2, <1>3, <1>7 DEF EInv, Known, LatestServed, IndexedServed
<1>9. ~Mirror => Gathered'
  <2> SUFFICES ASSUME ~Mirror PROVE Gathered'
    OBVIOUS
  <2>1. got = (from..(next - 1)) \cap HasData /\ \A k \in Stored : rec[k] = LogsAt(k)
    BY <1>1, <1>3 DEF EInv, Gathered, IInv, CompleteRecords
  <2>2. CASE ~ChunkComplete(next..end)
    BY <1>1, <2>2 DEF Gathered, LogsAnswerComplete
  <2>3. CASE ChunkComplete(next..end)
    <3>1. \A k \in next..end : rec[k] = LogsAt(k)
      BY <1>3, <1>4, <2>1, <2>3 DEF ChunkComplete, Stored
    <3>2. logs = (next..end) \cap HasData
      BY <3>1 DEF LogsAt, logs
    <3>3. (from..(next - 1)) \cup (next..end) = from..end
      BY <1>3, <1>4
    <3>4. got' = (from..end) \cap HasData
      BY <1>1, <2>1, <2>3, <3>2, <3>3
    <3>5. (end + 1) - 1 = end
      BY <1>4
    <3> QED
      BY <1>1, <1>3, <2>3, <3>4, <3>5 DEF Gathered, LogsAnswerComplete
  <2> QED
    BY <2>2, <2>3
<1>10. StaysInside /\ AnchorHeld' => StaysInside'
  <2> SUFFICES ASSUME StaysInside, AnchorHeld' PROVE StaysInside'
    OBVIOUS
  <2>1. inside => ChunkComplete(next..end)
    <3> SUFFICES ASSUME inside PROVE ChunkComplete(next..end)
      OBVIOUS
    <3>1. opened /\ from = ask.a /\ to = ask.b /\ minH <= from /\ to <= max_contiguous_height
      BY <1>1 DEF StaysInside
    <3>2. /\ minH..max_contiguous_height \subseteq Stored /\ minH \in Heights
          /\ max_contiguous_height \in Heights
      BY <3>1, FrontierStored, FrontierRange DEF EInv, IInv, TypeOK, StorageTypeOK, StaysInside
    <3>3. next..end \subseteq Stored
      BY <1>3, <1>4, <3>1, <3>2
    <3> QED
      BY <3>3 DEF ChunkComplete, Stored
  <2> QED
    BY <1>1, <1>2, <2>1 DEF StaysInside, GaplessRangeAnswered
<1> QED
  BY <1>2, <1>6, <1>8, <1>9, <1>10 DEF EInv

------------------------------------------------------------------------------
\* The invariant holds throughout.
LEMMA ReadsInvariant == ReadsSpec => []EInv
<1>1. EInv /\ [ReadsNext]_readsVars => EInv'
  <2> SUFFICES ASSUME EInv, [ReadsNext]_readsVars PROVE EInv'
    OBVIOUS
  <2>1. CASE Pipeline
    BY <2>1, PipelineKeeps DEF Pipeline, Next
  <2>2. CASE ReadsCrash
    BY <2>2, CrashKeeps
  <2>3. CASE Reads
    BY <2>3, ArrivesKeeps, TagFromKeeps, TagToKeeps, IndexKeeps, ReadBlockKeeps, RangeCheckKeeps,
       ReadRangeKeeps DEF Reads
  <2>4. CASE UNCHANGED readsVars
    BY <2>4, PipelineKeeps DEF readsVars
  <2> QED
    BY <2>1, <2>2, <2>3, <2>4 DEF ReadsNext
<1> QED
  BY <1>1, ReadsInitEInv, PTL DEF ReadsSpec

\* An answered eth_getLogs has all the logs of its range, for every range and chunk
\* and every interleaving with the writers of a pipeline that is not a mirror.
THEOREM LogsAnswersComplete ==
  ASSUME ~Mirror
  PROVE  ReadsSpec => []LogsAnswerComplete
<1>1. EInv => LogsAnswerComplete
  BY DEF EInv, Gathered
<1> QED
  BY <1>1, ReadsInvariant, PTL

\* A range that was gapless on arrival is answered and not deferred, unless a floor
\* of 0 is configured.
THEOREM GaplessRangesAnswered ==
  ASSUME FloorAboveZero
  PROVE  ReadsSpec => []GaplessRangeAnswered
<1>1. EInv => GaplessRangeAnswered
  BY DEF EInv, StaysInside
<1> QED
  BY <1>1, ReadsInvariant, PTL

\* The block "latest" names is there when it is read.
THEOREM LatestIsServed == ReadsSpec => []LatestServed
<1>1. EInv => LatestServed
  BY DEF EInv, Known
<1> QED
  BY <1>1, ReadsInvariant, PTL

\* What the index names is served, by hash, through its transaction and by its logs.
THEOREM IndexedIsServed == ReadsSpec => []IndexedServed
<1>1. EInv => IndexedServed
  BY DEF EInv, Known
<1> QED
  BY <1>1, ReadsInvariant, PTL

\* The parts of the type invariant that no other invariant states.
RestTypes ==
  /\ rpc \in {"idle", "tagFrom", "tagTo", "index", "store", "buffer", "min", "contig",
              "range", "done"}
  /\ ask \in Asks \cup {NoAsk}
  /\ rmin \in Heights
  /\ inside \in BOOLEAN
  /\ ans \in Answers

\* Every step of a request keeps them.
LEMMA RestTypesStep ==
  ASSUME EInv, RestTypes, [ReadsNext]_readsVars
  PROVE  RestTypes'
<1>1. CASE UNCHANGED readVars
  BY <1>1 DEF RestTypes, readVars
<1>2. CASE ReadsCrash
  <2>1. inside' \in BOOLEAN
    BY <1>2, Zenon DEF ReadsCrash
  <2> QED
    BY <1>2, <2>1, StorageAssumption DEF ReadsCrash, RestTypes, Heights, Answers
<1>3. ASSUME NEW r \in Asks, Arrives(r) PROVE RestTypes'
  <2>1. inside' \in BOOLEAN
    BY <1>3, Zenon DEF Arrives, Inside
  <2>2. rmin' = rmin /\ ask' = r
    BY <1>3 DEF Arrives
  <2>3. /\ rpc' \in {"done", "tagFrom", "index"}
        /\ ans' \in {ans, "miss"}
    BY <1>3 DEF Arrives, Reading
  <2> QED
    BY <2>1, <2>2, <2>3 DEF RestTypes, Answers
<1>4. ASSUME TagFrom \/ TagTo \/ Index \/ ReadStore \/ ReadBuffer \/ ReadMin \/ ReadContig \/ ReadRange
      PROVE  RestTypes'
  <2>1. ask' = ask /\ inside' = inside
    BY <1>4 DEF TagFrom, TagTo, Index, ReadStore, ReadBuffer, ReadMin, ReadContig, ReadRange, Answer
  <2>2. rmin' \in {rmin, minH}
    BY <1>4 DEF TagFrom, TagTo, Index, ReadStore, ReadBuffer, ReadMin, ReadContig, ReadRange, Answer
  <2>3. ans' \in {ans, "error", "miss", "block", "null", "logs"}
    BY <1>4 DEF TagFrom, TagTo, Index, ReadStore, ReadBuffer, ReadMin, ReadContig, ReadRange, Answer
  <2>4. rpc' \in {rpc, "done", "tagTo", "store", "min", "range", "buffer", "contig"}
    BY <1>4 DEF TagFrom, TagTo, Index, ReadStore, ReadBuffer, ReadMin, ReadContig, ReadRange, Answer
  <2>5. minH \in Heights
    BY DEF EInv, IInv, TypeOK, StorageTypeOK
  <2> QED
    BY <2>1, <2>2, <2>3, <2>4, <2>5 DEF RestTypes, Answers
<1> QED
  BY <1>1, <1>2, <1>3, <1>4 DEF ReadsNext, Reads, Pipeline, readsVars

\* A request's variables always have their types, those of the pipeline too: no tag
\* or chunk leads the handlers out of the chain.
THEOREM ETypeCorrect == ReadsSpec => [](TypeOK /\ ReadsTypeOK)
<1>1. ReadsInit => RestTypes
  <2> SUFFICES ASSUME ReadsInit PROVE RestTypes
    OBVIOUS
  <2>1. inside \in BOOLEAN
    BY Zenon DEF ReadsInit
  <2> QED
    BY <2>1, StorageAssumption DEF ReadsInit, RestTypes, Heights, Answers
<1>2. EInv /\ RestTypes /\ [ReadsNext]_readsVars => RestTypes'
  BY RestTypesStep
<1>3. EInv /\ RestTypes => TypeOK /\ ReadsTypeOK
  BY DEF EInv, IInv, Shape, RestTypes, ReadsTypeOK
<1> QED
  BY <1>1, <1>2, <1>3, ReadsInvariant, PTL DEF ReadsSpec

==============================================================================
