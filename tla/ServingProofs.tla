---------------------------- MODULE ServingProofs -----------------------------
(***************************************************************************)
(* Proofs about the requests of a connection and the /health report, for   *)
(* every chain, every range, every filling order and every timeout.        *)
(***************************************************************************)
EXTENDS Serving, StorageProofs

\* What holds of a store that is filled in any order.
StoreInv ==
  /\ StorageTypeOK
  /\ AnchorHeld
  /\ Stored \subseteq minH..MaxHeight
  /\ opened <=> Stored # {}

\* The store never loses what it has, and its floor never moves.
StoreGrown ==
  /\ Stored \subseteq Stored'
  /\ opened => opened' /\ minH' = minH

------------------------------------------------------------------------------
(* The store under its writers. *)

\* The store starts empty.
LEMMA InitStore == ServingInit => StoreInv
<1> SUFFICES ASSUME ServingInit PROVE StoreInv
  OBVIOUS
<1>1. StorageInit
  BY DEF ServingInit, Init
<1>2. opened \in BOOLEAN /\ ~opened
  BY <1>1, Zenon DEF StorageInit
<1>3. minH \in Heights /\ rec \in [Heights -> Halves \cup {Absent}] /\ idx = {}
  BY <1>1, StorageAssumption DEF StorageInit, Heights
<1>4. Stored = {}
  BY <1>1 DEF StorageInit, Stored
<1> QED
  BY <1>2, <1>3, <1>4 DEF StoreInv, StorageTypeOK, AnchorHeld

\* A put keeps what is said of the store, and loses nothing.
LEMMA WriterStep ==
  ASSUME StoreInv, WriterPuts
  PROVE  StoreInv' /\ StoreGrown
<1> USE StorageAssumption DEF Heights
<1>0. AnchorHeld'
  BY DEF WriterPuts, Puts
<1>1. PICK k \in Heights : PutBlock(k, "data") /\ PutIndex(k)
  BY DEF WriterPuts, Puts
<1>2. /\ opened' = TRUE /\ minH' = (IF opened THEN minH ELSE Anchor(k))
      /\ rec' = [rec EXCEPT ![k] = "data"] /\ idx' = idx \cup {k} /\ (opened => k >= minH)
      /\ k \in Heights /\ minH \in Heights /\ Anchor(k) \in 0..k
  BY <1>1 DEF PutBlock, PutIndex, BelowMinimum, Anchor, StoreInv, StorageTypeOK
<1>3. rec \in [Heights -> Halves \cup {Absent}] /\ idx \in SUBSET Heights
  BY DEF StoreInv, StorageTypeOK
<1>4. rec' \in [Heights -> Halves \cup {Absent}] /\ Stored' = Stored \cup {k}
  BY <1>2, <1>3 DEF Stored, Halves, Absent
<1>5. StorageTypeOK'
  BY <1>2, <1>3, <1>4 DEF StorageTypeOK
<1>6. minH' <= k /\ (opened => minH' = minH) /\ (~opened => Stored = {})
  BY <1>2 DEF StoreInv
<1>7. (Stored \subseteq minH..MaxHeight)'
  BY <1>2, <1>4, <1>5, <1>6 DEF StoreInv, StorageTypeOK
<1> QED
  BY <1>0, <1>2, <1>4, <1>5, <1>6, <1>7 DEF StoreInv, StoreGrown

\* Only a writer changes the store.
LEMMA OnlyWriters ==
  ASSUME [ServingNext]_servingVars
  PROVE  WriterPuts \/ UNCHANGED storageVars
  BY DEF ServingNext, servingVars, vars, Accept, poll_read, ReadsStore, Answer, Push, ReadFails,
         ReadPends, WriteStalls, poll_pending, Tick, Reap, StreamDropped, ClientDrains, ClientSends,
         ConnectionCloses, HealthAsked, HealthReadsEmpty, HealthReadsMin, HealthReadsContiguous,
         HealthReadsHigh, Arrives, ReadMin, ReadContiguous, Pass, Validate, Send, Closes

\* Every step keeps what is said of the store.
LEMMA StoreStep ==
  ASSUME StoreInv, [ServingNext]_servingVars
  PROVE  StoreInv' /\ StoreGrown
<1>1. CASE WriterPuts
  BY <1>1, WriterStep
<1>2. CASE UNCHANGED storageVars
  <2>1. UNCHANGED <<opened, minH, rec, idx>>
    BY <1>2 DEF storageVars
  <2>2. Stored' = Stored
    BY <2>1 DEF Stored
  <2> QED
    BY <2>1, <2>2 DEF StoreInv, StoreGrown, StorageTypeOK, AnchorHeld
<1> QED
  BY <1>1, <1>2, OnlyWriters

\* The contiguous frontier bounds a stored range, and lies in the chain.
LEMMA Frontier ==
  ASSUME StoreInv
  PROVE  /\ max_contiguous_height \in Heights
         /\ opened => minH..max_contiguous_height \subseteq Stored
<1> USE StorageAssumption DEF Heights
<1>1. Stored \in SUBSET Heights /\ minH \in Heights
  BY DEF StoreInv, StorageTypeOK, Stored
<1>2. FirstGap(minH, Stored) \in minH..(MaxHeight + 1)
  BY <1>1, FirstGapIsFirstGap
<1>3. max_contiguous_height \in Heights
  BY <1>1, <1>2 DEF max_contiguous_height, Pred
<1> QED
  BY <1>3, FrontierStored DEF StoreInv

------------------------------------------------------------------------------
(* The idle timeout. *)

\* The deadline is never nearer than the bytes that last moved allow.
ConnInv ==
  /\ left \in Nat /\ quiet \in Nat
  /\ conn = "open" => left + quiet >= IdleTicks
  /\ BusyNeverReaped

\* Every step keeps the relation between the deadline and the time since bytes moved.
LEMMA ConnStep ==
  ASSUME ConnInv, [ServingNext]_servingVars
  PROVE  ConnInv'
<1> USE ServingAssumption DEF ConnInv, BusyNeverReaped
<1>1. CASE UNCHANGED <<conn, left, quiet>>
  BY <1>1
<1>2. CASE conn = "open" /\ conn' = conn /\ reset_timeout
  BY <1>2 DEF reset_timeout
<1>3. CASE Tick
  BY <1>3 DEF Tick
<1>4. CASE Reap
  BY <1>4 DEF Reap, idle_expired
<1>5. CASE Accept
  BY <1>5 DEF Accept
<1>6. CASE ConnectionCloses
  BY <1>6 DEF ConnectionCloses
<1>7. \/ UNCHANGED <<conn, left, quiet>>
      \/ conn = "open" /\ conn' = conn /\ reset_timeout
      \/ Tick \/ Reap \/ Accept \/ ConnectionCloses
  BY DEF ServingNext, servingVars, connVars, poll_read, ReadsStore, Answer, Push, ReadFails,
         ReadPends, WriteStalls, poll_pending, poll_write, Written, ClientDrains, ClientSends,
         HealthAsked, HealthReadsEmpty, HealthReadsMin, HealthReadsContiguous, HealthReadsHigh
<1> QED
  BY <1>1, <1>2, <1>3, <1>4, <1>5, <1>6, <1>7

\* A connection on which bytes moved within the timeout is never reaped, for every
\* timeout and every schedule of polls, ticks and timers.
THEOREM BusyIsNeverReaped == ServingSpec => []BusyNeverReaped
<1>1. ServingInit => ConnInv
  BY DEF ServingInit, ConnInv, BusyNeverReaped
<1>2. ConnInv /\ [ServingNext]_servingVars => ConnInv'
  BY ConnStep
<1>3. ConnInv => BusyNeverReaped
  BY DEF ConnInv
<1> QED
  BY <1>1, <1>2, <1>3, PTL DEF ServingSpec

------------------------------------------------------------------------------
(* The /health report. *)

\* What each of the report's reads has established by the next.
ReportInv ==
  /\ health \in {"idle", "empty", "min", "contig", "high", "done"}
  /\ health \in {"min", "contig", "high", "done"} /\ ~rempty => opened
  /\ health \in {"contig", "high", "done"} /\ ~rempty => rmin = minH
  /\ health \in {"high", "done"} /\ ~rempty =>
       rmc \in Heights /\ minH..rmc \subseteq Stored
  /\ health = "done" /\ ~rempty => rmc <= rhw

\* A stored range's end is not above the high water, the range empty included.
LEMMA BelowHighWater ==
  ASSUME StoreInv, opened, NEW m \in Heights, minH..m \subseteq Stored
  PROVE  m <= high_water
<1> USE StorageAssumption DEF Heights
<1>1. Stored \in SUBSET Heights /\ minH \in Heights /\ Stored # {} /\ Stored \subseteq minH..MaxHeight
  BY DEF StoreInv, StorageTypeOK, Stored
<1>2. high_water \in Stored /\ \A k \in Stored : k <= high_water
  BY <1>1, HighestOfIsHighest DEF high_water, IsHighest
<1> QED
  BY <1>1, <1>2

\* Every step keeps what a /health report has read so far true of the store.
LEMMA ReportStep ==
  ASSUME StoreInv, ReportInv, [ServingNext]_servingVars
  PROVE  ReportInv'
<1>1. StoreInv' /\ StoreGrown
  BY StoreStep
<1>2. CASE UNCHANGED reportVars
  <2>1. UNCHANGED <<health, rempty, rmin, rmc, rhw>>
    BY <1>2 DEF reportVars
  <2> QED
    BY <1>1, <2>1 DEF ReportInv, StoreGrown
<1>3. CASE HealthAsked
  BY <1>3 DEF HealthAsked, ReportInv
<1>4. CASE HealthReadsEmpty
  BY <1>1, <1>4 DEF HealthReadsEmpty, ReportInv, is_empty, StoreGrown
<1>5. CASE HealthReadsMin
  BY <1>1, <1>5 DEF HealthReadsMin, ReportInv, StoreGrown
<1>6. CASE HealthReadsContiguous
  <2>1. max_contiguous_height \in Heights
        /\ (opened => minH..max_contiguous_height \subseteq Stored)
    BY Frontier
  <2> QED
    BY <1>1, <1>6, <2>1 DEF HealthReadsContiguous, ReportInv, StoreGrown
<1>7. CASE HealthReadsHigh
  <2>1. opened /\ rmc \in Heights /\ minH..rmc \subseteq Stored => rmc <= high_water
    BY BelowHighWater
  <2> QED
    BY <1>1, <1>7, <2>1 DEF HealthReadsHigh, ReportInv, StoreGrown
<1>8. \/ UNCHANGED reportVars
      \/ HealthAsked \/ HealthReadsEmpty \/ HealthReadsMin \/ HealthReadsContiguous \/ HealthReadsHigh
  BY DEF ServingNext, servingVars, Accept, poll_read, ReadsStore, Answer, Push, ReadFails,
         ReadPends, WriteStalls, poll_pending, Tick, Reap, ClientDrains, ClientSends,
         ConnectionCloses
<1> QED
  BY <1>2, <1>3, <1>4, <1>5, <1>6, <1>7, <1>8

\* The range a /health report calls gap-free is stored in full, for every chain and
\* whatever is written between its reads.
THEOREM HealthRangeIsStored == ServingSpec => []HealthRangeStored
<1>1. ServingInit => StoreInv /\ ReportInv
  BY InitStore DEF ServingInit, ReportInv
<1>2. StoreInv /\ ReportInv /\ [ServingNext]_servingVars => (StoreInv /\ ReportInv)'
  BY StoreStep, ReportStep
<1>3. StoreInv /\ ReportInv => HealthRangeStored
  BY DEF ReportInv, HealthRangeStored
<1> QED
  BY <1>1, <1>2, <1>3, PTL DEF ServingSpec

------------------------------------------------------------------------------
(* A range. *)

\* Positions from which the stream has been accepted.
Streaming == {"stream", "read", "done"}

StreamTypeOK ==
  /\ kind \in RequestKinds
  /\ from \in Heights /\ to \in Heights \cup {OpenEnded}
  /\ rpc \in {"idle", "min", "contig", "empty", "rejected", "closed", "hole"} \cup Streaming
  /\ vmin \in Heights /\ vcontig \in Heights /\ h \in 0..(MaxHeight + 1)
  /\ rpc = "read" => h \in Heights

\* What a request to a store that existed has established at each position.
Established ==
  /\ opened
  /\ rpc \notin {"idle", "min", "closed"} => vmin = minH
  /\ rpc \notin {"idle", "min", "contig", "closed"} =>
       minH..vcontig \subseteq Stored /\ vcontig <= max_contiguous_height
  /\ rpc \in Streaming =>
       /\ minH <= from /\ from <= h
       /\ from..(h - 1) \subseteq Stored
       /\ kind = "bulk" => BulkEnd <= vcontig /\ h <= BulkEnd + 1 /\ BulkEnd - from + 1 <= MaxBlocks
       /\ kind # "bulk" /\ to # OpenEnded => to <= vcontig
  /\ rpc = "read" => h \in Stored /\ (kind = "bulk" => h <= BulkEnd)
  /\ rpc = "done" =>
       h > vcontig \/ (to # OpenEnded /\ h > to) \/ (kind = "bulk" /\ h - from = MaxBlocks)
  /\ rpc # "hole"

StreamInv ==
  /\ StoreInv
  /\ StreamTypeOK
  /\ openAtStart /\ rpc # "idle" => Established
  /\ rpc = "idle" => ~openAtStart

\* The frontier of a store that only grows moves up only.
LEMMA FrontierGrows ==
  ASSUME StoreInv, StoreInv', StoreGrown, opened
  PROVE  max_contiguous_height <= max_contiguous_height'
<1> USE StorageAssumption DEF Heights
<1>1. /\ Stored \in SUBSET Heights /\ Stored' \in SUBSET Heights /\ Stored \subseteq Stored'
      /\ minH \in Heights /\ minH' = minH /\ opened'
  BY DEF StoreInv, StoreGrown, StorageTypeOK, Stored
<1>2. FirstGap(minH, Stored) <= FirstGap(minH, Stored')
  BY <1>1, FirstGapMonotone
<1>3. FirstGap(minH, Stored) \in Nat /\ FirstGap(minH, Stored') \in Nat
  BY <1>1, FirstGapIsFirstGap
<1>4. max_contiguous_height = Pred(FirstGap(minH, Stored))
      /\ max_contiguous_height' = Pred(FirstGap(minH, Stored'))
  BY <1>1 DEF max_contiguous_height, Pred, FirstGap, IsFirstGap
<1> QED
  BY <1>2, <1>3, <1>4 DEF Pred

\* A step of somebody else leaves the request on the same ground.
LEMMA OthersStep ==
  ASSUME StreamInv, StoreInv', StoreGrown,
         UNCHANGED <<requestVars, rpc, vmin, vcontig, h>>
  PROVE  StreamInv'
<1>1. UNCHANGED <<kind, from, to, openAtStart, rpc, vmin, vcontig, h>>
  BY DEF requestVars
<1>2. StreamTypeOK'
  BY <1>1 DEF StreamInv, StreamTypeOK
<1>3. BulkEnd' = BulkEnd
  BY <1>1 DEF BulkEnd
<1>4. ASSUME Established PROVE Established'
  <2>1. opened /\ opened' /\ minH' = minH /\ Stored \subseteq Stored'
    BY <1>4 DEF Established, StoreGrown
  <2>2. max_contiguous_height <= max_contiguous_height'
    BY <2>1, FrontierGrows DEF StreamInv
  <2>3. max_contiguous_height \in Heights /\ max_contiguous_height' \in Heights
    BY Frontier, FrontierNext DEF StreamInv, StoreInv
  <2>4. vcontig <= max_contiguous_height => vcontig <= max_contiguous_height'
    BY <2>2, <2>3, StorageAssumption DEF StreamInv, StreamTypeOK, Heights
  <2> QED
    BY <1>1, <1>3, <1>4, <2>1, <2>4 DEF Established
<1> QED
  BY <1>1, <1>2, <1>4 DEF StreamInv

\* A step of the request itself reads the store as it is.
LEMMA ReadsOnly ==
  ASSUME StreamInv, UNCHANGED storageVars
  PROVE  /\ StoreInv' /\ Stored' = Stored
         /\ UNCHANGED <<opened, minH, rec>>
         /\ max_contiguous_height' = max_contiguous_height
<1>1. UNCHANGED <<opened, minH, rec, idx>>
  BY DEF storageVars
<1>2. Stored' = Stored
  BY <1>1 DEF Stored
<1>3. max_contiguous_height' = max_contiguous_height
  BY <1>1, <1>2 DEF max_contiguous_height, FirstGap, IsFirstGap
<1> QED
  BY <1>1, <1>2, <1>3 DEF StreamInv, StoreInv, StorageTypeOK, AnchorHeld

\* A request arrives.
LEMMA ArrivesStep ==
  ASSUME StreamInv, Arrives
  PROVE  StreamInv'
<1>1. /\ UNCHANGED storageVars /\ UNCHANGED <<kind, from, to, vmin, vcontig, h>>
      /\ rpc' = "min" /\ (openAtStart' => opened)
  BY DEF Arrives
<1>2. StoreInv' /\ opened' = opened
  BY <1>1, ReadsOnly
<1>3. StreamTypeOK'
  BY <1>1 DEF StreamInv, StreamTypeOK
<1>4. openAtStart' => Established'
  BY <1>1, <1>2 DEF Established, Streaming
<1> QED
  BY <1>1, <1>2, <1>3, <1>4 DEF StreamInv

\* Validation's two reads, and the floor and frontier they find.
LEMMA ReadStep ==
  ASSUME StreamInv, ReadMin \/ ReadContiguous
  PROVE  StreamInv'
<1> USE StorageAssumption DEF Heights
<1>1. /\ UNCHANGED storageVars /\ UNCHANGED <<kind, from, to, openAtStart, h>>
      /\ \/ rpc = "min" /\ rpc' = "contig" /\ vmin' = minH /\ vcontig' = vcontig
         \/ rpc = "contig" /\ rpc' = "empty" /\ vcontig' = max_contiguous_height /\ vmin' = vmin
  BY DEF ReadMin, ReadContiguous, requestVars
<1>2. /\ StoreInv' /\ opened' = opened /\ minH' = minH /\ Stored' = Stored
      /\ max_contiguous_height' = max_contiguous_height
  BY <1>1, ReadsOnly
<1>3. /\ max_contiguous_height \in Heights /\ minH \in Heights
      /\ opened => minH..max_contiguous_height \subseteq Stored
  BY Frontier DEF StreamInv, StoreInv, StorageTypeOK
<1>4. StreamTypeOK'
  BY <1>1, <1>3 DEF StreamInv, StreamTypeOK
<1>5. Established => Established'
  BY <1>1, <1>2, <1>3 DEF Established, Streaming
<1> QED
  BY <1>1, <1>2, <1>4, <1>5 DEF StreamInv

\* A range that passes lies within what the two reads found.
LEMMA ValidateStep ==
  ASSUME StreamInv, Validate
  PROVE  StreamInv'
<1> USE StorageAssumption, RangeStreamAssumption DEF Heights
<1>1. /\ UNCHANGED storageVars /\ UNCHANGED <<kind, from, to, openAtStart, vmin, vcontig>>
      /\ rpc = "empty"
      /\ IF Valid THEN rpc' = "stream" /\ h' = from ELSE rpc' = "rejected" /\ h' = 0
  BY DEF Validate, requestVars
<1>2. /\ StoreInv' /\ opened' = opened /\ minH' = minH /\ Stored' = Stored
      /\ max_contiguous_height' = max_contiguous_height /\ BulkEnd' = BulkEnd
  BY <1>1, ReadsOnly DEF BulkEnd
<1>3. StreamTypeOK /\ minH \in Heights
  BY DEF StreamInv, StoreInv, StorageTypeOK
<1>4. StreamTypeOK'
  BY <1>1, <1>3 DEF StreamTypeOK, Streaming
<1>5. BulkEnd \in Int
  BY <1>3 DEF BulkEnd, MinOf, StreamTypeOK
<1>6. Valid => vmin <= from
      /\ (kind = "bulk" => BulkEnd <= vcontig /\ from <= BulkEnd /\ BulkEnd - from + 1 <= MaxBlocks)
      /\ (kind # "bulk" /\ to # OpenEnded => to <= vcontig)
  BY <1>3 DEF Valid, BulkValid, SubscriptionValid, StreamTypeOK
<1>7. Established => Established'
  BY <1>1, <1>2, <1>3, <1>5, <1>6 DEF Established, Streaming, StreamTypeOK
<1> QED
  BY <1>1, <1>2, <1>4, <1>7 DEF StreamInv

\* The end, re-read on each pass, is never past the frontier.
LEMMA PassStep ==
  ASSUME StreamInv, Pass
  PROVE  StreamInv'
<1> USE StorageAssumption, RangeStreamAssumption DEF Heights
<1>1. /\ UNCHANGED storageVars /\ UNCHANGED <<kind, from, to, openAtStart, vmin, vcontig, h>>
      /\ rpc = "stream" /\ rpc' = IF h > Target THEN "done" ELSE "read"
  BY DEF Pass, requestVars
<1>2. /\ StoreInv' /\ opened' = opened /\ minH' = minH /\ Stored' = Stored
      /\ max_contiguous_height' = max_contiguous_height /\ BulkEnd' = BulkEnd
  BY <1>1, ReadsOnly DEF BulkEnd
<1>3. /\ StreamTypeOK /\ minH \in Heights /\ max_contiguous_height \in Heights
      /\ opened => minH..max_contiguous_height \subseteq Stored
  BY Frontier DEF StreamInv, StoreInv, StorageTypeOK
<1>4. /\ BulkEnd \in Int /\ BulkEnd <= MaxHeight
      /\ BulkEnd = to \/ BulkEnd = vcontig \/ BulkEnd = from + MaxBlocks - 1
      /\ to # OpenEnded => BulkEnd = to
  BY <1>3 DEF BulkEnd, MinOf, StreamTypeOK, OpenEnded
<1>5. Target \in Int /\ Target <= MaxHeight
  BY <1>3, <1>4 DEF Target, StreamTypeOK, OpenEnded
<1>6. StreamTypeOK'
  BY <1>1, <1>3, <1>5 DEF StreamTypeOK, Streaming
<1>7. ASSUME Established PROVE Established'
  <2>1. /\ opened /\ vmin = minH /\ minH..vcontig \subseteq Stored /\ vcontig <= max_contiguous_height
        /\ minH <= from /\ from <= h /\ from..(h - 1) \subseteq Stored
        /\ kind = "bulk" => BulkEnd <= vcontig /\ h <= BulkEnd + 1 /\ BulkEnd - from + 1 <= MaxBlocks
        /\ kind # "bulk" /\ to # OpenEnded => to <= vcontig
    BY <1>1, <1>7 DEF Established, Streaming
  <2>2. CASE h > Target
    <3>1. h > vcontig \/ (to # OpenEnded /\ h > to) \/ (kind = "bulk" /\ h - from = MaxBlocks)
      <4>1. CASE kind = "bulk"
        BY <1>3, <1>4, <2>1, <2>2, <4>1 DEF Target, BulkEnd, MinOf, StreamTypeOK, OpenEnded
      <4>2. CASE kind # "bulk"
        BY <1>3, <2>1, <2>2, <4>2 DEF Target, StreamTypeOK
      <4> QED
        BY <4>1, <4>2
    <3> QED
      BY <1>1, <1>2, <2>1, <2>2, <3>1 DEF Established, Streaming
  <2>3. CASE ~(h > Target)
    <3>1. h \in Stored /\ (kind = "bulk" => h <= BulkEnd)
      BY <1>3, <1>4, <1>5, <2>1, <2>3 DEF Target, StreamTypeOK
    <3> QED
      BY <1>1, <1>2, <2>1, <2>3, <3>1 DEF Established, Streaming
  <2> QED
    BY <2>2, <2>3
<1> QED
  BY <1>1, <1>2, <1>6, <1>7 DEF StreamInv

\* A height is read and sent: it is there.
LEMMA SendStep ==
  ASSUME StreamInv, Send
  PROVE  StreamInv'
<1> USE StorageAssumption, RangeStreamAssumption DEF Heights
<1>1. /\ UNCHANGED storageVars /\ UNCHANGED <<kind, from, to, openAtStart, vmin, vcontig>>
      /\ rpc = "read"
      /\ IF rec[h] # Absent THEN rpc' = "stream" /\ h' = h + 1 ELSE rpc' = "hole" /\ h' = h
  BY DEF Send, requestVars
<1>2. /\ StoreInv' /\ opened' = opened /\ minH' = minH /\ Stored' = Stored
      /\ max_contiguous_height' = max_contiguous_height /\ BulkEnd' = BulkEnd
  BY <1>1, ReadsOnly DEF BulkEnd
<1>3. StreamTypeOK /\ minH \in Heights /\ h \in Heights
  BY <1>1 DEF StreamInv, StoreInv, StorageTypeOK, StreamTypeOK
<1>4. StreamTypeOK'
  BY <1>1, <1>3 DEF StreamTypeOK, Streaming
<1>5. BulkEnd \in Int
  BY <1>3 DEF BulkEnd, MinOf, StreamTypeOK
<1>6. ASSUME Established PROVE Established'
  <2>1. h \in Stored /\ rec[h] # Absent
    BY <1>1, <1>6 DEF Established, Stored
  <2>2. /\ opened /\ vmin = minH /\ minH..vcontig \subseteq Stored /\ vcontig <= max_contiguous_height
        /\ minH <= from /\ from <= h /\ from..(h - 1) \subseteq Stored
        /\ kind = "bulk" => BulkEnd <= vcontig /\ h <= BulkEnd /\ BulkEnd - from + 1 <= MaxBlocks
        /\ kind # "bulk" /\ to # OpenEnded => to <= vcontig
    BY <1>1, <1>6 DEF Established, Streaming
  <2>3. from..h \subseteq Stored /\ from <= h + 1 /\ (h + 1) - 1 = h
        /\ (kind = "bulk" => h + 1 <= BulkEnd + 1)
    BY <1>3, <1>5, <2>1, <2>2 DEF StreamTypeOK
  <2> QED
    BY <1>1, <1>2, <2>1, <2>2, <2>3 DEF Established, Streaming
<1> QED
  BY <1>1, <1>2, <1>4, <1>6 DEF StreamInv

\* The connection or the stream is closed under the request.
LEMMA ClosedStep ==
  ASSUME StreamInv, Closes \/ StreamDropped
  PROVE  StreamInv'
<1>1. /\ UNCHANGED storageVars /\ UNCHANGED <<kind, from, to, openAtStart, vmin, vcontig, h>>
      /\ rpc' = "closed" \/ rpc' = rpc
  BY DEF Closes, StreamDropped, requestVars
<1>2. /\ StoreInv' /\ opened' = opened /\ minH' = minH /\ Stored' = Stored
      /\ max_contiguous_height' = max_contiguous_height /\ BulkEnd' = BulkEnd
  BY <1>1, ReadsOnly DEF BulkEnd
<1>3. StreamTypeOK'
  BY <1>1 DEF StreamInv, StreamTypeOK, Streaming
<1>4. openAtStart /\ rpc # "idle" => Established'
  BY <1>1, <1>2 DEF StreamInv, Established, Streaming
<1> QED
  BY <1>1, <1>2, <1>3, <1>4 DEF StreamInv

\* Every step keeps what is said of the range.
LEMMA StreamStep ==
  ASSUME StreamInv, [ServingNext]_servingVars
  PROVE  StreamInv'
<1>1. CASE UNCHANGED <<requestVars, rpc, vmin, vcontig, h>>
  BY <1>1, StoreStep, OthersStep DEF StreamInv
<1>2. \/ UNCHANGED <<requestVars, rpc, vmin, vcontig, h>>
      \/ Arrives \/ ReadMin \/ ReadContiguous \/ Validate \/ Pass \/ Send \/ Closes \/ StreamDropped
  BY DEF ServingNext, servingVars, vars, WriterPuts, Accept, poll_read, ReadsStore, Answer, Push,
         ReadFails, ReadPends, WriteStalls, poll_pending, Tick, Reap, ClientDrains, ClientSends,
         ConnectionCloses, HealthAsked, HealthReadsEmpty, HealthReadsMin, HealthReadsContiguous,
         HealthReadsHigh
<1> QED
  BY <1>1, <1>2, ArrivesStep, ReadStep, ValidateStep, PassStep, SendStep, ClosedStep

\* The invariant holds throughout.
LEMMA StreamInvariant == ServingSpec => []StreamInv
<1>1. ServingInit => StreamInv
  <2> SUFFICES ASSUME ServingInit PROVE StreamInv
    OBVIOUS
  <2>1. StoreInv /\ ~opened
    BY InitStore DEF ServingInit, Init, StorageInit
  <2>2. StreamTypeOK /\ rpc = "idle"
    BY StorageAssumption DEF ServingInit, Init, StreamTypeOK, Heights
  <2>3. ~openAtStart
    BY DEF ServingInit, Init
  <2> QED
    BY <2>1, <2>2, <2>3 DEF StreamInv
<1>2. StreamInv /\ [ServingNext]_servingVars => StreamInv'
  BY StreamStep
<1> QED
  BY <1>1, <1>2, PTL DEF ServingSpec

\* A range that validates is served without a hole, for every range, every filling
\* order and every chain.
THEOREM GaplessOnceOpenAlways == ServingSpec => []GaplessOnceOpen
<1>1. StreamInv => GaplessOnceOpen
  BY DEF StreamInv, Established, GaplessOnceOpen
<1> QED
  BY <1>1, StreamInvariant, PTL

\* And one served to its end delivered all of it.
THEOREM ServedToTheEndAlways == ServingSpec => []ServedToTheEnd
<1>1. StreamInv => ServedToTheEnd
  BY DEF StreamInv, Established, ServedToTheEnd, Streaming
<1> QED
  BY <1>1, StreamInvariant, PTL

------------------------------------------------------------------------------
(* The timer of a silent connection. *)

\* A connection that has been silent for the whole timeout is past its deadline,
\* and a driver that sleeps on a read or a write has registered the timer: there
\* is always something to wake it.
SilentIsDue ==
  conn = "open" /\ quiet >= IdleTicks => left = 0 /\ (waits # "nothing" => armed)

SilentInv ==
  /\ left \in Nat /\ quiet \in Nat
  /\ conn = "none" => quiet = 0 /\ waits = "nothing"
  /\ conn = "open" => left = 0 \/ left + quiet <= IdleTicks
  /\ conn = "open" /\ waits # "nothing" => armed

\* Every poll that leaves the driver waiting polls the deadline too.
LEMMA SilentStep ==
  ASSUME SilentInv, [ServingNext]_servingVars
  PROVE  SilentInv'
<1> USE ServingAssumption DEF SilentInv
<1>1. CASE UNCHANGED <<conn, waits, left, armed, quiet>>
  BY <1>1
<1>2. CASE conn = "open" /\ conn' = conn /\ reset_timeout
  BY <1>2 DEF reset_timeout
<1>3. CASE Tick
  BY <1>3 DEF Tick
<1>4. CASE Reap \/ ConnectionCloses
  BY <1>4 DEF Reap, ConnectionCloses
<1>5. CASE Accept
  BY <1>5 DEF Accept
<1>6. CASE ReadPends \/ WriteStalls
  BY <1>6 DEF ReadPends, WriteStalls, poll_pending
<1>7. \/ UNCHANGED <<conn, waits, left, armed, quiet>>
      \/ conn = "open" /\ conn' = conn /\ reset_timeout
      \/ Tick \/ Reap \/ ConnectionCloses \/ Accept \/ ReadPends \/ WriteStalls
  BY DEF ServingNext, servingVars, connVars, poll_read, ReadsStore, Answer, Push, ReadFails,
         poll_write, Written, ClientDrains, ClientSends,
         HealthAsked, HealthReadsEmpty, HealthReadsMin, HealthReadsContiguous, HealthReadsHigh
<1> QED
  BY <1>1, <1>2, <1>3, <1>4, <1>5, <1>6, <1>7

\* The safety half of SilentConnectionEnds, for every timeout and socket size: no
\* connection outlives its deadline without a timer to reap it (reset_timeout and
\* the pending arms of poll_read and poll_write).
THEOREM SilentIsAlwaysDue == ServingSpec => []SilentIsDue
<1>1. ServingInit => SilentInv
  BY DEF ServingInit, SilentInv
<1>2. SilentInv /\ [ServingNext]_servingVars => SilentInv'
  BY SilentStep
<1>3. SilentInv => SilentIsDue
  BY ServingAssumption DEF SilentInv, SilentIsDue
<1> QED
  BY <1>1, <1>2, <1>3, PTL DEF ServingSpec

------------------------------------------------------------------------------
(* Types. *)

\* The variables of the connection and of the report.
ConnTypes ==
  /\ conn \in {"none", "open", "reaped", "closed"}
  /\ waits \in {"nothing", "read", "write"}
  /\ left \in 0..IdleTicks /\ armed \in BOOLEAN
  /\ out \in 0..SocketCap /\ quiet \in 0..(IdleTicks + 1)

ReportTypes ==
  /\ health \in {"idle", "empty", "min", "contig", "high", "done"}
  /\ rempty \in BOOLEAN /\ rmin \in Heights /\ rmc \in Heights /\ rhw \in Heights

\* A request knows whether the store existed when it came.
KnowsOpen == openAtStart \in BOOLEAN

\* A full socket takes no frame, and the clock stops past the timeout.
LEMMA ConnTypesStep ==
  ASSUME ConnTypes, [ServingNext]_servingVars
  PROVE  ConnTypes'
<1> USE ServingAssumption DEF ConnTypes
<1>1. CASE UNCHANGED connVars
  BY <1>1 DEF connVars
<1>2. CASE poll_write
  BY <1>2 DEF poll_write, Written, reset_timeout
<1>3. CASE poll_read \/ ClientSends
  <2>1. left' = IdleTicks /\ armed' = TRUE /\ quiet' = 0 /\ UNCHANGED <<conn, waits, out>>
    BY <1>3 DEF poll_read, ClientSends, reset_timeout
  <2> QED
    BY <2>1
<1>4. CASE ReadPends \/ WriteStalls
  BY <1>4 DEF ReadPends, WriteStalls, poll_pending
<1>5. CASE Tick
  BY <1>5 DEF Tick
<1>6. CASE Reap \/ ConnectionCloses
  BY <1>6 DEF Reap, ConnectionCloses
<1>7. CASE Accept
  BY <1>7 DEF Accept
<1>8. CASE ClientDrains
  BY <1>8 DEF ClientDrains
<1>9. \/ UNCHANGED connVars \/ poll_write \/ poll_read \/ ClientSends \/ ReadPends \/ WriteStalls
      \/ Tick \/ Reap \/ ConnectionCloses \/ Accept \/ ClientDrains
  BY DEF ServingNext, servingVars, ReadsStore, Answer, Push, ReadFails,
         HealthAsked, HealthReadsEmpty, HealthReadsMin, HealthReadsContiguous, HealthReadsHigh
<1> QED
  BY <1>1, <1>2, <1>3, <1>4, <1>5, <1>6, <1>7, <1>8, <1>9

\* A report's numbers are heights of the chain, an empty store's zeros included.
LEMMA ReportTypesStep ==
  ASSUME StoreInv, ReportTypes, [ServingNext]_servingVars
  PROVE  ReportTypes'
<1> USE DEF ReportTypes
<1>1. CASE UNCHANGED reportVars
  BY <1>1 DEF reportVars
<1>2. CASE HealthAsked
  BY <1>2 DEF HealthAsked
<1>3. CASE HealthReadsEmpty
  <2>1. rempty' \in BOOLEAN
    BY <1>3, Zenon DEF HealthReadsEmpty, is_empty
  <2> QED
    BY <1>3, <2>1 DEF HealthReadsEmpty
<1>4. CASE HealthReadsMin
  BY <1>4 DEF HealthReadsMin, StoreInv, StorageTypeOK
<1>5. CASE HealthReadsContiguous
  BY <1>5, Frontier DEF HealthReadsContiguous
<1>6. CASE HealthReadsHigh
  <2>1. Stored \in SUBSET Heights
    BY DEF Stored
  <2>2. high_water \in Heights
    BY <2>1, HighestOfIsHighest DEF high_water
  <2> QED
    BY <1>6, <2>2 DEF HealthReadsHigh
<1>7. \/ UNCHANGED reportVars
      \/ HealthAsked \/ HealthReadsEmpty \/ HealthReadsMin \/ HealthReadsContiguous \/ HealthReadsHigh
  BY DEF ServingNext, servingVars, Accept, poll_read, ReadsStore, Answer, Push, ReadFails,
         ReadPends, WriteStalls, poll_pending, Tick, Reap, ClientDrains, ClientSends,
         ConnectionCloses
<1> QED
  BY <1>1, <1>2, <1>3, <1>4, <1>5, <1>6, <1>7

\* Type correctness, for every chain, socket and timeout: the socket holds no more
\* frames than it takes, and a range or report never leaves the chain.
THEOREM VTypeCorrect == ServingSpec => []ServingTypeOK
<1>1. ServingInit => ConnTypes /\ ReportTypes /\ KnowsOpen
  <2> SUFFICES ASSUME ServingInit PROVE ConnTypes /\ ReportTypes /\ KnowsOpen
    OBVIOUS
  <2>1. armed \in BOOLEAN /\ rempty \in BOOLEAN /\ openAtStart \in BOOLEAN
    BY Zenon DEF ServingInit, Init
  <2> QED
    BY <2>1, StorageAssumption, ServingAssumption
       DEF ServingInit, ConnTypes, ReportTypes, KnowsOpen, Heights
<1>2. StreamInv /\ KnowsOpen /\ [ServingNext]_servingVars => KnowsOpen'
  <2> SUFFICES ASSUME StreamInv, KnowsOpen, [ServingNext]_servingVars
               PROVE  KnowsOpen'
    OBVIOUS
  <2>1. opened \in BOOLEAN
    BY DEF StreamInv, StoreInv, StorageTypeOK
  <2>2. openAtStart' = openAtStart \/ openAtStart' = opened
    BY DEF ServingNext, servingVars, vars, WriterPuts, Accept, poll_read, ReadsStore, Answer, Push,
         ReadFails, ReadPends, WriteStalls, poll_pending, Tick, Reap, ClientDrains, ClientSends,
         ConnectionCloses, HealthAsked, HealthReadsEmpty, HealthReadsMin, HealthReadsContiguous,
         HealthReadsHigh, Arrives, ReadMin, ReadContiguous, Validate, Pass, Send, Closes,
         StreamDropped, requestVars
  <2> QED
    BY <2>1, <2>2 DEF KnowsOpen
<1>3. StreamInv /\ ConnTypes /\ ReportTypes /\ [ServingNext]_servingVars => ConnTypes' /\ ReportTypes'
  BY ConnTypesStep, ReportTypesStep DEF StreamInv
<1>4. StreamInv /\ ConnTypes /\ ReportTypes /\ KnowsOpen => ServingTypeOK
  BY DEF StreamInv, StoreInv, StreamTypeOK, Streaming, ConnTypes, ReportTypes, KnowsOpen, ServingTypeOK,
         TypeOK
<1> QED
  BY <1>1, <1>2, <1>3, <1>4, StreamInvariant, PTL DEF ServingSpec

==============================================================================
