-------------------------------- MODULE CChain --------------------------------
(***************************************************************************)
(* The C-chain pipeline (src/src/eth/ingest.rs, src/src/eth/backfill.rs):  *)
(* one process runs a serial live task, fed by the upstream's newHeads     *)
(* (newBlocks when it mirrors another neve), and a backfill task that      *)
(* closes every gap between the store's contiguous frontier and the tip.   *)
(* They share the store and, with log ingestion on, the live task holds a  *)
(* block in the join buffer while its logs are fetched.  A mirror first    *)
(* streams the upstream's historical range.                                *)
(*                                                                         *)
(* Every await is a point where the other task may run: an action is what  *)
(* happens between two of them.  The upstream's chain only grows, a fetch  *)
(* may fail, and the process may crash and restart.                        *)
(***************************************************************************)
EXTENDS JoinBuffer, StoreView, Sequences

CONSTANTS IngestLogs,     \* cfg.ingest_logs
          Receipts,       \* cfg.logs_source is LogsSource::Receipts
          Mirror,         \* cfg.subscribe_blocks: the upstream is a neve
          HasData,        \* the heights whose block emitted logs
          LOGS_WINDOW,    \* the longest run filled before re-measuring
          Concurrency,    \* cfg.backfill_concurrency
          Failing,        \* the upstream requests that may fail
          MaxFaults       \* bound: crashes and I/O errors in a behaviour

ASSUME CChainAssumption ==
  /\ IngestLogs \in BOOLEAN
  /\ Receipts \in BOOLEAN
  /\ Mirror \in BOOLEAN
  /\ HasData \subseteq Heights
  /\ LOGS_WINDOW \in Nat \ {0}
  /\ Concurrency \in Nat \ {0}
  /\ Failing \subseteq {"stream", "head", "logs", "tip", "window", "block"}
  /\ MaxFaults \in Nat

VARIABLES
  tip,         \* the upstream's chain tip
  pending,     \* the join buffer's map
  announced,   \* the heights published to live subscribers so far
  lpc,         \* the live task's position
  lh,          \* the height it works on
  lend,        \* the bootstrap's target
  lhalf,       \* the logs half it is about to write
  bpc,         \* the backfill task's position
  bhw,         \* hw, read at the top of the loop
  bcont,       \* contiguous
  btarget,     \* target
  bnext,       \* the next height fill_range persists
  bend,        \* the last height of the run
  window,      \* LogWindow: the heights that have a bucket of logs
  ahead,       \* fetch_one results in flight, in height order from bnext
  tipHeight,   \* TipCache.height
  tipRead,     \* TipCache.fetched is Some
  floorSet,    \* cfg.backfill_floor is Some in this run of the process
  behind_tip,  \* the shared gauge /health reports
  faults       \* crashes and I/O errors so far

liveVars == <<lpc, lh, lend, lhalf>>
fillVars == <<bpc, bhw, bcont, btarget, bnext, bend, window, ahead, tipHeight,
              tipRead, behind_tip>>
worldVars == <<tip, floorSet, faults>>
vars == <<storageVars, pending, announced, liveVars, fillVars, worldVars>>

\* What the upstream answers when asked for the logs of a height.
LogsAt(h) == IF h \in HasData THEN "data" ELSE "[]"

Floor == IF floorSet THEN FloorAt ELSE 0      \* backfill_floor.unwrap_or(0)

LivePCs == {"boot", "bootRecv", "bootIndex", "idle", "fetch", "logs", "write", "index"}
FillPCs == {"start", "hw", "contig", "tip", "window", "fetch", "index"}
Results == {"skip", "block", "none"}

TypeOK ==
  /\ StorageTypeOK
  /\ tip \in Heights
  /\ pending \in [Heights -> Pendings]
  /\ announced \in SUBSET Heights
  /\ lpc \in LivePCs /\ lh \in Heights /\ lend \in Heights /\ lhalf \in Halves
  /\ bpc \in FillPCs /\ bhw \in Heights /\ bcont \in Heights
  /\ btarget \in Heights /\ bnext \in 0..(MaxHeight + 1) /\ bend \in Heights
  /\ window \in SUBSET Heights
  /\ ahead \in Seq(Results) /\ Len(ahead) <= Concurrency
  /\ tipHeight \in Heights /\ tipRead \in BOOLEAN
  /\ floorSet \in BOOLEAN
  /\ behind_tip \in Heights
  /\ faults \in 0..MaxFaults

\* What a fresh process holds in memory.
MemoryInit ==
  /\ pending = NothingPending
  /\ lpc = (IF Mirror THEN "boot" ELSE "idle")
  /\ lh = 0 /\ lend = 0 /\ lhalf = "[]"
  /\ bpc = "start" /\ bhw = 0 /\ bcont = 0 /\ btarget = 0 /\ bnext = 0 /\ bend = 0
  /\ window = {} /\ ahead = <<>>
  /\ tipHeight = 0 /\ tipRead = FALSE
  /\ behind_tip = 0

Init ==
  /\ StorageInit
  /\ MemoryInit
  /\ tip = 0
  /\ announced = {}
  /\ floorSet = HasFloor
  /\ faults = 0

------------------------------------------------------------------------------
(* The upstream's chain and faults of the process. *)

Grow ==
  /\ tip < MaxHeight
  /\ tip' = tip + 1
  /\ UNCHANGED <<storageVars, pending, announced, liveVars, fillVars, floorSet, faults>>

\* Memory is lost: the initial values again.
MemoryLost ==
  /\ pending' = NothingPending
  /\ lpc' = (IF Mirror THEN "boot" ELSE "idle")
  /\ lh' = 0 /\ lend' = 0 /\ lhalf' = "[]"
  /\ bpc' = "start" /\ bhw' = 0 /\ bcont' = 0 /\ btarget' = 0 /\ bnext' = 0 /\ bend' = 0
  /\ window' = {} /\ ahead' = <<>>
  /\ tipHeight' = 0 /\ tipRead' = FALSE
  /\ behind_tip' = 0

\* The process dies and is started again: the store survives, memory does not,
\* and an existing store makes resolve_anchor_floor ignore the configured floor.
Crash ==
  /\ faults < MaxFaults
  /\ faults' = faults + 1
  /\ MemoryLost
  /\ floorSet' = (HasFloor /\ ~opened)
  /\ UNCHANGED <<storageVars, tip, announced>>

------------------------------------------------------------------------------
(* The mirror's bootstrap: bootstrap_via_oldblocks, run before anything else. *)

\* The upstream's contiguous height is read once, from its /health.
BootStart ==
  /\ lpc = "boot"
  /\ LET from == MaxOf(Floor, max_contiguous_height + 1)
     IN \E target \in 0..tip :
          IF from > target
          THEN lpc' = "idle" /\ UNCHANGED <<lh, lend>>
          ELSE lpc' = "bootRecv" /\ lh' = from /\ lend' = target
  /\ UNCHANGED <<storageVars, pending, announced, lhalf, fillVars, worldVars>>

\* Mutant: a failed bootstrap is retried and never hands over to backfill.
BootFailRetries ==
  /\ "stream" \in Failing
  /\ lpc \in {"boot", "bootRecv"}
  /\ lpc' = "boot" /\ lh' = 0 /\ lend' = 0
  /\ UNCHANGED <<storageVars, pending, announced, lhalf, fillVars, worldVars>>

\* A failure to probe, a stream that ends, stalls or is refused.
BootFail ==
  /\ "stream" \in Failing
  /\ lpc \in {"boot", "bootRecv"}
  /\ lpc' = "idle" /\ lh' = 0 /\ lend' = 0
  /\ UNCHANGED <<storageVars, pending, announced, lhalf, fillVars, worldVars>>

\* A block of the stream is persisted with an empty logs half.
BootBlock ==
  /\ lpc = "bootRecv"
  /\ PutBlock(lh, "[]")
  /\ lpc' = "bootIndex"
  /\ UNCHANGED <<idx, pending, announced, lh, lend, lhalf, fillVars, worldVars>>

BootIndex ==
  /\ lpc = "bootIndex"
  /\ PutIndex(lh)
  /\ IF lh >= lend
     THEN lpc' = "idle" /\ lh' = 0 /\ lend' = 0
     ELSE lpc' = "bootRecv" /\ lh' = lh + 1 /\ UNCHANGED lend
  /\ UNCHANGED <<opened, minH, rec, pending, announced, lhalf, fillVars, worldVars>>

------------------------------------------------------------------------------
(* The live task: run_session.  Heads may be missed, repeated and arrive in   *)
(* any order: the upstream is a pool, and a reconnect may land on a backend   *)
(* that lags.                                                                 *)

NewHead ==
  /\ lpc = "idle"
  /\ \E h \in 1..tip : lh' = h
  /\ lpc' = "fetch"
  /\ UNCHANGED <<storageVars, pending, announced, lend, lhalf, fillVars, worldVars>>

\* No body within the retry budget, or prepare_block rejects it: skip the head.
HeadSkipped ==
  /\ "head" \in Failing
  /\ lpc = "fetch"
  /\ lpc' = "idle" /\ lh' = 0
  /\ UNCHANGED <<storageVars, pending, announced, lend, lhalf, fillVars, worldVars>>

\* persist_block: written at once with an empty logs half.
BlockPlain ==
  /\ ~IngestLogs
  /\ lpc = "fetch"
  /\ lpc' = "write" /\ lhalf' = "[]"
  /\ UNCHANGED <<storageVars, pending, announced, lh, lend, fillVars, worldVars>>

\* persist_block_logs: into the join buffer, and announced unless flushed.  Only
\* this task calls on_logs, after on_block, so no logs half ever waits here.
BlockJoin ==
  /\ IngestLogs
  /\ lpc = "fetch"
  /\ LET out == on_block(pending, lh)
     IN /\ pending' = out.pending
        /\ IF out.act = "deferred"
           THEN lpc' = "idle" /\ lh' = 0 /\ UNCHANGED announced
           ELSE lpc' = "logs" /\ announced' = announced \cup {lh} /\ UNCHANGED lh
  /\ UNCHANGED <<storageVars, lend, lhalf, fillVars, worldVars>>

\* The logs fetch fails: the block stays buffered, backfill is to re-derive it.
LogsNone ==
  /\ "logs" \in Failing
  /\ lpc = "logs"
  /\ lpc' = "idle" /\ lh' = 0
  /\ UNCHANGED <<storageVars, pending, announced, lend, lhalf, fillVars, worldVars>>

\* The logs arrive: on_logs takes the block out of the buffer under the lock,
\* and only then starts the write.
LogsJoin ==
  /\ lpc = "logs"
  /\ LET out == on_logs(pending, lh)
     IN /\ pending' = out.pending
        /\ IF out.act = "write"
           THEN lpc' = "write" /\ lhalf' = LogsAt(lh) /\ UNCHANGED lh
           ELSE lpc' = "idle" /\ lh' = 0 /\ UNCHANGED lhalf
  /\ UNCHANGED <<storageVars, announced, lend, fillVars, worldVars>>

LiveWrite ==
  /\ lpc = "write"
  /\ PutBlock(lh, lhalf)
  /\ lpc' = "index"
  /\ UNCHANGED <<idx, pending, announced, lh, lend, lhalf, fillVars, worldVars>>

\* The store refuses a height below its minimum: the session ends in an error.
LiveWriteRefused ==
  /\ lpc = "write"
  /\ BelowMinimum(lh)
  /\ lpc' = "idle" /\ lh' = 0 /\ lhalf' = "[]"
  /\ UNCHANGED <<storageVars, pending, announced, lend, fillVars, worldVars>>

\* Without log ingestion the block is announced once it is stored and indexed.
LiveIndex ==
  /\ lpc = "index"
  /\ PutIndex(lh)
  /\ announced' = IF IngestLogs THEN announced ELSE announced \cup {lh}
  /\ lpc' = "idle" /\ lh' = 0 /\ lhalf' = "[]"
  /\ UNCHANGED <<opened, minH, rec, pending, lend, fillVars, worldVars>>

\* Mutant: a block whose put failed is published all the same.
LivePutErrorAnnounces ==
  /\ lpc \in {"write", "index", "bootRecv", "bootIndex"}
  /\ faults < MaxFaults
  /\ faults' = faults + 1
  /\ announced' = announced \cup {lh}
  /\ lpc' = "idle" /\ lh' = 0 /\ lend' = 0 /\ lhalf' = "[]"
  /\ UNCHANGED <<storageVars, pending, fillVars, tip, floorSet>>

\* put fails with an I/O error - at its second stage the block is stored and its
\* index entries are not - and the session (or the bootstrap) ends in an error.
LivePutError ==
  /\ lpc \in {"write", "index", "bootRecv", "bootIndex"}
  /\ faults < MaxFaults
  /\ faults' = faults + 1
  /\ lpc' = "idle" /\ lh' = 0 /\ lend' = 0 /\ lhalf' = "[]"
  /\ UNCHANGED <<storageVars, pending, announced, fillVars, tip, floorSet>>

------------------------------------------------------------------------------
(* The backfill task: backfill_loop. *)

\* Back to the top of the loop with the locals of the iteration gone.
Remeasure ==
  /\ bpc' = "hw" /\ bhw' = 0 /\ bcont' = 0 /\ btarget' = 0
  /\ bnext' = 0 /\ bend' = 0 /\ ahead' = <<>>

\* wait_for_bootstrap: a stored permit is released once the bootstrap is over.
BackfillStart ==
  /\ bpc = "start"
  /\ lpc \notin {"boot", "bootRecv", "bootIndex"}
  /\ bpc' = "hw"
  /\ UNCHANGED <<storageVars, pending, announced, liveVars, bhw, bcont, btarget, bnext,
                 bend, window, ahead, tipHeight, tipRead, behind_tip, worldVars>>

\* With nothing stored and no floor the loop sleeps until a head anchors the store.
ReadHighWater ==
  /\ bpc = "hw"
  /\ high_water # 0 \/ floorSet
  /\ bhw' = high_water
  /\ bpc' = "contig"
  /\ UNCHANGED <<storageVars, pending, announced, liveVars, bcont, btarget, bnext, bend,
                 window, ahead, tipHeight, tipRead, behind_tip, worldVars>>

\* Mutant: the frontier is taken to be the high-water mark.
ReadContiguousHighWater ==
  /\ bpc = "contig"
  /\ bcont' = MaxOf(high_water, Pred(Floor))
  /\ bpc' = "tip"
  /\ UNCHANGED <<storageVars, pending, announced, liveVars, bhw, btarget, bnext, bend,
                 window, ahead, tipHeight, tipRead, behind_tip, worldVars>>

\* Mutant: the floor is left out before the store exists.
ReadContiguousNoFloor ==
  /\ bpc = "contig"
  /\ bcont' = max_contiguous_height
  /\ bpc' = "tip"
  /\ UNCHANGED <<storageVars, pending, announced, liveVars, bhw, btarget, bnext, bend,
                 window, ahead, tipHeight, tipRead, behind_tip, worldVars>>

ReadContiguous ==
  /\ bpc = "contig"
  /\ bcont' = MaxOf(max_contiguous_height, Pred(Floor))
  /\ bpc' = "tip"
  /\ UNCHANGED <<storageVars, pending, announced, liveVars, bhw, btarget, bnext, bend,
                 window, ahead, tipHeight, tipRead, behind_tip, worldVars>>

\* The decision of one iteration, once the upstream tip is taken to be t.
Plan(t) ==
  LET target == MaxOf(bhw, t)
  IN IF bcont >= target
     THEN behind_tip' = 0 /\ Remeasure
     ELSE /\ behind_tip' = target - bcont
          /\ btarget' = target
          /\ bnext' = bcont + 1
          /\ bend' = MinOf(target, bcont + LOGS_WINDOW)
          /\ bhw' = 0 /\ bcont' = 0
          /\ bpc' = (IF IngestLogs /\ ~Receipts THEN "window" ELSE "fetch")
          /\ UNCHANGED ahead

\* Mutant: the cached tip also decides that the store is caught up.
CachedTipServesAlways == tipRead

\* A cached tip serves only below something already known, and while it is fresh.
CachedTipServes == tipRead /\ bcont < MaxOf(bhw, tipHeight)

TipCached ==
  /\ bpc = "tip"
  /\ CachedTipServes
  /\ Plan(tipHeight)
  /\ UNCHANGED <<storageVars, pending, announced, liveVars, window, tipHeight, tipRead,
                 worldVars>>

TipFetched ==
  /\ bpc = "tip"
  /\ tipHeight' = tip /\ tipRead' = TRUE
  /\ Plan(tip)
  /\ UNCHANGED <<storageVars, pending, announced, liveVars, window, worldVars>>

\* A failed read keeps the last height and still counts as a fetch.
TipFailed ==
  /\ "tip" \in Failing
  /\ bpc = "tip"
  /\ tipRead' = TRUE
  /\ Plan(tipHeight)
  /\ UNCHANGED <<storageVars, pending, announced, liveVars, window, tipHeight, worldVars>>

\* fill_range loads one eth_getLogs for the whole run, replacing the last one.
WindowLoaded ==
  /\ bpc = "window"
  /\ window' = (bnext..bend) \cap HasData
  /\ bpc' = "fetch"
  /\ UNCHANGED <<storageVars, pending, announced, liveVars, bhw, bcont, btarget, bnext,
                 bend, ahead, tipHeight, tipRead, behind_tip, worldVars>>

\* Mutant: the run goes on without the logs it could not load.
WindowFailedGoesOn ==
  /\ "window" \in Failing
  /\ bpc = "window"
  /\ bpc' = "fetch"
  /\ UNCHANGED <<storageVars, pending, announced, liveVars, bhw, bcont, btarget, bnext,
                 bend, window, ahead, tipHeight, tipRead, behind_tip, worldVars>>

WindowFailed ==
  /\ "window" \in Failing
  /\ bpc = "window"
  /\ Remeasure
  /\ UNCHANGED <<storageVars, pending, announced, liveVars, window, tipHeight, tipRead,
                 behind_tip, worldVars>>

\* fetch_one, up to Concurrency of them ahead of the height being persisted.
FetchOne(h, result) ==
  /\ bpc = "fetch"
  /\ h = bnext + Len(ahead) /\ h <= bend
  /\ Len(ahead) < Concurrency
  /\ ahead' = Append(ahead, result)
  /\ UNCHANGED <<storageVars, pending, announced, liveVars, bpc, bhw, bcont, btarget,
                 bnext, bend, window, tipHeight, tipRead, behind_tip, worldVars>>

\* The live path got there first: skip.
FetchSkips(h) == rec[h] # Absent /\ FetchOne(h, "skip")

FetchBlock(h) == rec[h] = Absent /\ FetchOne(h, "block")

FetchFails(h) == "block" \in Failing /\ rec[h] = Absent /\ FetchOne(h, "none")

\* The logs half fill_range writes at h: off, from the receipts, or the window.
FillHalf(h) ==
  CASE ~IngestLogs -> "[]"
    [] IngestLogs /\ Receipts -> LogsAt(h)
    [] OTHER -> IF h \in window THEN "data" ELSE "[]"

\* The next height of the run, or the end of the run.
NextOfRun ==
  IF bnext >= bend
  THEN Remeasure
  ELSE /\ bpc' = "fetch" /\ bnext' = bnext + 1 /\ ahead' = Tail(ahead)
       /\ UNCHANGED <<bhw, bcont, btarget, bend>>

Ready(result) == bpc = "fetch" /\ ahead # <<>> /\ Head(ahead) = result

FillSkip ==
  /\ Ready("skip")
  /\ NextOfRun
  /\ UNCHANGED <<storageVars, pending, announced, liveVars, window, tipHeight, tipRead,
                 behind_tip, worldVars>>

\* A failed fetch cuts the run short, what was fetched beyond it included.
FillNone ==
  /\ Ready("none")
  /\ Remeasure
  /\ UNCHANGED <<storageVars, pending, announced, liveVars, window, tipHeight, tipRead,
                 behind_tip, worldVars>>

\* Mutant: the index batch is committed ahead of the block.
FillBlockIndexFirst ==
  /\ Ready("block")
  /\ PutIndex(bnext)
  /\ bpc' = "index"
  /\ UNCHANGED <<opened, minH, rec, pending, announced, liveVars, bhw, bcont, btarget,
                 bnext, bend, window, ahead, tipHeight, tipRead, behind_tip, worldVars>>

\* persist_backfilled, first stage of put.
FillBlock ==
  /\ Ready("block")
  /\ PutBlock(bnext, FillHalf(bnext))
  /\ bpc' = "index"
  /\ UNCHANGED <<idx, pending, announced, liveVars, bhw, bcont, btarget, bnext, bend,
                 window, ahead, tipHeight, tipRead, behind_tip, worldVars>>

\* Mutant: backfill stores blocks without their index entries.
FillIndexForgets ==
  /\ bpc = "index"
  /\ behind_tip' = btarget - bnext
  /\ NextOfRun
  /\ UNCHANGED <<storageVars, pending, announced, liveVars, window, tipHeight, tipRead,
                 worldVars>>

FillIndex ==
  /\ bpc = "index"
  /\ PutIndex(bnext)
  /\ behind_tip' = btarget - bnext
  /\ NextOfRun
  /\ UNCHANGED <<opened, minH, rec, pending, announced, liveVars, window, tipHeight,
                 tipRead, worldVars>>

\* put fails, at either stage: the run is cut short.
FillPutError ==
  /\ bpc = "index" \/ Ready("block")
  /\ faults < MaxFaults
  /\ faults' = faults + 1
  /\ Remeasure
  /\ UNCHANGED <<storageVars, pending, announced, liveVars, window, tipHeight, tipRead,
                 behind_tip, tip, floorSet>>

------------------------------------------------------------------------------
Boot == BootStart \/ BootFail \/ BootBlock \/ BootIndex

Live ==
  \/ NewHead \/ HeadSkipped \/ BlockPlain \/ BlockJoin \/ LogsNone \/ LogsJoin
  \/ LiveWrite \/ LiveWriteRefused \/ LiveIndex \/ LivePutError

Fetch == \E h \in Heights : FetchSkips(h) \/ FetchBlock(h) \/ FetchFails(h)

Backfill ==
  \/ BackfillStart \/ ReadHighWater \/ ReadContiguous
  \/ TipCached \/ TipFetched \/ TipFailed
  \/ WindowLoaded \/ WindowFailed \/ Fetch
  \/ FillSkip \/ FillNone \/ FillBlock \/ FillIndex \/ FillPutError

Next == Grow \/ Crash \/ Boot \/ Live \/ Backfill

Spec == Init /\ [][Next]_vars

(***************************************************************************)
(* The tasks are spawned on a multi-threaded runtime and never blocked by  *)
(* each other, so each keeps stepping; the upstream may fail a request any *)
(* number of times but not for ever.  Nothing is assumed of the feed.      *)
(***************************************************************************)
Fairness ==
  /\ WF_vars(Boot)
  /\ WF_vars(Backfill)
  /\ SF_vars(TipFetched)
  /\ SF_vars(WindowLoaded)
  /\ \A h \in Heights : SF_vars(FetchBlock(h))

FairSpec == Spec /\ Fairness

------------------------------------------------------------------------------
(* Properties. *)

\* A hash or transaction entry never points at a height that is not stored:
\* put writes the block before it commits the index batch, and no crash, I/O
\* error or interleaving of the two writers turns that around.
IndexSound == idx \subseteq Stored

\* With log ingestion on, whatever is on disk at a height holds that height's
\* logs: `[]` is never written for logs that were not fetched (fill_range's
\* early return, the join buffer's pairing, the live task's failure path).
CompleteRecords == IngestLogs => \A h \in Stored : rec[h] = LogsAt(h)

\* With log ingestion off a block is published to subscribers only once both
\* stages of put are over, so a subscriber that asks for it by height or by
\* hash finds it, before and after a crash (persist_block's order).
AnnouncedDurable == ~IngestLogs => announced \subseteq (Stored \cap idx)

\* The join buffer never holds more heights than join_buffer_cap, whatever logs
\* fetches fail and leave their block behind.
BufferBounded == Cardinality(Held(pending)) <= Cap

\* The heights whose put is between its two stages.
InFlightPuts ==
  (IF lpc \in {"index", "bootIndex"} THEN {lh} ELSE {}) \cup (IF bpc = "index" THEN {bnext} ELSE {})

\* A stored block is unindexed only while its put is in flight or because a
\* fault cut a put short: one fault costs at most one block per writer.
IndexGapBounded ==
  Cardinality((Stored \ idx) \ InFlightPuts) <= 2 * faults

\* The height backfill is about to persist is never below the store's minimum,
\* although the live task may create the store, and so choose the minimum,
\* after backfill measured where to start.
BackfillNeverRefused == Ready("block") => ~BelowMinimum(bnext)

\* The floor is baked in at creation, records are never lost and the frontier
\* never retreats - what serve_range relies on to stream without a hole -
\* across writers, errors and restarts.
FrontierNeverRetreats ==
  [][opened => /\ opened' /\ minH' = minH
               /\ Stored \subseteq Stored'
               /\ max_contiguous_height <= max_contiguous_height']_vars

\* Backfill declares itself caught up only when every height from the floor to
\* the tip is stored: the upstream's tip of that moment while the upstream
\* answers, since the decision is never taken on a cached one (backfill_loop's
\* `known`), and the last one it gave when it may not (TipCache).
CaughtUpIsComplete ==
  [][(bpc = "tip" /\ bpc' = "hw")
       => LET known == IF "tip" \in Failing THEN tipHeight' ELSE tip
          IN \A h \in Heights : MaxOf(minH, Floor) <= h /\ h <= known => rec[h] # Absent]_vars

\* Every height from the store's minimum to the tip is eventually stored,
\* whatever the live task missed, skipped, deferred or lost.
GapsClose ==
  \A h \in Heights : (opened /\ minH <= h /\ h <= tip) ~> (rec[h] # Absent)

==============================================================================
