------------------------------- MODULE EthReads -------------------------------
(***************************************************************************)
(* One eth_* read served while the C-chain pipeline runs                   *)
(* (src/src/eth/rpc.rs, the readers of src/src/storage.rs): a block by     *)
(* number, tag, hash or through its transaction, and eth_getLogs over a    *)
(* range or of one block.  A handler reads the index, the store and the    *)
(* join buffer in separate awaits, so that the pipeline's tasks write in   *)
(* between.  A null result, which the HTTP layer turns into a 421, is      *)
(* "miss" where there is no index entry to follow and "null" where a       *)
(* height was looked for and not found.                                    *)
(***************************************************************************)
EXTENDS CChain

CONSTANTS GETLOGS_READ_CHUNK,  \* heights read under one lock
          MAX_GETLOGS_RANGE    \* the widest range eth_getLogs takes

ASSUME EthReadsAssumption ==
  /\ GETLOGS_READ_CHUNK \in Nat \ {0}
  /\ MAX_GETLOGS_RANGE \in Nat \ {0}

VARIABLES
  rpc,      \* the request's position
  ask,      \* the request: what is asked for, and the heights or tags given
  from, to, \* the heights they resolve to
  rmin,     \* min, as get_logs read it
  next,     \* chunk_start
  got,      \* the heights whose logs are in `out`
  inside,   \* the heights asked for were within the gapless range on arrival
  ans       \* the answer

readVars == <<rpc, ask, from, to, rmin, next, got, inside, ans>>
readsVars == <<vars, readVars>>

Latest == -1                    \* the tags "latest", "finalized" and "safe"

Tags == Heights \cup {Latest}

\* A request that selects one block has the same tag twice.
Asks ==
  [kind : {"number"}, a : Tags, b : {Latest}]
    \cup [kind : {"hash", "tx", "logsHash"}, a : Heights, b : {Latest}]
    \cup [kind : {"logs"}, a : Tags, b : Tags]

NoAsk == [kind |-> "none", a |-> 0, b |-> 0]

Answers == {"none", "block", "logs", "miss", "null", "error"}

ReadsTypeOK ==
  /\ rpc \in {"idle", "tagFrom", "tagTo", "index", "store", "buffer", "min", "contig",
              "range", "done"}
  /\ ask \in Asks \cup {NoAsk}
  /\ from \in Heights /\ to \in Heights /\ rmin \in Heights /\ next \in Heights
  /\ got \in SUBSET Heights
  /\ inside \in BOOLEAN
  /\ ans \in Answers

ReadsInit ==
  /\ Init
  /\ rpc = "idle" /\ ask = NoAsk /\ from = 0 /\ to = 0 /\ rmin = 0 /\ next = 0
  /\ got = {} /\ inside = FALSE /\ ans = "none"

------------------------------------------------------------------------------
\* The range asked for is one the store holds without a gap.
Inside(r) ==
  /\ IngestLogs /\ r.kind = "logs" /\ r.a # Latest /\ r.b # Latest
  /\ opened /\ minH <= r.a /\ r.a <= r.b /\ r.b <= max_contiguous_height
  /\ r.b - r.a < MAX_GETLOGS_RANGE

Reading(r) == IF r.kind \in {"number", "logs"} THEN "tagFrom" ELSE "index"

\* Without log ingestion eth_getLogs defers to the upstream at once.
Arrives(r) ==
  /\ rpc = "idle"
  /\ ask' = r
  /\ inside' = Inside(r)
  /\ IF r.kind \in {"logs", "logsHash"} /\ ~IngestLogs
     THEN rpc' = "done" /\ ans' = "miss"
     ELSE rpc' = Reading(r) /\ UNCHANGED ans
  /\ UNCHANGED <<vars, from, to, rmin, next, got>>

Answer(a) ==
  /\ rpc' = "done" /\ ans' = a
  /\ UNCHANGED <<ask, from, to, rmin, next, got, inside>>

\* Mutant: "latest" is the upstream's tip, as backfill last saw it.
TagFromUpstream ==
  /\ rpc = "tagFrom"
  /\ IF ask.a = Latest /\ high_water = 0
     THEN Answer("error")
     ELSE /\ from' = IF ask.a = Latest THEN MaxOf(high_water, tipHeight) ELSE ask.a
          /\ rpc' = IF ask.kind = "logs" THEN "tagTo" ELSE "store"
          /\ UNCHANGED <<ask, to, rmin, next, got, inside, ans>>
  /\ UNCHANGED vars

\* resolve_block_tag: "latest" is the high-water mark, an error when that is 0.
TagFrom ==
  /\ rpc = "tagFrom"
  /\ IF ask.a = Latest /\ high_water = 0
     THEN Answer("error")
     ELSE /\ from' = IF ask.a = Latest THEN high_water ELSE ask.a
          /\ rpc' = IF ask.kind = "logs" THEN "tagTo" ELSE "store"
          /\ UNCHANGED <<ask, to, rmin, next, got, inside, ans>>
  /\ UNCHANGED vars

\* The end of the range, which must not precede its start or be too far.
TagTo ==
  /\ rpc = "tagTo"
  /\ LET t == IF ask.b = Latest THEN high_water ELSE ask.b
     IN IF (ask.b = Latest /\ high_water = 0) \/ from > t \/ t - from >= MAX_GETLOGS_RANGE
        THEN Answer("error")
        ELSE to' = t /\ rpc' = "min" /\ UNCHANGED <<ask, from, rmin, next, got, inside, ans>>
  /\ UNCHANGED vars

\* height_of_hash, get_tx_location.  Logs by hash skip the range check: the
\* block is there.
Index ==
  /\ rpc = "index"
  /\ IF ask.a \notin idx
     THEN Answer("miss")
     ELSE /\ from' = ask.a /\ to' = ask.a /\ next' = ask.a
          /\ rpc' = IF ask.kind = "logsHash" THEN "range" ELSE "store"
          /\ UNCHANGED <<ask, rmin, got, inside, ans>>
  /\ UNCHANGED vars

\* read_block_value: the store first; by hash the store only.
ReadStore ==
  /\ rpc = "store"
  /\ IF rec[from] # Absent THEN Answer("block")
     ELSE IF ask.kind = "hash" THEN Answer("null")
     ELSE rpc' = "buffer" /\ UNCHANGED <<ask, from, to, rmin, next, got, inside, ans>>
  /\ UNCHANGED vars

\* ... and the join buffer for a block whose logs are still being fetched.
ReadBuffer ==
  /\ rpc = "buffer"
  /\ Answer(IF buffered_block(pending, from) THEN "block" ELSE "null")
  /\ UNCHANGED vars

ReadMin ==
  /\ rpc = "min"
  /\ rmin' = minH
  /\ rpc' = "contig"
  /\ UNCHANGED <<vars, ask, from, to, next, got, inside, ans>>

\* Mutant: the lowest stored height is taken to be outside the range.
ReadContigStrict ==
  /\ rpc = "contig"
  /\ IF from <= rmin \/ to > max_contiguous_height
     THEN Answer("null")
     ELSE /\ rpc' = "range" /\ next' = from
          /\ UNCHANGED <<ask, from, to, rmin, got, inside, ans>>
  /\ UNCHANGED vars

\* Only a range that is present and gapless is answered from the store.
ReadContig ==
  /\ rpc = "contig"
  /\ IF from < rmin \/ to > max_contiguous_height
     THEN Answer("null")
     ELSE /\ rpc' = "range" /\ next' = from
          /\ UNCHANGED <<ask, from, to, rmin, got, inside, ans>>
  /\ UNCHANGED vars

\* read_element_range: None when any height is missing.
ChunkComplete(chunk) == \A h \in chunk : rec[h] # Absent

\* Mutant: the last height of a chunk is not read.
ReadRangeShort ==
  /\ rpc = "range"
  /\ LET end == MinOf(next + GETLOGS_READ_CHUNK - 1, to)
         chunk == next..(end - 1)
     IN IF ~ChunkComplete(chunk)
        THEN Answer("null")
        ELSE /\ got' = got \cup {h \in chunk : rec[h] = "data"}
             /\ IF end = to
                THEN rpc' = "done" /\ ans' = "logs" /\ UNCHANGED next
                ELSE next' = end + 1 /\ UNCHANGED <<rpc, ans>>
             /\ UNCHANGED <<ask, from, to, rmin, inside>>
  /\ UNCHANGED vars

\* Chunk after chunk, each under one read lock.
ReadRange ==
  /\ rpc = "range"
  /\ LET end == MinOf(next + GETLOGS_READ_CHUNK - 1, to)
         chunk == next..end
     IN IF ~ChunkComplete(chunk)
        THEN Answer("null")
        ELSE /\ got' = got \cup {h \in chunk : rec[h] = "data"}
             /\ IF end = to
                THEN rpc' = "done" /\ ans' = "logs" /\ UNCHANGED next
                ELSE next' = end + 1 /\ UNCHANGED <<rpc, ans>>
             /\ UNCHANGED <<ask, from, to, rmin, inside>>
  /\ UNCHANGED vars

------------------------------------------------------------------------------
\* The connection goes with the process.
ReadsCrash ==
  /\ Crash
  /\ rpc' = "idle" /\ ask' = NoAsk /\ from' = 0 /\ to' = 0 /\ rmin' = 0 /\ next' = 0
  /\ got' = {} /\ inside' = FALSE /\ ans' = "none"

Pipeline == (Grow \/ Boot \/ Live \/ Backfill) /\ UNCHANGED readVars

Reads ==
  \/ \E r \in Asks : Arrives(r)
  \/ TagFrom \/ TagTo \/ Index \/ ReadStore \/ ReadBuffer
  \/ ReadMin \/ ReadContig \/ ReadRange

ReadsNext == Pipeline \/ ReadsCrash \/ Reads

ReadsSpec == ReadsInit /\ [][ReadsNext]_readsVars

------------------------------------------------------------------------------
(* Properties. *)

\* An answered eth_getLogs holds every log of every height of its range,
\* whatever was being written, re-fetched or joined while it was served: a wrong
\* `[]` is never given for an answer (get_logs, read_element_range).
LogsAnswerComplete == ans = "logs" => got = (from..to) \cap HasData

\* A range that was gapless when the request came is answered, not deferred to
\* the upstream: the frontier and the minimum the handler reads later only
\* widen the range.
GaplessRangeAnswered == inside /\ rpc = "done" => ans = "logs"

\* The block "latest" names is served: the high-water mark a tag resolves to is
\* a stored block when it is read a moment later.
LatestServed == ask.kind = "number" /\ ask.a = Latest => ans # "null"

\* A block or transaction that the index knows is served, by hash or through
\* its transaction, and so are its logs.
IndexedServed == ask.kind \in {"hash", "tx", "logsHash"} => ans # "null"

==============================================================================
