----------------------------- MODULE RangeStream ------------------------------
(***************************************************************************)
(* One historical-range request against a store that is being filled: an   *)
(* oldBlocks / oldRecords subscription (serve_range of                     *)
(* src/src/subscribe.rs) or a GET /blocks download (serve_range of         *)
(* src/src/bulk.rs).  Both validate the range once, in separate awaited    *)
(* reads, and then read height after height.                               *)
(*                                                                         *)
(* The store is any GrowingStore: filled a height at a time, in any order, *)
(* as the C-chain's two tasks do.                                          *)
(***************************************************************************)
EXTENDS GrowingStore

CONSTANTS RequestKinds,  \* the requests considered: "subscription", "bulk", and "health"
          MaxBlocks      \* server.max_blocks_per_request

ASSUME RangeStreamAssumption ==
  /\ RequestKinds \subseteq {"subscription", "bulk", "health"}
  /\ MaxBlocks \in Nat \ {0}

VARIABLES
  kind,       \* what is asked; "health" asks for no range
  from,       \* the range asked for ...
  to,         \* ... and its end; OpenEnded when none was given
  rpc,        \* the request's position
  vmin,       \* min, as validation read it
  vcontig,    \* the contiguous tip, as validation read it
  h,          \* the next height to send
  openAtStart \* the store existed when the request arrived

requestVars == <<kind, from, to, openAtStart>>
vars == <<storageVars, requestVars, rpc, vmin, vcontig, h>>

OpenEnded == -1

TypeOK ==
  /\ StorageTypeOK
  /\ kind \in RequestKinds
  /\ from \in Heights /\ to \in Heights \cup {OpenEnded}
  /\ rpc \in {"idle", "min", "contig", "empty", "stream", "read", "rejected", "done", "hole",
             "closed"}
  /\ vmin \in Heights /\ vcontig \in Heights /\ h \in 0..(MaxHeight + 1)
  /\ openAtStart \in BOOLEAN

Init ==
  /\ StorageInit
  /\ kind \in RequestKinds
  /\ from \in Heights /\ to \in Heights \cup {OpenEnded}
  /\ rpc = "idle" /\ vmin = 0 /\ vcontig = 0 /\ h = 0
  /\ openAtStart = FALSE

------------------------------------------------------------------------------
WriterPuts ==
  /\ Puts
  /\ UNCHANGED <<requestVars, rpc, vmin, vcontig, h>>

Arrives ==
  /\ rpc = "idle" /\ kind # "health"
  /\ rpc' = "min" /\ openAtStart' = opened
  /\ UNCHANGED <<storageVars, kind, from, to, vmin, vcontig, h>>

ReadMin ==
  /\ rpc = "min"
  /\ vmin' = minH
  /\ rpc' = "contig"
  /\ UNCHANGED <<storageVars, requestVars, vcontig, h>>

ReadContiguous ==
  /\ rpc = "contig"
  /\ vcontig' = max_contiguous_height
  /\ rpc' = "empty"
  /\ UNCHANGED <<storageVars, requestVars, vmin, h>>

\* Mutant: the end is not compared with the contiguous tip.
SubscriptionValid_no_end_check == opened /\ from >= vmin /\ (to # OpenEnded => to >= from)

\* A range that cannot be served gaplessly is refused.
SubscriptionValid ==
  /\ ~is_empty
  /\ from >= vmin
  /\ to # OpenEnded => to >= from /\ to <= vcontig

\* GET /blocks: an absent end defaults to a window clamped to the tip.
BulkEnd == IF to = OpenEnded THEN MinOf(from + MaxBlocks - 1, vcontig) ELSE to

BulkValid ==
  /\ vmin <= from /\ from <= vcontig
  /\ from <= BulkEnd /\ BulkEnd <= vcontig
  /\ BulkEnd - from + 1 <= MaxBlocks

Valid == IF kind = "bulk" THEN BulkValid ELSE SubscriptionValid

Validate ==
  /\ rpc = "empty"
  /\ rpc' = IF Valid THEN "stream" ELSE "rejected"
  /\ h' = IF Valid THEN from ELSE 0
  /\ UNCHANGED <<storageVars, requestVars, vmin, vcontig>>

\* Mutant: the end of the range is taken to be exclusive.
Target_exclusive ==
  IF kind = "bulk" THEN BulkEnd - 1
  ELSE IF to # OpenEnded THEN to - 1 ELSE max_contiguous_height

\* The end of the range: fixed, or the contiguous tip as it is now.
Target ==
  IF kind = "bulk" THEN BulkEnd
  ELSE IF to # OpenEnded THEN to ELSE max_contiguous_height

\* The end is re-read each pass, in an await of its own.
Pass ==
  /\ rpc = "stream"
  /\ rpc' = IF h > Target THEN "done" ELSE "read"
  /\ UNCHANGED <<storageVars, requestVars, vmin, vcontig, h>>

\* A height that is not there ends the stream short.
Send ==
  /\ rpc = "read"
  /\ IF rec[h] # Absent
     THEN rpc' = "stream" /\ h' = h + 1
     ELSE rpc' = "hole" /\ UNCHANGED h
  /\ UNCHANGED <<storageVars, requestVars, vmin, vcontig>>

\* The client goes away, or the store fails a read: the stream is closed.
Closes ==
  /\ rpc = "read"
  /\ rpc' = "closed"
  /\ UNCHANGED <<storageVars, requestVars, vmin, vcontig, h>>

Next ==
  \/ WriterPuts \/ Arrives \/ ReadMin \/ ReadContiguous \/ Validate
  \/ Pass \/ Send \/ Closes

Spec == Init /\ [][Next]_vars

------------------------------------------------------------------------------
(* Properties. *)

\* A range that validates stays valid, so the stream never meets a hole: for a
\* store that existed when the request arrived, whatever is written while it is
\* validated and served.
GaplessOnceOpen == openAtStart => rpc # "hole"

\* A range served to its end delivered every height of it: a fixed end is
\* reached, and an open-ended subscription stops only at a frontier at or past
\* the one it was validated against.
ServedToTheEnd ==
  rpc = "done" /\ openAtStart =>
    /\ from..(h - 1) \subseteq Stored
    /\ h > vcontig \/ (to # OpenEnded /\ h > to) \/ (kind = "bulk" /\ h - from = MaxBlocks)

==============================================================================
