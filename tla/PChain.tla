-------------------------------- MODULE PChain --------------------------------
(***************************************************************************)
(* The P-chain pipeline against a node (src/src/platform/ingest.rs): one   *)
(* loop polls the tip and fills the gap above the contiguous frontier in   *)
(* runs of FILL_CHUNK heights.  A reward proposal cannot be written when   *)
(* it arrives: whether it minted anything is decided by the next height,   *)
(* so it is held one deep until that block resolves it.                    *)
(*                                                                         *)
(* The derived half of a record is its rewards element: "data" stands for  *)
(* the UTXOs upstream reports for a committed proposal, "[]" for none.     *)
(***************************************************************************)
EXTENDS StoreView, Sequences, FiniteSets

CONSTANTS FILL_CHUNK,     \* heights filled before the tip is looked at again
          Concurrency,    \* cfg.fetch_concurrency
          UpstreamFails,  \* requests may fail, or fail verification
          MaxFaults       \* bound: crashes and I/O errors in a behaviour

ASSUME PChainAssumption ==
  /\ FILL_CHUNK \in Nat \ {0, 1}
  /\ Concurrency \in Nat \ {0}
  /\ UpstreamFails \in BOOLEAN
  /\ MaxFaults \in Nat

VARIABLES
  kind,        \* the chain: what each height's block is
  height,      \* the node's current height
  pc,          \* the loop's position
  tip,         \* the loop's `tip`
  fresh,       \* the last answer may be younger than poll_interval
  next,        \* the next height of the run to come out of the stream
  end,         \* the last height of the run
  ahead,       \* fetch_block results in flight, in height order from next
  held,        \* a reward proposal is held: the one at next - 1
  half,        \* the rewards element about to be written
  announced,   \* the heights published to live subscribers so far
  floorSet,    \* cfg.backfill_floor is Some in this run of the process
  behind_tip,  \* the shared gauge /health reports
  faults       \* crashes and I/O errors so far

loopVars == <<pc, tip, fresh, next, end, ahead, held, half, behind_tip>>
worldVars == <<kind, height, floorSet, faults>>
vars == <<storageVars, loopVars, announced, worldVars>>

Kinds == {"standard", "reward", "commit", "abort"}

TypeOK ==
  /\ StorageTypeOK
  /\ kind \in [Heights -> Kinds]
  /\ height \in Heights
  /\ pc \in {"poll", "measure", "fetch", "write", "index"}
  /\ tip \in Heights /\ fresh \in BOOLEAN
  /\ next \in Heights /\ end \in Heights
  /\ ahead \in Seq({"block", "none"}) /\ Len(ahead) <= Concurrency
  /\ held \in BOOLEAN /\ half \in Halves
  /\ announced \in SUBSET Heights
  /\ floorSet \in BOOLEAN
  /\ behind_tip \in 0..(MaxHeight + 1)
  /\ faults \in 0..MaxFaults

Init ==
  /\ StorageInit
  /\ kind \in [Heights -> Kinds]
  /\ height = 0
  /\ pc = "poll" /\ tip = 0 /\ fresh = FALSE
  /\ next = 0 /\ end = 0 /\ ahead = <<>>
  /\ held = FALSE /\ half = "[]"
  /\ announced = {}
  /\ floorSet = HasFloor
  /\ behind_tip = 0
  /\ faults = 0

------------------------------------------------------------------------------
Grow ==
  /\ height < MaxHeight
  /\ height' = height + 1
  /\ UNCHANGED <<storageVars, loopVars, announced, kind, floorSet, faults>>

Crash ==
  /\ faults < MaxFaults
  /\ faults' = faults + 1
  /\ pc' = "poll" /\ tip' = 0 /\ fresh' = FALSE
  /\ next' = 0 /\ end' = 0 /\ ahead' = <<>>
  /\ held' = FALSE /\ half' = "[]"
  /\ behind_tip' = 0
  /\ floorSet' = (HasFloor /\ ~opened)
  /\ UNCHANGED <<storageVars, announced, kind, height>>

------------------------------------------------------------------------------
\* The top of the loop again; the locals of a run are gone.
Remeasure ==
  /\ pc' = "poll"
  /\ next' = 0 /\ end' = 0 /\ ahead' = <<>>
  /\ held' = FALSE /\ half' = "[]"

\* platform.getHeight answers from a short cache: any height up to the current
\* one, even one below the last answer.
Poll(h) ==
  /\ pc = "poll"
  /\ tip' = h /\ fresh' = TRUE
  /\ pc' = "measure"
  /\ UNCHANGED <<storageVars, next, end, ahead, held, half, behind_tip, announced, worldVars>>

\* The read fails: sleep for poll_interval, after which it is due again.
PollFails ==
  /\ UpstreamFails
  /\ pc = "poll"
  /\ fresh' = FALSE
  /\ UNCHANGED <<storageVars, pc, tip, next, end, ahead, held, half, behind_tip, announced,
                 worldVars>>

PollNotDue ==
  /\ pc = "poll" /\ fresh
  /\ pc' = "measure"
  /\ UNCHANGED <<storageVars, tip, fresh, next, end, ahead, held, half, behind_tip, announced,
                 worldVars>>

next_height ==
  IF is_empty THEN (IF floorSet THEN FloorAt ELSE tip) ELSE max_contiguous_height + 1

\* Mutant: a run of FILL_CHUNK heights ends one short.
MeasureShort ==
  /\ pc = "measure"
  /\ IF next_height > tip
     THEN behind_tip' = 0 /\ fresh' = FALSE /\ Remeasure
     ELSE /\ behind_tip' = tip - next_height + 1
          /\ next' = next_height
          /\ end' = MinOf(tip, next_height + FILL_CHUNK - 2)
          /\ pc' = "fetch"
          /\ UNCHANGED <<fresh, ahead, held, half>>
  /\ UNCHANGED <<storageVars, tip, announced, worldVars>>

\* Caught up (and asleep for poll_interval), or a run of heights to fill.
Measure ==
  /\ pc = "measure"
  /\ IF next_height > tip
     THEN behind_tip' = 0 /\ fresh' = FALSE /\ Remeasure
     ELSE /\ behind_tip' = tip - next_height + 1
          /\ next' = next_height
          /\ end' = MinOf(tip, next_height + FILL_CHUNK - 1)
          /\ pc' = "fetch"
          /\ UNCHANGED <<fresh, ahead, held, half>>
  /\ UNCHANGED <<storageVars, tip, announced, worldVars>>

------------------------------------------------------------------------------
(* fill_range. *)

Fetch(h, result) ==
  /\ pc = "fetch"
  /\ h = next + Len(ahead) /\ h <= end
  /\ Len(ahead) < Concurrency
  /\ ahead' = Append(ahead, result)
  /\ UNCHANGED <<storageVars, pc, tip, fresh, next, end, held, half, behind_tip, announced,
                 worldVars>>

\* Both encodings arrive and agree.
FetchBlock(h) == Fetch(h, "block")

FetchFails(h) == UpstreamFails /\ Fetch(h, "none")

Out(result) == pc = "fetch" /\ ahead # <<>> /\ Head(ahead) = result

\* The run is cut short: everything before is stored, the held proposal is not.
CutShort ==
  /\ Remeasure
  /\ UNCHANGED <<storageVars, tip, fresh, behind_tip, announced, worldVars>>

\* On to the next height of the run; a proposal held at its end is dropped.
Onward(holding) ==
  IF next >= end
  THEN Remeasure
  ELSE /\ next' = next + 1 /\ ahead' = Tail(ahead)
       /\ pc' = "fetch" /\ held' = holding /\ half' = "[]"
       /\ UNCHANGED end

\* Mutant: a height that could not be fetched is passed over.
OutNoneSkips ==
  /\ Out("none")
  /\ Onward(FALSE)
  /\ UNCHANGED <<storageVars, tip, fresh, behind_tip, announced, worldVars>>

OutNone == Out("none") /\ CutShort

\* Mutant: a proposal at the end of a run is written as if it had minted nothing.
HoldProposalWritesLast ==
  /\ Out("block") /\ ~held /\ kind[next] = "reward"
  /\ IF next >= end
     THEN pc' = "write" /\ UNCHANGED <<next, end, ahead, held, half>>
     ELSE Onward(TRUE)
  /\ UNCHANGED <<storageVars, tip, fresh, behind_tip, announced, worldVars>>

HoldProposal ==
  /\ Out("block") /\ ~held /\ kind[next] = "reward"
  /\ Onward(TRUE)
  /\ UNCHANGED <<storageVars, tip, fresh, behind_tip, announced, worldVars>>

EmitPlain ==
  /\ Out("block") /\ ~held /\ kind[next] # "reward"
  /\ pc' = "write" /\ half' = "[]"
  /\ UNCHANGED <<storageVars, tip, fresh, next, end, ahead, held, behind_tip, announced,
                 worldVars>>

\* resolve_reward: the block after the held proposal decides it.
Resolve(outcome, rewards) ==
  /\ Out("block") /\ held /\ kind[next] = outcome
  /\ pc' = "write" /\ half' = rewards
  /\ UNCHANGED <<storageVars, tip, fresh, next, end, ahead, held, behind_tip, announced,
                 worldVars>>

ResolveAbort == Resolve("abort", "[]")

ResolveCommit == Resolve("commit", "data")

\* The reward UTXOs cannot be fetched.
ResolveFails == UpstreamFails /\ Out("block") /\ held /\ kind[next] = "commit" /\ CutShort

\* Neither a commit nor an abort: refuse to guess.
ResolveOther ==
  Out("block") /\ held /\ kind[next] \notin {"commit", "abort"} /\ CutShort

------------------------------------------------------------------------------
(* emit: store the resolved proposal at next - 1, or the block at next. *)

EmitHeight == IF held THEN next - 1 ELSE next

\* Mutant: the block is published between the two stages of put.
WriteAnnounces ==
  /\ pc = "write"
  /\ PutBlock(EmitHeight, half)
  /\ pc' = "index"
  /\ announced' = IF EmitHeight >= tip THEN announced \cup {EmitHeight} ELSE announced
  /\ UNCHANGED <<idx, tip, fresh, next, end, ahead, held, half, behind_tip, worldVars>>

\* Mutant: the index batch is committed ahead of the block.
WriteIndexFirst ==
  /\ pc = "write"
  /\ PutIndex(EmitHeight)
  /\ pc' = "index"
  /\ UNCHANGED <<opened, minH, rec, tip, fresh, next, end, ahead, held, half, behind_tip,
                 announced, worldVars>>

Write ==
  /\ pc = "write"
  /\ PutBlock(EmitHeight, half)
  /\ pc' = "index"
  /\ UNCHANGED <<idx, tip, fresh, next, end, ahead, held, half, behind_tip, announced,
                 worldVars>>

\* Only a height at the tip is published.  The block that resolved a proposal
\* is emitted right after it.
Index ==
  /\ pc = "index"
  /\ PutIndex(EmitHeight)
  /\ behind_tip' = MaxOf(tip - EmitHeight, 0)
  /\ announced' = IF EmitHeight >= tip THEN announced \cup {EmitHeight} ELSE announced
  /\ IF held
     THEN pc' = "write" /\ held' = FALSE /\ half' = "[]" /\ UNCHANGED <<next, end, ahead>>
     ELSE Onward(FALSE)
  /\ UNCHANGED <<opened, minH, rec, tip, fresh, worldVars>>

\* put fails, before or after the block is written: the run is cut short.
PutError ==
  /\ pc \in {"write", "index"}
  /\ faults < MaxFaults
  /\ faults' = faults + 1
  /\ Remeasure
  /\ UNCHANGED <<storageVars, tip, fresh, behind_tip, announced, kind, height, floorSet>>

------------------------------------------------------------------------------
Loop ==
  \/ \E h \in 0..height : Poll(h)
  \/ PollFails \/ PollNotDue \/ Measure
  \/ \E h \in Heights : FetchBlock(h) \/ FetchFails(h)
  \/ OutNone \/ HoldProposal \/ EmitPlain
  \/ ResolveAbort \/ ResolveCommit \/ ResolveFails \/ ResolveOther
  \/ Write \/ Index \/ PutError

Next == Grow \/ Crash \/ Loop

Spec == Init /\ [][Next]_vars

\* A request fails.
Trouble ==
  \/ PollFails \/ ResolveFails
  \/ \E h \in Heights : FetchFails(h)

(***************************************************************************)
(* The loop is one task that always has a next step, an answer does not    *)
(* stay younger than poll_interval for ever, and the node eventually stops *)
(* failing requests.                                                       *)
(***************************************************************************)
Fairness ==
  /\ WF_vars(Loop)
  /\ SF_vars(Poll(height))
  /\ <>[][~Trouble]_vars

FairSpec == Spec /\ Fairness

------------------------------------------------------------------------------
(* Properties. *)

\* A stored reward proposal carries what the block after it decided, and any
\* other block carries `[]`: nothing reaches the store with a rewards element
\* that was not resolved, wherever a run ends, fails or crashes (fill_range).
RewardsResolved ==
  \A h \in Stored :
    IF kind[h] = "reward"
    THEN /\ h < MaxHeight
         /\ \/ kind[h + 1] = "commit" /\ rec[h] = "data"
            \/ kind[h + 1] = "abort" /\ rec[h] = "[]"
    ELSE rec[h] = "[]"

\* The stored heights have no hole: the contiguous frontier platform.getHeight
\* reports is the high-water mark (rpc.rs, get_height).
FrontierIsHighWater == opened => max_contiguous_height = high_water /\ minH \in Stored

\* A record is published to newRecords subscribers - what a mirror follows -
\* only once it is stored and indexed (emit's order).
AnnouncedDurable == announced \subseteq (Stored \cap idx)

\* Seen from its readers the pipeline is the abstract feed.
Feed == INSTANCE RecordFeed WITH Top <- MaxHeight, live <- opened, lo <- minH,
                                 hi <- high_water, sent <- announced

ImplementsFeed == Feed!FeedSpec

\* A block that can be written at the node's height: not a proposal the chain has
\* yet to decide, or that its successor leaves undecided.
Resolvable(h) == kind[h] = "reward" => h < height /\ kind[h + 1] \in {"commit", "abort"}

\* Every height of the chain from the store's minimum on, or from the configured
\* floor on while there is no store, is eventually stored, genesis included, and
\* a reward proposal as soon as the chain has decided it: holding a proposal and
\* dropping it at the end of a run never wedges the loop.  Only a proposal that
\* resolve_reward refuses to guess about stops it, and that right below it.
FrontierAdvances ==
  \A h \in Heights :
    LET start == IF opened THEN minH ELSE FloorAt
    IN (opened \/ HasFloor) /\ start <= h /\ h <= height /\ (\A g \in start..h : Resolvable(g))
         ~> rec[h] # Absent

==============================================================================
