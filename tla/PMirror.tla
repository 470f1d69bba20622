------------------------------- MODULE PMirror --------------------------------
(***************************************************************************)
(* A P-chain mirror of another neve (src/src/platform/mirror.rs).  The     *)
(* upstream is the abstract feed RecordFeed that module PChain is shown to *)
(* implement.  A session streams the historical range up to the upstream's *)
(* contiguous height, read once, over oldRecords; then it follows the live *)
(* newRecords feed until that ends or is idle too long, and starts over.   *)
(*                                                                         *)
(* Records are copied whole, so they are all alike here: "data".           *)
(***************************************************************************)
EXTENDS StoreView, Sequences, FiniteSets

CONSTANTS LiveCap,        \* LIVE_CHANNEL_CAP: the upstream's ring of live records
          UpstreamFails,  \* a connection or a stream may fail, a record be refused
          MaxFaults       \* bound: crashes and I/O errors in a behaviour

ASSUME PMirrorAssumption ==
  /\ LiveCap \in Nat \ {0}
  /\ UpstreamFails \in BOOLEAN
  /\ MaxFaults \in Nat

VARIABLES
  ulive, ulo, uhi, usent,  \* the upstream instance, as its readers see it
  mpc,         \* the mirror's position
  target,      \* the bootstrap's target
  next,        \* the height the oldRecords stream delivers next
  ring,        \* live records published since the newRecords subscription
  mh,          \* the height being written
  floorSet,    \* cfg.backfill_floor is Some in this run of the process
  behind_tip,  \* the shared gauge /health reports
  faults       \* crashes and I/O errors so far

upVars == <<ulive, ulo, uhi, usent>>
sessionVars == <<mpc, target, next, ring, mh>>
vars == <<storageVars, upVars, sessionVars, floorSet, behind_tip, faults>>

Up == INSTANCE RecordFeed WITH Top <- MaxHeight, live <- ulive, lo <- ulo,
                               hi <- uhi, sent <- usent

TypeOK ==
  /\ StorageTypeOK
  /\ ulive \in BOOLEAN /\ ulo \in Heights /\ uhi \in Heights /\ usent \in SUBSET Heights
  /\ mpc \in {"probe", "from", "stream", "streamIndex", "connect", "follow", "followIndex"}
  /\ target \in Heights /\ next \in Heights /\ mh \in Heights
  /\ ring \in Seq(Heights) /\ Len(ring) <= LiveCap
  /\ floorSet \in BOOLEAN
  /\ behind_tip \in Heights
  /\ faults \in 0..MaxFaults

Init ==
  /\ StorageInit
  /\ Up!FeedInit
  /\ mpc = "probe" /\ target = 0 /\ next = 0 /\ ring = <<>> /\ mh = 0
  /\ floorSet = HasFloor
  /\ behind_tip = 0
  /\ faults = 0

------------------------------------------------------------------------------
(* The upstream writes and publishes on its own.  A live record is pushed to  *)
(* the subscription, if there is one; a full ring drops its oldest (serve_live). *)

Subscribed == mpc \in {"follow", "followIndex"}

Push(h) == Append(IF Len(ring) < LiveCap THEN ring ELSE Tail(ring), h)

UpstreamStores ==
  /\ Up!Open \/ Up!Extend
  /\ UNCHANGED <<storageVars, sessionVars, floorSet, behind_tip, faults>>

UpstreamPublishes ==
  /\ Up!Publish
  /\ ring' = IF Subscribed THEN Push(uhi) ELSE ring
  /\ UNCHANGED <<storageVars, mpc, target, next, mh, floorSet, behind_tip, faults>>

\* Mutant: a restart moves the store's minimum to the configured floor.
CrashReanchors ==
  /\ faults < MaxFaults
  /\ faults' = faults + 1
  /\ mpc' = "probe" /\ target' = 0 /\ next' = 0 /\ ring' = <<>> /\ mh' = 0
  /\ floorSet' = (HasFloor /\ ~opened)
  /\ behind_tip' = 0
  /\ minH' = IF opened /\ HasFloor THEN FloorAt ELSE minH
  /\ UNCHANGED <<opened, rec, idx, upVars>>

\* The process dies and starts again; an existing store ignores the floor.
Crash ==
  /\ faults < MaxFaults
  /\ faults' = faults + 1
  /\ mpc' = "probe" /\ target' = 0 /\ next' = 0 /\ ring' = <<>> /\ mh' = 0
  /\ floorSet' = (HasFloor /\ ~opened)
  /\ behind_tip' = 0
  /\ UNCHANGED <<storageVars, upVars>>

------------------------------------------------------------------------------
(* bootstrap *)

NewSession ==
  mpc' = "probe" /\ target' = 0 /\ next' = 0 /\ ring' = <<>> /\ mh' = 0

\* Mutant: a range past the frontier is accepted.
Servable_unchecked(a, b) == ulive

\* The upstream refuses a range it cannot serve gaplessly (serve_range).
Servable(a, b) == ulive /\ ulo <= a /\ b <= uhi

\* A connection that fails, a stream that ends early, stalls or carries a record
\* that does not verify: the session is over.
SessionFails ==
  /\ UpstreamFails
  /\ \/ mpc \in {"probe", "connect"}
     \/ mpc = "stream" /\ Servable(next, target)
     \/ mpc = "follow" /\ ring # <<>>
  /\ NewSession
  /\ UNCHANGED <<storageVars, upVars, floorSet, behind_tip, faults>>

\* fetch_upstream_contiguous: what /health reports, null before the first block.
Probe ==
  /\ mpc = "probe"
  /\ ulive
  /\ target' = uhi
  /\ mpc' = "from"
  /\ UNCHANGED <<storageVars, upVars, next, ring, mh, floorSet, behind_tip, faults>>

\* Mutant: the stream starts past the high-water mark, over the holes.
from_high_water ==
  IF is_empty THEN (IF floorSet THEN FloorAt ELSE 0) ELSE high_water + 1

\* Mutant: the floor is not consulted when the store is empty.
from_no_floor == IF is_empty THEN 0 ELSE max_contiguous_height + 1

\* The first height the mirror lacks.
from == IF is_empty THEN (IF floorSet THEN FloorAt ELSE 0) ELSE max_contiguous_height + 1

StartStream ==
  /\ mpc = "from"
  /\ IF from > target
     THEN mpc' = "connect" /\ UNCHANGED next
     ELSE mpc' = "stream" /\ next' = from
  /\ UNCHANGED <<storageVars, upVars, target, ring, mh, floorSet, behind_tip, faults>>

\* A refused subscription delivers nothing and ends in the idle timeout.
StreamRefused ==
  /\ mpc = "stream"
  /\ ~Servable(next, target)
  /\ NewSession
  /\ UNCHANGED <<storageVars, upVars, floorSet, behind_tip, faults>>

StreamRecord ==
  /\ mpc = "stream"
  /\ Servable(next, target)
  /\ PutBlock(next, "data")
  /\ mh' = next
  /\ mpc' = "streamIndex"
  /\ UNCHANGED <<idx, upVars, target, next, ring, floorSet, behind_tip, faults>>

StreamIndex ==
  /\ mpc = "streamIndex"
  /\ PutIndex(mh)
  /\ behind_tip' = target - mh
  /\ mh' = 0
  /\ IF mh >= target
     THEN mpc' = "connect" /\ target' = 0 /\ next' = 0
     ELSE mpc' = "stream" /\ next' = next + 1 /\ UNCHANGED target
  /\ UNCHANGED <<opened, minH, rec, upVars, ring, floorSet, faults>>

------------------------------------------------------------------------------
(* follow_tip *)

\* The newRecords subscription starts with whatever is published from now on.
Connect ==
  /\ mpc = "connect"
  /\ mpc' = "follow" /\ ring' = <<>> /\ target' = 0 /\ next' = 0
  /\ UNCHANGED <<storageVars, upVars, mh, floorSet, behind_tip, faults>>

FollowRecord ==
  /\ mpc = "follow" /\ ring # <<>>
  /\ PutBlock(Head(ring), "data")
  /\ mh' = Head(ring) /\ ring' = Tail(ring)
  /\ mpc' = "followIndex"
  /\ UNCHANGED <<idx, upVars, target, next, floorSet, behind_tip, faults>>

FollowIndex ==
  /\ mpc = "followIndex"
  /\ PutIndex(mh)
  /\ mh' = 0
  /\ behind_tip' = 0
  /\ mpc' = "follow"
  /\ UNCHANGED <<opened, minH, rec, upVars, target, next, ring, floorSet, faults>>

\* A record that does not verify, or cannot be written, is passed over.
FollowSkips ==
  /\ UpstreamFails
  /\ mpc = "follow" /\ ring # <<>>
  /\ ring' = Tail(ring)
  /\ UNCHANGED <<storageVars, upVars, mpc, target, next, mh, floorSet, behind_tip, faults>>

\* put fails at its second stage: the stream is given up, the live record is
\* passed over, and either stays stored without its index entries.
IndexError ==
  /\ mpc \in {"streamIndex", "followIndex"}
  /\ faults < MaxFaults
  /\ faults' = faults + 1
  /\ IF mpc = "streamIndex"
     THEN NewSession
     ELSE mpc' = "follow" /\ mh' = 0 /\ UNCHANGED <<target, next, ring>>
  /\ UNCHANGED <<storageVars, upVars, floorSet, behind_tip>>

\* ws_idle_timeout: no record for a while, so reconnect and bootstrap again.
FollowIdle ==
  /\ mpc = "follow" /\ ring = <<>>
  /\ NewSession
  /\ UNCHANGED <<storageVars, upVars, floorSet, behind_tip, faults>>

------------------------------------------------------------------------------
Session ==
  \/ SessionFails \/ Probe \/ StartStream \/ StreamRefused \/ StreamRecord \/ StreamIndex
  \/ Connect \/ FollowRecord \/ FollowIndex \/ FollowSkips \/ FollowIdle
  \/ IndexError

Next == UpstreamStores \/ UpstreamPublishes \/ Crash \/ Session

Spec == Init /\ [][Next]_vars

\* What ends with an upstream that stays reachable.
Trouble == SessionFails \/ FollowSkips

(***************************************************************************)
(* The session task keeps stepping (a quiet feed runs into its idle        *)
(* timeout) and the upstream eventually stays reachable.  Nothing is       *)
(* assumed of what the upstream stores or publishes.                       *)
(***************************************************************************)
Fairness == WF_vars(Session) /\ <>[][~Trouble]_vars

FairSpec == Spec /\ Fairness

------------------------------------------------------------------------------
(* Properties. *)

\* The mirror never holds a height its upstream does not hold, and what it
\* holds stays within the range it anchored.
MirrorWithinUpstream ==
  Stored # {} => ulive /\ Stored \subseteq (MaxOf(ulo, minH)..uhi)

\* The floor is baked in at creation and the frontier never retreats, although
\* a bootstrap after a hole writes over records that are already there.
FrontierNeverRetreats ==
  [][opened => /\ opened' /\ minH' = minH
               /\ Stored \subseteq Stored'
               /\ max_contiguous_height <= max_contiguous_height']_vars

\* A session turns to the live feed only when the store has everything from its
\* minimum up to the target the session set out for, although the stream may have
\* been cut short, restarted or run over records left by an earlier live feed.
BootstrapIsComplete ==
  [][(mpc \in {"from", "streamIndex"} /\ mpc' = "connect" /\ opened) =>
       \A h \in Heights : minH <= h /\ h <= target => rec[h] # Absent]_vars

\* Whatever the live feed skipped, dropped or never published, the mirror ends
\* up with every height its upstream holds from the mirror's minimum upwards:
\* the idle timeout leads back to a bootstrap that starts at the first hole.
MirrorConverges ==
  \A h \in Heights : (opened /\ minH <= h /\ ulive /\ h <= uhi) ~> (rec[h] # Absent)

\* A mirror whose floor the upstream can serve does start storing.
MirrorStarts == (ulive /\ HasFloor /\ ulo <= FloorAt /\ FloorAt <= uhi) ~> opened

\* Without a floor - its probe failed at startup - the mirror grows forward
\* from the upstream's tip.
GrowsForward == ulive ~> opened

==============================================================================
