---------------------------- MODULE PMirrorProofs -----------------------------
(***************************************************************************)
(* Proofs about a P-chain mirror, for every upstream that behaves as       *)
(* RecordFeed, every floor, ring size and number of faults.                *)
(***************************************************************************)
EXTENDS PMirror, StorageProofs

\* Everything on its way into the store lies in the upstream's interval.
FromUpstream ==
  /\ ulive => ulo <= uhi
  /\ ~ulive => Stored = {} /\ ring = <<>>
  /\ \A i \in 1..Len(ring) : ulo <= ring[i] /\ ring[i] <= uhi
  /\ \A h \in Stored : ulo <= h /\ h <= uhi

\* Everything in the store is at or above its minimum.
Anchored ==
  /\ ~opened => Stored = {}
  /\ \A h \in Stored : minH <= h

\* A stream runs up to its target, and indexes the record it has just written.
StreamShape ==
  /\ mpc \in {"stream", "streamIndex"} => next <= target
  /\ mpc = "streamIndex" => mh = next

MInv == TypeOK /\ FromUpstream /\ Anchored /\ StreamShape

\* The types, one part per owner.
UpTypes ==
  ulive \in BOOLEAN /\ ulo \in Heights /\ uhi \in Heights /\ usent \in SUBSET Heights

SessionTypes ==
  /\ mpc \in {"probe", "from", "stream", "streamIndex", "connect", "follow", "followIndex"}
  /\ target \in Heights /\ next \in Heights /\ mh \in Heights
  /\ ring \in Seq(Heights) /\ Len(ring) <= LiveCap

GaugeTypes ==
  floorSet \in BOOLEAN /\ behind_tip \in Heights /\ faults \in 0..MaxFaults

\* The type invariant is the sum of its parts ...
LEMMA MTypesSplit == TypeOK <=> StorageTypeOK /\ UpTypes /\ SessionTypes /\ GaugeTypes
  BY DEF TypeOK, UpTypes, SessionTypes, GaugeTypes

\* ... after a step too.
LEMMA MTypesSplitNext == TypeOK' <=> (StorageTypeOK /\ UpTypes /\ SessionTypes /\ GaugeTypes)'
  BY DEF TypeOK, UpTypes, SessionTypes, GaugeTypes

\* What stage one of put does to the store.
LEMMA MPutEffect ==
  ASSUME StorageTypeOK, Anchored, NEW h \in Heights, PutBlock(h, "data"), idx' = idx
  PROVE  /\ StorageTypeOK' /\ Anchored' /\ opened' = TRUE /\ (opened => minH' = minH)
         /\ Stored' = Stored \cup {h}
<1> USE StorageAssumption DEF Heights
<1>1. /\ opened' = TRUE /\ minH' = (IF opened THEN minH ELSE Anchor(h))
      /\ rec' = [rec EXCEPT ![h] = "data"] /\ ~BelowMinimum(h)
  BY DEF PutBlock
<1>2. Stored' = Stored \cup {h}
  BY <1>1 DEF StorageTypeOK, Stored, Absent, Halves
<1>3. minH' \in Heights /\ minH' <= h
  BY <1>1 DEF Anchor, BelowMinimum, StorageTypeOK
<1>4. StorageTypeOK'
  BY <1>1, <1>3 DEF StorageTypeOK, Halves
<1>5. Anchored'
  BY <1>1, <1>2, <1>3 DEF Anchored, StorageTypeOK
<1> QED
  BY <1>1, <1>2, <1>4, <1>5

\* A store that is left alone.
LEMMA MQuietStore ==
  ASSUME StorageTypeOK, Anchored, UNCHANGED storageVars
  PROVE  StorageTypeOK' /\ Anchored' /\ Stored' = Stored
  BY DEF StorageTypeOK, Anchored, Stored, storageVars

\* The invariant holds before the first session.
LEMMA MInit == Init => MInv
<1> SUFFICES ASSUME Init PROVE MInv
  OBVIOUS
<1> USE StorageAssumption, PMirrorAssumption
<1>1. /\ StorageInit /\ ulive = FALSE /\ ulo = 0 /\ uhi = 0 /\ usent = {}
      /\ mpc = "probe" /\ target = 0 /\ next = 0 /\ ring = <<>> /\ mh = 0
      /\ floorSet = HasFloor /\ behind_tip = 0 /\ faults = 0
  BY DEF Init, Up!FeedInit
<1>2. StorageTypeOK /\ Stored = {}
  BY <1>1 DEF StorageInit, StorageTypeOK, Stored, Halves, Heights
<1>3. UpTypes
  <2>1. ulive \in BOOLEAN
    BY <1>1, Zenon
  <2> QED
    BY <1>1, <2>1 DEF UpTypes, Heights
<1>4. SessionTypes
  BY <1>1 DEF SessionTypes, Heights
<1>5. GaugeTypes
  BY <1>1 DEF GaugeTypes, Heights
<1> QED
  BY <1>1, <1>2, <1>3, <1>4, <1>5, MTypesSplit DEF MInv, FromUpstream, Anchored, StreamShape

------------------------------------------------------------------------------
\* What is in the ring can be written.
RingInside == \A i \in 1..Len(ring) : ulo <= ring[i] /\ ring[i] <= uhi

\* The ring when its oldest record is taken off.
LEMMA TailInside ==
  ASSUME SessionTypes, RingInside, ring # <<>>
  PROVE  /\ Head(ring) \in Heights /\ ulo <= Head(ring) /\ Head(ring) <= uhi
         /\ Tail(ring) \in Seq(Heights) /\ Len(Tail(ring)) = Len(ring) - 1
         /\ \A i \in 1..Len(Tail(ring)) : ulo <= Tail(ring)[i] /\ Tail(ring)[i] <= uhi
<1>1. ring \in Seq(Heights) /\ Len(ring) \in Nat /\ Len(ring) > 0
  BY DEF SessionTypes
<1>2. /\ Head(ring) = ring[1] /\ Tail(ring) \in Seq(Heights) /\ Len(Tail(ring)) = Len(ring) - 1
      /\ \A i \in 1..Len(Tail(ring)) : Tail(ring)[i] = ring[i + 1]
  BY <1>1
<1>3. ring[1] \in Heights /\ 1 \in 1..Len(ring)
  BY <1>1
<1>4. \A i \in 1..Len(Tail(ring)) : i + 1 \in 1..Len(ring)
  BY <1>1, <1>2
<1> QED
  BY <1>2, <1>3, <1>4 DEF RingInside

\* A step of the session that writes nothing.
LEMMA SessionStep ==
  ASSUME MInv, UNCHANGED storageVars, UNCHANGED upVars, SessionTypes', GaugeTypes', StreamShape',
         RingInside', ~ulive => ring' = <<>>
  PROVE  MInv'
<1>1. StorageTypeOK /\ Anchored /\ UpTypes /\ FromUpstream
  BY MTypesSplit DEF MInv
<1>2. StorageTypeOK' /\ Anchored' /\ Stored' = Stored
  BY <1>1, MQuietStore
<1>3. UpTypes' /\ FromUpstream'
  BY <1>1, <1>2 DEF UpTypes, FromUpstream, RingInside, upVars
<1> QED
  BY <1>2, <1>3, MTypesSplitNext DEF MInv

\* A step that writes a record of the upstream.
LEMMA WriteStep ==
  ASSUME MInv, NEW h \in Heights, PutBlock(h, "data"), idx' = idx, UNCHANGED upVars,
         ulive, ulo <= h, h <= uhi,
         SessionTypes', GaugeTypes', StreamShape', RingInside'
  PROVE  MInv'
<1>1. StorageTypeOK /\ Anchored /\ UpTypes /\ FromUpstream
  BY MTypesSplit DEF MInv
<1>2. StorageTypeOK' /\ Anchored' /\ Stored' = Stored \cup {h}
  BY <1>1, MPutEffect
<1>3. UpTypes' /\ FromUpstream'
  BY <1>1, <1>2 DEF UpTypes, FromUpstream, RingInside, upVars
<1> QED
  BY <1>2, <1>3, MTypesSplitNext DEF MInv

\* A step that commits the index entries of a record.
LEMMA IndexStep ==
  ASSUME MInv, mh \in Heights, PutIndex(mh), UNCHANGED <<opened, minH, rec>>, UNCHANGED upVars,
         SessionTypes', GaugeTypes', StreamShape', ring' = ring
  PROVE  MInv'
<1>1. StorageTypeOK /\ Anchored /\ UpTypes /\ FromUpstream
  BY MTypesSplit DEF MInv
<1>2. StorageTypeOK' /\ Anchored' /\ Stored' = Stored
  BY <1>1 DEF StorageTypeOK, Anchored, Stored, PutIndex
<1>3. UpTypes' /\ FromUpstream'
  BY <1>1, <1>2 DEF UpTypes, FromUpstream, upVars
<1> QED
  BY <1>2, <1>3, MTypesSplitNext DEF MInv

\* A session that is over leaves nothing behind.
LEMMA NewSessionKeeps ==
  ASSUME MInv, UNCHANGED storageVars, UNCHANGED upVars, GaugeTypes', NewSession
  PROVE  MInv'
<1>1. SessionTypes' /\ StreamShape' /\ RingInside'
  BY StorageAssumption, PMirrorAssumption
     DEF NewSession, SessionTypes, StreamShape, RingInside, Heights
<1> QED
  BY <1>1, SessionStep DEF NewSession

\* The upstream stores and publishes.
LEMMA UpstreamKeeps ==
  ASSUME MInv, UpstreamStores \/ UpstreamPublishes
  PROVE  MInv'
<1> USE StorageAssumption, PMirrorAssumption
<1>1. StorageTypeOK /\ Anchored /\ UpTypes /\ SessionTypes /\ GaugeTypes /\ FromUpstream /\ StreamShape
  BY MTypesSplit DEF MInv
<1>2. UNCHANGED storageVars /\ UNCHANGED <<mpc, target, next, mh, floorSet, behind_tip, faults>>
  BY DEF UpstreamStores, UpstreamPublishes, sessionVars
<1>3. StorageTypeOK' /\ Anchored' /\ Stored' = Stored
  BY <1>1, <1>2, MQuietStore
<1>4. GaugeTypes' /\ StreamShape'
  BY <1>1, <1>2 DEF GaugeTypes, StreamShape
<1>5. CASE UpstreamStores
  <2>1. ring' = ring /\ usent' = usent
    BY <1>5 DEF UpstreamStores, sessionVars, Up!Open, Up!Extend
  <2>2. SessionTypes'
    BY <1>1, <1>2, <2>1 DEF SessionTypes
  <2>3. CASE Up!Open
    <3>1. /\ ~ulive /\ ulive' = TRUE /\ ulo' \in Heights /\ uhi' = ulo'
          /\ Stored = {} /\ ring = <<>>
      BY <1>1, <2>3 DEF Up!Open, FromUpstream, Heights
    <3>2. UpTypes' /\ FromUpstream'
      BY <1>1, <1>3, <2>1, <3>1 DEF UpTypes, FromUpstream, Heights
    <3> QED
      BY <1>3, <1>4, <2>2, <3>2, MTypesSplitNext DEF MInv
  <2>4. CASE Up!Extend
    <3>1. ulive /\ uhi < MaxHeight /\ uhi' = uhi + 1 /\ ulive' = ulive /\ ulo' = ulo
      BY <2>4 DEF Up!Extend
    <3>2. UpTypes'
      BY <1>1, <2>1, <3>1 DEF UpTypes, Heights
    <3>3. FromUpstream'
      <4>1. \A i \in 1..Len(ring) : ring[i] \in Heights
        BY <1>1 DEF SessionTypes
      <4>2. \A h \in Stored : h \in Heights
        BY DEF Stored
      <4> QED
        BY <1>1, <1>3, <2>1, <3>1, <4>1, <4>2 DEF UpTypes, FromUpstream, Heights
    <3> QED
      BY <1>3, <1>4, <2>2, <3>2, <3>3, MTypesSplitNext DEF MInv
  <2> QED
    BY <1>5, <2>3, <2>4 DEF UpstreamStores
<1>6. CASE UpstreamPublishes
  <2>1. /\ ulive /\ usent' = usent \cup {uhi} /\ UNCHANGED <<ulive, ulo, uhi>>
        /\ ring' = IF Subscribed THEN Push(uhi) ELSE ring
    BY <1>6 DEF UpstreamPublishes, Up!Publish
  <2>2. UpTypes'
    BY <1>1, <2>1 DEF UpTypes
  <2>3. RingInside
    BY <1>1 DEF FromUpstream, RingInside
  <2> DEFINE kept == IF Len(ring) < LiveCap THEN ring ELSE Tail(ring)
  <2>4. /\ kept \in Seq(Heights) /\ Len(kept) < LiveCap
        /\ \A i \in 1..Len(kept) : ulo <= kept[i] /\ kept[i] <= uhi
    <3>1. CASE Len(ring) < LiveCap
      BY <1>1, <2>3, <3>1 DEF SessionTypes, RingInside
    <3>2. CASE ~(Len(ring) < LiveCap)
      <4>1. ring # <<>>
        BY <3>2
      <4> QED
        BY <1>1, <2>3, <3>2, <4>1, TailInside DEF SessionTypes
    <3> QED
      BY <3>1, <3>2
  <2>5. Push(uhi) = Append(kept, uhi)
    BY DEF Push
  <2> HIDE DEF kept
  <2>6. /\ Push(uhi) \in Seq(Heights) /\ Len(Push(uhi)) <= LiveCap
        /\ \A i \in 1..Len(Push(uhi)) : ulo <= Push(uhi)[i] /\ Push(uhi)[i] <= uhi
    <3>1. uhi \in Heights /\ ulo <= uhi
      BY <1>1, <2>1 DEF UpTypes, FromUpstream
    <3>2. /\ Append(kept, uhi) \in Seq(Heights) /\ Len(Append(kept, uhi)) = Len(kept) + 1
          /\ \A i \in 1..Len(kept) : Append(kept, uhi)[i] = kept[i]
          /\ Append(kept, uhi)[Len(kept) + 1] = uhi
      BY <2>4, <3>1
    <3>3. Len(kept) \in Nat
      BY <2>4
    <3> QED
      BY <2>4, <2>5, <3>1, <3>2, <3>3 DEF Heights
  <2>7. SessionTypes' /\ RingInside'
    BY <1>1, <1>2, <2>1, <2>3, <2>6 DEF SessionTypes, RingInside
  <2>8. FromUpstream'
    BY <1>1, <1>3, <2>1, <2>7 DEF FromUpstream, RingInside
  <2> QED
    BY <1>3, <1>4, <2>2, <2>7, <2>8, MTypesSplitNext DEF MInv
<1> QED
  BY <1>5, <1>6

\* bootstrap.
LEMMA BootstrapKeeps ==
  ASSUME MInv, Probe \/ StartStream \/ StreamRecord \/ StreamIndex
  PROVE  MInv'
<1> USE StorageAssumption, PMirrorAssumption
<1>1. /\ StorageTypeOK /\ Anchored /\ UpTypes /\ SessionTypes /\ GaugeTypes /\ FromUpstream
      /\ StreamShape /\ RingInside
  BY MTypesSplit DEF MInv, FromUpstream, RingInside
<1>2. CASE Probe \/ StartStream
  <2>1. UNCHANGED storageVars /\ UNCHANGED upVars /\ UNCHANGED <<ring, mh, floorSet, behind_tip, faults>>
    BY <1>2 DEF Probe, StartStream
  <2>2. GaugeTypes' /\ RingInside' /\ (~ulive => ring' = <<>>)
    BY <1>1, <2>1 DEF GaugeTypes, RingInside, upVars, FromUpstream
  <2>3. SessionTypes' /\ StreamShape'
    <3>1. CASE Probe
      BY <1>1, <2>1, <3>1 DEF Probe, SessionTypes, StreamShape, UpTypes
    <3>2. CASE StartStream
      <4>1. from \in Nat
        <5>1. max_contiguous_height \in Nat
          <6>1. minH \in Heights /\ Stored \in SUBSET Heights
            BY <1>1 DEF StorageTypeOK, Stored
          <6>2. FirstGap(minH, Stored) \in minH..(MaxHeight + 1)
            BY <6>1, FirstGapIsFirstGap
          <6> QED
            BY <6>1, <6>2 DEF max_contiguous_height, Pred, Heights
        <5> QED
          BY <5>1 DEF from
      <4>2. \/ mpc' = "connect" /\ next' = next
            \/ mpc' = "stream" /\ next' = from /\ from <= target
        BY <1>1, <3>2, <4>1 DEF StartStream, SessionTypes, Heights
      <4>3. target' = target
        BY <3>2 DEF StartStream
      <4> QED
        BY <1>1, <2>1, <4>1, <4>2, <4>3 DEF SessionTypes, StreamShape, Heights
    <3> QED
      BY <1>2, <3>1, <3>2
  <2> QED
    BY <2>1, <2>2, <2>3, SessionStep
<1>3. CASE StreamRecord
  <2>1. /\ mpc = "stream" /\ ulive /\ ulo <= next /\ target <= uhi /\ PutBlock(next, "data")
        /\ mh' = next /\ mpc' = "streamIndex" /\ idx' = idx /\ UNCHANGED upVars
        /\ UNCHANGED <<target, next, ring, floorSet, behind_tip, faults>>
    BY <1>3 DEF StreamRecord, Servable
  <2>2. next \in Heights /\ next <= uhi
    BY <1>1, <2>1 DEF SessionTypes, StreamShape, UpTypes, Heights
  <2>3. SessionTypes' /\ GaugeTypes' /\ StreamShape' /\ RingInside'
    BY <1>1, <2>1 DEF SessionTypes, GaugeTypes, StreamShape, RingInside, upVars
  <2> QED
    BY <2>1, <2>2, <2>3, WriteStep
<1>4. CASE StreamIndex
  <2>1. /\ mpc = "streamIndex" /\ PutIndex(mh) /\ behind_tip' = target - mh /\ mh' = 0
        /\ \/ mpc' = "connect" /\ target' = 0 /\ next' = 0
           \/ mh < target /\ mpc' = "stream" /\ next' = next + 1 /\ target' = target
        /\ UNCHANGED <<opened, minH, rec>> /\ UNCHANGED upVars /\ UNCHANGED <<ring, floorSet, faults>>
    BY <1>1, <1>4 DEF StreamIndex, SessionTypes, Heights
  <2>2. mh = next /\ next <= target /\ mh \in Heights
    BY <1>1, <2>1 DEF StreamShape, SessionTypes
  <2>3. SessionTypes' /\ StreamShape'
    BY <1>1, <2>1, <2>2 DEF SessionTypes, StreamShape, Heights
  <2>4. GaugeTypes'
    BY <1>1, <2>1, <2>2 DEF GaugeTypes, SessionTypes, Heights
  <2> QED
    BY <2>1, <2>2, <2>3, <2>4, IndexStep
<1> QED
  BY <1>2, <1>3, <1>4

\* follow_tip.
LEMMA FollowKeeps ==
  ASSUME MInv, Connect \/ FollowRecord \/ FollowIndex \/ FollowSkips
  PROVE  MInv'
<1> USE StorageAssumption, PMirrorAssumption
<1>1. /\ UpTypes /\ SessionTypes /\ GaugeTypes /\ FromUpstream /\ StreamShape /\ RingInside
  BY MTypesSplit DEF MInv, FromUpstream, RingInside
<1>2. CASE Connect
  <2>1. SessionTypes' /\ GaugeTypes' /\ StreamShape' /\ RingInside' /\ ring' = <<>>
    BY <1>1, <1>2 DEF Connect, SessionTypes, GaugeTypes, StreamShape, RingInside, Heights
  <2> QED
    BY <1>2, <2>1, SessionStep DEF Connect
<1>3. CASE FollowRecord
  <2>1. /\ ring # <<>> /\ PutBlock(Head(ring), "data") /\ mh' = Head(ring) /\ ring' = Tail(ring)
        /\ mpc' = "followIndex" /\ idx' = idx /\ UNCHANGED upVars
        /\ UNCHANGED <<target, next, floorSet, behind_tip, faults>>
    BY <1>3 DEF FollowRecord
  <2>2. /\ Head(ring) \in Heights /\ ulo <= Head(ring) /\ Head(ring) <= uhi /\ ulive
        /\ Tail(ring) \in Seq(Heights) /\ Len(Tail(ring)) = Len(ring) - 1
        /\ \A i \in 1..Len(Tail(ring)) : ulo <= Tail(ring)[i] /\ Tail(ring)[i] <= uhi
    BY <1>1, <2>1, TailInside DEF FromUpstream
  <2>3. Len(ring) \in Nat
    BY <1>1 DEF SessionTypes
  <2>4. SessionTypes'
    BY <1>1, <2>1, <2>2, <2>3 DEF SessionTypes
  <2>5. GaugeTypes' /\ StreamShape' /\ RingInside'
    BY <1>1, <2>1, <2>2 DEF GaugeTypes, StreamShape, RingInside, upVars
  <2> QED
    BY <2>1, <2>2, <2>4, <2>5, WriteStep
<1>4. CASE FollowIndex
  <2>1. /\ PutIndex(mh) /\ UNCHANGED <<opened, minH, rec>> /\ UNCHANGED upVars /\ ring' = ring
        /\ mh \in Heights
    BY <1>1, <1>4 DEF FollowIndex, SessionTypes
  <2>2. SessionTypes' /\ GaugeTypes' /\ StreamShape'
    BY <1>1, <1>4 DEF FollowIndex, SessionTypes, GaugeTypes, StreamShape, Heights
  <2> QED
    BY <2>1, <2>2, IndexStep
<1>5. CASE FollowSkips
  <2>1. /\ ring # <<>> /\ ring' = Tail(ring) /\ UNCHANGED storageVars /\ UNCHANGED upVars
        /\ UNCHANGED <<mpc, target, next, mh, floorSet, behind_tip, faults>>
    BY <1>5 DEF FollowSkips
  <2>2. /\ Tail(ring) \in Seq(Heights) /\ Len(Tail(ring)) = Len(ring) - 1 /\ ulive
        /\ \A i \in 1..Len(Tail(ring)) : ulo <= Tail(ring)[i] /\ Tail(ring)[i] <= uhi
    BY <1>1, <2>1, TailInside DEF FromUpstream
  <2>3. Len(ring) \in Nat
    BY <1>1 DEF SessionTypes
  <2>4. SessionTypes'
    BY <1>1, <2>1, <2>2, <2>3 DEF SessionTypes
  <2>5. GaugeTypes' /\ StreamShape' /\ RingInside'
    BY <1>1, <2>1, <2>2 DEF GaugeTypes, StreamShape, RingInside, upVars
  <2> QED
    BY <2>1, <2>2, <2>4, <2>5, SessionStep
<1> QED
  BY <1>2, <1>3, <1>4, <1>5

\* The ways a session, or the process, ends.
LEMMA TroubleKeeps ==
  ASSUME MInv, SessionFails \/ StreamRefused \/ FollowIdle \/ IndexError \/ Crash
  PROVE  MInv'
<1> USE StorageAssumption, PMirrorAssumption
<1>1. /\ UpTypes /\ SessionTypes /\ GaugeTypes /\ FromUpstream /\ StreamShape /\ RingInside
  BY MTypesSplit DEF MInv, FromUpstream, RingInside
<1>2. UNCHANGED storageVars /\ UNCHANGED upVars
  BY DEF SessionFails, StreamRefused, FollowIdle, IndexError, Crash
<1>3. GaugeTypes'
  <2>1. CASE Crash
    <3>1. floorSet' \in BOOLEAN
      BY <2>1, Zenon DEF Crash
    <3> QED
      BY <1>1, <2>1, <3>1 DEF Crash, GaugeTypes, Heights
  <2>2. CASE ~Crash
    BY <1>1, <2>2 DEF SessionFails, StreamRefused, FollowIdle, IndexError, GaugeTypes
  <2> QED
    BY <2>1, <2>2
<1>4. CASE NewSession
  BY <1>2, <1>3, <1>4, NewSessionKeeps
<1>5. CASE mpc' = "follow" /\ mh' = 0 /\ UNCHANGED <<target, next, ring>>
  <2>1. SessionTypes' /\ StreamShape' /\ RingInside' /\ (~ulive => ring' = <<>>)
    BY <1>1, <1>2, <1>5 DEF SessionTypes, StreamShape, RingInside, FromUpstream, upVars, Heights
  <2> QED
    BY <1>2, <1>3, <2>1, SessionStep
<1> QED
  BY <1>4, <1>5 DEF SessionFails, StreamRefused, FollowIdle, IndexError, Crash, NewSession

\* The invariant holds throughout.
LEMMA MirrorInvariant == Spec => []MInv
<1>1. MInv /\ [Next]_vars => MInv'
  <2> SUFFICES ASSUME MInv, [Next]_vars PROVE MInv'
    OBVIOUS
  <2>1. CASE UNCHANGED vars
    <3>1. /\ UNCHANGED storageVars /\ UNCHANGED upVars
          /\ UNCHANGED <<mpc, target, next, ring, mh, floorSet, behind_tip, faults>>
      BY <2>1 DEF vars, sessionVars
    <3>2. SessionTypes /\ GaugeTypes /\ StreamShape /\ FromUpstream
      BY MTypesSplit DEF MInv
    <3>3. SessionTypes' /\ GaugeTypes' /\ StreamShape' /\ RingInside' /\ (~ulive => ring' = <<>>)
      BY <3>1, <3>2 DEF SessionTypes, GaugeTypes, StreamShape, RingInside, FromUpstream, upVars
    <3> QED
      BY <3>1, <3>3, SessionStep
  <2> QED
    BY <2>1, UpstreamKeeps, BootstrapKeeps, FollowKeeps, TroubleKeeps DEF Next, Session
<1> QED
  BY <1>1, MInit, PTL DEF Spec

\* The session's variables always have their types: the live ring stays within
\* LIVE_CHANNEL_CAP, no stream runs past its target, and the gauge that
\* bootstrap reports never goes below 0.
THEOREM MTypeCorrect == Spec => []TypeOK
<1>1. MInv => TypeOK
  BY DEF MInv
<1> QED
  BY <1>1, MirrorInvariant, PTL

\* A mirror never holds what its upstream does not: bootstrap writes within a
\* range the upstream could serve, follow_tip what it has published.
THEOREM MirrorAlwaysWithinUpstream == Spec => []MirrorWithinUpstream
<1>1. MInv => MirrorWithinUpstream
  <2> SUFFICES ASSUME MInv, Stored # {} PROVE ulive /\ Stored \subseteq (MaxOf(ulo, minH)..uhi)
    BY DEF MirrorWithinUpstream
  <2>1. \A h \in Stored : h \in Heights
    BY DEF Stored
  <2>2. ulo \in Heights /\ uhi \in Heights /\ minH \in Heights
    BY DEF MInv, TypeOK, StorageTypeOK
  <2> QED
    BY <2>1, <2>2, StorageAssumption DEF MInv, FromUpstream, Anchored, MaxOf, Heights
<1> QED
  BY <1>1, MirrorInvariant, PTL

\* How a step may change the store: not at all, stage one of put, or stage two.
LEMMA MStoreSteps ==
  ASSUME MInv, [Next]_vars
  PROVE  \/ UNCHANGED <<opened, minH, rec>>
         \/ idx' = idx /\ \E h \in Heights : PutBlock(h, "data")
<1>1. SessionTypes /\ FromUpstream
  BY MTypesSplit DEF MInv
<1>2. CASE StreamRecord
  BY <1>1, <1>2 DEF StreamRecord, SessionTypes
<1>3. CASE FollowRecord
  <2>1. RingInside /\ ring # <<>>
    BY <1>1, <1>3 DEF FromUpstream, RingInside, FollowRecord
  <2> QED
    BY <1>1, <1>3, <2>1, TailInside DEF FollowRecord
<1>4. CASE UpstreamStores \/ UpstreamPublishes \/ Crash \/ UNCHANGED vars
  BY <1>4 DEF UpstreamStores, UpstreamPublishes, Crash, vars, storageVars
<1>5. CASE Session /\ ~StreamRecord /\ ~FollowRecord
  BY <1>5 DEF Session, SessionFails, Probe, StartStream, StreamRefused, StreamIndex, Connect,
              FollowIndex, FollowSkips, FollowIdle, IndexError, storageVars
<1> QED
  BY <1>2, <1>3, <1>4, <1>5 DEF Next

\* A bootstrap that writes over records which are there already, and a live feed
\* that skips ahead, never move the minimum or the frontier back.
THEOREM MFrontierNeverRetreats == Spec => FrontierNeverRetreats
<1> DEFINE Kept == opened => /\ opened' /\ minH' = minH
                             /\ Stored \subseteq Stored'
                             /\ max_contiguous_height <= max_contiguous_height'
<1>1. MInv /\ [Next]_vars => Kept
  <2> SUFFICES ASSUME MInv, [Next]_vars, opened
               PROVE  /\ opened' /\ minH' = minH /\ Stored \subseteq Stored'
                      /\ max_contiguous_height <= max_contiguous_height'
    OBVIOUS
  <2>1. StorageTypeOK /\ Anchored /\ SessionTypes /\ FromUpstream
    BY MTypesSplit DEF MInv
  <2>2. \/ UNCHANGED <<opened, minH, rec>>
        \/ idx' = idx /\ \E h \in Heights : PutBlock(h, "data")
    BY MStoreSteps
  <2>3. /\ minH \in Heights /\ Stored \in SUBSET Heights
        /\ FirstGap(minH, Stored) \in minH..(MaxHeight + 1)
    <3>1. minH \in Heights /\ Stored \in SUBSET Heights
      BY <2>1 DEF StorageTypeOK, Stored
    <3> QED
      BY <3>1, FirstGapIsFirstGap
  <2>4. CASE UNCHANGED <<opened, minH, rec>>
    <3>1. max_contiguous_height \in Int
      BY <2>3, StorageAssumption DEF max_contiguous_height, Pred, Heights
    <3> QED
      BY <2>4, <3>1 DEF Stored, max_contiguous_height
  <2>5. CASE idx' = idx /\ \E h \in Heights : PutBlock(h, "data")
    <3>1. PICK h \in Heights : PutBlock(h, "data")
      BY <2>5
    <3>2. opened' = TRUE /\ minH' = minH /\ Stored' = Stored \cup {h}
      BY <2>1, <2>5, <3>1, MPutEffect
    <3>3. Stored' \in SUBSET Heights
      BY <2>3, <3>2
    <3>4. /\ FirstGap(minH, Stored) <= FirstGap(minH, Stored')
          /\ FirstGap(minH, Stored') \in minH..(MaxHeight + 1)
      BY <2>3, <3>2, <3>3, FirstGapMonotone, FirstGapIsFirstGap
    <3>5. max_contiguous_height <= max_contiguous_height'
      BY <2>3, <3>2, <3>4, StorageAssumption DEF max_contiguous_height, Pred, Heights
    <3> QED
      BY <3>2, <3>5
  <2> QED
    BY <2>2, <2>4, <2>5
<1>2. Spec => [][Kept]_vars
  BY <1>1, MirrorInvariant, PTL DEF Spec
<1> QED
  BY <1>2 DEF FrontierNeverRetreats

------------------------------------------------------------------------------
(* The store, as its readers see it. *)

\* Until there is a store the mirror knows its configured floor and streams from
\* it; with a floor of 0, which no target is below, it follows nothing else.
Unopened ==
  ~opened =>
    /\ floorSet = HasFloor
    /\ mpc \notin {"streamIndex", "followIndex"}
    /\ HasFloor /\ mpc = "stream" => next = FloorAt
    /\ HasFloor /\ FloorAt = 0 => mpc \notin {"connect", "follow"}

AnchorInv == AnchorHeld /\ Unopened

\* The put that creates the store writes the block at its minimum, if that is 0.
LEMMA FirstPutAnchors ==
  ASSUME MInv, AnchorInv, NEW h \in Heights, PutBlock(h, "data"), idx' = idx,
         ~opened => ~HasFloor \/ h = FloorAt \/ FloorAt > 0
  PROVE  AnchorInv'
<1> USE StorageAssumption DEF Heights
<1>1. /\ opened' = TRUE /\ (opened => minH' = minH) /\ Stored' = Stored \cup {h}
      /\ minH' \in Nat
  BY MPutEffect DEF MInv, TypeOK, StorageTypeOK
<1>2. ~opened => minH' = Anchor(h)
  BY DEF PutBlock
<1>3. AnchorHeld'
  BY <1>1, <1>2 DEF AnchorInv, AnchorHeld, Anchor
<1> QED
  BY <1>1, <1>3 DEF AnchorInv, Unopened

\* Every step keeps the anchor.
LEMMA AnchorStep ==
  ASSUME MInv, AnchorInv, [Next]_vars
  PROVE  AnchorInv'
<1> USE StorageAssumption
<1>1. CASE StreamRecord
  <2>1. /\ mpc = "stream" /\ PutBlock(next, "data") /\ idx' = idx /\ next \in Heights
    BY <1>1 DEF StreamRecord, MInv, TypeOK
  <2> QED
    BY <2>1, FirstPutAnchors DEF AnchorInv, Unopened
<1>2. CASE FollowRecord
  <2>1. /\ mpc = "follow" /\ PutBlock(Head(ring), "data") /\ idx' = idx /\ ring # <<>>
    BY <1>2 DEF FollowRecord
  <2>2. Head(ring) \in Heights
    BY <2>1, TailInside, MTypesSplit DEF MInv, FromUpstream, RingInside
  <2>3. FloorAt = 0 \/ FloorAt > 0
    BY DEF Heights
  <2> QED
    BY <2>1, <2>2, <2>3, FirstPutAnchors DEF AnchorInv, Unopened
<1>3. ASSUME UNCHANGED <<opened, minH, rec>> PROVE AnchorHeld'
  BY <1>3 DEF AnchorInv, AnchorHeld, Stored
<1>4. CASE UpstreamStores \/ UpstreamPublishes \/ UNCHANGED vars
  <2>1. UNCHANGED <<opened, minH, rec, mpc, next, floorSet>>
    BY <1>4 DEF UpstreamStores, UpstreamPublishes, vars, storageVars, sessionVars
  <2> QED
    BY <1>3, <2>1 DEF AnchorInv, Unopened
<1>5. CASE Crash
  <2>1. UNCHANGED <<opened, minH, rec>> /\ mpc' = "probe" /\ floorSet' = (HasFloor /\ ~opened)
    BY <1>5 DEF Crash, storageVars
  <2>2. ~opened => floorSet' = HasFloor
    BY <2>1
  <2> QED
    BY <1>3, <2>1, <2>2 DEF AnchorInv, Unopened
<1>6. CASE StartStream
  <2>1. /\ UNCHANGED <<opened, minH, rec, floorSet>> /\ target \in Heights
        /\ IF from > target THEN mpc' = "connect" ELSE mpc' = "stream" /\ next' = from
    BY <1>6 DEF StartStream, storageVars, MInv, TypeOK
  <2>2. ~opened => floorSet = HasFloor /\ (HasFloor => from = FloorAt)
    BY DEF AnchorInv, Unopened, from, is_empty
  <2>3. ~opened /\ HasFloor /\ FloorAt = 0 => ~(from > target)
    BY <2>1, <2>2 DEF Heights
  <2> QED
    BY <1>3, <2>1, <2>2, <2>3 DEF AnchorInv, Unopened
<1>7. CASE StreamIndex \/ FollowIndex
  <2>1. UNCHANGED <<opened, minH, rec>> /\ mpc \in {"streamIndex", "followIndex"}
    BY <1>7 DEF StreamIndex, FollowIndex
  <2> QED
    BY <1>3, <2>1 DEF AnchorInv, Unopened
<1>8. CASE Probe \/ Connect \/ FollowSkips
  <2>1. /\ UNCHANGED <<opened, minH, rec, floorSet>>
        /\ mpc' = "from" \/ (mpc' = "follow" /\ mpc \in {"connect", "follow"})
    BY <1>8 DEF Probe, Connect, FollowSkips, storageVars
  <2> QED
    BY <1>3, <2>1 DEF AnchorInv, Unopened
<1>9. CASE SessionFails \/ StreamRefused \/ FollowIdle \/ IndexError
  <2>1. /\ UNCHANGED <<opened, minH, rec, floorSet>>
        /\ mpc' = "probe" \/ mpc \in {"streamIndex", "followIndex"}
    BY <1>9 DEF SessionFails, StreamRefused, FollowIdle, IndexError, NewSession, storageVars
  <2> QED
    BY <1>3, <2>1 DEF AnchorInv, Unopened
<1> QED
  BY <1>1, <1>2, <1>4, <1>5, <1>6, <1>7, <1>8, <1>9 DEF Next, Session

\* A mirror's store is one its own readers can rely on, for every floor: a mirror
\* without a store follows the live feed only when that cannot leave out block 0.
THEOREM MFillsStore == Spec => FillsStore
<1>1. Init => Store!StorageInit /\ AnchorInv
  BY InitFills DEF Init, AnchorInv, Unopened
<1>2. MInv /\ AnchorInv /\ [Next]_vars => AnchorInv'
  BY AnchorStep
<1>3. MInv /\ AnchorInv' /\ [Next]_vars => [Store!Puts]_(Store!storageVars)
  <2> SUFFICES ASSUME MInv, AnchorInv', [Next]_vars PROVE [Store!Puts]_(Store!storageVars)
    OBVIOUS
  <2>1. StorageTypeOK /\ AnchorHeld' /\ "data" \in Halves
    BY DEF MInv, TypeOK, AnchorInv, Halves
  <2> QED
    BY <2>1, MStoreSteps, StepFills
<1> QED
  BY <1>1, <1>2, <1>3, MirrorInvariant, PTL DEF Spec, FillsStore, Store!StoreSpec

------------------------------------------------------------------------------
(* What a bootstrap leaves behind. *)

\* Behind a stream's position there is no hole.
StreamSolid ==
  /\ mpc = "stream" /\ opened => minH..(next - 1) \subseteq Stored
  /\ mpc = "streamIndex" => minH..next \subseteq Stored

\* Every step keeps it so.
LEMMA SolidStep ==
  ASSUME MInv, AnchorInv, StreamSolid, [Next]_vars
  PROVE  StreamSolid'
<1> USE StorageAssumption DEF Heights
<1>1. StorageTypeOK /\ minH \in Heights /\ next \in Heights /\ StreamShape /\ Anchored
  BY DEF MInv, TypeOK, StorageTypeOK
<1>2. ASSUME UNCHANGED <<opened, minH, rec>> PROVE Stored' = Stored
  BY <1>2 DEF Stored
<1>3. CASE StreamRecord
  <2>1. /\ mpc = "stream" /\ mpc' = "streamIndex" /\ next' = next /\ PutBlock(next, "data")
        /\ idx' = idx
    BY <1>3 DEF StreamRecord
  <2>2. Stored' = Stored \cup {next} /\ (opened => minH' = minH)
    BY <1>1, <2>1, MPutEffect
  <2>3. CASE opened
    BY <1>1, <2>1, <2>2, <2>3 DEF StreamSolid
  <2>4. CASE ~opened
    <3>1. minH' = Anchor(next)
      BY <2>1, <2>4 DEF PutBlock
    <3>2. Anchor(next) = next
      BY <2>1, <2>4 DEF Anchor, AnchorInv, Unopened
    <3> QED
      BY <1>1, <2>1, <2>2, <3>1, <3>2 DEF StreamSolid
  <2> QED
    BY <2>3, <2>4
<1>4. CASE StreamIndex
  <2>1. /\ mpc = "streamIndex" /\ UNCHANGED <<opened, minH, rec>>
        /\ mpc' = "connect" \/ (mpc' = "stream" /\ next' = next + 1)
    BY <1>4 DEF StreamIndex
  <2> QED
    BY <1>1, <1>2, <2>1 DEF StreamSolid
<1>5. CASE StartStream
  <2>1. /\ UNCHANGED <<opened, minH, rec>>
        /\ mpc' = "connect" \/ (mpc' = "stream" /\ next' = from)
    BY <1>5 DEF StartStream, storageVars
  <2>2. opened => from = max_contiguous_height + 1
    BY DEF from, is_empty
  <2>3. opened => minH..max_contiguous_height \subseteq Stored
    BY <1>1, FrontierStored DEF AnchorInv
  <2>4. max_contiguous_height \in Int
    <3>1. Stored \in SUBSET Heights
      BY DEF Stored
    <3>2. FirstGap(minH, Stored) \in minH..(MaxHeight + 1)
      BY <1>1, <3>1, FirstGapIsFirstGap
    <3> QED
      BY <1>1, <3>2 DEF max_contiguous_height, Pred
  <2>5. opened => minH..(from - 1) \subseteq Stored
    BY <2>2, <2>3, <2>4
  <2> QED
    BY <1>2, <2>1, <2>5 DEF StreamSolid
<1>6. CASE UpstreamStores \/ UpstreamPublishes \/ UNCHANGED vars
  <2>1. UNCHANGED <<opened, minH, rec, mpc, next>>
    BY <1>6 DEF UpstreamStores, UpstreamPublishes, vars, storageVars, sessionVars
  <2> QED
    BY <1>2, <2>1 DEF StreamSolid
<1>7. CASE \/ Crash \/ SessionFails \/ Probe \/ StreamRefused \/ Connect \/ FollowRecord
           \/ FollowIndex \/ FollowSkips \/ FollowIdle \/ IndexError
  <2>1. mpc' \notin {"stream", "streamIndex"}
    BY <1>7 DEF Crash, SessionFails, Probe, StreamRefused, Connect, FollowRecord, FollowIndex,
                FollowSkips, FollowIdle, IndexError, NewSession
  <2> QED
    BY <2>1 DEF StreamSolid
<1> QED
  BY <1>3, <1>4, <1>5, <1>6, <1>7 DEF Next, Session

\* A session turns to the live feed only over a store without a hole up to its
\* target (bootstrap, then follow_tip), for every upstream and any interruptions.
THEOREM MBootstrapIsComplete == Spec => BootstrapIsComplete
<1> DEFINE Full == (mpc \in {"from", "streamIndex"} /\ mpc' = "connect" /\ opened) =>
                     \A h \in Heights : minH <= h /\ h <= target => rec[h] # Absent
<1>1. Init => AnchorInv /\ StreamSolid
  BY InitFills DEF Init, AnchorInv, Unopened, StreamSolid
<1>2. MInv /\ AnchorInv /\ StreamSolid /\ [Next]_vars => AnchorInv' /\ StreamSolid'
  BY AnchorStep, SolidStep
<1>3. MInv /\ AnchorInv /\ StreamSolid /\ [Next]_vars => Full
  <2> SUFFICES ASSUME MInv, AnchorInv, StreamSolid, [Next]_vars, opened,
                      mpc \in {"from", "streamIndex"}, mpc' = "connect",
                      NEW h \in Heights, minH <= h, h <= target
               PROVE  h \in Stored
    BY DEF Stored
  <2> USE StorageAssumption DEF Heights
  <2>1. /\ StorageTypeOK /\ minH \in Heights /\ next \in Heights /\ mh \in Heights
        /\ target \in Heights /\ StreamShape
    BY DEF MInv, TypeOK, StorageTypeOK
  <2>2. CASE StartStream
    <3>1. max_contiguous_height + 1 > target
      BY <2>2 DEF StartStream, from, is_empty
    <3>2. minH..max_contiguous_height \subseteq Stored
      BY <2>1, FrontierStored DEF AnchorInv
    <3>3. max_contiguous_height \in Int
      <4>1. Stored \in SUBSET Heights
        BY DEF Stored
      <4>2. FirstGap(minH, Stored) \in minH..(MaxHeight + 1)
        BY <2>1, <4>1, FirstGapIsFirstGap
      <4> QED
        BY <2>1, <4>2 DEF max_contiguous_height, Pred
    <3> QED
      BY <2>1, <3>1, <3>2, <3>3
  <2>3. CASE StreamIndex
    <3>1. mpc = "streamIndex" /\ mh >= target
      BY <2>3 DEF StreamIndex
    <3>2. mh = next /\ minH..next \subseteq Stored
      BY <2>1, <3>1 DEF StreamShape, StreamSolid
    <3> QED
      BY <2>1, <3>1, <3>2
  <2>4. StartStream \/ StreamIndex
    BY DEF Next, Session, UpstreamStores, UpstreamPublishes, vars, sessionVars, Crash, SessionFails,
           Probe, StreamRefused, StreamRecord, Connect, FollowRecord, FollowIndex, FollowSkips,
           FollowIdle, IndexError, NewSession
  <2> QED
    BY <2>2, <2>3, <2>4
<1>4. Spec => [][Full]_vars
  BY <1>1, <1>2, <1>3, MirrorInvariant, PTL DEF Spec
<1> QED
  BY <1>4 DEF BootstrapIsComplete

==============================================================================
