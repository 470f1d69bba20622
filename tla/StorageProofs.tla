---------------------------- MODULE StorageProofs -----------------------------
(***************************************************************************)
(* Facts about the store's frontier and high-water mark, for every         *)
(* MaxHeight: they exist, are unique and only move up as records are added.*)
(***************************************************************************)
EXTENDS GrowingStore, StoreView, TLAPS, WellFoundedInduction

\* Every non-empty set of naturals has a least element.
LEMMA LeastElement ==
  ASSUME NEW T \in SUBSET Nat, T # {}
  PROVE  \E x \in T : \A y \in T : x <= y
<1> DEFINE R == {ss \in Nat \X Nat : ss[1] < ss[2]}
<1>1. IsWellFoundedOn(R, Nat)
  BY NatLessThanWellFounded DEF OpToRel
<1>2. \A x, y \in Nat : ~ (<<y, x>> \in R) => x <= y
  OBVIOUS
<1> HIDE DEF R
<1>3. PICK x \in T : \A y \in T : ~ (<<y, x>> \in R)
  BY <1>1, WFMin
<1> QED
  BY <1>2, <1>3

\* The frontier: the first height at or above m outside S exists.
LEMMA FirstGapIsFirstGap ==
  ASSUME NEW m \in Heights, NEW S \in SUBSET Heights
  PROVE  /\ FirstGap(m, S) \in m..(MaxHeight + 1)
         /\ IsFirstGap(m, S, FirstGap(m, S))
<1> DEFINE T == {g \in Nat : g >= m /\ g \notin S}
<1>1. T \in SUBSET Nat /\ MaxHeight + 1 \in T
  BY StorageAssumption DEF Heights
<1>2. PICK g \in T : \A y \in T : g <= y
  BY <1>1, LeastElement
<1>3. g \in m..(MaxHeight + 1)
  BY <1>1, <1>2, StorageAssumption DEF Heights
<1>4. IsFirstGap(m, S, g)
  BY <1>2, StorageAssumption DEF IsFirstGap, Heights
<1> QED
  BY <1>3, <1>4 DEF FirstGap

\* Adding records never moves the frontier down.
LEMMA FirstGapMonotone ==
  ASSUME NEW m \in Heights, NEW S \in SUBSET Heights, NEW T \in SUBSET Heights,
         S \subseteq T
  PROVE  FirstGap(m, S) <= FirstGap(m, T)
<1>1. /\ FirstGap(m, S) \in m..(MaxHeight + 1) /\ IsFirstGap(m, S, FirstGap(m, S))
      /\ FirstGap(m, T) \in m..(MaxHeight + 1) /\ IsFirstGap(m, T, FirstGap(m, T))
  BY FirstGapIsFirstGap
<1> QED
  BY <1>1, StorageAssumption DEF IsFirstGap, Heights

\* A gap that is first is the frontier.
LEMMA FirstGapUnique ==
  ASSUME NEW m \in Heights, NEW S \in SUBSET Heights,
         NEW g \in m..(MaxHeight + 1), IsFirstGap(m, S, g)
  PROVE  FirstGap(m, S) = g
<1>1. FirstGap(m, S) \in m..(MaxHeight + 1) /\ IsFirstGap(m, S, FirstGap(m, S))
  BY FirstGapIsFirstGap
<1> QED
  BY <1>1, StorageAssumption DEF IsFirstGap, Heights

\* A non-empty set of heights has a highest one.
LEMMA HighestExists ==
  ASSUME NEW S \in SUBSET Heights, S # {}
  PROVE  \E h \in Heights : IsHighest(S, h)
<1> DEFINE T == {n \in Nat : \A k \in S : k <= n}
<1>1. T \in SUBSET Nat /\ MaxHeight \in T
  BY StorageAssumption DEF Heights
<1>2. PICK x \in T : \A y \in T : x <= y
  BY <1>1, LeastElement
<1>3. x \in S
  <2> SUFFICES ASSUME x \notin S PROVE FALSE
    OBVIOUS
  <2>1. PICK k \in S : TRUE
    OBVIOUS
  <2>2. x \in Nat /\ x >= 1 /\ \A j \in S : j <= x - 1
    BY <1>2, <2>1, StorageAssumption DEF Heights
  <2>3. x - 1 \in T
    BY <2>2
  <2> QED
    BY <1>2, <2>2, <2>3
<1> QED
  BY <1>2, <1>3 DEF IsHighest

\* The high-water mark is a height, and the highest stored one.
LEMMA HighestOfIsHighest ==
  ASSUME NEW S \in SUBSET Heights
  PROVE  HighestOf(S) \in Heights /\ (S # {} => IsHighest(S, HighestOf(S)))
<1>1. CASE S = {}
  BY <1>1, StorageAssumption DEF HighestOf, Heights
<1>2. CASE S # {}
  <2>1. \E h \in Heights : IsHighest(S, h)
    BY <1>2, HighestExists
  <2> QED
    BY <1>2, <2>1 DEF HighestOf
<1> QED
  BY <1>1, <1>2

\* Over one interval the frontier is one past the high-water mark.
LEMMA IntervalFacts ==
  ASSUME NEW m \in Heights, NEW t \in m..MaxHeight
  PROVE  /\ m..t \in SUBSET Heights
         /\ HighestOf(m..t) = t
         /\ FirstGap(m, m..t) = t + 1
<1>1. m..t \in SUBSET Heights /\ m..t # {}
  BY StorageAssumption DEF Heights
<1>2. IsHighest(m..t, HighestOf(m..t)) /\ HighestOf(m..t) \in Heights
  BY <1>1, HighestOfIsHighest
<1>3. HighestOf(m..t) = t
  BY <1>2, StorageAssumption DEF IsHighest, Heights
<1>4. t + 1 \in m..(MaxHeight + 1) /\ IsFirstGap(m, m..t, t + 1)
  BY StorageAssumption DEF IsFirstGap, Heights
<1>5. FirstGap(m, m..t) = t + 1
  BY <1>1, <1>4, FirstGapUnique
<1> QED
  BY <1>1, <1>3, <1>5

\* The frontier is a height, after a step too.
LEMMA FrontierNext ==
  ASSUME StorageTypeOK'
  PROVE  max_contiguous_height' \in Heights
<1> USE StorageAssumption DEF Heights
<1>1. minH' \in Heights /\ Stored' \in SUBSET Heights
  BY DEF StorageTypeOK, Stored
<1>2. FirstGap(minH', Stored') \in minH'..(MaxHeight + 1)
  BY <1>1, FirstGapIsFirstGap
<1>3. max_contiguous_height' = IF opened' THEN Pred(FirstGap(minH', Stored')) ELSE 0
  BY DEF max_contiguous_height, Pred, FirstGap, IsFirstGap
<1> QED
  BY <1>1, <1>2, <1>3 DEF Pred

------------------------------------------------------------------------------
(* A floor of 0, whose store may exist without its first block, is the one case *)
(* in which the frontier, 0 by saturation, names a height that is not stored.   *)

FloorAboveZero == HasFloor => FloorAt > 0

\* Away from it, everything up to the frontier is stored.
LEMMA FrontierStored ==
  ASSUME StorageTypeOK, AnchorHeld, opened
  PROVE  minH..max_contiguous_height \subseteq Stored
<1> USE StorageAssumption DEF Heights
<1>1. Stored \in SUBSET Heights /\ minH \in Heights
  BY DEF StorageTypeOK, Stored
<1>2. FirstGap(minH, Stored) \in minH..(MaxHeight + 1) /\ IsFirstGap(minH, Stored, FirstGap(minH, Stored))
  BY <1>1, FirstGapIsFirstGap
<1>3. FirstGap(minH, Stored) # 0
  BY <1>1, <1>2 DEF AnchorHeld, IsFirstGap
<1> QED
  BY <1>1, <1>2, <1>3 DEF max_contiguous_height, Pred, IsFirstGap

\* A put keeps away from it: a store anchored below its first block is anchored at
\* the floor.
LEMMA PutAnchors ==
  ASSUME StorageTypeOK, FloorAboveZero, AnchorHeld, NEW k \in Heights, NEW r \in Halves,
         PutBlock(k, r)
  PROVE  AnchorHeld'
<1> USE StorageAssumption DEF Heights
<1>1. rec' = [rec EXCEPT ![k] = r] /\ minH' = (IF opened THEN minH ELSE Anchor(k))
  BY DEF PutBlock
<1>2. Stored' = Stored \cup {k}
  BY <1>1 DEF StorageTypeOK, Stored, Halves, Absent
<1> QED
  BY <1>1, <1>2 DEF AnchorHeld, Anchor, FloorAboveZero, StorageTypeOK

------------------------------------------------------------------------------
(* The store as its readers see it. *)

\* The two views of the store agree on which heights are there.
LEMMA SeenStored == {h \in Heights : Seen[h] # Absent} = Stored
  BY DEF Seen, Stored, Absent

\* Whatever a put writes, its readers see one more height.
LEMMA PutSeen ==
  ASSUME StorageTypeOK, NEW k \in Heights, NEW r \in Halves, PutBlock(k, r)
  PROVE  Stored' = Stored \cup {k} /\ Seen' = [Seen EXCEPT ![k] = "data"]
<1>1. rec \in [Heights -> Halves \cup {Absent}] /\ rec' = [rec EXCEPT ![k] = r] /\ r # Absent
  BY DEF StorageTypeOK, PutBlock, Halves, Absent
<1>2. Stored' = Stored \cup {k}
  BY <1>1 DEF Stored
<1>3. Seen' = [Seen EXCEPT ![k] = "data"]
  BY <1>2 DEF Seen
<1> QED
  BY <1>2, <1>3

\* An empty store.
LEMMA SeenInit ==
  ASSUME StorageInit
  PROVE  Stored = {} /\ Seen = [h \in Heights |-> Absent]
<1>1. Stored = {}
  BY DEF StorageInit, Stored
<1> QED
  BY <1>1 DEF Seen

\* A step that puts a record, or leaves the store alone, is a put to the store's
\* readers, or nothing.
LEMMA StepFills ==
  ASSUME StorageTypeOK, AnchorHeld',
         \/ UNCHANGED <<opened, minH, rec>>
         \/ \E h \in Heights, r \in Halves : PutBlock(h, r)
  PROVE  [Store!Puts]_(Store!storageVars)
<1>1. CASE UNCHANGED <<opened, minH, rec>>
  <2>1. Stored' = Stored
    BY <1>1 DEF Stored
  <2>2. Seen' = Seen
    BY <2>1 DEF Seen
  <2> QED
    BY <1>1, <2>1, <2>2 DEF Store!storageVars
<1>2. CASE \E h \in Heights, r \in Halves : PutBlock(h, r)
  <2>1. PICK h \in Heights, r \in Halves : PutBlock(h, r)
    BY <1>2
  <2>2. Stored' = Stored \cup {h} /\ Seen' = [Seen EXCEPT ![h] = "data"]
    BY <2>1, PutSeen
  <2>3. /\ ~(opened /\ h < minH) /\ opened' = TRUE
        /\ minH' = IF opened THEN minH ELSE IF HasFloor /\ FloorAt <= h THEN FloorAt ELSE h
    BY <2>1 DEF PutBlock, BelowMinimum, Anchor
  <2>4. Store!PutBlock(h, "data") /\ Store!PutIndex(h)
    BY <2>2, <2>3 DEF Store!PutBlock, Store!PutIndex, Store!BelowMinimum, Store!Anchor
  <2>5. Store!Stored' = Stored'
    BY SeenStored DEF Store!Stored, Store!Heights, Store!Absent, Heights, Absent, Seen, Stored
  <2>6. Store!AnchorHeld'
    BY <2>5 DEF AnchorHeld, Store!AnchorHeld
  <2> QED
    BY <2>4, <2>6 DEF Store!Puts, Store!Heights, Heights
<1> QED
  BY <1>1, <1>2

\* An empty store is an empty store to its readers.
LEMMA InitFills ==
  ASSUME StorageInit
  PROVE  Store!StorageInit /\ AnchorHeld
<1>1. Stored = {} /\ Seen = [h \in Heights |-> Absent]
  BY SeenInit
<1> QED
  BY <1>1 DEF StorageInit, Store!StorageInit, Store!Heights, Store!Absent, Heights, Absent, AnchorHeld

==============================================================================
