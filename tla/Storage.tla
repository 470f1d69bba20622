------------------------------- MODULE Storage -------------------------------
(***************************************************************************)
(* One chain's store (src/src/storage.rs): a height-keyed block store that *)
(* is created lazily by the first write, and a sidecar index from hashes   *)
(* to heights.  A record is a block paired with derived data (the logs of  *)
(* a C-chain block, the reward UTXOs of a P-chain block); all that is kept *)
(* of it here is whether the derived half is the empty array or the data   *)
(* the upstream holds.  A block's hash is identified with its height.      *)
(*                                                                         *)
(* The block store itself (blockstore) and the index (fjall) are libraries *)
(* outside the repository: what they do is modelled from how storage.rs    *)
(* uses and describes them.                                                *)
(***************************************************************************)
EXTENDS Integers

CONSTANTS MaxHeight,   \* bound: the highest height of the modelled chain
          HasFloor,    \* a backfill floor is configured (Option::is_some)
          FloorAt      \* its value when it is

ASSUME StorageAssumption ==
  /\ MaxHeight \in Nat
  /\ HasFloor \in BOOLEAN
  /\ FloorAt \in 0..MaxHeight

VARIABLES opened,    \* the block store exists (Inner.blocks is Some)
          minH,      \* its minimum height, baked in at creation
          rec,       \* what is stored at each height
          idx        \* the heights whose hash and transaction entries are committed

storageVars == <<opened, minH, rec, idx>>

Heights == 0..MaxHeight

Absent == "absent"

\* The derived half of a record: the literal `[]` or what the upstream has.
Halves == {"[]", "data"}

StorageTypeOK ==
  /\ opened \in BOOLEAN
  /\ minH \in Heights
  /\ rec \in [Heights -> Halves \cup {Absent}]
  /\ idx \in SUBSET Heights

StorageInit ==
  /\ opened = FALSE
  /\ minH = 0
  /\ rec = [h \in Heights |-> Absent]
  /\ idx = {}

Stored == {h \in Heights : rec[h] # Absent}

(***************************************************************************)
(* The frontier the block store tracks: the first height at or above m     *)
(* that is not in S.                                                       *)
(***************************************************************************)
IsFirstGap(m, S, g) == g \notin S /\ m..(g - 1) \subseteq S

FirstGap(m, S) == CHOOSE g \in m..(MaxHeight + 1) : IsFirstGap(m, S, g)

Pred(n) == IF n = 0 THEN 0 ELSE n - 1      \* u64::saturating_sub(1)

MaxOf(a, b) == IF a >= b THEN a ELSE b

MinOf(a, b) == IF a <= b THEN a ELSE b

\* Highest H with every height of [minH, H] present; 0 without a store.
max_contiguous_height == IF opened THEN Pred(FirstGap(minH, Stored)) ELSE 0

IsHighest(S, h) == h \in S /\ \A k \in S : k <= h

HighestOf(S) == IF S = {} THEN 0 ELSE CHOOSE h \in Heights : IsHighest(S, h)

\* Highest height ever written; 0 without a store.
high_water == HighestOf(Stored)

is_empty == ~opened

(***************************************************************************)
(* `put` in two stages.  The first, under the store's write lock, creates  *)
(* the store when there is none - anchored at the configured floor when    *)
(* that is not above the height - and writes the record; the block store   *)
(* refuses a height below its minimum.  The second commits the hash and    *)
(* transaction entries in one atomic batch.                                *)
(***************************************************************************)
Anchor(h) == IF HasFloor /\ FloorAt <= h THEN FloorAt ELSE h

BelowMinimum(h) == opened /\ h < minH

\* Mutant: every write creates the store anew.
PutBlockTruncating(h, r) ==
  /\ opened' = TRUE
  /\ minH' = Anchor(h)
  /\ rec' = [k \in Heights |-> IF k = h THEN r ELSE Absent]

PutBlock(h, r) ==
  /\ ~BelowMinimum(h)
  /\ opened' = TRUE
  /\ minH' = IF opened THEN minH ELSE Anchor(h)
  /\ rec' = [rec EXCEPT ![h] = r]

PutIndex(h) == idx' = idx \cup {h}

==============================================================================
