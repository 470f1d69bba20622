----------------------------- MODULE GrowingStore -----------------------------
(***************************************************************************)
(* What a chain's store promises whoever reads it while it is being        *)
(* filled (src/src/storage.rs, as serve_range of src/src/subscribe.rs and  *)
(* src/src/bulk.rs and /health rely on it): it is created once, at a       *)
(* minimum that never moves, heights are added one at a time in any order, *)
(* none is ever lost, and a store that starts at 0 has block 0.            *)
(*                                                                         *)
(* What a record says does not matter here, and a record counts as indexed *)
(* when it is stored.  The pipelines are shown to keep these promises, and *)
(* the requests of RangeStream and Serving to need no others.              *)
(***************************************************************************)
EXTENDS Storage

AnchorHeld == opened => minH > 0 \/ minH \in Stored

\* A put by an ingest task, over a record that may be there already.
Puts ==
  /\ \E k \in Heights : PutBlock(k, "data") /\ PutIndex(k)
  /\ AnchorHeld'

StoreSpec == StorageInit /\ [][Puts]_storageVars

==============================================================================
