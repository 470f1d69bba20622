------------------------------ MODULE StoreView -------------------------------
(***************************************************************************)
(* The store a pipeline fills (src/src/storage.rs), as whoever serves from *)
(* it sees it: which heights are there, and from where on.                 *)
(***************************************************************************)
EXTENDS Storage

\* What a record says does not matter to such a reader.
Seen == [h \in Heights |-> IF h \in Stored THEN "data" ELSE Absent]

Store == INSTANCE GrowingStore WITH rec <- Seen, idx <- Stored

\* The pipeline's store keeps the promises its readers rely on, whichever task
\* writes what in which order, whatever is skipped, written again or lost, and
\* wherever the process dies: created once, at a minimum that never moves (put,
\* open), a height at a time, none ever lost, and with block 0 if it starts there.
FillsStore == Store!StoreSpec

==============================================================================
