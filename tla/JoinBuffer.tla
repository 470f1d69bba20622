----------------------------- MODULE JoinBuffer ------------------------------
(***************************************************************************)
(* The join buffer (src/src/join.rs): it pairs a block half with the logs  *)
(* half of the same height, held in memory until both are there.  The map  *)
(* under its mutex is a function from heights to what is pending.  on_block*)
(* and on_logs are written here as the function of the map they compute    *)
(* while holding the lock: the verdict and the map they leave.  A "write"  *)
(* verdict is carried out by `apply`, which calls the store's put after    *)
(* the lock is released: the module that composes the two takes that step. *)
(***************************************************************************)
EXTENDS Storage, FiniteSets

CONSTANT Cap   \* join_buffer_cap

ASSUME JoinAssumption == Cap \in Nat \ {0}

\* Pending::Block, Pending::Logs, or no entry.
Pendings == {"none", "block", "logs"}

NothingPending == [h \in Heights |-> "none"]

Held(p) == {h \in Heights : p[h] # "none"}

\* Mutant: one entry more than the cap is admitted.
FullOffByOne(p) == Cardinality(Held(p)) > Cap

\* At the cap the join is not keeping up: flush everything.
Full(p) == Cardinality(Held(p)) >= Cap

OtherHalf(half) == IF half = "block" THEN "logs" ELSE "block"

(***************************************************************************)
(* One half arrives at h.  If the other half waits there, both leave the   *)
(* buffer and the caller writes the record; a repeated half replaces the   *)
(* held one without adding an entry; a new entry that would exceed the cap *)
(* flushes the whole buffer and is not inserted itself.                    *)
(***************************************************************************)
Arrive(p, h, half) ==
  CASE p[h] = OtherHalf(half) ->
         [act |-> "write", pending |-> [p EXCEPT ![h] = "none"]]
    [] p[h] = "none" /\ Full(p) ->
         [act |-> "deferred", pending |-> NothingPending]
    [] OTHER ->
         [act |-> "buffered", pending |-> [p EXCEPT ![h] = half]]

on_block(p, h) == Arrive(p, h, "block")

on_logs(p, h) == Arrive(p, h, "logs")

\* buffered_block: what the read path finds in memory.
buffered_block(p, h) == p[h] = "block"

==============================================================================
