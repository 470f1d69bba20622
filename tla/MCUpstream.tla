------------------------------ MODULE MCUpstream ------------------------------
(***************************************************************************)
(* Two fetches of the P-chain and one of the C-chain under a host budget   *)
(* that is tighter than the C-chain's own and looser than the P-chain's.   *)
(***************************************************************************)
EXTENDS Upstream

ChainIntervals == [C |-> 0, P |-> 2]

==============================================================================
