------------------------------- MODULE MCPReads -------------------------------
(***************************************************************************)
(* The P-chain loop on every chain of heights 0..MaxHeight, proposals that *)
(* are never decided included, and a client that asks twice.               *)
(***************************************************************************)
EXTENDS PReads

==============================================================================
