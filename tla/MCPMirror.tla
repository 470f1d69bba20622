------------------------------ MODULE MCPMirror ------------------------------
(***************************************************************************)
(* A P-chain mirror over heights 0..MaxHeight, with a live ring of two     *)
(* records so that a slow mirror lags.                                     *)
(***************************************************************************)
EXTENDS PMirror

==============================================================================
