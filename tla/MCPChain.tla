------------------------------ MODULE MCPChain -------------------------------
(***************************************************************************)
(* The P-chain loop on every chain of heights 0..MaxHeight, those whose    *)
(* proposals are not decided, which resolve_reward refuses to guess about, *)
(* included.                                                               *)
(***************************************************************************)
EXTENDS PChain

==============================================================================
