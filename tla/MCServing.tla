------------------------------ MODULE MCServing -------------------------------
(***************************************************************************)
(* Every range request over heights 0..MaxHeight, and a /health report,    *)
(* against a store filled in every order, with a client that may stall.    *)
(***************************************************************************)
EXTENDS Serving

==============================================================================
