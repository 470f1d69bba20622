------------------------------ MODULE MCCChain -------------------------------
(***************************************************************************)
(* The C-chain pipeline on small chains: heights 0..MaxHeight with logs at *)
(* the heights below, so that blocks with and without logs are neighbours  *)
(* and a run of LOGS_WINDOW = 2 heights spans both kinds.                  *)
(***************************************************************************)
EXTENDS CChain

SomeHaveLogs == {1, 3}

NoneHaveLogs == {}

AllFail == {"stream", "head", "logs", "tip", "window", "block"}

AllButTipFail == AllFail \ {"tip"}

==============================================================================
