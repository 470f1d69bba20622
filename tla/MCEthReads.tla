------------------------------ MODULE MCEthReads ------------------------------
(***************************************************************************)
(* Every request over heights 0..2, one of which has logs, against a       *)
(* pipeline that takes its logs from receipts.                             *)
(***************************************************************************)
EXTENDS EthReads

OneHasLogs == {1}

LiveFails == {"logs", "head"}

==============================================================================
