-------------------------------- MODULE PReads --------------------------------
(***************************************************************************)
(* A client's platform.* requests, one after another, served while the     *)
(* P-chain pipeline runs (src/src/platform/rpc.rs).  A handler reads the   *)
(* index and the store in separate awaits; the client remembers what it    *)
(* was told across requests, and across restarts of the process.           *)
(*                                                                         *)
(* "null" is the answer the HTTP layer turns into a 421.                   *)
(***************************************************************************)
EXTENDS PChain

CONSTANT MaxRequests  \* bound: requests the client makes

ASSUME PReadsAssumption == MaxRequests \in Nat

VARIABLES
  rpc,       \* the request's position
  ask,       \* the request
  at,        \* the height it resolved to
  nth,       \* get_tx: the transaction's place in its block
  ans,       \* the answer
  asked,     \* requests so far
  told,      \* the greatest height platform.getHeight reported
  committed  \* the transactions platform.getTxStatus called Committed

localVars == <<rpc, ask, at, nth, ans>>
clientVars == <<localVars, asked, told, committed>>
readsVars == <<vars, clientVars>>

Nothing == -1

------------------------------------------------------------------------------
(* Transactions (src/src/platform/mod.rs). *)

\* A block's `txs` array and its `tx`: a proposal block has both, a commit or an
\* abort neither.
TxsArray(h) ==
  IF kind[h] \in {"standard", "reward"} THEN <<"first">> ELSE <<>>

TxField(h) == IF kind[h] = "reward" THEN <<"proposal">> ELSE <<>>

block_txs(h) == TxsArray(h) \o TxField(h)

take_nth_tx(h, n) ==
  IF n <= Len(TxsArray(h)) THEN TxsArray(h)[n]
  ELSE IF n = Len(TxsArray(h)) + 1 /\ TxField(h) # <<>> THEN TxField(h)[1]
  ELSE "none"

TxNames == {"first", "proposal"}

\* get_tx_location: what put indexed, in block_txs's order; 0 for none.
Location(h, tx) ==
  IF h \in idx /\ \E n \in DOMAIN block_txs(h) : block_txs(h)[n] = tx
  THEN CHOOSE n \in DOMAIN block_txs(h) : block_txs(h)[n] = tx
  ELSE 0

------------------------------------------------------------------------------
Asks ==
  [kind : {"getHeight", "getTimestamp"}, height : {0}, tx : {"none"}, encoding : {"json"}]
    \cup [kind : {"getBlockByHeight", "getBlock"}, height : Heights, tx : {"none"},
          encoding : {"json"}]
    \cup [kind : {"getTx", "getTxStatus"}, height : Heights, tx : TxNames, encoding : {"json"}]
    \cup [kind : {"getTx"}, height : {0}, tx : TxNames, encoding : {"hex"}]

NoAsk == [kind |-> "none", height |-> 0, tx |-> "none", encoding |-> "json"]

ReadsTypeOK ==
  /\ TypeOK
  /\ rpc \in {"idle", "empty", "contig", "index", "store", "done"}
  /\ ask \in Asks \cup {NoAsk}
  /\ at \in Heights \cup {Nothing} /\ nth \in 0..2
  /\ ans \in {"none", "null", "height", "block", "status"} \cup TxNames
  /\ asked \in 0..MaxRequests
  /\ told \in Heights \cup {Nothing}
  /\ committed \subseteq Heights \X TxNames

Idle == rpc' = "idle" /\ ask' = NoAsk /\ at' = Nothing /\ nth' = 0 /\ ans' = "none"

ReadsInit ==
  /\ Init
  /\ rpc = "idle" /\ ask = NoAsk /\ at = Nothing /\ nth = 0 /\ ans = "none"
  /\ asked = 0 /\ told = Nothing /\ committed = {}

First(r) ==
  IF r.kind \in {"getHeight", "getTimestamp"} THEN "empty"
  ELSE IF r.kind = "getBlockByHeight" THEN "store" ELSE "index"

\* A transaction's bytes are not stored: get_tx defers that encoding at once.
Arrives(r) ==
  /\ rpc = "idle" /\ asked < MaxRequests
  /\ asked' = asked + 1
  /\ ask' = r
  /\ at' = IF r.kind = "getBlockByHeight" THEN r.height ELSE Nothing
  /\ IF r.kind = "getTx" /\ r.encoding # "json"
     THEN rpc' = "done" /\ ans' = "null"
     ELSE rpc' = First(r) /\ UNCHANGED ans
  /\ UNCHANGED <<vars, nth, told, committed>>

Answer(a) == rpc' = "done" /\ ans' = a

\* tip: emptiness first ...
TipEmpty ==
  /\ rpc = "empty"
  /\ IF is_empty THEN Answer("null") ELSE rpc' = "contig" /\ UNCHANGED ans
  /\ UNCHANGED <<vars, ask, at, nth, asked, told, committed>>

\* Mutant: the height is the tip the loop last heard of.
get_height_upstream ==
  /\ rpc = "contig"
  /\ at' = MaxOf(max_contiguous_height, tip)
  /\ IF ask.kind = "getHeight"
     THEN Answer("height") /\ told' = MaxOf(told, at')
     ELSE rpc' = "store" /\ UNCHANGED <<ans, told>>
  /\ UNCHANGED <<vars, ask, nth, asked, committed>>

\* ... then the contiguous frontier: platform.getHeight's answer, or the height
\* of the block whose time platform.getTimestamp gives.
get_height ==
  /\ rpc = "contig"
  /\ at' = max_contiguous_height
  /\ IF ask.kind = "getHeight"
     THEN Answer("height") /\ told' = MaxOf(told, at')
     ELSE rpc' = "store" /\ UNCHANGED <<ans, told>>
  /\ UNCHANGED <<vars, ask, nth, asked, committed>>

\* height_of_hash and get_tx_location: is what is asked for indexed?
Found ==
  IF ask.kind = "getBlock" THEN ask.height \in idx ELSE Location(ask.height, ask.tx) # 0

LookUpMisses ==
  /\ rpc = "index" /\ ~Found
  /\ Answer("null")
  /\ UNCHANGED <<vars, ask, at, nth, asked, told, committed>>

get_tx_status ==
  /\ rpc = "index" /\ Found /\ ask.kind = "getTxStatus"
  /\ Answer("status")
  /\ committed' = committed \cup {<<ask.height, ask.tx>>}
  /\ UNCHANGED <<vars, ask, at, nth, asked, told>>

\* get_block and get_tx go on to the block.
LookUpHits ==
  /\ rpc = "index" /\ Found /\ ask.kind # "getTxStatus"
  /\ at' = ask.height /\ nth' = Location(ask.height, ask.tx)
  /\ rpc' = "store"
  /\ UNCHANGED <<vars, ask, ans, asked, told, committed>>

\* The transaction asked for, out of its block.
SlicedTx == LET tx == take_nth_tx(at, nth) IN IF tx = "none" THEN "null" ELSE tx

\* render_block, stored_block, and the end of get_tx.
ReadStore ==
  /\ rpc = "store"
  /\ Answer(IF rec[at] = Absent THEN "null" ELSE IF ask.kind = "getTx" THEN SlicedTx ELSE "block")
  /\ UNCHANGED <<vars, ask, at, nth, asked, told, committed>>

Answered ==
  /\ rpc = "done"
  /\ Idle
  /\ UNCHANGED <<vars, asked, told, committed>>

\* A request under way is lost with the process; what the client knows is not.
ReadsCrash ==
  /\ Crash
  /\ Idle
  /\ UNCHANGED <<asked, told, committed>>

Reads ==
  \/ \E r \in Asks : Arrives(r)
  \/ TipEmpty \/ get_height \/ LookUpMisses \/ get_tx_status \/ LookUpHits \/ ReadStore \/ Answered

Pipeline == (Grow \/ Loop) /\ UNCHANGED clientVars

ReadsNext == Pipeline \/ ReadsCrash \/ Reads

ReadsSpec == ReadsInit /\ [][ReadsNext]_readsVars

------------------------------------------------------------------------------
(* Properties. *)

\* A height that platform.getHeight has reported stands: every block from the
\* store's floor up to it is served, it is never reported lower, and the chain
\* has a timestamp, whatever is written, refused or lost to a restart between the
\* two requests (get_height, "the height below which every block is present").
ReportedHeightStands ==
  rpc = "done" /\ told # Nothing =>
    /\ ask.kind \in {"getHeight", "getTimestamp"} => ans # "null"
    /\ ask.kind = "getHeight" => at >= told
    /\ ask.kind = "getBlockByHeight" /\ minH <= ask.height /\ ask.height <= told => ans = "block"

\* What the index names is served and is what was asked for: a block known by
\* its ID, and every transaction that getTxStatus called Committed, the proposal
\* of a block that also has an array of them included (put's order; block_txs and
\* take_nth_tx share their index).
CommittedIsServed ==
  rpc = "done" =>
    /\ ask.kind = "getBlock" /\ at # Nothing => ans = "block"
    /\ ask.kind = "getTx" /\ ask.encoding = "json" =>
         /\ ans \in {"null", ask.tx}
         /\ <<ask.height, ask.tx>> \in committed => ans = ask.tx

==============================================================================
