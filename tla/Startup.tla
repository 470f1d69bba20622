------------------------------ MODULE Startup --------------------------------
(***************************************************************************)
(* Starting neve, and starting it again: configuration, then one instance  *)
(* per chain (build_instance of src/src/main.rs), each of which binds its  *)
(* directory to a chain and a network with stamps (verify_and_stamp_meta   *)
(* of src/src/storage.rs), then ingest, until the process ends.  It may    *)
(* end anywhere, and the next start may have any other configuration.      *)
(***************************************************************************)
EXTENDS Config

CONSTANTS Invocations,  \* name -> the file, environment and command line of a start
          NoName,       \* no invocation
          NetworkOf,    \* host -> the network it is on
          Dirs,         \* the store directories those invocations can name
          Relics,       \* what may be on disk before the first start
          MaxStarts     \* bound: starts of the process

FormatVersion == 1   \* Chain::format_version, 1 for both chains
Unstamped == "none"

\* A store as an older build left it, which stamped no chain; nothing at all
\* when there are no blocks.
Relic(d, i, f, b) == [dir |-> d, identity |-> i, fmt |-> f, blocks |-> b]

ASSUME StartupAssumption ==
  /\ NetworkOf \in [Hosts -> Networks]
  /\ Unstamped \notin Networks
  /\ MaxStarts \in Nat
  /\ \A r \in Relics :
       /\ r.dir \in Dirs /\ r.identity \in Networks \cup {Unstamped} /\ r.fmt \in Nat
       /\ r.identity = Unstamped => r.fmt = 0
       /\ \/ r.blocks = {} /\ r.identity = Unstamped
          \/ \E n \in Networks : r.blocks = {<<"c", n>>} /\ r.identity \in {Unstamped, n}

VARIABLES
  \* On disk, per directory.
  chainStamp,     \* meta/chain
  identityStamp,  \* meta/chain_id, the network
  formatStamp,    \* meta/format_version, 0 when absent
  made,           \* blocks/blockdb.idx exists
  blocks,         \* <<chain, network>> of every block written
  \* The process.
  phase,          \* where it is; "down" when there is none
  starts,         \* how often it was started
  name,           \* the invocation, until it is resolved
  cfg,            \* chain -> its configuration, likewise
  plan,           \* chain -> what its store depends on: directory and upstream
  queue,          \* the chains still to be built, the C-chain first
  identity,       \* what the upstream said of the network of the one being built
  unsynced,       \* stamps inserted since the last persist
  missing,        \* stamps still to insert
  \* Kept for the properties.
  relic,          \* the directory that was not fresh before the first start
  usedFor         \* directory -> <<chain, network>> it was opened for in earlier starts

disk == <<chainStamp, identityStamp, formatStamp, made, blocks>>
process == <<name, cfg, plan, queue, identity, unsynced, missing>>
vars == <<disk, phase, starts, process, relic, usedFor>>

NoConfig == <<>>

\* normalize_chains: the chain whose turn it is, and its directory.
Current == IF "c" \in queue THEN "c" ELSE "p"
Here == plan[Current].dir

Stamps == {"chain", "identity", "format"}

TypeOK ==
  /\ chainStamp \in [Dirs -> Chains \cup {Unstamped}]
  /\ identityStamp \in [Dirs -> Networks \cup {Unstamped}]
  /\ formatStamp \in [Dirs -> Nat]
  /\ made \in [Dirs -> BOOLEAN]
  /\ blocks \in [Dirs -> SUBSET (Chains \X Networks)]
  /\ phase \in {"down", "resolve", "identity", "open", "stamp", "serving", "refused"}
  /\ starts \in 0..MaxStarts
  /\ identity \in Networks \cup {Unstamped}
  /\ DOMAIN plan \subseteq Chains
  /\ plan \in [DOMAIN plan -> [dir : Dirs, host : Hosts, lost : BOOLEAN]]
  /\ queue \subseteq DOMAIN plan
  /\ unsynced \subseteq Stamps /\ missing \subseteq Stamps
  /\ relic \in Dirs
  /\ usedFor \in [Dirs -> SUBSET (Chains \X Networks)]

Init ==
  /\ chainStamp = [d \in Dirs |-> Unstamped]
  /\ \E r \in Relics :
       /\ relic = r.dir
       /\ identityStamp = [d \in Dirs |-> IF d = r.dir THEN r.identity ELSE Unstamped]
       /\ formatStamp = [d \in Dirs |-> IF d = r.dir THEN r.fmt ELSE 0]
       /\ made = [d \in Dirs |-> d = r.dir /\ r.blocks # {}]
       /\ blocks = [d \in Dirs |-> IF d = r.dir THEN r.blocks ELSE {}]
  /\ phase = "down" /\ starts = 0
  /\ name = NoName /\ cfg = NoConfig /\ plan = NoConfig /\ queue = {}
  /\ identity = Unstamped
  /\ unsynced = {} /\ missing = {}
  /\ usedFor = [d \in Dirs |-> {}]

------------------------------------------------------------------------------
(* Ending. *)

\* The directories this start has opened, and as what.
Opened ==
  {<<plan[c].dir, <<c, NetworkOf[plan[c].host]>>>> :
     c \in {o \in DOMAIN plan : phase = "serving" \/ (phase = "stamp" /\ o = Current) \/ o \notin queue}}

\* Everything in memory is gone, and with it some of the stamps that were not
\* persisted.
Ends(lost) ==
  LET Drop(f, stamp, none) == IF stamp \in lost THEN [f EXCEPT ![Here] = none] ELSE f
  IN /\ chainStamp' = Drop(chainStamp, "chain", Unstamped)
     /\ identityStamp' = Drop(identityStamp, "identity", Unstamped)
     /\ formatStamp' = Drop(formatStamp, "format", 0)
     /\ usedFor' = [d \in Dirs |-> usedFor[d] \cup {t[2] : t \in {o \in Opened : o[1] = d}}]
     /\ phase' = "down"
     /\ name' = NoName /\ cfg' = NoConfig /\ plan' = NoConfig /\ queue' = {}
     /\ identity' = Unstamped
     /\ unsynced' = {} /\ missing' = {}
     /\ UNCHANGED <<made, blocks, starts, relic>>

\* Mutant: the network's stamp is inserted before the chain's.
StampOrder_identity_first == [identity |-> 1, chain |-> 2, format |-> 3]

\* The order in which the stamps are inserted.
StampOrder == [chain |-> 1, identity |-> 2, format |-> 3]

\* A crash, a kill or a power failure, at any point of a run: the journal
\* survives up to some point.
Crash ==
  /\ phase # "down"
  /\ \E lost \in SUBSET unsynced :
       /\ \A s \in lost, t \in unsynced : StampOrder[s] <= StampOrder[t] => t \in lost
       /\ Ends(lost)

\* run_until_shutdown: a signal, the stop time or a fatal condition, then a flush.
Shutdown ==
  /\ phase = "serving"
  /\ Ends({})

------------------------------------------------------------------------------
(* Starting. *)

Resolution == [n \in DOMAIN Invocations |-> resolve_with(Invocations[n])]

\* Dirs and Hosts are large enough for what the invocations come to.
ASSUME InvocationsAssumption ==
  \A n \in DOMAIN Invocations :
    LET chains == Resolution[n]
    IN \A c \in DOMAIN chains :
         /\ c \in Chains /\ chains[c].data_dir \in Dirs
         /\ chains[c].rpc_url.host \in Hosts /\ chains[c].rpc_url.lost \in BOOLEAN

\* A flag's keys are paths of a table and a key; the --set arguments are a sequence.
ASSUME LayersAssumption ==
  \A n \in DOMAIN Invocations :
    LET inv == Invocations[n]
    IN /\ \A p \in DOMAIN inv.deprecated \cup DOMAIN inv.flags : p = <<p[1], p[2]>>
       /\ Len(inv.sets) \in Nat /\ DOMAIN inv.sets = 1..Len(inv.sets)

Start ==
  /\ phase = "down" /\ starts < MaxStarts
  /\ name' \in DOMAIN Invocations
  /\ cfg' = Resolution[name']
  /\ phase' = "resolve" /\ starts' = starts + 1
  /\ UNCHANGED <<disk, plan, queue, identity, unsynced, missing, relic, usedFor>>

\* One instance after the other.
Resolve ==
  /\ phase = "resolve" /\ cfg # NoConfig
  /\ queue' = DOMAIN cfg
  /\ plan' = [c \in DOMAIN cfg |-> [dir |-> cfg[c].data_dir, host |-> cfg[c].rpc_url.host,
                                    lost |-> cfg[c].rpc_url.lost]]
  /\ phase' = "identity"
  /\ name' = NoName /\ cfg' = NoConfig
  /\ UNCHANGED <<disk, starts, identity, unsynced, missing, relic, usedFor>>

\* A configuration error: the process ends before it touches a store.
BadConfig ==
  /\ phase = "resolve" /\ cfg = NoConfig
  /\ Ends({})

\* The network is the upstream's word for it, at the URL the blocks come from.
fetch_identity ==
  /\ phase = "identity"
  /\ ~plan[Current].lost
  /\ identity' = NetworkOf[plan[Current].host]
  /\ phase' = "open"
  /\ UNCHANGED <<disk, starts, name, cfg, plan, queue, unsynced, missing, relic, usedFor>>

\* No identity within max_wait: build_instance fails, and with it the process.
IdentityFails ==
  /\ phase = "identity"
  /\ Ends({})

------------------------------------------------------------------------------
(* verify_and_stamp_meta. *)

populated == made[Here] \/ identityStamp[Here] # Unstamped \/ formatStamp[Here] # 0

\* Mutant: a store with blocks and no network stamp is adopted.
Compatible_adopts_unidentified ==
  /\ IF chainStamp[Here] # Unstamped THEN chainStamp[Here] = Current
     ELSE ~populated \/ Current = "c"
  /\ identityStamp[Here] \in {Unstamped, identity}
  /\ formatStamp[Here] \in {0, FormatVersion}

\* The stamps say this chain, this network and this layout, or nothing that
\* contradicts them.
Compatible ==
  /\ IF chainStamp[Here] # Unstamped THEN chainStamp[Here] = Current
     ELSE ~populated \/ Current = "c"
  /\ identityStamp[Here] \in {Unstamped, identity}
  /\ IF formatStamp[Here] # 0 THEN formatStamp[Here] = FormatVersion
     ELSE identityStamp[Here] # Unstamped \/ ~made[Here]

Missing ==
  {s \in Stamps : \/ s = "chain" /\ chainStamp[Here] = Unstamped
                  \/ s = "identity" /\ identityStamp[Here] = Unstamped
                  \/ s = "format" /\ formatStamp[Here] = 0}

open ==
  /\ phase = "open" /\ Compatible
  /\ missing' = Missing
  /\ phase' = "stamp"
  /\ UNCHANGED <<disk, starts, name, cfg, plan, queue, identity, unsynced, relic, usedFor>>

OpenRefused ==
  /\ phase = "open" /\ ~Compatible
  /\ phase' = "refused"
  /\ UNCHANGED <<disk, starts, process, relic, usedFor>>

\* The process ends on the refusal.
RefusalEnds ==
  /\ phase = "refused"
  /\ Ends({})

Inserts(stamp) ==
  LET Put(f, s, v) == IF s = stamp THEN [f EXCEPT ![Here] = v] ELSE f
  IN /\ chainStamp' = Put(chainStamp, "chain", Current)
     /\ identityStamp' = Put(identityStamp, "identity", identity)
     /\ formatStamp' = Put(formatStamp, "format", FormatVersion)
     /\ unsynced' = unsynced \cup {stamp}
     /\ missing' = missing \ {stamp}

insert ==
  /\ phase = "stamp"
  /\ \E stamp \in missing :
       /\ \A s \in missing : StampOrder[stamp] <= StampOrder[s]
       /\ Inserts(stamp)
  /\ UNCHANGED <<made, blocks, phase, starts, name, cfg, plan, queue, identity, relic, usedFor>>

\* Mutant: the stamps are not synced before the instance is used.
persist_skipped ==
  /\ phase = "stamp" /\ missing = {}
  /\ IF queue = {Current}
     THEN phase' = "serving" /\ UNCHANGED <<queue, unsynced>>
     ELSE phase' = "identity" /\ queue' = queue \ {Current} /\ unsynced' = {}
  /\ identity' = Unstamped
  /\ UNCHANGED <<disk, starts, name, cfg, plan, missing, relic, usedFor>>

\* SyncAll, and the instance is built: the next chain's turn, or ingest begins.
persist ==
  /\ phase = "stamp" /\ missing = {}
  /\ unsynced' = {}
  /\ queue' = queue \ {Current}
  /\ phase' = IF queue' = {} THEN "serving" ELSE "identity"
  /\ identity' = Unstamped
  /\ UNCHANGED <<disk, starts, name, cfg, plan, missing, relic, usedFor>>

------------------------------------------------------------------------------
(* Ingest, as far as it touches what a start looks at. *)

\* The first put creates the store's files ...
CreateStore(c) ==
  /\ phase = "serving" /\ c \in DOMAIN plan
  /\ ~made[plan[c].dir]
  /\ made' = [made EXCEPT ![plan[c].dir] = TRUE]
  /\ UNCHANGED <<chainStamp, identityStamp, formatStamp, blocks, phase, starts, process, relic,
                 usedFor>>

\* ... and a block is one of the chain and network that were asked for it.
WriteBlock(c) ==
  /\ phase = "serving" /\ c \in DOMAIN plan
  /\ made[plan[c].dir]
  /\ blocks' = [blocks EXCEPT ![plan[c].dir] = @ \cup {<<c, NetworkOf[plan[c].host]>>}]
  /\ UNCHANGED <<chainStamp, identityStamp, formatStamp, made, phase, starts, process, relic,
                 usedFor>>

Next ==
  \/ Start \/ Resolve \/ BadConfig \/ fetch_identity \/ IdentityFails
  \/ open \/ OpenRefused \/ RefusalEnds \/ insert \/ persist
  \/ \E c \in Chains : CreateStore(c) \/ WriteBlock(c)
  \/ Shutdown \/ Crash

Spec == Init /\ [][Next]_vars

------------------------------------------------------------------------------
(* Properties. *)

\* A directory's blocks are all of one chain and one network, and are what its
\* stamps say, whatever configurations it was started with and wherever those
\* starts ended (verify_and_stamp_meta).
StoreIsWhatItSays ==
  \A d \in Dirs :
    /\ Cardinality(blocks[d]) <= 1
    /\ \A b \in blocks[d] :
         /\ chainStamp[d] \in {Unstamped, b[1]}
         /\ identityStamp[d] \in {Unstamped, b[2]}

\* Blocks never stand in a directory without a complete set of durable stamps,
\* however the process ended: the stamps land before the first block.  The store
\* of an older build is the exception.
StampedBeforeBlocks ==
  \A d \in Dirs :
    made[d] /\ phase = "down" /\ d # relic =>
      chainStamp[d] # Unstamped /\ identityStamp[d] # Unstamped /\ formatStamp[d] # 0

\* A start is refused its directory only for a reason that was there before
\* it: blocks of another chain or network, blocks nobody can place, another
\* layout, or an earlier start that opened it as something else.  A start cut
\* short anywhere never locks out the next one with the same configuration, and
\* two chains of one start never claim one directory.
RefusedRightly ==
  phase = "refused" =>
    LET wanted == <<Current, identity>>
    IN \/ blocks[Here] \ {wanted} # {}
       \/ usedFor[Here] \ {wanted} # {}
       \/ Here = relic /\ identityStamp[Here] = Unstamped
       \/ formatStamp[Here] \notin {0, FormatVersion}

\* What the configuration's layers come to for a key of a chain, read off them
\* from the highest to the lowest: --set, the flags, the environment and the
\* file for the chain's own table, then the same for [defaults], then the
\* built-in value (the module comment of config.rs).
Ranked(inv, c, key, builtin) ==
  LET own == <<c, key>>
      star == <<"*", key>>
      all == <<"defaults", key>>
      Shared == Get(SetKeys(inv), all, Get(inv.flags, all, Get(inv.deprecated, all,
                  Get(inv.env, all, Get(load_tree(inv), all, builtin)))))
  IN Get(SetKeys(inv), own, Get(inv.flags, own, Get(inv.flags, star,
       Get(inv.deprecated, own, Get(inv.deprecated, star,
         Get(inv.env, own, Get(load_tree(inv), own, Shared)))))))

\* Each chain runs with the value of the highest layer that names its key: no
\* flag or variable is outranked by the file (apply_key, overlay).  Log ingestion
\* is for the C-chain only, whichever layer asks for it (resolve_chain).
HighestLayerWins ==
  phase = "resolve" =>
    \A c \in DOMAIN cfg :
      LET builtin == for_chain(c, IF cfg[c].subscribe_blocks THEN "neve" ELSE "avalanchego")
          Wins(key) == cfg[c][key] = Ranked(Invocations[name], c, key, builtin[key])
      IN /\ \A key \in {"max_wait", "concurrency", "backfill_floor", "request_interval"} : Wins(key)
         /\ cfg[c].ingest_logs <=> c = "c" /\ Ranked(Invocations[name], c, "ingest_logs", FALSE)

\* An invocation without its overrides: the file and --chains stay, and of the
\* --set arguments those of `enabled` keys.
Unset == <<<<"none", "none">>, 0>>
Bare(inv) ==
  [file |-> inv.file, chains |-> inv.chains,
   env |-> <<>>, env_token |-> "none", deprecated |-> <<>>, flags |-> <<>>,
   sets |-> [i \in DOMAIN inv.sets |->
               IF Key(inv.sets[i])[2] = "enabled" THEN inv.sets[i] ELSE Unset]]

\* The overrides never change which chains are served: an invocation and the
\* same one without them, but for its `enabled` keys, serve the same chains
\* (resolve_with settles the selection before any override lands).
OverridesNeverSelect ==
  phase = "resolve" /\ cfg # NoConfig => DOMAIN cfg = select_chains(Bare(Invocations[name]))

==============================================================================
