------------------------------- MODULE Config --------------------------------
(***************************************************************************)
(* Configuration (src/src/config.rs): a file, the environment and the      *)
(* command line, merged into what the process runs with.  A pure           *)
(* computation, given as operators; Startup runs it.                       *)
(*                                                                         *)
(* The document is a function from <<table, key>> to a value, defined      *)
(* where the key is set.  The keys kept are those with a treatment of      *)
(* their own: max_wait stands for the plain knobs, concurrency for the     *)
(* ones that refuse zero, rpc_url for both URLs.                           *)
(***************************************************************************)
EXTENDS Integers, Sequences, FiniteSets

CONSTANTS Networks,    \* "mainnet", "testnet"
          Hosts,       \* the authorities a URL may name
          PublicHost,  \* network -> the public endpoint's host
          Tip          \* the "tip" floor, no height

ASSUME ConfigAssumption ==
  /\ PublicHost \in [Networks -> Hosts]
  /\ Tip \notin Nat

Chains == {"c", "p"}
ChainKeys == {"rpc_url", "data_dir", "backfill_floor", "request_interval", "max_wait",
              "concurrency", "ingest_logs"}

Schema ==
  (({"defaults"} \cup Chains) \X (ChainKeys \cup {"enabled"}))
    \cup ({"upstream"} \X {"kind", "base", "max_rps", "token_file"})
    \cup ({"server"} \X {"max_connections"})
    \cup {<<"top", "network">>}

Get(doc, path, default) == IF path \in DOMAIN doc THEN doc[path] ELSE default

------------------------------------------------------------------------------
(* Loading, and the choice of chains. *)

\* A file that is named must be there; the default one may be missing.
FileLoads(inv) == inv.file.named => inv.file.found

load_tree(inv) == IF inv.file.found THEN inv.file.doc ELSE <<>>

\* The [chains.x] tables; Declares is FALSE when there is no [chains] at all.
Declares(inv) == inv.file.found /\ inv.file.hasChains
declared_chains(inv) == inv.file.tables

file_enabled(inv, c) == Get(load_tree(inv), <<c, "enabled">>, TRUE)

\* A --set argument is a pair.
Key(set) == set[1]

\* What the --set arguments say of a key: the last one counts.
SetsOf(inv, path) == {i \in DOMAIN inv.sets : Key(inv.sets[i]) = path}
LastSet(inv, path) ==
  inv.sets[CHOOSE i \in SetsOf(inv, path) : \A j \in SetsOf(inv, path) : j <= i][2]

set_enabled(inv, c) == SetsOf(inv, <<c, "enabled">>) # {}

\* Mutant: the tables the overrides materialise count as declared.
select_chains_after_merge(inv) ==
  LET touched == {p[1] : p \in DOMAIN inv.env \cup DOMAIN inv.deprecated} \cap Chains
      any == Declares(inv) \/ touched # {}
      on(c) == IF set_enabled(inv, c) THEN LastSet(inv, <<c, "enabled">>)
               ELSE (any => c \in declared_chains(inv) \cup touched) /\ file_enabled(inv, c)
  IN IF inv.chains # {} THEN inv.chains ELSE {c \in Chains : on(c)}

\* {} is the error: an empty [chains] table, or every chain disabled.
select_chains(inv) ==
  LET on(c) == IF set_enabled(inv, c) THEN LastSet(inv, <<c, "enabled">>)
               ELSE (Declares(inv) => c \in declared_chains(inv)) /\ file_enabled(inv, c)
  IN IF inv.chains # {} THEN inv.chains
     ELSE IF Declares(inv) /\ declared_chains(inv) = {} THEN {}
     ELSE {c \in Chains : on(c)}

reject_sets_for_idle_chains(inv, enabled) ==
  \E i \in DOMAIN inv.sets :
    /\ Key(inv.sets[i])[1] \in Chains \ enabled
    /\ Key(inv.sets[i])[2] # "enabled"

------------------------------------------------------------------------------
(* The overrides, each layer over the document so far. *)

\* The keys of a layer, written over the document.
set_path(doc, layer) ==
  [p \in DOMAIN layer \cup DOMAIN doc |-> IF p \in DOMAIN layer THEN layer[p] ELSE doc[p]]

apply_env(doc, inv) == set_path(doc, inv.env)

\* Mutant: a flag that names no chain is written to [defaults].
apply_key_to_defaults(layer, enabled) ==
  [p \in {IF q[1] = "*" THEN <<"defaults", q[2]>> ELSE q : q \in DOMAIN layer} |->
     IF p \in DOMAIN layer THEN layer[p] ELSE layer[<<"*", p[2]>>]]

\* chains.*.k is written to every chain the run serves.
apply_key(layer, enabled) ==
  [p \in {q \in DOMAIN layer : q[1] # "*"}
           \cup {<<c, q[2]>> : c \in enabled, q \in {r \in DOMAIN layer : r[1] = "*"}} |->
     IF p \in DOMAIN layer THEN layer[p] ELSE layer[<<"*", p[2]>>]]

apply_deprecated_flags(doc, inv, enabled) == set_path(doc, apply_key(inv.deprecated, enabled))

apply_flags(doc, inv, enabled) == set_path(doc, apply_key(inv.flags, enabled))

\* The --set arguments, as the keys they leave set.
SetKeys(inv) == [p \in {Key(inv.sets[i]) : i \in DOMAIN inv.sets} |-> LastSet(inv, p)]

apply_sets(doc, inv) == set_path(doc, SetKeys(inv))

\* The document every layer has been written to.
merged(inv) ==
  LET enabled == select_chains(inv)
  IN apply_sets(
       apply_flags(
         apply_deprecated_flags(
           apply_env(load_tree(inv), inv), inv, enabled), inv, enabled), inv)

kind(doc) == Get(doc, <<"upstream", "kind">>, "avalanchego")

UpstreamKind == {"avalanchego", "neve"}

\* The document is read back after each override, so that a kind there is none of
\* is refused also where a later layer replaces it.
set_checked(inv) ==
  /\ kind(load_tree(inv)) \in UpstreamKind /\ kind(inv.flags) \in UpstreamKind
  /\ \A i \in SetsOf(inv, <<"upstream", "kind">>) : inv.sets[i][2] \in UpstreamKind

\* deny_unknown_fields, and the kind's two variants.
deserialize_tree(doc) == DOMAIN doc \subseteq Schema /\ kind(doc) \in UpstreamKind

------------------------------------------------------------------------------
(* From the document to what the process runs with. *)

network(doc) == Get(doc, <<"top", "network">>, "mainnet")

\* A URL: its host, whether it carries the token parameter, and whether the
\* chain's path was appended behind a query, where no server sees it.
Url(host, token, lost) == [host |-> host, token |-> token, lost |-> lost]

base(doc) == Get(doc, <<"upstream", "base">>, Url(PublicHost[network(doc)], FALSE, FALSE))

\* "none", "token", or "blank" for the error: the file outranks the variable.
token(doc, inv) == Get(doc, <<"upstream", "token_file">>, inv.env_token)

urls_already_carry_a_token(doc) ==
  \/ \E t \in {"defaults"} \cup Chains :
       <<t, "rpc_url">> \in DOMAIN doc /\ doc[<<t, "rpc_url">>].token
  \/ base(doc).token

PUBLIC_MAX_RPS == 25

\* The host's request cap; 0 is none.
max_rps(doc, inv) ==
  CASE <<"upstream", "max_rps">> \in DOMAIN doc -> doc[<<"upstream", "max_rps">>]
    [] <<"upstream", "max_rps">> \notin DOMAIN doc
         /\ kind(doc) = "avalanchego" /\ token(doc, inv) = "none"
         /\ ~urls_already_carry_a_token(doc) -> PUBLIC_MAX_RPS
    [] OTHER -> 0

\* Built-in defaults of the per-chain keys.
for_chain(c, k) ==
  [request_interval |-> IF k = "neve" THEN 0 ELSE IF c = "c" THEN 40 ELSE 200,
   backfill_floor |-> IF k = "avalanchego" /\ c = "p" THEN 0 ELSE Tip,
   concurrency |-> 8, max_wait |-> 3900, ingest_logs |-> FALSE]

\* The chain's table over [defaults] over the built-in value.
overlay(doc, c, key, builtin) == Get(doc, <<c, key>>, Get(doc, <<"defaults", key>>, builtin))

derive_endpoints(doc) ==
  Url(base(doc).host, base(doc).token, kind(doc) = "avalanchego" /\ base(doc).token)

with_token(url, tok) == [url EXCEPT !.token = @ \/ tok = "token"]

\* Chain::data_dir: the C-chain sits at the base, the P-chain below it.
data_dir(c, dir) == IF c = "c" THEN dir ELSE Append(dir, c)

base_dir(doc) == Get(doc, <<"defaults", "data_dir">>, <<network(doc)>>)

host_pacer_for(doc, inv, url) == max_rps(doc, inv) > 0 /\ url.host = base(doc).host

resolve_chain(c, doc, inv) ==
  LET builtin == for_chain(c, kind(doc))
      url == overlay(doc, c, "rpc_url", derive_endpoints(doc))
  IN [rpc_url |-> with_token(url, token(doc, inv)),
      data_dir |-> Get(doc, <<c, "data_dir">>, data_dir(c, base_dir(doc))),
      backfill_floor |-> overlay(doc, c, "backfill_floor", builtin.backfill_floor),
      request_interval |-> overlay(doc, c, "request_interval", builtin.request_interval),
      max_wait |-> overlay(doc, c, "max_wait", builtin.max_wait),
      concurrency |-> overlay(doc, c, "concurrency", builtin.concurrency),
      ingest_logs |-> overlay(doc, c, "ingest_logs", builtin.ingest_logs) /\ c = "c",
      subscribe_blocks |-> kind(doc) = "neve",
      host_pacer |-> host_pacer_for(doc, inv, url)]

\* What build refuses.
Refused(doc, inv, cfg) ==
  \/ token(doc, inv) = "blank" \/ max_rps(doc, inv) < 0
  \/ Get(doc, <<"server", "max_connections">>, 1024) = 0
  \/ <<"defaults", "enabled">> \in DOMAIN doc
  \/ \E c \in DOMAIN cfg : cfg[c].concurrency = 0
  \/ \E c, o \in DOMAIN cfg : c # o /\ cfg[c].data_dir = cfg[o].data_dir

build(doc, inv, enabled) == [c \in enabled |-> resolve_chain(c, doc, inv)]

\* The chains' configuration, with none of them for an error.
resolve_with(inv) ==
  LET enabled == select_chains(inv)
      doc == merged(inv)
      cfg == build(doc, inv, enabled)
  IN IF FileLoads(inv) /\ enabled # {} /\ ~reject_sets_for_idle_chains(inv, enabled)
          /\ set_checked(inv) /\ deserialize_tree(doc) /\ ~Refused(doc, inv, cfg)
     THEN cfg ELSE <<>>

==============================================================================
