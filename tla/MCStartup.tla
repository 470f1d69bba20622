----------------------------- MODULE MCStartup -------------------------------
(***************************************************************************)
(* Every invocation that departs from the plain one in at most two places, *)
(* against directories that are fresh or were left by an older build.      *)
(***************************************************************************)
EXTENDS Startup, SequencesExt

MCNetworks == {"mainnet", "testnet"}
MCHosts == {"api", "api-test", "own"}
MCPublicHost == [n \in MCNetworks |-> IF n = "mainnet" THEN "api" ELSE "api-test"]
MCNetworkOf == [h \in MCHosts |-> IF h = "api-test" THEN "testnet" ELSE "mainnet"]
MCTip == -1

\* The directories: the two networks' default bases, and what hangs off them.
MCDirs == {<<"mainnet">>, <<"mainnet", "p">>, <<"testnet">>, <<"testnet", "p">>}

Departure(layer, path, value) == [layer |-> layer, path |-> path, value |-> value]

Departures ==
  <<Departure("file", <<"c", "max_wait">>, 1),
   Departure("file", <<"defaults", "max_wait">>, 2),
   Departure("file", <<"defaults", "concurrency">>, 0),
   Departure("file", <<"p", "enabled">>, FALSE),
   Departure("file", <<"top", "network">>, "testnet"),
   Departure("file", <<"c", "typo">>, 1),
   Departure("env", <<"c", "rpc_url">>, Url("own", TRUE, FALSE)),
   Departure("env", <<"p", "rpc_url">>, Url("api-test", FALSE, FALSE)),
   Departure("deprecated", <<"*", "max_wait">>, 3),
   Departure("deprecated", <<"p", "data_dir">>, <<"mainnet">>),
   Departure("deprecated", <<"c", "request_interval">>, 5),
   Departure("flags", <<"top", "network">>, "testnet"),
   Departure("flags", <<"defaults", "data_dir">>, <<"testnet">>),
   Departure("flags", <<"upstream", "kind">>, "neve"),
   Departure("flags", <<"*", "ingest_logs">>, TRUE),
   Departure("sets", <<"p", "concurrency">>, 4),
   Departure("sets", <<"p", "concurrency">>, 0),
   Departure("sets", <<"defaults", "max_wait">>, 6),
   Departure("sets", <<"c", "enabled">>, FALSE),
   Departure("sets", <<"c", "data_dir">>, <<"mainnet", "p">>),
   Departure("sets", <<"upstream", "base">>, Url("own", TRUE, FALSE)),
   Departure("chains", <<"p", "enabled">>, TRUE),
   Departure("named", <<"top", "config">>, TRUE)>>

\* One layer of the departures chosen, as the document it contributes.
Layer(chosen, layer) ==
  LET here == {i \in chosen : Departures[i].layer = layer}
  IN [p \in {Departures[i].path : i \in here} |->
        Departures[CHOOSE i \in here : Departures[i].path = p].value]

Invocation(chosen) ==
  LET doc == Layer(chosen, "file")
      Of(layer) == {i \in chosen : Departures[i].layer = layer}
      sets == SetToSortSeq(Of("sets"), <)
  IN [file |-> [named |-> Of("named") # {}, found |-> doc # <<>>, doc |-> doc,
                hasChains |-> \E p \in DOMAIN doc : p[1] \in Chains,
                tables |-> {p[1] : p \in DOMAIN doc} \cap Chains],
      env |-> Layer(chosen, "env"), env_token |-> "none",
      deprecated |-> Layer(chosen, "deprecated"),
      flags |-> Layer(chosen, "flags"),
      sets |-> [n \in DOMAIN sets |->
                  <<Departures[sets[n]].path, Departures[sets[n]].value>>],
      chains |-> {Departures[i].path[1] : i \in Of("chains")}]

Names == {{}} \cup {{i, j} : i, j \in DOMAIN Departures}
MCInvocations == [chosen \in Names |-> Invocation(chosen)]
MCNoName == {0}

\* A fresh disk, and stores of older builds: before record versioning, before
\* network stamping, before multi-chain support, and of a layout no longer read.
MCRelics ==
  {Relic(<<"mainnet">>, Unstamped, 0, {}),
   Relic(<<"mainnet">>, "mainnet", 0, {<<"c", "mainnet">>}),
   Relic(<<"mainnet", "p">>, "mainnet", 0, {<<"c", "mainnet">>}),
   Relic(<<"mainnet">>, Unstamped, 0, {<<"c", "testnet">>}),
   Relic(<<"testnet">>, "mainnet", 1, {<<"c", "mainnet">>}),
   Relic(<<"mainnet">>, "mainnet", 2, {<<"c", "mainnet">>})}

==============================================================================
