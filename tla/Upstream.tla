------------------------------- MODULE Upstream -------------------------------
(***************************************************************************)
(* The requests every pipeline makes of the upstream host: how they are    *)
(* paced (Pacer of src/src/upstream.rs, IngestCfg::pace of                 *)
(* src/src/chain.rs), retried (fetch_rpc of src/src/eth/ingest.rs and      *)
(* src/src/platform/ingest.rs) and throttled (handle_throttle), and the    *)
(* life of the process around them: the startup handshakes, main's select  *)
(* on the fatal notification and the final flush (src/src/main.rs).        *)
(*                                                                         *)
(* Instants are kept as distances from the present, which a tick of the    *)
(* clock shortens; a timer fires when it is due.  What a request is for is *)
(* left out: a fetcher asks, again and again.  The C-chain's live task,    *)
(* whose requests no budget covers, is not among the fetchers.             *)
(***************************************************************************)
EXTENDS Integers

CONSTANTS CFetchers,     \* the C-chain backfill's requests in flight
          PFetchers,     \* the P-chain loop's requests in flight
          HostInterval,  \* host_pacer's interval; 0 without a host cap
          Interval,      \* per chain, pacer's interval; 0 when unpaced
          RPC_MAX_ATTEMPTS,  \* attempts of one fetch_rpc call
          MaxWait,       \* cfg.max_wait
          RetryAfters    \* the Retry-After values the upstream may send

Backoff == 1             \* the pause after an empty answer

Fetchers == CFetchers \cup PFetchers

Chains == {"C", "P"}

Pacers == Chains \cup {"host"}

ASSUME UpstreamAssumption ==
  /\ CFetchers \cap PFetchers = {}
  /\ HostInterval \in Nat
  /\ Interval \in [Chains -> Nat]
  /\ RPC_MAX_ATTEMPTS \in Nat \ {0}
  /\ MaxWait \in Nat
  /\ RetryAfters \subseteq Nat

VARIABLES
  next_slot,  \* of each pacer, how far ahead Pacer.next_slot is; 0 when it is past
  at,         \* each fetcher's position
  left,       \* how long it still sleeps
  attempt,    \* fetch_rpc's attempt
  fatal,      \* a permit is stored in the fatal Notify
  phase,      \* where main is
  tries,      \* attempts of the P-chain handshake
  since       \* the time since the last request of the P-chain, counted up to
              \* the interval it is to keep

fetchVars == <<next_slot, at, left, attempt, since>>
mainVars == <<fatal, phase, tries>>
vars == <<fetchVars, mainVars>>

Chain(f) == IF f \in PFetchers THEN "P" ELSE "C"

IntervalOf(p) == IF p = "host" THEN HostInterval ELSE Interval[p]

Positions == {"idle", "host", "chain", "sent", "pause", "parked"}

Phases == {"chain_id", "genesis_id", "parked", "running", "flush", "exited"}

TypeOK ==
  /\ next_slot \in [Pacers -> Nat]
  /\ at \in [Fetchers -> Positions]
  /\ left \in [Fetchers -> Nat]
  /\ attempt \in [Fetchers -> 0..RPC_MAX_ATTEMPTS]
  /\ fatal \in BOOLEAN
  /\ phase \in Phases
  /\ tries \in 0..RPC_MAX_ATTEMPTS
  /\ since \in 0..Interval["P"]

Init ==
  /\ next_slot = [p \in Pacers |-> 0]
  /\ at = [f \in Fetchers |-> "idle"]
  /\ left = [f \in Fetchers |-> 0]
  /\ attempt = [f \in Fetchers |-> 0]
  /\ fatal = FALSE
  /\ phase = "chain_id"
  /\ tries = 0
  /\ since = Interval["P"]

------------------------------------------------------------------------------
(* main: one handshake per chain, the pipelines, and the way out. *)

\* The identity is read, or could not be: the process ends without a pipeline.
Handshake(chain, then) ==
  /\ phase = chain
  /\ phase' \in {then, "exited"}
  /\ tries' = 0
  /\ UNCHANGED <<fetchVars, fatal>>

\* fetch_chain_id waits a throttle out and asks again, or gives up at once.
ChainIdThrottled(retry_after) ==
  /\ phase = "chain_id"
  /\ phase' = IF retry_after > MaxWait THEN "exited" ELSE "chain_id"
  /\ UNCHANGED <<fetchVars, fatal, tries>>

\* fetch_genesis_id goes through fetch_rpc with a configuration of its own: a
\* throttle too long notifies a Notify no one waits on, and parks.
GenesisIdThrottled(retry_after) ==
  /\ phase = "genesis_id"
  /\ IF retry_after > MaxWait
     THEN phase' = "parked" /\ UNCHANGED tries
     ELSE /\ tries' = tries + 1
          /\ phase' = IF tries + 1 = RPC_MAX_ATTEMPTS THEN "exited" ELSE "genesis_id"
  /\ UNCHANGED <<fetchVars, fatal>>

\* The select of run_until_shutdown: a fatal notification ...
FatalNotified ==
  /\ phase = "running" /\ fatal
  /\ phase' = "flush" /\ fatal' = FALSE
  /\ UNCHANGED <<fetchVars, tries>>

\* ... or the stop time, a signal, or a pipeline that returns.
Stopped ==
  /\ phase = "running"
  /\ phase' = "flush"
  /\ UNCHANGED <<fetchVars, fatal, tries>>

\* Every store is persisted and main returns.
Flush ==
  /\ phase = "flush"
  /\ phase' = "exited"
  /\ UNCHANGED <<fetchVars, fatal, tries>>

------------------------------------------------------------------------------
(* The fetchers.  The P-chain loop is polled by main's select and stops with  *)
(* it; backfill is a task of its own and runs until the process exits.        *)

Runs(f) == phase = "running" \/ (phase = "flush" /\ f \in CFetchers)

\* Mutant: the claimed slot is not taken from the others.
ClaimShared(f, p, position) ==
  /\ at' = [at EXCEPT ![f] = position]
  /\ left' = [left EXCEPT ![f] = next_slot[p]]
  /\ UNCHANGED next_slot

\* Pacer::wait: the next free slot - the present, when next_slot is past - is
\* claimed under the lock, then slept for.  An interval of zero never waits.
Claim(f, p, position) ==
  /\ at' = [at EXCEPT ![f] = position]
  /\ left' = [left EXCEPT ![f] = next_slot[p]]
  /\ next_slot' = [next_slot EXCEPT ![p] = next_slot[p] + IntervalOf(p)]

\* A request goes out.
Sends(f) ==
  /\ at' = [at EXCEPT ![f] = "sent"]
  /\ left' = [left EXCEPT ![f] = 0]
  /\ since' = IF f \in PFetchers THEN 0 ELSE since

Due(f, position) == at[f] = position /\ left[f] = 0 /\ Runs(f)

\* pace: the host's budget first.
Begin(f) ==
  /\ at[f] = "idle" /\ Runs(f)
  /\ Claim(f, "host", "host")
  /\ UNCHANGED <<attempt, since, mainVars>>

HostTurn(f) ==
  /\ Due(f, "host")
  /\ Claim(f, Chain(f), "chain")
  /\ UNCHANGED <<attempt, since, mainVars>>

ChainTurn(f) ==
  /\ Due(f, "chain")
  /\ Sends(f)
  /\ UNCHANGED <<next_slot, attempt, mainVars>>

\* fetch_rpc returns to its caller.
Returns(f) ==
  /\ at' = [at EXCEPT ![f] = "idle"]
  /\ left' = [left EXCEPT ![f] = 0]
  /\ attempt' = [attempt EXCEPT ![f] = 0]

\* A usable result, or a request or a body that failed: fetch_rpc returns.
Answered(f) ==
  /\ at[f] = "sent" /\ Runs(f)
  /\ Returns(f)
  /\ UNCHANGED <<next_slot, since, mainVars>>

\* The attempt is over; the next one starts d later.
Pause(f, d) ==
  /\ at' = [at EXCEPT ![f] = "pause"]
  /\ left' = [left EXCEPT ![f] = d]
  /\ attempt' = [attempt EXCEPT ![f] = attempt[f] + 1]

\* A null result: the block is not there yet.
Empty(f) ==
  /\ at[f] = "sent" /\ Runs(f)
  /\ Pause(f, Backoff)
  /\ UNCHANGED <<next_slot, since, mainVars>>

\* Mutant: the fetcher parks and no one is told.
ThrottledSilently(f, retry_after) ==
  /\ at[f] = "sent" /\ Runs(f)
  /\ IF retry_after > MaxWait
     THEN at' = [at EXCEPT ![f] = "parked"] /\ UNCHANGED <<fatal, left, attempt>>
     ELSE Pause(f, retry_after) /\ UNCHANGED fatal
  /\ UNCHANGED <<next_slot, since, phase, tries>>

\* 429 or 503: wait it out, or ask main to shut down and park for good.
Throttled(f, retry_after) ==
  /\ at[f] = "sent" /\ Runs(f)
  /\ IF retry_after > MaxWait
     THEN at' = [at EXCEPT ![f] = "parked"] /\ fatal' = TRUE /\ UNCHANGED <<left, attempt>>
     ELSE Pause(f, retry_after) /\ UNCHANGED fatal
  /\ UNCHANGED <<next_slot, since, phase, tries>>

\* Out of attempts: fetch_rpc returns None.
GiveUp(f) ==
  /\ Due(f, "pause") /\ attempt[f] = RPC_MAX_ATTEMPTS
  /\ Returns(f)
  /\ UNCHANGED <<next_slot, since, mainVars>>

\* Mutant: a retry begins a fetch of its own, with a budget of its own.
RetryPacedForever(f) ==
  /\ f \in PFetchers
  /\ Due(f, "pause") /\ attempt[f] < RPC_MAX_ATTEMPTS
  /\ Claim(f, "host", "host")
  /\ attempt' = [attempt EXCEPT ![f] = 0]
  /\ UNCHANGED <<since, mainVars>>

\* On the P-chain every attempt is paced ...
RetryPaced(f) ==
  /\ f \in PFetchers
  /\ Due(f, "pause") /\ attempt[f] < RPC_MAX_ATTEMPTS
  /\ Claim(f, "host", "host")
  /\ UNCHANGED <<attempt, since, mainVars>>

\* ... on the C-chain the callers pace, so only the first one is.
RetryAtOnce(f) ==
  /\ f \notin PFetchers
  /\ Due(f, "pause") /\ attempt[f] < RPC_MAX_ATTEMPTS
  /\ Sends(f)
  /\ UNCHANGED <<next_slot, attempt, mainVars>>

Asleep(f) == at[f] \in {"host", "chain", "pause"}

MinOf(a, b) == IF a <= b THEN a ELSE b

Less(n) == IF n = 0 THEN 0 ELSE n - 1

\* The clock moves when no timer of a running task is due.
Tick ==
  /\ \A f \in Fetchers : Asleep(f) /\ Runs(f) => left[f] > 0
  /\ next_slot' = [p \in Pacers |-> Less(next_slot[p])]
  /\ left' = [f \in Fetchers |-> Less(left[f])]
  /\ since' = MinOf(since + 1, Interval["P"])
  /\ UNCHANGED <<at, attempt, mainVars>>

------------------------------------------------------------------------------
Startup ==
  \/ Handshake("chain_id", "genesis_id") \/ Handshake("genesis_id", "running")
  \/ \E r \in RetryAfters : ChainIdThrottled(r) \/ GenesisIdThrottled(r)

Main == FatalNotified \/ Flush

Fetcher(f) ==
  \/ Begin(f) \/ HostTurn(f) \/ ChainTurn(f)
  \/ Answered(f) \/ Empty(f) \/ GiveUp(f) \/ RetryPaced(f) \/ RetryAtOnce(f)
  \/ \E r \in RetryAfters : Throttled(f, r)

Next == Startup \/ Main \/ Stopped \/ Tick \/ \E f \in Fetchers : Fetcher(f)

Spec == Init /\ [][Next]_vars

\* main and the tasks are scheduled, time passes, and a request is answered or
\* fails.
Fairness ==
  /\ WF_vars(Startup) /\ WF_vars(Main) /\ WF_vars(Tick)
  /\ \A f \in Fetchers : WF_vars(at[f] # "idle" /\ Fetcher(f))

FairSpec == Spec /\ Fairness

------------------------------------------------------------------------------
(* Properties. *)

Starts(f) == at[f] # "sent" /\ at'[f] = "sent"

\* However many P-chain fetches are in flight, and retries included, two
\* requests of the P-chain never start less than request_interval apart, as
\* long as timers fire when they are due: what makes it safe to raise
\* fetch_concurrency (Pacer::wait).
PRequestsSpaced ==
  [][\A f \in PFetchers : Starts(f) => since = Interval["P"]]_vars

\* A throttle longer than max_wait met by any task takes the process down, with
\* its stores flushed, and never leaves it serving with a pipeline parked.
FatalExits == \A f \in Fetchers : (at[f] = "parked") ~> (phase = "exited")

\* A fetch ends: no fetcher waits for ever for its turn, or retries for ever.
FetchEnds ==
  \A f \in Fetchers : (at[f] # "idle") ~> (at[f] \in {"idle", "parked"} \/ phase = "exited")

\* A throttle longer than max_wait during a startup handshake ends the process.
HandshakeExits == (phase = "parked") ~> (phase = "exited")

==============================================================================
