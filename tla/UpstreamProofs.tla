---------------------------- MODULE UpstreamProofs ----------------------------
(***************************************************************************)
(* What is proved of module Upstream for every set of fetchers, every      *)
(* interval, retry budget and Retry-After: type correctness, which says    *)
(* that no call makes more than RPC_MAX_ATTEMPTS attempts, and the spacing *)
(* of the P-chain's requests.                                              *)
(***************************************************************************)
EXTENDS Upstream, TLAPS

(***************************************************************************)
(* The budgets of attempts: a fetcher that used its last attempt pauses    *)
(* before it gives up, and the handshake that used its last one is over.   *)
(***************************************************************************)
AttemptsLeft == \A f \in Fetchers : attempt[f] = RPC_MAX_ATTEMPTS => at[f] = "pause"

TriesLeft == tries = RPC_MAX_ATTEMPTS => phase = "exited"

TypeInv == TypeOK /\ AttemptsLeft /\ TriesLeft

\* Init: every fetcher and the handshake have their whole budget of attempts.
LEMMA UTypeInit == Init => TypeInv
<1> SUFFICES ASSUME Init PROVE TypeInv
  OBVIOUS
<1> USE UpstreamAssumption DEF Init
<1>1. TypeOK
  <2>1. fatal \in BOOLEAN
    OBVIOUS
  <2>2. phase \in Phases
    BY DEF Phases
  <2>3. /\ next_slot \in [Pacers -> Nat] /\ left \in [Fetchers -> Nat]
        /\ attempt \in [Fetchers -> 0..RPC_MAX_ATTEMPTS]
        /\ tries \in 0..RPC_MAX_ATTEMPTS
    OBVIOUS
  <2>4. at \in [Fetchers -> Positions]
    BY DEF Positions
  <2>5. since \in 0..Interval["P"]
    BY DEF Chains
  <2> QED
    BY <2>1, <2>2, <2>3, <2>4, <2>5 DEF TypeOK
<1>2. AttemptsLeft /\ TriesLeft
  BY DEF AttemptsLeft, TriesLeft
<1> QED
  BY <1>1, <1>2 DEF TypeInv

\* A step of main leaves the fetchers alone.
LEMMA UMainStep ==
  ASSUME TypeInv, Startup \/ Main \/ Stopped
  PROVE  TypeInv' /\ UNCHANGED fetchVars
<1> USE UpstreamAssumption DEF TypeInv
<1>1. UNCHANGED fetchVars
  BY DEF Startup, Main, Stopped, Handshake, ChainIdThrottled, GenesisIdThrottled,
         FatalNotified, Flush
<1>2. fatal' \in BOOLEAN
  BY DEF TypeOK, Startup, Main, Stopped, Handshake, ChainIdThrottled, GenesisIdThrottled,
         FatalNotified, Flush
<1>3. phase' \in Phases
  BY DEF TypeOK, Phases, Startup, Main, Stopped, Handshake, ChainIdThrottled,
         GenesisIdThrottled, FatalNotified, Flush
<1>4. tries' \in 0..RPC_MAX_ATTEMPTS /\ TriesLeft'
  BY DEF TypeOK, TriesLeft, Startup, Main, Stopped, Handshake, ChainIdThrottled,
         GenesisIdThrottled, FatalNotified, Flush
<1>5. TypeOK'
  BY <1>1, <1>2, <1>3, <1>4 DEF TypeOK, fetchVars
<1>6. AttemptsLeft'
  BY <1>1 DEF AttemptsLeft, fetchVars
<1> QED
  BY <1>1, <1>4, <1>5, <1>6

\* The intervals are natural numbers.
LEMMA IntervalsAreNat ==
  /\ \A p \in Pacers : IntervalOf(p) \in Nat
  /\ \A f \in Fetchers : Chain(f) \in Pacers
  /\ "host" \in Pacers /\ "P" \in Pacers /\ IntervalOf("P") = Interval["P"]
  /\ Interval["P"] \in Nat
BY UpstreamAssumption DEF Pacers, Chains, IntervalOf, Chain

\* A step of a fetcher respects the types and the budget of attempts.
LEMMA UFetcherStep ==
  ASSUME TypeInv, NEW f \in Fetchers, Fetcher(f)
  PROVE  TypeInv' /\ UNCHANGED <<phase, tries>>
<1> USE UpstreamAssumption, IntervalsAreNat DEF TypeInv
<1>1. UNCHANGED <<phase, tries>>
  BY DEF Fetcher, Begin, HostTurn, ChainTurn, Answered, Empty, GiveUp, RetryPaced,
         RetryAtOnce, Throttled, mainVars
<1>2. fatal' \in BOOLEAN
  BY DEF TypeOK, Fetcher, Begin, HostTurn, ChainTurn, Answered, Empty, GiveUp, RetryPaced,
         RetryAtOnce, Throttled, mainVars
<1>3. next_slot' \in [Pacers -> Nat]
  BY DEF TypeOK, Fetcher, Begin, HostTurn, ChainTurn, Answered, Empty, GiveUp, RetryPaced,
         RetryAtOnce, Throttled, Claim
<1>4. at' \in [Fetchers -> Positions]
  BY DEF TypeOK, Positions, Fetcher, Begin, HostTurn, ChainTurn, Answered, Empty, GiveUp,
         RetryPaced, RetryAtOnce, Throttled, Claim, Sends, Returns, Pause
<1>5. left' \in [Fetchers -> Nat]
  BY DEF TypeOK, Fetcher, Begin, HostTurn, ChainTurn, Answered, Empty, GiveUp, RetryPaced,
         RetryAtOnce, Throttled, Claim, Sends, Returns, Pause, Backoff
<1>6. since' \in 0..Interval["P"]
  BY DEF TypeOK, Fetcher, Begin, HostTurn, ChainTurn, Answered, Empty, GiveUp, RetryPaced,
         RetryAtOnce, Throttled, Sends
<1>7. attempt' \in [Fetchers -> 0..RPC_MAX_ATTEMPTS] /\ AttemptsLeft'
  BY DEF TypeOK, AttemptsLeft, Fetcher, Begin, HostTurn, ChainTurn, Answered, Empty, GiveUp,
         RetryPaced, RetryAtOnce, Throttled, Due, Claim, Sends, Returns, Pause
<1>8. TypeOK'
  BY <1>1, <1>2, <1>3, <1>4, <1>5, <1>6, <1>7 DEF TypeOK
<1>9. TriesLeft'
  BY <1>1 DEF TriesLeft
<1> QED
  BY <1>1, <1>7, <1>8, <1>9

\* So does the clock.
LEMMA UTickStep ==
  ASSUME TypeInv, Tick
  PROVE  TypeInv'
<1> USE UpstreamAssumption, IntervalsAreNat DEF TypeInv
<1>1. UNCHANGED <<at, attempt, fatal, phase, tries>>
  BY DEF Tick, mainVars
<1>2. next_slot' \in [Pacers -> Nat] /\ left' \in [Fetchers -> Nat]
  BY DEF TypeOK, Tick, Less
<1>3. since' \in 0..Interval["P"]
  BY DEF TypeOK, Tick, MinOf
<1>4. TypeOK'
  BY <1>1, <1>2, <1>3 DEF TypeOK
<1>5. AttemptsLeft' /\ TriesLeft'
  BY <1>1 DEF AttemptsLeft, TriesLeft
<1> QED
  BY <1>4, <1>5

\* Every step respects the types and the budgets of attempts.
LEMMA UTypeStep ==
  ASSUME TypeInv, [Next]_vars
  PROVE  TypeInv'
<1>1. CASE Startup \/ Main \/ Stopped
  BY <1>1, UMainStep
<1>2. CASE Tick
  BY <1>2, UTickStep
<1>3. CASE \E f \in Fetchers : Fetcher(f)
  BY <1>3, UFetcherStep
<1>4. CASE UNCHANGED vars
  BY <1>4 DEF TypeInv, TypeOK, AttemptsLeft, TriesLeft, vars, fetchVars, mainVars
<1> QED
  BY <1>1, <1>2, <1>3, <1>4 DEF Next

\* Type correctness: in particular fetch_rpc stops at RPC_MAX_ATTEMPTS.
THEOREM UTypeCorrect == Spec => []TypeOK
<1>1. Init => TypeInv
  BY UTypeInit
<1>2. TypeInv /\ [Next]_vars => TypeInv'
  BY UTypeStep
<1>3. TypeInv => TypeOK
  BY DEF TypeInv
<1> QED
  BY <1>1, <1>2, <1>3, PTL DEF Spec

------------------------------------------------------------------------------
(***************************************************************************)
(* The spacing of the P-chain's requests rests on what Pacer::wait hands   *)
(* out.  Of the fetches that hold a slot of the P-chain's pacer: the slot  *)
(* is an interval before the next free one and, like the next free one, at *)
(* least an interval after the last request; and two slots are an interval *)
(* apart.  This is so until the loop stops with main, after which the      *)
(* P-chain sends nothing.                                                  *)
(***************************************************************************)
Waiting(f) == f \in PFetchers /\ at[f] = "chain"

SlotKept(f) == left[f] + Interval["P"] <= next_slot["P"] /\ since + left[f] >= Interval["P"]

SlotsApart(f, g) ==
  left[f] + Interval["P"] <= left[g] \/ left[g] + Interval["P"] <= left[f]

Spaced ==
  /\ since + next_slot["P"] >= Interval["P"]
  /\ \A f \in Fetchers : Waiting(f) => SlotKept(f)
  /\ \A f, g \in Fetchers : f # g /\ Waiting(f) /\ Waiting(g) => SlotsApart(f, g)

Ended == phase \in {"flush", "exited"}

\* No fetcher runs before the handshakes are over.
NotStarted == phase \in {"chain_id", "genesis_id", "parked"} => \A f \in Fetchers : at[f] = "idle"

SpacingInv == TypeInv /\ NotStarted /\ (Ended \/ Spaced)

\* The requests of one step are spaced.
SpacedStep == \A f \in PFetchers : Starts(f) => since = Interval["P"]

\* Before anything is sent no slot is held.
LEMMA USpacingInit == Init => SpacingInv
<1> SUFFICES ASSUME Init PROVE SpacingInv
  OBVIOUS
<1>1. TypeInv
  BY UTypeInit
<1>2. NotStarted
  BY DEF Init, NotStarted
<1>3. Spaced
  BY IntervalsAreNat DEF Init, Spaced, Waiting
<1> QED
  BY <1>1, <1>2, <1>3 DEF SpacingInv

\* main starts no fetcher, and does not start again once it has ended.
LEMMA USpacingMain ==
  ASSUME SpacingInv, Startup \/ Main \/ Stopped
  PROVE  SpacingInv'
<1>1. TypeInv' /\ UNCHANGED fetchVars
  BY UMainStep DEF SpacingInv
<1>2. NotStarted'
  BY <1>1 DEF SpacingInv, NotStarted, fetchVars, Startup, Main, Stopped, Handshake,
              ChainIdThrottled, GenesisIdThrottled, FatalNotified, Flush
<1>3. Ended => Ended'
  BY DEF Ended, Startup, Main, Stopped, Handshake, ChainIdThrottled, GenesisIdThrottled,
         FatalNotified, Flush
<1>4. Spaced => Spaced'
  BY <1>1 DEF Spaced, Waiting, SlotKept, SlotsApart, fetchVars
<1> QED
  BY <1>1, <1>2, <1>3, <1>4 DEF SpacingInv

\* The clock passes only while every slot that is held lies ahead.
LEMMA USpacingTick ==
  ASSUME SpacingInv, Tick
  PROVE  SpacingInv'
<1> USE IntervalsAreNat
<1>1. TypeInv'
  BY UTickStep DEF SpacingInv
<1>2. UNCHANGED <<at, phase>>
  BY DEF Tick, mainVars
<1>3. NotStarted' /\ (Ended => Ended')
  BY <1>2 DEF SpacingInv, NotStarted, Ended
<1>4. ASSUME ~Ended, Spaced
      PROVE  Spaced'
  <2>1. \A f \in Fetchers : Waiting(f) => left[f] > 0
    <3>1. SUFFICES ASSUME NEW f \in Fetchers, Waiting(f)
                   PROVE  left[f] > 0
      OBVIOUS
    <3>2. phase = "running"
      BY <1>4, <3>1 DEF SpacingInv, TypeInv, TypeOK, Phases, Ended, NotStarted, Waiting
    <3> QED
      BY <3>1, <3>2 DEF Tick, Asleep, Runs, Waiting
  <2>2. /\ since \in 0..Interval["P"] /\ since' = MinOf(since + 1, Interval["P"])
        /\ next_slot["P"] \in Nat /\ next_slot'["P"] = Less(next_slot["P"])
        /\ \A f \in Fetchers : left[f] \in Nat /\ left'[f] = Less(left[f])
    BY DEF SpacingInv, TypeInv, TypeOK, Tick
  <2>3. since' + next_slot'["P"] >= Interval["P"]
    BY <1>4, <2>2 DEF Spaced, MinOf, Less
  <2>4. ASSUME NEW f \in Fetchers, Waiting(f)'
        PROVE  SlotKept(f)'
    <3>1. Waiting(f)
      BY <1>2, <2>4 DEF Waiting
    <3>2. SlotKept(f) /\ left[f] > 0
      BY <1>4, <2>1, <3>1 DEF Spaced
    <3> QED
      BY <2>2, <3>2 DEF SlotKept, MinOf, Less
  <2>5. ASSUME NEW f \in Fetchers, NEW g \in Fetchers, f # g, Waiting(f)', Waiting(g)'
        PROVE  SlotsApart(f, g)'
    <3>1. Waiting(f) /\ Waiting(g)
      BY <1>2, <2>5 DEF Waiting
    <3>2. SlotsApart(f, g) /\ left[f] > 0 /\ left[g] > 0
      BY <1>4, <2>1, <2>5, <3>1 DEF Spaced
    <3> QED
      BY <2>2, <3>2 DEF SlotsApart, Less
  <2> QED
    BY <2>3, <2>4, <2>5 DEF Spaced
<1> QED
  BY <1>1, <1>3, <1>4 DEF SpacingInv

\* Only f moves, and neither takes a slot of the P-chain's pacer nor sends one
\* of its requests.
Quiet(f) ==
  /\ ~Waiting(f)'
  /\ since' = since
  /\ next_slot'["P"] = next_slot["P"]
  /\ \A g \in Fetchers : g # f => at'[g] = at[g] /\ left'[g] = left[g]

\* A quiet step keeps the slots as they were.
LEMMA QuietKeepsSpaced ==
  ASSUME NEW f \in Fetchers, Quiet(f), Spaced
  PROVE  Spaced'
<1>1. ASSUME NEW g \in Fetchers, Waiting(g)'
      PROVE  g # f /\ Waiting(g) /\ left'[g] = left[g]
  BY <1>1 DEF Quiet, Waiting
<1>2. ASSUME NEW g \in Fetchers, Waiting(g)'
      PROVE  SlotKept(g)'
  BY <1>1, <1>2 DEF Spaced, SlotKept, Quiet
<1>3. ASSUME NEW g \in Fetchers, NEW h \in Fetchers, g # h, Waiting(g)', Waiting(h)'
      PROVE  SlotsApart(g, h)'
  BY <1>1, <1>3 DEF Spaced, SlotsApart
<1> QED
  BY <1>2, <1>3 DEF Spaced, Quiet

\* Every step but the two that go through the P-chain's pacer is quiet.
LEMMA UQuiet ==
  ASSUME TypeInv, NEW f \in Fetchers, Fetcher(f),
         ~(f \in PFetchers /\ (HostTurn(f) \/ ChainTurn(f)))
  PROVE  Quiet(f) /\ (at'[f] = "sent" /\ f \in PFetchers => at[f] = "sent")
<1>1. /\ next_slot \in [Pacers -> Nat] /\ at \in [Fetchers -> Positions]
      /\ left \in [Fetchers -> Nat]
  BY DEF TypeInv, TypeOK
<1>2. CASE Begin(f) \/ RetryPaced(f)
  BY <1>1, <1>2 DEF Begin, RetryPaced, Claim, Quiet, Waiting, Pacers, Chains
<1>3. CASE HostTurn(f)
  BY <1>1, <1>3 DEF HostTurn, Claim, Quiet, Waiting, Pacers, Chains, Chain
<1>4. CASE ChainTurn(f)
  BY <1>1, <1>4 DEF ChainTurn, Sends, Quiet, Waiting
<1>5. CASE RetryAtOnce(f)
  BY <1>1, <1>5 DEF RetryAtOnce, Sends, Quiet, Waiting
<1>6. CASE Answered(f) \/ GiveUp(f)
  BY <1>1, <1>6 DEF Answered, GiveUp, Returns, Quiet, Waiting
<1>7. CASE Empty(f)
  BY <1>1, <1>7 DEF Empty, Pause, Quiet, Waiting
<1>8. CASE \E r \in RetryAfters : Throttled(f, r)
  BY <1>1, <1>8 DEF Throttled, Pause, Quiet, Waiting
<1> QED
  BY <1>2, <1>3, <1>4, <1>5, <1>6, <1>7, <1>8 DEF Fetcher

\* The slot Pacer::wait hands out lies an interval after every other.
LEMMA UClaimKeepsSpaced ==
  ASSUME TypeInv, Spaced, NEW f \in PFetchers, HostTurn(f)
  PROVE  Spaced' /\ at'[f] # "sent"
<1> USE IntervalsAreNat
<1>1. f \in Fetchers
  BY DEF Fetchers
<1>2. /\ next_slot["P"] \in Nat
      /\ \A g \in Fetchers : left[g] \in Nat
      /\ since \in Nat /\ since' = since
      /\ next_slot'["P"] = next_slot["P"] + Interval["P"]
      /\ left'[f] = next_slot["P"] /\ at'[f] = "chain"
      /\ \A g \in Fetchers : g # f => at'[g] = at[g] /\ left'[g] = left[g]
  BY <1>1 DEF TypeInv, TypeOK, HostTurn, Claim, Chain
<1>3. \A g \in Fetchers : g # f /\ Waiting(g)' => Waiting(g) /\ SlotKept(g)
  BY <1>2 DEF Waiting, Spaced
<1>4. since' + next_slot'["P"] >= Interval["P"]
  BY <1>2 DEF Spaced
<1>5. ASSUME NEW g \in Fetchers, Waiting(g)'
      PROVE  SlotKept(g)'
  BY <1>2, <1>3, <1>5 DEF SlotKept, Spaced
<1>6. ASSUME NEW g \in Fetchers, NEW h \in Fetchers, g # h, Waiting(g)', Waiting(h)'
      PROVE  SlotsApart(g, h)'
  BY <1>2, <1>3, <1>6 DEF SlotKept, SlotsApart, Spaced
<1> QED
  BY <1>2, <1>4, <1>5, <1>6 DEF Spaced

\* A request goes out in its slot, an interval after the last one, and every
\* other slot is an interval later.
LEMMA USendKeepsSpaced ==
  ASSUME TypeInv, Spaced, NEW f \in PFetchers, ChainTurn(f)
  PROVE  Spaced' /\ since = Interval["P"]
<1> USE IntervalsAreNat
<1>1. f \in Fetchers
  BY DEF Fetchers
<1>2. /\ next_slot["P"] \in Nat
      /\ \A g \in Fetchers : left[g] \in Nat
      /\ since \in 0..Interval["P"] /\ since' = 0
      /\ next_slot'["P"] = next_slot["P"]
      /\ left[f] = 0 /\ Waiting(f) /\ ~Waiting(f)'
      /\ \A g \in Fetchers : g # f => at'[g] = at[g] /\ left'[g] = left[g]
  BY <1>1 DEF TypeInv, TypeOK, ChainTurn, Due, Sends, Waiting
<1>3. since = Interval["P"] /\ next_slot["P"] >= Interval["P"]
  BY <1>1, <1>2 DEF Spaced, SlotKept
<1>4. ASSUME NEW g \in Fetchers, Waiting(g)'
      PROVE  /\ g # f /\ Waiting(g) /\ left'[g] = left[g]
             /\ SlotKept(g) /\ left[g] >= Interval["P"]
  <2>1. g # f /\ Waiting(g) /\ left'[g] = left[g]
    BY <1>2, <1>4 DEF Waiting
  <2>2. SlotKept(g) /\ SlotsApart(f, g)
    BY <1>1, <1>2, <2>1 DEF Spaced
  <2> QED
    BY <1>2, <2>1, <2>2 DEF SlotsApart
<1>5. ASSUME NEW g \in Fetchers, Waiting(g)'
      PROVE  SlotKept(g)'
  BY <1>2, <1>4, <1>5 DEF SlotKept
<1>6. ASSUME NEW g \in Fetchers, NEW h \in Fetchers, g # h, Waiting(g)', Waiting(h)'
      PROVE  SlotsApart(g, h)'
  BY <1>2, <1>4, <1>6 DEF SlotsApart, Spaced
<1> QED
  BY <1>2, <1>3, <1>5, <1>6 DEF Spaced

\* A step of a fetcher keeps the invariant, and a P-chain request it starts is
\* an interval after the last.
LEMMA USpacingFetcher ==
  ASSUME SpacingInv, NEW f \in Fetchers, Fetcher(f)
  PROVE  SpacingInv' /\ SpacedStep
<1>1. TypeInv /\ TypeInv' /\ phase' = phase
  BY UFetcherStep DEF SpacingInv
<1>2. phase = "running" \/ (phase = "flush" /\ f \notin PFetchers)
  BY UpstreamAssumption
     DEF Fetcher, Begin, HostTurn, ChainTurn, Answered, Empty, GiveUp, RetryPaced, RetryAtOnce,
         Throttled, Due, Runs
<1>3. NotStarted'
  BY <1>1, <1>2 DEF NotStarted
<1>4. CASE f \in PFetchers /\ (HostTurn(f) \/ ChainTurn(f))
  <2>1. Spaced
    BY <1>2, <1>4 DEF SpacingInv, Ended
  <2>2. \A g \in Fetchers : g # f => at'[g] = at[g]
    BY <1>1, <1>4 DEF TypeInv, TypeOK, HostTurn, ChainTurn, Claim, Sends
  <2>3. Spaced' /\ (at'[f] = "sent" => since = Interval["P"])
    BY <1>1, <1>4, <2>1, UClaimKeepsSpaced, USendKeepsSpaced
  <2>4. SpacedStep
    BY <2>2, <2>3 DEF SpacedStep, Starts, Fetchers
  <2> QED
    BY <1>1, <1>3, <2>3, <2>4 DEF SpacingInv
<1>5. CASE ~(f \in PFetchers /\ (HostTurn(f) \/ ChainTurn(f)))
  <2>1. Quiet(f) /\ (at'[f] = "sent" /\ f \in PFetchers => at[f] = "sent")
    BY <1>1, <1>5, UQuiet
  <2>2. SpacedStep
    BY <2>1 DEF SpacedStep, Starts, Quiet, Fetchers
  <2>3. Ended' \/ Spaced'
    BY <1>1, <2>1, QuietKeepsSpaced DEF SpacingInv, Ended
  <2> QED
    BY <1>1, <1>3, <2>2, <2>3 DEF SpacingInv
<1> QED
  BY <1>4, <1>5

\* Every step keeps the slots apart and starts no P-chain request too early.
LEMMA USpacingStep ==
  ASSUME SpacingInv, [Next]_vars
  PROVE  SpacingInv' /\ [SpacedStep]_vars
<1>1. CASE Startup \/ Main \/ Stopped
  <2>1. SpacingInv'
    BY <1>1, USpacingMain
  <2>2. at' = at
    BY <1>1, UMainStep DEF SpacingInv, fetchVars
  <2>3. SpacedStep
    BY <2>2 DEF SpacedStep, Starts
  <2> QED
    BY <2>1, <2>3
<1>2. CASE Tick
  <2>1. SpacingInv'
    BY <1>2, USpacingTick
  <2>2. SpacedStep
    BY <1>2 DEF Tick, SpacedStep, Starts
  <2> QED
    BY <2>1, <2>2
<1>3. CASE \E f \in Fetchers : Fetcher(f)
  BY <1>3, USpacingFetcher
<1>4. CASE UNCHANGED vars
  <2>1. TypeInv'
    BY UTypeStep DEF SpacingInv
  <2>2. NotStarted' /\ (Ended' \/ Spaced')
    BY <1>4 DEF SpacingInv, NotStarted, Ended, Spaced, Waiting, SlotKept, SlotsApart, vars,
                fetchVars, mainVars
  <2> QED
    BY <1>4, <2>1, <2>2 DEF SpacingInv
<1> QED
  BY <1>1, <1>2, <1>3, <1>4 DEF Next

\* Pacer::wait spaces the requests of the P-chain, its retries included: for any
\* number of concurrent fetches, any interval and any host budget, two of them
\* never start less than the interval apart.
THEOREM UPRequestsSpaced == Spec => PRequestsSpaced
<1>1. Init => SpacingInv
  BY USpacingInit
<1>2. SpacingInv /\ [Next]_vars => SpacingInv'
  BY USpacingStep
<1>3. SpacingInv /\ [Next]_vars => [SpacedStep]_vars
  BY USpacingStep
<1>4. [SpacedStep]_vars => [\A f \in PFetchers : Starts(f) => since = Interval["P"]]_vars
  BY DEF SpacedStep
<1> QED
  BY <1>1, <1>2, <1>3, <1>4, PTL DEF Spec, PRequestsSpaced

------------------------------------------------------------------------------
(* The fatal notification. *)

\* A fetcher that parked is either still to be noticed or main is on its way out:
\* the permit that handle_throttle stores outlasts the select that is not yet
\* waiting for it, and is consumed only to shut down.
ParkedIsNoticed ==
  (\E f \in Fetchers : at[f] = "parked") => fatal \/ phase \in {"flush", "exited"}

\* No one parks before the pipelines run.
ParkedRuns ==
  (\E f \in Fetchers : at[f] = "parked") => phase \in {"running", "flush", "exited"}

\* A fetcher that parks leaves word; the others change nobody's position but their own.
LEMMA UParkStep ==
  ASSUME TypeInv, ParkedIsNoticed, ParkedRuns, NEW f \in Fetchers, Fetcher(f)
  PROVE  ParkedIsNoticed' /\ ParkedRuns'
<1>1. phase' = phase /\ phase \in {"running", "flush"}
  BY DEF Fetcher, Begin, HostTurn, ChainTurn, Answered, Empty, GiveUp, RetryPaced,
         RetryAtOnce, Throttled, mainVars, Due, Runs
<1>2. CASE at'[f] = "parked"
  <2>1. fatal' = TRUE
    BY <1>2 DEF TypeInv, TypeOK, Positions, Fetcher, Begin, HostTurn, ChainTurn, Answered, Empty,
         GiveUp, RetryPaced, RetryAtOnce, Throttled, Claim, Sends, Returns, Pause
  <2> QED
    BY <1>1, <2>1 DEF ParkedIsNoticed, ParkedRuns
<1>3. CASE at'[f] # "parked"
  <2>1. \A g \in Fetchers : at'[g] = "parked" => at[g] = "parked"
    BY <1>3 DEF TypeInv, TypeOK, Fetcher, Begin, HostTurn, ChainTurn, Answered, Empty,
         GiveUp, RetryPaced, RetryAtOnce, Throttled, Claim, Sends, Returns, Pause
  <2>2. fatal' = fatal
    BY <1>3 DEF TypeInv, TypeOK, Fetcher, Begin, HostTurn, ChainTurn, Answered, Empty,
         GiveUp, RetryPaced, RetryAtOnce, Throttled, mainVars
  <2> QED
    BY <1>1, <2>1, <2>2 DEF ParkedIsNoticed, ParkedRuns
<1> QED
  BY <1>2, <1>3

\* main never loses a permit: it takes it up only to leave.
LEMMA UNoticeStep ==
  ASSUME TypeInv, ParkedIsNoticed, ParkedRuns, [Next]_vars
  PROVE  ParkedIsNoticed' /\ ParkedRuns'
<1>1. CASE \E f \in Fetchers : Fetcher(f)
  BY <1>1, UParkStep
<1>2. CASE Startup \/ Main \/ Stopped
  <2>1. at' = at
    BY <1>2, UMainStep DEF fetchVars
  <2>2. CASE FatalNotified \/ Stopped \/ Flush
    BY <2>1, <2>2 DEF FatalNotified, Stopped, Flush, ParkedIsNoticed, ParkedRuns
  <2>3. CASE Startup
    <3>1. phase \in {"chain_id", "genesis_id"} /\ fatal' = fatal
      BY <2>3 DEF Startup, Handshake, ChainIdThrottled, GenesisIdThrottled
    <3> QED
      BY <2>1, <3>1 DEF ParkedIsNoticed, ParkedRuns
  <2> QED
    BY <1>2, <2>2, <2>3 DEF Main
<1>3. CASE Tick \/ UNCHANGED vars
  <2>1. UNCHANGED <<at, fatal, phase>>
    BY <1>3 DEF Tick, vars, fetchVars, mainVars
  <2> QED
    BY <2>1 DEF ParkedIsNoticed, ParkedRuns
<1> QED
  BY <1>1, <1>2, <1>3 DEF Next

\* The safety half of FatalExits, for any fetchers and throttles: a pipeline parked
\* by handle_throttle always has its notification pending or acted upon, so the
\* process is never left serving with nobody told.
THEOREM UParkedIsNoticed == Spec => []ParkedIsNoticed
<1>1. Init => TypeInv /\ ParkedIsNoticed /\ ParkedRuns
  BY UTypeInit DEF Init, ParkedIsNoticed, ParkedRuns
<1>2. TypeInv /\ ParkedIsNoticed /\ ParkedRuns /\ [Next]_vars
        => (TypeInv /\ ParkedIsNoticed /\ ParkedRuns)'
  BY UTypeStep, UNoticeStep
<1> QED
  BY <1>1, <1>2, PTL DEF Spec

==============================================================================
