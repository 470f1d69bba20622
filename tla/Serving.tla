------------------------------- MODULE Serving --------------------------------
(***************************************************************************)
(* The server's side of a connection (src/src/rpc.rs, src/src/conn.rs):    *)
(* the range requests of RangeStream over a socket whose client reads when *)
(* it likes, watched by the idle reaper; and GET /health                   *)
(* (src/src/health.rs), which reads the store in one await after another.  *)
(*                                                                         *)
(* The driver of a connection is hyper's.  It polls the wrapped socket     *)
(* when it wants to read or write, then sleeps until the socket or a timer *)
(* registered with it wakes it.                                            *)
(***************************************************************************)
EXTENDS RangeStream

CONSTANTS IdleTicks,  \* server.idle_timeout
          SocketCap   \* frames the socket takes before a write has to wait

ASSUME ServingAssumption == IdleTicks \in Nat \ {0} /\ SocketCap \in Nat \ {0}

VARIABLES
  conn,    \* "none", "open", "reaped" by the timer, or "closed"
  waits,   \* what the driver last polled and found pending
  left,    \* time to the deadline
  armed,   \* the deadline's timer is registered with the driver
  out,     \* frames in the socket, not yet drained by the client
  quiet,   \* time since bytes last moved, kept for the properties
  health,  \* the position of a /health report, and what it read
  rempty, rmin, rmc, rhw

connVars == <<conn, waits, left, armed, out, quiet>>
reportVars == <<health, rempty, rmin, rmc, rhw>>
servingVars == <<vars, connVars, reportVars>>

ServingTypeOK ==
  /\ TypeOK
  /\ conn \in {"none", "open", "reaped", "closed"}
  /\ waits \in {"nothing", "read", "write"}
  /\ left \in 0..IdleTicks /\ armed \in BOOLEAN
  /\ out \in 0..SocketCap /\ quiet \in 0..(IdleTicks + 1)
  /\ health \in {"idle", "empty", "min", "contig", "high", "done"}
  /\ rempty \in BOOLEAN /\ rmin \in Heights /\ rmc \in Heights /\ rhw \in Heights

ServingInit ==
  /\ Init
  /\ conn = "none" /\ waits = "nothing" /\ left = 0 /\ armed = FALSE /\ out = 0 /\ quiet = 0
  /\ health = "idle" /\ rempty = FALSE /\ rmin = 0 /\ rmc = 0 /\ rhw = 0

------------------------------------------------------------------------------
(* IdleTimeout. *)

\* Mutant: the new deadline is set but not polled.
reset_timeout_unpolled == left' = IdleTicks /\ armed' = FALSE /\ quiet' = 0

\* Bytes moved: a new deadline, polled at once, because the driver may now
\* sleep on a read it has polled before.
reset_timeout == left' = IdleTicks /\ armed' = TRUE /\ quiet' = 0

\* A frame the socket accepts.
Written ==
  /\ conn = "open" /\ out < SocketCap
  /\ out' = out + 1 /\ waits' = "read"

\* Mutant: only what is read counts as activity.
poll_write_no_reset ==
  Written /\ quiet' = 0 /\ UNCHANGED <<conn, left, armed>>

poll_write == Written /\ reset_timeout /\ UNCHANGED conn

\* A read with nothing to read, or a write the socket does not take, polls the
\* deadline too.
poll_pending(io) ==
  /\ conn = "open"
  /\ waits' = io /\ armed' = TRUE
  /\ UNCHANGED <<vars, conn, left, out, quiet, reportVars>>

ReadPends == waits = "nothing" /\ poll_pending("read")

WriteStalls ==
  /\ rpc = "read" /\ rec[h] # Absent /\ out = SocketCap
  /\ waits # "write" /\ poll_pending("write")

Tick ==
  /\ conn = "open" /\ quiet <= IdleTicks
  /\ left' = IF left > 0 THEN left - 1 ELSE 0
  /\ quiet' = quiet + 1
  /\ UNCHANGED <<vars, conn, waits, armed, out, reportVars>>

\* The stream's end when its connection is gone.
StreamDropped ==
  /\ rpc' = IF rpc \in {"rejected", "done", "hole"} THEN rpc ELSE "closed"
  /\ UNCHANGED <<storageVars, requestVars, vmin, vcontig, h>>

\* Mutant: the deadline is checked only while a read is pending.
idle_expired_reads_only == left = 0 /\ armed /\ waits # "write"

idle_expired == left = 0 /\ armed

\* The timer wakes the driver, whose pending read or write then fails.
Reap ==
  /\ conn = "open" /\ idle_expired
  /\ conn' = "reaped"
  /\ StreamDropped
  /\ UNCHANGED <<waits, left, armed, out, quiet, reportVars>>

------------------------------------------------------------------------------
(* A request on a connection. *)

\* An accepted socket is wrapped, its timer not yet polled.
Accept ==
  /\ conn = "none" /\ kind # "health"
  /\ conn' = "open" /\ left' = IdleTicks
  /\ UNCHANGED <<vars, waits, armed, out, quiet, reportVars>>

\* The request is read.
poll_read ==
  /\ conn = "open" /\ Arrives
  /\ reset_timeout
  /\ UNCHANGED <<conn, waits, out, reportVars>>

\* The steps of the request that write nothing.
ReadsStore ==
  /\ conn = "open"
  /\ ReadMin \/ ReadContiguous \/ Pass
  /\ UNCHANGED <<connVars, reportVars>>

\* The refusal, or the acceptance and what follows it, is written ...
Answer ==
  /\ Validate /\ poll_write
  /\ UNCHANGED reportVars

\* ... and a height at a time after that, each when the socket takes it.
Push ==
  /\ Send
  /\ IF rec[h] # Absent THEN poll_write ELSE UNCHANGED connVars
  /\ UNCHANGED reportVars

ClientDrains ==
  /\ conn = "open" /\ out > 0
  /\ out' = out - 1
  /\ UNCHANGED <<vars, conn, waits, left, armed, quiet, reportVars>>

\* A WebSocket client may send at any time; a download's has nothing to send.
ClientSends ==
  /\ conn = "open" /\ kind = "subscription" /\ rpc # "idle"
  /\ reset_timeout
  /\ UNCHANGED <<vars, conn, waits, out, reportVars>>

\* The client leaves; a download's connection closes when it is through.
ConnectionCloses ==
  /\ conn = "open"
  /\ conn' = "closed"
  /\ StreamDropped
  /\ UNCHANGED <<waits, left, armed, out, quiet, reportVars>>

ReadFails ==
  /\ conn = "open" /\ Closes
  /\ UNCHANGED <<connVars, reportVars>>

------------------------------------------------------------------------------
(* build_chain_report. *)

HealthAsked ==
  /\ kind = "health" /\ health = "idle"
  /\ health' = "empty"
  /\ UNCHANGED <<vars, connVars, rempty, rmin, rmc, rhw>>

HealthReadsEmpty ==
  /\ health = "empty"
  /\ rempty' = is_empty
  /\ health' = "min"
  /\ UNCHANGED <<vars, connVars, rmin, rmc, rhw>>

HealthReadsMin ==
  /\ health = "min"
  /\ rmin' = minH
  /\ health' = "contig"
  /\ UNCHANGED <<vars, connVars, rempty, rmc, rhw>>

HealthReadsContiguous ==
  /\ health = "contig"
  /\ rmc' = max_contiguous_height
  /\ health' = "high"
  /\ UNCHANGED <<vars, connVars, rempty, rmin, rhw>>

\* Mutant: emptiness is read when the heights have been.
HealthReadsHigh_then_empty ==
  /\ health = "high"
  /\ rhw' = high_water /\ rempty' = is_empty
  /\ health' = "done"
  /\ UNCHANGED <<vars, connVars, rmin, rmc>>

HealthReadsHigh ==
  /\ health = "high"
  /\ rhw' = high_water
  /\ health' = "done"
  /\ UNCHANGED <<vars, connVars, rempty, rmin, rmc>>

ServingNext ==
  \/ WriterPuts /\ UNCHANGED <<connVars, reportVars>>
  \/ Accept \/ poll_read \/ ReadsStore \/ Answer \/ Push \/ ReadFails
  \/ ReadPends \/ WriteStalls \/ Tick \/ Reap
  \/ ClientDrains \/ ClientSends \/ ConnectionCloses
  \/ HealthAsked \/ HealthReadsEmpty \/ HealthReadsMin \/ HealthReadsContiguous \/ HealthReadsHigh

\* Time passes, a registered timer wakes its task, and a task that can run
\* does.  The client and the writers owe nothing.
ServingFairness ==
  /\ WF_servingVars(Tick) /\ WF_servingVars(Reap)
  /\ WF_servingVars(ReadPends) /\ WF_servingVars(WriteStalls)
  /\ WF_servingVars(ReadsStore) /\ WF_servingVars(Answer) /\ WF_servingVars(Push)

ServingSpec == ServingInit /\ [][ServingNext]_servingVars /\ ServingFairness

------------------------------------------------------------------------------
(* Properties. *)

\* No connection stays open and silent: when no bytes move either way it is
\* reaped, whatever the request was doing and whichever poll came last (the
\* leaked keep-alive and slow-client cases IdleTimeout is there for).
SilentConnectionEnds == []<>(conn # "open" \/ quiet <= IdleTicks)

\* A connection on which bytes moved within the timeout, in either direction,
\* is not reaped: a subscriber that is only written to stays.
BusyNeverReaped == conn = "reaped" => quiet >= IdleTicks

\* Every download ends: delivered, refused, or dropped because its client
\* stopped draining it.  A stalled reader never holds a stream for ever.
DownloadEnds == (kind = "bulk" /\ conn = "open") ~> rpc \in {"rejected", "done", "hole", "closed"}

\* What /health reports was true of the store: the range it calls gap-free is
\* stored in full, its floor is the store's own, and its high water is not below
\* it, though the four are read in separate awaits while the store is created
\* and filled.
HealthRangeStored ==
  health = "done" /\ ~rempty =>
    /\ rmin = minH
    /\ rmin..rmc \subseteq Stored
    /\ rmc <= rhw

==============================================================================
