------------------------------ MODULE HostClock ------------------------------
(***************************************************************************)
(* The lockstep clock of a host that embeds the engine:                    *)
(* blockwork-core/src/macros/host_clock.rs, its callers in runner.rs and   *)
(* runner/control.rs, and blockwork_sync_begin and blockwork_sync_step of  *)
(* blockwork-ffi/src/lib.rs.                                               *)
(*                                                                         *)
(* The host calls step once per tick; the strands of the run park in their *)
(* Waits until virtual time reaches them, and what they press is queued    *)
(* for the step to hand out.  Everything below the host's and the strands' *)
(* places is under one lock, given up only while sleeping.                 *)
(***************************************************************************)
EXTENDS Integers, FiniteSets

CONSTANTS
  HostStrand,   \* BOUND: the strands a lockstep run can have
  MaxTime       \* BOUND: the virtual time the host and the Waits go up to

ASSUME HostClockAssumption == IsFiniteSet(HostStrand) /\ MaxTime \in Nat

VARIABLES
  enabled, now, starting, alive,        \* State of host_clock.rs
  sleeping,     \* the strands whose host_time_ms is in State.waiting
  inputs,       \* State.events, as the virtual times they were emitted at
  time,         \* ExecCtx.host_time_ms of each strand
  place,        \* where each strand is
  started,      \* the signal strands each strand has yet to join
  thread,       \* where the thread "macros-sync-run" is
  halted,       \* the run's stop flag is down
  host,         \* whether the host is inside step
  before,       \* history: the time of the step before the current one
  late,         \* history: a step of this run gave up on it
  signalled,    \* history: a strand of this run was started by a signal
  unspawned     \* history: a strand's thread could not be started

clockState == <<enabled, now, starting, alive, sleeping, inputs>>
strandState == <<time, place, started>>
clockHistory == <<before, late, signalled, unspawned>>
clockVars == <<clockState, strandState, thread, halted, host, clockHistory>>

HostPlace == {"unborn",     \* no such strand
              "forked",     \* its thread is being started
              "running",    \* between two blocks, or in one that does not wait
              "parked",     \* in wait_until
              "sending",    \* in SendSignal, joining what it started
              "leaving",    \* run_block returned: joins, then releases its keys
              "ended"}      \* thread over

Time == 0..MaxTime

ClockTypeOK ==
  /\ enabled \in BOOLEAN /\ starting \in BOOLEAN
  /\ now \in Time
  /\ alive \in 0..Cardinality(HostStrand)
  /\ sleeping \subseteq HostStrand
  /\ inputs \subseteq Time
  /\ time \in [HostStrand -> Time]
  /\ place \in [HostStrand -> HostPlace]
  /\ started \in [HostStrand -> SUBSET HostStrand]
  /\ thread \in {"off", "begun", "attached", "returned"}
  /\ halted \in BOOLEAN
  /\ host \in {"idle", "stepping"}
  /\ before \in Time \union {-1}
  /\ late \in BOOLEAN /\ signalled \in BOOLEAN /\ unspawned \in BOOLEAN

ClockInit ==
  /\ enabled = FALSE /\ starting = FALSE
  /\ now = 0
  /\ alive = 0
  /\ sleeping = {}
  /\ inputs = {}
  /\ time = [s \in HostStrand |-> 0]
  /\ place = [s \in HostStrand |-> "unborn"]
  /\ started = [s \in HostStrand |-> {}]
  /\ thread = "off"
  /\ halted = FALSE
  /\ host = "idle"
  /\ before = -1
  /\ late = FALSE /\ signalled = FALSE /\ unspawned = FALSE

GoesTo(s, to) == place' = [place EXCEPT ![s] = to]

Ended(S) == \A s \in S : place[s] = "ended"

-----------------------------------------------------------------------------
(* The run's thread *)

\* blockwork_sync_begin, once it has stopped and joined the run before:
\* finish, begin, and a thread for the run (or finish again).
SyncBegin(spawned) ==
  /\ thread = "off" /\ host = "idle"
  /\ enabled' = spawned /\ starting' = spawned
  /\ now' = 0
  /\ alive' = 0
  /\ sleeping' = {}
  /\ inputs' = {}
  /\ time' = [s \in HostStrand |-> 0]
  /\ place' = [s \in HostStrand |-> "unborn"]
  /\ started' = [s \in HostStrand |-> {}]
  /\ thread' = IF spawned THEN "begun" ELSE "off"
  /\ halted' = FALSE
  /\ before' = -1
  /\ late' = FALSE /\ signalled' = FALSE /\ unspawned' = FALSE
  /\ UNCHANGED host

\* run_entries up to its thread::scope.
AttachRun(entries) ==
  /\ thread = "begun"
  /\ IF entries = {}
     THEN thread' = "returned" /\ UNCHANGED <<starting, alive, place>>
     ELSE /\ thread' = "attached"
          /\ alive' = alive + Cardinality(entries)
          /\ starting' = FALSE
          /\ place' = [s \in HostStrand |->
                         IF s \in entries THEN "forked" ELSE "unborn"]
  /\ UNCHANGED <<enabled, now, sleeping, inputs, time, started, halted, host,
                 clockHistory>>

\* thread::scope has joined the entries; signal strands are joined by those
\* that started them.
RunEnds ==
  /\ thread = "attached"
  /\ \A s \in HostStrand : place[s] \in {"unborn", "ended"}
  /\ thread' = "returned"
  /\ UNCHANGED <<clockState, strandState, halted, host, clockHistory>>

\* finish(): what was emitted stays in the queue.
Finish ==
  /\ thread = "returned"
  /\ thread' = "off"
  /\ enabled' = FALSE /\ starting' = FALSE
  /\ alive' = 0
  /\ sleeping' = {}
  /\ UNCHANGED <<now, inputs, strandState, halted, host, clockHistory>>

-----------------------------------------------------------------------------
(* Strands *)

ThreadStarts(s) ==
  /\ place[s] = "forked"
  /\ GoesTo(s, "running")
  /\ UNCHANGED <<clockState, time, started, thread, halted, host, clockHistory>>

\* A warning; nobody detaches for the strand.
ThreadFails(s) ==
  /\ place[s] = "forked"
  /\ GoesTo(s, "ended")
  /\ unspawned' = TRUE
  /\ UNCHANGED <<clockState, time, started, thread, halted, host, before, late,
                 signalled>>

\* A press or release goes to the queue: of a block, or of the clean-up.
Emit(s) ==
  /\ place[s] \in {"running", "leaving"}
  /\ inputs' = inputs \union {time[s]}
  /\ UNCHANGED <<enabled, now, starting, alive, sleeping, strandState,
                 thread, halted, host, clockHistory>>

\* Mutant of Due: the strand compares with its own time before the wait.
M_DueEarly(s, target) == now >= time[s]

Due(s, target) == now >= target

\* A Wait block: wait_until up to its sleep.
WaitUntil(s, target) ==
  /\ place[s] = "running"
  /\ target >= time[s]
  /\ time' = [time EXCEPT ![s] = target]
  /\ IF Due(s, target)
     THEN GoesTo(s, IF halted THEN "leaving" ELSE "running")
          /\ UNCHANGED sleeping
     ELSE GoesTo(s, "parked") /\ sleeping' = sleeping \union {s}
  /\ UNCHANGED <<enabled, now, starting, alive, inputs, started, thread, halted,
                 host, clockHistory>>

\* The sleep ends by notification or every 5 ms, and with it the wait if the
\* run is stopped, time has come or the clock is off.
WakeUp(s) ==
  /\ place[s] = "parked"
  /\ halted \/ now >= time[s] \/ ~enabled
  /\ sleeping' = sleeping \ {s}
  /\ GoesTo(s, IF halted THEN "leaving" ELSE "running")
  /\ UNCHANGED <<enabled, now, starting, alive, inputs, time, started,
                 thread, halted, host, clockHistory>>

\* SendSignal: the new strand's clock starts at 0, and nobody attaches it.
SendSignal(s, c, wait) ==
  /\ place[s] = "running" /\ place[c] = "unborn"
  /\ place' = [place EXCEPT ![s] = IF wait THEN "sending" ELSE "running",
                            ![c] = "forked"]
  /\ started' = [started EXCEPT ![s] = @ \union {c}]
  /\ signalled' = TRUE
  /\ UNCHANGED <<clockState, time, thread, halted, host, before, late,
                 unspawned>>

SignalJoined(s) ==
  /\ place[s] = "sending"
  /\ Ended(started[s])
  /\ started' = [started EXCEPT ![s] = {}]
  /\ GoesTo(s, "running")
  /\ UNCHANGED <<clockState, time, thread, halted, host, clockHistory>>

\* The list is over, an error reached its top, or the strand is stopped.
Leave(s) ==
  /\ place[s] = "running"
  /\ GoesTo(s, "leaving")
  /\ UNCHANGED <<clockState, time, started, thread, halted, host, clockHistory>>

\* saturating_sub
Fewer == IF alive = 0 THEN 0 ELSE alive - 1

\* The end of run_strand: its Defer detaches.
Detach(s) ==
  /\ place[s] = "leaving"
  /\ Ended(started[s])
  /\ alive' = Fewer
  /\ GoesTo(s, "ended")
  /\ UNCHANGED <<enabled, now, starting, sleeping, inputs, time, started,
                 thread, halted, host, clockHistory>>

-----------------------------------------------------------------------------
(* The host *)

\* step() up to its loop.  Without a run it hands out nothing.  The host's
\* time does not go back.
StepBegins(t) ==
  /\ host = "idle" /\ enabled
  /\ t >= now
  /\ host' = "stepping"
  /\ now' = t
  /\ UNCHANGED <<enabled, starting, alive, sleeping, inputs, strandState,
                 thread, halted, clockHistory>>

\* Mutant of Settled: a woken strand still counts as parked.
M_CountsDueStrands == ~starting /\ Cardinality(sleeping) >= alive

Settled ==
  /\ ~starting
  /\ Cardinality(sleeping) >= alive
  /\ \A s \in sleeping : time[s] > now

Handed ==
  /\ inputs' = {}
  /\ host' = "idle"
  /\ before' = now
  /\ UNCHANGED <<enabled, now, starting, alive, sleeping, strandState,
                 thread, halted, signalled, unspawned>>

StepSettles ==
  /\ host = "stepping" /\ Settled
  /\ Handed
  /\ UNCHANGED late

\* SETTLE_TIMEOUT is over.
StepGivesUp ==
  /\ host = "stepping" /\ ~Settled
  /\ Handed
  /\ late' = TRUE

\* Somebody stops the run: run_registry::stop_all, or a stop block.
HaltRun ==
  /\ thread \in {"begun", "attached"} /\ ~halted
  /\ halted' = TRUE
  /\ UNCHANGED <<clockState, strandState, thread, host, clockHistory>>

-----------------------------------------------------------------------------

RunThread ==
  \/ \E entries \in SUBSET HostStrand : AttachRun(entries)
  \/ RunEnds
  \/ Finish

ClockStrand(s) ==
  \/ ThreadStarts(s) \/ ThreadFails(s)
  \/ Emit(s)
  \/ \E target \in Time : WaitUntil(s, target)
  \/ WakeUp(s)
  \/ \E c \in HostStrand, wait \in BOOLEAN : SendSignal(s, c, wait)
  \/ SignalJoined(s)
  \/ Leave(s) \/ Detach(s)

HostProgram ==
  \/ \E spawned \in BOOLEAN : SyncBegin(spawned)
  \/ \E t \in Time : StepBegins(t)
  \/ StepSettles \/ StepGivesUp
  \/ HaltRun

ClockNext == RunThread \/ HostProgram \/ \E s \in HostStrand : ClockStrand(s)

ClockSpec == ClockInit /\ [][ClockNext]_clockVars

-----------------------------------------------------------------------------
(* Properties *)

\* Every strand of the run is parked on a later time, or over.
Quiet ==
  \A s \in HostStrand :
    \/ place[s] \in {"unborn", "ended"}
    \/ place[s] = "parked" /\ time[s] > now

\* "waits for the run to settle (every strand parked on a future deadline, or
\* finished)" (host_clock.rs:129): a step returns without its time-out only when
\* that is so, and then does, whatever strands start, park, wake, end and are
\* stopped meanwhile.  Of runs without signals, which the count of strands
\* leaves out; a thread that fails to start only makes steps time out.
StepWaitsForStrands ==
  host = "stepping" /\ thread = "attached" /\ ~signalled =>
    /\ Settled => Quiet
    /\ Quiet /\ ~unspawned => Settled

\* "Clicks at 33.3, 66.6 and 100ms land on the first step at or past each"
\* (host_clock.rs:244): whatever a step that settles hands out was emitted at
\* a virtual time after the step before it and not after its own.
ExactPlayback ==
  host = "stepping" /\ Settled /\ ~late /\ ~signalled /\ ~halted =>
    \A t \in inputs : before < t /\ t <= now

\* step "drains what it emitted" (host_clock.rs:130): an input in the queue can
\* still be handed out.
EmittedIsDrained == inputs # {} => enabled

=============================================================================
