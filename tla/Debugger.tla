------------------------------- MODULE Debugger ------------------------------
(***************************************************************************)
(* Breakpoints, pause and single step for the strands of one macro:        *)
(* blockwork-core/src/macros/debug.rs, and the part of trace.rs that tells *)
(* the debugger when the last strand has ended.                            *)
(*                                                                         *)
(* Every strand passes a checkpoint before each block.  The debugger's     *)
(* state is under one lock, which a checkpoint gives up while it copies    *)
(* the variables and while it sleeps.  A macro the debugger does not know  *)
(* is one that is not paused and was never stepped.                        *)
(***************************************************************************)
EXTENDS Naturals

CONSTANTS
  DebugStrand,
  MaxStep       \* BOUND: steps until the next resume

ASSUME DebuggerAssumption == MaxStep \in Nat

VARIABLES
  pc,           \* where a strand is
  active,       \* strands in trace::ACTIVE
  stopAsked,    \* what stop_requested answers a strand
  breakpoint,   \* whether a block has a breakpoint
  paused,       \* MacroDebug.paused
  step,         \* MacroDebug.step
  armed,        \* ARMED
  mine,         \* a checkpoint's my_step
  ran           \* history: blocks let through since the last pause or step

debug == <<breakpoint, paused, step, armed>>
debugVars == <<pc, active, stopAsked, debug, mine, ran>>

\* Blocks let through are told apart as none, one and more.
Ran == 0..2

DebugTypeOK ==
  /\ pc \in [DebugStrand -> {"out", "block", "sampled", "waiting", "last"}]
  /\ active = {s \in DebugStrand : pc[s] \in {"block", "sampled", "waiting"}}
  /\ stopAsked \in [DebugStrand -> BOOLEAN]
  /\ breakpoint \in BOOLEAN
  /\ paused \in BOOLEAN
  /\ step \in 0..MaxStep
  /\ armed \in BOOLEAN
  /\ mine \in [DebugStrand -> 0..MaxStep]
  /\ ran \in [DebugStrand -> Ran]

DebugInit ==
  /\ pc = [s \in DebugStrand |-> "out"]
  /\ active = {}
  /\ stopAsked = [s \in DebugStrand |-> FALSE]
  /\ breakpoint = FALSE
  /\ paused = FALSE
  /\ step = 0
  /\ armed = FALSE
  /\ mine = [s \in DebugStrand |-> 0]
  /\ ran = [s \in DebugStrand |-> 0]

-----------------------------------------------------------------------------

\* Mutant of Armed: a pause alone does not arm the checkpoints.
M_ArmedByBreakpoints(isPaused, isSet) == isSet

\* What changed() stores in ARMED.
Armed(isPaused, isSet) == isPaused \/ isSet

Nobody == [s \in DebugStrand |-> 0]

\* One more block for the strand.
Through(s) == [ran EXCEPT ![s] = IF @ = 2 THEN 2 ELSE @ + 1]

Goes(s, from, to) ==
  /\ pc[s] = from
  /\ pc' = [pc EXCEPT ![s] = to]

-----------------------------------------------------------------------------
(* A strand *)

\* Tracker::new in run_strand.
Begin(s) ==
  /\ Goes(s, "out", "block")
  /\ active' = active \union {s}
  /\ stopAsked' = [stopAsked EXCEPT ![s] = FALSE]
  /\ ran' = [ran EXCEPT ![s] = 0]
  /\ UNCHANGED <<debug, mine>>

\* A checkpoint that lets the strand through: nothing is armed, or the macro is
\* not paused and the block has no breakpoint.
Pass(s) ==
  /\ pc[s] = "block" /\ ~stopAsked[s]
  /\ ~armed \/ ~paused
  /\ ran' = Through(s)
  /\ UNCHANGED <<pc, active, stopAsked, debug, mine>>

\* A checkpoint that will wait; a breakpoint pauses the macro.  The lock is
\* given up for the snapshot, and ARMED is left as it is.
Sample(s) ==
  /\ ~stopAsked[s]
  /\ armed
  /\ paused \/ breakpoint
  /\ Goes(s, "block", "sampled")
  /\ paused' = TRUE
  /\ ran' = IF paused THEN ran ELSE Nobody
  /\ mine' = [mine EXCEPT ![s] = step]
  /\ UNCHANGED <<active, stopAsked, breakpoint, step, armed>>

\* The strand is listed as waiting.
BeginWait(s) ==
  /\ Goes(s, "sampled", "waiting")
  /\ armed' = Armed(paused, breakpoint)
  /\ UNCHANGED <<active, stopAsked, breakpoint, paused, step, mine, ran>>

\* Mutant of Released: any step there ever was lets the strand go on.
M_AnyStep(s) == ~paused \/ step > 0

Released(s) == ~paused \/ step # mine[s]

\* Mutant of MayLeave: only the debugger wakes the strand.
M_WaitsForUser(s) == Released(s)

MayLeave(s) == Released(s) \/ stopAsked[s]

\* The strand wakes, by the condition variable or every 50 ms; a stopped one
\* leaves its block list instead of running the block.
EndWait(s) ==
  /\ MayLeave(s)
  /\ Goes(s, "waiting", "block")
  /\ ran' = IF stopAsked[s] THEN ran ELSE Through(s)
  /\ armed' = Armed(paused, breakpoint)
  /\ UNCHANGED <<active, stopAsked, breakpoint, paused, step, mine>>

Remaining(s) == active \ {s}

\* Tracker::drop, up to where it gives up the lock of the trace.
End(s) ==
  /\ Goes(s, "block", IF Remaining(s) = {} THEN "last" ELSE "out")
  /\ active' = Remaining(s)
  /\ UNCHANGED <<stopAsked, debug, mine, ran>>

\* The last strand's Tracker::drop calls debug::run_ended.
RunEnded(s) ==
  /\ Goes(s, "last", "out")
  /\ paused' = FALSE
  /\ step' = 0
  /\ armed' = Armed(FALSE, breakpoint)
  /\ UNCHANGED <<active, stopAsked, breakpoint, mine, ran>>

-----------------------------------------------------------------------------
(* The editor *)

\* set_breakpoint and clear_breakpoints.
SetBreakpoint(on) ==
  /\ breakpoint' = on
  /\ armed' = Armed(paused, on)
  /\ UNCHANGED <<pc, active, stopAsked, paused, step, mine, ran>>

Pause ==
  /\ paused' = TRUE
  /\ armed' = Armed(TRUE, breakpoint)
  /\ ran' = IF paused THEN ran ELSE Nobody
  /\ UNCHANGED <<pc, active, stopAsked, breakpoint, step, mine>>

Resume ==
  /\ paused' = FALSE
  /\ step' = 0
  /\ armed' = Armed(FALSE, breakpoint)
  /\ UNCHANGED <<pc, active, stopAsked, breakpoint, mine, ran>>

Step ==
  /\ step < MaxStep
  /\ step' = step + 1
  /\ paused' = TRUE
  /\ armed' = Armed(TRUE, breakpoint)
  /\ ran' = Nobody
  /\ UNCHANGED <<pc, active, stopAsked, breakpoint, mine>>

\* The strand is stopped, by whoever may.
StopStrand(s) ==
  /\ s \in active /\ ~stopAsked[s]
  /\ stopAsked' = [stopAsked EXCEPT ![s] = TRUE]
  /\ UNCHANGED <<pc, active, debug, mine, ran>>

-----------------------------------------------------------------------------

Strand(s) ==
  \/ Begin(s) \/ Pass(s) \/ Sample(s) \/ BeginWait(s) \/ EndWait(s)
  \/ End(s) \/ RunEnded(s)

Editor == (\E on \in BOOLEAN : SetBreakpoint(on)) \/ Pause \/ Resume \/ Step

DebugNext == Editor \/ \E s \in DebugStrand : Strand(s) \/ StopStrand(s)

DebugSpec == DebugInit /\ [][DebugNext]_debugVars

\* A waiting strand wakes every 50 ms and looks.
DebugFairness == \A s \in DebugStrand : WF_debugVars(BeginWait(s) \/ EndWait(s))

FairDebugSpec == DebugSpec /\ DebugFairness

-----------------------------------------------------------------------------
(* Properties *)

\* ARMED is "Set while anything could make a strand stop" (debug.rs:41): also in
\* the time between a breakpoint's hit, which does not write it, and the moment
\* the strand is listed as waiting, whatever is set and cleared meanwhile.
ArmedWhenNeeded == paused \/ breakpoint => armed

\* "Lets each waiting strand of `macro_id` run one block, then stop again"
\* (debug.rs:114): while the macro stays paused, no strand runs more than one
\* block after a step, and none more than the one it was at after a pause, even
\* if the step came before the strand had begun to wait.
OneBlockPerStep == paused => \A s \in DebugStrand : ran[s] <= 1

\* "until resumed, stepped or `stopped`" (debug.rs:203): a stopped strand stops
\* waiting however long the macro is paused, and none waits for ever in a macro
\* that stays unpaused.
WaitsEnd ==
  \A s \in DebugStrand :
    /\ stopAsked[s] ~> pc[s] # "waiting"
    /\ <>[](~paused) => []<>(pc[s] # "waiting")

=============================================================================
