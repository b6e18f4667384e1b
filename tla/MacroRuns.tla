------------------------------ MODULE MacroRuns ------------------------------
(***************************************************************************)
(* The life of macro runs: who starts one, the registry of stop flags, and *)
(* who ends it.                                                            *)
(*                                                                         *)
(* Source: blockwork-core/src/macros/run_registry.rs and calls.rs,         *)
(* blockwork-app/src/macro_runs.rs, macros_thread.rs, scheduled_run.rs and *)
(* the Run, Stop and Emergency stop commands.                              *)
(*                                                                         *)
(* A run is a slot that is used again when its run is over.  What the run  *)
(* does in between is the business of Strands and BlockRunner; here its    *)
(* strands call other macros, all at once if they like, and it returns     *)
(* when none of them is in a call.                                         *)
(***************************************************************************)
EXTENDS Naturals, FiniteSets

CONSTANTS
  Runs,         \* BOUND: runs at the same time
  Macros,
  MAX_RUNS,     \* the constant of calls.rs
  RunStrand,    \* BOUND: the strands of a run that call at the same time
  None

Kind == {"button", "hotkey", "fired", "called", "cli"}

ASSUME MacroRunsAssumption ==
  /\ IsFiniteSet(Runs)
  /\ MAX_RUNS \in Nat \ {0}
  /\ IsFiniteSet(RunStrand)
  /\ None \notin Runs \union Macros \union Kind

VARIABLES
  pc,               \* where the thread of the run is
  kind,             \* who started the run
  macro,            \* the macro it runs
  registered,       \* runs whose flag is in ACTIVE_RUNS
  guards,           \* hotkey runs whose playback_guard is in ACTIVE_RUNS
  flag,             \* the stop flag: TRUE while the run may go on
  calling,          \* strands between calls::start's count and the host's start
  waiting,          \* the run that the Run macro block of a strand waits for
  isLooping,        \* AppState.is_looping
  triggersPaused,   \* AppState.triggers_paused
  stopper           \* the stop command between its two halves

run == <<pc, kind, macro, registered, guards, flag>>
app == <<isLooping, triggersPaused, stopper>>
vars == <<run, calling, waiting, app>>

\* idle -> spawned -> guarded | idle -> fired -> checked, then running ->
\* over -> unregistered -> persisted (-> cleared) -> idle
Place == {"idle", "spawned", "guarded", "fired", "checked",
          "running", "over", "unregistered", "persisted", "cleared"}

Kinds(place) ==
  CASE place = "idle"                     -> {None}
    [] place \in {"fired", "checked"}     -> {"fired"}
    [] place \in {"guarded", "cleared"}   -> {"hotkey"}
    [] place = "spawned"                  -> Kind \ {"fired"}
    [] OTHER                              -> Kind

Strand == Runs \X RunStrand

\* The strand is in no call.
StrandFree(s) == s \notin calling /\ waiting[s] = None

NoStrandCalls(r) == \A i \in RunStrand : StrandFree(<<r, i>>)

\* Types, and that a run is where its kind of run goes and calls and waits only
\* while its blocks run.
TypeOK ==
  /\ pc \in [Runs -> Place]
  /\ \A r \in Runs : kind[r] \in Kinds(pc[r])
  /\ kind \in [Runs -> Kind \union {None}]
  /\ macro \in [Runs -> Macros \union {None}]
  /\ registered \subseteq Runs
  /\ guards \subseteq Runs
  /\ flag \in [Runs -> BOOLEAN]
  /\ calling \subseteq Strand
  /\ waiting \in [Strand -> Runs \union {None}]
  /\ \A r \in Runs : pc[r] # "running" => NoStrandCalls(r)
  /\ isLooping \in BOOLEAN
  /\ triggersPaused \in BOOLEAN
  /\ stopper \in {"none", "loop", "emergency"}

Init ==
  /\ pc = [r \in Runs |-> "idle"]
  /\ kind = [r \in Runs |-> None]
  /\ macro = [r \in Runs |-> None]
  /\ registered = {}
  /\ guards = {}
  /\ flag = [r \in Runs |-> FALSE]
  /\ calling = {}
  /\ waiting = [s \in Strand |-> None]
  /\ isLooping = FALSE
  /\ triggersPaused = FALSE
  /\ stopper = "none"

-----------------------------------------------------------------------------
(* The registry *)

\* count(): the entries of ACTIVE_RUNS.
Count == Cardinality(registered) + Cardinality(guards)

\* begin_macro_run: a fresh flag.
BeginRun(r) ==
  /\ registered' = registered \union {r}
  /\ flag' = [flag EXCEPT ![r] = TRUE]

\* Mutant of Entry: the entry is looked up by its macro.
M_EntryOfMacro(r) == {q \in registered : macro[q] = macro[r]}

\* end_run takes the entry out that holds the run's own flag.
Entry(r) == {r}

\* What stop_macro and stop_all do to the flags of the entries in `some`.
Cleared(some) == [r \in Runs |-> flag[r] /\ r \notin some]

OfMacro(m) == {r \in registered : macro[r] = m}

-----------------------------------------------------------------------------
(* Starting a run *)

Goes(r, from, to) ==
  /\ pc[r] = from
  /\ pc' = [pc EXCEPT ![r] = to]

\* A slot for a new run: no block waits for the run that used it before.
New(r, k, m, place) ==
  /\ \A s \in Strand : waiting[s] # r
  /\ Goes(r, "idle", place)
  /\ kind' = [kind EXCEPT ![r] = k]
  /\ macro' = [macro EXCEPT ![r] = m]

\* run_open_macro.
Press(r, m) ==
  /\ New(r, "button", m, "spawned")
  /\ isLooping' = TRUE
  /\ UNCHANGED <<registered, guards, flag, calling, waiting, triggersPaused,
                 stopper>>

\* The slot is free again.
Forget(r, place) ==
  /\ Goes(r, place, "idle")
  /\ kind' = [kind EXCEPT ![r] = None]
  /\ macro' = [macro EXCEPT ![r] = None]
  /\ flag' = [flag EXCEPT ![r] = FALSE]

\* run_open_macro gets no thread.
SpawnFails(r) ==
  /\ kind[r] = "button"
  /\ Forget(r, "spawned")
  /\ isLooping' = FALSE
  /\ UNCHANGED <<registered, guards, calling, waiting, triggersPaused, stopper>>

\* The Run hotkeys: run_macro_task; its conditions hold.
Hotkey(r, m) ==
  /\ New(r, "hotkey", m, "spawned")
  /\ isLooping' = TRUE
  /\ UNCHANGED <<registered, guards, flag, calling, waiting, triggersPaused,
                 stopper>>

\* The blocking task of run_macro_task.
Guard(r) ==
  /\ kind[r] = "hotkey"
  /\ Goes(r, "spawned", "guarded")
  /\ guards' = guards \union {r}
  /\ UNCHANGED <<kind, macro, registered, flag, calling, waiting, app>>

\* A watcher or the webhook fires a strand.
Fire(r, m) ==
  /\ New(r, "fired", m, "fired")
  /\ UNCHANGED <<registered, guards, flag, calling, waiting, app>>

\* The thread reads triggers_paused and the macro under the state lock.
ChecksPaused(r) ==
  /\ ~triggersPaused
  /\ Goes(r, "fired", "checked")
  /\ UNCHANGED <<kind, macro, registered, guards, flag, calling, waiting, app>>

\* Triggers are paused, or the conditions, asked without the lock, forbid it.
FiresNothing(r) ==
  /\ \/ triggersPaused /\ Forget(r, "fired")
     \/ Forget(r, "checked")
  /\ UNCHANGED <<registered, guards, calling, waiting, app>>

\* begin_macro_run on the run's own thread.
Begin(r) ==
  /\ \/ kind[r] = "button" /\ Goes(r, "spawned", "running")
     \/ Goes(r, "guarded", "running")
     \/ Goes(r, "checked", "running")
  /\ BeginRun(r)
  /\ UNCHANGED <<kind, macro, guards, calling, waiting, app>>

\* macro_runs::start: registered before the thread starts.
HostStart(r, k, m) ==
  /\ New(r, k, m, "spawned")
  /\ BeginRun(r)

\* `blockwork run`.
CommandLine(r, m) ==
  /\ HostStart(r, "cli", m)
  /\ UNCHANGED <<guards, calling, waiting, app>>

\* The thread of a run that macro_runs::start registered.
BeginStarted(r) ==
  /\ kind[r] \in {"called", "cli"}
  /\ Goes(r, "spawned", "running")
  /\ UNCHANGED <<kind, macro, registered, guards, flag, calling, waiting, app>>

-----------------------------------------------------------------------------
(* A strand at a Run macro or a Stop macro block *)

\* Mutant of MayCall: one run too many.
M_OneMore == Count <= MAX_RUNS

MayCall == Count < MAX_RUNS

\* calls::start counts the runs ...
CallCounts(p, i) ==
  /\ pc[p] = "running" /\ flag[p]
  /\ StrandFree(<<p, i>>)
  /\ MayCall
  /\ calling' = calling \union {<<p, i>>}
  /\ UNCHANGED <<run, waiting, app>>

\* ... and then has the host start one more.
CallStarts(p, i, r, m, wait) ==
  /\ <<p, i>> \in calling
  /\ HostStart(r, "called", m)
  /\ calling' = calling \ {<<p, i>>}
  /\ waiting' = IF wait THEN [waiting EXCEPT ![<<p, i>>] = r] ELSE waiting
  /\ UNCHANGED <<guards, app>>

\* The macro is gone, there is no emulator, or no thread (end_run).
CallFails(p, i) ==
  /\ <<p, i>> \in calling
  /\ calling' = calling \ {<<p, i>>}
  /\ UNCHANGED <<run, waiting, app>>

\* A strand that waits goes on.
LeavesWait(s) ==
  /\ waiting[s] # None
  /\ waiting' = [waiting EXCEPT ![s] = None]

WaitOver(p, i) ==
  /\ LeavesWait(<<p, i>>)
  /\ pc[waiting[<<p, i>>]] = "idle"
  /\ UNCHANGED <<run, calling, app>>

\* Mutant of Awaited: nobody stops the run that is waited for.
M_LeavesCallee(s) == {}

\* "Stopping this run stops the one it's waiting on too."
Awaited(s) == OfMacro(macro[waiting[s]])

WaitStopped(p, i) ==
  /\ LeavesWait(<<p, i>>)
  /\ ~flag[p] /\ pc[waiting[<<p, i>>]] # "idle"
  /\ flag' = Cleared(Awaited(<<p, i>>))
  /\ UNCHANGED <<pc, kind, macro, registered, guards, calling, app>>

\* A Stop macro block, `blockwork stop`, or the debugger's stop.
StopMacro(m) ==
  /\ flag' = Cleared(OfMacro(m))
  /\ UNCHANGED <<pc, kind, macro, registered, guards, calling, waiting, app>>

-----------------------------------------------------------------------------
(* Ending runs *)

\* limit_run's thread: the time is up; or a block of the run stops all of it.
LimitRun(r) ==
  /\ pc[r] = "running" /\ flag[r]
  /\ flag' = [flag EXCEPT ![r] = FALSE]
  /\ UNCHANGED <<pc, kind, macro, registered, guards, calling, waiting, app>>

\* The first half of a stop command: stop_all.
StopAll(who) ==
  /\ stopper = "none"
  /\ stopper' = who
  /\ flag' = Cleared(registered)
  /\ UNCHANGED <<pc, kind, macro, registered, guards, calling, waiting,
                 isLooping, triggersPaused>>

\* The second half, under the state lock.
StopState ==
  /\ stopper # "none"
  /\ stopper' = "none"
  /\ isLooping' = FALSE
  /\ triggersPaused' = (triggersPaused \/ stopper = "emergency")
  /\ UNCHANGED <<run, calling, waiting>>

ResumeTriggers ==
  /\ triggersPaused
  /\ triggersPaused' = FALSE
  /\ UNCHANGED <<run, calling, waiting, isLooping, stopper>>

\* run_with or run_fired_strand returns: no strand is in a call.
Returns(r) ==
  /\ NoStrandCalls(r)
  /\ Goes(r, "running", "over")
  /\ UNCHANGED <<kind, macro, registered, guards, flag, calling, waiting, app>>

\* end_run; nobody looks at the flag any more.
EndRun(r) ==
  /\ Goes(r, "over", "unregistered")
  /\ registered' = registered \ Entry(r)
  /\ flag' = [flag EXCEPT ![r] = FALSE]
  /\ UNCHANGED <<kind, macro, guards, calling, waiting, app>>

\* persist_variables or persist_fired_variables.
Persist(r) ==
  /\ Goes(r, "unregistered", "persisted")
  /\ UNCHANGED <<kind, macro, registered, guards, flag, calling, waiting, app>>

\* The thread of a called or fired run ends; waiting blocks see its done flag.
Done(r) ==
  /\ kind[r] \in {"called", "cli", "fired"}
  /\ Forget(r, "persisted")
  /\ UNCHANGED <<registered, guards, calling, waiting, app>>

\* Mutant of LoopOver: a hotkey run leaves the flag to the stop command.
M_KeepsLooping(r) == isLooping /\ kind[r] = "hotkey"

LoopOver(r) == FALSE

\* into_single_run_task clears is_looping.
ClearLooping(r) ==
  /\ isLooping' = LoopOver(r)
  /\ \/ /\ kind[r] = "button"
        /\ Forget(r, "persisted")
     \/ /\ kind[r] = "hotkey"
        /\ Goes(r, "persisted", "cleared")
        /\ UNCHANGED <<kind, macro, flag>>
  /\ UNCHANGED <<registered, guards, calling, waiting, triggersPaused, stopper>>

\* run_macro_task takes its playback_guard out.
EndGuard(r) ==
  /\ Forget(r, "cleared")
  /\ guards' = guards \ {r}
  /\ UNCHANGED <<registered, calling, waiting, app>>

-----------------------------------------------------------------------------

\* What the threads of r do.
Thread(r) ==
  \/ Guard(r) \/ ChecksPaused(r) \/ FiresNothing(r) \/ Begin(r)
  \/ BeginStarted(r) \/ LimitRun(r) \/ Returns(r)
  \/ EndRun(r) \/ Persist(r) \/ Done(r) \/ ClearLooping(r) \/ EndGuard(r)

\* What a strand of p does at a block that runs another macro.
Calls(p, i) ==
  \/ CallCounts(p, i) \/ CallFails(p, i) \/ WaitOver(p, i) \/ WaitStopped(p, i)
  \/ \E q \in Runs, m \in Macros, wait \in BOOLEAN : CallStarts(p, i, q, m, wait)

Next ==
  \/ \E r \in Runs, m \in Macros :
       Press(r, m) \/ Hotkey(r, m) \/ Fire(r, m) \/ CommandLine(r, m)
  \/ \E r \in Runs : Thread(r) \/ SpawnFails(r)
  \/ \E p \in Runs, i \in RunStrand : Calls(p, i)
  \/ \E m \in Macros : StopMacro(m)
  \/ \E who \in {"loop", "emergency"} : StopAll(who)
  \/ StopState
  \/ ResumeTriggers

Spec == Init /\ [][Next]_vars

-----------------------------------------------------------------------------
(* Properties *)

\* Stop reaches every run: from the moment it runs blocks, and for a called run
\* from the call on ("so the macro already counts as running when this
\* returns", macro_runs.rs:71), until it has returned its flag is in the
\* registry, whatever other runs of the same macro end meanwhile; afterwards
\* nothing is left there that counts as a run or would be stopped.
RegistryIsExact ==
  /\ \A r \in Runs : r \in registered <=>
       \/ pc[r] \in {"running", "over"}
       \/ pc[r] = "spawned" /\ kind[r] \in {"called", "cli"}
  /\ \A r \in guards : kind[r] = "hotkey" /\ pc[r] # "spawned"

Called == {r \in registered : kind[r] = "called"}

\* "so a macro that runs itself can't spawn threads without end" (calls.rs:17):
\* the runs that blocks start stay bounded although every strand of every run
\* may read their number before any of them starts one more.
CallsBounded ==
  Cardinality(Called) <= (Cardinality(RunStrand) + 1) * (MAX_RUNS - 1)

\* "Stopping this run stops the one it's waiting on too" (system.rs:113): a Run
\* macro block that waits lets its strand go on only when the run it started has
\* ended or has been told to stop, also when that one waits for another itself.
StopReachesCallee ==
  [][\A s \in Strand : waiting[s] # None /\ waiting'[s] = None
       => pc[waiting[s]] = "idle" \/ ~flag'[waiting[s]]]_vars

\* The window shows a run in progress only while a pressed or hotkey run is:
\* however starts, ends and stops interleave, the flag is not left set.
LoopingMeansARun ==
  isLooping => \E r \in Runs : pc[r] # "idle" /\ kind[r] \in {"button", "hotkey"}

\* "Set by the emergency stop; watchers fire nothing until it's cleared"
\* (state.rs:109): no fired run begins while triggers are paused.
NothingFiresWhilePaused ==
  [][triggersPaused /\ triggersPaused' =>
       \A r \in Runs : kind[r] = "fired" /\ pc'[r] = "running"
                         => pc[r] = "running"]_vars

=============================================================================
