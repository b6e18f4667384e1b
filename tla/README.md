# Blockwork in TLA+

TLA+ models of Blockwork, the macro recorder and block editor in this repository, with
TLC configurations that check them on small instances and TLAPS proofs for all instances.
Paths below are relative to the repository; `core`, `app`, `daemon`, `model`, `qt`, `ffi`
stand for `blockwork-core/src` and so on.

    tlc -workers 2 -config Components.cfg MCComponents   # one run of section 4
    tlapm GateProofs.tla                                 # one proof module of section 6

## 1. The system

Blockwork is a **daemon** that runs macros and an **editor** (Qt) that connects to it over a
local socket. A *macro* is a document of *strands*: lists of blocks (press a key, wait, if,
repeat, call a custom block, run another macro, send a signal ...). A *run* executes strands
of a macro side by side, one operating system thread each. Runs are started by the Run
button, by hotkeys, by watchers (time, file, window, battery, webhook ...), by blocks of other
runs, by the command line and by a host program that embeds the engine, and all of them may be
stopped at any moment.

| Component | State it keeps | Operations | Interacts through | What makes it correct |
|---|---|---|---|---|
| Named locks, `core/macros/locks.rs` | `LOCKS`: owner and depth of each name; a condition variable | `acquire`, guard drop, `is_held` | WithLock blocks of all runs | mutual exclusion, exact depth, no lost wake-up, a stop ends the wait |
| Strands of a run, `core/macros/runner.rs`, `runner/stop.rs`, `system.rs`, `input.rs` | run flag, a flag per strand, the list of siblings; thread handles; pressed keys | fork, join, stop this/other/all, press, release, clean-up | flags shared with the registry, emulator mutex | stops reach everybody, threads end inside out, nothing is left pressed |
| Block interpreter, `core/macros/runner.rs`, `runner/control.rs` | recursion of `run_block`, `try_depth`, `param_env`, `branch_env`, loop count | every block | checkpoint, stop flag, run log | errors, returns and loop control unwind exactly; recursion and loops are bounded |
| Run registry and run control, `core/macros/run_registry.rs`, `calls.rs`, `app/macro_runs.rs`, `macros_thread.rs`, `scheduled_run.rs`, `app/commands/running.rs`, `hotkey_actions.rs` | `ACTIVE_RUNS`, `is_looping`, `triggers_paused` | begin, end, stop one/all, call, wait, time limit, emergency stop | state lock, run flags | a stop finds every run, calls stay bounded, nothing fires while paused |
| Macro files, `core/config/persistence.rs` | `Saves` (queue, writing lock), files, temporary files, `MACRO_CACHE` | `save_soon`, save thread, `save`, `flush_saves`, `remove` | state lock, exit of the daemon | newest version wins, no edit is lost, a copy survives a crash |
| Debugger and trace, `core/macros/debug.rs`, `trace.rs` | breakpoints, pause and step per macro, waiting strands, `ARMED`, `ACTIVE` | checkpoint, pause, resume, step, breakpoints, run_ended | every block of every strand | no checkpoint is skipped, one block per step, waits end |
| Permissions and prompts, `core/permissions.rs`, `prompt.rs`, `daemon/prompt.rs` | grants, answers of the runs, `ASKING`, `SHOWING` | check, ask, answer, run_ended | strands, a dialog process | one question per ability, answers end with the runs, a stop ends the wait |
| Host clock, `core/macros/host_clock.rs`, `ffi/lib.rs` | virtual time, sleeping strands, number of living ones, emitted input | begin, finish, attach, detach, wait_until, step, push | strands, the host program | a step returns when all strands are parked past it, and hands out its interval |
| The open macro and recording, `app/state.rs`, `dispatch.rs`, `commands/*`, `model/editing.rs`, `core/recording` | open macro, list, undo and redo; phase, countdown generation, captured events | commands one after the other, each under the state lock; hook, countdowns, signals | saves, queue signals from the hook's thread | list, file and open copy agree; undo restores; a recording lands in one macro, once |
| Watchers, `app/watch/*` | per watcher a baseline; the time watcher's last firings and last tick | poll and fire | state lock, run control | fire once per occasion, catch up at most once |
| Connection of the editor, `daemon/server.rs`, `qt/app_bridge.rs`, `daemon_client.rs` | broadcast, the editor's slot, bounded queues, wake flag | publish, connect, forward, snapshot, poll | socket, backend events, Qt event loop | one editor; it ends up showing the newest state |
| The rest: settings, macro model, values, desktop blocks, input backends, screen and windows, browser, secrets, updater, web build, importers | see section 7 | | | |

**Locks and threads.** The process has one big lock (`SharedState`), which a command holds from
its first step to its last (deleting a macro takes it twice, and what a hotkey, a trigger or the
end of a run reads or saves lies partly outside it), and many small ones, each held for a few
lines: `ACTIVE_RUNS`, every run's flag, `LOCKS`, the debugger's `STATE`, the trace's `ACTIVE`,
`Saves.queue`, `Saves.writing`, the siblings list of a run, the host clock's `State`; two are
held while a user thinks, `ASKING` and `SHOWING`. A step of a model is a critical section of the
lock that guards what it changes; where the code gives a lock up and takes it again, or reads
before it locks, there are two steps.

**What is hard.** Almost everything interesting is two threads in an order nobody wrote a test
for: a stop that meets a fork, a save that meets an older copy of the same macro, a pause that
meets a strand between looking and waiting, an emergency stop that meets a trigger between its
check and its registration, a recording that is stopped by the hook, by a button and by a
countdown that wakes late, a question that is answered while others wait to ask it. After that:
unwinding (errors, returns, loop control and stops out of any nest of lists), bounds that are
read in one step and used in another, ticks of a clock that come late or after a sleep, bounded
queues that drop, releases and renames that fail, and a process that may die between removing a
file and putting the new one in place. `PROJECT.json` lists the hazards at their lines with the
properties that watch them, or the reason none does.

## 2. Modules

| Module | Models | State and actions |
|---|---|---|
| `NamedMutex` | what named locks promise: one holder per name | `owner`; Enter, Leave |
| `NamedLocks` | `locks.rs`, WithLock | `held` is the `LOCKS` map, `guards` the guards alive on the stacks; Ask, Acquire, Nap (wait_timeout), PollOver, GiveUp, Drop, Stop |
| `Strands` | one run's threads | `run`, `local`, `siblings`, `mutex` are `StrandStop`; `batch` and `signals` the join handles; `tracked` what `run_strand` remembers to release, `down` what is held, `refused` what a clean-up could not release; a block in `command` waits for what no flag ends; one action per block that matters, other blocks are one step |
| `BlockRunner` | one strand's interpreter | `stack` is the recursion of `run_block`, one frame per call with the block that waits for it and, as history, the branch the call was given (`given`); Enter*, *Returned, one action per control block |
| `MacroRuns` | starting, registering, calling and stopping runs | `registered` and `guards` are `ACTIVE_RUNS`, `flag` the run flags; a run's thread is `pc`, with a place for each point where it has looked at something and not yet acted; every strand of it may be in a call of its own (`calling`, `waiting`) |
| `MacroStore` | what saving promises: each macro's file only moves on to newer versions | `stored` |
| `SaveQueue` | `persistence.rs` and its callers | `queue`, `writing`, `disk`, `tmp`; threads Saver, App (the holder of the state lock), Outside, Exit and the ends of runs; `doomed` is the macro a command is removing; Edit, ChangeAndSave, Delete and BeginFlush begin, the steps of save, flush and write_macro_file follow, each of which may fail (WriteFails, ReplaceFails); RemoveFile or RemoveFails ends a removal, ReadNeighbour and OpenCopy are a hotkey that opens what it read |
| `Debugger` | `debug.rs` and the trace's last-strand rule | `paused`, `step`, `armed`; a checkpoint is Pass, or Sample, BeginWait, EndWait |
| `Permissions` | `permissions.rs`, `prompt.rs`, the dialog, the trace's end | `grants` is `STORE`, `session` the answers of the runs, `asking` and `showing` the two locks; check() is Require, TakeTurn, Show, Answer, StoreAnswer, and LeaveTrace, ForgetAnswers end a strand |
| `HostClock` | `host_clock.rs` and its callers | `enabled`, `now`, `starting`, `alive`, `sleeping`, `inputs` are `State`; a step of the host is StepBegins and StepSettles or StepGivesUp, a Wait is WaitUntil and WakeUp |
| `TimeWatch` | `watch/time.rs` | `previousTick`, `lastSeen` (the saved one), `lastFired`; Tick, Close, Open |
| `EditorDocument` | the open macro, its list entry and file, undo, recording | `open`, `body`, `list`, `file`, `undone`, `redone`; `phase`, `gen`, `recording`, `captured`, `signals`; library commands, the two halves of a deletion (`deleting`), hook steps, countdowns, the task that takes signals, with the copy a hotkey has read and not yet opened (`reading`) |
| `EditorLink` | broadcast, connection, the editor's bridge | `events` and `line` are the two bounded queues, `lagged`, `wakePending`, `shown`; Publish, Forward, FellBehind, Offer, Receive or RequestTears, PollBegins, PollReads |
| `MCStrands` | three strands up to their names | an Init that leaves out renamings |
| `MCBlockRunner` | the interpreter in two shapes: lists nested two deep, and calls from calls | `shape` says which |
| `MCComponents`, `MCDaemon` | several components in one run | `part` says which one moves |
| `GateProofs` | theorems about `NamedLocks`, `Debugger` and `Permissions` | |
| `StrandsProofs`, `BlockRunnerProofs`, `MacroRunsProofs`, `SaveQueueProofs` | theorems about the module of that name | |
| `ClockProofs` | theorems about `HostClock` and `TimeWatch` | |
| `EditorProofs` | theorems about `EditorLink` and `EditorDocument` | |
| `DaemonProofs` | that the daemon's parts side by side keep their types | |

`NamedMutex` and `MacroStore` are abstract; `NamedLocks` and `SaveQueue` implement them through
the refinement mappings `Mutex` and `FileStore`. `BlockRunner`, `Strands` and `MacroRuns` are
three views of a run at decreasing detail: the interpreter is one strand whose stop flag falls
when it falls; `Strands` is one run whose strands execute some block at each pass; `MacroRuns`
is all runs, each returning when it likes. What one view leaves open is what another describes.
In the same way `EditorDocument` takes for granted that a reader of the files finds what was
queued, which `SaveQueue` shows (`CommandsSeeSaves`), and `EditorLink` numbers the changes of
the state that the other modules make.

`MCComponents` and `MCDaemon` put components that share no variable side by side and let one
of them move per behaviour, so their states are the sum and not the product of those of the
parts. They save start-up time and nothing else: each property speaks of one part. Three parts of
`MCDaemon` move in fewer ways than their modules allow, to keep the run short: one strand of each
of the three runs calls (`RunsNext`; several at once is the part `calls`), and paused triggers are
resumed before anything but a trigger has looked (`macro_runs_paused` is about the pause itself);
nobody reads the files without the state lock (`SavesNext`; `components` has those readers and the
hotkeys that open what they read); and deletions and neighbours come before the second
generation of countdowns (`EditorNext`).

Data is abstracted to what the properties tell apart. A macro's contents are a version number
(`SaveQueue`) or a set of blocks that remember where they were made (`EditorDocument`), a block
is its kind (`BlockRunner` chooses any block at any place, so that every macro within the
bounds is one of its behaviours), a key is a model value, an emitted input is its virtual time.

Definitions named `M_...` are mutants: the same operator with a plausible mistake. Each
property of a passing run fails when one of them takes the place of the original.

## 3. Abstractions to keep in mind

- `Strands`: which block comes next is open; only blocks that fork, stop, press or release are
  told apart. A press or release is atomic under the emulator's mutex. A thread that panics is
  not modelled.
- `BlockRunner`: blocks that touch the desktop are one step that succeeds (`PlainBlock`) or
  fails softly (`FailingBlock`), and their waits end. One name of a branch; `Forwarding` says
  whether a branch may contain a block that runs the same branch. Argument values are left out.
- `MacroRuns`: every strand of a run may be in a call of its own; of the strands of the program
  only those that call are told apart. A run's slot is used again afterwards.
  What the time limit's clock does is left open: it may expire whenever the run goes on.
- `SaveQueue`: a write replaces the contents at once; a kill is any state, since nothing but
  `disk` and `tmp` survives, and of these only `disk` is ever read. App holds the state lock
  from the first step of a command to its last; what a deletion looked at under an earlier lock
  is left open (any macro, which may be open by now), and a hotkey's read lies outside of it. A
  macro that is open though it was removed is kept apart (`unlisted`). The cache of read files
  and the rewriting of files of older versions are not modelled.
- `Debugger`: one macro, so `ARMED` is about that one; a second macro can only make it true
  more often. Whether a block has a breakpoint is one flag. What a checkpoint reports (the
  snapshot of variables) is left out.
- `Permissions`: a guarded block is one ability. The user may answer or never answer. A dialog
  block takes `SHOWING` only. Grants change at any time.
- `HostClock`: `Settled` is the loop's test; the 250 ms are the possibility to give up at any
  time. A strand started by a signal is never attached but detaches like the others, and its
  time starts at 0, as in the code (`core/macros/runner.rs:834`); `signalled` marks the runs in
  which that happened, and the two properties leave them out.
- `TimeWatch`: a step of time is half a minute, and ticks come at any distance, so a tick may be
  early, late or after a sleep. A day is two minutes long. A firing is noted, not run.
- `EditorDocument`: all that one recording captured is one block, named for the macro it was put
  into. The editing commands are one action. A deletion is two, with hotkeys in between but no
  other command, for the editor's come one at a time. A new macro's file, which the code writes
  before it takes the state lock, is written with the lock here.
- `EditorLink`: a state is its number, a line is read whole or torn by a request, and a torn line
  is a message without a state. What else the editor sends, and the end of the daemon with
  its editor, are left out. `Publish` is atomic under the state lock, except for
  `persist_variables`, which builds a state under the lock and sends it after: two steps.

## 4. Runs

| Run | Question | Instance | States |
|---|---|---|---|
| `components` | Are named locks exclusive, exact and alive, and do they implement `NamedMutex`? Do checkpoints, pauses and steps meet without a miss? Is everyone asked once, do answers end with the runs, does a stop end the wait? Is the save queue a `MacroStore` from which no edit is lost, and does what was queued reach the disk? | 3 strands, 2 names, nesting 2; 2 strands, 2 steps; 2 strands of up to 2 macros, 1 ability; 1 macro, 3 versions, exit, outside readers | 191 561 |
| `strands` | Do stops reach all strands, do threads end inside out, is every key released unless the backend refuses, does a stopped run return unless a command never does? | 3 strands in every split into entries and signal strands, 1 key, 1 raw code | 1 112 240 |
| `block_runner` | Does the interpreter unwind exactly, end when stopped, and end within a loop limit? | lists of 1 block, 2 attempts, limits 0 and 2; lists nested 2 deep with call depth 1, and nested 1 deep with call depth 2 | 927 853 |
| `daemon` | Is the run registry exact, are calls bounded though every strand calls, do stops reach callees? Is a copy of each file left whenever no replacement was refused? Do host steps wait for the strands? Do schedules fire once, and none missed? Does a countdown have its thread and a stopped recording its signal? Does the window end up with the newest state? | 3 runs of 2 macros with 1 strand that calls, and 4 runs of 1 macro with 2, MAX_RUNS 2; 1 file, 2 runs that end, failing writes; 2 strands, time to 2; 1 schedule over 5 minutes; 1 open macro, 2 signals, 3 generations; queues of 2, 2 changes | 1 311 036 up to symmetry |
| `save_queue_lost_edit` | (violation) Can a run's end undo an edit? | 1 macro, 1 run | |
| `save_queue_unlocked` | (violation) Can two saves destroy a file? | 1 macro, 2 runs | |
| `block_runner_forwarding` | (violation) Is recursion bounded when a branch forwards itself? | lists of 1 block | |
| `macro_runs_paused` | (violation) Does an emergency stop keep triggers from firing? | 1 run | |
| `host_clock_lost_input` | (violation) Is everything emitted handed out? | 1 strand | |
| `time_watch_once_at` | (violation) Does a Once at fire whose moment was slept over? | 1 schedule | |
| `editor_document_unsaved` | (violation) Is a recording saved however it ends? | 2 macros | |
| `editor_document_undo` | (violation) Does Undo stay in its macro? | 2 macros | |

**Why the bounds are enough.** Three strands and two names are the least for a strand that is
woken and loses the race to a third, and for two locks taken in opposite orders. Three strands
of a run are a chain (entry, child, grandchild), siblings, and a bystander. Two versions are
needed for an older copy to exist and a third for an edit after it. The interpreter only ever
looks at its innermost list and changes the counts it shares with all of them; lists nested two
deep, in the strand's own list and in a called block's, put every kind of list into every other,
with a call on either side, and one block per list is enough since a loop runs its list again
and so has any block follow any other; the second shape, with calls from calls, has a caller
that holds branches of its own, which is what `BranchesAreRestored` is about. Three runs are a
caller, its callee and an outsider that stops, ends or restarts one of them. With two strands
that call in each run and MAX_RUNS 2, the bound on called runs is 3, which four runs reach: one
that nobody called, and three that were (`MCDaemon` lets these runs of one macro move apart from
the others). Two strands that ask are one in front of the user and one in the queue, of the same
macro or of two; a third (tried by hand, 1.4 million states) shows nothing new. Two strands at
the clock are one that is parked and one on its way, and two steps of virtual time are a Wait
that ends in the next step and one that lasts beyond it. Five minutes of half-minute steps hold
a gap below, at and above the 90 seconds, a day that ends and starts again, a saved time that is
older than the last tick, and a restart. Three generations are a countdown that is stopped, the
stop's own, and its successor; two signals are a stop with another before or behind it. Queues
of two overflow in either order of states and other messages. For every module the safety
results are also proved without these bounds (section 6), for `SaveQueue` some of them without
runs that save at their end.

**Symmetry** is used where permuting runs and macros changes no definition, in the run without
liveness. `MCStrands` restricts initial states instead, which is sound for liveness as well.

**Deadlock** is not checked: a run may be over, a macro may be idle, two strands that take
two locks in opposite orders wait for each other until one is stopped, the exit ends
the process, and the bounds on time, versions and generations end a behaviour.

**Fairness.** Threads are scheduled, and nothing more, so all of it is weak, and there is one
condition per thread: a thread whose next step stays possible takes it. `NamedLocks` (`GoesOn`):
a sleeper wakes at its timeout (`wait_timeout`) and looks at the flags; a stopped strand unwinds
and drops its guards, one that is not stopped may stay in a lock for ever. `Debugger`: a strand
in a checkpoint goes on. `Strands` (`GoesOn`): a thread goes on, a block that was begun ends,
with the exception of those that wait for what no stop flag reaches: a Command (wait) block
blocks in `status()`, and a strand behind another's question in `ASKING` (`CommandWait`). Of
these nothing is assumed, and `StopEndsRun` is about runs in which they end. Dialogs, waits and
a strand's own question poll the flag. A strand that can join does. `BlockRunner`: the thread
runs, and waits inside blocks end. `Permissions` (`PromptStep`): a strand goes on when it holds
a turn or is stopped, the dialog of a stopped strand is killed; nobody is assumed to answer.
`SaveQueue`: a thread in the middle of something goes on; who of several that wait gets the
writing lock is left open. The `daemon` run states no fairness, for its properties are of
safety. No user action is ever assumed to happen.

## 5. What the checks found

- **An edit can be lost** (`save_queue_lost_edit`): the end of a run copies the macro under the
  state lock and saves the copy after it; an edit queued in between is dropped from the queue
  by that save, and the next refresh takes the older file over into memory.
- **A file can be destroyed** (`save_queue_unlocked`): until the first `save_soon` of the process
  `save` takes no lock; two runs of one macro that end together can remove the file the other
  has put in place and have nothing left to rename.
- **A branch that forwards itself has no recursion limit** (`block_runner_forwarding`):
  Run branch runs at the depth it is at, so `MAX_CALL_DEPTH` never applies.
- **A trigger can fire after an emergency stop** (`macro_runs_paused`): it has passed the check
  of `triggers_paused` and not yet registered its run.
- **Input can stay with the clock** (`host_clock_lost_input`): the run's thread disarms the
  clock as soon as the run has returned, and a disarmed clock hands out nothing: what a macro
  pressed and released after its last step never reaches the host.
- **A Once at can be missed** (`time_watch_once_at`): the tick after a gap leaves it to the
  catch-up, whose window ends a minute before the tick.
- **A recording can stay unsaved** (`editor_document_unsaved`): the stop button neither saves
  what was recorded nor copies it into the list; the stop key does both.
- **Undo can cross macros** (`editor_document_undo`): only selecting in the list clears the
  history; after a new macro or a hotkey to a neighbour, Undo puts the other macro's canvas
  here.

Everything else in the table holds, among it some results that were not obvious: the registry
stays exact although runs of one macro share an id and end in any order; runs started by
blocks are at most `(strands that call + 1) * (MAX_RUNS - 1)`, although counting and starting are
separate and every strand of every run may do so at once (`MAX_RUNS` itself is no bound: with
two strands and MAX_RUNS 2, three called runs stand beside the one that nobody called); no wake-up of
a named lock is lost; "stop other strands" reaches strands that are being forked; a step
releases a strand that has not yet begun to wait, and never for two blocks; a snapshot for an
editor that fell behind may be sent before or after newer states and the window still ends up
with the newest; a countdown that wakes late never starts a recording; a call gives back the
branches of whoever made it, however deep it was and however it was left.

**Where properties stop short**, because the code promises no more. Some of it was seen while
modelling and contradicts no comment or test:

- `NoMinuteMissed` leaves aside a distance of 60 to 90 seconds between ticks, which is no gap to
  the watcher and can step over a minute, and what is older than the catch-up looks back.
  `NoTimeTwice` is about one watcher: restarting Blockwork, or leaving and opening the macro
  again, within the minute fires again. A catch-up run of a When time counts as that date's
  run, so the date's own time is passed over after it.
- `StepWaitsForStrands` and `ExactPlayback` are about runs without signals: signal strands are
  detached at their end but never attached, so a step may return too early. A strand whose
  thread could not be started is attached and never detached, so every step times out.
- `NewestShown` speaks of when the newest state was the one sent last. `persist_variables`
  builds a state under the lock and sends it after, so an older state can be the one sent last.
  It leaves aside a snapshot that was dropped because the editor's queue was full (`missed`).
- `AnswersEndWithRuns` bounds how long an answer lives, not that it lives: an answer given to a
  run that has just begun can be forgotten by the end of the one before.
- `StoppedAskerReturns` lets a stopped strand wait in the queue for `ASKING` as long as another
  one's question is open: nothing looks at the stop flag there.
- `NothingHeldAfterRun` excepts what the backend refused to release (`refused`): `run_strand`
  tries once, warns and forgets the key, and with it all of them when the emulator's lock is
  poisoned. `HeldIsTracked` says the same of a key before the run is over.
- `StopEndsRun` assumes `CommandsEnd`; `StopEndsStrand` and `StoppedStrandLetsGo` assume in the
  same way that a block inside the strand or the lock ends. A command that never exits keeps a
  stopped run.
- `ACopySurvives` excepts a macro whose last replacement removed the old file and was refused
  the new name (`stranded`, from the failing rename): its only copy is the temporary file, which
  the next save overwrites first. A kill between removing and renaming leaves the same. No code
  reads a temporary file back: the copy that survives is there for whoever looks for it by hand.
- `EditsSurvive` excepts a macro of which a hotkey opened an older copy than was edited
  (`overtaken`): Next macro and Previous macro read the files, wait for the state lock and open
  what they read, so an edit made in between is gone from memory, and from the file at the next
  edit. What is checked is that nothing else undoes one, where files can be written.
  `CommandsSeeSaves`, `ACopySurvives` and `ExitSavesQueued` leave out a macro that is open
  though it was removed (`unlisted`): deleting looks under one lock whether the macro is open
  and deletes under another, and a hotkey in between opens it, or has the deletion hit the macro
  that is open by then. The next edit brings its file back.
- `NewestShown` excepts a state that a request of the window's tore (`torn`): `select!` drops
  the `read_line` that holds the first half of the line, and the rest is an invalid message. The
  window keeps the older state until the next change.
- `CallsBounded` counts runs; how many strands a run may have is the macro's.
- What the hook captured after the stop was decided stays in the queue and is part of the next
  recording; a run's late save brings the file of a removed macro back.

## 6. Proofs

Every invariant of a passing run, its safety action properties and both refinements are
theorems. They hold for any sets of strands, names, runs, macros and keys and any value of the
other constants, from the named assumption of each module (`LocksAssumption`,
`SaveQueueAssumption` and so on), which only say that markers such as `NoStrand` are not
members, that bounds are natural numbers, and that runs and strands of a clock are finitely
many. Where a theorem needs more, it says so in its own ASSUME and in the list below.

- `GateProofs`, named locks. Inductive invariant `LocksInv`: types and `DepthCountsGuards`, that
  an entry of the map has the depth of its owner's live guards. Mutual exclusion, the absence
  of lost wake-ups and the refinement of `NamedMutex` (initial states, then one lemma per
  action) rest on it.
- `GateProofs`, debugger. `DebuggerInv` adds `UpToDate`: a strand that was let through since the
  last pause or step and is at a checkpoint again has noted the current step. It is what keeps
  a step from releasing it again.
- `GateProofs`, permissions. `PermissionsInv` adds `TurnIsHeld`: exactly the holder of `ASKING` is
  in the part of check() it guards, so one strand at a time is between the second look and the
  stored answer, and whatever another one was answered is stored before that look.
- `StrandsProofs`. `StrandsInv` adds to the types: a living strand is in the siblings list; a
  cancelled strand's flag is down, and so is the value a fork inside it has read; a strand's
  living descendants are reachable through join handles that it or its living children still
  hold (`TreeInv` with `HandlesInv`); every strand descends from an entry. The last
  two are what makes "ends after its descendants" and "the run is last" inductive.
- `BlockRunnerProofs`. The stack is a sequence of frames. `BlockInv` says how each frame sits on
  the one below (`Shape`: only a call adds to the depth), and that `try_depth` is the number of
  try frames (`TriesCounted`, by cardinality), that a soft error has one of them below it, that
  loop control has a loop of its own call, and that `branch_env` is the branch given to the call
  the top list belongs to: every frame keeps what it was given and a call what its caller had,
  so all the frames below are described at once (`BranchesAreRestored`). What pushing, popping
  and advancing the top do to each part are lemmas that the actions cite. `RecursionIsBounded`
  assumes `~Forwarding` and adds `RoomInv`: a list at call depth d that may nest lists k deep
  stands at least k below `Bound(d) = MaxNesting + 1 + d * (2 * MaxNesting + 1)`, and a call
  whose branch has not begun keeps room for the lists of the branch as well.
- `MacroRunsProofs`. `ExactInv` ties the registry to the place of each run's thread. The bound
  on calls needs `BoundInv`, which counts the registered called runs and the strands that have
  passed the check of `MAX_RUNS` together: a call moves from one to the other, and every strand
  of every run that is registered may be among them. `FlagInv` (a raised flag is registered)
  gives that a stop reaches the callee. `LoopInv` adds that the flag of the button is up only
  while the run that will lower it works (`Working`): a run gives the flag up under the lock
  under which another may take it.
- `SaveQueueProofs`. Its invariants build on one another. `TypeInv` says where each thread may
  be and that whoever flushes holds `writing`. `MutexInv` (one writer at a time) and `CopyInv`
  (before the rename the temporary file is whole), over the macros that are listed and not
  `stranded`, give that a copy survives (`SomeCopySurvives`), though writes and renames may
  fail; it assumes `OneSaver`: no run saves at its end, or something was queued before, for
  without that two saves take no lock and `save_queue_unlocked` is the counterexample.
  `RemovalInv`: what is queued, drained or written is of macros that are there, and while a
  command reads or removes, nothing is on its way. `OrderInv` puts what is stored, what is being
  written, what is drained and what is queued of a macro in the order of their versions, so a
  file only moves on: the refinement of `MacroStore`, where an edit is Change, the rename Store,
  the end of a removal Remove, and a hotkey that opens the copy of a macro removed meanwhile
  Reopen. `KeptInv` follows one version from the edit to the file: in the queue, or drained by a
  thread that goes on to write it, or in a job, or in the file (`Held`), and whoever flushes has
  it behind him when the flush is over. It speaks of every macro, open or removed, so that one
  that is opened again fits in; what is in memory is compared only outside `overtaken`. It gives
  that edits outlive a refresh, that a reader sees what was edited before, and that the exit
  loses nothing. The removal, the refinement and the last three assume `EndingRun = {}`, for a
  run that ends saves an older copy over all of it (`save_queue_lost_edit`, and section 5 for
  the removed file that comes back); the last three also `IoFails = FALSE`, for a file that
  cannot be written holds nothing new.
- `ClockProofs`, the host's clock. `ClockInv` counts the living strands by cardinality: without
  signals they are at most `alive`, and exactly as many while every thread could be started
  (`CountCovers`), and `sleeping` is the set of the parked ones (`ParkedWait`). That step's
  comparison of two numbers means "everyone is parked" is then a fact about finite sets. For
  the playback, `InOrder` puts every living strand's time and every queued input after the
  step before.
- `ClockProofs`, schedules. `AnsweredInv`: no time that a strand has answered lies after the
  last tick, and when the minute of that tick is answered, `lastFired` remembers it. A tick
  fires for what lies after it, so nothing is answered twice (`OnceStep`); and every minute
  between two ticks is due or, behind a gap, within the catch-up (`FiresAll`), so none is missed
  (`MissedStep`).
- `EditorProofs`, the link. `LinkInv` follows the newest state: once the broadcast holds no
  state any more, and neither a snapshot is owed nor one was dropped or torn, the last state on
  its way is the newest, in the connection's queue, else in the editor's event channel, else on
  screen (`NewestUnderWay`); and what has arrived has a poll coming (`PollComes`).
- `EditorProofs`, the open macro. The limit of undo is not inductive of either list alone: a redo
  pushes without looking. `HistoryTypes` bounds both together. `CountdownIsAlive` and
  `StopIsOnItsWay` are inductive with the types: no thread has a generation that was not yet
  counted, and the task takes the signals from the front and leaves a stop where it is.
- `DaemonProofs`. Whatever part of `MCDaemon` moves, every other takes a stuttering step of its
  own, so the three type invariants that `DaemonTypeOK` conjoins hold there.

Only model-checked: liveness (`StoppedStrandLetsGo`, `StopEndsRun`, `QueuedReachesDisk`,
`StopEndsStrand`, `LimitEndsStrand`, `WaitsEnd`, `StoppedAskerReturns`), because the prover has
neither fairness nor ENABLED. Induction over data is out of the prover's reach, so the lemmas
about sets of runs, strands and frames use cardinality and no recursive definition; modules with
theorems declare no RECURSIVE operator.

## 7. Not modelled

- **Of modelled components.** `MACRO_CACHE`, whose staleness depends on the file system's clock;
  the upgrade of files of older versions; the quit of the daemon with its editor and what an
  editor sends; how an event becomes a block, with the held modifiers and the pauses in
  between; the watchers other than the time watcher, which compare one reading with the one
  before; the clock of the time limit; panics.
- **Settings.** One file that is loaded, changed and written without a lock. Two changes at once
  can lose one; nothing in the code or the tests speaks of two at once, so a model would be
  checked against nothing but itself.
- **Schedules, typed text, values and expressions, the macro model and block packs, importers.**
  Pure functions of documents, floats and text with unit tests of their own. A bounded
  instance would be one more enumeration of such tests, and their recursion over data is
  beyond the prover.
- **Webhooks, browser control, community packs, updater.** Requests to other programs; the firing
  of a webhook is an action of `MacroRuns`.
- **Secrets, globals, run log.** Maps behind one lock each, every operation atomic.
- **Daemon process, FFI and Wine bridge, thread pool, web build.** Start-up, event loop and
  forwarding; the flush at exit is in `SaveQueue`, the clock's entry points in `HostClock`.
- **Input backends, screen and windows, detection, desktop blocks, system services, drawing
  (QML).** Calls to other systems or numeric code with no interleaving of their own; to the
  interpreter each is a block that ends or fails.

`PROJECT.json` lists each with its sources.
