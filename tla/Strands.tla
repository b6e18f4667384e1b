------------------------------- MODULE Strands -------------------------------
(***************************************************************************)
(* One run of a macro: blockwork-core/src/macros/runner.rs (run_entries,   *)
(* run_strand, run_block's stop check), runner/stop.rs (StrandStop),       *)
(* SendSignal of runner/system.rs, the stop blocks of runner/control.rs    *)
(* and the press and release blocks of runner/input.rs.                    *)
(*                                                                         *)
(* Every strand is a thread.  Entry strands are forked before the run      *)
(* starts; a SendSignal block forks and starts further strands, and either *)
(* joins them on the spot or leaves them to the join at the strand's end.  *)
(* Which blocks a strand runs is left open: each pass of run_block's loop  *)
(* checks the stop flags and then executes some block.                     *)
(***************************************************************************)
CONSTANTS
  Strand,       \* BOUND: the strands a run can have, entries and signals
  Input,        \* the keys and mouse buttons the macro presses
  Raw,          \* the keycodes it presses as such (InputToken::Raw)
  NoStrand      \* nobody holds the siblings mutex

ASSUME StrandsAssumption == NoStrand \notin Strand /\ Input \intersect Raw = {}

VARIABLES
  run,          \* StrandStop.run: the flag the app and every strand share
  local,        \* StrandStop.local of each strand
  siblings,     \* StrandStop.siblings: the strands with a live Weak in it
  mutex,        \* who holds the siblings mutex
  sample,       \* what a strand inside fork() read for its child's flag
  pc,           \* where each strand is
  batch,        \* the threads started by the SendSignal being executed
  signals,      \* ExecCtx.signal_threads
  tracked,      \* ExecCtx.pressed_keys and pressed_buttons
  down,         \* what the input backend physically holds down
  refused,      \* history: held inputs a strand's clean-up could not release
  over,         \* run_entries returned: the run is over for its caller
  cancelled,    \* history: strands a "stop other strands" block was aimed
                \* at, and the strands those started since
  descendants   \* history: the strands each strand started, at any remove

vars == <<run, local, siblings, mutex, sample, pc, batch, signals, tracked,
          down, refused, over, cancelled, descendants>>

PC == {"unborn",    \* no such strand yet
       "forked",    \* its StrandStop exists, its thread does not run yet
       "checking",  \* at the top of run_block's loop
       "block",     \* past the stop check, about to execute a block
       "command",   \* in a block that waits for what no stop flag reaches
       "sampled",   \* in fork(), holding the siblings mutex
       "sending",   \* in SendSignal, between two receivers
       "joining",   \* in SendSignal with wait: joins what it started
       "draining",  \* run_block returned: joins signal_threads
       "cleanup",   \* releases what it still holds
       "over"}      \* thread ended, StrandStop dropped

Alive(s) == pc[s] \notin {"unborn", "over"}

Over(s) == pc[s] = "over"

Entries == {s \in Strand : pc[s] # "unborn" /\
                           \A t \in Strand : s \notin descendants[t]}

\* Mutant of StopRequested: only the strand's own flag counts.
M_IgnoresRun(s) == ~local[s]

StopRequested(s) == ~run \/ ~local[s]

TypeOK ==
  /\ run \in BOOLEAN
  /\ local \in [Strand -> BOOLEAN]
  /\ siblings \subseteq Strand
  /\ mutex \in Strand \union {NoStrand}
  /\ sample \in [Strand -> BOOLEAN]
  /\ pc \in [Strand -> PC]
  /\ batch \in [Strand -> SUBSET Strand]
  /\ signals \in [Strand -> SUBSET Strand]
  /\ tracked \in [Strand -> SUBSET Input]
  /\ down \subseteq Input \union Raw
  /\ refused \subseteq Input
  /\ over \in BOOLEAN
  /\ cancelled \subseteq Strand
  /\ descendants \in [Strand -> SUBSET Strand]
  /\ \A s \in Strand : pc[s] = "sampled" <=> mutex = s

\* run_entries up to its thread::scope: the strands `pick` accepts have their
\* StrandStop, none of them has a thread.  With no entry there is no run.
Init ==
  /\ \E entries \in (SUBSET Strand) \ {{}} :
       /\ pc = [s \in Strand |-> IF s \in entries THEN "forked" ELSE "unborn"]
       /\ siblings = entries
  /\ run = TRUE
  /\ local = [s \in Strand |-> TRUE]
  /\ mutex = NoStrand
  /\ sample = [s \in Strand |-> FALSE]
  /\ batch = [s \in Strand |-> {}]
  /\ signals = [s \in Strand |-> {}]
  /\ tracked = [s \in Strand |-> {}]
  /\ down = {}
  /\ refused = {}
  /\ over = FALSE
  /\ cancelled = {}
  /\ descendants = [s \in Strand |-> {}]

-----------------------------------------------------------------------------
(* Threads *)

Goto(s, to) == pc' = [pc EXCEPT ![s] = to]

flags == <<run, local, siblings, mutex, sample, cancelled>>
tree == <<batch, signals, descendants>>
inputs == <<tracked, down, refused>>

\* The thread runs.
Start(s) ==
  /\ pc[s] = "forked"
  /\ Goto(s, "checking")
  /\ UNCHANGED <<flags, tree, inputs, over>>

\* The thread could not be spawned: a warning, and the closure is dropped,
\* its StrandStop with it: the Weak in the siblings list is void from now on.
SpawnFails(s) ==
  /\ pc[s] = "forked"
  /\ Goto(s, "over")
  /\ siblings' = siblings \ {s}
  /\ UNCHANGED <<run, local, mutex, sample, cancelled, tree, inputs, over>>

\* run_block between two blocks: go on, or leave every list it is in.
Check(s) ==
  /\ pc[s] = "checking"
  /\ Goto(s, IF StopRequested(s) THEN "draining" ELSE "block")
  /\ UNCHANGED <<flags, tree, inputs, over>>

\* The list is over, or an error reached the top of the strand.
Finish(s) ==
  /\ pc[s] \in {"checking", "block"}
  /\ Goto(s, "draining")
  /\ UNCHANGED <<flags, tree, inputs, over>>

JoinsSignals(s) == \A t \in signals[s] : Over(t)

Drained(s) ==
  /\ pc[s] = "draining"
  /\ JoinsSignals(s)
  /\ Goto(s, "cleanup")
  /\ UNCHANGED <<flags, tree, inputs, over>>

\* Mutant of StillHeld: an error or a stop skips the cleanup.
M_SkipsCleanupWhenStopped(s) == IF StopRequested(s) THEN {} ELSE tracked[s]

StillHeld(s) == tracked[s]

\* The end of run_strand releases everything under one emulator lock, what
\* another strand holds too included.  A release the backend refuses is only
\* warned of and forgotten with the strand, and so is all of it when the lock
\* is poisoned: any part of the releases may fail.
Cleanup(s) ==
  /\ pc[s] = "cleanup"
  /\ \E failed \in SUBSET StillHeld(s) :
       /\ down' = down \ (StillHeld(s) \ failed)
       /\ refused' = (refused \ StillHeld(s)) \union failed
  /\ tracked' = [tracked EXCEPT ![s] = {}]
  /\ Goto(s, "over")
  /\ siblings' = siblings \ {s}
  /\ UNCHANGED <<run, local, mutex, sample, cancelled, tree, over>>

-----------------------------------------------------------------------------
(* Input blocks.  Each holds the emulator lock throughout. *)

\* A block with no effect on this state: any other block, or an input block
\* whose event the backend refuses.
OtherBlock(s) ==
  /\ pc[s] = "block"
  /\ Goto(s, "checking")
  /\ UNCHANGED <<flags, tree, inputs, over>>

\* CommandWait blocks in the command's status(), and a block behind another
\* macro's permission question waits for ASKING: neither looks at the flags.
CommandWait(s) ==
  /\ pc[s] = "block"
  /\ Goto(s, "command")
  /\ UNCHANGED <<flags, tree, inputs, over>>

\* The command exits or the question is answered, if it ever is.
CommandEnds(s) ==
  /\ pc[s] = "command"
  /\ Goto(s, "checking")
  /\ UNCHANGED <<flags, tree, inputs, over>>

Remembered(s, ks) == tracked[s] \union ks

\* Direction::Press of a key, a combo or a button.
Press(s, ks) ==
  /\ pc[s] = "block"
  /\ down' = down \union ks
  /\ tracked' = [tracked EXCEPT ![s] = Remembered(s, ks)]
  /\ refused' = refused \ ks
  /\ Goto(s, "checking")
  /\ UNCHANGED <<flags, tree, over>>

\* Direction::Release, or a combo clicked: pressed, then released in reverse.
Release(s, ks) ==
  /\ pc[s] = "block"
  /\ down' = down \ ks
  /\ tracked' = [tracked EXCEPT ![s] = @ \ ks]
  /\ refused' = refused \ ks
  /\ Goto(s, "checking")
  /\ UNCHANGED <<flags, tree, over>>

\* Direction::Click of a single key or button: the event both presses and
\* releases it, and the strand's list of held keys is left as it was.  The
\* same of a raw keycode clicked or released.
Click(s, k) ==
  /\ pc[s] = "block"
  /\ down' = down \ {k}
  /\ refused' = refused \ {k}
  /\ Goto(s, "checking")
  /\ UNCHANGED <<flags, tree, tracked, over>>

\* A raw keycode goes to the backend as it is; no list remembers it.
RawPress(s, k) ==
  /\ pc[s] = "block"
  /\ down' = down \union {k}
  /\ Goto(s, "checking")
  /\ UNCHANGED <<flags, tree, tracked, refused, over>>

-----------------------------------------------------------------------------
(* Stop blocks *)

StopAll(s) ==
  /\ pc[s] = "block"
  /\ run' = FALSE
  /\ Goto(s, "draining")
  /\ UNCHANGED <<local, siblings, mutex, sample, cancelled, tree, inputs, over>>

StopThisStrand(s) ==
  /\ pc[s] = "block"
  /\ local' = [local EXCEPT ![s] = FALSE]
  /\ Goto(s, "draining")
  /\ UNCHANGED <<run, siblings, mutex, sample, cancelled, tree, inputs, over>>

MutexFree == mutex = NoStrand

\* The Weak references that still upgrade.
Upgraded == {t \in siblings : Alive(t)}

\* Clears every sibling's flag but its own, and the strand goes on.
StopOtherStrands(s) ==
  /\ pc[s] = "block"
  /\ MutexFree
  /\ local' = [t \in Strand |->
                 IF t \in Upgraded \ {s} THEN FALSE ELSE local[t]]
  /\ siblings' = Upgraded
  /\ cancelled' = cancelled \union ({t \in Strand : Alive(t)} \ {s})
  /\ Goto(s, "checking")
  /\ UNCHANGED <<run, mutex, sample, tree, inputs, over>>

\* The Stop button, a hotkey, the emergency stop, another macro's "stop
\* macro" block or the macro's time limit clears the run's flag.
AppStops ==
  /\ run
  /\ run' = FALSE
  /\ UNCHANGED <<local, siblings, mutex, sample, cancelled, pc, tree, inputs,
                 over>>

-----------------------------------------------------------------------------
(* SendSignal *)

\* fork(): the mutex is taken and the sender's own flags are read.  (The run
\* may still grow: the constant Strand bounds it.)
ForkBegin(s) ==
  /\ pc[s] \in {"block", "sending"}
  /\ \E c \in Strand : pc[c] = "unborn"
  /\ MutexFree
  /\ mutex' = s
  /\ sample' = [sample EXCEPT ![s] = ~StopRequested(s)]
  /\ Goto(s, "sampled")
  /\ UNCHANGED <<run, local, siblings, cancelled, tree, inputs, over>>

\* Mutant of ChildFlag: a signal strand starts with a fresh flag.
M_FreshFlag(s) == TRUE

ChildFlag(s) == sample[s]

\* fork() registers the child's flag, dropping dead ones, and the thread of
\* one receiver is about to start.
ForkEnd(s, c) ==
  /\ pc[s] = "sampled"
  /\ pc[c] = "unborn"
  /\ mutex' = NoStrand
  /\ local' = [local EXCEPT ![c] = ChildFlag(s)]
  /\ siblings' = Upgraded \union {c}
  /\ pc' = [pc EXCEPT ![s] = "sending", ![c] = "forked"]
  /\ batch' = [batch EXCEPT ![s] = @ \union {c}]
  /\ cancelled' = IF s \in cancelled THEN cancelled \union {c} ELSE cancelled
  /\ descendants' = [a \in Strand |->
                       IF a = s \/ s \in descendants[a]
                       THEN descendants[a] \union {c}
                       ELSE descendants[a]]
  /\ sample' = [sample EXCEPT ![s] = FALSE]
  /\ UNCHANGED <<run, signals, inputs, over>>

\* No receiver is left: with `wait` the strand joins what it started ...
SendAndWait(s) ==
  /\ pc[s] = "sending"
  /\ Goto(s, "joining")
  /\ UNCHANGED <<flags, tree, inputs, over>>

Joined(s) ==
  /\ pc[s] = "joining"
  /\ \A t \in batch[s] : Over(t)
  /\ batch' = [batch EXCEPT ![s] = {}]
  /\ Goto(s, "checking")
  /\ UNCHANGED <<flags, signals, descendants, inputs, over>>

\* Mutant of Kept: only the threads of the last SendSignal are joined.
M_KeepsLastBatch(s) == batch[s]

Kept(s) == signals[s] \union batch[s]

\* ... and without it keeps the handles for its own end.
SendAndGoOn(s) ==
  /\ pc[s] = "sending"
  /\ signals' = [signals EXCEPT ![s] = Kept(s)]
  /\ batch' = [batch EXCEPT ![s] = {}]
  /\ Goto(s, "checking")
  /\ UNCHANGED <<flags, descendants, inputs, over>>

-----------------------------------------------------------------------------

\* thread::scope in run_entries has joined every entry strand.
RunReturns ==
  /\ ~over
  /\ \A s \in Entries : Over(s)
  /\ over' = TRUE
  /\ UNCHANGED <<flags, pc, tree, inputs>>

Block(s) ==
  \/ OtherBlock(s)
  \/ CommandWait(s)
  \/ \E ks \in (SUBSET Input) \ {{}} : Press(s, ks) \/ Release(s, ks)
  \/ \E k \in Input \union Raw : Click(s, k)
  \/ \E k \in Raw : RawPress(s, k)
  \/ StopAll(s)
  \/ StopThisStrand(s)
  \/ StopOtherStrands(s)

Send(s) ==
  \/ ForkBegin(s)
  \/ \E c \in Strand : ForkEnd(s, c)
  \/ SendAndWait(s)
  \/ Joined(s)
  \/ SendAndGoOn(s)

Thread(s) ==
  \/ Start(s)
  \/ SpawnFails(s)
  \/ Check(s)
  \/ Finish(s)
  \/ Drained(s)
  \/ Cleanup(s)

Next ==
  \/ \E s \in Strand : Thread(s) \/ Block(s) \/ CommandEnds(s) \/ Send(s)
  \/ AppStops
  \/ RunReturns

Spec == Init /\ [][Next]_vars

\* Whatever a strand does next but going on with SendSignal's receivers, of
\* which there are finitely many, and ending a list by itself in a block.
GoesOn(s) ==
  \/ pc[s] # "block" /\ Thread(s)
  \/ Block(s)
  \/ \E c \in Strand : ForkEnd(s, c)
  \/ SendAndWait(s)
  \/ SendAndGoOn(s)
  \/ Joined(s)

\* Threads are scheduled, and a block ends or is one of those that wait for
\* something else: waits, dialogs and a question of one's own poll the stop
\* flags themselves.  Nothing is assumed of CommandEnds: a command may run for ever.
\* Nothing is assumed of AppStops either, and a strand that is not stopped
\* may loop for ever.
Fairness ==
  /\ \A s \in Strand : WF_vars(GoesOn(s))
  /\ WF_vars(RunReturns)

FairSpec == Spec /\ Fairness

-----------------------------------------------------------------------------
(* Properties *)

\* "Stop other strands" reaches every strand of the run but the caller, those
\* still in the making included: neither a strand it was aimed at nor one
\* that such a strand has started since passes its stop check again, whatever
\* the order of the fork and the stop.
CancelledStaysStopped == \A s \in cancelled : ~local[s]

\* "Signal strands started without waiting; joined when this strand ends so
\* the run lasts until they finish" (runner.rs:94): a strand ends after every
\* strand it started, at any remove.
DescendantsEndFirst ==
  \A s \in Strand : Over(s) => \A d \in descendants[s] : ~Alive(d)

\* When the run returns to its caller no strand of it is left: the caller may
\* save its variables and forget its stop flag.
RunOutlivesStrands == over => \A s \in Strand : ~Alive(s)

\* Whatever key or button is physically held down is in the list of a strand
\* that will still clean up, also when several strands press and release one;
\* but for what an earlier clean-up tried to release and could not.
HeldByLivingStrand ==
  \A k \in (down \intersect Input) \ refused :
    \E s \in Strand : Alive(s) /\ k \in tracked[s]

\* run_strand "releases any keys/buttons still held, whether the strand
\* finished, stopped, or errored" (runner.rs:784): after the run a key or
\* button its blocks name is held down only if the backend refused to release
\* it, whoever pressed it and whoever released it in between.  (A raw keycode
\* may be.)
NothingHeldAfterRun == over => down \intersect Input \subseteq refused

\* Every block that waits for what no stop flag reaches is left again.
CommandsEnd == \A s \in Strand : []<>(pc[s] # "command")

\* Clearing the run's flag ends the run unless it is kept by a command that
\* never exits or a question never answered: no fork, join or mutex of its
\* strands keeps it from returning.
StopEndsRun == CommandsEnd => (~run ~> over)

=============================================================================
