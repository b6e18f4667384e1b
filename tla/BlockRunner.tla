----------------------------- MODULE BlockRunner -----------------------------
(***************************************************************************)
(* One strand interpreting its blocks: run_block, call_block, soft_fail    *)
(* and loop_limit_hit of blockwork-core/src/macros/runner.rs and           *)
(* run_control_block of runner/control.rs.                                 *)
(*                                                                         *)
(* The recursion of the interpreter is a stack with a frame for each       *)
(* run_block in progress; the frame's kind says which block is waiting for *)
(* its result.  No program is fixed: at each block the strand may find any *)
(* kind of block, so every macro within the bounds is covered at once.     *)
(* A list of blocks knows how many blocks it still has and how deep its    *)
(* own blocks may nest further lists.                                      *)
(***************************************************************************)
EXTENDS Naturals, Sequences, FiniteSets

CONSTANTS
  MAX_CALL_DEPTH,       \* the constant of runner.rs
  Limits,               \* max_loop_iterations of a macro; 0 is "no limit"
  MaxAttempts,          \* BOUND: attempts of a Retry block
  MaxLength,            \* BOUND: blocks in a list
  MaxNesting,           \* BOUND: lists nested in a list
  Forwarding            \* whether a branch may hold a RunBranch block itself

ASSUME BlockRunnerAssumption ==
  /\ MAX_CALL_DEPTH \in Nat
  /\ Limits \subseteq Nat /\ Limits # {}
  /\ MaxAttempts \in Nat \ {0}
  /\ MaxLength \in Nat
  /\ MaxNesting \in Nat
  /\ Forwarding \in BOOLEAN

VARIABLES
  stack,        \* the run_block calls in progress, the innermost last
  flow,         \* "run", or what the innermost list has just returned
  tryDepth,     \* ExecCtx.try_depth
  branch,       \* ExecCtx.branch_env: how deep the branch nests, or NoBranch
  limit,        \* ExecCtx.max_loop_iterations
  stopped,      \* what stop_requested answers
  soft,         \* history: the error under way is a block that soft-failed
  origin        \* history: the call depth of the last loop-control block

vars == <<stack, flow, tryDepth, branch, limit, stopped, soft, origin>>

NoBranch == MaxNesting + 1

\* The block that waits for the list.
Kind == {"strand", "body",       \* If, IfElse and WithLock
         "branch", "try", "catch", "retry", "loop",
         "call", "value"}        \* CallBlock and Value::Call

Flow == {"Normal", "Return", "Break", "Continue", "Err"}

Frame == [kind : Kind,
          depth : 0..MAX_CALL_DEPTH,
          left : 0..MaxLength,          \* blocks of the list still to run
          nesting : 0..MaxNesting,      \* lists that may nest in this one
          count : Nat,                  \* attempts left, or iterations begun
          saved : 0..NoBranch,          \* call_block's saved_branches
          given : 0..NoBranch]          \* history: the branch that was given
                                        \* to the call the list belongs to

TypeOK ==
  /\ stack \in Seq(Frame)
  /\ flow \in Flow \union {"run"}
  /\ tryDepth \in Nat
  /\ branch \in 0..NoBranch
  /\ limit \in Limits
  /\ stopped \in BOOLEAN
  /\ soft \in BOOLEAN
  /\ origin \in 0..MAX_CALL_DEPTH

List(kind, depth, nesting, count, saved, given) ==
  [kind |-> kind, depth |-> depth, left |-> MaxLength, nesting |-> nesting,
   count |-> count, saved |-> saved, given |-> given]

Init ==
  /\ stack = <<List("strand", 0, MaxNesting, 0, NoBranch, NoBranch)>>
  /\ flow = "run"
  /\ tryDepth = 0
  /\ branch = NoBranch
  /\ limit \in Limits
  /\ stopped = FALSE
  /\ soft = FALSE
  /\ origin = 0

-----------------------------------------------------------------------------

Ended == stack = <<>>

Top == stack[Len(stack)]

Below == SubSeq(stack, 1, Len(stack) - 1)

\* The list goes on after the block it is at.
Advanced == [stack EXCEPT ![Len(stack)].left = @ - 1]

\* The list is at a block and no stop is requested.
AtBlock == ~Ended /\ flow = "run" /\ Top.left > 0 /\ ~stopped

\* The innermost list has returned to the block of kind k.
Returned(k) == ~Ended /\ flow # "run" /\ Top.kind = k

env == <<branch, limit, stopped>>

\* Mutant of SoftFlow: a failing block is an error wherever it is.
M_AlwaysAnError(depth) == "Err"

\* soft_fail: inside a try an error, elsewhere the block is skipped.
SoftFlow(depth) == IF depth > 0 THEN "Err" ELSE "run"

\* The block fails softly while try_depth is `depth`.
FailSoftly(depth) ==
  /\ flow' = SoftFlow(depth)
  /\ soft' = (flow' = "Err")

Raise(to) ==
  /\ flow' = to
  /\ UNCHANGED soft

-----------------------------------------------------------------------------
(* run_block *)

\* The list is over, or a stop is requested: Flow::Normal.
EndOfList ==
  /\ ~Ended /\ flow = "run"
  /\ Top.left = 0 \/ stopped
  /\ Raise("Normal")
  /\ UNCHANGED <<stack, tryDepth, origin, env>>

\* A block that does its job without looking into the list again: a wait that
\* comes to its end included.
PlainBlock ==
  /\ AtBlock
  /\ stack' = Advanced
  /\ UNCHANGED <<flow, soft, tryDepth, origin, env>>

\* A block that cannot do its job: no permission, a value that does not
\* evaluate, an action that fails.
FailingBlock ==
  /\ AtBlock
  /\ stack' = Advanced
  /\ FailSoftly(tryDepth)
  /\ UNCHANGED <<tryDepth, origin, env>>

\* ThrowError, a Return whose value does not evaluate, an error timeout.
Throw ==
  /\ AtBlock
  /\ stack' = Advanced
  /\ flow' = "Err" /\ soft' = FALSE
  /\ UNCHANGED <<tryDepth, origin, env>>

ReturnBlock ==
  /\ AtBlock
  /\ stack' = Advanced
  /\ Raise("Return")
  /\ UNCHANGED <<tryDepth, origin, env>>

\* EscapeLoop and ContinueLoop.
LoopControl ==
  /\ AtBlock
  /\ stack' = Advanced
  /\ Raise("Break") \/ Raise("Continue")
  /\ origin' = Top.depth
  /\ UNCHANGED <<tryDepth, env>>

\* A stop block for this strand or all of them; Next::Stop ends the list.
StopBlock ==
  /\ AtBlock
  /\ stopped' = TRUE
  /\ stack' = Advanced
  /\ Raise("Normal")
  /\ UNCHANGED <<tryDepth, origin, branch, limit>>

\* Somebody else stops the strand.
Stop ==
  /\ ~Ended /\ ~stopped
  /\ stopped' = TRUE
  /\ UNCHANGED <<stack, flow, soft, tryDepth, origin, branch, limit>>

-----------------------------------------------------------------------------
(* Blocks with bodies *)

\* Goes into a list nested in the one the strand is in.
Into(kind, count) ==
  /\ AtBlock /\ Top.nesting > 0
  /\ stack' = Append(Advanced, List(kind, Top.depth, Top.nesting - 1, count,
                                    NoBranch, Top.given))
  /\ UNCHANGED <<flow, soft, origin, env>>

EnterBody == Into("body", 0) /\ UNCHANGED tryDepth

EnterTry == Into("try", 0) /\ tryDepth' = tryDepth + 1

EnterRetry ==
  /\ \E attempts \in 1..MaxAttempts : Into("retry", attempts - 1)
  /\ tryDepth' = tryDepth + 1

\* loop_limit_hit, before the iteration after `iterations` of them.
MayIterate(iterations) == limit = 0 \/ iterations + 1 <= limit

\* Mutant of Counted: the count starts anew with each iteration.
M_CountsAnew(iterations) == 0

\* Iterations are counted only as far as a limit looks at them.
Counted(iterations) == IF limit = 0 THEN 0 ELSE iterations

EnterLoop ==
  /\ MayIterate(0)
  /\ Into("loop", Counted(1))
  /\ UNCHANGED tryDepth

\* RunBranch: the branch runs in the same call, with the callee's branch_env.
Forwards ==
  \E i \in 1..Len(stack) :
    /\ stack[i].kind = "branch"
    /\ \A j \in i..Len(stack) : stack[j].kind \notin {"call", "value"}

RunBranch ==
  /\ AtBlock
  /\ branch # NoBranch
  /\ Forwarding \/ ~Forwards
  /\ stack' = Append(Advanced, List("branch", Top.depth, branch, 0, NoBranch,
                                    Top.given))
  /\ UNCHANGED <<flow, soft, tryDepth, origin, env>>

\* Mutant of MayCall: the caller's depth is compared.
M_OffByOne == Top.depth <= MAX_CALL_DEPTH

MayCall == Top.depth + 1 <= MAX_CALL_DEPTH

\* A branch is given to the custom block when the calling list nests it.
Given == {NoBranch} \union {n \in 0..MaxNesting : n + 1 = Top.nesting}

\* CallBlock, or a block whose value calls a reporter block.
Call(kind) ==
  /\ AtBlock
  /\ MayCall
  /\ branch' \in Given
  /\ stack' = Append(Advanced, List(kind, Top.depth + 1, MaxNesting, 0,
                                    branch, branch'))
  /\ UNCHANGED <<flow, soft, tryDepth, origin, limit, stopped>>

\* "custom block call depth exceeded": the CallBlock itself fails hard, a value
\* is what its block makes of it.
CallTooDeep ==
  /\ AtBlock
  /\ ~MayCall
  /\ stack' = Advanced
  /\ \/ flow' = "Err" /\ soft' = FALSE
     \/ FailSoftly(tryDepth)
  /\ UNCHANGED <<tryDepth, origin, env>>

-----------------------------------------------------------------------------
(* What the blocks do with the result of a list *)

\* The waiting block hands on what is not Normal.
BodyReturned ==
  /\ Returned("body") \/ Returned("branch") \/ Returned("catch")
  /\ stack' = Below
  /\ Raise(IF flow = "Normal" THEN "run" ELSE flow)
  /\ UNCHANGED <<tryDepth, origin, env>>

\* Mutant of LeftTry: an error leaves try_depth where it was.
M_StaysInTry == IF flow = "Err" THEN tryDepth ELSE tryDepth - 1

LeftTry == tryDepth - 1

TryReturned ==
  /\ Returned("try")
  /\ tryDepth' = LeftTry
  /\ IF flow = "Err"
     THEN /\ stack' = Append(Below, List("catch", Top.depth, Top.nesting, 0,
                                         NoBranch, Top.given))
          /\ Raise("run")
     ELSE /\ stack' = Below
          /\ Raise(IF flow = "Normal" THEN "run" ELSE flow)
  /\ UNCHANGED <<origin, env>>

\* An attempt succeeded, or was left by a return or loop-control block.
RetryReturned ==
  /\ Returned("retry") /\ flow # "Err"
  /\ tryDepth' = LeftTry
  /\ stack' = Below
  /\ Raise(IF flow = "Normal" THEN "run" ELSE flow)
  /\ UNCHANGED <<origin, env>>

\* An attempt failed: it was the last one, or the pause was cut short by a
\* stop, or the body runs again.
RetryFailed ==
  /\ Returned("retry") /\ flow = "Err"
  /\ \/ /\ Top.count = 0
        /\ tryDepth' = LeftTry
        /\ stack' = Below
        /\ FailSoftly(LeftTry)
     \/ /\ Top.count > 0 /\ stopped
        /\ tryDepth' = LeftTry
        /\ stack' = Below
        /\ Raise("run")
     \/ /\ Top.count > 0 /\ ~stopped
        /\ tryDepth' = LeftTry + 1
        /\ stack' = Append(Below, [Top EXCEPT !.left = MaxLength,
                                              !.count = @ - 1])
        /\ Raise("run")
  /\ UNCHANGED <<origin, env>>

\* A loop is left by an escape, a return, an error ...
LoopLeft ==
  /\ Returned("loop") /\ flow \in {"Break", "Return", "Err"}
  /\ stack' = Below
  /\ Raise(IF flow = "Break" THEN "run" ELSE flow)
  /\ UNCHANGED <<tryDepth, origin, env>>

\* ... a stop, its count or its condition ...
LoopOver ==
  /\ Returned("loop") /\ flow \in {"Normal", "Continue"}
  /\ stack' = Below
  /\ Raise("run")
  /\ UNCHANGED <<tryDepth, origin, env>>

\* ... a condition that does not evaluate, or the loop limit ...
LoopFails ==
  /\ Returned("loop") /\ flow \in {"Normal", "Continue"} /\ ~stopped
  /\ stack' = Below
  /\ FailSoftly(tryDepth)
  /\ UNCHANGED <<tryDepth, origin, env>>

\* Mutant of GoesOn: the loop leaves the stop to its body.
M_IgnoresStop == TRUE

\* The loops look at the stop flag before each iteration.
GoesOn == ~stopped

\* ... or goes round again.
LoopAgain ==
  /\ Returned("loop") /\ flow \in {"Normal", "Continue"} /\ GoesOn
  /\ MayIterate(Top.count)
  /\ stack' = Append(Below, [Top EXCEPT !.left = MaxLength,
                                        !.count = Counted(@ + 1)])
  /\ Raise("run")
  /\ UNCHANGED <<tryDepth, origin, env>>

\* Mutant of Restored: the callee's branches are cleared, the caller's are not
\* put back.
M_ClearsBranch == NoBranch

Restored == Top.saved

\* Mutant of CallFlow: a call hands loop control on.
M_LeaksLoopControl == IF flow \in {"Normal", "Return"} THEN "run" ELSE flow

\* call_block absorbs loop control that has no loop in the block's body.
CallFlow == IF flow = "Err" THEN flow ELSE "run"

CallReturned ==
  /\ Returned("call")
  /\ stack' = Below
  /\ branch' = Restored
  /\ Raise(CallFlow)
  /\ UNCHANGED <<tryDepth, origin, limit, stopped>>

\* A reporter block that did not return a value is an error of the block that
\* wanted it; most blocks make a soft failure of any error in their values,
\* Return and ThrowError do not.
ValueReturned ==
  /\ Returned("value")
  /\ stack' = Below
  /\ branch' = Restored
  /\ \/ flow = "Return" /\ Raise("run")
     \/ flow # "Return" /\ FailSoftly(tryDepth)
     \/ flow # "Return" /\ flow' = "Err" /\ soft' = FALSE
  /\ UNCHANGED <<tryDepth, origin, limit, stopped>>

\* The strand's own list is over: run_strand logs an error and ends.
StrandReturned ==
  /\ Returned("strand")
  /\ stack' = Below
  /\ UNCHANGED <<flow, soft, tryDepth, origin, env>>

-----------------------------------------------------------------------------

Next ==
  \/ EndOfList \/ PlainBlock \/ FailingBlock \/ Throw
  \/ ReturnBlock \/ LoopControl \/ StopBlock \/ Stop
  \/ EnterBody \/ EnterTry \/ EnterRetry \/ EnterLoop
  \/ RunBranch \/ Call("call") \/ Call("value") \/ CallTooDeep
  \/ BodyReturned \/ TryReturned \/ RetryReturned \/ RetryFailed
  \/ LoopLeft \/ LoopOver \/ LoopFails \/ LoopAgain
  \/ CallReturned \/ ValueReturned \/ StrandReturned

Spec == Init /\ [][Next]_vars

\* The strand's thread keeps running.
FairSpec == Spec /\ WF_vars(Next)

-----------------------------------------------------------------------------
(* Properties *)

Frames(kinds) == {i \in 1..Len(stack) : stack[i].kind \in kinds}

\* "Inside a TryCatch that's an error the catch handles" (runner.rs:253): an
\* error that soft_fail made of a failing block is always on its way to a try
\* or retry block, and never ends a strand that has none around the block.
SoftErrorsAreCaught ==
  flow = "Err" /\ soft => Frames({"try", "retry"}) # {}

\* "A custom block call also stops them, so loop control never crosses into a
\* block body" (runner.rs:53): whatever list an escape or continue block is
\* unwinding belongs to the same custom block call.
LoopControlStaysInItsCall ==
  ~Ended /\ flow \in {"Break", "Continue"} => Top.depth = origin

\* try_depth counts the try and retry blocks the strand is in, so a failing
\* block outside is skipped and one inside is not, also after errors, returns
\* and loop control have left any number of them.
TryDepthCounts == tryDepth = Cardinality(Frames({"try", "retry"}))

\* A call puts its own branches in the place of its caller's, and on every way
\* out of it the caller's are back, those of a caller that is itself a custom
\* block included: whichever list the strand is in, RunBranch finds the branch
\* that was given to the call the list belongs to.
BranchesAreRestored == ~Ended => branch = Top.given

\* "Guards against runaway recursive custom blocks; without it a cycle would
\* eventually stack-overflow the whole process" (runner.rs:38): the recursion
\* of the interpreter is bounded.  The strand's own list and each call hold at
\* most the lists that nest in their body, and a call those of one branch, which
\* nests in the list of the caller.
StackBounded ==
  Len(stack) <= (MAX_CALL_DEPTH + 1) * (MaxNesting + 1)
                + MAX_CALL_DEPTH * MaxNesting

\* A stopped strand ends: every list, loop, retry and call gives way.
StopEndsStrand == stopped ~> Ended

\* With a loop limit every strand whose waits end comes to its own end: no nest
\* of loops, retries and calls runs for ever.
LimitEndsStrand == limit > 0 ~> Ended

=============================================================================
