----------------------------- MODULE NamedLocks -----------------------------
(***************************************************************************)
(* blockwork-core/src/macros/locks.rs and the WithLock block of            *)
(* runner/control.rs: named, re-entrant locks shared by the strands of     *)
(* every macro.  A strand that finds the lock taken sleeps on a condition  *)
(* variable for at most `poll` and looks at its stop flag between naps.    *)
(*                                                                         *)
(* Each critical section of the LOCKS mutex is one step.  What a strand    *)
(* does inside the lock, and when somebody stops it, is left open.         *)
(***************************************************************************)
EXTENDS Naturals

CONSTANTS
  Strands,      \* the threads that interpret block lists
  Names,        \* the lock names in use
  NoOwner,      \* no entry for that name in the LOCKS map
  NoName,       \* the strand is not inside `acquire`
  MaxNesting    \* BOUND: WithLock blocks of one name nested in a strand

ASSUME LocksAssumption ==
  /\ NoOwner \notin Strands
  /\ NoName \notin Names
  /\ MaxNesting \in Nat \ {0}

VARIABLES
  held,         \* LOCKS: for each name, the owner and its depth
  guards,       \* guards[s][n]: how many LockGuards for n live on s's stack
  wants,        \* the name s is acquiring, or NoName
  napping,      \* the strands inside RELEASED.wait_timeout
  stopped       \* the strands whose stop_requested answers true

vars == <<held, guards, wants, napping, stopped>>

Free == [owner |-> NoOwner, depth |-> 0]

TypeOK ==
  /\ held \in [Names -> [owner : Strands \union {NoOwner}, depth : Nat]]
  /\ guards \in [Strands -> [Names -> Nat]]
  /\ wants \in [Strands -> Names \union {NoName}]
  /\ napping \subseteq Strands
  /\ stopped \subseteq Strands

Init ==
  /\ held = [n \in Names |-> Free]
  /\ guards = [s \in Strands |-> [n \in Names |-> 0]]
  /\ wants = [s \in Strands |-> NoName]
  /\ napping = {}
  /\ stopped = {}

-----------------------------------------------------------------------------
(* acquire *)

\* A strand that was not stopped at its last check reaches a WithLock block.
Ask(s, n) ==
  /\ wants[s] = NoName
  /\ s \notin stopped
  /\ guards[s][n] < MaxNesting
  /\ wants' = [wants EXCEPT ![s] = n]
  /\ UNCHANGED <<held, guards, napping, stopped>>

\* Mutant of Acquired: the depth restarts with every guard.
M_DepthRestarts(s, n) == [owner |-> s, depth |-> 1]

Acquired(s, n) == [owner |-> s, depth |-> held[n].depth + 1]

\* Mutant of MayEnter: somebody else's lock counts as re-entrant.
M_EntersAnyway(s, n) == TRUE

MayEnter(s, n) == held[n].owner \in {NoOwner, s}

\* No entry, or an entry of this very thread: the guard is handed out.  The
\* stop flag is not consulted on this path.
Acquire(s) ==
  /\ wants[s] # NoName
  /\ s \notin napping
  /\ MayEnter(s, wants[s])
  /\ held' = [held EXCEPT ![wants[s]] = Acquired(s, wants[s])]
  /\ guards' = [guards EXCEPT ![s][wants[s]] = @ + 1]
  /\ wants' = [wants EXCEPT ![s] = NoName]
  /\ UNCHANGED <<napping, stopped>>

\* Mutant of MayGiveUp: the wait never looks at the stop flag.
M_NeverGivesUp(s) == FALSE

MayGiveUp(s) == s \in stopped

\* Held by another strand and stopped: `acquire` answers None, so the
\* WithLock block ends the list it is in.
GiveUp(s) ==
  /\ wants[s] # NoName
  /\ s \notin napping
  /\ ~MayEnter(s, wants[s])
  /\ MayGiveUp(s)
  /\ wants' = [wants EXCEPT ![s] = NoName]
  /\ UNCHANGED <<held, guards, napping, stopped>>

\* Held by another strand and not stopped: sleep on RELEASED.
Nap(s) ==
  /\ wants[s] # NoName
  /\ s \notin napping
  /\ ~MayEnter(s, wants[s])
  /\ ~MayGiveUp(s)
  /\ napping' = napping \union {s}
  /\ UNCHANGED <<held, guards, wants, stopped>>

\* `poll` is over, or the condition variable wakes for no reason.
PollOver(s) ==
  /\ s \in napping
  /\ napping' = napping \ {s}
  /\ UNCHANGED <<held, guards, wants, stopped>>

-----------------------------------------------------------------------------
(* LockGuard::drop *)

Dropped(n) ==
  IF held[n].depth = 1 THEN Free ELSE [held[n] EXCEPT !.depth = @ - 1]

\* Mutant of Woken: the release notifies nobody.
M_NobodyWoken(n) == {}

\* notify_all, when the entry is removed.
Woken(n) == IF Dropped(n) = Free THEN napping ELSE {}

\* The body is over, however it ended: one guard is dropped, and the last one
\* wakes every sleeper.
Drop(s, n) ==
  /\ wants[s] = NoName
  /\ guards[s][n] > 0
  /\ guards' = [guards EXCEPT ![s][n] = @ - 1]
  /\ held' = [held EXCEPT ![n] = Dropped(n)]
  /\ napping' = napping \ Woken(n)
  /\ UNCHANGED <<wants, stopped>>

-----------------------------------------------------------------------------

\* A stop block, a hotkey or the app clears a flag stop_requested reads.
Stop(s) ==
  /\ s \notin stopped
  /\ stopped' = stopped \union {s}
  /\ UNCHANGED <<held, guards, wants, napping>>

Next ==
  \E s \in Strands :
    \/ Acquire(s)
    \/ GiveUp(s)
    \/ Nap(s)
    \/ PollOver(s)
    \/ Stop(s)
    \/ \E n \in Names : Ask(s, n) \/ Drop(s, n)

\* What a thread does by itself: it leaves `acquire` when it can, wait_timeout
\* returns, and a stopped strand unwinds, so it drops its guards.
GoesOn(s) ==
  \/ Acquire(s) \/ GiveUp(s)
  \/ PollOver(s)
  \/ s \in stopped /\ \E n \in Names : Drop(s, n)

\* A thread keeps running.  A body that was not stopped may take for ever, and
\* nobody has to press Stop.
Fairness == \A s \in Strands : WF_vars(GoesOn(s))

Spec == Init /\ [][Next]_vars

FairSpec == Spec /\ Fairness

-----------------------------------------------------------------------------
(* Properties *)

\* "one strand at a time, across every macro" (locks.rs:1): two strands never
\* hold live guards of one name.
OneStrandAtATime ==
  \A s, t \in Strands, n \in Names :
    guards[s][n] > 0 /\ guards[t][n] > 0 => s = t

\* The map and the guards on the stacks agree: a name has an entry exactly
\* while its owner has guards, and the depth counts them.  This is what makes
\* the lock re-entrant ("a lock block nested in the same lock is fine").
DepthCountsGuards ==
  \A n \in Names :
    /\ held[n].owner = NoOwner => held[n] = Free
    /\ \A s \in Strands :
         guards[s][n] = IF held[n].owner = s THEN held[n].depth ELSE 0
    /\ held[n].owner # NoOwner => held[n].depth > 0

\* Nobody sleeps on a free lock: whoever removes an entry wakes every sleeper,
\* so a nap never has to run its full `poll` for a lock that is already free.
NoNapOnAFreeLock ==
  \A s \in napping :
    wants[s] # NoName /\ held[wants[s]].owner \notin {NoOwner, s}

\* A stopped strand does not stay in a lock or in the wait for one, whoever
\* holds it (WithLock passes stop_requested as `cancelled`).
StoppedStrandLetsGo ==
  \A s \in Strands :
    s \in stopped ~> (wants[s] = NoName /\ \A n \in Names : guards[s][n] = 0)

-----------------------------------------------------------------------------

OwnerOf == [n \in Names |-> held[n].owner]

Mutex == INSTANCE NamedMutex WITH owner <- OwnerOf

\* NamedLocks implements the mutual exclusion it is for.
ImplementsMutex == Mutex!Spec

=============================================================================
