----------------------------- MODULE GateProofs -----------------------------
(***************************************************************************)
(* Proofs about three gates at which a strand waits for somebody: named    *)
(* locks, for any set of strands and of lock names; the debugger, for any  *)
(* number of strands and steps; and permissions, for any number of         *)
(* strands, macros and abilities.                                          *)
(***************************************************************************)
EXTENDS NamedLocks, Debugger, Permissions, TLAPS

(* Named locks *)

\* The inductive invariant: the map and the guards on the stacks agree.
LocksInv == TypeOK /\ DepthCountsGuards

LEMMA LocksInit == Init => LocksInv
BY LocksAssumption DEF Init, LocksInv, TypeOK, DepthCountsGuards, Free

LEMMA AcquireKeepsInv ==
  ASSUME LocksInv, NEW s \in Strands, Acquire(s)
  PROVE  LocksInv'
<1> DEFINE n == wants[s]
<1>1. n \in Names /\ n # NoName
  BY DEF Acquire, LocksInv, TypeOK
<1>2. held[n].owner \in {NoOwner, s} /\ held[n].depth \in Nat
  BY <1>1 DEF Acquire, MayEnter, LocksInv, TypeOK
<1>3. guards[s][n] = held[n].depth
  BY <1>1, <1>2, LocksAssumption DEF LocksInv, DepthCountsGuards, Free, TypeOK
<1>4. held' = [held EXCEPT ![n] = [owner |-> s, depth |-> held[n].depth + 1]]
  BY DEF Acquire, Acquired
<1>5. guards' = [guards EXCEPT ![s][n] = @ + 1]
  BY DEF Acquire
<1>6. TypeOK'
  <2>1. held' \in [Names -> [owner : Strands \union {NoOwner}, depth : Nat]]
    BY <1>1, <1>2, <1>4 DEF LocksInv, TypeOK
  <2>2. guards' \in [Strands -> [Names -> Nat]]
    BY <1>1, <1>5 DEF LocksInv, TypeOK
  <2>3. wants' \in [Strands -> Names \union {NoName}]
    BY DEF Acquire, LocksInv, TypeOK
  <2>4. QED
    BY <2>1, <2>2, <2>3 DEF Acquire, LocksInv, TypeOK
<1>7. DepthCountsGuards'
  <2> SUFFICES ASSUME NEW m \in Names
      PROVE /\ held'[m].owner = NoOwner => held'[m] = Free
            /\ \A t \in Strands :
                 guards'[t][m] = IF held'[m].owner = t THEN held'[m].depth ELSE 0
            /\ held'[m].owner # NoOwner => held'[m].depth > 0
    BY DEF DepthCountsGuards, Free
  <2>1. CASE m = n
    <3>1. held'[m] = [owner |-> s, depth |-> held[n].depth + 1]
      BY <1>1, <1>4, <2>1 DEF LocksInv, TypeOK
    <3>2. \A t \in Strands : guards'[t][m] = IF t = s THEN guards[s][n] + 1 ELSE guards[t][n]
      BY <1>1, <1>5, <2>1 DEF LocksInv, TypeOK
    <3>3. \A t \in Strands \ {s} : guards[t][n] = 0
      BY <1>1, <1>2, LocksAssumption DEF LocksInv, DepthCountsGuards, Free, TypeOK
    <3>4. QED
      BY <1>2, <1>3, <3>1, <3>2, <3>3, LocksAssumption
  <2>2. CASE m # n
    <3>1. held'[m] = held[m]
      BY <1>4, <2>2 DEF LocksInv, TypeOK
    <3>2. \A t \in Strands : guards'[t][m] = guards[t][m]
      BY <1>5, <2>2 DEF LocksInv, TypeOK
    <3>3. QED
      BY <3>1, <3>2 DEF LocksInv, DepthCountsGuards
  <2>3. QED
    BY <2>1, <2>2
<1>8. QED
  BY <1>6, <1>7 DEF LocksInv

LEMMA DropKeepsInv ==
  ASSUME LocksInv, NEW s \in Strands, NEW n \in Names, Drop(s, n)
  PROVE  LocksInv'
<1>1. guards[s][n] \in Nat /\ guards[s][n] > 0
  BY DEF Drop, LocksInv, TypeOK
<1>2. held[n].owner = s /\ guards[s][n] = held[n].depth /\ held[n].depth \in Nat
  BY <1>1 DEF LocksInv, DepthCountsGuards, TypeOK
<1>3. held' = [held EXCEPT ![n] = IF held[n].depth = 1 THEN Free
                                  ELSE [held[n] EXCEPT !.depth = @ - 1]]
  BY DEF Drop, Dropped
<1>4. guards' = [guards EXCEPT ![s][n] = @ - 1]
  BY DEF Drop
<1>5. held'[n] = IF held[n].depth = 1 THEN Free
                 ELSE [owner |-> s, depth |-> held[n].depth - 1]
  BY <1>2, <1>3 DEF LocksInv, TypeOK
<1>6. TypeOK'
  <2>1. held' \in [Names -> [owner : Strands \union {NoOwner}, depth : Nat]]
    <3>1. held'[n] \in [owner : Strands \union {NoOwner}, depth : Nat]
      BY <1>1, <1>2, <1>5 DEF Free
    <3>2. QED
      BY <1>3, <3>1 DEF LocksInv, TypeOK
  <2>2. guards' \in [Strands -> [Names -> Nat]]
    BY <1>1, <1>4 DEF LocksInv, TypeOK
  <2>3. napping' \subseteq Strands
    BY DEF Drop, LocksInv, TypeOK
  <2>4. QED
    BY <2>1, <2>2, <2>3 DEF Drop, LocksInv, TypeOK
<1>7. DepthCountsGuards'
  <2> SUFFICES ASSUME NEW m \in Names
      PROVE /\ held'[m].owner = NoOwner => held'[m] = Free
            /\ \A t \in Strands :
                 guards'[t][m] = IF held'[m].owner = t THEN held'[m].depth ELSE 0
            /\ held'[m].owner # NoOwner => held'[m].depth > 0
    BY DEF DepthCountsGuards, Free
  <2>1. CASE m = n
    <3>1. \A t \in Strands : guards'[t][n] = IF t = s THEN guards[s][n] - 1 ELSE guards[t][n]
      BY <1>4 DEF LocksInv, TypeOK
    <3>2. \A t \in Strands \ {s} : guards[t][n] = 0
      BY <1>2 DEF LocksInv, DepthCountsGuards
    <3>3. QED
      BY <1>1, <1>2, <1>5, <2>1, <3>1, <3>2, LocksAssumption DEF Free
  <2>2. CASE m # n
    <3>1. held'[m] = held[m]
      BY <1>3, <2>2 DEF LocksInv, TypeOK
    <3>2. \A t \in Strands : guards'[t][m] = guards[t][m]
      BY <1>4, <2>2 DEF LocksInv, TypeOK
    <3>3. QED
      BY <3>1, <3>2 DEF LocksInv, DepthCountsGuards
  <2>3. QED
    BY <2>1, <2>2
<1>8. QED
  BY <1>6, <1>7 DEF LocksInv

\* No step of any strand breaks the agreement.
LEMMA LocksNext == LocksInv /\ [Next]_vars => LocksInv'
<1> SUFFICES ASSUME LocksInv, [Next]_vars
    PROVE LocksInv'
  OBVIOUS
<1>1. ASSUME NEW s \in Strands, NEW n \in Names, Ask(s, n)
      PROVE LocksInv'
  BY <1>1 DEF Ask, LocksInv, TypeOK, DepthCountsGuards, Free
<1>2. ASSUME NEW s \in Strands, GiveUp(s) \/ Nap(s) \/ PollOver(s) \/ Stop(s)
      PROVE LocksInv'
  BY <1>2 DEF GiveUp, Nap, PollOver, Stop, LocksInv, TypeOK, DepthCountsGuards, Free
<1>3. CASE UNCHANGED vars
  BY <1>3 DEF vars, LocksInv, TypeOK, DepthCountsGuards, Free
<1>4. QED
  BY <1>1, <1>2, <1>3, AcquireKeepsInv, DropKeepsInv DEF Next

\* Type correctness and the agreement of the LOCKS map with the guards that
\* are alive: LockGuard::drop always finds its own entry with the right depth.
THEOREM LocksAgree == Spec => [](TypeOK /\ DepthCountsGuards)
<1>1. Spec => []LocksInv
  BY LocksInit, LocksNext, PTL DEF Spec
<1>2. LocksInv => TypeOK /\ DepthCountsGuards
  BY DEF LocksInv
<1>3. QED
  BY <1>1, <1>2, PTL

LEMMA AgreementExcludes == LocksInv => OneStrandAtATime
BY LocksAssumption DEF LocksInv, DepthCountsGuards, OneStrandAtATime, TypeOK

\* At most one strand, of whatever macro, holds guards of a name.
THEOREM MutualExclusion == Spec => []OneStrandAtATime
BY LocksInit, LocksNext, AgreementExcludes, PTL DEF Spec

-----------------------------------------------------------------------------
(* A sleeper never misses the release it sleeps for. *)

LEMMA NapInit == Init => NoNapOnAFreeLock
BY DEF Init, NoNapOnAFreeLock

LEMMA NapNext == LocksInv /\ NoNapOnAFreeLock /\ [Next]_vars => NoNapOnAFreeLock'
<1> SUFFICES ASSUME LocksInv, NoNapOnAFreeLock, [Next]_vars
    PROVE NoNapOnAFreeLock'
  OBVIOUS
<1>1. ASSUME NEW s \in Strands, NEW n \in Names, Ask(s, n)
      PROVE NoNapOnAFreeLock'
  BY <1>1 DEF Ask, NoNapOnAFreeLock, LocksInv, TypeOK
<1>2. ASSUME NEW s \in Strands, Acquire(s)
      PROVE NoNapOnAFreeLock'
  <2> DEFINE n == wants[s]
  <2>1. n \in Names /\ held[n].owner \in {NoOwner, s}
    BY <1>2 DEF Acquire, MayEnter, LocksInv, TypeOK
  <2>2. \A m \in Names : held'[m].owner = IF m = n THEN s ELSE held[m].owner
    BY <1>2, <2>1 DEF Acquire, Acquired, LocksInv, TypeOK
  <2>3. napping' = napping /\ s \notin napping
    BY <1>2 DEF Acquire
  <2>4. \A t \in napping : wants'[t] = wants[t] /\ wants[t] \in Names
    BY <1>2, <2>3 DEF Acquire, NoNapOnAFreeLock, LocksInv, TypeOK
  <2>5. QED
    BY <2>1, <2>2, <2>3, <2>4, LocksAssumption DEF NoNapOnAFreeLock, LocksInv, TypeOK
<1>3. ASSUME NEW s \in Strands, NEW n \in Names, Drop(s, n)
      PROVE NoNapOnAFreeLock'
  <2>1. CASE Dropped(n) = Free
    BY <1>3, <2>1 DEF Drop, Woken, NoNapOnAFreeLock
  <2>2. CASE Dropped(n) # Free
    <3>1. napping' = napping /\ wants' = wants
      BY <1>3, <2>2 DEF Drop, Woken
    <3>2. \A m \in Names : held'[m].owner = held[m].owner
      BY <1>3, <2>2 DEF Drop, Dropped, LocksInv, TypeOK
    <3>3. QED
      BY <3>1, <3>2 DEF NoNapOnAFreeLock, LocksInv, TypeOK
  <2>3. QED
    BY <2>1, <2>2
<1>4. ASSUME NEW s \in Strands, Nap(s)
      PROVE NoNapOnAFreeLock'
  BY <1>4 DEF Nap, MayEnter, NoNapOnAFreeLock, LocksInv, TypeOK
<1>5. ASSUME NEW s \in Strands, GiveUp(s) \/ PollOver(s) \/ Stop(s)
      PROVE NoNapOnAFreeLock'
  BY <1>5 DEF GiveUp, PollOver, Stop, NoNapOnAFreeLock, LocksInv, TypeOK
<1>6. CASE UNCHANGED vars
  BY <1>6 DEF vars, NoNapOnAFreeLock
<1>7. QED
  BY <1>1, <1>2, <1>3, <1>4, <1>5, <1>6 DEF Next

\* Dropping the last guard wakes every strand that sleeps for it.
THEOREM NoLostWakeup == Spec => []NoNapOnAFreeLock
BY LocksInit, LocksNext, NapInit, NapNext, PTL DEF Spec

-----------------------------------------------------------------------------
(* Refinement. *)

LEMMA RefinesInit == Init => Mutex!Init
BY DEF Init, Mutex!Init, OwnerOf, Free

LEMMA RefinesNext == LocksInv /\ [Next]_vars => [Mutex!Next]_OwnerOf
<1> SUFFICES ASSUME LocksInv, [Next]_vars
    PROVE Mutex!Next \/ OwnerOf' = OwnerOf
  OBVIOUS
<1>1. ASSUME NEW s \in Strands, Acquire(s)
      PROVE Mutex!Next \/ OwnerOf' = OwnerOf
  <2> DEFINE n == wants[s]
  <2>1. n \in Names /\ held[n].owner \in {NoOwner, s}
    BY <1>1 DEF Acquire, MayEnter, LocksInv, TypeOK
  <2>2. \A m \in Names : held'[m].owner = IF m = n THEN s ELSE held[m].owner
    BY <1>1, <2>1 DEF Acquire, Acquired, LocksInv, TypeOK
  <2>3. OwnerOf' = [OwnerOf EXCEPT ![n] = s]
    BY <2>1, <2>2 DEF OwnerOf
  <2>4. CASE held[n].owner = s
    <3>1. \A m \in Names : held'[m].owner = held[m].owner
      BY <2>2, <2>4
    <3>2. QED
      BY <3>1 DEF OwnerOf
  <2>5. CASE held[n].owner = NoOwner
    <3>1. Mutex!Enter(s, n)
      BY <2>1, <2>3, <2>5 DEF Mutex!Enter, OwnerOf
    <3>2. QED
      BY <2>1, <3>1 DEF Mutex!Next
  <2>6. QED
    BY <2>1, <2>4, <2>5
<1>2. ASSUME NEW s \in Strands, NEW n \in Names, Drop(s, n)
      PROVE Mutex!Next \/ OwnerOf' = OwnerOf
  <2>1. held[n].owner = s
    BY <1>2 DEF Drop, LocksInv, DepthCountsGuards, TypeOK
  <2>2. held' = [held EXCEPT ![n] = IF held[n].depth = 1 THEN Free
                                    ELSE [held[n] EXCEPT !.depth = @ - 1]]
    BY <1>2 DEF Drop, Dropped
  <2>3. CASE held[n].depth = 1
    <3>1. \A m \in Names : held'[m].owner = IF m = n THEN NoOwner ELSE held[m].owner
      BY <2>2, <2>3 DEF LocksInv, TypeOK, Free
    <3>2. OwnerOf' = [OwnerOf EXCEPT ![n] = NoOwner]
      BY <3>1 DEF OwnerOf
    <3>3. Mutex!Leave(s, n)
      BY <2>1, <3>2 DEF Mutex!Leave, OwnerOf
    <3>4. QED
      BY <3>3 DEF Mutex!Next
  <2>4. CASE held[n].depth # 1
    <3>1. \A m \in Names : held'[m].owner = held[m].owner
      BY <2>2, <2>4 DEF LocksInv, TypeOK
    <3>2. QED
      BY <3>1 DEF OwnerOf
  <2>5. QED
    BY <2>3, <2>4
<1>3. ASSUME NEW s \in Strands,
             \/ \E n \in Names : Ask(s, n)
             \/ GiveUp(s) \/ Nap(s) \/ PollOver(s) \/ Stop(s)
      PROVE OwnerOf' = OwnerOf
  BY <1>3 DEF Ask, GiveUp, Nap, PollOver, Stop, OwnerOf
<1>4. CASE UNCHANGED vars
  BY <1>4 DEF vars, OwnerOf
<1>5. QED
  BY <1>1, <1>2, <1>3, <1>4 DEF Next

\* The re-entrant, polled, cancellable locks implement plain mutual exclusion
\* per name: nesting and giving up are invisible to it.
THEOREM LocksImplementMutex == Spec => ImplementsMutex
BY LocksInit, LocksNext, RefinesInit, RefinesNext, PTL
DEF Spec, ImplementsMutex, Mutex!Spec

-----------------------------------------------------------------------------
(* The debugger *)

(***************************************************************************)
(* A strand that was let through since the last pause or step and is at a  *)
(* checkpoint again has seen that step: only another one releases it.      *)
(***************************************************************************)
UpToDate ==
  paused => \A s \in DebugStrand :
    /\ ran[s] <= 1
    /\ ran[s] = 1 /\ pc[s] \in {"sampled", "waiting"} => mine[s] = step

DebuggerInv == DebugTypeOK /\ ArmedWhenNeeded /\ UpToDate

LEMMA DebuggerInit == DebugInit => DebuggerInv
<1> SUFFICES ASSUME DebugInit PROVE DebuggerInv
  OBVIOUS
<1>1. active = {s \in DebugStrand : pc[s] \in {"block", "sampled", "waiting"}}
  BY DEF DebugInit
<1>2. step \in 0..MaxStep /\ mine \in [DebugStrand -> 0..MaxStep] /\ ran \in [DebugStrand -> Ran]
  BY DebuggerAssumption DEF DebugInit, Ran
<1>3. DebugTypeOK
  BY <1>1, <1>2, Zenon DEF DebugInit, DebugTypeOK
<1>4. ArmedWhenNeeded /\ UpToDate
  BY DEF DebugInit, ArmedWhenNeeded, UpToDate
<1>5. QED
  BY <1>3, <1>4 DEF DebuggerInv

LEMMA StrandStep ==
  ASSUME DebuggerInv, NEW s \in DebugStrand, Strand(s)
  PROVE  DebuggerInv'
<1>. USE DebuggerAssumption
     DEF DebuggerInv, DebugTypeOK, ArmedWhenNeeded, UpToDate, Ran, Goes, debug
<1>1. CASE Begin(s)
  BY <1>1 DEF Begin
<1>2. CASE Pass(s)
  BY <1>2 DEF Pass, Through
<1>3. CASE Sample(s)
  BY <1>3 DEF Sample, Nobody
<1>4. CASE BeginWait(s)
  BY <1>4 DEF BeginWait, Armed
<1>5. CASE EndWait(s)
  <2>1. CASE stopAsked[s]
    BY <1>5, <2>1 DEF EndWait, Armed
  <2>2. CASE ~stopAsked[s]
    BY <1>5, <2>2 DEF EndWait, MayLeave, Released, Armed, Through
  <2>3. QED
    BY <2>1, <2>2
<1>6. CASE End(s)
  BY <1>6 DEF End, Remaining
<1>7. CASE RunEnded(s)
  <2>1. paused' = FALSE /\ armed' = breakpoint /\ breakpoint' = breakpoint
    BY <1>7, Zenon DEF RunEnded, Armed
  <2>2. step' \in 0..MaxStep /\ active = active' /\ pc' = [pc EXCEPT ![s] = "out"]
    BY <1>7 DEF RunEnded
  <2>3. active' = {t \in DebugStrand : pc'[t] \in {"block", "sampled", "waiting"}}
    BY <1>7, <2>2 DEF RunEnded
  <2>4. pc' \in [DebugStrand -> {"out", "block", "sampled", "waiting", "last"}]
    BY <2>2
  <2>5. DebugTypeOK'
    BY <1>7, <2>1, <2>2, <2>3, <2>4, Zenon DEF RunEnded
  <2>6. QED
    BY <2>1, <2>5
<1>8. QED
  BY <1>1, <1>2, <1>3, <1>4, <1>5, <1>6, <1>7 DEF Strand

LEMMA EditorStep ==
  ASSUME DebuggerInv, Editor
  PROVE  DebuggerInv'
<1>. USE DebuggerAssumption
     DEF DebuggerInv, DebugTypeOK, ArmedWhenNeeded, UpToDate, Ran, Armed
<1>1. ASSUME NEW on \in BOOLEAN, SetBreakpoint(on) PROVE DebuggerInv'
  BY <1>1 DEF SetBreakpoint
<1>2. CASE Pause
  <2>1. paused' = TRUE /\ armed' = TRUE
    BY <1>2 DEF Pause
  <2>2. QED
    BY <1>2, <2>1 DEF Pause, Nobody
<1>3. CASE Resume
  <2>1. paused' = FALSE /\ armed' = breakpoint /\ breakpoint' = breakpoint
    BY <1>3, Zenon DEF Resume
  <2>2. step' \in 0..MaxStep
    BY <1>3 DEF Resume
  <2>3. DebugTypeOK'
    BY <1>3, <2>1, <2>2, Zenon DEF Resume
  <2>4. QED
    BY <2>1, <2>3
<1>4. CASE Step
  <2>1. paused' = TRUE /\ armed' = TRUE
    BY <1>4 DEF Step
  <2>2. QED
    BY <1>4, <2>1 DEF Step, Nobody
<1>5. QED
  BY <1>1, <1>2, <1>3, <1>4 DEF Editor

LEMMA DebuggerStep == DebuggerInv /\ [DebugNext]_debugVars => DebuggerInv'
<1> SUFFICES ASSUME DebuggerInv, [DebugNext]_debugVars PROVE DebuggerInv'
  OBVIOUS
<1>1. CASE UNCHANGED debugVars
  BY <1>1 DEF debugVars, debug, DebuggerInv, DebugTypeOK, ArmedWhenNeeded, UpToDate
<1>2. ASSUME NEW s \in DebugStrand, StopStrand(s) PROVE DebuggerInv'
  BY <1>2 DEF StopStrand, debug, DebuggerInv, DebugTypeOK, ArmedWhenNeeded, UpToDate
<1>3. QED
  BY <1>1, <1>2, StrandStep, EditorStep DEF DebugNext

\* Types, and that the trace lists exactly the strands that run.
THEOREM DebuggerTypes == DebugSpec => []DebugTypeOK
<1>1. DebuggerInv => DebugTypeOK
  BY DEF DebuggerInv
<1>2. QED
  BY DebuggerInit, DebuggerStep, <1>1, PTL DEF DebugSpec

\* No checkpoint is skipped that a pause or a breakpoint asks for.
THEOREM NoCheckpointSkipped == DebugSpec => []ArmedWhenNeeded
<1>1. DebuggerInv => ArmedWhenNeeded
  BY DEF DebuggerInv
<1>2. QED
  BY DebuggerInit, DebuggerStep, <1>1, PTL DEF DebugSpec

\* A step lets no strand run two blocks.
THEOREM StepsAreSingle == DebugSpec => []OneBlockPerStep
<1>1. DebuggerInv => OneBlockPerStep
  BY DEF DebuggerInv, UpToDate, OneBlockPerStep
<1>2. QED
  BY DebuggerInit, DebuggerStep, <1>1, PTL DEF DebugSpec

-----------------------------------------------------------------------------
(* Permissions *)

\* Where a strand holds the turn to ask.
Asking == {"turn", "shown", "always", "once", "deny"}

\* Exactly the strand that holds ASKING is in the part of check() it guards.
TurnIsHeld == \A s \in Asker : asking = s <=> spot[s] \in Asking

PermissionsInv ==
  PermissionsTypeOK /\ TurnIsHeld /\ AskedOnce /\ AnswersEndWithRuns

(***************************************************************************)
(* A function is a store when its domain and its values are.               *)
(***************************************************************************)
LEMMA StoreIntro ==
  ASSUME NEW D \in SUBSET Macro, NEW g \in [D -> SUBSET Ability]
  PROVE  g \in Store
BY DEF Store

LEMMA StoreElim ==
  ASSUME NEW g \in Store
  PROVE  DOMAIN g \in SUBSET Macro /\ g \in [DOMAIN g -> SUBSET Ability]
<1>1. PICK D \in SUBSET Macro : g \in [D -> SUBSET Ability]
  BY DEF Store
<1>2. QED
  BY <1>1

LEMMA AskInitInv == AskInit => PermissionsInv
<1> SUFFICES ASSUME AskInit PROVE PermissionsInv
  OBVIOUS
<1>1. grants \in Store
  <2>1. PICK D \in SUBSET Macro : grants = [m \in D |-> {}]
    BY DEF AskInit
  <2>2. grants \in [D -> SUBSET Ability]
    BY <2>1
  <2>3. QED
    BY <2>2, StoreIntro
<1>2. PermissionsTypeOK
  BY <1>1 DEF AskInit, PermissionsTypeOK, Spot
<1>3. TurnIsHeld /\ AskedOnce /\ AnswersEndWithRuns
  BY PermissionsAssumption
  DEF AskInit, TurnIsHeld, Asking, AskedOnce, Answered, AnswersEndWithRuns
<1>4. QED
  BY <1>2, <1>3 DEF PermissionsInv

(***************************************************************************)
(* A strand of the trace moves on, with or without the turn to ask.        *)
(***************************************************************************)
LEMMA MoveKeepsInv ==
  ASSUME PermissionsInv, UNCHANGED <<grants, session, macro>>,
         NEW s \in Asker, NEW to \in Spot,
         spot' = [spot EXCEPT ![s] = to],
         Traced(s), to \notin {"out", "last"},
         ability' \in [Asker -> Ability], called' \in [Asker -> BOOLEAN],
         showing' \in Asker \union {NoOne}, asking' \in Asker \union {NoOne},
         \A t \in Asker \ {s} : ability'[t] = ability[t],
         \A t \in Asker \ {s} : asking' = t <=> asking = t,
         asking' = s <=> to \in Asking,
         to \in Asking => ~Answered(macro[s], ability'[s])
  PROVE  PermissionsInv'
<1>1. spot \in [Asker -> Spot] /\ spot'[s] = to
      /\ \A t \in Asker \ {s} : spot'[t] = spot[t]
  BY DEF PermissionsInv, PermissionsTypeOK
<1>2. PermissionsTypeOK'
  <2>1. spot' \in [Asker -> Spot]
    BY <1>1
  <2>2. QED
    BY <2>1 DEF PermissionsInv, PermissionsTypeOK
<1>3. TurnIsHeld'
  BY <1>1 DEF PermissionsInv, TurnIsHeld
<1>4. AskedOnce'
  BY <1>1, PermissionsAssumption
  DEF PermissionsInv, AskedOnce, Answered, Asking
<1>5. AnswersEndWithRuns'
  <2>1. \A t \in Asker : Traced(t) \/ spot[t] = "last" =>
          Traced(t)' \/ spot'[t] = "last"
    BY <1>1 DEF Traced
  <2>2. QED
    BY <2>1 DEF PermissionsInv, AnswersEndWithRuns
<1>6. QED
  BY <1>2, <1>3, <1>4, <1>5 DEF PermissionsInv

LEMMA QuietStrandStep ==
  ASSUME PermissionsInv, NEW s \in Asker,
         \/ \E k \in Ability : Require(s, k)
         \/ TakeTurn(s) \/ AskUser(s) \/ Show(s) \/ GiveUpTurn(s)
         \/ Answer(s) \/ Unanswered(s) \/ CallOff(s)
  PROVE  PermissionsInv'
<1>1. spot \in [Asker -> Spot] /\ asking \in Asker \union {NoOne}
      /\ showing \in Asker \union {NoOne} /\ macro \in [Asker -> Macro]
      /\ ability \in [Asker -> Ability] /\ called \in [Asker -> BOOLEAN]
  BY DEF PermissionsInv, PermissionsTypeOK
<1>2. \A t \in Asker : asking = t <=> spot[t] \in Asking
  BY DEF PermissionsInv, TurnIsHeld
<1>3. \A t \in Asker : spot[t] \in Asking => ~Answered(macro[t], ability[t])
  BY DEF PermissionsInv, AskedOnce, Asking
<1>. USE PermissionsAssumption DEF turns, strands, Moves
<1>4. CASE \E k \in Ability : Require(s, k)
  <2>1. PICK k \in Ability : Require(s, k)
    BY <1>4
  <2>2. ability' \in [Asker -> Ability] /\ \A t \in Asker \ {s} : ability'[t] = ability[t]
    BY <1>1, <2>1 DEF Require
  <2>3. UNCHANGED <<grants, session, macro, asking, showing, called>>
        /\ spot' = [spot EXCEPT ![s] = "queued"] /\ spot[s] = "working"
    BY <2>1 DEF Require
  <2>4. QED
    BY <1>1, <1>2, <2>2, <2>3, MoveKeepsInv DEF Traced, Asking, Spot
<1>5. CASE TakeTurn(s)
  <2>1. UNCHANGED <<grants, session, macro, ability, showing, called>>
        /\ spot[s] = "queued" /\ asking = NoOne
    BY <1>5 DEF TakeTurn
  <2>2. CASE DecidedMeanwhile(s)
    <3>1. asking' = NoOne /\ spot' = [spot EXCEPT ![s] = "working"]
      BY <1>5, <2>1, <2>2 DEF TakeTurn
    <3>2. QED
      BY <1>1, <1>2, <2>1, <3>1, MoveKeepsInv DEF Traced, Asking, Spot
  <2>3. CASE ~DecidedMeanwhile(s)
    <3>1. asking' = s /\ spot' = [spot EXCEPT ![s] = "turn"]
      BY <1>5, <2>1, <2>3 DEF TakeTurn
    <3>2. ~Answered(macro[s], ability'[s])
      BY <2>1, <2>3 DEF DecidedMeanwhile, Decided
    <3>3. QED
      BY <1>1, <1>2, <2>1, <3>1, <3>2, MoveKeepsInv DEF Traced, Asking, Spot
  <2>4. QED
    BY <2>2, <2>3
<1>6. CASE AskUser(s)
  <2>1. UNCHANGED <<grants, session, turns, strands>>
        /\ spot' = [spot EXCEPT ![s] = "dialog"] /\ spot[s] = "working"
    BY <1>6 DEF AskUser
  <2>2. QED
    BY <1>1, <1>2, <2>1, MoveKeepsInv DEF Traced, Asking, Spot
<1>7. CASE Show(s)
  <2>1. UNCHANGED <<grants, session, asking, strands>> /\ showing' = s
    BY <1>7 DEF Show
  <2>2. CASE spot[s] = "turn" /\ spot' = [spot EXCEPT ![s] = "shown"]
    BY <1>1, <1>2, <1>3, <2>1, <2>2, MoveKeepsInv DEF Traced, Asking, Spot
  <2>3. CASE spot[s] = "dialog" /\ spot' = [spot EXCEPT ![s] = "open"]
    BY <1>1, <1>2, <2>1, <2>3, MoveKeepsInv DEF Traced, Asking, Spot
  <2>4. QED
    BY <1>7, <2>2, <2>3 DEF Show
<1>8. CASE GiveUpTurn(s) \/ Unanswered(s)
  <2>1. UNCHANGED <<grants, session, strands>>
        /\ showing' \in {showing, NoOne}
        /\ asking' = (IF asking = s THEN NoOne ELSE asking)
        /\ spot' = [spot EXCEPT ![s] = "working"]
        /\ spot[s] \in {"turn", "dialog", "shown", "open"}
    BY <1>8 DEF GiveUpTurn, Unanswered
  <2>2. QED
    BY <1>1, <1>2, <2>1, MoveKeepsInv DEF Traced, Asking, Spot
<1>9. CASE Answer(s)
  <2>1. UNCHANGED <<grants, session, asking, strands>> /\ showing' = NoOne
    BY <1>9 DEF Answer
  <2>2. ASSUME NEW reply \in {"always", "once", "deny"},
               spot[s] = "shown", spot' = [spot EXCEPT ![s] = reply]
        PROVE  PermissionsInv'
    BY <1>1, <1>2, <1>3, <2>1, <2>2, MoveKeepsInv DEF Traced, Asking, Spot
  <2>3. CASE spot[s] = "open" /\ spot' = [spot EXCEPT ![s] = "working"]
    BY <1>1, <1>2, <2>1, <2>3, MoveKeepsInv DEF Traced, Asking, Spot
  <2>4. QED
    BY <1>9, <2>2, <2>3 DEF Answer
<1>10. CASE CallOff(s)
  <2>1. UNCHANGED <<grants, session, turns, spot, macro, ability>>
        /\ called' \in [Asker -> BOOLEAN]
    BY <1>1, <1>10 DEF CallOff
  <2>2. QED
    BY <2>1 DEF PermissionsInv, PermissionsTypeOK, TurnIsHeld, AskedOnce,
                Answered, AnswersEndWithRuns, Traced
<1>11. QED
  BY <1>4, <1>5, <1>6, <1>7, <1>8, <1>9, <1>10

(***************************************************************************)
(* The answer is stored, and with it the turn to ask is over.              *)
(***************************************************************************)
LEMMA StoreAnswerStep ==
  ASSUME PermissionsInv, NEW s \in Asker, StoreAnswer(s)
  PROVE  PermissionsInv'
<1>. USE PermissionsAssumption DEF strands, Moves
<1>1. PermissionsTypeOK /\ TurnIsHeld /\ AskedOnce /\ AnswersEndWithRuns
  BY DEF PermissionsInv
<1>2. asking' = NoOne /\ UNCHANGED <<showing, macro, ability, called>>
      /\ spot' = [spot EXCEPT ![s] = "working"]
      /\ spot[s] \in {"always", "once", "deny"}
  BY DEF StoreAnswer
<1>3. asking = s /\ ~Answered(macro[s], ability[s])
  BY <1>1, <1>2 DEF TurnIsHeld, AskedOnce, Asking
<1>4. /\ spot' \in [Asker -> Spot] /\ spot'[s] = "working"
      /\ \A t \in Asker \ {s} : spot'[t] = spot[t] /\ spot'[t] \notin Asking
  BY <1>1, <1>2, <1>3 DEF PermissionsTypeOK, TurnIsHeld, Spot
<1>5. TurnIsHeld'
  BY <1>2, <1>4 DEF TurnIsHeld, Asking
<1>6. CASE spot[s] = "always"
  <2>1. session' = session
        /\ grants' = [grants EXCEPT ![macro[s]] = @ \union {ability[s]}]
    BY <1>6 DEF StoreAnswer
  <2>2. grants' \in Store
    <3>1. DOMAIN grants \in SUBSET Macro /\ grants \in [DOMAIN grants -> SUBSET Ability]
      BY <1>1, StoreElim DEF PermissionsTypeOK
    <3>2. ability[s] \in Ability
      BY <1>1 DEF PermissionsTypeOK
    <3>3. grants' \in [DOMAIN grants -> SUBSET Ability]
      BY <2>1, <3>1, <3>2
    <3>4. QED
      BY <3>1, <3>3, StoreIntro
  <2>3. PermissionsTypeOK'
    BY <1>1, <1>2, <1>4, <2>1, <2>2 DEF PermissionsTypeOK
  <2>4. AskedOnce'
    BY <1>1, <1>2, <1>4, <2>1 DEF AskedOnce, Answered, Asking
  <2>5. AnswersEndWithRuns'
    BY <1>1, <1>2, <1>4, <2>1 DEF AnswersEndWithRuns, Traced
  <2>6. QED
    BY <1>5, <2>3, <2>4, <2>5 DEF PermissionsInv
<1>7. CASE spot[s] \in {"once", "deny"}
  <2>1. PICK ok \in BOOLEAN :
          session' = session \union {<<macro[s], ability[s], ok>>}
    BY <1>7 DEF StoreAnswer
  <2>2. grants' = grants
    BY <1>7 DEF StoreAnswer
  <2>3. PermissionsTypeOK'
    BY <1>1, <1>2, <1>4, <2>1, <2>2 DEF PermissionsTypeOK
  <2>4. AskedOnce'
    <3>1. \A t \in Asker : spot'[t] \notin Asking
      BY <1>4 DEF Asking
    <3>2. \A other \in BOOLEAN : <<macro[s], ability[s], other>> \notin session
      BY <1>3 DEF Answered
    <3>3. ASSUME NEW m \in Macro, NEW k \in Ability,
                 <<m, k, TRUE>> \in session', <<m, k, FALSE>> \in session'
          PROVE  FALSE
      BY <1>1, <2>1, <3>2, <3>3 DEF AskedOnce
    <3>4. QED
      BY <3>1, <3>3 DEF AskedOnce, Asking
  <2>5. AnswersEndWithRuns'
    <3>1. \A t \in Asker : Traced(t) \/ spot[t] = "last" =>
            Traced(t)' \/ spot'[t] = "last"
      BY <1>4 DEF Traced
    <3>2. Traced(s)'
      BY <1>4 DEF Traced
    <3>3. \A a \in session' : a \in session \/ a[1] = macro[s]
      BY <2>1
    <3>4. QED
      BY <1>1, <1>2, <3>1, <3>2, <3>3 DEF AnswersEndWithRuns
  <2>6. QED
    BY <1>5, <2>3, <2>4, <2>5 DEF PermissionsInv
<1>8. QED
  BY <1>2, <1>6, <1>7

(***************************************************************************)
(* A strand enters and leaves the trace.                                   *)
(***************************************************************************)
LEMMA TraceStep ==
  ASSUME PermissionsInv, NEW s \in Asker,
         \/ \E m \in Macro : EnterTrace(s, m)
         \/ LeaveTrace(s) \/ ForgetAnswers(s)
  PROVE  PermissionsInv'
<1>. USE PermissionsAssumption DEF turns, strands, Moves
<1>1. PermissionsTypeOK /\ TurnIsHeld /\ AskedOnce /\ AnswersEndWithRuns
  BY DEF PermissionsInv
<1>2. CASE \E m \in Macro : EnterTrace(s, m)
  <2>1. PICK m \in Macro : EnterTrace(s, m)
    BY <1>2
  <2>2. UNCHANGED <<grants, session, asking, showing, ability>>
        /\ spot[s] = "out"
        /\ spot' = [spot EXCEPT ![s] = "working"]
        /\ macro' = [macro EXCEPT ![s] = m]
        /\ called' = [called EXCEPT ![s] = FALSE]
    BY <2>1 DEF EnterTrace
  <2>3. /\ spot' \in [Asker -> Spot] /\ spot'[s] = "working"
        /\ macro' \in [Asker -> Macro] /\ called' \in [Asker -> BOOLEAN]
        /\ \A t \in Asker \ {s} : spot'[t] = spot[t] /\ macro'[t] = macro[t]
    BY <1>1, <2>2 DEF PermissionsTypeOK, Spot
  <2>4. PermissionsTypeOK'
    BY <1>1, <2>2, <2>3 DEF PermissionsTypeOK
  <2>5. TurnIsHeld'
    BY <1>1, <2>2, <2>3 DEF TurnIsHeld, Asking
  <2>6. AskedOnce'
    BY <1>1, <2>2, <2>3 DEF AskedOnce, Answered
  <2>7. AnswersEndWithRuns'
    BY <1>1, <2>2, <2>3 DEF AnswersEndWithRuns, Traced
  <2>8. QED
    BY <2>4, <2>5, <2>6, <2>7 DEF PermissionsInv
<1>3. CASE LeaveTrace(s)
  <2>1. UNCHANGED <<grants, session, turns, strands>> /\ spot[s] = "working"
        /\ spot' = [spot EXCEPT ![s] = IF IsLast(s) THEN "last" ELSE "out"]
    BY <1>3 DEF LeaveTrace
  <2>2. /\ spot' \in [Asker -> Spot] /\ spot'[s] \in {"last", "out"}
        /\ \A t \in Asker \ {s} : spot'[t] = spot[t]
    BY <1>1, <2>1 DEF PermissionsTypeOK, Spot
  <2>3. PermissionsTypeOK'
    BY <1>1, <2>1, <2>2 DEF PermissionsTypeOK
  <2>4. TurnIsHeld'
    BY <1>1, <2>1, <2>2 DEF TurnIsHeld, Asking
  <2>5. AskedOnce'
    BY <1>1, <2>1, <2>2 DEF AskedOnce, Answered
  <2>6. AnswersEndWithRuns'
    <3>1. CASE IsLast(s)
      <4>1. spot'[s] = "last"
        BY <1>1, <2>1, <3>1 DEF PermissionsTypeOK
      <4>2. QED
        BY <1>1, <2>1, <2>2, <4>1 DEF AnswersEndWithRuns, Traced
    <3>2. CASE ~IsLast(s)
      <4>1. PICK t \in Asker \ {s} : Traced(t) /\ macro[t] = macro[s]
        BY <3>2 DEF IsLast
      <4>2. QED
        BY <1>1, <2>1, <2>2, <4>1 DEF AnswersEndWithRuns, Traced
    <3>3. QED
      BY <3>1, <3>2
  <2>7. QED
    BY <2>3, <2>4, <2>5, <2>6 DEF PermissionsInv
<1>4. CASE ForgetAnswers(s)
  <2>1. UNCHANGED <<grants, turns, strands>> /\ spot[s] = "last"
        /\ spot' = [spot EXCEPT ![s] = "out"]
        /\ session' = {a \in session : a[1] # macro[s]}
    BY <1>4 DEF ForgetAnswers
  <2>2. /\ spot' \in [Asker -> Spot] /\ spot'[s] = "out"
        /\ \A t \in Asker \ {s} : spot'[t] = spot[t]
    BY <1>1, <2>1 DEF PermissionsTypeOK, Spot
  <2>3. PermissionsTypeOK'
    BY <1>1, <2>1, <2>2 DEF PermissionsTypeOK
  <2>4. TurnIsHeld'
    BY <1>1, <2>1, <2>2 DEF TurnIsHeld, Asking
  <2>5. AskedOnce'
    BY <1>1, <2>1, <2>2 DEF AskedOnce, Answered
  <2>6. AnswersEndWithRuns'
    BY <1>1, <2>1, <2>2 DEF AnswersEndWithRuns, Traced
  <2>7. QED
    BY <2>3, <2>4, <2>5, <2>6 DEF PermissionsInv
<1>5. QED
  BY <1>2, <1>3, <1>4

LEMMA UserStep ==
  ASSUME PermissionsInv, NEW m \in Macro, ChangesGrants(m)
  PROVE  PermissionsInv'
<1>1. grants' \in Store
  <2>1. DOMAIN grants \in SUBSET Macro /\ grants \in [DOMAIN grants -> SUBSET Ability]
    BY StoreElim DEF PermissionsInv, PermissionsTypeOK
  <2>2. ASSUME NEW kinds \in SUBSET Ability, RestrictMacro(m, kinds)
        PROVE  grants' \in Store
    BY <2>1, <2>2, StoreIntro DEF RestrictMacro
  <2>3. CASE TrustMacro(m)
    BY <2>1, <2>3, StoreIntro DEF TrustMacro
  <2>4. ASSUME NEW k \in Ability, NEW on \in BOOLEAN, SetAllowed(m, k, on)
        PROVE  grants' \in Store
    BY <2>1, <2>2, <2>4 DEF SetAllowed
  <2>5. QED
    BY <2>2, <2>3, <2>4 DEF ChangesGrants
<1>2. UNCHANGED <<session, turns, spot, strands>>
  BY DEF ChangesGrants, SetAllowed, RestrictMacro, TrustMacro
<1>3. QED
  BY <1>1, <1>2
  DEF PermissionsInv, PermissionsTypeOK, TurnIsHeld, Asking, AskedOnce,
      AnswersEndWithRuns, Traced, Answered, turns, strands

LEMMA PermissionsSafe == AskSpec => []PermissionsInv
<1>1. PermissionsInv /\ [AskNext]_askVars => PermissionsInv'
  <2> SUFFICES ASSUME PermissionsInv, [AskNext]_askVars
               PROVE  PermissionsInv'
    OBVIOUS
  <2>1. ASSUME NEW s \in Asker, Asks(s)
        PROVE  PermissionsInv'
    BY <2>1, QuietStrandStep, StoreAnswerStep, TraceStep DEF Asks
  <2>2. CASE UNCHANGED askVars
    BY <2>2
    DEF askVars, turns, strands, PermissionsInv, PermissionsTypeOK, TurnIsHeld,
        Asking, AskedOnce, AnswersEndWithRuns, Traced, Answered
  <2>3. QED
    BY <2>1, <2>2, UserStep DEF AskNext
<1>2. QED
  BY <1>1, AskInitInv, PTL DEF AskSpec

\* The types of permissions.rs and prompt.rs, and with them that a strand is at
\* one place of check() at a time.
THEOREM PermissionsTypes == AskSpec => []PermissionsTypeOK
BY PermissionsSafe, PTL DEF PermissionsInv

\* "Another strand may have asked while this one waited" (permissions.rs:175):
\* nobody is asked what was answered for these runs of the macro, and no answer
\* contradicts another.
THEOREM NobodyAskedTwice == AskSpec => []AskedOnce
BY PermissionsSafe, PTL DEF PermissionsInv

\* "until the macro's runs end" (permissions.rs:34): answers are forgotten with
\* the last strand of their macro, however strands come and go.
THEOREM AnswersAreForgotten == AskSpec => []AnswersEndWithRuns
BY PermissionsSafe, PTL DEF PermissionsInv

=============================================================================
