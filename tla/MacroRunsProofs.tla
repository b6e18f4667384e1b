--------------------------- MODULE MacroRunsProofs ---------------------------
(***************************************************************************)
(* Proofs about MacroRuns, for any number of runs and macros.              *)
(***************************************************************************)
EXTENDS MacroRuns, FiniteSetTheorems, TLAPS

\* Case analysis on the kind that fits a place.
LEMMA KindsFit ==
  /\ Kinds("idle") = {None}
  /\ Kinds("fired") = {"fired"} /\ Kinds("checked") = {"fired"}
  /\ Kinds("guarded") = {"hotkey"} /\ Kinds("cleared") = {"hotkey"}
  /\ Kinds("spawned") = Kind \ {"fired"}
  /\ \A place \in {"running", "over", "unregistered", "persisted"} :
       Kinds(place) = Kind
  BY DEF Kinds

-----------------------------------------------------------------------------
(* Types and the registry *)

ExactInv == TypeOK /\ RegistryIsExact

LEMMA ExactInit == Init => ExactInv
  BY KindsFit DEF Init, ExactInv, TypeOK, RegistryIsExact, Place, Strand,
                  NoStrandCalls, StrandFree

\* Most steps leave calls and waits alone.
LEMMA CallsStay ==
  calling' = calling /\ waiting' = waiting =>
    \A r \in Runs : NoStrandCalls(r)' <=> NoStrandCalls(r)
  BY DEF NoStrandCalls, StrandFree

\* A new run takes an idle slot.
LEMMA ExactStart ==
  ASSUME ExactInv, NEW r \in Runs, NEW m \in Macros,
         Press(r, m) \/ Hotkey(r, m) \/ Fire(r, m) \/ CommandLine(r, m)
  PROVE  ExactInv'
<1>. USE KindsFit, CallsStay, MacroRunsAssumption
     DEF ExactInv, TypeOK, RegistryIsExact, Place, Kind, New, Goes
<1>1. CASE Press(r, m)
  BY <1>1 DEF Press
<1>2. CASE Hotkey(r, m)
  BY <1>2 DEF Hotkey
<1>3. CASE Fire(r, m)
  BY <1>3 DEF Fire, app
<1>4. CASE CommandLine(r, m)
  BY <1>4 DEF CommandLine, HostStart, BeginRun, app
<1>5. QED
  BY <1>1, <1>2, <1>3, <1>4

\* The steps on the way to the blocks.
LEMMA ExactBegin ==
  ASSUME ExactInv, NEW r \in Runs,
         \/ SpawnFails(r) \/ Guard(r) \/ ChecksPaused(r) \/ FiresNothing(r)
         \/ Begin(r) \/ BeginStarted(r)
  PROVE  ExactInv'
<1>. USE KindsFit, CallsStay, MacroRunsAssumption
     DEF ExactInv, TypeOK, RegistryIsExact, Place, Kind, Goes, app
<1>1. CASE SpawnFails(r)
  <2>1. /\ pc[r] = "spawned" /\ kind[r] = "button"
        /\ pc' = [pc EXCEPT ![r] = "idle"]
        /\ kind' = [kind EXCEPT ![r] = None]
        /\ macro' = [macro EXCEPT ![r] = None]
        /\ flag' = [flag EXCEPT ![r] = FALSE]
        /\ isLooping' = FALSE
        /\ UNCHANGED <<registered, guards, calling, waiting, triggersPaused,
                       stopper>>
    BY <1>1 DEF SpawnFails, Forget
  <2>2. TypeOK'
    <3>1. /\ pc' \in [Runs -> Place]
          /\ kind' \in [Runs -> Kind \union {None}]
          /\ macro' \in [Runs -> Macros \union {None}]
          /\ flag' \in [Runs -> BOOLEAN]
      BY <2>1
    <3>2. \A q \in Runs : kind'[q] \in Kinds(pc'[q])
      BY <2>1
    <3>3. NoStrandCalls(r) /\ \A q \in Runs : q # r => pc'[q] = pc[q]
      BY <2>1
    <3>4. QED
      BY <2>1, <3>1, <3>2, <3>3
  <2>3. RegistryIsExact'
    BY <2>1
  <2>4. QED
    BY <2>2, <2>3
<1>2. CASE Guard(r)
  BY <1>2 DEF Guard
<1>3. CASE ChecksPaused(r)
  BY <1>3 DEF ChecksPaused
<1>4. CASE FiresNothing(r)
  <2>1. CASE Forget(r, "fired")
    BY <1>4, <2>1 DEF FiresNothing, Forget
  <2>2. CASE Forget(r, "checked")
    BY <1>4, <2>2 DEF FiresNothing, Forget
  <2>3. QED
    BY <1>4, <2>1, <2>2 DEF FiresNothing
<1>5. CASE Begin(r)
  BY <1>5 DEF Begin, BeginRun
<1>6. CASE BeginStarted(r)
  BY <1>6 DEF BeginStarted
<1>7. QED
  BY <1>1, <1>2, <1>3, <1>4, <1>5, <1>6

\* The steps of a strand that calls another macro.
LEMMA ExactCall ==
  ASSUME ExactInv, NEW p \in Runs, NEW i \in RunStrand, Calls(p, i)
  PROVE  ExactInv'
<1>. USE KindsFit, MacroRunsAssumption
     DEF ExactInv, TypeOK, RegistryIsExact, Place, Kind, Goes, app, run, Strand,
         NoStrandCalls, StrandFree
<1>1. CASE CallCounts(p, i)
  BY <1>1 DEF CallCounts
<1>2. CASE CallFails(p, i)
  BY <1>2 DEF CallFails
<1>3. CASE WaitOver(p, i)
  BY <1>3 DEF WaitOver, LeavesWait
<1>4. CASE WaitStopped(p, i)
  BY <1>4 DEF WaitStopped, LeavesWait, Cleared
<1>5. ASSUME NEW q \in Runs, NEW m \in Macros, NEW wait \in BOOLEAN,
             CallStarts(p, i, q, m, wait)
      PROVE  ExactInv'
  BY <1>5 DEF CallStarts, HostStart, New, BeginRun
<1>6. QED
  BY <1>1, <1>2, <1>3, <1>4, <1>5 DEF Calls

\* The steps that end a run or tell runs to stop.
LEMMA ExactEnd ==
  ASSUME ExactInv, NEW r \in Runs,
         \/ LimitRun(r) \/ Returns(r) \/ EndRun(r) \/ Persist(r) \/ Done(r)
         \/ ClearLooping(r) \/ EndGuard(r)
  PROVE  ExactInv'
<1>. USE KindsFit, CallsStay, MacroRunsAssumption
     DEF ExactInv, TypeOK, RegistryIsExact, Place, Kind, Goes, app
<1>1. CASE LimitRun(r)
  BY <1>1 DEF LimitRun
<1>2. CASE Returns(r)
  BY <1>2 DEF Returns
<1>3. CASE EndRun(r)
  BY <1>3 DEF EndRun, Entry
<1>4. CASE Persist(r)
  BY <1>4 DEF Persist
<1>5. CASE Done(r)
  BY <1>5 DEF Done, Forget
<1>6. CASE ClearLooping(r)
  <2>0. isLooping' \in BOOLEAN /\ UNCHANGED <<triggersPaused, stopper>>
    BY <1>6 DEF ClearLooping, LoopOver
  <2>1. CASE kind[r] = "button"
    <3>1. Forget(r, "persisted") /\ UNCHANGED <<registered, guards, calling, waiting>>
      BY <1>6, <2>1 DEF ClearLooping
    <3>2. QED
      BY <2>0, <2>1, <3>1 DEF Forget
  <2>2. CASE kind[r] = "hotkey"
    BY <1>6, <2>0, <2>2 DEF ClearLooping
  <2>3. QED
    BY <1>6, <2>1, <2>2 DEF ClearLooping
<1>7. CASE EndGuard(r)
  BY <1>7 DEF EndGuard, Forget
<1>8. QED
  BY <1>1, <1>2, <1>3, <1>4, <1>5, <1>6, <1>7

\* The commands of the app.
LEMMA ExactCommand ==
  ASSUME ExactInv,
         \/ \E m \in Macros : StopMacro(m)
         \/ \E who \in {"loop", "emergency"} : StopAll(who)
         \/ StopState \/ ResumeTriggers
  PROVE  ExactInv'
<1>. USE CallsStay DEF ExactInv, TypeOK, RegistryIsExact
<1>1. ASSUME NEW m \in Macros, StopMacro(m) PROVE ExactInv'
  BY <1>1 DEF StopMacro, Cleared, app
<1>2. ASSUME NEW who \in {"loop", "emergency"}, StopAll(who) PROVE ExactInv'
  BY <1>2 DEF StopAll, Cleared
<1>3. CASE StopState
  BY <1>3 DEF StopState, run
<1>4. CASE ResumeTriggers
  BY <1>4 DEF ResumeTriggers, run
<1>5. QED
  BY <1>1, <1>2, <1>3, <1>4

LEMMA ExactStep == ExactInv /\ [Next]_vars => ExactInv'
<1> SUFFICES ASSUME ExactInv, [Next]_vars PROVE ExactInv'
  OBVIOUS
<1>1. CASE UNCHANGED vars
  BY <1>1, CallsStay DEF vars, run, app, ExactInv, TypeOK, RegistryIsExact
<1>2. CASE Next
  BY <1>2, ExactStart, ExactBegin, ExactCall, ExactEnd, ExactCommand
     DEF Next, Thread
<1>3. QED
  BY <1>1, <1>2

\* Every run is where its kind of run goes, and calls and waits only while its
\* blocks run.
THEOREM RunsTypes == Spec => []TypeOK
<1>1. ExactInv => TypeOK
  BY DEF ExactInv
<1>2. QED
  BY ExactInit, ExactStep, <1>1, PTL DEF Spec

\* A stop command finds exactly the runs in progress in the registry.
THEOREM RegistryAgrees == Spec => []RegistryIsExact
<1>1. ExactInv => RegistryIsExact
  BY DEF ExactInv
<1>2. QED
  BY ExactInit, ExactStep, <1>1, PTL DEF Spec

-----------------------------------------------------------------------------
(* The bound of the calls: those that were counted as allowed but have not   *)
(* started their run yet count as well.  At most every strand of every       *)
(* registered run is one of them.                                            *)

Load == Cardinality(Called) + Cardinality(calling)

MaxLoad == (Cardinality(RunStrand) + 1) * (MAX_RUNS - 1)

BoundInv == ExactInv /\ Load <= MaxLoad

LEMMA MaxLoadType ==
  /\ Cardinality(RunStrand) \in Nat
  /\ MaxLoad \in Nat
<1>1. Cardinality(RunStrand) \in Nat /\ MAX_RUNS - 1 \in Nat
  BY FS_CardinalityType, MacroRunsAssumption
<1>2. Cardinality(RunStrand) + 1 \in Nat
  BY <1>1
<1>3. \A a, b \in Nat : a * b \in Nat
  OBVIOUS
<1>4. QED
  BY <1>1, <1>2, <1>3 DEF MaxLoad

LEMMA FiniteParts ==
  ASSUME ExactInv
  PROVE  /\ IsFiniteSet(registered) /\ IsFiniteSet(guards)
         /\ IsFiniteSet(Called) /\ IsFiniteSet(calling)
         /\ Cardinality(Called) \in Nat /\ Cardinality(calling) \in Nat
         /\ Cardinality(Called) <= Cardinality(registered)
         /\ Cardinality(registered) \in Nat /\ Cardinality(guards) \in Nat
<1>1. /\ registered \subseteq Runs /\ guards \subseteq Runs
      /\ calling \subseteq Runs \X RunStrand /\ Called \subseteq registered
  BY DEF ExactInv, TypeOK, Called, Strand
<1>2. IsFiniteSet(registered) /\ IsFiniteSet(guards) /\ IsFiniteSet(calling)
  BY <1>1, FS_Subset, FS_Product, MacroRunsAssumption
<1>3. IsFiniteSet(Called) /\ Cardinality(Called) <= Cardinality(registered)
  BY <1>1, <1>2, FS_Subset
<1>4. QED
  BY <1>2, <1>3, FS_CardinalityType

LEMMA BoundInit == Init => BoundInv
<1> SUFFICES ASSUME Init PROVE BoundInv
  OBVIOUS
<1>1. Called = {} /\ calling = {}
  BY DEF Init, Called
<1>2. Load = 0
  BY <1>1, FS_EmptySet DEF Load
<1>3. QED
  BY <1>2, ExactInit, MaxLoadType DEF BoundInv

\* Most steps add neither a called run nor a call on its way.
LEMMA LoadShrinks ==
  ASSUME BoundInv, ExactInv',
         Called' \subseteq Called, calling' \subseteq calling
  PROVE  BoundInv'
<1>1. IsFiniteSet(Called) /\ IsFiniteSet(calling)
  BY FiniteParts DEF BoundInv
<1>2. /\ Cardinality(Called') <= Cardinality(Called)
      /\ Cardinality(calling') <= Cardinality(calling)
      /\ Cardinality(Called') \in Nat /\ Cardinality(calling') \in Nat
      /\ Cardinality(Called) \in Nat /\ Cardinality(calling) \in Nat
  BY <1>1, FS_Subset, FS_CardinalityType
<1>3. QED
  BY <1>2, MaxLoadType DEF BoundInv, Load

\* A call that is allowed: fewer than MAX_RUNS runs are registered, and whoever
\* calls is one of them.
LEMMA LoadCounted ==
  ASSUME BoundInv, ExactInv', NEW p \in Runs, NEW i \in RunStrand, CallCounts(p, i)
  PROVE  BoundInv'
<1>1. calling' \subseteq registered \X RunStrand /\ Called' = Called
  <2>1. \A r \in Runs : pc[r] = "running" => r \in registered
    BY DEF BoundInv, ExactInv, RegistryIsExact
  <2>2. \A s \in calling : s \in registered \X RunStrand
    BY <2>1 DEF BoundInv, ExactInv, TypeOK, Strand, NoStrandCalls, StrandFree
  <2>3. QED
    BY <2>1, <2>2 DEF CallCounts, run, Called
<1>2. /\ IsFiniteSet(registered)
      /\ Cardinality(Called) \in Nat
      /\ Cardinality(Called) <= Cardinality(registered)
      /\ Cardinality(registered) \in Nat /\ Cardinality(guards) \in Nat
  BY FiniteParts DEF BoundInv
<1>3. /\ Cardinality(calling') \in Nat
      /\ Cardinality(calling') <= Cardinality(registered) * Cardinality(RunStrand)
  <2>1. /\ IsFiniteSet(registered \X RunStrand)
        /\ Cardinality(registered \X RunStrand)
             = Cardinality(registered) * Cardinality(RunStrand)
    BY <1>2, FS_Product, MacroRunsAssumption
  <2>2. QED
    BY <1>1, <2>1, FS_Subset, FS_CardinalityType
<1>4. Cardinality(registered) <= MAX_RUNS - 1
  BY <1>2, MacroRunsAssumption DEF CallCounts, MayCall, Count
<1>5. Cardinality(registered) * Cardinality(RunStrand)
        <= (MAX_RUNS - 1) * Cardinality(RunStrand)
  <2>1. \A a, b, c \in Nat : a <= b => a * c <= b * c
    OBVIOUS
  <2>2. QED
    BY <1>2, <1>4, <2>1, MaxLoadType, MacroRunsAssumption
<1>6. /\ MaxLoad = (MAX_RUNS - 1) * Cardinality(RunStrand) + (MAX_RUNS - 1)
      /\ (MAX_RUNS - 1) * Cardinality(RunStrand) \in Nat
      /\ Cardinality(registered) * Cardinality(RunStrand) \in Nat
  <2>1. \A a, b \in Nat : (a + 1) * b = b * a + b /\ b * a \in Nat
    OBVIOUS
  <2>2. QED
    BY <1>2, <2>1, MaxLoadType, MacroRunsAssumption DEF MaxLoad
<1>7. Cardinality(Called') + Cardinality(calling') <= MaxLoad
  <2>1. \A a, b, c, d, e \in Nat :
          a <= c /\ b <= d /\ d <= e => a + b <= e + c
    OBVIOUS
  <2>2. Cardinality(Called) <= MAX_RUNS - 1 /\ MAX_RUNS - 1 \in Nat
    BY <1>2, <1>4, MacroRunsAssumption
  <2>3. QED
    BY <1>1, <1>2, <1>3, <1>5, <1>6, <2>1, <2>2
<1>8. QED
  BY <1>7 DEF BoundInv, Load, MaxLoad

\* The call starts its run.
LEMMA LoadStarted ==
  ASSUME BoundInv, ExactInv', NEW p \in Runs, NEW q \in Runs, NEW m \in Macros,
         NEW i \in RunStrand, NEW wait \in BOOLEAN, CallStarts(p, i, q, m, wait)
  PROVE  BoundInv'
<1>1. /\ <<p, i>> \in calling /\ calling' = calling \ {<<p, i>>}
      /\ Called' \subseteq Called \union {q}
  BY DEF CallStarts, HostStart, New, BeginRun, Called, BoundInv, ExactInv, TypeOK
<1>2. /\ IsFiniteSet(Called) /\ IsFiniteSet(calling)
      /\ Cardinality(Called) \in Nat /\ Cardinality(calling) \in Nat
  BY FiniteParts DEF BoundInv
<1>3. Cardinality(calling') = Cardinality(calling) - 1
  BY <1>1, <1>2, FS_RemoveElement
<1>4. /\ IsFiniteSet(Called \union {q})
      /\ Cardinality(Called \union {q}) <= Cardinality(Called) + 1
      /\ Cardinality(Called \union {q}) \in Nat
  <2>1. /\ IsFiniteSet(Called \union {q})
        /\ \/ Cardinality(Called \union {q}) = Cardinality(Called)
           \/ Cardinality(Called \union {q}) = Cardinality(Called) + 1
    BY <1>2, FS_AddElement
  <2>2. QED
    BY <1>2, <2>1
<1>5. \A S : S \subseteq Called \union {q} =>
        Cardinality(S) \in Nat /\ Cardinality(S) <= Cardinality(Called \union {q})
  BY <1>4, FS_Subset, FS_CardinalityType
<1>6. /\ Cardinality(Called') \in Nat
      /\ Cardinality(Called') <= Cardinality(Called) + 1
  <2>1. /\ Cardinality(Called') \in Nat
        /\ Cardinality(Called') <= Cardinality(Called \union {q})
    BY <1>1, <1>5
  <2>2. QED
    BY <1>2, <1>4, <2>1
<1>7. QED
  BY <1>2, <1>3, <1>6, MaxLoadType DEF BoundInv, Load, MaxLoad

\* Whatever else happens to the registry, nobody becomes a called run.
LEMMA NoNewCall ==
  ASSUME ExactInv, [Next]_vars,
         \A p \in Runs, i \in RunStrand : ~CallCounts(p, i),
         \A p, q \in Runs, i \in RunStrand, m \in Macros, wait \in BOOLEAN :
           ~CallStarts(p, i, q, m, wait)
  PROVE  Called' \subseteq Called /\ calling' \subseteq calling
<1>. USE KindsFit, MacroRunsAssumption DEF Called, ExactInv, TypeOK, Kind
<1>1. CASE UNCHANGED vars
  BY <1>1 DEF vars, run
<1>2. ASSUME NEW r \in Runs, NEW m \in Macros,
             Press(r, m) \/ Hotkey(r, m) \/ Fire(r, m) \/ CommandLine(r, m)
      PROVE  Called' \subseteq Called /\ calling' \subseteq calling
  BY <1>2 DEF Press, Hotkey, Fire, CommandLine, HostStart, New, Goes, BeginRun
<1>3. ASSUME NEW r \in Runs,
             \/ SpawnFails(r) \/ FiresNothing(r) \/ Done(r) \/ ClearLooping(r)
             \/ EndGuard(r) \/ EndRun(r)
      PROVE  Called' \subseteq Called /\ calling' \subseteq calling
  <2>1. /\ calling' = calling /\ registered' \subseteq registered
        /\ kind' = kind \/ kind' = [kind EXCEPT ![r] = None]
    BY <1>3 DEF SpawnFails, FiresNothing, Done, ClearLooping, EndGuard, EndRun,
                Forget
  <2>2. QED
    BY <2>1
<1>4. ASSUME NEW r \in Runs,
             \/ Guard(r) \/ ChecksPaused(r) \/ BeginStarted(r) \/ LimitRun(r)
             \/ Returns(r) \/ Persist(r)
      PROVE  Called' \subseteq Called /\ calling' \subseteq calling
  BY <1>4 DEF Guard, ChecksPaused, BeginStarted, LimitRun, Returns, Persist, run
<1>8. ASSUME NEW p \in Runs, NEW i \in RunStrand,
             CallFails(p, i) \/ WaitOver(p, i) \/ WaitStopped(p, i)
      PROVE  Called' \subseteq Called /\ calling' \subseteq calling
  BY <1>8 DEF CallFails, WaitOver, WaitStopped, run
<1>5. ASSUME NEW r \in Runs, Begin(r)
      PROVE  Called' \subseteq Called /\ calling' \subseteq calling
  <2>1. kind[r] # "called"
    BY <1>5 DEF Begin, Goes
  <2>2. QED
    BY <1>5, <2>1 DEF Begin, BeginRun
<1>6. ASSUME \/ \E m \in Macros : StopMacro(m)
             \/ \E who \in {"loop", "emergency"} : StopAll(who)
             \/ StopState \/ ResumeTriggers
      PROVE  Called' \subseteq Called /\ calling' \subseteq calling
  BY <1>6 DEF StopMacro, StopAll, StopState, ResumeTriggers, run
<1>7. QED
  BY <1>1, <1>2, <1>3, <1>4, <1>5, <1>6, <1>8 DEF Next, Thread, Calls

LEMMA BoundStep == BoundInv /\ [Next]_vars => BoundInv'
<1> SUFFICES ASSUME BoundInv, [Next]_vars PROVE BoundInv'
  OBVIOUS
<1>1. ExactInv /\ ExactInv'
  BY ExactStep DEF BoundInv
<1>2. CASE \E p \in Runs, i \in RunStrand : CallCounts(p, i)
  BY <1>1, <1>2, LoadCounted
<1>3. CASE \E p, q \in Runs, i \in RunStrand, m \in Macros, wait \in BOOLEAN :
             CallStarts(p, i, q, m, wait)
  BY <1>1, <1>3, LoadStarted
<1>4. CASE /\ \A p \in Runs, i \in RunStrand : ~CallCounts(p, i)
           /\ \A p, q \in Runs, i \in RunStrand, m \in Macros, wait \in BOOLEAN :
                ~CallStarts(p, i, q, m, wait)
  BY <1>1, <1>4, NoNewCall, LoadShrinks
<1>5. QED
  BY <1>2, <1>3, <1>4

\* However the checks and starts of all strands of all runs interleave, the runs
\* that blocks have started stay below MAX_RUNS times one more than the strands of
\* a run that call at the same time.
THEOREM CallsAreBounded == Spec => []CallsBounded
<1>1. BoundInv => CallsBounded
  <2> SUFFICES ASSUME BoundInv PROVE CallsBounded
    OBVIOUS
  <2>1. Cardinality(Called) \in Nat /\ Cardinality(calling) \in Nat
    BY FiniteParts DEF BoundInv
  <2>2. QED
    BY <2>1, MaxLoadType DEF BoundInv, Load, MaxLoad, CallsBounded
<1>2. QED
  BY BoundInit, BoundStep, <1>1, PTL DEF Spec

-----------------------------------------------------------------------------
(* Stopping what a stopped run waits for                                     *)

FlagInv == ExactInv /\ \A r \in Runs : flag[r] => r \in registered

LEMMA FlagInit == Init => FlagInv
  BY ExactInit DEF Init, FlagInv

LEMMA FlagStep == FlagInv /\ [Next]_vars => FlagInv'
<1> SUFFICES ASSUME FlagInv, [Next]_vars PROVE FlagInv'
  OBVIOUS
<1>1. ExactInv'
  BY ExactStep DEF FlagInv
<1>. USE DEF FlagInv, ExactInv, TypeOK, RegistryIsExact, Goes, New, Forget
<1>2. CASE UNCHANGED vars
  BY <1>1, <1>2 DEF vars, run
<1>3. ASSUME NEW r \in Runs, NEW m \in Macros,
             Press(r, m) \/ Hotkey(r, m) \/ Fire(r, m) \/ CommandLine(r, m)
      PROVE  FlagInv'
  BY <1>1, <1>3 DEF Press, Hotkey, Fire, CommandLine, HostStart, BeginRun
<1>4. ASSUME NEW r \in Runs,
             SpawnFails(r) \/ FiresNothing(r) \/ Done(r) \/ ClearLooping(r)
               \/ EndGuard(r)
      PROVE  FlagInv'
  <2>1. /\ UNCHANGED registered
        /\ flag' = flag \/ flag' = [flag EXCEPT ![r] = FALSE]
    BY <1>4 DEF SpawnFails, FiresNothing, Done, ClearLooping, EndGuard
  <2>2. QED
    BY <1>1, <2>1
<1>5. ASSUME NEW r \in Runs, Begin(r)
      PROVE  FlagInv'
  BY <1>1, <1>5 DEF Begin, BeginRun
<1>6. ASSUME NEW r \in Runs,
             Guard(r) \/ ChecksPaused(r) \/ BeginStarted(r) \/ Returns(r) \/ Persist(r)
      PROVE  FlagInv'
  <2>1. UNCHANGED <<registered, flag>>
    BY <1>6 DEF Guard, ChecksPaused, BeginStarted, Returns, Persist
  <2>2. QED
    BY <1>1, <2>1
<1>7. ASSUME NEW p \in Runs, NEW i \in RunStrand, Calls(p, i)
      PROVE  FlagInv'
  <2>1. CASE CallCounts(p, i) \/ CallFails(p, i) \/ WaitOver(p, i)
    BY <1>1, <2>1 DEF CallCounts, CallFails, WaitOver, run
  <2>2. CASE WaitStopped(p, i)
    BY <1>1, <2>2 DEF WaitStopped, Cleared
  <2>3. CASE \E q \in Runs, m \in Macros, wait \in BOOLEAN :
               CallStarts(p, i, q, m, wait)
    BY <1>1, <2>3 DEF CallStarts, HostStart, BeginRun
  <2>4. QED
    BY <1>7, <2>1, <2>2, <2>3 DEF Calls
<1>8. ASSUME NEW r \in Runs, LimitRun(r) \/ EndRun(r)
      PROVE  FlagInv'
  BY <1>1, <1>8 DEF LimitRun, EndRun, Entry
<1>9. ASSUME \/ \E m \in Macros : StopMacro(m)
             \/ \E who \in {"loop", "emergency"} : StopAll(who)
             \/ StopState \/ ResumeTriggers
      PROVE  FlagInv'
  BY <1>1, <1>9 DEF StopMacro, StopAll, StopState, ResumeTriggers, Cleared, run
<1>10. QED
  BY <1>2, <1>3, <1>4, <1>5, <1>6, <1>7, <1>8, <1>9 DEF Next, Thread

\* Only these steps end a wait.
LEMMA WaitEnds ==
  ASSUME FlagInv, [Next]_vars, NEW p \in Runs, NEW i \in RunStrand,
         waiting[<<p, i>>] # None, waiting'[<<p, i>>] = None
  PROVE  WaitOver(p, i) \/ WaitStopped(p, i)
<1>. USE DEF FlagInv, ExactInv, TypeOK, Strand
<1>1. waiting' # waiting
  OBVIOUS
<1>2. PICK q \in Runs, j \in RunStrand :
        \/ WaitOver(q, j) \/ WaitStopped(q, j)
        \/ \E r \in Runs, m \in Macros, wait \in BOOLEAN :
             CallStarts(q, j, r, m, wait)
  BY <1>1 DEF Next, Thread, Calls, vars, run, Press, Hotkey, Fire, CommandLine,
     SpawnFails, FiresNothing, Done, ClearLooping, EndGuard, Begin, Guard,
     ChecksPaused, BeginStarted, CallCounts, CallFails, Returns, Persist,
     LimitRun, EndRun, StopMacro, StopAll, StopState, ResumeTriggers
<1>3. ASSUME NEW r \in Runs, NEW m \in Macros, NEW wait \in BOOLEAN,
             CallStarts(q, j, r, m, wait)
      PROVE  FALSE
  BY <1>1, <1>3, MacroRunsAssumption DEF CallStarts
<1>4. CASE WaitOver(q, j) \/ WaitStopped(q, j)
  <2>1. waiting' = [waiting EXCEPT ![<<q, j>>] = None]
    BY <1>4 DEF WaitOver, WaitStopped, LeavesWait
  <2>2. <<q, j>> = <<p, i>>
    BY <2>1
  <2>3. q = p /\ j = i
    BY <2>2
  <2>4. QED
    BY <1>4, <2>3
<1>5. QED
  BY <1>2, <1>3, <1>4

\* A stopped run never leaves the run it waits for behind with its flag set.
THEOREM CalleesAreStopped == Spec => StopReachesCallee
<1> DEFINE Leaves(s) == waiting[s] # None /\ waiting'[s] = None
           Left(s) == pc[waiting[s]] = "idle" \/ ~flag'[waiting[s]]
<1>1. ASSUME FlagInv, [Next]_vars, NEW p \in Runs, NEW i \in RunStrand,
             Leaves(<<p, i>>)
      PROVE  Left(<<p, i>>)
  <2>1. WaitOver(p, i) \/ WaitStopped(p, i)
    BY <1>1, WaitEnds
  <2>2. waiting[<<p, i>>] \in Runs
    BY <1>1 DEF FlagInv, ExactInv, TypeOK, Strand
  <2>3. flag[waiting[<<p, i>>]] => waiting[<<p, i>>] \in Awaited(<<p, i>>)
    BY <1>1, <2>2 DEF FlagInv, OfMacro, Awaited
  <2>4. QED
    BY <2>1, <2>2, <2>3 DEF WaitOver, WaitStopped, Cleared
<1>2. FlagInv /\ [Next]_vars => [\A s \in Strand : Leaves(s) => Left(s)]_vars
  BY <1>1 DEF Strand
<1>3. QED
  BY FlagInit, FlagStep, <1>2, PTL DEF Spec, StopReachesCallee

-----------------------------------------------------------------------------
(* The sign of a run in progress                                            *)

\* The runs that have set is_looping and not cleared it.
Working(r) == pc[r] \notin {"idle", "cleared"} /\ kind[r] \in {"button", "hotkey"}

LoopInv == isLooping => \E r \in Runs : Working(r)

LEMMA LoopStep == ExactInv /\ LoopInv /\ [Next]_vars => LoopInv'
<1> SUFFICES ASSUME ExactInv, LoopInv, [Next]_vars PROVE LoopInv'
  OBVIOUS
<1>0. TypeOK
  BY DEF ExactInv
<1>1. CASE UNCHANGED vars
  BY <1>1 DEF vars, run, app, LoopInv, Working
\* Steps at which whoever works goes on working.
<1>2. ASSUME isLooping' => isLooping, \A r \in Runs : Working(r) => Working(r)'
      PROVE  LoopInv'
  BY <1>2 DEF LoopInv
<1>3. ASSUME NEW r \in Runs, NEW m \in Macros, Press(r, m) \/ Hotkey(r, m)
      PROVE  LoopInv'
  <2>1. Working(r)'
    BY <1>0, <1>3 DEF Press, Hotkey, New, Goes, Working, TypeOK
  <2>2. QED
    BY <2>1 DEF LoopInv
<1>4. ASSUME NEW r \in Runs, NEW m \in Macros, Fire(r, m) \/ CommandLine(r, m)
      PROVE  LoopInv'
  <2>1. isLooping' = isLooping
    BY <1>4 DEF Fire, CommandLine, app
  <2>2. \A q \in Runs : Working(q) => Working(q)'
    BY <1>0, <1>4 DEF Fire, CommandLine, HostStart, New, Goes, Working, TypeOK
  <2>3. QED
    BY <1>2, <2>1, <2>2
<1>5. ASSUME NEW r \in Runs, SpawnFails(r) \/ ClearLooping(r) PROVE LoopInv'
  BY <1>5 DEF SpawnFails, ClearLooping, LoopOver, LoopInv
<1>6. ASSUME NEW r \in Runs, FiresNothing(r) \/ Done(r) \/ EndGuard(r)
      PROVE  LoopInv'
  <2>1. isLooping' = isLooping /\ ~Working(r)
    BY <1>0, <1>6, KindsFit
       DEF FiresNothing, Done, EndGuard, Forget, Goes, app, Working, TypeOK
  <2>2. \A q \in Runs : q # r => pc'[q] = pc[q] /\ kind'[q] = kind[q]
    BY <1>0, <1>6 DEF FiresNothing, Done, EndGuard, Forget, Goes, TypeOK
  <2>3. QED
    BY <1>2, <2>1, <2>2 DEF Working
<1>7. ASSUME NEW r \in Runs,
             \/ Guard(r) \/ ChecksPaused(r) \/ Begin(r) \/ BeginStarted(r)
             \/ Returns(r) \/ EndRun(r) \/ Persist(r)
      PROVE  LoopInv'
  <2>1. isLooping' = isLooping /\ kind' = kind
    BY <1>7 DEF Guard, ChecksPaused, Begin, BeginStarted, Returns, EndRun, Persist,
                app
  <2>2. \A q \in Runs : pc'[q] = pc[q] \/ pc'[q] \notin {"idle", "cleared"}
    BY <1>0, <1>7 DEF Guard, ChecksPaused, Begin, BeginStarted, Returns, EndRun,
                      Persist, Goes, TypeOK
  <2>3. QED
    BY <1>2, <2>1, <2>2 DEF Working
<1>8. ASSUME NEW r \in Runs, NEW i \in RunStrand, NEW q \in Runs,
             NEW m \in Macros, NEW wait \in BOOLEAN, CallStarts(r, i, q, m, wait)
      PROVE  LoopInv'
  <2>1. isLooping' = isLooping
    BY <1>8 DEF CallStarts, app
  <2>2. \A p \in Runs : Working(p) => Working(p)'
    BY <1>0, <1>8 DEF CallStarts, HostStart, New, Goes, Working, TypeOK
  <2>3. QED
    BY <1>2, <2>1, <2>2
<1>9. ASSUME NEW r \in Runs, NEW i \in RunStrand,
             \/ CallCounts(r, i) \/ CallFails(r, i)
             \/ WaitOver(r, i) \/ WaitStopped(r, i)
      PROVE  LoopInv'
  BY <1>2, <1>9 DEF CallCounts, CallFails, WaitOver, WaitStopped, run, app, Working
<1>12. ASSUME NEW r \in Runs, LimitRun(r) PROVE LoopInv'
  BY <1>2, <1>12 DEF LimitRun, app, Working
<1>10. ASSUME \/ \E m \in Macros : StopMacro(m)
              \/ \E who \in {"loop", "emergency"} : StopAll(who)
              \/ StopState \/ ResumeTriggers
       PROVE  LoopInv'
  BY <1>2, <1>10 DEF StopMacro, StopAll, StopState, ResumeTriggers, run, app, Working
<1>11. QED
  BY <1>1, <1>3, <1>4, <1>5, <1>6, <1>7, <1>8, <1>9, <1>10, <1>12
     DEF Next, Thread, Calls

\* The window never goes on showing a run when the last pressed or hotkey run is
\* over: each of them, also one whose thread never came up, clears the flag on its
\* way out.
THEOREM LoopingIsARun == Spec => []LoopingMeansARun
<1>1. Init => LoopInv
  BY DEF Init, LoopInv
<1>2. LoopInv => LoopingMeansARun
  BY DEF LoopInv, LoopingMeansARun, Working
<1>3. QED
  BY ExactInit, ExactStep, <1>1, LoopStep, <1>2, PTL DEF Spec

=============================================================================
