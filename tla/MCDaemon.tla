------------------------------- MODULE MCDaemon -------------------------------
(***************************************************************************)
(* One run, of safety only, for six parts of the daemon that are modelled  *)
(* apart: the runs of macros, the files their ends save, the clock a host  *)
(* drives, the watcher of schedules, the macro that is open in the editor, *)
(* and the link to the editor.  `part` says which of them moves; the       *)
(* others stay as they start.  The runs move in two parts: runs of every   *)
(* kind with one strand each that calls, and more runs of one macro whose  *)
(* strands call, and are stopped, all at once.                             *)
(***************************************************************************)
EXTENDS MacroRuns, SaveQueue, HostClock, TimeWatch, EditorDocument, EditorLink,
        TLC

CONSTANT MoreRuns   \* enough to get past what CallsBounded allows

VARIABLE part

More == INSTANCE MacroRuns WITH Runs <- MoreRuns

daemonVars ==
  <<part, vars, saveVars, clockVars, watchVars, documentVars, linkVars>>

\* Parts that start in several ways start in one where they do not move.
StartsSimply ==
  /\ part = "schedules" \/ \A s \in Timed :
       header[s] = [kind |-> "cron", when |-> 1] /\ ~catchUp[s]
  /\ part = "editor" \/ \A d \in Doc : made[d] = 0

OneMacro == CHOOSE m \in Macros : TRUE
OneStrand == CHOOSE i \in RunStrand : TRUE

\* One strand of each run calls.  A run that is out of the registry saves its
\* variables at once, and triggers that are paused are resumed before anything
\* but a trigger has seen it: nothing else here depends on either.
RunsNext ==
  /\ Next
  /\ \A s \in calling' : s[2] = OneStrand
  /\ \A r \in Runs : pc[r] = "unregistered" => pc'[r] = "persisted"
  /\ triggersPaused =>
       ~triggersPaused' \/ \E r \in Runs : pc[r] = "fired" /\ pc'[r] = "idle"

\* Runs that the command line and blocks start, and a block or a limit stops.
CallsNext ==
  \E p \in MoreRuns :
    \/ More!CommandLine(p, OneMacro)
    \/ More!BeginStarted(p) \/ More!LimitRun(p) \/ More!Returns(p)
    \/ More!EndRun(p) \/ More!Persist(p) \/ More!Done(p)
    \/ \E i \in RunStrand :
         \/ More!CallCounts(p, i) \/ More!WaitOver(p, i) \/ More!WaitStopped(p, i)
         \/ \E q \in MoreRuns, wait \in BOOLEAN :
              More!CallStarts(p, i, q, OneMacro, wait)

\* Who lists the files without the state lock writes as the exit does.
SavesNext == SaveNext /\ at'[Outside] = "idle"

\* Macros are deleted, and neighbours opened, in the first generation.
EditorNext ==
  /\ DocumentNext
  /\ gen' > 1 => deleting' = NotDeleting /\ reading' = NoCopyHeld

DaemonInit ==
  /\ part \in {"runs", "calls", "saves", "clock", "schedules", "editor", "link"}
  /\ IF part = "calls" THEN More!Init ELSE Init
  /\ SaveInit /\ ClockInit /\ WatchInit /\ DocumentInit /\ LinkInit
  /\ StartsSimply

DaemonNext ==
  /\ UNCHANGED part
  /\ \/ /\ part = "runs"
        /\ RunsNext
        /\ UNCHANGED <<saveVars, clockVars, watchVars, documentVars, linkVars>>
     \/ /\ part = "calls"
        /\ CallsNext
        /\ UNCHANGED <<saveVars, clockVars, watchVars, documentVars, linkVars>>
     \/ /\ part = "saves"
        /\ SavesNext
        /\ UNCHANGED <<vars, clockVars, watchVars, documentVars, linkVars>>
     \/ /\ part = "clock"
        /\ ClockNext
        /\ UNCHANGED <<vars, saveVars, watchVars, documentVars, linkVars>>
     \/ /\ part = "schedules"
        /\ WatchNext
        /\ UNCHANGED <<vars, saveVars, clockVars, documentVars, linkVars>>
     \/ /\ part = "editor"
        /\ EditorNext
        /\ UNCHANGED <<vars, saveVars, clockVars, watchVars, linkVars>>
     \/ /\ part = "link"
        /\ LinkNext
        /\ UNCHANGED <<vars, saveVars, clockVars, watchVars, documentVars>>

DaemonSpec == DaemonInit /\ [][DaemonNext]_daemonVars

\* Runs and macros are not told apart where every kind of run moves, nor runs
\* elsewhere.
Symmetry == Permutations(Runs) \union Permutations(Macros)

\* What the save queue, the watcher of schedules and the open macro keep has its
\* type: what each module's own type invariant says of its part of the code's
\* state.
DaemonTypeOK == SaveTypeOK /\ TimeWatchTypeOK /\ DocumentTypeOK

=============================================================================
