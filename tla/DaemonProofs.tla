----------------------------- MODULE DaemonProofs -----------------------------
(***************************************************************************)
(* Proofs about MCDaemon: the parts of the daemon, of which one moves and  *)
(* the others stay as they start, keep what is proved of each of them.     *)
(***************************************************************************)
EXTENDS MCDaemon, SaveQueueProofs, ClockProofs, EditorProofs

DaemonTypesInv == TypeInv /\ TimeWatchTypeOK /\ DocumentInv

LEMMA DaemonInitTypes == DaemonInit => DaemonTypesInv
<1> SUFFICES ASSUME DaemonInit PROVE DaemonTypesInv
  OBVIOUS
<1>1. SaveInit /\ WatchInit /\ DocumentInit
  BY DEF DaemonInit
<1>2. QED
  BY <1>1, TypeInit, WatchTypesInit, DocumentInitInv DEF DaemonTypesInv

\* A part that does not move takes a stuttering step of its own.
LEMMA PartsStepOrStutter ==
  ASSUME [DaemonNext]_daemonVars
  PROVE  /\ [SaveNext]_saveVars /\ [WatchNext]_watchVars
         /\ [DocumentNext]_documentVars
<1>1. CASE DaemonNext
  BY <1>1 DEF DaemonNext, SavesNext, EditorNext
<1>2. CASE UNCHANGED daemonVars
  BY <1>2 DEF daemonVars
<1>3. QED
  BY <1>1, <1>2

(***************************************************************************)
(* What the save queue, the watcher of schedules and the open macro keep   *)
(* has its type in every state of the daemon, whichever part moves.        *)
(***************************************************************************)
THEOREM DaemonTypes == DaemonSpec => []DaemonTypeOK
<1>1. DaemonInit => DaemonTypesInv
  BY DaemonInitTypes
<1>2. DaemonTypesInv /\ [DaemonNext]_daemonVars => DaemonTypesInv'
  BY PartsStepOrStutter, TypeStep, WatchTypesStep, DocumentStep
  DEF DaemonTypesInv
<1>3. DaemonTypesInv => DaemonTypeOK
  BY DocumentTypesImply
  DEF DaemonTypesInv, TypeInv, DocumentInv, DaemonTypeOK
<1>4. QED
  BY <1>1, <1>2, <1>3, PTL DEF DaemonSpec

===============================================================================
