\* Three strands at two named locks, each nested up to two deep; two strands and
\* up to two steps in a row in the debugger; two strands of two macros that ask;
\* one macro's file, before and after the first edit, with a command, a reader
\* outside the state lock and an exit.
CONSTANTS
  Strands = {s1, s2, s3}
  Names = {n1, n2}
  NoOwner = NoOwner
  NoName = NoName
  MaxNesting = 2
  DebugStrand = {d1, d2}
  MaxStep = 2
  Asker = {a1, a2}
  Macro = {m1, m2}
  Ability = {k1}
  NoOne = NoOne
  SavedMacro = {f1}
  EndingRun = {}
  Saver = Saver
  App = App
  Outside = Outside
  Exit = Exit
  NoThread = NoThread
  Started = {FALSE}
  IoFails = FALSE
  MaxVersion = 3
SPECIFICATION ComponentsSpec
INVARIANTS
  DepthCountsGuards
  NoNapOnAFreeLock
  ArmedWhenNeeded
  OneBlockPerStep
  AskedOnce
  AnswersEndWithRuns
  CommandsSeeSaves
  EditsSurvive
  RemovedStaysRemoved
  ExitSavesQueued
PROPERTIES
  StoppedStrandLetsGo
  ImplementsMutex
  WaitsEnd
  StoppedAskerReturns
  ImplementsStore
  QueuedReachesDisk
CHECK_DEADLOCK FALSE
