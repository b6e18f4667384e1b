\* Three runs of two macros, each with one strand that calls, or four runs of one
\* macro, each with two; the file of one macro, with two runs that save an older
\* copy and a disk that may refuse to write; two strands at the lockstep clock; one
\* strand with a schedule over five minutes, of every kind; one open macro with two
\* signals on their way; two editors, and queues of two.
CONSTANTS
  Runs = {r1, r2, r3}
  Macros = {m1, m2}
  MoreRuns = {r1, r2, r3, r4}
  MAX_RUNS = 2
  RunStrand = {s1, s2}
  None = None
  SavedMacro = {f1}
  EndingRun = {e1, e2}
  Saver = Saver
  App = App
  Outside = Outside
  Exit = Exit
  NoThread = NoThread
  Started = {TRUE}
  IoFails = TRUE
  MaxVersion = 3
  Timed = {t1}
  DayLength = 2
  SaveEvery = 2
  MaxCatchUp = 5
  EndOfTime = 9
  Doc = {x}
  NoDoc = NoDoc
  MaxBlocks = 2
  UNDO_LIMIT = 1
  MaxSignals = 2
  MaxGen = 3
  HostStrand = {h1, h2}
  MaxTime = 2
  Other = Other
  EventCap = 2
  LineCap = 2
  MaxChanges = 2
SPECIFICATION DaemonSpec
SYMMETRY Symmetry
INVARIANTS
  DaemonTypeOK
  RegistryIsExact
  CallsBounded
  LoopingMeansARun
  ACopySurvives
  StepWaitsForStrands
  ExactPlayback
  NoTimeTwice
  NoMinuteMissed
  CountdownIsAlive
  StopIsOnItsWay
  NewestShown
PROPERTIES
  StopReachesCallee
CHECK_DEADLOCK FALSE
