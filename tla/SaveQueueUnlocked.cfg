\* Two runs of one macro end at once before anything was edited.
CONSTANTS
  SavedMacro = {m1}
  EndingRun = {r1, r2}
  Saver = Saver
  App = App
  Outside = Outside
  Exit = Exit
  NoThread = NoThread
  Started = {FALSE}
  IoFails = FALSE
  MaxVersion = 3
SPECIFICATION SaveSpec
INVARIANTS
  ACopySurvives
CHECK_DEADLOCK FALSE
