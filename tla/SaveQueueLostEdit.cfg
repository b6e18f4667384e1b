\* A run that ends while its macro is edited, then a refresh.
CONSTANTS
  SavedMacro = {m1}
  EndingRun = {r1}
  Saver = Saver
  App = App
  Outside = Outside
  Exit = Exit
  NoThread = NoThread
  Started = {TRUE}
  IoFails = FALSE
  MaxVersion = 3
SPECIFICATION SaveSpec
INVARIANTS
  EditsSurvive
CHECK_DEADLOCK FALSE
