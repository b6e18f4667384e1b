\* Two macros and a history of one step.
CONSTANTS
  Doc = {x, y}
  NoDoc = NoDoc
  MaxBlocks = 2
  UNDO_LIMIT = 1
  MaxSignals = 2
  MaxGen = 4
SPECIFICATION DocumentSpec
INVARIANT BlocksStayInTheirMacro
CHECK_DEADLOCK FALSE
