\* Two macros, and one recording or none.
CONSTANTS
  Doc = {x, y}
  NoDoc = NoDoc
  MaxBlocks = 2
  UNDO_LIMIT = 1
  MaxSignals = 2
  MaxGen = 4
SPECIFICATION DocumentSpec
PROPERTY ChangesAreSaved
CHECK_DEADLOCK FALSE
