\* A fired run and the emergency stop.
CONSTANTS
  Runs = {r1}
  Macros = {m1}
  MAX_RUNS = 1
  RunStrand = {s1}
  None = None
SPECIFICATION Spec
PROPERTY
  NothingFiresWhilePaused
CHECK_DEADLOCK FALSE
