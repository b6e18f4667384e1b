\* Branches may hold a RunBranch block: a custom block hands its own branch on.
CONSTANTS
  MAX_CALL_DEPTH = 1
  Limits = {0}
  MaxAttempts = 1
  MaxLength = 1
  MaxNesting = 1
  Forwarding = TRUE
SPECIFICATION Spec
INVARIANT
  StackBounded
CHECK_DEADLOCK FALSE
