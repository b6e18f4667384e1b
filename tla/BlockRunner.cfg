\* "wide": lists in lists in lists and a call; "deep" (MCBlockRunner): one list in
\* a list and calls from calls.  Without and with a loop limit; a loop makes one
\* block follow another.
CONSTANTS
  MAX_CALL_DEPTH = 1
  Limits = {0, 2}
  MaxAttempts = 2
  MaxLength = 1
  MaxNesting = 2
  Forwarding = FALSE
SPECIFICATION ShapesSpec
INVARIANTS
  SoftErrorsAreCaught
  LoopControlStaysInItsCall
  TryDepthCounts
  BranchesAreRestored
  StackBounded
PROPERTIES
  StopEndsStrand
  LimitEndsStrand
CHECK_DEADLOCK FALSE
