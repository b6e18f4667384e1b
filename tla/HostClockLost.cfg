\* One strand and one tick are enough.
CONSTANTS
  HostStrand = {h1}
  MaxTime = 1
SPECIFICATION ClockSpec
INVARIANT EmittedIsDrained
CHECK_DEADLOCK FALSE
