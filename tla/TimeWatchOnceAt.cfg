\* One strand, and a gap that a tick ends a few seconds after its moment.
CONSTANTS
  Timed = {t1}
  DayLength = 2
  SaveEvery = 2
  MaxCatchUp = 5
  EndOfTime = 9
SPECIFICATION WatchSpec
INVARIANT OnceAtFires
CHECK_DEADLOCK FALSE
