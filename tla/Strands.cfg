\* Three strands, one, two or all of them entries and the others signal strands;
\* one key and one raw keycode.
CONSTANTS
  Strand = {a, b, c}
  Input = {k}
  Raw = {r}
  NoStrand = NoStrand
  a = a
  b = b
  c = c
SPECIFICATION ThreeStrandsSpec
INVARIANTS
  CancelledStaysStopped
  DescendantsEndFirst
  NothingHeldAfterRun
PROPERTIES
  StopEndsRun
CHECK_DEADLOCK FALSE
