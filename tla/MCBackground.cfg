\* Batches: two channels and two readers, each of which may add to both, four messages each.
\* The bounds of the other parts are in the module.
CONSTANTS
  Channels = {x, y}
  Readers = {r1, r2}
  Total = 4
  None = None
SPECIFICATION SumFairSpec
CHECK_DEADLOCK FALSE
INVARIANT NotOvertaken
PROPERTIES Delivers JobsSettle RequestsEnd
