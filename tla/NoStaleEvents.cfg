\* A WorkThread wakes after UnAdvise.
CONSTANTS
  Tiles = {c1}
  Threads = {t1}
  Sinks = {s1}
  NULL = NULL
  MaxTiles = 1
  MaxRefs = 1
SPECIFICATION Spec
INVARIANT NoStaleEvents
CHECK_DEADLOCK FALSE
