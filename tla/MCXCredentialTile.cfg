\* Two tiles in arrays of up to two, two callbacks, two WorkThreads.
CONSTANTS
  Tiles = {c1, c2}
  Threads = {t1, t2}
  Sinks = {s1, s2}
  NULL = NULL
  MaxTiles = 2
  MaxRefs = 1
SPECIFICATION FairSpec
INVARIANTS TileTypeOK TileAccounting EventsHeldOnce WholeArray
PROPERTIES ImplementsTileArray SelectedIsChecked
CHECK_DEADLOCK FALSE
