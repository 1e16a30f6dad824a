\* Two providers in one process, which compete for the one window class.
CONSTANTS
  Windows = {w1, w2}
  Providers = {p1, p2}
  NULL = NULL
  MaxInput = 1
  Scenarios = {LOGON, CREDUI}
  Supported = {LOGON}
  Sinks = {s1}
  uNone = uNone
  uOne = uOne
  uTwo = uTwo
  UserArrays = {uNone, uOne}
  UserCount <- MCUserCount
  RawTile = RawTile
  MaxClients = 1
SPECIFICATION Spec
SYMMETRY Symmetry
INVARIANTS TypeOK NoFreedMemory HeldExactly TilesAreCurrent RefAccounting NoLostChange
CHECK_DEADLOCK FALSE
