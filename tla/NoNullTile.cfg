\* A tile whose Initialize failed is asked for.
CONSTANTS
  Windows = {w1, w2}
  Providers = {p1}
  NULL = NULL
  MaxInput = 1
  Scenarios = {LOGON}
  Supported = {LOGON}
  Sinks = {s1}
  uNone = uNone
  uOne = uOne
  uTwo = uTwo
  UserArrays = {uNone, uOne}
  UserCount <- MCUserCount
  RawTile = RawTile
  MaxClients = 1
SPECIFICATION Spec
INVARIANT NoNullTile
CHECK_DEADLOCK FALSE
