\* Liveness: one provider, two callbacks, two windows.
CONSTANTS
  Windows = {w1, w2}
  Providers = {p1}
  NULL = NULL
  MaxInput = 1
  Scenarios = {LOGON}
  Supported = {LOGON}
  Sinks = {s1, s2}
  uNone = uNone
  uOne = uOne
  uTwo = uTwo
  UserArrays = {uOne}
  UserCount <- MCUserCount
  RawTile = RawTile
  MaxClients = 2
SPECIFICATION FairSpec
PROPERTIES ImplementsFairEventWindow ChangeReachesLogonUI
CHECK_DEADLOCK FALSE
