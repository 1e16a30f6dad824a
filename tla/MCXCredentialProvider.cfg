\* Two scenarios, each with its window, and two tiles, one for each.
CONSTANTS
  Windows = {w1, w2}
  Providers = {p1}
  This = p1
  NULL = NULL
  MaxInput = 1
  Sinks = {s1}
  Tiles = {c1, c2}
  MaxTiles = 1
  MaxClients = 2
SPECIFICATION Spec
SYMMETRY Symmetry
INVARIANTS ProviderTypeOK ReferencesBalance ReadyHasWindow ServedTilesAreCurrent ProviderOutlivesCallback
PROPERTIES ImplementsEventWindow
CHECK_DEADLOCK FALSE
