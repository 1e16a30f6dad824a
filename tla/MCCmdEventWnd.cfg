\* Two windows that their owner may delete at any moment.
CONSTANTS
  Windows = {w1, w2}
  Providers = {p1}
  NULL = NULL
  MaxInput = 1
SPECIFICATION WndFairSpec
INVARIANTS WndTypeOK OneEventWindow
PROPERTIES DeletionTellsPump ExitEndsThread
CHECK_DEADLOCK FALSE
