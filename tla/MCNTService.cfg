\* Two processes with the same mutex name and two workers each.
CONSTANTS
  Procs = {p1, p2}
  WorkCount = 2
SPECIFICATION NTFairSpec
INVARIANTS NTTypeOK SingleInstance ToldWorkersEnd
PROPERTIES ImplementsServiceLife LegalTransitions StopIsServed
