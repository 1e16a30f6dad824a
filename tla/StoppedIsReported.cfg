\* The two reports of a stop cross.
CONSTANTS
  Procs = {p1}
  WorkCount = 1
SPECIFICATION NTSpec
INVARIANT StoppedIsReported
