\* Two clients of one service; three COM objects; the strings at the edges of a
\* USHORT; three threads, two of which may race while the third destroys; dialogs
\* of every kind, two at a time; a log that fills after one line.
SPECIFICATION LibrarySpec
CONSTANTS
  SvcClients = {c1, c2}
  Svc = svc
  Objects = {o1, o2, o3}
  MaxOwners = 2
  MaxLocks = 1
  Advisers = {e1}
  NoAdviser = NoAdviser
  HeaderSize = 56
  MaxChars = 32767
  CharCounts = {0, 1, 32767, 32768}
  Threads = {t1, t2, t3}
  Main = t1
  Destroyer = t2
  NoThread = NoThread
  MaxInstances = 3
  DlgProcs = {p1, p2}
  NoProc = NoProc
  Templates = {1400, 1500, 1700, 1850, 1950, 2000}
  StubVersion = 1
  NewestVersion = 2
  MaxDialogs = 2
  Stems = {x}
  Bases <- MCBases
  Levels = {0, 1}
  MaxSize = 1
  MaxParts = 2
  MaxLength = 4
  MaxIndex = 4
INVARIANTS LibraryTypeOK HandlesReturned AloneSettles TileKeepsModule OwnedObjectsLive
INVARIANTS FinishedIsWhole CopiesFreed OneInstance HooksAreTransparent
PROPERTIES GoesOnInNewFile
\* A dropped tile, a process brought down and an unloaded DLL do nothing more.
CHECK_DEADLOCK FALSE
