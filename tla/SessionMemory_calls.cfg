SPECIFICATION SessionsSpec
CONSTANTS
  Turns = {t1, t2}
  Injects = {i1, i2}
  Compactions = {p1}
  Objects = {o1, o2, o3}
  NoObject = NoObject
  MemoryWindow = 2
  \* long-term memory
  Facts = {f1, f2}
  Expiring = {f1}
  Talks = {k1}
  MemoryJobs = {j1, j2}
  HistoryLimit = 1
  MemoryEnds = 1
  MemoryTasks = 2
  JanitorRuns = 1
INVARIANTS SessionsTypesOK CacheIsOnDisk QuietOffsetIsHonest NothingIsForgotten
PROPERTY OnlyStaleTurnsOverwrite
SYMMETRY Symmetries
CHECK_DEADLOCK FALSE
