SPECIFICATION SessionsSpec
CONSTANTS
  Turns = {t1, t2, t3}
  Injects = {}
  Compactions = {}
  Objects = {o1, o2, o3}
  NoObject = NoObject
  MemoryWindow = 2
  \* long-term memory
  Facts = {f1}
  Expiring = {}
  Talks = {k1}
  MemoryJobs = {j1, j2}
  HistoryLimit = 1
  MemoryEnds = 0
  MemoryTasks = 0
  JanitorRuns = 0
INVARIANT OffsetIsHonest
SYMMETRY Symmetries
CHECK_DEADLOCK FALSE
