SPECIFICATION Spec
CONSTANTS
  r1 = r1
  r2 = r2
  shared = shared
  Requests = {r1, r2, r3}
  RunIds = {r1, r2, r3}
  KeyOf <- FreshKeys
  NodeRequests = {}
  Sessions = {s1}
  Conns = {c1}
  Unreliable = {c1}
  TraceMayFail = FALSE
  MaxPending = 2
  Abortable = {r1}
  Waiters = {}
  NoRun = NoRun
  NoSession = NoSession
  NoConn = NoConn
INVARIANTS OneRunPerSession
CHECK_DEADLOCK FALSE
