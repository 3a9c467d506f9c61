SPECIFICATION Spec
CONSTANTS
  r1 = r1
  r2 = r2
  shared = shared
  Requests = {r1, r2, r3, node}
  RunIds = {shared, r3, node}
  KeyOf <- SharedKeys
  NodeRequests = {node}
  Sessions = {s1, s2}
  Conns = {c1}
  Unreliable = {c1}
  TraceMayFail = FALSE
  MaxPending = 2
  Abortable = {shared}
  Waiters = {w1}
  NoRun = NoRun
  NoSession = NoSession
  NoConn = NoConn
INVARIANTS TypeOK JobHoldsLane AnswerIsFinal NoStrandedQueue WaiterHasPendingRun QueueHoldsQueued
SYMMETRY Symmetries
CHECK_DEADLOCK FALSE
