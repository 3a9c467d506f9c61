SPECIFICATION Spec
CONSTANTS
  Calls = {c1, c2}
  Waiters = {}
  Resolvers = {v1}
  Ids = {i1, i2}
  Decisions = {allow, deny}
  Forwarded = {}
  None = None
  Boot = Boot
INVARIANT OnTimeDecisionHeard
CHECK_DEADLOCK FALSE
