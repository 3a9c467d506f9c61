SPECIFICATION FairSpec
CONSTANTS
  Calls = {c1, c2}
  Waiters = {w1}
  Resolvers = {v1}
  Ids = {i1, i2}
  Decisions = {allow, deny}
  Forwarded = {c1}
  None = None
  Boot = Boot
INVARIANTS TypeOK NoPhantomGrant ListedIsDecidable
PROPERTY EveryoneIsAnswered
CHECK_DEADLOCK FALSE
