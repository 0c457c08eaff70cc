SPECIFICATION MCFairSpec
CONSTANTS
  s1 = s1
  a = a
  b = b
  Sessions = {s1, s2}
  Sources = {x}
  Dests = {d1}
  Tags = {a, b}
  Routers <- MCRouters
  Entries = {1, 2}
  Ports = {1}
  TTL = 0
  None = None
INVARIANTS TypeOK NoOrphanMappings ReplyToOwner
CHECK_DEADLOCK FALSE
PROPERTIES ClosedSessionStops ExpiredCollected
