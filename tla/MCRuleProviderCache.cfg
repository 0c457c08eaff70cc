CONSTANTS
  Matchers = {m1}
  Refreshers = {}
  MaxVersion = 2
  MaxRestarts = 1
  None = None
SPECIFICATION MCSpec
PROPERTY CachedVersionUsed
CHECK_DEADLOCK FALSE
