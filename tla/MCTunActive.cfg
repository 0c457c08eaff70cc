CONSTANTS
  c1 = c1
  Conns = {c1}
  k1 = k1
  ConnKeys = {k1}
  Key <- MCKey
  MaxTcp = 2
  Width = 4
  SeqMod = 4
  Isns = {0}
  Cap = 1
  Segs <- MCSegs
  MaxDown <- MCDown
  None = None
SPECIFICATION Spec
INVARIANT ActiveCounts
CHECK_DEADLOCK FALSE
