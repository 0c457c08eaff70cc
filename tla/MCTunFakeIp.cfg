CONSTANTS
  c1 = c1
  Conns = {c1, c2}
  k1 = k1
  ConnKeys = {k1}
  Key <- MCKey
  MaxTcp = 1
  Width = 4
  SeqMod = 4
  Isns = {0}
  Cap = 1
  Segs <- MCSegs
  MaxDown <- MCDown
  None = None
  Tasks = {t1, t2}
  Domains = {d1, d2}
  Base = 1
  Size = 2
  Wrap = 4
  V6Of <- MCV6Of
  Nothing = Nothing
SPECIFICATION MCSpec
INVARIANTS TypesOK AckEndsQueued EofIsLast Bijection AllocatedIsFake
PROPERTY Atomic
CHECK_DEADLOCK FALSE
