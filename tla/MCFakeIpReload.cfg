CONSTANTS
  Tasks = {t1}
  Domains = {d1, d2}
  Base = 1
  Size = 2
  Wrap = 4
  V6Of <- MCV6Of
  Nothing = Nothing
SPECIFICATION Spec
INVARIANT DispatchRestores
