SPECIFICATION Spec
CONSTANTS
  Tasks = {t1}
  Starts = {s1, s2}
  Builds = {b1}
  Reaper = reaper
  None = none
  MaxCells = 1
  MaxRare = 2
  MaxRestarts = 1
SYMMETRY Interchangeable
INVARIANTS TypeOK NothingLeft
CHECK_DEADLOCK FALSE
