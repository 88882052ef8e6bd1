\* A lead, its delegated task and another task compete for two cells; a cell dies, a turn times out or the setting changes.
SPECIFICATION Spec
CONSTANTS
  lead = lead
  child = child
  other = other
  Tasks <- TeamTasks
  Depth <- TeamDepth
  CellCeiling = 2
  MaxCellsSettings = {1, 2}
  MaxTurns = 3
  MaxWaits = 1
  MaxUpsets = 1
INVARIANTS TypeOK NoLostWakeup IdleBetweenTurns
CHECK_DEADLOCK FALSE
