\* The same tasks: every turn gets its cell or gives up, though no turn ever has to end.
SPECIFICATION FairSpec
CONSTANTS
  lead = lead
  child = child
  other = other
  Tasks <- TeamTasks
  Depth <- TeamDepth
  CellCeiling = 2
  MaxCellsSettings = {1}
  MaxTurns = 3
  MaxWaits = 1
  MaxUpsets = 0
PROPERTIES ReachesCellOrEnds
CHECK_DEADLOCK FALSE
