\* deleteTask() checks the tree, closes its cells and only then deletes the rows.
SPECIFICATION Spec
CONSTANTS
  lead = lead
  dev = dev
  Agents <- PairAgents
  Delegates <- PairDelegates
  Limits = {1}
  DefaultMaxTasks = 3
  MaxDepth = 2
  MaxChildren = 2
  MaxTreeTurns = 2
  TaskCount = 2
  MaxAsks = 2
  MaxRestarts = 0
  MaxDeletions = 1
  MaxEdits = 0
PROPERTY RowOutlivesTurn
CHECK_DEADLOCK FALSE
