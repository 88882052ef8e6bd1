\* Everything that was asked for ends, and everyone who waits is told.
SPECIFICATION FairSpec
CONSTANTS
  lead = lead
  dev = dev
  Agents <- PairAgents
  Delegates <- PairDelegates
  Limits = {1}
  DefaultMaxTasks = 3
  MaxDepth = 2
  MaxChildren = 2
  MaxTreeTurns = 2
  TaskCount = 2
  MaxAsks = 2
  MaxRestarts = 0
  MaxDeletions = 0
  MaxEdits = 0
PROPERTIES RequestSettles WaitAnswered
CHECK_DEADLOCK FALSE
