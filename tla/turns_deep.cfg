\* Three tasks of two agents that delegate to each other, and one agent file that breaks.
SPECIFICATION Spec
CONSTANTS
  lead = lead
  dev = dev
  Agents <- PairAgents
  Delegates <- PairDelegates
  Limits = {1}
  DefaultMaxTasks = 3
  MaxDepth = 2
  MaxChildren = 2
  MaxTreeTurns = 3
  TaskCount = 3
  MaxAsks = 1
  MaxRestarts = 0
  MaxDeletions = 0
  MaxEdits = 1
INVARIANTS TypeOK NotBehindItsWaiters NoJobForgotten
CHECK_DEADLOCK FALSE
