\* Two tasks of two agents with one slot each: follow-ups, delegation, cancels, deletions, a restart.
SPECIFICATION Spec
CONSTANTS
  lead = lead
  dev = dev
  Agents <- PairAgents
  Delegates <- PairDelegates
  Limits = {1}
  DefaultMaxTasks = 3
  MaxDepth = 2
  MaxChildren = 2
  MaxTreeTurns = 2
  TaskCount = 2
  MaxAsks = 2
  MaxRestarts = 1
  MaxDeletions = 1
  MaxEdits = 0
INVARIANTS TableMatchesQueues FinishedOnce SlotsHold
PROPERTIES CancelSticks
CHECK_DEADLOCK FALSE
