\* Two turns of a task on a peer that delegates in turn; one rare event anywhere.
SPECIFICATION FairSpec
CONSTANTS
  MaxTurns = 2
  Budget = 5
  MaxShare = 2
  PageSize = 2
  MaxEvents = 2
  MaxRare = 1
INVARIANTS TypeOK NoSlotTwice SettledMeansOver CancelNotDropped
PROPERTIES  TurnEnds ImplementsRemoteTurn
CHECK_DEADLOCK FALSE
