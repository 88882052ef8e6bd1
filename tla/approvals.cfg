SPECIFICATION FairSpec
CONSTANTS
  Writes = {1, 2}
  Policies = {p}
  Clients = {app, cli}
  PendingMax = 1
  MaxAsked = 2
  MaxVerdicts = 2
  MaxNamed = 2
  MaxRare = 1
INVARIANTS TypeOK MirrorFollows NotesTellOutcome
PROPERTIES ListingEnds
CHECK_DEADLOCK FALSE
