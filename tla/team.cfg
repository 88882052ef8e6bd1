\* Two turns of a task on another node; two rare events (a relayed call is one) anywhere.
SPECIFICATION FairSpec
CONSTANTS
  call = call
  Requests <- FirstTurnCalls
  MaxTurns = 2
  PageSize = 1
  MaxEvents = 2
  MaxRare = 2
INVARIANTS TypeOK EffectOnce TranscriptComplete
PROPERTIES  TurnEnds ImplementsRemoteTurn
CHECK_DEADLOCK FALSE
