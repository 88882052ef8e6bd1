\* Two turns in one cell, two tool calls, and one of: a cancel, a timeout, a death, a failed start, an invalid frame.
SPECIFICATION FairSpec
CONSTANTS
  MaxPending = 1
  MaxToolCalls = 1
  MaxTurns = 2
  MaxCalls = 2
  MaxEvents = 1
  MaxRare = 1
INVARIANTS TypeOK HonestRunnerBelieved DoneIsWhole AnswerMeetsItsCall
PROPERTIES EverythingSettles
CHECK_DEADLOCK FALSE
