\* Two requests of an agent, three grants, and two of: rule change, restart, lost call, week.
SPECIFICATION Spec
CONSTANTS
  first = first
  second = second
  dev = dev
  Requests <- TwoRequests
  Agents <- OneAgent
  Service = service
  AgentOf <- BothByDev
  old = old
  new = new
  Versions <- TwoVersions
  DefaultMode = "ask"
  MaxPending = 1
  MaxGrants = 3
  MaxRare = 2
INVARIANTS TypeOK LedgerTells EffectsWithinGrants ApprovalFound
PROPERTIES AskMeansApproved
SYMMETRY Alike
CHECK_DEADLOCK FALSE
