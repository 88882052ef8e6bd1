------------------------------ MODULE MCHubTurns ------------------------------
(* Small instances of HubTurns. *)
EXTENDS HubTurns, TLC

CONSTANTS lead, dev

\* Two agents that may delegate to each other: a third task, below two others, could come back
\* to the agent of the first.
PairAgents    == {lead, dev}
PairDelegates == (lead :> {dev}) @@ (dev :> {lead})
===============================================================================
