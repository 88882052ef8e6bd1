--------------------------- MODULE MCConnectorWrites ---------------------------
(* Small instances of ConnectorWrites. *)
EXTENDS ConnectorWrites, TLC

CONSTANTS first, second, dev, old, new

\* Two requests of one agent, which may turn out to have the same content.
TwoRequests == {first, second}
OneAgent    == {dev}
TwoVersions == {old, new}
BothByDev   == [r \in TwoRequests |-> dev]

\* Both requests are of the same agent, and nothing orders them or what they are prepared to.
Alike == Permutations(TwoRequests) \cup Permutations(TwoVersions)
===============================================================================
