------------------------------ MODULE MCCellRoom ------------------------------
(* Small instances of CellRoom. *)
EXTENDS CellRoom, TLC

CONSTANTS lead, child, other

\* A task, one it delegated, and one of somebody else.
TeamTasks == {lead, child, other}
TeamDepth == (lead :> 0) @@ (child :> 1) @@ (other :> 0)
===============================================================================
