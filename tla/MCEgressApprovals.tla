-------------------------- MODULE MCEgressApprovals --------------------------
(* Small instances of EgressApprovals. *)
EXTENDS EgressApprovals
===============================================================================
