----------------------------- MODULE MCPeerTasks ------------------------------
(* Small instances of PeerTasks. *)
EXTENDS PeerTasks
===============================================================================
