------------------------------ MODULE MCTeamLink ------------------------------
(* Small instances of TeamLink. *)
EXTENDS TeamLink

CONSTANT call

\* The first turn relays one call, which may still be answered when the second is under way.
FirstTurnCalls == {<<1, call>>}
===============================================================================
