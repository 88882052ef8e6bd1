---------------------------- MODULE MCCellChannel ----------------------------
(* Small instances of CellChannel. *)
EXTENDS CellChannel
===============================================================================
