----------------------------- MODULE MCGuestCells -----------------------------
(* Small instances of GuestCells. *)
EXTENDS GuestCells, TLC

\* Processes of one kind are interchangeable.
Interchangeable == Permutations(Starts)
===============================================================================
