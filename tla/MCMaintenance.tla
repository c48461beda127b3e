--------------------------- MODULE MCMaintenance ---------------------------
(* Small instances of Maintenance, given by its .cfg files. *)
EXTENDS Maintenance, TLC

Symmetry == Permutations(Calls)
=============================================================================
