------------------------------ MODULE MCStepUp ------------------------------
(* Small instances of StepUp, given by its .cfg files. *)
EXTENDS StepUp, TLC

Symmetry == Permutations(Acts)
=============================================================================
