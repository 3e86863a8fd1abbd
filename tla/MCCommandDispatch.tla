--------------------------- MODULE MCCommandDispatch ---------------------------
(* Small instances of CommandDispatch for TLC.                             *)
EXTENDS CommandDispatch, TLC

Symmetry == Permutations(Sync)
=============================================================================
