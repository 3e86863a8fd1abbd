---------------------------- MODULE MCAutoRestart ----------------------------
(* Small instances of AutoRestart for TLC.                                 *)
EXTENDS AutoRestart, TLC

Symmetry == Permutations(Handlers) \cup Permutations(Pids)
=============================================================================
