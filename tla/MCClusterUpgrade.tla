--------------------------- MODULE MCClusterUpgrade ---------------------------
(* Small instances of ClusterUpgrade for TLC.  The nodes are handled alike,   *)
(* so the runs that check no liveness are symmetric in them.                *)
EXTENDS ClusterUpgrade, TLC

Symmetry == Permutations(Nodes)
=============================================================================
