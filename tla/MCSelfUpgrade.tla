---------------------------- MODULE MCSelfUpgrade ----------------------------
(* Small instances of SelfUpgrade for TLC.                                 *)
EXTENDS SelfUpgrade, TLC
=============================================================================
