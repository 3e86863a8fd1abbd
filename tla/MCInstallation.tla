---------------------------- MODULE MCInstallation ----------------------------
(* Small instances of Installation for TLC.                                *)
EXTENDS Installation, TLC
=============================================================================
