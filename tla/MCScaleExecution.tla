--------------------------- MODULE MCScaleExecution ---------------------------
(* Small instances of ScaleExecution for TLC.                              *)
EXTENDS ScaleExecution, TLC
=============================================================================
