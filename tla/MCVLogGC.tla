------------------------------ MODULE MCVLogGC ------------------------------
(* Small instances of VLogGC for TLC.                                      *)
EXTENDS VLogGC

CONSTANTS v1, v2
=============================================================================
