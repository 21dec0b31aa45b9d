------------------------------ MODULE MCDBIter ------------------------------
(* Small instances of DBIter for TLC.                                      *)
EXTENDS DBIter
=============================================================================
