---------------------------- MODULE MCCacheShard ----------------------------
(* Small instances of CacheShard for TLC.                                  *)
EXTENDS CacheShard, TLC

CONSTANTS k1, k2, k3, v1, v2, t1, t2, h1, h2, h3, h4

Symmetric ==
  Permutations({k1, k2, k3}) \cup Permutations({t1, t2}) \cup Permutations({v1, v2})
    \cup Permutations({h1, h2, h3, h4})
=============================================================================
