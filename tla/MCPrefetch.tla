----------------------------- MODULE MCPrefetch -----------------------------
(* A small instance of Prefetch, and so of ThreadPool, for TLC.            *)
EXTENDS Prefetch

CONSTANTS c1, c2, w1, w2

Reads == [it : Producer, i : 1..MaxNum]
=============================================================================
