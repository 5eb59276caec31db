----------------------------- MODULE MCNetwork -----------------------------
(* Small instances of Network: two requests, one of them permanent, and two *)
(* peers of one group.                                                      *)
EXTENDS Network

CONSTANTS r1, r2, p1, p2, g1
=============================================================================
