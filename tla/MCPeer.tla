------------------------------- MODULE MCPeer -------------------------------
(***************************************************************************)
(* Instances of Peer for TLC.                                               *)
(***************************************************************************)
EXTENDS Peer

CONSTANTS c1, a1, i1, i2
=============================================================================
