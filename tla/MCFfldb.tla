------------------------------- MODULE MCFfldb -------------------------------
(***************************************************************************)
(* Instances of Ffldb for TLC.                                              *)
(***************************************************************************)
EXTENDS Ffldb

CONSTANTS x, y, k, v, w
=============================================================================
