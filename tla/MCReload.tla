----------------------------- MODULE MCReload ------------------------------
(***************************************************************************)
(* Instances of Reload for TLC.                                            *)
(***************************************************************************)
EXTENDS Reload, TLC

CONSTANTS c1, c2, d1, d2, d3, d4, g1, g2
=============================================================================
