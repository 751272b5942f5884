----------------------------- MODULE MCVmUpdate -----------------------------
(* Two reports of the same two machines.                                     *)
EXTENDS VmUpdate
=============================================================================
