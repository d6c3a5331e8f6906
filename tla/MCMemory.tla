------------------------------ MODULE MCMemory ------------------------------
(***************************************************************************)
(* A driver and the memory server.                                         *)
(***************************************************************************)
EXTENDS Memory
=============================================================================
