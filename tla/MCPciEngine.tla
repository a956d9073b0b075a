---------------------------- MODULE MCPciEngine ----------------------------
(***************************************************************************)
(* A small instance of PciEngine for TLC, with weights of the seed data.   *)
(***************************************************************************)
EXTENDS PciEngine

SurfaceWeight == [RAVELLING |-> 25, RUTTING |-> 28]
=============================================================================
