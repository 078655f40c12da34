---------------------------- MODULE MCUsageMeter ----------------------------
(***************************************************************************)
(* UsageMeter on small instances.                                          *)
(***************************************************************************)
EXTENDS UsageMeter

MCFaults == FaultKinds
MCNoFaults == {}
=============================================================================
