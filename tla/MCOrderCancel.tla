--------------------------- MODULE MCOrderCancel ---------------------------
(***************************************************************************)
(* OrderCancel on small instances.                                         *)
(***************************************************************************)
EXTENDS OrderCancel, TLC

MCFaults == FaultKinds
MCNoFaults == {}
MCWindows == {1, NoLimit}

RequestSymmetry == Permutations(Requests)
=============================================================================
