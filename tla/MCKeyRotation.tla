--------------------------- MODULE MCKeyRotation ---------------------------
(***************************************************************************)
(* KeyRotation on small instances.                                         *)
(***************************************************************************)
EXTENDS KeyRotation, TLC

InProcess == {"promote"}
ByDeployment == {"configure", "restart"}

Mixed == InProcess \cup ByDeployment

MCProcedures == {InProcess, ByDeployment, Mixed}
\* Processes are alike, and so are the keys but the first.
MCSymmetry == Permutations(Processes) \cup Permutations(Keys \ {FirstKey})
MCRollout == {ByDeployment}
=============================================================================
