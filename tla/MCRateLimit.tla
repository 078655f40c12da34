---------------------------- MODULE MCRateLimit ----------------------------
(***************************************************************************)
(* RateLimit on a small instance: the same user id in two tenants, behind  *)
(* one address; a visitor that claims another address, and one of none.    *)
(***************************************************************************)
EXTENDS RateLimit, TLC

CONSTANTS c1, c2, t1, t2, u1, a1, a2

Sent(path, token, tenant) ==
  [path |-> path, token |-> token, forwarded |-> Unknown, host |-> a1,
   tenant |-> tenant, user |-> u1]
User1 == Sent("protected", "valid", t1)
User2 == Sent("protected", "valid", t2)
Nobody == Sent("protected", "invalid", t1)
Visitor == Sent("public", "valid", t1)
Claimant == [Visitor EXCEPT !.forwarded = a2]
Other == [Visitor EXCEPT !.host = Unknown]
Probe == Sent("exempt", "valid", t1)

MCInputs == {User1, User2, Nobody, Claimant, Other, Probe}
MCMixes ==
  { c1 :> User1 @@ c2 :> User1, c1 :> User1 @@ c2 :> User2,
    c1 :> Claimant @@ c2 :> Probe, c1 :> Other @@ c2 :> Nobody }
MCPolicies ==
  [anon |-> [requests |-> 2, window_seconds |-> 2], auth |-> [requests |-> 1, window_seconds |-> 1]]
MCFaults == FaultKinds
=============================================================================
