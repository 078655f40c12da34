\* Two connections that share a counter or not, and every fault.
SPECIFICATION FairSpec
CONSTANTS
  Connections = {c1, c2}
  c1 = c1
  c2 = c2
  Inputs <- MCInputs
  Mixes <- MCMixes
  t1 = t1
  t2 = t2
  u1 = u1
  a1 = a1
  a2 = a2
  Tenants = {t1, t2}
  Users = {u1}
  Addresses = {a1, a2}
  Unknown = Unknown
  POLICIES <- MCPolicies
  Second = 3
  MaxAttempts = 2
  MaxLost = 1
  Faults <- MCFaults
INVARIANTS
  CountersExpire
  RetryWorks
PROPERTIES
  RefusedForOwn
  BurstBounded
  NotRefusedForever
