\* A rollout over two replicas.
SPECIFICATION Spec
CONSTANTS
  Processes = {p1, p2}
  Keys = {k1, k2}
  NoKey = NoKey
  FirstKey = k1
  JWT_EXPIRY_SECONDS = 2
  Procedures <- MCRollout
  MaxTokens = 1
  MaxTime = 3
INVARIANTS
  TokensAccepted
\* The clock is bounded and keys are used once.
CHECK_DEADLOCK FALSE
