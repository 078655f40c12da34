\* Both procedures, and their mixture, over two processes.
SPECIFICATION Spec
CONSTANTS
  Processes = {p1, p2}
  Keys = {k1, k2, k3, k4}
  NoKey = NoKey
  FirstKey = k1
  JWT_EXPIRY_SECONDS = 2
  Procedures <- MCProcedures
  MaxTokens = 1
  MaxTime = 6
SYMMETRY MCSymmetry
INVARIANTS
  OwnTokensAccepted
  RetiredKeyRefused
\* The clock is bounded and keys are used once.
CHECK_DEADLOCK FALSE
