\* Two calls overlap, nothing fails.
SPECIFICATION FairSpec
CONSTANTS
  Calls = {g1, g2, g3, g4}
  Projects = {p1}
  NoProject = NoProject
  Limit = 3
  MaxInFlight = 2
  Faults <- MCNoFaults
  Absent = Absent
PROPERTIES
  QuotaEnforced
\* The calls are finitely many.
CHECK_DEADLOCK FALSE
