\* Calls that overlap, and every fault.
SPECIFICATION FairSpec
CONSTANTS
  Calls = {g1, g2, g3}
  Projects = {p1}
  NoProject = NoProject
  Limit = 1
  MaxInFlight = 3
  Faults <- MCFaults
  Absent = Absent
INVARIANTS
  NeverOvercounts
  OneRecordPerProject
  CounterExact
PROPERTIES
  ProjectQuotaKept
  CallsEnd
\* The calls are finitely many.
CHECK_DEADLOCK FALSE
