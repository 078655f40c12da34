\* Two concurrent executions and a reader, every fault.
SPECIFICATION FairSpec
CONSTANTS
  Tenants = {t1, t2}
  WorkflowIds = {w1}
  Requests = {r1, r2}
  Readers = {g1}
  StepIds <- MCStepIds
  StepLists <- MCStepLists
  MaxSteps = 2
  Faults <- MCFaults
  Absent = Absent
INVARIANTS
  AuditTrail
  DependencyOrder
  StepTruthful
  RetryPolicy
  AnswerAgrees
  ReaderSeesWhole
PROPERTIES
  LedgerSpec
  RequestsTerminate
\* Requests are finitely many and a deactivated definition stays so.
CHECK_DEADLOCK FALSE
