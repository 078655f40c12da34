\* A statement issued by the service of a step fails.
SPECIFICATION FairSpec
CONSTANTS
  Tenants = {t1}
  WorkflowIds = {w1}
  Requests = {r1}
  Readers = {}
  StepIds <- MCStepIds
  StepLists <- MCStepLists
  MaxSteps = 2
  Faults <- MCServiceFault
  Absent = Absent
INVARIANTS
  AuditPreserved
CHECK_DEADLOCK FALSE
