\* An upload by any door beside a plain one, a search, and every fault.
SPECIFICATION Spec
CONSTANTS
  Uploads = {u1, u2}
  Readers = {s1}
  Inputs <- MCInputs
  Tenants = {t1, t2}
  Projects = {p1}
  NoProject = NoProject
  BadProject = BadProject
  Lengths <- MCLengths
  MaxAttempts = 2
  TopK = 2
  ChunkSize = 3
  Overlap = 1
  Faults <- MCFaults
  Absent = Absent
  u1 = u1
  u2 = u2
  t1 = t1
  t2 = t2
  p1 = p1
INVARIANTS
  SearchableWhole
  EventTruth
  IInv
PROPERTIES
  LibrarySpec
  UploadsEnd
\* The uploads are finitely many.
CHECK_DEADLOCK FALSE
