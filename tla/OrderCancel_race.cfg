\* Two requests that overlap, and every fault.
SPECIFICATION Spec
CONSTANTS
  Requests = {r1, r2}
  Orders = {o1}
  Tenants = {Nil, t1, t2}
  Users = {Nil, u1, u2}
  Nil = Nil
  Windows <- MCWindows
  NoLimit = NoLimit
  MaxTime = 1
  Faults <- MCFaults
  Absent = Absent
SYMMETRY RequestSymmetry
INVARIANTS
  CancelledByOwner
  AnswerTrue
  CancelledOnceAlone
  IInv
PROPERTIES
  CancelledInTimeAlone
\* The requests are finitely many.
CHECK_DEADLOCK FALSE
