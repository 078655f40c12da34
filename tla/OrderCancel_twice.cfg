\* Two requests for one order overlap; nothing fails and nothing else moves.
SPECIFICATION Spec
CONSTANTS
  Requests = {r1, r2}
  Orders = {o1}
  Tenants = {Nil, t1}
  Users = {Nil, u1}
  Nil = Nil
  Windows <- MCWindows
  NoLimit = NoLimit
  MaxTime = 1
  Faults <- MCNoFaults
  Absent = Absent
SYMMETRY RequestSymmetry
INVARIANTS
  CancelledOnce
\* The requests are finitely many.
CHECK_DEADLOCK FALSE
