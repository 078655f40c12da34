\* Two turns in one session with a reader, questions outside it, and every routed message.
SPECIFICATION Spec
CONSTANTS
  Requests = {r1, r2, r3}
  Tenants = {t1, t2}
  Projects = {p1}
  Users = {u1, u2}
  Mixes <- MCMixes
  Repertoire <- MCRepertoire
  Sizes = {1, 2}
  MaxChars = 3
  MaxIterations = 2
  Faults <- MCFaults
  Absent = Absent
  r1 = r1
  r2 = r2
  r3 = r3
  t1 = t1
  t2 = t2
  p1 = p1
  u1 = u1
  u2 = u2
INVARIANTS
  TurnWhole
  EventsAsReported
  GatesHold
PROPERTIES
  ShownWhole
  TurnsEnd
\* The requests are finitely many.
CHECK_DEADLOCK FALSE
