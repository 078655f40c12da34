\* Three calls side by side, with every provider and every fault.
SPECIFICATION Spec
CONSTANTS
  Requests = {r1, r2, r3}
  Mixes <- MCMixes
  Tenants = {t1, t2}
  Nil = Nil
  Slugs = {slug}
  Users = {user}
  Strangers = {nobody}
  Sessions = {s1, s2}
  Events = {e1}
  Faults <- MCFaults
  MaxTime = 1
  Never = Never
  Absent = Absent
  r1 = r1
  r2 = r2
  r3 = r3
  t1 = t1
  t2 = t2
  slug = slug
  user = user
  s1 = s1
  s2 = s2
  e1 = e1
  nobody = nobody
INVARIANTS
  TypeOK
  OnboardingWhole
  RevokedRefused
  BooksAgree
PROPERTIES
  RequestsEnd
\* The requests are finitely many.
CHECK_DEADLOCK FALSE
