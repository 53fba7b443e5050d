\* Readers and writers overlap and calls of Redis fail.
SPECIFICATION Spec
CONSTANTS
  m1 = m1
  m2 = m2
  u1 = u1
  s1 = s1
  s2 = s2
  School = {s1, s2}
  SchoolOf <- TwoSchools
  Member = {m1, m2}
  Role = {k1, k2}
  User = {u1}
  None = None
  Reader = {r1}
  Writer = {w1}
  UserOf <- OneUser
  TTL = 1
  IndexTTL = 2
  Delay = 1
  MaxTime = 4
  MaxChanges = 1
  MayOverlap = TRUE
  MayFail = TRUE
SYMMETRY Symmetry
INVARIANTS
  TypeOK
PROPERTIES
  StalenessIsBounded
