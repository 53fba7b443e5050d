\* Requests race for the seats of two arms, each for students of its own, while
\* arms and students without records are deleted and, at quiet times, capacities
\* change.  A school may end full.
SPECIFICATION Spec
CONSTANTS
  Arm = {1, 2}
  Student = {s1, s2}
  Request = {r1, r2}
  None = None
  Gone = Gone
  MaxCapacity = 1
  MayOverlap = FALSE
  MayResize = FALSE
  MayRemove = TRUE
SYMMETRY Symmetry
CHECK_DEADLOCK FALSE
INVARIANTS
  TypeOK
  RollFitsCapacity
