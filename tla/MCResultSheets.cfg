\* Requests on the sheet of an arm overlap and crash; its students come and go before.
SPECIFICATION Spec
CONSTANTS
  c1 = c1
  Arm = {a1}
  Class = {c1}
  ClassOf <- OneClass
  Student = {s1, s2}
  Subject = {u1}
  Component = {k1}
  Mark = {1}
  Scale = {waec}
  Text = {good}
  None = None
  Request = {r1, r2}
  MayMove = FALSE
  MayWithdraw = TRUE
  MayCrash = TRUE
SYMMETRY Symmetry
INVARIANTS
  TypeOK
  SnapshotIsCurrent
  FreshIsCurrent
PROPERTIES
  FollowsPath
