\* Who may do what. Two administrators may end with nobody who can go on.
SPECIFICATION AnySpec
CONSTANTS
  x1 = x1
  x2 = x2
  x3 = x3
  y1 = y1
  y2 = y2
  q1 = q1
  q2 = q2
  None = None
  Proprietor = Proprietor
  Role = {Proprietor, "standard", "c1"}
  Member = {"boss", "admin", "deputy"}
  Perm = {"roles.update", "users.update", "other"}
  Name = {"n1", "n2", "n3"}
  Request = {q1, q2}
  Actor = {"admin", "deputy"}
  Admin = "roles.update"
  Manager = "users.update"
  Custom = {"c1"}
  First <- FirstPerms
  HolderOf <- Holders
  NameOf <- Names
  SlugOf <- OneSlug
  MayOverlap = TRUE
SYMMETRY Symmetry
CHECK_DEADLOCK FALSE
INVARIANTS
  TypesOK
  SomebodyIsInCharge
  LinksWorkOnce
  AccessIsCurrent
  NoEscalation
PROPERTIES
  OnlyHeldIsGiven
