\* Every fault at once: two workers, two attempts to pay one invoice.
SPECIFICATION Spec
CONSTANTS
  Invoice = {i1}
  Payment = {p1, p2}
  Prefix = {"RCP"}
  MaxAmount = 1
  None = None
  Worker = {w1, w2}
  MaxAbandonedSwept = 1
  MayCrash = TRUE
  MayOverlap = TRUE
  MayExhaust = TRUE
SYMMETRY Symmetry
INVARIANTS
  TypeOK
  ClaimExcludes
PROPERTIES
  OnlyCollectedIsCredited
  CreditIsNeverDeleted
