\* A worker stops between the claim and the work.
SPECIFICATION Spec
CONSTANTS
  Invoice = {i1}
  Payment = {p1}
  Prefix = {"RCP"}
  MaxAmount = 1
  None = None
  Worker = {w1, w2}
  MaxAbandonedSwept = 1
  MayCrash = TRUE
  MayOverlap = FALSE
  MayExhaust = FALSE
SYMMETRY Symmetry
INVARIANTS
  ClaimIsDealtWith
