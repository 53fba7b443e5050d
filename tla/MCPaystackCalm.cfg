\* Any number of errors, but no crash, and one delivery of an event at a time.
\* Liveness too, hence no symmetry and one charge.
SPECIFICATION LiveSpec
CONSTANTS
  Invoice = {i1}
  Payment = {p1}
  Prefix = {"RCP"}
  MaxAmount = 1
  None = None
  Worker = {w1, w2}
  MaxAbandonedSwept = 1
  MayCrash = FALSE
  MayOverlap = FALSE
  MayExhaust = FALSE
INVARIANTS
  ClaimIsDealtWith
  AckedIsDealtWith
PROPERTIES
  CollectedIsSettled
