\* Two requests race for one invoice of up to two units; three payment ids.
SPECIFICATION Spec
CONSTANTS
  Invoice = {i1}
  Payment = {p1, p2, p3}
  Prefix = {"RCP"}
  MaxAmount = 2
  None = None
  Request = {r1, r2}
  ReceiptAttempts = 2
SYMMETRY Symmetry
INVARIANTS
  TypeOK
  PaidIsVerified
  NeverOverCommitted
  StatusFollowsMoney
  CancelledIsEmpty
PROPERTIES
  PaymentOnlyMovesForward
  DecisionsStand
  ImplementsLedger
