\* Two requests on two invoices of at most one unit, under two prefixes: locks
\* do not keep their verifications apart, only the unique index does.
SPECIFICATION ReceiptsSpec
CONSTANTS
  Invoice = {i1, i2}
  Payment = {p1, p2, p3, p4}
  Prefix = {"RCP", "BSC"}
  MaxAmount = 1
  None = None
  Request = {r1, r2}
  ReceiptAttempts = 3
SYMMETRY Symmetry
INVARIANTS
  ReceiptsHaveNoGaps
  ReceiptsAreUnique
  RetriesArePaidFor
