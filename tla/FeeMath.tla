------------------------------- MODULE FeeMath -------------------------------
(***************************************************************************)
(* The money arithmetic of an invoice (src/finance/fee-math.ts), the       *)
(* receipt sequence (src/finance/receipt-number.ts) and the shapes of the  *)
(* two tables they read: student_fees and payments.                        *)
(*                                                                         *)
(* Amounts are naturals: the smallest unit of a Decimal(12, 2) column.     *)
(* The sum of a set of payments is counted unit by unit, so that it is the *)
(* cardinality of a finite set rather than a fold.                         *)
(***************************************************************************)
EXTENDS Integers, FiniteSets

CONSTANTS
  Invoice,    \* ids of the invoices (rows of student_fees)
  Payment,    \* ids a payment row may ever get (uuids, never reused)
  Prefix,     \* receipt prefixes a school may choose
  MaxAmount,  \* the largest amount the money columns hold
  None        \* "no value": no receipt, no invoice, no lock holder

ASSUME FeeMathAssumption ==
  /\ IsFiniteSet(Payment)
  /\ MaxAmount \in Nat
  /\ None \notin Invoice
  /\ None \notin [prefix : Prefix, seq : Nat \ {0}]

Amount == 0 .. MaxAmount

DecidedStatus == {"WAIVED", "CANCELLED"}
InvoiceStatus == {"UNPAID", "PARTIAL", "PAID"} \cup DecidedStatus

InvoiceRow == [total : Amount, discount : Amount, paid : Nat,
               status : InvoiceStatus]

(***************************************************************************)
(* "none" is an id no row has had yet, "deleted" one whose row is gone.    *)
(***************************************************************************)
PaymentStatus == {"none", "PENDING", "VERIFIED", "REJECTED", "deleted"}

(***************************************************************************)
(* Receipts of one calendar year: the prefix of the day and a sequence     *)
(* number.  A payment that was never verified holds a placeholder that is  *)
(* no receipt (None).                                                      *)
(***************************************************************************)
Receipt == [prefix : Prefix, seq : Nat \ {0}]

PaymentRow == [status : PaymentStatus, invoice : Invoice \cup {None},
               amount : Amount, receipt : Receipt \cup {None}]

NoPayment      == [status |-> "none", invoice |-> None, amount |-> 0,
                   receipt |-> None]
DeletedPayment == [NoPayment EXCEPT !.status = "deleted"]

-----------------------------------------------------------------------------
(* What is owed, what is left of it, and the status that follows. *)

Payable(row) == IF row.discount > row.total THEN 0 ELSE row.total - row.discount

DerivedStatus(row) ==
  IF Payable(row) = 0 \/ row.paid >= Payable(row) THEN "PAID"
  ELSE IF row.paid > 0 THEN "PARTIAL"
  ELSE "UNPAID"

\* A bug: the decision of a person is recomputed away.
DeriveStatusAfresh(row, current) == DerivedStatus(row)

\* deriveStatus(invoice, current): a decision taken by a person is kept.
DeriveStatus(row, current) ==
  IF current \in DecidedStatus THEN current ELSE DerivedStatus(row)

-----------------------------------------------------------------------------
(* Payments of an invoice, and the sum of their amounts. *)

Of(rows, i, statuses) ==
  {p \in Payment : rows[p].invoice = i /\ rows[p].status \in statuses}

Units(rows, P) == {u \in P \X (1 .. MaxAmount) : u[2] <= rows[u[1]].amount}

Sum(rows, P) == Cardinality(Units(rows, P))

Verified(rows, i) == Sum(rows, Of(rows, i, {"VERIFIED"}))
Pending(rows, i)  == Sum(rows, Of(rows, i, {"PENDING"}))

(***************************************************************************)
(* PaymentsService.recalculateInvoice: amountPaid is rebuilt from the      *)
(* verified payments, and the status is derived from it.                   *)
(***************************************************************************)
Recalculated(row, rows, i) ==
  LET counted == [row EXCEPT !.paid = Verified(rows, i)]
  IN  [counted EXCEPT !.status = DeriveStatus(counted, row.status)]

-----------------------------------------------------------------------------
(* Receipt numbers, whatever prefix they were issued under. *)

Issued(rows) == {rows[p].receipt : p \in Payment} \ {None}

IssuedSeqs(rows) == {number.seq : number \in Issued(rows)}

HighestSeq(rows) ==
  CHOOSE n \in IssuedSeqs(rows) \cup {0} : \A m \in IssuedSeqs(rows) : m <= n

\* Bugs: the highest number itself; one more than the verified payments.
HighestReceipt(rows, prefix) == [prefix |-> prefix, seq |-> HighestSeq(rows)]

CountedReceipt(rows, prefix) ==
  [prefix |-> prefix,
   seq |-> Cardinality({p \in Payment : rows[p].status = "VERIFIED"}) + 1]

NextReceipt(rows, prefix) ==
  [prefix |-> prefix, seq |-> HighestSeq(rows) + 1]
=============================================================================
