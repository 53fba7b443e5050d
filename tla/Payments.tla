------------------------------ MODULE Payments ------------------------------
(***************************************************************************)
(* Payments against invoices: PaymentsService.record, verify and reject,   *)
(* StudentFeesService.discount, waive and cancel, and the two deletions of *)
(* abandoned online payments, run by concurrent requests against one       *)
(* school's tables.                                                        *)
(*                                                                         *)
(* Every request but a deletion runs an interactive transaction that locks *)
(* the invoice row first (SELECT ... FOR UPDATE).  The transaction is cut  *)
(* where another request can come between: before the lock, after the      *)
(* reads it decides by, and at the commit, which publishes its writes.     *)
(***************************************************************************)
EXTENDS FeeMath

CONSTANTS
  Request,          \* HTTP requests (or webhook deliveries) in flight
  ReceiptAttempts   \* RECEIPT_ATTEMPTS, five in the source

ASSUME PaymentsAssumption ==
  /\ ReceiptAttempts \in Nat \ {0}
  /\ None \notin Request

VARIABLES
  invoice,   \* the student_fees table
  payment,   \* the payments table
  prefix,    \* school_settings.receiptPrefix
  holder,    \* holder[i]: the request whose transaction locks row i, or None
  req        \* req[r]: where request r is, and its local variables

vars == <<invoice, payment, prefix, holder, req>>

Changes == {"discount", "waive", "cancel"}     \* those of mutateLocked
InTransaction == {"locked", "write", "commit"}
Live == {"PENDING", "VERIFIED"}

NoRow == [total |-> 0, discount |-> 0, paid |-> 0, status |-> "UNPAID"]

Idle == [at |-> "idle", op |-> "none", inv |-> None, pay |-> None, amount |-> 0,
         seen |-> NoRow, number |-> None, attempt |-> 0]

RequestState ==
  [at : {"idle", "waiting", "locked", "write", "commit"},
   op : {"none", "record", "verify", "reject"} \cup Changes,
   inv : Invoice \cup {None}, pay : Payment \cup {None}, amount : Amount,
   seen : InvoiceRow, number : Receipt \cup {None}, attempt : Nat]

TypeOK ==
  /\ invoice \in [Invoice -> InvoiceRow]
  /\ payment \in [Payment -> PaymentRow]
  /\ prefix \in Prefix
  /\ holder \in [Invoice -> Request \cup {None}]
  /\ req \in [Request -> RequestState]

(***************************************************************************)
(* Invoices are as StudentFeesService.assign leaves them.                  *)
(***************************************************************************)
Issue(total) == [total |-> total, discount |-> 0, paid |-> 0,
                 status |-> IF total = 0 THEN "PAID" ELSE "UNPAID"]

Init ==
  /\ \E total \in [Invoice -> Amount] : invoice = [i \in Invoice |-> Issue(total[i])]
  /\ payment = [p \in Payment |-> NoPayment]
  /\ prefix \in Prefix
  /\ holder = [i \in Invoice |-> None]
  /\ req = [r \in Request |-> Idle]

-----------------------------------------------------------------------------
(* A request arrives.  What it reads here, it reads outside a transaction. *)

Enter(r, op, i, p, a) ==
  /\ req[r].at = "idle"
  /\ req' = [req EXCEPT ![r] = [Idle EXCEPT !.at = "waiting", !.op = op,
                                  !.inv = i, !.pay = p, !.amount = a]]
  /\ UNCHANGED <<invoice, payment, prefix, holder>>

\* Bound: a recording is only started while a payment id is left for it.
IdsLeft ==
  Cardinality({r \in Request : req[r].op = "record"})
    < Cardinality({p \in Payment : payment[p].status = "none"})

StartRecord(r, i, a) == IdsLeft /\ a > 0 /\ Enter(r, "record", i, None, a)

\* getOrThrow and assertPending run before the transaction.
StartVerify(r, p) ==
  /\ payment[p].status = "PENDING"
  /\ Enter(r, "verify", payment[p].invoice, p, 0)

StartReject(r, p) ==
  /\ payment[p].status \in Live
  /\ Enter(r, "reject", payment[p].invoice, p, 0)

StartDiscount(r, i, a) == Enter(r, "discount", i, None, a)
StartWaive(r, i)       == Enter(r, "waive", i, None, 0)
StartCancel(r, i)      == Enter(r, "cancel", i, None, 0)

-----------------------------------------------------------------------------
(* The transaction: lock the invoice, read, write and commit. *)

\* A bug: a plain SELECT, which waits for nobody.
LockWithoutWaiting(r) ==
  /\ req[r].at = "waiting"
  /\ holder' = [holder EXCEPT ![req[r].inv] = r]
  /\ req' = [req EXCEPT ![r].at = "locked"]
  /\ UNCHANGED <<invoice, payment, prefix>>

\* lockRow: waits while another transaction holds the row.
Lock(r) ==
  /\ req[r].at = "waiting"
  /\ holder[req[r].inv] = None
  /\ holder' = [holder EXCEPT ![req[r].inv] = r]
  /\ req' = [req EXCEPT ![r].at = "locked"]
  /\ UNCHANGED <<invoice, payment, prefix>>

In(r, op, at) == req[r].op = op /\ req[r].at = at

\* The transaction ends, and with it the request.
Finish(r) ==
  /\ holder' = [holder EXCEPT ![req[r].inv] = None]
  /\ req' = [req EXCEPT ![r] = Idle]
  /\ UNCHANGED prefix

\* It ends without having written anything.
Refuse(r) == Finish(r) /\ UNCHANGED <<invoice, payment>>

\* It commits a new invoice row and new payment rows.
Commit(r, row, rows) ==
  /\ Finish(r)
  /\ invoice' = [invoice EXCEPT ![req[r].inv] = row]
  /\ payment' = rows

\* The process, the connection or a later statement of the transaction fails.
Rollback(r) == req[r].at \in InTransaction /\ Refuse(r)

\* A bug: only what is verified counts towards the ceiling.
CanTakeBesidesPending(i, a) ==
  /\ invoice[i].status \notin DecidedStatus
  /\ a <= Payable(invoice[i]) - invoice[i].paid

\* record: is the invoice open, and does the amount fit under the ceiling?
CanTake(i, a) ==
  /\ invoice[i].status \notin DecidedStatus
  /\ a <= Payable(invoice[i]) - (invoice[i].paid + Pending(payment, i))

RecordCheck(r) ==
  /\ In(r, "record", "locked")
  /\ CanTake(req[r].inv, req[r].amount)
  /\ req' = [req EXCEPT ![r].at = "write"]
  /\ UNCHANGED <<invoice, payment, prefix, holder>>

RecordRefuse(r) ==
  /\ In(r, "record", "locked")
  /\ ~CanTake(req[r].inv, req[r].amount)
  /\ Refuse(r)

RecordInsert(r, p) ==
  /\ In(r, "record", "write")
  /\ payment[p].status = "none"
  /\ Commit(r, invoice[req[r].inv],
       [payment EXCEPT ![p] = [status |-> "PENDING", invoice |-> req[r].inv,
                               amount |-> req[r].amount, receipt |-> None]])

\* verify: the number is chosen from the receipts committed so far ...
VerifyNumber(r) ==
  /\ In(r, "verify", "locked")
  /\ req' = [req EXCEPT ![r].at = "write",
                        ![r].number = NextReceipt(payment, prefix)]
  /\ UNCHANGED <<invoice, payment, prefix, holder>>

\* An update of a payment row that is not committed yet locks the row, and makes
\* a second writer of the same receipt number wait for its outcome.
Updating(r, p)   == req[r].at = "commit" /\ req[r].pay = p
Claiming(number) == \E r \in Request : req[r].at = "commit" /\ req[r].number = number

\* A bug: rejecting a payment takes its receipt number back.
DecidedWithoutReceipt(r) ==
  IF req[r].op = "verify"
  THEN [payment EXCEPT ![req[r].pay].status = "VERIFIED",
                       ![req[r].pay].receipt = req[r].number]
  ELSE [payment EXCEPT ![req[r].pay].status = "REJECTED",
                       ![req[r].pay].receipt = None]

\* The payment's row as request r's own transaction sees and will commit it.
Decided(r) ==
  IF req[r].op = "verify"
  THEN [payment EXCEPT ![req[r].pay].status = "VERIFIED",
                       ![req[r].pay].receipt = req[r].number]
  ELSE [payment EXCEPT ![req[r].pay].status = "REJECTED"]

\* recalculateInvoice: reads the invoice and its verified payments, and updates.
Recalculate(r) ==
  /\ req' = [req EXCEPT ![r].at = "commit",
       ![r].seen = Recalculated(invoice[req[r].inv], Decided(r), req[r].inv)]
  /\ UNCHANGED <<invoice, payment, prefix, holder>>

\* A bug: the update is not conditional on the payment still being pending.
VerifyUpdateAnyway(r) ==
  /\ In(r, "verify", "write")
  /\ payment[req[r].pay].status # "deleted"
  /\ req[r].number \notin Issued(payment)
  /\ ~Claiming(req[r].number)
  /\ Recalculate(r)

\* A bug: no unique index on the receipt number.
VerifyUpdateUnindexed(r) ==
  /\ In(r, "verify", "write")
  /\ payment[req[r].pay].status = "PENDING"
  /\ Recalculate(r)

\* ... and written to the row if that is still pending.
VerifyUpdate(r) ==
  /\ In(r, "verify", "write")
  /\ payment[req[r].pay].status = "PENDING"
  /\ req[r].number \notin Issued(payment)
  /\ ~Claiming(req[r].number)
  /\ Recalculate(r)

VerifyRefuse(r) ==
  /\ In(r, "verify", "write")
  /\ payment[req[r].pay].status # "PENDING"
  /\ Refuse(r)

\* P2002 on (schoolId, receiptNumber): rolled back, and tried again from the lock.
VerifyCollide(r) ==
  /\ In(r, "verify", "write")
  /\ payment[req[r].pay].status = "PENDING"
  /\ req[r].number \in Issued(payment)
  /\ IF req[r].attempt + 1 = ReceiptAttempts
     THEN Finish(r)
     ELSE /\ holder' = [holder EXCEPT ![req[r].inv] = None]
          /\ req' = [req EXCEPT ![r].at = "waiting", ![r].number = None,
                                ![r].attempt = @ + 1]
          /\ UNCHANGED prefix
  /\ UNCHANGED <<invoice, payment>>

\* reject: a verified payment is reversed, its receipt number stays on the row.
RejectUpdate(r) ==
  /\ In(r, "reject", "locked")
  /\ payment[req[r].pay].status \in Live
  /\ Recalculate(r)

RejectRefuse(r) ==
  /\ In(r, "reject", "locked")
  /\ payment[req[r].pay].status \notin Live
  /\ Refuse(r)

\* The commit of either publishes the payment and two columns of the invoice.
DecisionCommit(r) ==
  /\ req[r].at = "commit"
  /\ Commit(r, [invoice[req[r].inv] EXCEPT !.paid = req[r].seen.paid,
                                           !.status = req[r].seen.status],
            Decided(r))

\* mutateLocked hands the row it read under the lock to the change.
ReadRow(r) ==
  /\ req[r].op \in Changes /\ req[r].at = "locked"
  /\ req' = [req EXCEPT ![r].at = "write", ![r].seen = invoice[req[r].inv]]
  /\ UNCHANGED <<invoice, payment, prefix, holder>>

\* A bug: a cancellation only minds the payments that are verified.
AllowedBesidesPending(r) ==
  LET row == req[r].seen
  IN  /\ row.status # "CANCELLED"
      /\ req[r].op \in {"discount", "waive"} => row.status # "WAIVED"
      /\ req[r].op = "discount" => req[r].amount <= row.total
      /\ req[r].op = "cancel" => Of(payment, req[r].inv, {"VERIFIED"}) = {}

\* assertOpen, the limit of a discount, and the live payments a cancel refuses.
Allowed(r) ==
  LET row == req[r].seen
  IN  /\ row.status # "CANCELLED"
      /\ req[r].op \in {"discount", "waive"} => row.status # "WAIVED"
      /\ req[r].op = "discount" => req[r].amount <= row.total
      /\ req[r].op = "cancel" => Of(payment, req[r].inv, Live) = {}

ChangeRefuse(r) ==
  /\ req[r].op \in Changes /\ req[r].at = "write"
  /\ ~Allowed(r)
  /\ Refuse(r)

\* A bug: the discount is written and the status left as it was.
DiscountKeepingStatus(r) ==
  /\ In(r, "discount", "write")
  /\ Allowed(r)
  /\ Commit(r, [invoice[req[r].inv] EXCEPT !.discount = req[r].amount], payment)

\* The status is derived from the row read, the update writes two columns.
Discount(r) ==
  LET seen == [req[r].seen EXCEPT !.discount = req[r].amount]
  IN  /\ In(r, "discount", "write")
      /\ Allowed(r)
      /\ Commit(r, [invoice[req[r].inv] EXCEPT !.discount = req[r].amount,
                                               !.status = DerivedStatus(seen)],
                payment)

Waive(r) ==
  /\ In(r, "waive", "write")
  /\ Allowed(r)
  /\ Commit(r, [invoice[req[r].inv] EXCEPT !.status = "WAIVED"], payment)

Cancel(r) ==
  /\ In(r, "cancel", "write")
  /\ Allowed(r)
  /\ Commit(r, [invoice[req[r].inv] EXCEPT !.status = "CANCELLED"], payment)

-----------------------------------------------------------------------------
(* Writers that take no lock. *)

\* PaystackService.start and sweepAbandoned: deleteMany where id and PENDING.
Discard(p) ==
  /\ payment[p].status = "PENDING"
  /\ \A r \in Request : ~Updating(r, p)
  /\ payment' = [payment EXCEPT ![p] = DeletedPayment]
  /\ UNCHANGED <<invoice, prefix, holder, req>>

SetPrefix(x) ==
  /\ prefix' = x
  /\ UNCHANGED <<invoice, payment, holder, req>>

-----------------------------------------------------------------------------
Start(r) ==
  \/ \E i \in Invoice, a \in Amount : StartRecord(r, i, a) \/ StartDiscount(r, i, a)
  \/ \E i \in Invoice : StartWaive(r, i) \/ StartCancel(r, i)
  \/ \E p \in Payment : StartVerify(r, p) \/ StartReject(r, p)

\* What the server does next for a request whose transaction is open.
Proceed(r) ==
  \/ RecordCheck(r) \/ RecordRefuse(r) \/ \E p \in Payment : RecordInsert(r, p)
  \/ VerifyNumber(r) \/ VerifyUpdate(r) \/ VerifyRefuse(r) \/ VerifyCollide(r)
  \/ RejectUpdate(r) \/ RejectRefuse(r) \/ DecisionCommit(r)
  \/ ReadRow(r) \/ ChangeRefuse(r) \/ Discount(r) \/ Waive(r) \/ Cancel(r)

Next ==
  \/ \E r \in Request : Start(r) \/ Lock(r) \/ Proceed(r) \/ Rollback(r)
  \/ \E p \in Payment : Discard(p)
  \/ \E x \in Prefix : SetPrefix(x)

Spec == Init /\ [][Next]_vars

-----------------------------------------------------------------------------
(* What the tables promise. *)

(***************************************************************************)
(* An invoice's amountPaid is the sum of its verified payments and nothing *)
(* else, after any interleaving of verifications, rejections and changes   *)
(* to the same invoice (recalculateInvoice runs under the invoice's lock). *)
(***************************************************************************)
PaidIsVerified == \A i \in Invoice : invoice[i].paid = Verified(payment, i)

(***************************************************************************)
(* What is pending and verified together never exceeds what was billed:    *)
(* two bursars recording the full balance are not both accepted            *)
(* (assertNotOverpaying counts pending payments, under the lock).          *)
(***************************************************************************)
NeverOverCommitted ==
  \A i \in Invoice : Sum(payment, Of(payment, i, Live)) <= invoice[i].total

(***************************************************************************)
(* The status of an invoice nobody decided on is the one its amounts       *)
(* derive: a discount and a verification that overlap do not leave it      *)
(* PARTIAL with nothing owed, or PAID with a debt (deriveStatus).          *)
(***************************************************************************)
StatusFollowsMoney ==
  \A i \in Invoice : invoice[i].status \notin DecidedStatus
                       => invoice[i].status = DerivedStatus(invoice[i])

(***************************************************************************)
(* No pending or verified payment hangs on a cancelled invoice, neither    *)
(* one recorded while the cancellation was under way nor one verified      *)
(* after it (StudentFeesService.cancel).                                   *)
(***************************************************************************)
CancelledIsEmpty ==
  \A i \in Invoice : invoice[i].status = "CANCELLED"
                       => Of(payment, i, Live) = {}

(***************************************************************************)
(* The receipts of a year are numbered without gaps: a verification that   *)
(* is refused, rolled back or collides with another consumes no number,    *)
(* and rejecting a payment gives none back (verify, nextReceiptNumber).    *)
(***************************************************************************)
ReceiptsHaveNoGaps ==
  \A n \in IssuedSeqs(payment) : \A m \in 1 .. n : m \in IssuedSeqs(payment)

(***************************************************************************)
(* Two payments never carry the same receipt number, and exactly the       *)
(* payments that were verified carry one.                                  *)
(***************************************************************************)
ReceiptsAreUnique ==
  /\ \A p, q \in Payment :
       p # q /\ payment[p].receipt # None => payment[p].receipt # payment[q].receipt
  /\ \A p \in Payment :
       /\ payment[p].status = "VERIFIED" => payment[p].receipt # None
       /\ payment[p].receipt # None => payment[p].status \in {"VERIFIED", "REJECTED"}

(***************************************************************************)
(* A verification only loses its number to one that succeeded: it has been *)
(* retried at most as often as receipts were issued (the retry of verify). *)
(***************************************************************************)
RetriesArePaidFor ==
  \A r \in Request : req[r].attempt <= Cardinality(Issued(payment))

(***************************************************************************)
(* A receipt, once issued, stays on its payment; a verified payment is     *)
(* never pending again and never deleted; a rejected one stays rejected.   *)
(***************************************************************************)
PaymentOnlyMovesForward ==
  [][\A p \in Payment :
       /\ payment[p].receipt # None => payment'[p].receipt = payment[p].receipt
       /\ payment[p].status = "VERIFIED" => payment'[p].status \in {"VERIFIED", "REJECTED"}
       /\ payment[p].status = "REJECTED" => payment'[p].status = "REJECTED"
    ]_vars

(***************************************************************************)
(* Nobody's decision is undone by money that arrives later: a cancelled    *)
(* invoice stays cancelled, a waived one stays waived unless cancelled,    *)
(* and neither is charged a new payment (deriveStatus keeps the current    *)
(* status, assertOpen and record refuse the others).                       *)
(***************************************************************************)
DecisionsStand ==
  [][\A i \in Invoice :
       /\ invoice[i].status = "CANCELLED" => invoice'[i].status = "CANCELLED"
       /\ invoice[i].status = "WAIVED" =>
            /\ invoice'[i].status \in {"WAIVED", "CANCELLED"}
            /\ Of(payment', i, Live) \subseteq Of(payment, i, Live)
    ]_vars

(***************************************************************************)
(* Why they hold: the tables are always consistent, and what a request has *)
(* read under the lock of its invoice is true as long as it holds it.      *)
(***************************************************************************)

\* Unverified payments hold no receipt; ids without a row hold nothing.
RowInv ==
  \A p \in Payment :
    /\ payment[p].status = "none" => payment[p] = NoPayment
    /\ payment[p].status = "deleted" => payment[p] = DeletedPayment
    /\ payment[p].status \notin {"none", "deleted"} => payment[p].invoice \in Invoice
    /\ payment[p].status = "PENDING" => payment[p].receipt = None
    /\ payment[p].status = "VERIFIED" => payment[p].receipt # None

SequenceInv ==
  \E n \in IssuedSeqs(payment) \cup {0} : IssuedSeqs(payment) = 1 .. n

DistinctInv ==
  \A p, q \in Payment :
    p # q /\ payment[p].receipt # None => payment[p].receipt # payment[q].receipt

DiscountInv == \A i \in Invoice : invoice[i].discount <= invoice[i].total

TablesInv ==
  /\ RowInv /\ SequenceInv /\ DistinctInv /\ DiscountInv
  /\ PaidIsVerified /\ NeverOverCommitted /\ StatusFollowsMoney /\ CancelledIsEmpty

LockInv(r) ==
  /\ req[r].at # "idle" => req[r].inv \in Invoice /\ req[r].op # "none"
  /\ req[r].at \in InTransaction => holder[req[r].inv] = r

\* The payment a request names is of the invoice it locks, or is gone.
TargetInv(r) ==
  req[r].op \in {"verify", "reject"} =>
    /\ req[r].pay \in Payment
    /\ \/ /\ payment[req[r].pay].invoice = req[r].inv
          /\ payment[req[r].pay].status \in {"PENDING", "VERIFIED", "REJECTED"}
       \/ payment[req[r].pay] = DeletedPayment

RecordInv(r) ==
  req[r].op = "record" =>
    /\ req[r].amount > 0
    /\ req[r].at = "write" => CanTake(req[r].inv, req[r].amount)

ChangeInv(r) ==
  req[r].op \in Changes /\ req[r].at = "write" => req[r].seen = invoice[req[r].inv]

\* A number once read is at most one ahead of those issued.
NumberInv(r) ==
  req[r].op = "verify" /\ req[r].at \in {"write", "commit"} =>
    /\ req[r].number \in Receipt
    /\ req[r].number.seq = 1 \/ req[r].number.seq - 1 \in IssuedSeqs(payment)

DecisionInv(r) ==
  req[r].at = "commit" =>
    /\ req[r].op \in {"verify", "reject"}
    /\ payment[req[r].pay].status \in Live
    /\ req[r].op = "verify" => /\ payment[req[r].pay].status = "PENDING"
                              /\ req[r].number \notin Issued(payment)
    /\ req[r].seen = Recalculated(invoice[req[r].inv], Decided(r), req[r].inv)

RequestInv(r) ==
  /\ LockInv(r) /\ TargetInv(r) /\ RecordInv(r)
  /\ ChangeInv(r) /\ NumberInv(r) /\ DecisionInv(r)

\* Two uncommitted verifications never claim the same number.
ClaimInv ==
  \A r, s \in Request :
    r # s /\ In(r, "verify", "commit") /\ In(s, "verify", "commit")
      => req[r].number # req[s].number

\* Every retry has an issued number to show for it, below the one it tries now.
AttemptInv(r) ==
  /\ req[r].attempt # 0 => req[r].attempt \in IssuedSeqs(payment)
  /\ In(r, "verify", "write") => req[r].attempt < req[r].number.seq

AttemptsInv == \A r \in Request : AttemptInv(r)

Inductive ==
  TypeOK /\ TablesInv /\ ClaimInv /\ \A r \in Request : RequestInv(r)

(***************************************************************************)
(* The interleaved transactions are, on the two tables, the operations of  *)
(* InvoiceLedger taking effect one at a time: what a request decides by    *)
(* still holds when it commits, and rebuilding amountPaid is the same as   *)
(* moving it by the amount verified or reversed.                           *)
(***************************************************************************)
Ledger == INSTANCE InvoiceLedger

ImplementsLedger == Ledger!Spec
=============================================================================
