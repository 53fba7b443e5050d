--------------------------- MODULE PaymentsProofs ---------------------------
(***************************************************************************)
(* Proofs about Payments: the inductive invariant and what follows from    *)
(* it, the implementation of InvoiceLedger and what no step may do.        *)
(***************************************************************************)
EXTENDS Payments, FeeMathProofs

USE DEF In, InTransaction

(* A recalculated invoice is an invoice (recalculateInvoice). *)
LEMMA RecalculatedType ==
  ASSUME NEW row \in InvoiceRow, NEW rows, NEW i \in Invoice
  PROVE  Recalculated(row, rows, i) \in InvoiceRow
<1>1. Of(rows, i, {"VERIFIED"}) \in SUBSET Payment
  BY DEF Of
<1>2. Verified(rows, i) \in Nat
  BY <1>1, SumType DEF Verified
<1> DEFINE counted == [row EXCEPT !.paid = Verified(rows, i)]
<1>3. counted \in InvoiceRow
  BY <1>2 DEF InvoiceRow
<1>4. DeriveStatus(counted, row.status) \in InvoiceStatus
  BY StatusType DEF InvoiceRow
<1>5. [counted EXCEPT !.status = DeriveStatus(counted, row.status)] \in InvoiceRow
  BY <1>3, <1>4 DEF InvoiceRow
<1> QED
  BY <1>5 DEF Recalculated

(* The next receipt of a sequence without gaps is a receipt (nextReceiptNumber). *)
LEMMA NextReceiptType ==
  ASSUME TypeOK, SequenceInv
  PROVE  /\ NextReceipt(payment, prefix) \in Receipt
         /\ \/ NextReceipt(payment, prefix).seq = 1
            \/ NextReceipt(payment, prefix).seq - 1 \in IssuedSeqs(payment)
<1>1. IssuedSeqs(payment) \in SUBSET (Nat \ {0})
  BY DEF TypeOK, IssuedSeqs, Issued, PaymentRow, Receipt
<1>2. PICK n \in IssuedSeqs(payment) \cup {0} : IssuedSeqs(payment) = 1 .. n
  BY DEF SequenceInv
<1>3. n \in Nat
  BY <1>1, <1>2
<1>4. HighestSeq(payment) = n
  BY <1>2, <1>3, HighestOfGapless
<1>5. NextReceipt(payment, prefix) = [prefix |-> prefix, seq |-> n + 1]
  BY <1>4 DEF NextReceipt
<1>6. prefix \in Prefix
  BY DEF TypeOK
<1> QED
  BY <1>2, <1>3, <1>5, <1>6 DEF Receipt

(* The state of a request that is not there. *)
LEMMA IdleType == Idle \in RequestState
BY FeeMathAssumption DEF Idle, NoRow, RequestState, InvoiceRow, Amount, InvoiceStatus

-----------------------------------------------------------------------------
(* The tables as they are seeded (assign) are consistent, and nobody asks. *)
LEMMA InitInductive == Init => Inductive
<1> SUFFICES ASSUME Init PROVE Inductive
  OBVIOUS
<1> USE DEF Init
<1>1. PICK total \in [Invoice -> Amount] :
        invoice = [i \in Invoice |-> Issue(total[i])]
  OBVIOUS
<1>2. \A i \in Invoice : /\ invoice[i] \in InvoiceRow
                         /\ invoice[i].paid = 0 /\ invoice[i].discount = 0
                         /\ invoice[i].status = DerivedStatus(invoice[i])
                         /\ invoice[i].status \in {"PAID", "UNPAID"}
  BY <1>1, FeeMathAssumption
     DEF Issue, InvoiceRow, Amount, InvoiceStatus, DerivedStatus, Payable
<1>3. \A i \in Invoice : \A statuses :
        "none" \notin statuses => Of(payment, i, statuses) = {}
  BY DEF Of, NoPayment
<1>4. TypeOK
  <2>1. invoice \in [Invoice -> InvoiceRow]
    BY <1>1, <1>2
  <2>2. payment \in [Payment -> PaymentRow]
    BY FeeMathAssumption DEF NoPayment, PaymentRow, PaymentStatus, Amount
  <2>3. req \in [Request -> RequestState]
    BY IdleType
  <2> QED
    BY <2>1, <2>2, <2>3 DEF TypeOK
<1>5. \A r \in Request : RequestInv(r)
  BY FeeMathAssumption
     DEF RequestInv, LockInv, TargetInv, RecordInv, ChangeInv, NumberInv, DecisionInv,
         Idle, Changes
<1>6. RowInv /\ DistinctInv /\ ClaimInv
  BY DEF RowInv, DistinctInv, ClaimInv, Idle, NoPayment
<1>7. IssuedSeqs(payment) = {}
  BY DEF IssuedSeqs, Issued, NoPayment
<1>8. SequenceInv
  <2>1. 0 \in IssuedSeqs(payment) \cup {0} /\ 1 .. 0 = {}
    OBVIOUS
  <2> QED
    BY <1>7, <2>1 DEF SequenceInv
<1>9. \A i \in Invoice : \A statuses :
        "none" \notin statuses => Sum(payment, Of(payment, i, statuses)) = 0
  BY <1>3, SumEmpty
<1>10. PaidIsVerified
  BY <1>2, <1>9 DEF PaidIsVerified, Verified
<1>11. NeverOverCommitted
  <2>1. \A i \in Invoice : 0 <= invoice[i].total
    BY <1>2, FeeMathAssumption DEF InvoiceRow, Amount
  <2>2. "none" \notin Live
    BY DEF Live
  <2> QED
    BY <1>9, <2>1, <2>2 DEF NeverOverCommitted
<1>12. DiscountInv /\ StatusFollowsMoney /\ CancelledIsEmpty
  BY <1>2, FeeMathAssumption
     DEF DiscountInv, StatusFollowsMoney, CancelledIsEmpty, InvoiceRow, Amount
<1> QED
  BY <1>4, <1>5, <1>6, <1>8, <1>10, <1>11, <1>12 DEF Inductive, TablesInv

-----------------------------------------------------------------------------
(* Steps that leave both tables alone. *)

\* A step that writes neither table leaves both of them consistent.
LEMMA QuietTables ==
  ASSUME TablesInv, UNCHANGED <<invoice, payment>>
  PROVE  TablesInv'
<1>1. RowInv' /\ SequenceInv' /\ DistinctInv' /\ DiscountInv'
  BY DEF TablesInv, RowInv, SequenceInv, DistinctInv, DiscountInv
<1>2. PaidIsVerified' /\ NeverOverCommitted'
  BY DEF TablesInv, PaidIsVerified, NeverOverCommitted
<1>3. StatusFollowsMoney' /\ CancelledIsEmpty'
  BY DEF TablesInv, StatusFollowsMoney, CancelledIsEmpty
<1> QED
  BY <1>1, <1>2, <1>3 DEF TablesInv

(* What a request knows stays true while the rows it has locked stay. *)
LEMMA QuietOthers ==
  ASSUME NEW s \in Request, RequestInv(s), UNCHANGED <<invoice, payment>>,
         req'[s] = req[s],
         req[s].at \in InTransaction => holder'[req[s].inv] = s
  PROVE  RequestInv(s)'
<1>1. LockInv(s)' /\ TargetInv(s)' /\ ChangeInv(s)'
  BY DEF RequestInv, LockInv, TargetInv, ChangeInv
<1>2. RecordInv(s)'
  BY DEF RequestInv, RecordInv, CanTake
<1>3. NumberInv(s)'
  BY DEF RequestInv, NumberInv
<1>4. DecisionInv(s)'
  <2>1. Decided(s)' = Decided(s)
    BY DEF Decided
  <2> QED
    BY <2>1 DEF RequestInv, DecisionInv
<1> QED
  BY <1>1, <1>2, <1>3, <1>4 DEF RequestInv

(* Nobody claims a number in a step that starts no commit. *)
LEMMA ClaimKept ==
  ASSUME ClaimInv, NEW r \in Request, \A s \in Request \ {r} : req'[s] = req[s],
         ~(In(r, "verify", "commit")')
  PROVE  ClaimInv'
BY DEF ClaimInv

(* A row lock has one holder: the others keep theirs when r takes one that is
   free, or gives up its own (SELECT ... FOR UPDATE). *)
LEMMA OthersKeepTheirLock ==
  ASSUME Inductive, NEW r \in Request,
         \/ UNCHANGED holder
         \/ holder[req[r].inv] = None /\ holder' = [holder EXCEPT ![req[r].inv] = r]
         \/ holder[req[r].inv] = r /\ holder' = [holder EXCEPT ![req[r].inv] = None]
  PROVE  \A s \in Request \ {r} :
           req[s].at \in InTransaction => holder'[req[s].inv] = s
<1> SUFFICES ASSUME NEW s \in Request \ {r}, req[s].at \in InTransaction
             PROVE  holder'[req[s].inv] = s
  OBVIOUS
<1>1. holder[req[s].inv] = s /\ req[s].inv \in Invoice
  BY DEF Inductive, RequestInv, LockInv
<1>2. holder \in [Invoice -> Request \cup {None}]
  BY DEF Inductive, TypeOK
<1> QED
  BY <1>1, <1>2, PaymentsAssumption

(* A step of one request that leaves the tables alone keeps the invariant if
   what that request then knows is true. *)
LEMMA QuietStep ==
  ASSUME Inductive, NEW r \in Request, UNCHANGED <<invoice, payment, prefix>>,
         NEW x \in RequestState, req' = [req EXCEPT ![r] = x],
         \/ UNCHANGED holder
         \/ /\ holder[req[r].inv] = None /\ req[r].inv \in Invoice
            /\ holder' = [holder EXCEPT ![req[r].inv] = r]
         \/ holder[req[r].inv] = r /\ holder' = [holder EXCEPT ![req[r].inv] = None],
         RequestInv(r)', ClaimInv'
  PROVE  Inductive'
<1>1. TypeOK'
  BY DEF Inductive, TypeOK
<1>2. TablesInv'
  BY QuietTables DEF Inductive
<1>3. \A s \in Request \ {r} : req'[s] = req[s]
  BY DEF Inductive, TypeOK
<1>4. \A s \in Request \ {r} :
        req[s].at \in InTransaction => holder'[req[s].inv] = s
  BY OthersKeepTheirLock
<1>5. \A s \in Request \ {r} : RequestInv(s)'
  BY <1>3, <1>4, QuietOthers DEF Inductive
<1> QED
  BY <1>1, <1>2, <1>5 DEF Inductive

(* A request that arrives knows the invoice of the payment it names. *)
LEMMA StartStep ==
  ASSUME Inductive, NEW r \in Request, Start(r)
  PROVE  Inductive'
<1> DEFINE Arrives(op, i, p, a) ==
             /\ Enter(r, op, i, p, a)
             /\ op \in {"verify", "reject"} =>
                  /\ p \in Payment /\ payment[p].invoice = i
                  /\ payment[p].status \in Live
             /\ op = "record" => a > 0
<1>1. \E op \in {"record", "verify", "reject"} \cup Changes,
         i \in Invoice, p \in Payment \cup {None}, a \in Amount : Arrives(op, i, p, a)
  <2>1. 0 \in Amount
    BY FeeMathAssumption DEF Amount
  <2>2. CASE \E i \in Invoice, a \in Amount : StartRecord(r, i, a)
    BY <2>2 DEF StartRecord, Changes
  <2>3. CASE \E i \in Invoice, a \in Amount : StartDiscount(r, i, a)
    BY <2>3 DEF StartDiscount, Changes
  <2>4. CASE \E i \in Invoice : StartWaive(r, i) \/ StartCancel(r, i)
    BY <2>1, <2>4 DEF StartWaive, StartCancel, Changes
  <2>5. CASE \E p \in Payment : StartVerify(r, p) \/ StartReject(r, p)
    <3>1. \A p \in Payment : payment[p].status \in Live => payment[p].invoice \in Invoice
      BY DEF Inductive, TablesInv, RowInv, Live
    <3> QED
      BY <2>1, <2>5, <3>1 DEF StartVerify, StartReject, Live
  <2> QED
    BY <2>2, <2>3, <2>4, <2>5 DEF Start
<1>2. PICK op \in {"record", "verify", "reject"} \cup Changes,
           i \in Invoice, p \in Payment \cup {None}, a \in Amount : Arrives(op, i, p, a)
  BY <1>1
<1> DEFINE x == [Idle EXCEPT !.at = "waiting", !.op = op, !.inv = i, !.pay = p,
                             !.amount = a]
<1>3. x \in RequestState
  BY IdleType DEF RequestState
<1>4. req' = [req EXCEPT ![r] = x] /\ UNCHANGED <<invoice, payment, prefix, holder>>
  BY <1>2 DEF Enter
<1>5. req'[r] = x
  BY <1>4 DEF Inductive, TypeOK
<1>6. /\ x.at = "waiting" /\ x.op = op /\ x.inv = i /\ x.pay = p /\ x.amount = a
  BY DEF Idle
<1>7. TargetInv(r)'
  BY <1>2, <1>4, <1>5, <1>6 DEF TargetInv, Live
<1>8. RequestInv(r)'
  BY <1>2, <1>5, <1>6, <1>7
     DEF RequestInv, LockInv, RecordInv, ChangeInv, NumberInv, DecisionInv, Changes
<1>9. ClaimInv'
  BY <1>4, <1>5, <1>6, ClaimKept DEF Inductive, TypeOK
<1> QED
  BY <1>3, <1>4, <1>8, <1>9, QuietStep

(* The lock of a free row is granted (lockRow). *)
LEMMA LockStep ==
  ASSUME Inductive, NEW r \in Request, Lock(r)
  PROVE  Inductive'
<1> DEFINE x == [req[r] EXCEPT !.at = "locked"]
<1>1. req[r] \in RequestState /\ req[r].at = "waiting" /\ req[r].inv \in Invoice
  BY DEF Inductive, TypeOK, Lock, RequestInv, LockInv
<1>2. x \in RequestState
  BY <1>1 DEF RequestState
<1>3. /\ req' = [req EXCEPT ![r] = x] /\ UNCHANGED <<invoice, payment, prefix>>
      /\ holder[req[r].inv] = None /\ holder' = [holder EXCEPT ![req[r].inv] = r]
  BY DEF Lock
<1>4. req'[r] = x
  BY <1>3 DEF Inductive, TypeOK
<1>5. /\ x.at = "locked" /\ x.op = req[r].op /\ x.inv = req[r].inv
      /\ x.pay = req[r].pay /\ x.amount = req[r].amount
  BY <1>1 DEF RequestState
<1>6. LockInv(r)'
  BY <1>1, <1>3, <1>4, <1>5 DEF LockInv, Inductive, RequestInv, TypeOK
<1>7. TargetInv(r)'
  BY <1>3, <1>4, <1>5 DEF TargetInv, Inductive, RequestInv
<1>8. RequestInv(r)'
  BY <1>4, <1>5, <1>6, <1>7
     DEF RequestInv, RecordInv, ChangeInv, NumberInv, DecisionInv, Inductive
<1>9. ClaimInv'
  BY <1>3, <1>4, <1>5, ClaimKept DEF Inductive, TypeOK
<1> QED
  BY <1>1, <1>2, <1>3, <1>8, <1>9, QuietStep

(* A transaction that ends without writing leaves everybody's knowledge true. *)
LEMMA RefuseStep ==
  ASSUME Inductive, NEW r \in Request, req[r].at \in InTransaction, Refuse(r)
  PROVE  Inductive'
<1>1. holder[req[r].inv] = r
  BY DEF Inductive, RequestInv, LockInv
<1>2. Idle \in RequestState
  BY IdleType
<1>3. /\ req' = [req EXCEPT ![r] = Idle] /\ UNCHANGED <<invoice, payment, prefix>>
      /\ holder' = [holder EXCEPT ![req[r].inv] = None]
  BY DEF Refuse, Finish
<1>4. req'[r] = Idle
  BY <1>3 DEF Inductive, TypeOK
<1>5. RequestInv(r)'
  BY <1>4 DEF RequestInv, LockInv, TargetInv, RecordInv, ChangeInv, NumberInv,
              DecisionInv, Idle, Changes
<1>6. ClaimInv'
  BY <1>3, <1>4, ClaimKept DEF Inductive, TypeOK, Idle
<1> QED
  BY <1>1, <1>2, <1>3, <1>5, <1>6, QuietStep

-----------------------------------------------------------------------------
(* The reads of a transaction: what it reads under the lock is what is there. *)

\* record (62-83): the amount checked under the lock still fits when it is inserted.
LEMMA RecordCheckStep ==
  ASSUME Inductive, NEW r \in Request, RecordCheck(r)
  PROVE  Inductive'
<1> DEFINE x == [req[r] EXCEPT !.at = "write"]
<1>1. /\ req[r] \in RequestState /\ req[r].op = "record" /\ req[r].inv \in Invoice
      /\ holder[req[r].inv] = r
  BY DEF Inductive, TypeOK, RecordCheck, RequestInv, LockInv
<1>2. x \in RequestState
  BY <1>1 DEF RequestState
<1>3. req' = [req EXCEPT ![r] = x] /\ UNCHANGED <<invoice, payment, prefix, holder>>
  BY DEF RecordCheck
<1>4. req'[r] = x
  BY <1>3 DEF Inductive, TypeOK
<1>5. /\ x.at = "write" /\ x.op = "record" /\ x.inv = req[r].inv
      /\ x.amount = req[r].amount
  BY <1>1 DEF RequestState
<1>6. RecordInv(r)'
  BY <1>1, <1>3, <1>4, <1>5
     DEF RecordInv, RecordCheck, CanTake, Inductive, RequestInv
<1>7. RequestInv(r)'
  BY <1>1, <1>3, <1>4, <1>5, <1>6
     DEF RequestInv, LockInv, TargetInv, ChangeInv, NumberInv, DecisionInv, Changes
<1>8. ClaimInv'
  BY <1>3, <1>4, <1>5, ClaimKept DEF Inductive, TypeOK
<1> QED
  BY <1>2, <1>3, <1>7, <1>8, QuietStep

\* nextReceiptNumber: the number read is the next one, whoever else reads it too.
LEMMA VerifyNumberStep ==
  ASSUME Inductive, NEW r \in Request, VerifyNumber(r)
  PROVE  Inductive'
<1> DEFINE x == [req[r] EXCEPT !.at = "write", !.number = NextReceipt(payment, prefix)]
<1>1. /\ req[r] \in RequestState /\ req[r].op = "verify" /\ req[r].inv \in Invoice
      /\ holder[req[r].inv] = r
  BY DEF Inductive, TypeOK, VerifyNumber, RequestInv, LockInv
<1>2. /\ NextReceipt(payment, prefix) \in Receipt
      /\ \/ NextReceipt(payment, prefix).seq = 1
         \/ NextReceipt(payment, prefix).seq - 1 \in IssuedSeqs(payment)
  BY NextReceiptType DEF Inductive, TablesInv
<1>3. x \in RequestState
  BY <1>1, <1>2 DEF RequestState
<1>4. req' = [req EXCEPT ![r] = x] /\ UNCHANGED <<invoice, payment, prefix, holder>>
  BY DEF VerifyNumber
<1>5. req'[r] = x
  BY <1>4 DEF Inductive, TypeOK
<1>6. /\ x.at = "write" /\ x.op = "verify" /\ x.inv = req[r].inv /\ x.pay = req[r].pay
      /\ x.number = NextReceipt(payment, prefix)
  BY <1>1 DEF RequestState
<1>7. TargetInv(r)'
  BY <1>1, <1>4, <1>5, <1>6 DEF TargetInv, Inductive, RequestInv
<1>8. NumberInv(r)'
  BY <1>2, <1>4, <1>5, <1>6 DEF NumberInv
<1>9. RequestInv(r)'
  BY <1>1, <1>4, <1>5, <1>6, <1>7, <1>8
     DEF RequestInv, LockInv, RecordInv, ChangeInv, DecisionInv, Changes
<1>10. ClaimInv'
  BY <1>4, <1>5, <1>6, ClaimKept DEF Inductive, TypeOK
<1> QED
  BY <1>3, <1>4, <1>9, <1>10, QuietStep

\* The P2002 branch of verify: the lock is released, and nothing was written.
LEMMA VerifyCollideStep ==
  ASSUME Inductive, NEW r \in Request, VerifyCollide(r)
  PROVE  Inductive'
<1>1. /\ req[r] \in RequestState /\ req[r].at = "write" /\ req[r].inv \in Invoice
      /\ req[r].op = "verify" /\ holder[req[r].inv] = r
  BY DEF Inductive, TypeOK, VerifyCollide, RequestInv, LockInv
<1>2. CASE req[r].attempt + 1 = ReceiptAttempts
  BY <1>1, <1>2, RefuseStep DEF VerifyCollide, Refuse
<1>3. CASE req[r].attempt + 1 # ReceiptAttempts
  <2> DEFINE x == [req[r] EXCEPT !.at = "waiting", !.number = None,
                                 !.attempt = @ + 1]
  <2>0. req[r].attempt + 1 \in Nat /\ None \in Receipt \cup {None}
    BY <1>1 DEF RequestState
  <2>1. x \in RequestState
    BY <1>1, <2>0 DEF RequestState
  <2>2. /\ req' = [req EXCEPT ![r] = x] /\ UNCHANGED <<invoice, payment, prefix>>
        /\ holder' = [holder EXCEPT ![req[r].inv] = None]
    BY <1>3 DEF VerifyCollide
  <2>3. req'[r] = x
    BY <2>2 DEF Inductive, TypeOK
  <2>4. /\ x.at = "waiting" /\ x.op = "verify" /\ x.inv = req[r].inv
        /\ x.pay = req[r].pay
    BY <1>1 DEF RequestState
  <2>5. TargetInv(r)'
    BY <1>1, <2>2, <2>3, <2>4 DEF TargetInv, Inductive, RequestInv
  <2>6. RequestInv(r)'
    BY <1>1, <2>2, <2>3, <2>4, <2>5
       DEF RequestInv, LockInv, RecordInv, ChangeInv, NumberInv, DecisionInv, Changes
  <2>7. ClaimInv'
    BY <2>2, <2>3, <2>4, ClaimKept DEF Inductive, TypeOK
  <2> QED
    BY <1>1, <2>1, <2>2, <2>6, <2>7, QuietStep
<1> QED
  BY <1>2, <1>3

\* mutateLocked: the row it reads under the lock is the row of the table.
LEMMA ReadRowStep ==
  ASSUME Inductive, NEW r \in Request, ReadRow(r)
  PROVE  Inductive'
<1> DEFINE x == [req[r] EXCEPT !.at = "write", !.seen = invoice[req[r].inv]]
<1>1. /\ req[r] \in RequestState /\ req[r].op \in Changes /\ req[r].inv \in Invoice
      /\ holder[req[r].inv] = r /\ invoice[req[r].inv] \in InvoiceRow
  BY DEF Inductive, TypeOK, ReadRow, RequestInv, LockInv
<1>2. x \in RequestState
  BY <1>1 DEF RequestState
<1>3. req' = [req EXCEPT ![r] = x] /\ UNCHANGED <<invoice, payment, prefix, holder>>
  BY DEF ReadRow
<1>4. req'[r] = x
  BY <1>3 DEF Inductive, TypeOK
<1>5. /\ x.at = "write" /\ x.op = req[r].op /\ x.inv = req[r].inv
      /\ x.seen = invoice[req[r].inv]
  BY <1>1 DEF RequestState
<1>6. RequestInv(r)'
  BY <1>1, <1>3, <1>4, <1>5
     DEF RequestInv, LockInv, TargetInv, RecordInv, ChangeInv, NumberInv, DecisionInv,
         Changes
<1>7. ClaimInv'
  BY <1>1, <1>3, <1>4, <1>5, ClaimKept DEF Inductive, TypeOK, Changes
<1> QED
  BY <1>2, <1>3, <1>6, <1>7, QuietStep

(* A decision written but not committed: the amounts of the invoice have been
   rebuilt from the payments as the transaction itself sees them. *)
LEMMA RecalculateStep ==
  ASSUME Inductive, NEW r \in Request,
         \/ In(r, "verify", "write") /\ payment[req[r].pay].status = "PENDING"
              /\ req[r].number \notin Issued(payment) /\ ~Claiming(req[r].number)
         \/ In(r, "reject", "locked") /\ payment[req[r].pay].status \in Live,
         Recalculate(r)
  PROVE  Inductive'
<1> DEFINE row == Recalculated(invoice[req[r].inv], Decided(r), req[r].inv)
           x   == [req[r] EXCEPT !.at = "commit", !.seen = row]
<1>1. /\ req[r] \in RequestState /\ req[r].op \in {"verify", "reject"}
      /\ req[r].inv \in Invoice /\ holder[req[r].inv] = r
      /\ invoice[req[r].inv] \in InvoiceRow
  BY DEF Inductive, TypeOK, RequestInv, LockInv
<1>2. row \in InvoiceRow
  BY <1>1, RecalculatedType
<1> HIDE DEF row
<1>3. x \in RequestState
  BY <1>1, <1>2 DEF RequestState
<1>4. req' = [req EXCEPT ![r] = x] /\ UNCHANGED <<invoice, payment, prefix, holder>>
  BY DEF Recalculate, row
<1>5. req'[r] = x
  BY <1>4 DEF Inductive, TypeOK
<1>6. /\ x.at = "commit" /\ x.op = req[r].op /\ x.inv = req[r].inv
      /\ x.pay = req[r].pay /\ x.number = req[r].number /\ x.seen = row
  BY <1>1 DEF RequestState
<1>7. Decided(r)' = Decided(r)
  BY <1>4, <1>5, <1>6 DEF Decided
<1>8. TargetInv(r)' /\ NumberInv(r)'
  BY <1>1, <1>4, <1>5, <1>6 DEF TargetInv, NumberInv, Inductive, RequestInv
<1>9. DecisionInv(r)'
  <2>1. Recalculated(invoice[req[r].inv], Decided(r), req[r].inv)' = row
    BY <1>4, <1>5, <1>6, <1>7 DEF row
  <2> QED
    BY <1>1, <1>4, <1>5, <1>6, <2>1 DEF DecisionInv, Live
<1>10. RequestInv(r)'
  BY <1>1, <1>4, <1>5, <1>6, <1>8, <1>9
     DEF RequestInv, LockInv, RecordInv, ChangeInv, Changes
<1>11. ClaimInv'
  <2>1. CASE req[r].op = "verify"
    BY <1>4, <1>5, <1>6, <2>1 DEF ClaimInv, Claiming, Inductive, TypeOK
  <2>2. CASE req[r].op # "verify"
    BY <1>4, <1>5, <1>6, <2>2, ClaimKept DEF Inductive, TypeOK
  <2> QED
    BY <2>1, <2>2
<1> QED
  BY <1>3, <1>4, <1>10, <1>11, QuietStep

-----------------------------------------------------------------------------
(* Steps that change the tables.  They change payments of one invoice only. *)

Elsewhere(rows, other, i) ==
  \A q \in Payment : \/ other[q] = rows[q]
                     \/ {rows[q].invoice, other[q].invoice} \subseteq {i, None}

(* The sums of another invoice stay as they are. *)
LEMMA SumsElsewhere ==
  ASSUME NEW rows, NEW other, NEW i, Elsewhere(rows, other, i),
         NEW j \in Invoice \ {i}, NEW statuses
  PROVE  /\ Of(other, j, statuses) = Of(rows, j, statuses)
         /\ Sum(other, Of(other, j, statuses)) = Sum(rows, Of(rows, j, statuses))
<1>1. j # None
  BY FeeMathAssumption
<1>2. \A q \in Payment : rows[q].invoice = j \/ other[q].invoice = j
        => other[q] = rows[q]
  BY <1>1 DEF Elsewhere
<1>3. Of(other, j, statuses) = Of(rows, j, statuses)
  BY <1>2 DEF Of
<1>4. \A q \in Of(rows, j, statuses) : rows[q].amount = other[q].amount
  BY <1>2 DEF Of
<1>5. Of(rows, j, statuses) \in SUBSET Payment
  BY DEF Of
<1> QED
  BY <1>3, <1>4, <1>5, SumSame

(* The live payments of an invoice are its verified and its pending ones. *)
LEMMA LiveSum ==
  ASSUME NEW rows, NEW i
  PROVE  /\ Verified(rows, i) \in Nat /\ Pending(rows, i) \in Nat
         /\ Sum(rows, Of(rows, i, Live)) = Verified(rows, i) + Pending(rows, i)
<1> DEFINE V == Of(rows, i, {"VERIFIED"})
           P == Of(rows, i, {"PENDING"})
<1>1. V \in SUBSET Payment /\ P \in SUBSET Payment
  BY DEF Of
<1>2. V \cap P = {} /\ Of(rows, i, Live) = V \cup P
  BY DEF Of, Live
<1> QED
  BY <1>1, <1>2, SumDisjoint, SumType DEF Verified, Pending

(* What must hold of the one invoice a step changes. *)
Consistent(row, rows, i) ==
  /\ row \in InvoiceRow
  /\ row.discount <= row.total
  /\ row.paid = Verified(rows, i)
  /\ Sum(rows, Of(rows, i, Live)) <= row.total
  /\ row.status \notin DecidedStatus => row.status = DerivedStatus(row)
  /\ row.status = "CANCELLED" => Of(rows, i, Live) = {}

\* One invoice of consistent tables is consistent.
LEMMA ConsistentBefore ==
  ASSUME Inductive, NEW i \in Invoice
  PROVE  Consistent(invoice[i], payment, i)
BY DEF Inductive, TypeOK, TablesInv, DiscountInv, PaidIsVerified, NeverOverCommitted,
       StatusFollowsMoney, CancelledIsEmpty, Consistent

\* Tables in which every invoice is consistent satisfy the four invariants of money.
LEMMA ConsistentAfter ==
  ASSUME Inductive, NEW i \in Invoice, NEW row, NEW rows, Consistent(row, rows, i),
         Elsewhere(payment, rows, i), payment' = rows,
         invoice' = [invoice EXCEPT ![i] = row],
         RowInv', SequenceInv', DistinctInv'
  PROVE  TablesInv' /\ invoice' \in [Invoice -> InvoiceRow]
<1>1. invoice \in [Invoice -> InvoiceRow]
  BY DEF Inductive, TypeOK
<1>2. invoice'[i] = row /\ \A j \in Invoice \ {i} : invoice'[j] = invoice[j]
  BY <1>1
<1>3. \A j \in Invoice : Consistent(invoice'[j], rows, j)
  <2>1. ASSUME NEW j \in Invoice \ {i} PROVE Consistent(invoice[j], rows, j)
    <3>1. Consistent(invoice[j], payment, j)
      BY ConsistentBefore
    <3>2. /\ Of(rows, j, Live) = Of(payment, j, Live)
          /\ Sum(rows, Of(rows, j, Live)) = Sum(payment, Of(payment, j, Live))
          /\ Verified(rows, j) = Verified(payment, j)
      BY SumsElsewhere DEF Verified
    <3> QED
      BY <3>1, <3>2 DEF Consistent
  <2> QED
    BY <1>2, <2>1
<1>4. DiscountInv' /\ PaidIsVerified'
  BY <1>3 DEF DiscountInv, PaidIsVerified, Consistent
<1>5. NeverOverCommitted'
  BY <1>3 DEF NeverOverCommitted, Consistent
<1>6. StatusFollowsMoney' /\ CancelledIsEmpty'
  BY <1>3 DEF StatusFollowsMoney, CancelledIsEmpty, Consistent
<1>7. invoice' \in [Invoice -> InvoiceRow]
  BY <1>1 DEF Consistent
<1> QED
  BY <1>4, <1>5, <1>6, <1>7 DEF TablesInv

(* Rows that were recorded stay rows of their invoice, and receipts stay. *)
Forward(rows, other) ==
  \A q \in Payment :
    /\ rows[q].status \in {"PENDING", "VERIFIED", "REJECTED"} =>
         /\ other[q].invoice = rows[q].invoice
         /\ other[q].status \in {"PENDING", "VERIFIED", "REJECTED"}
    /\ rows[q] = DeletedPayment => other[q] = DeletedPayment
    /\ rows[q].receipt # None => other[q].receipt = rows[q].receipt

(* Another request, whose transaction locks another invoice, still knows what
   it knew: rows it named may have been decided, numbers may have been issued. *)
LEMMA CommitOthers ==
  ASSUME Inductive, NEW r \in Request, NEW s \in Request \ {r}, NEW row, NEW rows \in Rows,
         req[r].at \in InTransaction, Commit(r, row, rows),
         Elsewhere(payment, rows, req[r].inv),
         Forward(payment, rows),
         \A number \in Issued(rows) \ Issued(payment) :
           In(r, "verify", "commit") /\ number = req[r].number
  PROVE  RequestInv(s)'
<1> DEFINE i == req[r].inv
           j == req[s].inv
<1>1. /\ payment' = rows /\ invoice' = [invoice EXCEPT ![i] = row]
      /\ holder' = [holder EXCEPT ![i] = None] /\ req'[s] = req[s]
  BY DEF Commit, Finish, Inductive, TypeOK
<1>2. holder[i] = r
  BY DEF Inductive, RequestInv, LockInv
<1>3. req[s].at \in InTransaction =>
        j \in Invoice /\ j # i /\ holder'[j] = s /\ invoice'[j] = invoice[j]
  BY <1>1, <1>2 DEF Inductive, TypeOK, RequestInv, LockInv
<1>4. LockInv(s)'
  BY <1>1, <1>3 DEF Inductive, RequestInv, LockInv
<1>5. TargetInv(s)'
  BY <1>1 DEF Inductive, RequestInv, TargetInv, Forward
<1>6. ChangeInv(s)'
  BY <1>1, <1>3 DEF Inductive, RequestInv, ChangeInv
<1>7. RecordInv(s)'
  <2>1. req[s].at \in InTransaction => Pending(rows, j) = Pending(payment, j)
    BY <1>3, SumsElsewhere DEF Pending
  <2> QED
    BY <1>1, <1>3, <2>1 DEF Inductive, RequestInv, RecordInv, CanTake
<1>8. NumberInv(s)'
  <2>1. Issued(payment) \subseteq Issued(rows)
    BY DEF Issued, Forward
  <2>2. IssuedSeqs(payment) \subseteq IssuedSeqs(rows)
    BY <2>1 DEF IssuedSeqs
  <2> QED
    BY <1>1, <2>2 DEF Inductive, RequestInv, NumberInv
<1>9. DecisionInv(s)'
  <2> SUFFICES ASSUME req[s].at = "commit" PROVE DecisionInv(s)'
    BY <1>1 DEF DecisionInv
  <2> DEFINE q == req[s].pay
  <2>1. /\ req[s].op \in {"verify", "reject"} /\ payment[q].status \in Live
        /\ req[s].op = "verify" => /\ payment[q].status = "PENDING"
                                   /\ req[s].number \notin Issued(payment)
        /\ req[s].seen = Recalculated(invoice[j], Decided(s), j)
    BY DEF Inductive, RequestInv, DecisionInv
  <2>2. /\ q \in Payment /\ payment[q].invoice = j
        /\ j \in Invoice /\ j # i /\ invoice'[j] = invoice[j]
    BY <1>3, <2>1 DEF Inductive, RequestInv, TargetInv, NoPayment, DeletedPayment,
           Live
  <2>3. rows[q] = payment[q]
    BY <2>2, FeeMathAssumption DEF Elsewhere
  <2>4. ASSUME req[s].op = "verify", req[s].number \in Issued(rows) PROVE FALSE
    <3>1. req[s].number \in Issued(rows) \ Issued(payment)
      BY <2>1, <2>4
    <3>2. In(r, "verify", "commit") /\ req[s].number = req[r].number
      BY <3>1
    <3> QED
      BY <2>4, <3>2 DEF Inductive, ClaimInv
  <2>5. Elsewhere(Decided(s), Decided(s)', i)
    <3>1. payment \in Rows
      BY DEF Inductive, TypeOK, Rows
    <3>2. Decided(s)' = IF req[s].op = "verify"
                        THEN [rows EXCEPT ![q] = [@ EXCEPT !.status = "VERIFIED", !.receipt = req[s].number]]
                        ELSE [rows EXCEPT ![q].status = "REJECTED"]
      BY <1>1 DEF Decided
    <3> QED
      BY <1>1, <2>2, <2>3, <3>1, <3>2 DEF Elsewhere, Decided, Rows
  <2>6. Verified(Decided(s)', j) = Verified(Decided(s), j)
    BY <2>2, <2>5, SumsElsewhere DEF Verified
  <2>7. Recalculated(invoice'[j], Decided(s)', j) = Recalculated(invoice[j], Decided(s), j)
    BY <2>2, <2>6 DEF Recalculated
  <2> QED
    BY <1>1, <2>1, <2>2, <2>3, <2>4, <2>7 DEF DecisionInv
<1> QED
  BY <1>4, <1>5, <1>6, <1>7, <1>8, <1>9 DEF RequestInv

(* A commit keeps the invariant if the tables it publishes are consistent. *)
LEMMA CommitStep ==
  ASSUME Inductive, NEW r \in Request, NEW row, NEW rows \in Rows,
         req[r].at \in InTransaction, Commit(r, row, rows),
         Consistent(row, rows, req[r].inv),
         Elsewhere(payment, rows, req[r].inv), Forward(payment, rows),
         \A number \in Issued(rows) \ Issued(payment) :
           In(r, "verify", "commit") /\ number = req[r].number,
         RowInv', SequenceInv', DistinctInv'
  PROVE  Inductive'
<1>1. /\ req' = [req EXCEPT ![r] = Idle] /\ payment' = rows /\ prefix' = prefix
      /\ holder' = [holder EXCEPT ![req[r].inv] = None]
      /\ invoice' = [invoice EXCEPT ![req[r].inv] = row]
  BY DEF Commit, Finish
<1>2. req[r].inv \in Invoice
  BY DEF Inductive, RequestInv, LockInv
<1>3. req'[r] = Idle
  BY <1>1 DEF Inductive, TypeOK
<1>4. TablesInv' /\ invoice' \in [Invoice -> InvoiceRow]
  BY <1>1, <1>2, ConsistentAfter
<1>5. TypeOK'
  BY <1>1, <1>4, IdleType DEF Inductive, TypeOK, Rows
<1>6. RequestInv(r)'
  BY <1>3 DEF RequestInv, LockInv, TargetInv, RecordInv, ChangeInv, NumberInv,
              DecisionInv, Idle, Changes
<1>7. \A s \in Request \ {r} : RequestInv(s)'
  BY CommitOthers
<1>8. ClaimInv'
  BY <1>1, <1>3, ClaimKept DEF Inductive, TypeOK, Idle
<1> QED
  BY <1>4, <1>5, <1>6, <1>7, <1>8 DEF Inductive

(* A change of the invoice's own columns commits no payment. *)
LEMMA ChangeStep ==
  ASSUME Inductive, NEW r \in Request, NEW row, req[r].at \in InTransaction,
         Commit(r, row, payment), Consistent(row, payment, req[r].inv)
  PROVE  Inductive'
<1>1. payment' = payment /\ payment \in Rows
  BY DEF Commit, Inductive, TypeOK, Rows
<1>2. Elsewhere(payment, payment, req[r].inv) /\ Forward(payment, payment)
  BY DEF Elsewhere, Forward
<1>3. RowInv' /\ SequenceInv' /\ DistinctInv'
  BY <1>1 DEF Inductive, TablesInv, RowInv, SequenceInv, DistinctInv
<1> QED
  BY <1>1, <1>2, <1>3, CommitStep

(* discount, waive and cancel write what the row they read allows. *)
LEMMA DiscountStep ==
  ASSUME Inductive, NEW r \in Request, Discount(r)
  PROVE  Inductive'
<1> DEFINE i    == req[r].inv
           seen == [req[r].seen EXCEPT !.discount = req[r].amount]
           row  == [invoice[i] EXCEPT !.discount = req[r].amount,
                                      !.status = DerivedStatus(seen)]
<1>1. /\ i \in Invoice /\ req[r].amount \in Amount /\ req[r].seen = invoice[i]
      /\ invoice[i] \in InvoiceRow /\ Consistent(invoice[i], payment, i)
  BY ConsistentBefore
     DEF Inductive, TypeOK, RequestInv, LockInv, ChangeInv, Discount, RequestState, Changes
<1>2. req[r].amount <= invoice[i].total /\ invoice[i].status \notin DecidedStatus
  BY <1>1 DEF Discount, Allowed, DecidedStatus
<1>3. DerivedStatus(seen) = DerivedStatus(row) /\ row.total = invoice[i].total
        /\ row.discount = req[r].amount /\ row.paid = invoice[i].paid
  BY <1>1 DEF DerivedStatus, Payable, InvoiceRow
<1>4. DerivedStatus(seen) \in InvoiceStatus \ DecidedStatus
  BY StatusType DEF InvoiceStatus
<1>5. row \in InvoiceRow /\ row.status = DerivedStatus(seen)
  BY <1>1, <1>4 DEF InvoiceRow
<1> HIDE DEF seen
<1>6. Consistent(row, payment, i)
  BY <1>1, <1>2, <1>3, <1>4, <1>5 DEF Consistent, DecidedStatus
<1> QED
  BY <1>6, ChangeStep DEF Discount, seen

\* waive: a decision leaves the money of the invoice as it was.
LEMMA WaiveStep ==
  ASSUME Inductive, NEW r \in Request, Waive(r)
  PROVE  Inductive'
<1> DEFINE i   == req[r].inv
           row == [invoice[i] EXCEPT !.status = "WAIVED"]
<1>1. /\ i \in Invoice /\ invoice[i] \in InvoiceRow
      /\ Consistent(invoice[i], payment, i)
  BY ConsistentBefore DEF Inductive, TypeOK, RequestInv, LockInv, Waive
<1>2. Consistent(row, payment, i)
  BY <1>1 DEF Consistent, InvoiceRow, InvoiceStatus, DecidedStatus
<1> QED
  BY <1>2, ChangeStep DEF Waive

\* cancel: an invoice without live payments may be closed.
LEMMA CancelStep ==
  ASSUME Inductive, NEW r \in Request, Cancel(r)
  PROVE  Inductive'
<1> DEFINE i   == req[r].inv
           row == [invoice[i] EXCEPT !.status = "CANCELLED"]
<1>1. /\ i \in Invoice /\ invoice[i] \in InvoiceRow
      /\ Consistent(invoice[i], payment, i)
  BY ConsistentBefore DEF Inductive, TypeOK, RequestInv, LockInv, Cancel
<1>2. Of(payment, i, Live) = {}
  BY DEF Cancel, Allowed
<1>3. Consistent(row, payment, i)
  BY <1>1, <1>2 DEF Consistent, InvoiceRow, InvoiceStatus, DecidedStatus
<1> QED
  BY <1>3, ChangeStep DEF Cancel

(* A recorded payment fits under the ceiling that was checked under the lock. *)
LEMMA RecordInsertStep ==
  ASSUME Inductive, NEW r \in Request, NEW p \in Payment, RecordInsert(r, p)
  PROVE  Inductive'
<1> DEFINE i    == req[r].inv
           a    == req[r].amount
           new  == [status |-> "PENDING", invoice |-> i, amount |-> a, receipt |-> None]
           rows == [payment EXCEPT ![p] = new]
<1>1. /\ i \in Invoice /\ a \in Amount /\ payment \in Rows
      /\ invoice[i] \in InvoiceRow /\ Consistent(invoice[i], payment, i)
  BY ConsistentBefore
     DEF Inductive, TypeOK, RequestInv, LockInv, RecordInsert, RequestState, Rows
<1>2. payment[p] = NoPayment
  BY DEF RecordInsert, Inductive, TablesInv, RowInv
<1>3. new \in PaymentRow
  BY <1>1 DEF PaymentRow, PaymentStatus
<1>4. rows \in Rows /\ rows[p] = new /\ \A q \in Payment \ {p} : rows[q] = payment[q]
  BY <1>1, <1>3 DEF Rows
<1>5. new.status = "PENDING" /\ new.invoice = i /\ new.amount = a /\ new.receipt = None
  OBVIOUS
<1>6. /\ NoPayment.status = "none" /\ NoPayment.invoice = None
      /\ NoPayment.receipt = None /\ DeletedPayment.status = "deleted"
  BY DEF NoPayment, DeletedPayment
<1> HIDE DEF new, rows
<1>7. Commit(r, invoice[i], rows)
  BY DEF RecordInsert, rows, new
<1>8. Elsewhere(payment, rows, i) /\ Forward(payment, rows)
  BY <1>2, <1>4, <1>5, <1>6 DEF Elsewhere, Forward
<1>9. Issued(rows) = Issued(payment)
  BY <1>2, <1>4, <1>5, <1>6 DEF Issued
<1>10. RowInv' /\ SequenceInv' /\ DistinctInv'
  <2>1. payment' = rows
    BY <1>7 DEF Commit
  <2>2. RowInv'
    BY <1>1, <1>4, <1>5, <2>1 DEF Inductive, TablesInv, RowInv
  <2>3. SequenceInv'
    BY <1>9, <2>1 DEF Inductive, TablesInv, SequenceInv, IssuedSeqs
  <2>4. DistinctInv'
    BY <1>2, <1>4, <1>5, <1>6, <2>1 DEF Inductive, TablesInv, DistinctInv
  <2> QED
    BY <2>2, <2>3, <2>4
<1>11. Consistent(invoice[i], rows, i)
  <2>1. Of(rows, i, {"VERIFIED"}) = Of(payment, i, {"VERIFIED"})
    BY <1>2, <1>4, <1>5, <1>6 DEF Of
  <2>2. Of(rows, i, {"PENDING"}) = Of(payment, i, {"PENDING"}) \cup {p}
    BY <1>2, <1>4, <1>5, <1>6 DEF Of
  <2>3. p \notin Of(payment, i, {"PENDING"}) /\ p \notin Of(payment, i, {"VERIFIED"})
    BY <1>2, <1>6 DEF Of
  <2>4. \A q \in Payment \ {p} : rows[q].amount = payment[q].amount
    BY <1>4
  <2>5. Verified(rows, i) = Verified(payment, i)
    <3>1. \A q \in Of(payment, i, {"VERIFIED"}) : rows[q].amount = payment[q].amount
      BY <2>3, <2>4 DEF Of
    <3>2. Of(payment, i, {"VERIFIED"}) \in SUBSET Payment
      BY DEF Of
    <3> QED
      BY <2>1, <3>1, <3>2, SumSame DEF Verified
  <2>6. Pending(rows, i) = Pending(payment, i) + a
    <3>1. \A q \in Of(payment, i, {"PENDING"}) : rows[q].amount = payment[q].amount
      BY <2>3, <2>4 DEF Of
    <3>2. Of(payment, i, {"PENDING"}) \in SUBSET Payment
      BY DEF Of
    <3>3. Sum(rows, Of(payment, i, {"PENDING"})) = Pending(payment, i)
      BY <3>1, <3>2, SumSame DEF Pending
    <3> QED
      BY <1>1, <1>4, <1>5, <2>2, <2>3, <3>2, <3>3, SumAdd DEF Pending
  <2>7. /\ invoice[i].status \notin DecidedStatus
        /\ a <= Payable(invoice[i]) - (invoice[i].paid + Pending(payment, i))
    BY DEF Inductive, RequestInv, RecordInv, CanTake, RecordInsert
  <2>8. invoice[i].paid = Verified(payment, i)
    BY <1>1 DEF Consistent
  <2>9. Payable(invoice[i]) <= invoice[i].total /\ invoice[i].total \in Nat
          /\ Payable(invoice[i]) \in Nat
    BY <1>1, FeeMathAssumption DEF InvoiceRow, Amount, Payable
  <2>10. /\ Verified(payment, i) \in Nat /\ Pending(payment, i) \in Nat
         /\ Sum(rows, Of(rows, i, Live)) = Verified(rows, i) + Pending(rows, i)
    BY LiveSum
  <2>11. a \in Nat
    BY <1>1, FeeMathAssumption DEF Amount
  <2>12. Sum(rows, Of(rows, i, Live)) <= invoice[i].total
    BY <2>5, <2>6, <2>7, <2>8, <2>9, <2>10, <2>11
  <2> QED
    BY <1>1, <2>5, <2>7, <2>12 DEF Consistent, DecidedStatus
<1> QED
  BY <1>4, <1>7, <1>8, <1>9, <1>10, <1>11, CommitStep DEF RecordInsert

(* The commit of a verification or a rejection: what the transaction computed
   under the lock is the sum of the verified payments it leaves behind. *)
LEMMA DecisionCommitStep ==
  ASSUME Inductive, NEW r \in Request, DecisionCommit(r)
  PROVE  Inductive'
<1> DEFINE i    == req[r].inv
           p    == req[r].pay
           rows == Decided(r)
           row  == [invoice[i] EXCEPT !.paid = req[r].seen.paid,
                                      !.status = req[r].seen.status]
<1>1. /\ i \in Invoice /\ payment \in Rows /\ req[r].at = "commit"
      /\ invoice[i] \in InvoiceRow /\ Consistent(invoice[i], payment, i)
  BY ConsistentBefore
     DEF Inductive, TypeOK, RequestInv, LockInv, DecisionCommit, Rows
<1>2. /\ req[r].op \in {"verify", "reject"} /\ payment[p].status \in Live
      /\ req[r].op = "verify" => /\ payment[p].status = "PENDING"
                                 /\ req[r].number \notin Issued(payment)
      /\ req[r].seen = Recalculated(invoice[i], rows, i)
  BY <1>1 DEF Inductive, RequestInv, DecisionInv
<1>3. p \in Payment /\ payment[p].invoice = i
  BY <1>2 DEF Inductive, RequestInv, TargetInv, NoPayment, DeletedPayment, Live
<1>4. req[r].op = "verify" =>
        /\ req[r].number \in Receipt
        /\ req[r].number.seq = 1 \/ req[r].number.seq - 1 \in IssuedSeqs(payment)
  BY <1>1 DEF Inductive, RequestInv, NumberInv
<1>5. rows \in Rows /\ \A q \in Payment \ {p} : rows[q] = payment[q]
  <2>1. payment[p] \in PaymentRow
    BY <1>1, <1>3 DEF Rows
  <2>2. CASE req[r].op = "verify"
    <3> DEFINE new == [payment[p] EXCEPT !.status = "VERIFIED", !.receipt = req[r].number]
    <3>1. new \in PaymentRow
      BY <1>4, <2>1, <2>2 DEF PaymentRow, PaymentStatus
    <3>2. rows = [payment EXCEPT ![p] = new]
      BY <1>1, <1>3, <2>2 DEF Decided, Rows
    <3> QED
      BY <1>1, <3>1, <3>2 DEF Rows
  <2>3. CASE req[r].op # "verify"
    <3> DEFINE new == [payment[p] EXCEPT !.status = "REJECTED"]
    <3>1. new \in PaymentRow
      BY <2>1 DEF PaymentRow, PaymentStatus
    <3>2. rows = [payment EXCEPT ![p] = new]
      BY <1>1, <1>3, <2>3 DEF Decided, Rows
    <3> QED
      BY <1>1, <3>1, <3>2 DEF Rows
  <2> QED
    BY <2>2, <2>3
<1>6. /\ rows[p].invoice = i /\ rows[p].amount = payment[p].amount
      /\ req[r].op = "verify" =>
           rows[p].status = "VERIFIED" /\ rows[p].receipt = req[r].number
      /\ req[r].op = "reject" =>
           rows[p].status = "REJECTED" /\ rows[p].receipt = payment[p].receipt
  BY <1>1, <1>2, <1>3 DEF Decided, Rows, PaymentRow
<1>7. payment[p].status = "PENDING" => payment[p].receipt = None
  BY <1>3 DEF Inductive, TablesInv, RowInv
<1>8. row = Recalculated(invoice[i], rows, i) /\ row \in InvoiceRow
  <2>1. Recalculated(invoice[i], rows, i) \in InvoiceRow
    BY <1>1, RecalculatedType
  <2>2. row = Recalculated(invoice[i], rows, i)
    BY <1>1, <1>2 DEF Recalculated, InvoiceRow
  <2> QED
    BY <2>1, <2>2
<1>9. Commit(r, row, rows)
  BY DEF DecisionCommit
<1> HIDE DEF rows, row
<1>10. Elsewhere(payment, rows, i) /\ Forward(payment, rows)
  <2>1. payment[p] # DeletedPayment
    BY <1>2 DEF Live, NoPayment, DeletedPayment
  <2> QED
    BY <1>2, <1>3, <1>5, <1>6, <1>7, <2>1 DEF Elsewhere, Forward, Live
<1>11. IF req[r].op = "verify"
       THEN Issued(rows) = Issued(payment) \cup {req[r].number}
       ELSE Issued(rows) = Issued(payment)
  <2>1. None \notin Receipt
    BY FeeMathAssumption DEF Receipt
  <2> QED
    BY <1>2, <1>3, <1>4, <1>5, <1>6, <1>7, <2>1 DEF Issued
<1>12. RowInv' /\ SequenceInv' /\ DistinctInv'
  <2>1. payment' = rows
    BY <1>9 DEF Commit
  <2>2. RowInv'
    <3>1. req[r].op = "verify" => req[r].number # None
      BY <1>4, FeeMathAssumption DEF Receipt
    <3>2. \A q \in Payment \ {p} : rows[q] = payment[q]
      BY <1>5
    <3> QED
      BY <1>1, <1>2, <1>3, <1>6, <2>1, <3>1, <3>2
         DEF Inductive, TablesInv, RowInv
  <2>3. SequenceInv'
    <3>1. PICK n \in IssuedSeqs(payment) \cup {0} : IssuedSeqs(payment) = 1 .. n
      BY DEF Inductive, TablesInv, SequenceInv
    <3>2. n \in Nat
      <4>1. IssuedSeqs(payment) \in SUBSET (Nat \ {0})
        BY <1>1 DEF Rows, IssuedSeqs, Issued, PaymentRow, Receipt
      <4> QED
        BY <3>1, <4>1
    <3>3. CASE req[r].op = "verify"
      <4> DEFINE k == req[r].number.seq
      <4>1. IssuedSeqs(rows) = (1 .. n) \cup {k}
        BY <1>11, <3>1, <3>3 DEF IssuedSeqs
      <4>2. k \in Nat \ {0} /\ (k = 1 \/ k - 1 \in 1 .. n)
        BY <1>4, <3>1, <3>3 DEF Receipt
      <4> HIDE DEF k
      <4>3. CASE k \in 1 .. n
        <5>1. (1 .. n) \cup {k} = 1 .. n /\ n \in (1 .. n)
          BY <3>2, <4>3
        <5>2. IssuedSeqs(rows) = 1 .. n /\ n \in IssuedSeqs(rows)
          BY <4>1, <5>1
        <5> QED
          BY <2>1, <5>2 DEF SequenceInv
      <4>4. CASE k \notin 1 .. n
        <5>1. k = n + 1
          BY <3>2, <4>2, <4>4
        <5>2. (1 .. n) \cup {k} = 1 .. k
          BY <3>2, <5>1
        <5>3. IssuedSeqs(rows) = 1 .. k /\ k \in IssuedSeqs(rows)
          BY <4>1, <5>2
        <5> QED
          BY <2>1, <5>3 DEF SequenceInv
      <4> QED
        BY <4>3, <4>4
    <3>4. CASE req[r].op # "verify"
      <4>1. IssuedSeqs(rows) = IssuedSeqs(payment)
        BY <1>11, <3>4 DEF IssuedSeqs
      <4> QED
        BY <2>1, <3>1, <4>1 DEF SequenceInv
    <3> QED
      BY <3>3, <3>4
  <2>4. DistinctInv'
    <3>1. \A q \in Payment : payment[q].receipt # None => payment[q].receipt \in Issued(payment)
      BY DEF Issued
    <3>2. DistinctInv
      BY DEF Inductive, TablesInv
    <3> QED
      BY <1>2, <1>3, <1>5, <1>6, <2>1, <3>1, <3>2 DEF DistinctInv
  <2> QED
    BY <2>2, <2>3, <2>4
<1>13. Consistent(row, rows, i)
  <2>1. /\ row.total = invoice[i].total /\ row.discount = invoice[i].discount
        /\ row.paid = Verified(rows, i)
    BY <1>1, <1>8 DEF Recalculated, InvoiceRow
  <2>2. row.status \notin DecidedStatus => row.status = DerivedStatus(row)
    BY <1>1, <1>8 DEF Recalculated, DeriveStatus, DerivedStatus, Payable, InvoiceRow
  <2>3. row.status = "CANCELLED" => invoice[i].status = "CANCELLED"
    <3>1. DerivedStatus([invoice[i] EXCEPT !.paid = Verified(rows, i)]) # "CANCELLED"
      BY DEF DerivedStatus
    <3> QED
      BY <1>1, <1>8, <3>1 DEF Recalculated, DeriveStatus, InvoiceRow
  <2>4. Of(rows, i, Live) \subseteq Of(payment, i, Live)
    BY <1>2, <1>3, <1>5, <1>6 DEF Of
  <2>5. Sum(rows, Of(rows, i, Live)) <= invoice[i].total
    <3>1. Of(payment, i, Live) \in SUBSET Payment /\ Of(rows, i, Live) \in SUBSET Payment
      BY DEF Of
    <3>2. \A q \in Payment : rows[q].amount = payment[q].amount
      BY <1>5, <1>6
    <3>3. Sum(rows, Of(rows, i, Live)) = Sum(payment, Of(rows, i, Live))
      BY <3>1, <3>2, SumSame
    <3>4. Sum(payment, Of(rows, i, Live)) <= Sum(payment, Of(payment, i, Live))
      BY <2>4, <3>1, SumMonotone
    <3>5. Sum(payment, Of(payment, i, Live)) <= invoice[i].total
      BY <1>1 DEF Consistent
    <3>6. /\ Sum(payment, Of(rows, i, Live)) \in Nat
          /\ Sum(payment, Of(payment, i, Live)) \in Nat /\ invoice[i].total \in Nat
      BY <1>1, <3>1, SumType, FeeMathAssumption DEF InvoiceRow, Amount
    <3> QED
      BY <3>3, <3>4, <3>5, <3>6
  <2> QED
    BY <1>1, <1>8, <2>1, <2>2, <2>3, <2>4, <2>5 DEF Consistent
<1>14. \A number \in Issued(rows) \ Issued(payment) :
         In(r, "verify", "commit") /\ number = req[r].number
  BY <1>1, <1>11
<1> QED
  BY <1>1, <1>5, <1>9, <1>10, <1>12, <1>13, <1>14, CommitStep DEF DecisionCommit

-----------------------------------------------------------------------------
(* Writers that take no lock. *)

(* A deleted pending payment only makes room: nobody counted on it, except a
   transaction that is updating it, for which the deletion waits. *)
LEMMA DiscardStep ==
  ASSUME Inductive, NEW p \in Payment, Discard(p)
  PROVE  Inductive'
<1> DEFINE i    == payment[p].invoice
           rows == [payment EXCEPT ![p] = DeletedPayment]
<1>1. payment \in Rows /\ payment[p].status = "PENDING" /\ i \in Invoice
      /\ payment[p].receipt = None
  BY DEF Inductive, TypeOK, TablesInv, RowInv, Discard, Rows
<1>2. DeletedPayment \in PaymentRow
  BY FeeMathAssumption DEF DeletedPayment, NoPayment, PaymentRow, PaymentStatus, Amount
<1>3. /\ DeletedPayment.status = "deleted" /\ DeletedPayment.invoice = None
      /\ DeletedPayment.receipt = None
  BY DEF DeletedPayment, NoPayment
<1>4. rows \in Rows /\ rows[p] = DeletedPayment /\ \A q \in Payment \ {p} : rows[q] = payment[q]
  BY <1>1, <1>2 DEF Rows
<1> HIDE DEF rows
<1>5. payment' = rows /\ UNCHANGED <<invoice, prefix, holder, req>>
  BY DEF Discard, rows
<1>6. Elsewhere(payment, rows, i)
  BY <1>3, <1>4 DEF Elsewhere
<1>7. Issued(rows) = Issued(payment)
  BY <1>1, <1>3, <1>4 DEF Issued
<1>8. IssuedSeqs(rows) = IssuedSeqs(payment)
  BY <1>7 DEF IssuedSeqs
<1>9. RowInv' /\ SequenceInv' /\ DistinctInv'
  <2>1. RowInv'
    BY <1>3, <1>4, <1>5 DEF Inductive, TablesInv, RowInv
  <2>2. SequenceInv'
    BY <1>5, <1>8 DEF Inductive, TablesInv, SequenceInv
  <2>3. DistinctInv'
    BY <1>3, <1>4, <1>5 DEF Inductive, TablesInv, DistinctInv
  <2> QED
    BY <2>1, <2>2, <2>3
(* Whatever the invoice: nothing verified goes, and what is pending shrinks. *)
<1>10. \A j \in Invoice :
         /\ Verified(rows, j) = Verified(payment, j)
         /\ Pending(rows, j) \in Nat /\ Pending(payment, j) \in Nat
         /\ Pending(rows, j) <= Pending(payment, j)
         /\ Of(rows, j, Live) \subseteq Of(payment, j, Live)
  <2> TAKE j \in Invoice
  <2>1. j # None
    BY FeeMathAssumption
  <2>2. \A statuses : Of(rows, j, statuses) = Of(payment, j, statuses) \ {p}
    BY <1>3, <1>4, <2>1 DEF Of
  <2>3. \A statuses : Of(payment, j, statuses) \in SUBSET Payment
    BY DEF Of
  <2>4. \A statuses : Sum(rows, Of(rows, j, statuses)) = Sum(payment, Of(rows, j, statuses))
    <3> TAKE statuses
    <3>1. Of(rows, j, statuses) \in SUBSET Payment
      BY DEF Of
    <3>2. \A q \in Of(rows, j, statuses) : rows[q].amount = payment[q].amount
      BY <1>4, <2>2, <3>1
    <3> QED
      BY <3>1, <3>2, SumSame
  <2>5. p \notin Of(payment, j, {"VERIFIED"})
    BY <1>1 DEF Of
  <2>6. Verified(rows, j) = Verified(payment, j)
    BY <2>2, <2>4, <2>5 DEF Verified
  <2>7. Pending(rows, j) <= Pending(payment, j)
    BY <2>2, <2>3, <2>4, SumMonotone DEF Pending
  <2> QED
    BY <2>2, <2>6, <2>7, LiveSum
<1>11. Consistent(invoice[i], rows, i)
  <2>1. Consistent(invoice[i], payment, i)
    BY <1>1, ConsistentBefore
  <2>2. Sum(rows, Of(rows, i, Live)) <= Sum(payment, Of(payment, i, Live))
    BY <1>1, <1>10, LiveSum
  <2>3. /\ Sum(rows, Of(rows, i, Live)) \in Nat
        /\ Sum(payment, Of(payment, i, Live)) \in Nat
    <3>1. Of(rows, i, Live) \in SUBSET Payment /\ Of(payment, i, Live) \in SUBSET Payment
      BY DEF Of
    <3> QED
      BY <3>1, SumType
  <2>4. invoice[i].total \in Nat
    BY <2>1, FeeMathAssumption DEF Consistent, InvoiceRow, Amount
  <2>5. Sum(rows, Of(rows, i, Live)) <= invoice[i].total
    BY <2>1, <2>2, <2>3, <2>4 DEF Consistent
  <2> QED
    BY <1>1, <1>10, <2>1, <2>5 DEF Consistent
<1>12. TablesInv'
  <2>1. invoice' = [invoice EXCEPT ![i] = invoice[i]]
    BY <1>1, <1>5 DEF Inductive, TypeOK
  <2> QED
    BY <1>1, <1>5, <1>6, <1>9, <1>11, <2>1, ConsistentAfter
<1>13. TypeOK'
  BY <1>4, <1>5 DEF Inductive, TypeOK, Rows
<1>14. ClaimInv'
  BY <1>5 DEF Inductive, ClaimInv
<1>15. ASSUME NEW s \in Request PROVE RequestInv(s)'
  <2>1. RequestInv(s)
    BY DEF Inductive
  <2>2. LockInv(s)' /\ ChangeInv(s)'
    BY <1>5, <2>1 DEF RequestInv, LockInv, ChangeInv
  <2>3. TargetInv(s)'
    BY <1>4, <1>5, <2>1 DEF RequestInv, TargetInv
  <2>4. RecordInv(s)'
    <3> SUFFICES ASSUME In(s, "record", "write") PROVE RecordInv(s)'
      BY <1>5, <2>1 DEF RequestInv, RecordInv
    <3>1. /\ req[s].inv \in Invoice /\ CanTake(req[s].inv, req[s].amount)
          /\ invoice[req[s].inv] \in InvoiceRow /\ req[s].amount \in Nat
      BY <2>1, FeeMathAssumption
         DEF RequestInv, RecordInv, LockInv, Inductive, TypeOK, RequestState, Amount
    <3>2. Payable(invoice[req[s].inv]) \in Nat /\ invoice[req[s].inv].paid \in Nat
      BY <3>1, FeeMathAssumption DEF InvoiceRow, Amount, Payable
    <3>3. CanTake(req[s].inv, req[s].amount)'
      BY <1>5, <1>10, <3>1, <3>2 DEF CanTake
    <3> QED
      BY <1>5, <2>1, <3>3 DEF RequestInv, RecordInv
  <2>5. NumberInv(s)'
    BY <1>5, <1>8, <2>1 DEF RequestInv, NumberInv
  <2>6. DecisionInv(s)'
    <3> SUFFICES ASSUME req[s].at = "commit" PROVE DecisionInv(s)'
      BY <1>5 DEF DecisionInv
    <3> DEFINE q == req[s].pay
               j == req[s].inv
    <3>1. /\ req[s].op \in {"verify", "reject"} /\ payment[q].status \in Live
          /\ req[s].op = "verify" => /\ payment[q].status = "PENDING"
                                     /\ req[s].number \notin Issued(payment)
          /\ req[s].seen = Recalculated(invoice[j], Decided(s), j)
      BY <2>1 DEF RequestInv, DecisionInv
    <3>2. q \in Payment /\ j \in Invoice
      BY <2>1, <3>1 DEF RequestInv, TargetInv, LockInv
    <3>3. q # p /\ rows[q] = payment[q]
      BY <1>4, <3>2 DEF Discard, Updating
    <3>4. \A k \in Payment \ {p} : Decided(s)'[k] = Decided(s)[k]
      BY <1>4, <1>5, <3>2, <3>3 DEF Decided, Inductive, TypeOK, Rows
    <3>5. Decided(s)'[p] = DeletedPayment /\ Decided(s)[p] = payment[p]
      BY <1>4, <1>5, <3>2, <3>3 DEF Decided, Inductive, TypeOK, Rows
    <3>6. Of(Decided(s)', j, {"VERIFIED"}) = Of(Decided(s), j, {"VERIFIED"})
      BY <1>1, <1>3, <3>4, <3>5 DEF Of
    <3>7. \A k \in Of(Decided(s), j, {"VERIFIED"}) :
            Decided(s)'[k].amount = Decided(s)[k].amount
      BY <1>1, <3>4, <3>5 DEF Of
    <3>8. Of(Decided(s), j, {"VERIFIED"}) \in SUBSET Payment
      BY DEF Of
    <3>9. Verified(Decided(s)', j) = Verified(Decided(s), j)
      BY <3>6, <3>7, <3>8, SumSame DEF Verified
    <3>10. Recalculated(invoice[j], Decided(s)', j) = Recalculated(invoice[j], Decided(s), j)
      BY <3>9 DEF Recalculated
    <3> QED
      BY <1>5, <1>7, <3>1, <3>3, <3>10 DEF DecisionInv
  <2> QED
    BY <2>2, <2>3, <2>4, <2>5, <2>6 DEF RequestInv
<1> QED
  BY <1>12, <1>13, <1>14, <1>15 DEF Inductive

-----------------------------------------------------------------------------
\* Whatever an open transaction does next preserves the invariant.
LEMMA ProceedStep ==
  ASSUME Inductive, NEW r \in Request, Proceed(r)
  PROVE  Inductive'
<1>1. CASE RecordCheck(r)
  BY <1>1, RecordCheckStep
<1>2. CASE RecordRefuse(r) \/ VerifyRefuse(r) \/ RejectRefuse(r) \/ ChangeRefuse(r)
  BY <1>2, RefuseStep DEF RecordRefuse, VerifyRefuse, RejectRefuse, ChangeRefuse
<1>3. CASE \E p \in Payment : RecordInsert(r, p)
  BY <1>3, RecordInsertStep
<1>4. CASE VerifyNumber(r) \/ VerifyCollide(r) \/ ReadRow(r)
  BY <1>4, VerifyNumberStep, VerifyCollideStep, ReadRowStep
<1>5. CASE VerifyUpdate(r)
  BY <1>5, RecalculateStep DEF VerifyUpdate
<1>6. CASE RejectUpdate(r)
  BY <1>6, RecalculateStep DEF RejectUpdate
<1>7. CASE DecisionCommit(r)
  BY <1>7, DecisionCommitStep
<1>8. CASE Discount(r) \/ Waive(r) \/ Cancel(r)
  BY <1>8, DiscountStep, WaiveStep, CancelStep
<1> QED
  BY <1>1, <1>2, <1>3, <1>4, <1>5, <1>6, <1>7, <1>8 DEF Proceed

(* Nothing the invariant speaks of depends on the prefix (SettingsService). *)
LEMMA SetPrefixStep ==
  ASSUME Inductive, NEW x \in Prefix, SetPrefix(x)
  PROVE  Inductive'
<1>1. TypeOK' /\ ClaimInv'
  BY DEF SetPrefix, Inductive, TypeOK, ClaimInv
<1>2. TablesInv'
  BY QuietTables DEF SetPrefix, Inductive
<1>3. \A s \in Request : RequestInv(s)'
  BY QuietOthers DEF SetPrefix, Inductive, RequestInv, LockInv
<1> QED
  BY <1>1, <1>2, <1>3 DEF Inductive

\* Every step of the specification preserves the invariant.
LEMMA NextInductive == Inductive /\ [Next]_vars => Inductive'
<1> SUFFICES ASSUME Inductive, [Next]_vars PROVE Inductive'
  OBVIOUS
<1>1. CASE UNCHANGED vars
  <2>1. TypeOK' /\ ClaimInv'
    BY <1>1 DEF vars, Inductive, TypeOK, ClaimInv
  <2>2. TablesInv'
    BY <1>1, QuietTables DEF vars, Inductive
  <2>3. \A s \in Request : RequestInv(s)'
    BY <1>1, QuietOthers DEF vars, Inductive, RequestInv, LockInv
  <2> QED
    BY <2>1, <2>2, <2>3 DEF Inductive
<1>2. ASSUME NEW r \in Request, Start(r) \/ Lock(r) \/ Proceed(r) PROVE Inductive'
  BY <1>2, StartStep, LockStep, ProceedStep
<1>3. ASSUME NEW r \in Request, Rollback(r) PROVE Inductive'
  BY <1>3, RefuseStep DEF Rollback
<1>4. ASSUME NEW p \in Payment, Discard(p) PROVE Inductive'
  BY <1>4, DiscardStep
<1>5. ASSUME NEW x \in Prefix, SetPrefix(x) PROVE Inductive'
  BY <1>5, SetPrefixStep
<1> QED
  BY <1>1, <1>2, <1>3, <1>4, <1>5 DEF Next

-----------------------------------------------------------------------------
(***************************************************************************)
(* The invariant holds in every reachable state, for any number of         *)
(* requests, invoices, payments, prefixes and attempts.                    *)
(***************************************************************************)
THEOREM AlwaysInductive == Spec => []Inductive
BY InitInductive, NextInductive, PTL DEF Spec

(* Every variable keeps its type (the columns and the requests' locals). *)
THEOREM TypeCorrect == Spec => []TypeOK
<1>1. Inductive => TypeOK
  BY DEF Inductive
<1> QED
  BY <1>1, AlwaysInductive, PTL

(* amountPaid is always the sum of the verified payments (recalculateInvoice). *)
THEOREM PaidIsAlwaysVerified == Spec => []PaidIsVerified
<1>1. Inductive => PaidIsVerified
  BY DEF Inductive, TablesInv
<1> QED
  BY <1>1, AlwaysInductive, PTL

(* Pending and verified payments never exceed the bill (assertNotOverpaying). *)
THEOREM NeverEverOverCommitted == Spec => []NeverOverCommitted
<1>1. Inductive => NeverOverCommitted
  BY DEF Inductive, TablesInv
<1> QED
  BY <1>1, AlwaysInductive, PTL

(* The status of an undecided invoice always follows its amounts (deriveStatus). *)
THEOREM StatusAlwaysFollowsMoney == Spec => []StatusFollowsMoney
<1>1. Inductive => StatusFollowsMoney
  BY DEF Inductive, TablesInv
<1> QED
  BY <1>1, AlwaysInductive, PTL

(* A cancelled invoice never carries a live payment (cancel, record, verify). *)
THEOREM CancelledIsAlwaysEmpty == Spec => []CancelledIsEmpty
<1>1. Inductive => CancelledIsEmpty
  BY DEF Inductive, TablesInv
<1> QED
  BY <1>1, AlwaysInductive, PTL

(* The year's receipts are numbered without gaps (nextReceiptNumber, verify). *)
THEOREM ReceiptsNeverHaveGaps == Spec => []ReceiptsHaveNoGaps
<1>1. ASSUME Inductive PROVE ReceiptsHaveNoGaps
  <2>1. PICK n \in IssuedSeqs(payment) \cup {0} : IssuedSeqs(payment) = 1 .. n
    BY <1>1 DEF Inductive, TablesInv, SequenceInv
  <2>2. n \in Nat
    <3>1. IssuedSeqs(payment) \in SUBSET (Nat \ {0})
      BY <1>1 DEF Inductive, TypeOK, IssuedSeqs, Issued, PaymentRow, Receipt
    <3> QED
      BY <2>1, <3>1
  <2> QED
    BY <2>1, <2>2 DEF ReceiptsHaveNoGaps
<1> QED
  BY <1>1, AlwaysInductive, PTL

(* No two payments share a receipt, and exactly those verified once have one. *)
THEOREM ReceiptsAreAlwaysUnique == Spec => []ReceiptsAreUnique
<1>1. ASSUME Inductive PROVE ReceiptsAreUnique
  <2>1. DistinctInv /\ RowInv /\ payment \in [Payment -> PaymentRow]
    BY <1>1 DEF Inductive, TablesInv, TypeOK
  <2>2. NoPayment.receipt = None /\ DeletedPayment.receipt = None
    BY DEF NoPayment, DeletedPayment
  <2>3. \A p \in Payment : payment[p].receipt # None =>
          payment[p].status \in {"VERIFIED", "REJECTED"}
    BY <2>1, <2>2 DEF RowInv, PaymentRow, PaymentStatus
  <2> QED
    BY <2>1, <2>3 DEF ReceiptsAreUnique, DistinctInv, RowInv
<1> QED
  BY <1>1, AlwaysInductive, PTL

-----------------------------------------------------------------------------
(***************************************************************************)
(* Payments implements InvoiceLedger: every commit of an interleaved       *)
(* transaction is one operation of the ledger, every other step stutters.  *)
(* What no operation of the ledger may do, no step of a request does.      *)
(***************************************************************************)

(* The ledger's arithmetic is FeeMath's. *)
LEMMA SameRows ==
  /\ Ledger!NoPayment = NoPayment
  /\ Ledger!DeletedPayment = DeletedPayment
  /\ Ledger!DecidedStatus = DecidedStatus
  /\ Ledger!Amount = Amount
BY DEF NoPayment, Ledger!NoPayment, DeletedPayment, Ledger!DeletedPayment,
       DecidedStatus, Ledger!DecidedStatus, Amount, Ledger!Amount

\* The ledger's copy of the money arithmetic is the arithmetic of the services.
LEMMA SameMath ==
  ASSUME NEW row, NEW current, NEW rows, NEW i, NEW statuses, NEW x
  PROVE  /\ Ledger!Payable(row) = Payable(row)
         /\ Ledger!DerivedStatus(row) = DerivedStatus(row)
         /\ Ledger!DeriveStatus(row, current) = DeriveStatus(row, current)
         /\ Ledger!Of(rows, i, statuses) = Of(rows, i, statuses)
         /\ Ledger!Pending(rows, i) = Pending(rows, i)
         /\ Ledger!Issued(rows) = Issued(rows)
         /\ Ledger!IssuedSeqs(rows) = IssuedSeqs(rows)
         /\ Ledger!NextReceipt(rows, x) = NextReceipt(rows, x)
<1>1. Ledger!Payable(row) = Payable(row)
  BY DEF Payable, Ledger!Payable
<1>2. Ledger!DerivedStatus(row) = DerivedStatus(row)
  BY DEF Payable, Ledger!Payable, DerivedStatus, Ledger!DerivedStatus
<1>3. Ledger!DeriveStatus(row, current) = DeriveStatus(row, current)
  BY <1>2, SameRows DEF DeriveStatus, Ledger!DeriveStatus
<1>4. Ledger!Of(rows, i, statuses) = Of(rows, i, statuses)
  BY DEF Of, Ledger!Of
<1>5. Ledger!Pending(rows, i) = Pending(rows, i)
  <2>1. \A S : Ledger!Cardinality(S) = Cardinality(S)
    BY Zenon DEF Cardinality, Ledger!Cardinality
  <2>2. \A P : Ledger!Units(rows, P) = Units(rows, P)
    BY DEF Units, Ledger!Units
  <2>3. Ledger!Of(rows, i, {"PENDING"}) = Of(rows, i, {"PENDING"})
    BY DEF Of, Ledger!Of
  <2> QED
    BY <2>1, <2>2, <2>3, Zenon DEF Pending, Ledger!Pending, Sum, Ledger!Sum
<1>6. Ledger!Issued(rows) = Issued(rows)
  BY DEF Issued, Ledger!Issued
<1>7. Ledger!IssuedSeqs(rows) = IssuedSeqs(rows)
  BY <1>6 DEF IssuedSeqs, Ledger!IssuedSeqs
<1>8. Ledger!NextReceipt(rows, x) = NextReceipt(rows, x)
  BY <1>7 DEF NextReceipt, Ledger!NextReceipt, HighestSeq, Ledger!HighestSeq
<1> QED
  BY <1>1, <1>2, <1>3, <1>4, <1>5, <1>6, <1>7, <1>8

(* The invoices as they are issued are a ledger's (assign). *)
LEMMA InitRefines == Init => Ledger!Init
<1> SUFFICES ASSUME Init PROVE Ledger!Init
  OBVIOUS
<1>1. PICK total \in [Invoice -> Amount] :
        invoice = [i \in Invoice |-> Issue(total[i])]
  BY DEF Init
<1> DEFINE Shape == [total : Amount, discount : {0}, paid : {0},
                     status : {"UNPAID", "PAID"}]
<1>2. ASSUME NEW a \in Amount
      PROVE  Issue(a) \in Shape /\ Issue(a).status = DerivedStatus(Issue(a))
  BY FeeMathAssumption DEF Issue, Amount, DerivedStatus, Payable
<1>3. invoice \in [Invoice -> Shape]
  BY <1>1, <1>2
<1>4. \A i \in Invoice : invoice[i].status = DerivedStatus(invoice[i])
  BY <1>1, <1>2
<1> QED
  BY <1>3, <1>4, SameRows, SameMath DEF Init, Ledger!Init

(* A payment recorded under the lock fits what is outstanding when it commits. *)
LEMMA RecordRefines ==
  ASSUME Inductive, NEW r \in Request, NEW p \in Payment, RecordInsert(r, p)
  PROVE  Ledger!Record(p, req[r].inv, req[r].amount)
         /\ req[r].inv \in Invoice /\ req[r].amount \in Amount
<1> DEFINE i == req[r].inv
           a == req[r].amount
<1>1. /\ i \in Invoice /\ a \in Amount /\ a > 0 /\ CanTake(i, a)
      /\ invoice \in [Invoice -> InvoiceRow]
  BY DEF Inductive, TypeOK, RequestInv, LockInv, RecordInv, RecordInsert, RequestState
<1>2. invoice[i].paid \in Nat /\ Payable(invoice[i]) \in Nat
  BY <1>1, FeeMathAssumption DEF InvoiceRow, Payable, Amount
<1>3. Pending(payment, i) \in Nat /\ a \in Nat
  BY <1>1, LiveSum, FeeMathAssumption DEF Amount
<1>4. a <= Ledger!Outstanding(i)
  BY <1>1, <1>2, <1>3, SameMath DEF CanTake, Ledger!Outstanding
<1>5. invoice' = invoice
  BY <1>1 DEF RecordInsert, Commit
<1>6. payment' = [payment EXCEPT ![p] = [NoPayment EXCEPT !.status = "PENDING",
                                           !.invoice = i, !.amount = a]]
  BY DEF RecordInsert, Commit, NoPayment
<1> QED
  BY <1>1, <1>4, <1>5, <1>6, SameRows DEF Ledger!Record, CanTake, RecordInsert

(* A decision moves the sum of the verified payments by the payment's amount. *)
LEMMA DecisionMoves ==
  ASSUME Inductive, NEW r \in Request, DecisionCommit(r)
  PROVE  LET p == req[r].pay
             i == req[r].inv
         IN  /\ p \in Payment /\ i \in Invoice /\ payment[p].invoice = i
             /\ payment[p].status \in Live /\ req[r].op \in {"verify", "reject"}
             /\ req[r].op = "verify" =>
                  /\ payment[p].status = "PENDING"
                  /\ Verified(Decided(r), i) = invoice[i].paid + payment[p].amount
             /\ req[r].op = "reject" =>
                  Verified(Decided(r), i) =
                    IF payment[p].status = "VERIFIED"
                    THEN invoice[i].paid - payment[p].amount ELSE invoice[i].paid
<1> DEFINE p    == req[r].pay
           i    == req[r].inv
           rows == Decided(r)
           V    == Of(payment, i, {"VERIFIED"})
           W    == Of(rows, i, {"VERIFIED"})
<1>1. /\ i \in Invoice /\ payment \in Rows /\ req[r].at = "commit"
      /\ invoice[i].paid = Verified(payment, i)
  BY DEF Inductive, TypeOK, RequestInv, LockInv, DecisionCommit, Rows, TablesInv,
         PaidIsVerified
<1>2. /\ req[r].op \in {"verify", "reject"} /\ payment[p].status \in Live
      /\ req[r].op = "verify" => payment[p].status = "PENDING"
  BY <1>1 DEF Inductive, RequestInv, DecisionInv
<1>3. p \in Payment /\ payment[p].invoice = i
  BY <1>2 DEF Inductive, RequestInv, TargetInv, NoPayment, DeletedPayment, Live
<1>4. /\ \A q \in Payment \ {p} : rows[q] = payment[q]
      /\ rows[p].invoice = i /\ rows[p].amount = payment[p].amount
      /\ rows[p].status = IF req[r].op = "verify" THEN "VERIFIED" ELSE "REJECTED"
  BY <1>1, <1>2, <1>3 DEF Decided, Rows, PaymentRow
<1>5. payment[p].amount \in Amount /\ payment[p].amount \in Nat
  BY <1>1, <1>3, FeeMathAssumption DEF Rows, PaymentRow, Amount
<1> HIDE DEF rows
<1>6. V \in SUBSET Payment /\ W \in SUBSET Payment
  BY DEF Of
<1>7. \A P \in SUBSET Payment : Sum(rows, P) = Sum(payment, P)
  BY <1>4, SumSame
<1>8. Sum(payment, V) \in Nat /\ Sum(payment, W) \in Nat
  BY <1>6, SumType
<1>9. CASE payment[p].status = "PENDING" /\ req[r].op = "verify"
  <2>1. p \notin V /\ W = V \cup {p}
    BY <1>3, <1>4, <1>9 DEF Of
  <2>2. Sum(payment, W) = Sum(payment, V) + payment[p].amount
    BY <1>3, <1>5, <1>6, <2>1, SumAdd
  <2> QED
    BY <1>1, <1>2, <1>3, <1>6, <1>7, <1>9, <2>2 DEF Verified, rows
<1>10. CASE payment[p].status = "PENDING" /\ req[r].op = "reject"
  <2>1. W = V
    BY <1>3, <1>4, <1>10 DEF Of
  <2> QED
    BY <1>1, <1>2, <1>3, <1>6, <1>7, <1>10, <2>1 DEF Verified, rows
<1>11. CASE payment[p].status = "VERIFIED" /\ req[r].op = "reject"
  <2>1. p \notin W /\ V = W \cup {p}
    BY <1>3, <1>4, <1>11 DEF Of
  <2>2. Sum(payment, V) = Sum(payment, W) + payment[p].amount
    BY <1>3, <1>5, <1>6, <2>1, SumAdd
  <2>3. Sum(payment, W) = Sum(payment, V) - payment[p].amount
    BY <1>5, <1>8, <2>2
  <2> QED
    BY <1>1, <1>2, <1>3, <1>6, <1>7, <1>11, <2>3 DEF Verified, rows
<1> QED
  BY <1>2, <1>9, <1>10, <1>11 DEF Live

\* The commit of verify and of reject is one of the ledger's three decisions.
LEMMA DecisionRefines ==
  ASSUME Inductive, NEW r \in Request, DecisionCommit(r)
  PROVE  LET p == req[r].pay
         IN  /\ p \in Payment
             /\ Ledger!Verify(p) \/ Ledger!RejectPending(p) \/ Ledger!Reverse(p)
<1> DEFINE p   == req[r].pay
           i   == req[r].inv
           a   == payment[p].amount
           now == Verified(Decided(r), i)
           row == [invoice[i] EXCEPT !.paid = now]
<1>1. /\ p \in Payment /\ i \in Invoice /\ payment[p].invoice = i
      /\ payment[p].status \in Live /\ req[r].op \in {"verify", "reject"}
      /\ req[r].op = "verify" => payment[p].status = "PENDING" /\ now = invoice[i].paid + a
      /\ req[r].op = "reject" =>
           now = IF payment[p].status = "VERIFIED" THEN invoice[i].paid - a
                 ELSE invoice[i].paid
  BY DecisionMoves
<1>2. /\ invoice \in [Invoice -> InvoiceRow] /\ req[r].at = "commit"
      /\ invoice[i].status \notin DecidedStatus
           => invoice[i].status = DerivedStatus(invoice[i])
  BY <1>1 DEF Inductive, TypeOK, DecisionCommit, TablesInv, StatusFollowsMoney
<1>3. req[r].seen = Recalculated(invoice[i], Decided(r), i)
  BY <1>2 DEF Inductive, RequestInv, DecisionInv
<1>4. now \in Nat
  BY LiveSum
<1> HIDE DEF now
<1>5. invoice' = [invoice EXCEPT ![i] =
                    [row EXCEPT !.status = DeriveStatus(row, invoice[i].status)]]
  <2>1. /\ req[r].seen.paid = now
        /\ req[r].seen.status = DeriveStatus(row, invoice[i].status)
    BY <1>1, <1>2, <1>3 DEF Recalculated, InvoiceRow, now
  <2>2. invoice' = [invoice EXCEPT ![i] = [invoice[i] EXCEPT !.paid = req[r].seen.paid,
                                             !.status = req[r].seen.status]]
    BY DEF DecisionCommit, Commit
  <2> QED
    BY <1>1, <1>2, <2>1, <2>2 DEF InvoiceRow
<1>6. ASSUME NEW by \in Int, now = invoice[i].paid + by PROVE Ledger!Move(i, by)
  <2>1. [invoice[i] EXCEPT !.paid = @ + by] = row
    BY <1>1, <1>2, <1>6 DEF InvoiceRow
  <2>2. row.status = invoice[i].status
    BY <1>1, <1>2 DEF InvoiceRow
  <2> DEFINE moved == [invoice[i] EXCEPT !.paid = @ + by]
  <2>3. Ledger!Move(i, by) <=>
          invoice' = [invoice EXCEPT ![i] =
                        [moved EXCEPT !.status = Ledger!DeriveStatus(moved, moved.status)]]
    BY Zenon DEF Ledger!Move
  <2>4. Ledger!DeriveStatus(row, row.status) = DeriveStatus(row, invoice[i].status)
    BY <2>2, SameMath
  <2> HIDE DEF row, moved
  <2> QED
    BY <1>5, <2>1, <2>3, <2>4 DEF moved
<1>7. a \in Nat
  BY <1>1, FeeMathAssumption DEF Inductive, TypeOK, PaymentRow, Amount
<1>8. payment' = Decided(r)
  BY DEF DecisionCommit, Commit
<1>9. CASE req[r].op = "verify"
  <2> DEFINE number == req[r].number
  <2>1. Ledger!Move(payment[p].invoice, a)
    BY <1>1, <1>6, <1>7, <1>9
  <2>2. /\ number \in Receipt /\ number \notin Issued(payment)
        /\ number.seq = 1 \/ number.seq - 1 \in IssuedSeqs(payment)
    BY <1>2, <1>9 DEF Inductive, RequestInv, NumberInv, DecisionInv
  <2>3. number \in {NextReceipt(payment, x) : x \in Prefix} \cup
                     [prefix : Prefix, seq : IssuedSeqs(payment)]
    <3>1. PICK n \in IssuedSeqs(payment) \cup {0} : IssuedSeqs(payment) = 1 .. n
      BY DEF Inductive, TablesInv, SequenceInv
    <3>2. n \in Nat
      <4>1. IssuedSeqs(payment) \in SUBSET (Nat \ {0})
        BY DEF Inductive, TypeOK, IssuedSeqs, Issued, PaymentRow, Receipt
      <4> QED
        BY <3>1, <4>1
    <3>3. HighestSeq(payment) = n
      BY <3>1, <3>2, HighestOfGapless
    <3>4. number.seq \in 1 .. n \/ number.seq = n + 1
      BY <2>2, <3>1, <3>2 DEF Receipt
    <3>5. CASE number.seq \in 1 .. n
      BY <2>2, <3>1, <3>5 DEF Receipt
    <3>6. CASE number.seq = n + 1
      <4>1. number = NextReceipt(payment, number.prefix) /\ number.prefix \in Prefix
        BY <2>2, <3>3, <3>6 DEF NextReceipt, Receipt
      <4> QED
        BY <4>1
    <3> QED
      BY <3>4, <3>5, <3>6
  <2>4. payment' = [payment EXCEPT ![p].status = "VERIFIED", ![p].receipt = number]
    BY <1>8, <1>9 DEF Decided
  <2> HIDE DEF number
  <2>5. Ledger!Verify(p)
    BY <1>1, <1>9, <2>1, <2>2, <2>3, <2>4, SameMath DEF Ledger!Verify
  <2> QED
    BY <1>1, <2>5
<1>10. CASE req[r].op = "reject" /\ payment[p].status = "VERIFIED"
  <2>1. now = invoice[i].paid + (-a) /\ -a \in Int
    BY <1>1, <1>2, <1>7, <1>10 DEF InvoiceRow
  <2>2. Ledger!Move(payment[p].invoice, -a)
    BY <1>1, <1>6, <1>7, <2>1
  <2>3. payment' = [payment EXCEPT ![p].status = "REJECTED"]
    BY <1>8, <1>10 DEF Decided
  <2> QED
    BY <1>1, <1>10, <2>2, <2>3 DEF Ledger!Reverse
<1>11. CASE req[r].op = "reject" /\ payment[p].status = "PENDING"
  <2>1. row = invoice[i]
    BY <1>1, <1>2, <1>11 DEF InvoiceRow
  <2>2. DeriveStatus(row, invoice[i].status) = invoice[i].status
    BY <1>1, <1>2, <2>1 DEF DeriveStatus
  <2>3. [row EXCEPT !.status = invoice[i].status] = invoice[i]
    BY <1>1, <1>2, <2>1 DEF InvoiceRow
  <2>4. invoice' = invoice
    BY <1>1, <1>2, <1>5, <2>2, <2>3
  <2>5. payment' = [payment EXCEPT ![p].status = "REJECTED"]
    BY <1>8, <1>11 DEF Decided
  <2> QED
    BY <1>1, <1>11, <2>4, <2>5 DEF Ledger!RejectPending
<1> QED
  BY <1>1, <1>9, <1>10, <1>11 DEF Live

(* A change decided on the row read under the lock is decided on the row as it is. *)
LEMMA ChangeRefines ==
  ASSUME Inductive, NEW r \in Request, Discount(r) \/ Waive(r) \/ Cancel(r)
  PROVE  LET i == req[r].inv
             a == req[r].amount
         IN  /\ i \in Invoice /\ a \in Amount
             /\ Ledger!Discount(i, a) \/ Ledger!Waive(i) \/ Ledger!Cancel(i)
<1> DEFINE i == req[r].inv
           a == req[r].amount
<1>1. /\ i \in Invoice /\ a \in Amount /\ req[r].at = "write" /\ Allowed(r)
      /\ req[r].op \in Changes /\ invoice[i] \in InvoiceRow
  BY DEF Inductive, TypeOK, RequestInv, LockInv, Discount, Waive, Cancel,
         RequestState, Changes
<1>2. req[r].seen = invoice[i]
  BY <1>1 DEF Inductive, RequestInv, ChangeInv
<1>3. CASE Discount(r)
  <2> DEFINE row == [invoice[i] EXCEPT !.discount = a]
  <2>1. invoice' = [invoice EXCEPT ![i] = [row EXCEPT !.status = DerivedStatus(row)]]
    BY <1>1, <1>2, <1>3 DEF Discount, Commit, InvoiceRow
  <2>2. a <= invoice[i].total /\ invoice[i].status \notin DecidedStatus
    BY <1>1, <1>2, <1>3 DEF Discount, Allowed, DecidedStatus
  <2>3. payment' = payment
    BY <1>3 DEF Discount, Commit
  <2> QED
    BY <1>1, <2>1, <2>2, <2>3, SameRows, SameMath DEF Ledger!Discount
<1>4. CASE Waive(r)
  BY <1>1, <1>2, <1>4, SameRows
     DEF Waive, Commit, Allowed, DecidedStatus, Ledger!Waive
<1>5. CASE Cancel(r)
  <2>1. Of(payment, i, {"PENDING", "VERIFIED"}) = {}
    BY <1>1, <1>5 DEF Cancel, Allowed, Live
  <2> QED
    BY <1>1, <1>2, <1>5, <2>1, SameRows, SameMath DEF Cancel, Commit, Allowed, Ledger!Cancel
<1> QED
  BY <1>1, <1>3, <1>4, <1>5

\* Every step is a step of the ledger or leaves both tables alone.
LEMMA StepRefines == Inductive /\ [Next]_vars => [Ledger!Next]_(Ledger!ledger)
<1> SUFFICES ASSUME Inductive, [Next]_vars
             PROVE  Ledger!Next \/ UNCHANGED <<invoice, payment>>
  BY DEF Ledger!ledger
<1>1. CASE UNCHANGED vars
  BY <1>1 DEF vars
<1>2. ASSUME NEW r \in Request, Start(r) \/ Lock(r) \/ Rollback(r)
      PROVE  UNCHANGED <<invoice, payment>>
  BY <1>2 DEF Start, StartRecord, StartVerify, StartReject, StartDiscount, StartWaive,
              StartCancel, Enter, Lock, Rollback, Refuse
<1>3. ASSUME NEW r \in Request, Proceed(r)
      PROVE  Ledger!Next \/ UNCHANGED <<invoice, payment>>
  <2>1. CASE RecordCheck(r) \/ RecordRefuse(r) \/ VerifyNumber(r) \/ VerifyUpdate(r)
             \/ VerifyRefuse(r) \/ VerifyCollide(r) \/ RejectUpdate(r) \/ RejectRefuse(r)
             \/ ReadRow(r) \/ ChangeRefuse(r)
    BY <2>1 DEF RecordCheck, RecordRefuse, VerifyNumber, VerifyUpdate, VerifyRefuse,
                VerifyCollide, RejectUpdate, RejectRefuse, ReadRow, ChangeRefuse,
                Refuse, Recalculate
  <2>2. CASE \E p \in Payment : RecordInsert(r, p)
    BY <2>2, RecordRefines, SameRows DEF Ledger!Next
  <2>3. CASE DecisionCommit(r)
    BY <2>3, DecisionRefines DEF Ledger!Next
  <2>4. CASE Discount(r) \/ Waive(r) \/ Cancel(r)
    BY <2>4, ChangeRefines, SameRows DEF Ledger!Next
  <2> QED
    BY <1>3, <2>1, <2>2, <2>3, <2>4 DEF Proceed
<1>4. ASSUME NEW p \in Payment, Discard(p) PROVE Ledger!Next
  <2>1. Ledger!Discard(p)
    BY <1>4, SameRows DEF Discard, Ledger!Discard
  <2> QED
    BY <2>1 DEF Ledger!Next
<1>5. ASSUME NEW x \in Prefix, SetPrefix(x) PROVE UNCHANGED <<invoice, payment>>
  BY <1>5 DEF SetPrefix
<1> QED
  BY <1>1, <1>2, <1>3, <1>4, <1>5 DEF Next

(***************************************************************************)
(* The interleaved transactions implement the atomic ledger, for any       *)
(* number of requests, invoices, payments, prefixes and attempts.          *)
(***************************************************************************)
THEOREM PaymentsImplementLedger == Spec => ImplementsLedger
BY InitRefines, StepRefines, AlwaysInductive, PTL DEF Spec, ImplementsLedger, Ledger!Spec

-----------------------------------------------------------------------------
(* What an operation of the ledger does to one payment. *)
LEMMA LedgerStepForward ==
  ASSUME Inductive, Ledger!Next, NEW p \in Payment
  PROVE  /\ payment[p].receipt # None => payment'[p].receipt = payment[p].receipt
         /\ payment[p].status = "VERIFIED" => payment'[p].status \in {"VERIFIED", "REJECTED"}
         /\ payment[p].status = "REJECTED" => payment'[p].status = "REJECTED"
<1>1. /\ payment \in [Payment -> PaymentRow]
      /\ payment[p].status \in {"none", "PENDING", "deleted"} => payment[p].receipt = None
  BY DEF Inductive, TypeOK, TablesInv, RowInv, NoPayment, DeletedPayment
<1>2. ASSUME NEW q \in Payment, NEW i \in Invoice, NEW a \in Ledger!Amount,
             Ledger!Record(q, i, a)
      PROVE  payment' = [payment EXCEPT ![q] = payment'[q]] /\ payment[q].status = "none"
  BY <1>1, <1>2 DEF Ledger!Record
<1>3. ASSUME NEW q \in Payment, Ledger!Discard(q)
      PROVE  payment' = [payment EXCEPT ![q] = payment'[q]] /\ payment[q].status = "PENDING"
  BY <1>1, <1>3 DEF Ledger!Discard
<1>4. CASE \E q \in Payment, i \in Invoice, a \in Ledger!Amount : Ledger!Record(q, i, a)
  BY <1>1, <1>2, <1>4
<1>5. CASE \E q \in Payment : Ledger!Discard(q)
  BY <1>1, <1>3, <1>5
<1>6. CASE \E q \in Payment : Ledger!Verify(q)
  <2>1. PICK q \in Payment : Ledger!Verify(q)
    BY <1>6
  <2>2. PICK number :
          /\ payment[q].status = "PENDING"
          /\ payment' = [payment EXCEPT ![q].status = "VERIFIED", ![q].receipt = number]
    BY <2>1 DEF Ledger!Verify
  <2> QED
    BY <1>1, <2>2
<1>7. CASE \E q \in Payment : Ledger!RejectPending(q) \/ Ledger!Reverse(q)
  <2>1. PICK q \in Payment :
          /\ payment[q].status \in {"PENDING", "VERIFIED"}
          /\ payment' = [payment EXCEPT ![q].status = "REJECTED"]
    BY <1>7 DEF Ledger!RejectPending, Ledger!Reverse
  <2>2. \A x \in Payment \ {q} : payment'[x] = payment[x]
    BY <1>1, <2>1
  <2>3. payment'[q].status = "REJECTED" /\ payment'[q].receipt = payment[q].receipt
    BY <1>1, <2>1 DEF PaymentRow
  <2> QED
    BY <2>1, <2>2, <2>3
<1>8. CASE UNCHANGED payment
  BY <1>8
<1> QED
  BY <1>4, <1>5, <1>6, <1>7, <1>8
     DEF Ledger!Next, Ledger!Discount, Ledger!Waive, Ledger!Cancel

(* Receipts stay on their payments, verified ones are only ever reversed, and
   rejected ones stay rejected: whatever the requests interleave. *)
THEOREM PaymentsOnlyMoveForward == Spec => PaymentOnlyMovesForward
<1>1. ASSUME Inductive, [Next]_vars
      PROVE  [\A p \in Payment :
                /\ payment[p].receipt # None => payment'[p].receipt = payment[p].receipt
                /\ payment[p].status = "VERIFIED"
                     => payment'[p].status \in {"VERIFIED", "REJECTED"}
                /\ payment[p].status = "REJECTED" => payment'[p].status = "REJECTED"]_vars
  <2>1. CASE Ledger!Next
    BY <2>1, <1>1, LedgerStepForward
  <2>2. CASE UNCHANGED <<invoice, payment>>
    BY <2>2
  <2> QED
    BY <1>1, <2>1, <2>2, StepRefines DEF Ledger!ledger
<1> QED
  BY <1>1, AlwaysInductive, PTL DEF Spec, PaymentOnlyMovesForward

(* What an operation of the ledger does to the decision taken on one invoice. *)
LEMMA LedgerStepStands ==
  ASSUME Inductive, Ledger!Next, NEW i \in Invoice
  PROVE  /\ invoice[i].status = "CANCELLED" => invoice'[i].status = "CANCELLED"
         /\ invoice[i].status = "WAIVED" =>
              /\ invoice'[i].status \in {"WAIVED", "CANCELLED"}
              /\ Of(payment', i, Live) \subseteq Of(payment, i, Live)
<1> SUFFICES ASSUME invoice[i].status \in DecidedStatus
             PROVE  /\ invoice[i].status = "CANCELLED" => invoice'[i].status = "CANCELLED"
                    /\ invoice[i].status = "WAIVED" =>
                         invoice'[i].status \in {"WAIVED", "CANCELLED"}
                    /\ Of(payment', i, Live) \subseteq Of(payment, i, Live)
  BY DEF DecidedStatus
<1>1. /\ payment \in [Payment -> PaymentRow] /\ invoice \in [Invoice -> InvoiceRow]
      /\ None # i
  BY FeeMathAssumption DEF Inductive, TypeOK
<1>2. CASE \E q \in Payment, j \in Invoice, a \in Ledger!Amount : Ledger!Record(q, j, a)
  <2>1. PICK q \in Payment, j \in Invoice, a \in Ledger!Amount : Ledger!Record(q, j, a)
    BY <1>2
  <2>2. j # i /\ invoice' = invoice /\ payment' = [payment EXCEPT ![q] = payment'[q]]
          /\ payment'[q].invoice = j
    BY <1>1, <2>1, SameRows DEF Ledger!Record, NoPayment
  <2> QED
    BY <1>1, <2>2 DEF Of
<1>3. CASE \E q \in Payment : Ledger!Discard(q)
  <2>1. PICK q \in Payment : /\ invoice' = invoice
                             /\ payment' = [payment EXCEPT ![q] = DeletedPayment]
    BY <1>3, SameRows DEF Ledger!Discard
  <2>2. DeletedPayment.invoice = None
    BY DEF DeletedPayment, NoPayment
  <2> QED
    BY <1>1, <2>1, <2>2 DEF Of
(* A balance that moves leaves the decision, and nobody's payment comes alive. *)
<1>4. CASE \E q \in Payment : Ledger!Verify(q) \/ Ledger!RejectPending(q) \/ Ledger!Reverse(q)
  <2>1. PICK q \in Payment :
          Ledger!Verify(q) \/ Ledger!RejectPending(q) \/ Ledger!Reverse(q)
    BY <1>4
  <2>2. payment[q].status \in Live
    BY <2>1 DEF Ledger!Verify, Ledger!RejectPending, Ledger!Reverse, Live
  <2>3. /\ \A x \in Payment \ {q} : payment'[x] = payment[x]
        /\ payment'[q].invoice = payment[q].invoice
    <3>1. CASE Ledger!Verify(q)
      <4>1. PICK number :
              payment' = [payment EXCEPT ![q].status = "VERIFIED", ![q].receipt = number]
        BY <3>1 DEF Ledger!Verify
      <4> QED
        BY <1>1, <4>1 DEF PaymentRow
    <3>2. CASE Ledger!RejectPending(q) \/ Ledger!Reverse(q)
      <4>1. payment' = [payment EXCEPT ![q].status = "REJECTED"]
        BY <3>2 DEF Ledger!RejectPending, Ledger!Reverse
      <4> QED
        BY <1>1, <4>1 DEF PaymentRow
    <3> QED
      BY <2>1, <3>1, <3>2
  <2>4. Of(payment', i, Live) \subseteq Of(payment, i, Live)
    BY <2>2, <2>3 DEF Of
  <2>5. invoice'[i].status = invoice[i].status
    <3>1. ASSUME NEW j, NEW by, Ledger!Move(j, by) PROVE invoice'[i].status = invoice[i].status
      <4> DEFINE row == [invoice[j] EXCEPT !.paid = @ + by]
      <4>1. invoice' = [invoice EXCEPT ![j] =
                          [row EXCEPT !.status = Ledger!DeriveStatus(row, row.status)]]
        BY <3>1, Zenon DEF Ledger!Move
      <4>2. CASE j = i
        <5>1. row.status = invoice[i].status
          BY <1>1, <4>2 DEF InvoiceRow
        <5>2. Ledger!DeriveStatus(row, row.status) = invoice[i].status
          BY <5>1, SameMath DEF DeriveStatus
        <5>3. row \in [total : Amount, discount : Amount, paid : {row.paid},
                       status : InvoiceStatus]
          BY <1>1, <4>2 DEF InvoiceRow
        <5> HIDE DEF row
        <5> QED
          BY <1>1, <4>1, <4>2, <5>2, <5>3
      <4>3. CASE j # i
        BY <1>1, <4>1, <4>3
      <4> QED
        BY <4>2, <4>3
    <3> QED
      BY <2>1, <3>1 DEF Ledger!Verify, Ledger!RejectPending, Ledger!Reverse
  <2> QED
    BY <2>4, <2>5
<1>5. CASE \E j \in Invoice, a \in Ledger!Amount : Ledger!Discount(j, a)
  BY <1>1, <1>5, SameRows DEF Ledger!Discount
<1>6. CASE \E j \in Invoice : Ledger!Waive(j)
  BY <1>1, <1>6, SameRows DEF Ledger!Waive
<1>7. CASE \E j \in Invoice : Ledger!Cancel(j)
  <2>1. PICK j \in Invoice : /\ payment' = payment
                             /\ invoice' = [invoice EXCEPT ![j].status = "CANCELLED"]
    BY <1>7 DEF Ledger!Cancel
  <2> QED
    BY <1>1, <2>1 DEF InvoiceRow
<1> QED
  BY <1>2, <1>3, <1>4, <1>5, <1>6, <1>7 DEF Ledger!Next

(* A waiver or a cancellation is never undone, nor is a new payment charged to
   an invoice it covers: whatever the requests interleave. *)
THEOREM DecisionsAlwaysStand == Spec => DecisionsStand
<1>1. ASSUME Inductive, [Next]_vars
      PROVE  [\A i \in Invoice :
                /\ invoice[i].status = "CANCELLED" => invoice'[i].status = "CANCELLED"
                /\ invoice[i].status = "WAIVED" =>
                     /\ invoice'[i].status \in {"WAIVED", "CANCELLED"}
                     /\ Of(payment', i, Live) \subseteq Of(payment, i, Live)]_vars
  <2>1. CASE Ledger!Next
    BY <2>1, <1>1, LedgerStepStands
  <2>2. CASE UNCHANGED <<invoice, payment>>
    BY <2>2
  <2> QED
    BY <1>1, <2>1, <2>2, StepRefines DEF Ledger!ledger
<1> QED
  BY <1>1, AlwaysInductive, PTL DEF Spec, DecisionsStand

-----------------------------------------------------------------------------
(* The retries of a verification. *)

\* What was issued stays issued.
LEMMA SequenceGrows ==
  ASSUME Inductive, [Next]_vars
  PROVE  IssuedSeqs(payment) \subseteq IssuedSeqs(payment')
<1>1. ASSUME NEW p \in Payment, payment[p].receipt # None
      PROVE  payment'[p].receipt = payment[p].receipt
  <2>1. CASE Ledger!Next
    BY <2>1, <1>1, LedgerStepForward
  <2>2. CASE UNCHANGED <<invoice, payment>>
    BY <2>2
  <2> QED
    BY <2>1, <2>2, StepRefines DEF Ledger!ledger
<1>2. Issued(payment) \subseteq Issued(payment')
  BY <1>1 DEF Issued
<1> QED
  BY <1>2 DEF IssuedSeqs

\* A step moves one request: it starts afresh, keeps its number and attempts, takes
\* the number after the last, or lost the one it had and counts another attempt.
LEMMA RequestMoves ==
  ASSUME Inductive, [Next]_vars, NEW r \in Request
  PROVE  \/ req'[r] = req[r]
         \/ req'[r].attempt = 0 /\ req'[r].at # "write"
         \/ req'[r].attempt = req[r].attempt /\ ~In(r, "verify", "write")'
         \/ VerifyNumber(r)
         \/ VerifyCollide(r) /\ req'[r].attempt = req[r].attempt + 1 /\ req'[r].at = "waiting"
<1>1. req \in [Request -> RequestState] /\ req[r] \in RequestState
  BY DEF Inductive, TypeOK
<1>2. Idle.attempt = 0 /\ Idle.at = "idle"
  BY DEF Idle
<1>3. ASSUME NEW s \in Request, s # r, Start(s) \/ Lock(s) \/ Proceed(s) \/ Rollback(s)
      PROVE  req'[r] = req[r]
  BY <1>1, <1>3 DEF Start, StartRecord, StartDiscount, StartWaive, StartCancel, StartVerify,
     StartReject, Enter, Lock, Proceed, RecordCheck, RecordRefuse, RecordInsert, VerifyNumber,
     VerifyUpdate, VerifyRefuse, VerifyCollide, RejectUpdate, RejectRefuse, DecisionCommit,
     ReadRow, ChangeRefuse, Discount, Waive, Cancel, Rollback, Refuse, Commit, Finish,
     Recalculate
<1>4. CASE Start(r)
  <2>1. PICK op, i, p, a : Enter(r, op, i, p, a)
    BY <1>4 DEF Start, StartRecord, StartDiscount, StartWaive, StartCancel, StartVerify,
       StartReject
  <2> QED
    BY <1>1, <2>1 DEF Enter, Idle
<1>5. CASE Finish(r)
  BY <1>1, <1>2, <1>5 DEF Finish
<1>6. CASE Lock(r)
  BY <1>1, <1>6 DEF Lock, RequestState
<1>7. CASE RecordCheck(r) \/ ReadRow(r)
  BY <1>1, <1>7 DEF RecordCheck, ReadRow, RequestState, Changes
<1>8. CASE Recalculate(r)
  BY <1>1, <1>8 DEF Recalculate, RequestState
<1>9. CASE VerifyCollide(r) /\ ~Finish(r)
  BY <1>1, <1>9 DEF VerifyCollide, RequestState
<1>10. CASE Proceed(r) \/ Rollback(r)
  BY <1>5, <1>7, <1>8, <1>9, <1>10 DEF Proceed, RecordRefuse, RecordInsert, VerifyUpdate,
     VerifyRefuse, RejectUpdate, RejectRefuse, DecisionCommit, ChangeRefuse, Discount, Waive,
     Cancel, Rollback, Refuse, Commit
<1>11. CASE UNCHANGED req
  BY <1>11
<1> QED
  BY <1>3, <1>4, <1>6, <1>10, <1>11 DEF Next, Discard, SetPrefix, vars

\* A number that was lost is one that was issued since it was chosen.
LEMMA AttemptsKept ==
  ASSUME Inductive, AttemptsInv, [Next]_vars
  PROVE  AttemptsInv'
<1> SUFFICES ASSUME NEW r \in Request PROVE AttemptInv(r)'
  BY DEF AttemptsInv
<1>1. PICK n \in IssuedSeqs(payment) \cup {0} : IssuedSeqs(payment) = 1 .. n
  BY DEF Inductive, TablesInv, SequenceInv
<1>2. /\ n \in Nat /\ req \in [Request -> RequestState] /\ req[r].attempt \in Nat
      /\ AttemptInv(r)
  <2>1. IssuedSeqs(payment) \in SUBSET Nat
    BY DEF Inductive, TypeOK, IssuedSeqs, Issued, PaymentRow, Receipt
  <2> QED
    BY <1>1, <2>1 DEF Inductive, TypeOK, RequestState, AttemptsInv
<1>3. CASE VerifyNumber(r)
  <2>1. /\ req'[r].number = NextReceipt(payment, prefix)
        /\ req'[r].attempt = req[r].attempt
    BY <1>2, <1>3 DEF VerifyNumber, RequestState
  <2>2. NextReceipt(payment, prefix).seq = n + 1
    BY <1>1, <1>2, HighestOfGapless DEF NextReceipt
  <2>3. req[r].attempt <= n
    BY <1>1, <1>2 DEF AttemptInv
  <2> QED
    BY <1>2, <2>1, <2>2, <2>3, SequenceGrows DEF AttemptInv
<1>4. CASE /\ VerifyCollide(r) /\ req'[r].attempt = req[r].attempt + 1
           /\ req'[r].at = "waiting"
  <2>1. req[r].number.seq \in 1 .. n /\ req[r].attempt < req[r].number.seq
    BY <1>1, <1>2, <1>4 DEF VerifyCollide, AttemptInv, IssuedSeqs
  <2>2. req'[r].attempt \in IssuedSeqs(payment)
    BY <1>1, <1>2, <1>4, <2>1
  <2> QED
    BY <1>4, <2>2, SequenceGrows DEF AttemptInv
<1>5. CASE req'[r] = req[r]
  BY <1>2, <1>5, SequenceGrows DEF AttemptInv
<1> QED
  BY <1>2, <1>3, <1>4, <1>5, RequestMoves, SequenceGrows DEF AttemptInv

\* As many receipts are issued as there are numbers in use, at least: under two
\* prefixes there may be two to a number.
LEMMA ReceiptsPerNumber ==
  ASSUME NEW n \in Nat, IssuedSeqs(payment) = 1 .. n
  PROVE  n <= Cardinality(Issued(payment)) /\ Cardinality(Issued(payment)) \in Nat
<1> DEFINE seq    == [number \in Issued(payment) |-> number.seq]
           given == [p \in Payment |-> payment[p].receipt]
           Held   == {payment[p].receipt : p \in Payment}
<1>1. IsFiniteSet(Issued(payment))
  <2>1. given \in Surjection(Payment, Held)
    BY DEF Surjection
  <2>2. IsFiniteSet(Held)
    BY <2>1, FeeMathAssumption, FS_Surjection
  <2> QED
    BY <2>2, FS_Difference DEF Issued
<1>2. seq \in Surjection(Issued(payment), 1 .. n)
  BY DEF Surjection, IssuedSeqs
<1>3. Cardinality(1 .. n) <= Cardinality(Issued(payment))
  BY <1>1, <1>2, FS_Surjection
<1>4. Cardinality(1 .. n) = n
  BY FS_Interval
<1> QED
  BY <1>1, <1>3, <1>4, FS_CardinalityType

(* However the verifications race, one retries only after another has issued the
   receipt it had chosen (the loop of verify over P2002). *)
THEOREM RetriesAreAlwaysPaidFor == Spec => []RetriesArePaidFor
<1>1. Init => AttemptsInv
  BY DEF Init, Idle, AttemptsInv, AttemptInv
<1>2. Inductive /\ AttemptsInv /\ [Next]_vars => AttemptsInv'
  BY AttemptsKept
<1>3. Inductive /\ AttemptsInv => RetriesArePaidFor
  <2> SUFFICES ASSUME Inductive, AttemptsInv, NEW r \in Request
               PROVE  req[r].attempt <= Cardinality(Issued(payment))
    BY DEF RetriesArePaidFor
  <2>1. PICK n \in IssuedSeqs(payment) \cup {0} : IssuedSeqs(payment) = 1 .. n
    BY DEF Inductive, TablesInv, SequenceInv
  <2>2. IssuedSeqs(payment) \in SUBSET Nat /\ req[r].attempt \in Nat
    BY DEF Inductive, TypeOK, IssuedSeqs, Issued, PaymentRow, Receipt, RequestState
  <2>3. n \in Nat /\ req[r].attempt <= n
    BY <2>1, <2>2 DEF AttemptsInv, AttemptInv
  <2> QED
    BY <2>1, <2>2, <2>3, ReceiptsPerNumber
<1> QED
  BY <1>1, <1>2, <1>3, AlwaysInductive, PTL DEF Spec
=============================================================================
