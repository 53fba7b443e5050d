---------------------------- MODULE InvoiceLedger ----------------------------
(***************************************************************************)
(* What the payments and student-fees services promise together, with no   *)
(* requests, no locks and no retries: every operation happens at once, on  *)
(* the rows as they are.  The amount paid moves by exactly the amount of   *)
(* the payment that is verified or reversed, where the code rebuilds it    *)
(* from all verified payments; Payments implements this module.            *)
(***************************************************************************)
EXTENDS FeeMath

VARIABLES invoice, payment

ledger == <<invoice, payment>>

Init ==
  /\ invoice \in [Invoice -> [total : Amount, discount : {0}, paid : {0},
                              status : {"UNPAID", "PAID"}]]
  /\ \A i \in Invoice : invoice[i].status = DerivedStatus(invoice[i])
  /\ payment = [p \in Payment |-> NoPayment]

\* What a bursar may still record: pending payments count towards the ceiling.
Outstanding(i) == Payable(invoice[i]) - invoice[i].paid - Pending(payment, i)

Record(p, i, a) ==
  /\ payment[p].status = "none"
  /\ invoice[i].status \notin DecidedStatus
  /\ a > 0 /\ a <= Outstanding(i)
  /\ payment' = [payment EXCEPT ![p] = [NoPayment EXCEPT !.status = "PENDING",
                                          !.invoice = i, !.amount = a]]
  /\ UNCHANGED invoice

\* The balance moves by `by`, and the status follows it unless somebody decided.
Move(i, by) ==
  LET row == [invoice[i] EXCEPT !.paid = @ + by]
  IN  invoice' = [invoice EXCEPT ![i] = [row EXCEPT !.status = DeriveStatus(row, @)]]

Verify(p) ==
  \E number \in {NextReceipt(payment, x) : x \in Prefix} \cup
                [prefix : Prefix, seq : IssuedSeqs(payment)] :
    /\ payment[p].status = "PENDING"
    /\ number \notin Issued(payment)
    /\ payment' = [payment EXCEPT ![p].status = "VERIFIED", ![p].receipt = number]
    /\ Move(payment[p].invoice, payment[p].amount)

RejectPending(p) ==
  /\ payment[p].status = "PENDING"
  /\ payment' = [payment EXCEPT ![p].status = "REJECTED"]
  /\ UNCHANGED invoice

Reverse(p) ==
  /\ payment[p].status = "VERIFIED"
  /\ payment' = [payment EXCEPT ![p].status = "REJECTED"]
  /\ Move(payment[p].invoice, -payment[p].amount)

Discard(p) ==
  /\ payment[p].status = "PENDING"
  /\ payment' = [payment EXCEPT ![p] = DeletedPayment]
  /\ UNCHANGED invoice

Discount(i, a) ==
  LET row == [invoice[i] EXCEPT !.discount = a]
  IN  /\ invoice[i].status \notin DecidedStatus
      /\ a <= invoice[i].total
      /\ invoice' = [invoice EXCEPT ![i] = [row EXCEPT !.status = DerivedStatus(row)]]
      /\ UNCHANGED payment

Waive(i) ==
  /\ invoice[i].status \notin DecidedStatus
  /\ invoice' = [invoice EXCEPT ![i].status = "WAIVED"]
  /\ UNCHANGED payment

Cancel(i) ==
  /\ invoice[i].status # "CANCELLED"
  /\ Of(payment, i, {"PENDING", "VERIFIED"}) = {}
  /\ invoice' = [invoice EXCEPT ![i].status = "CANCELLED"]
  /\ UNCHANGED payment

Next ==
  \/ \E p \in Payment, i \in Invoice, a \in Amount : Record(p, i, a)
  \/ \E p \in Payment : Verify(p) \/ RejectPending(p) \/ Reverse(p) \/ Discard(p)
  \/ \E i \in Invoice, a \in Amount : Discount(i, a)
  \/ \E i \in Invoice : Waive(i) \/ Cancel(i)

Spec == Init /\ [][Next]_ledger
=============================================================================
