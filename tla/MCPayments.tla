----------------------------- MODULE MCPayments -----------------------------
(***************************************************************************)
(* Instances of Payments for TLC.                                          *)
(***************************************************************************)
EXTENDS Payments, TLC

\* Requests, payment ids and invoices are interchangeable.
Symmetry == Permutations(Request) \cup Permutations(Payment) \cup Permutations(Invoice)

(***************************************************************************)
(* Bound: clients that only move payments.  Receipts and the retries of a  *)
(* verification depend on no other operation, and leaving the discounts,   *)
(* waivers and cancellations out makes room for a second invoice.          *)
(***************************************************************************)
StartPayment(r) ==
  \/ \E i \in Invoice, a \in Amount : StartRecord(r, i, a)
  \/ \E p \in Payment : StartVerify(r, p) \/ StartReject(r, p)

PaymentSteps(r) ==
  \/ RecordCheck(r) \/ RecordRefuse(r) \/ \E p \in Payment : RecordInsert(r, p)
  \/ VerifyNumber(r) \/ VerifyUpdate(r) \/ VerifyRefuse(r) \/ VerifyCollide(r)
  \/ RejectUpdate(r) \/ RejectRefuse(r) \/ DecisionCommit(r)

PaymentsOnly ==
  \/ \E r \in Request : StartPayment(r) \/ Lock(r) \/ PaymentSteps(r) \/ Rollback(r)
  \/ \E p \in Payment : Discard(p)
  \/ \E x \in Prefix : SetPrefix(x)

ReceiptsSpec == Init /\ [][PaymentsOnly]_vars

(***************************************************************************)
(* README.md, Settings: changing receiptPrefix, "the year's sequence       *)
(* continues across a change" -- so no number of the sequence is given to  *)
(* two payments, whatever their prefixes.  Two verifications that read the *)
(* numbers issued before either commits, and the prefix one before and one *)
(* after the change, are not kept apart by the unique index, which covers  *)
(* the whole receipt number.                                               *)
(***************************************************************************)
SequenceContinues ==
  \A p, q \in Payment :
    p # q /\ payment[p].receipt # None /\ payment[q].receipt # None
      => payment[p].receipt.seq # payment[q].receipt.seq
=============================================================================
