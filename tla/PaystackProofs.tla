--------------------------- MODULE PaystackProofs ---------------------------
(***************************************************************************)
(* Safety of online payments, for any number of workers, payments and      *)
(* faults.  First what one call of PaymentsService may do to a payment,    *)
(* then what a step of one worker must respect, then every step.           *)
(***************************************************************************)
EXTENDS Paystack, FeeMathProofs

(* What any operation of the ledger does to the payments. *)
LedgerMoves ==
  /\ payment' \in [Payment -> PaymentRow]
  /\ SequenceInv'
  /\ \A q \in Payment :
       /\ payment'[q].status = "none" => payment[q].status = "none"
       /\ payment'[q].status = "PENDING" => payment[q].status \in {"none", "PENDING"}
       /\ payment'[q].status \in {"none", "PENDING"} => payment'[q].receipt = None
       /\ payment[q].receipt # None => payment'[q].receipt = payment[q].receipt

\* Every receipt a step adds is that of a payment the provider collected.
Credited ==
  \A q \in Payment : payment[q].receipt = None /\ payment'[q].receipt # None
                      => online[q].charge = "collected"

\* What is shown of every step of a worker.
GoodStep == Inductive' /\ LedgerMoves /\ Credited

-----------------------------------------------------------------------------
(* The ledger. *)

\* The next number of a sequence without gaps is a receipt number.
LEMMA NextNumber ==
  ASSUME Inductive, NEW x \in Prefix
  PROVE  \E n \in Nat : /\ IssuedSeqs(payment) = 1 .. n
                        /\ Ledger!NextReceipt(payment, x) = [prefix |-> x, seq |-> n + 1]
<1>1. IssuedSeqs(payment) \in SUBSET (Nat \ {0})
  BY DEF Inductive, TablesOK, IssuedSeqs, Issued, PaymentRow, Receipt
<1>2. PICK n \in IssuedSeqs(payment) \cup {0} : IssuedSeqs(payment) = 1 .. n
  BY DEF Inductive, SequenceInv
<1>3. n \in Nat
  BY <1>1, <1>2
<1>4. HighestSeq(payment) = n
  BY <1>2, <1>3, HighestOfGapless
<1>5. Ledger!NextReceipt(payment, x) = NextReceipt(payment, x)
  BY DEF Ledger!NextReceipt, NextReceipt, Ledger!HighestSeq, HighestSeq,
         Ledger!IssuedSeqs, IssuedSeqs, Ledger!Issued, Issued
<1> QED
  BY <1>2, <1>3, <1>4, <1>5 DEF NextReceipt

\* A call that writes nothing moves nothing.
LEMMA NothingMoves ==
  ASSUME Inductive, UNCHANGED ledger PROVE LedgerMoves /\ Credited
BY DEF Credited, Inductive, TablesOK, RowInv, SequenceInv, IssuedSeqs, Issued, ledger, LedgerMoves

\* record: a new pending row without a receipt.
LEMMA RecordMoves ==
  ASSUME Inductive, NEW p \in Payment, NEW i \in Invoice, NEW a \in Amount,
         Ledger!Record(p, i, a)
  PROVE  /\ LedgerMoves /\ Credited
         /\ payment[p].status = "none" /\ payment'[p].status = "PENDING"
<1> DEFINE row == [Ledger!NoPayment EXCEPT !.status = "PENDING", !.invoice = i, !.amount = a]
<1>1. /\ payment' = [payment EXCEPT ![p] = row] /\ payment[p].status = "none"
      /\ payment \in [Payment -> PaymentRow] /\ payment[p].receipt = None
  BY DEF Ledger!Record, Inductive, TablesOK, RowInv
<1>2. Ledger!NoPayment \in PaymentRow /\ Ledger!NoPayment.receipt = None
  BY FeeMathAssumption DEF Ledger!NoPayment, PaymentRow, PaymentStatus, Amount
<1>3. row \in PaymentRow /\ row.receipt = None /\ row.status = "PENDING"
  BY <1>2 DEF PaymentRow, PaymentStatus
<1>4. \A q \in Payment : payment'[q] = IF q = p THEN row ELSE payment[q]
  BY <1>1
<1>5. Issued(payment') = Issued(payment)
  BY <1>1, <1>3, <1>4 DEF Issued
<1>6. SequenceInv'
  BY <1>5 DEF Inductive, SequenceInv, IssuedSeqs
<1>7. payment' \in [Payment -> PaymentRow]
  BY <1>1, <1>3
<1> HIDE DEF row
<1> QED
  BY <1>1, <1>3, <1>4, <1>6, <1>7 DEF Inductive, RowInv, LedgerMoves, Credited

\* reject and the deletions: no receipt appears and none is taken back.
LEMMA RejectMoves ==
  ASSUME Inductive, NEW p \in Payment,
         Ledger!RejectPending(p) \/ Ledger!Reverse(p) \/ Ledger!Discard(p)
  PROVE  LedgerMoves /\ Credited
<1>1. PICK row \in PaymentRow :
        /\ payment' = [payment EXCEPT ![p] = row]
        /\ row.receipt = payment[p].receipt
        /\ row.status \in {"REJECTED", "deleted"}
  <2>1. payment[p] \in PaymentRow
    BY DEF Inductive, TablesOK
  <2>2. CASE Ledger!RejectPending(p) \/ Ledger!Reverse(p)
    <3> DEFINE row == [payment[p] EXCEPT !.status = "REJECTED"]
    <3>1. row \in PaymentRow /\ row.receipt = payment[p].receipt /\ row.status = "REJECTED"
      BY <2>1 DEF PaymentRow, PaymentStatus
    <3>2. payment' = [payment EXCEPT ![p] = row]
      BY <2>2 DEF Ledger!RejectPending, Ledger!Reverse
    <3> QED
      BY <3>1, <3>2
  <2>3. CASE Ledger!Discard(p)
    <3> DEFINE row == Ledger!DeletedPayment
    <3>1. row = [status |-> "deleted", invoice |-> None, amount |-> 0, receipt |-> None]
      BY DEF Ledger!DeletedPayment, Ledger!NoPayment
    <3>2. row \in PaymentRow /\ row.receipt = None /\ row.status = "deleted"
      BY <3>1, FeeMathAssumption DEF PaymentRow, PaymentStatus, Amount
    <3>3. payment' = [payment EXCEPT ![p] = row] /\ payment[p].receipt = None
      BY <2>3 DEF Ledger!Discard, Inductive, RowInv
    <3> QED
      BY <3>2, <3>3
  <2> QED
    BY <2>2, <2>3
<1>2. payment \in [Payment -> PaymentRow]
  BY DEF Inductive, TablesOK
<1>3. \A q \in Payment : payment'[q] = IF q = p THEN row ELSE payment[q]
  BY <1>1, <1>2
<1>4. \A q \in Payment : payment'[q].receipt = payment[q].receipt
  BY <1>1, <1>3
<1>5. Issued(payment') = Issued(payment)
  BY <1>4 DEF Issued
<1>6. SequenceInv'
  BY <1>5 DEF Inductive, SequenceInv, IssuedSeqs
<1>7. payment' \in [Payment -> PaymentRow]
  BY <1>1, <1>2
<1> QED
  BY <1>1, <1>3, <1>4, <1>6, <1>7 DEF Inductive, RowInv, LedgerMoves, Credited

\* verify: one pending payment gets one number, and the sequence keeps no gap.
LEMMA VerifyMoves ==
  ASSUME Inductive, NEW p \in Payment, Ledger!Verify(p)
  PROVE  LedgerMoves /\ \A q \in Payment \ {p} : payment'[q] = payment[q]
<1>1. PICK number \in {Ledger!NextReceipt(payment, x) : x \in Prefix} \cup
                      [prefix : Prefix, seq : Ledger!IssuedSeqs(payment)] :
        /\ payment[p].status = "PENDING"
        /\ payment' = [payment EXCEPT ![p].status = "VERIFIED", ![p].receipt = number]
  BY DEF Ledger!Verify
<1>2. payment \in [Payment -> PaymentRow] /\ payment[p].receipt = None
  BY <1>1 DEF Inductive, TablesOK, RowInv
<1>3. Ledger!IssuedSeqs(payment) = IssuedSeqs(payment)
  BY DEF Ledger!IssuedSeqs, IssuedSeqs, Ledger!Issued, Issued
<1>4. PICK n \in Nat : /\ IssuedSeqs(payment) = 1 .. n
                       /\ \/ number.seq = n + 1
                          \/ number.seq \in 1 .. n
                       /\ number \in Receipt
  <2>1. CASE number \in {Ledger!NextReceipt(payment, x) : x \in Prefix}
    <3>1. PICK x \in Prefix : number = Ledger!NextReceipt(payment, x)
      BY <2>1
    <3>2. PICK n \in Nat : /\ IssuedSeqs(payment) = 1 .. n
                           /\ number = [prefix |-> x, seq |-> n + 1]
      BY <3>1, NextNumber
    <3>3. number \in Receipt /\ number.seq = n + 1
      BY <3>2 DEF Receipt
    <3> QED
      BY <3>2, <3>3
  <2>2. CASE number \in [prefix : Prefix, seq : IssuedSeqs(payment)]
    <3>1. PICK n \in Nat : IssuedSeqs(payment) = 1 .. n
      BY <2>2, NextNumber
    <3>2. number.seq \in 1 .. n /\ number \in Receipt
      BY <2>2, <3>1 DEF Receipt
    <3> QED
      BY <3>1, <3>2
  <2> QED
    BY <1>3, <2>1, <2>2
<1> DEFINE row == [payment[p] EXCEPT !.status = "VERIFIED", !.receipt = number]
<1>5. row \in PaymentRow /\ row.receipt = number /\ row.status = "VERIFIED"
  BY <1>2, <1>4 DEF PaymentRow, PaymentStatus
<1>6. payment' = [payment EXCEPT ![p] = row]
  BY <1>1, <1>2 DEF PaymentRow
<1> HIDE DEF row
<1>7. \A q \in Payment : payment'[q] = IF q = p THEN row ELSE payment[q]
  BY <1>2, <1>6
<1>8. payment' \in [Payment -> PaymentRow]
  BY <1>2, <1>5, <1>6
<1>9. number # None
  BY <1>4, FeeMathAssumption DEF Receipt
<1>10. Issued(payment') = Issued(payment) \cup {number}
  BY <1>2, <1>5, <1>7, <1>9 DEF Issued
<1>11. IssuedSeqs(payment') = (1 .. n) \cup {number.seq}
  BY <1>4, <1>10 DEF IssuedSeqs
<1>12. SequenceInv'
  <2>1. CASE number.seq = n + 1
    <3>1. IssuedSeqs(payment') = 1 .. (n + 1) /\ n + 1 \in IssuedSeqs(payment')
      BY <1>11, <2>1
    <3> QED
      BY <3>1 DEF SequenceInv
  <2>2. CASE number.seq \in 1 .. n
    <3>1. IssuedSeqs(payment') = 1 .. n /\ n \in IssuedSeqs(payment')
      BY <1>11, <2>2
    <3> QED
      BY <3>1 DEF SequenceInv
  <2> QED
    BY <1>4, <2>1, <2>2
<1> QED
  BY <1>2, <1>5, <1>7, <1>8, <1>12 DEF Inductive, RowInv, LedgerMoves

-----------------------------------------------------------------------------
(* One worker. *)

\* A step of one worker, and of nobody else's charge or claim, keeps the invariant.
LEMMA WorkerStep ==
  ASSUME Inductive, NEW w \in Worker, NEW x \in Job, job' = [job EXCEPT ![w] = x],
         LedgerMoves,
         online' \in [Payment -> OnlinePayment], event' \subseteq Payment,
         \A q \in Payment : payment'[q].status = "none" => online'[q].charge = "none",
         \A q \in Payment : online[q].charge = "collected" => online'[q].charge = "collected",
         \A v \in Worker \ {w} :
           Opening(v) => online'[job[v].pay].charge = "none"
                         /\ (Opening(w)' => x.pay # job[v].pay),
         \A v \in Worker \ {w} :
           Past(v) => job[v].pay \in event' /\ (Past(w)' => x.pay # job[v].pay),
         WorkInv(w)'
  PROVE  Inductive'
<1>1. /\ job \in [Worker -> Job]
      /\ \A v \in Worker : job'[v] = IF v = w THEN x ELSE job[v]
  BY DEF Inductive, TablesOK
<1>2. TablesOK' /\ SequenceInv'
  BY <1>1 DEF TablesOK, LedgerMoves
<1>3. RowInv'
  BY DEF LedgerMoves, RowInv
<1>4. OpeningInv'
  BY <1>1 DEF Inductive, OpeningInv, Opening
<1>5. ClaimExcludes'
  BY <1>1 DEF Inductive, ClaimExcludes, Past
<1>6. ASSUME NEW v \in Worker, v # w PROVE WorkInv(v)'
  <2>1. job'[v] = job[v] /\ WorkInv(v)
    BY <1>1, <1>6 DEF Inductive
  <2>2. job[v].at = "apply" => online'[job[v].pay].charge = "collected"
    BY <2>1 DEF WorkInv
  <2>3. Opening(v) => payment'[job[v].pay].status # "none"
    BY <2>1 DEF WorkInv, Opening, LedgerMoves
  <2> QED
    BY <1>6, <2>1, <2>2, <2>3 DEF WorkInv, Opening, Past
<1> QED
  BY <1>2, <1>3, <1>4, <1>5, <1>6 DEF Inductive

\* The same of a step that changes no charge and no claim.
LEMMA PlainStep ==
  ASSUME Inductive, NEW w \in Worker, NEW x \in Job, job' = [job EXCEPT ![w] = x],
         LedgerMoves, UNCHANGED <<online, event>>,
         Opening(w)' => Opening(w) /\ x.pay = job[w].pay,
         Past(w)' => Past(w) /\ x.pay = job[w].pay,
         WorkInv(w)'
  PROVE  Inductive'
<1>1. /\ online' \in [Payment -> OnlinePayment] /\ event' \subseteq Payment
      /\ \A q \in Payment : payment'[q].status = "none" => online'[q].charge = "none"
  BY DEF Inductive, TablesOK, RowInv, LedgerMoves
<1>2. ASSUME NEW v \in Worker \ {w}, Opening(v)
      PROVE  online'[job[v].pay].charge = "none" /\ (Opening(w)' => x.pay # job[v].pay)
  BY <1>2 DEF Inductive, WorkInv, OpeningInv
<1>3. ASSUME NEW v \in Worker \ {w}, Past(v)
      PROVE  job[v].pay \in event' /\ (Past(w)' => x.pay # job[v].pay)
  BY <1>3 DEF Inductive, WorkInv, ClaimExcludes, Past
<1> QED
  BY <1>1, <1>2, <1>3, WorkerStep

\* An idle worker has the type of one.
LEMMA IdleType == Idle \in Job
BY FeeMathAssumption DEF Idle, Job, Amount, PaymentStatus

\* A worker that ends its request, whatever became of it.
LEMMA DoneStep ==
  ASSUME Inductive, NEW w \in Worker, Done(w), LedgerMoves, UNCHANGED <<online, event>>
  PROVE  Inductive'
<1>1. job' = [job EXCEPT ![w] = Idle] /\ job'[w] = Idle
  BY DEF Done, Inductive, TablesOK
<1>2. ~Opening(w)' /\ ~Past(w)' /\ WorkInv(w)'
  BY <1>1 DEF Opening, Past, WorkInv, Idle
<1> QED
  BY <1>1, <1>2, IdleType, PlainStep

\* A worker that goes on with the candidates of its sweep.
LEMMA SweptStep ==
  ASSUME Inductive, NEW w \in Worker, NEW p, Swept(w, p), job[w].op = "start",
         LedgerMoves, UNCHANGED <<online, event>>
  PROVE  Inductive'
<1> DEFINE x == [job[w] EXCEPT !.at = "sweep", !.left = @ \ {p}, !.pay = None]
<1>1. job[w] \in Job
  BY DEF Inductive, TablesOK
<1>2. x \in Job /\ x.at = "sweep" /\ x.op = "start" /\ x.inv \in Invoice
  BY <1>1 DEF Job, WorkInv, Inductive
<1>3. job' = [job EXCEPT ![w] = x] /\ job'[w] = x
  BY <1>1 DEF Swept, Inductive, TablesOK
<1>4. ~Opening(w)' /\ ~Past(w)' /\ WorkInv(w)'
  BY <1>2, <1>3 DEF Opening, Past, WorkInv
<1> HIDE DEF x
<1> QED
  BY <1>2, <1>3, <1>4, PlainStep

\* A worker that goes on to a step that opens no charge and needs none collected.
LEMMA GotoStep ==
  ASSUME Inductive, NEW w \in Worker, NEW at, Goto(w, at),
         at \in {"discard", "ask", "find", "release"},
         job[w].op = "webhook" => Past(w), job[w].pay \in Payment,
         LedgerMoves, UNCHANGED <<online, event>>
  PROVE  Inductive'
<1> DEFINE x == [job[w] EXCEPT !.at = at]
<1>1. job[w] \in Job
  BY DEF Inductive, TablesOK
<1>2. /\ x \in Job /\ x.at = at /\ x.op = job[w].op /\ x.pay = job[w].pay
      /\ x.op = "start" => x.inv \in Invoice
  BY <1>1 DEF Job, WorkInv, Inductive
<1>3. job' = [job EXCEPT ![w] = x] /\ job'[w] = x
  BY <1>1 DEF Goto, Inductive, TablesOK
<1>4. ~Opening(w)' /\ (Past(w)' => Past(w))
  BY <1>2, <1>3 DEF Opening, Past
<1>5. WorkInv(w)'
  <2>1. x.op = "webhook" => x.pay \in event'
    BY <1>2 DEF Past, WorkInv, Inductive
  <2> QED
    BY <1>2, <1>3, <1>4, <2>1 DEF WorkInv
<1> HIDE DEF x
<1> QED
  BY <1>2, <1>3, <1>4, <1>5, PlainStep

\* A worker that has seen the charge collected goes on to verify the payment.
LEMMA ApplyStep ==
  ASSUME Inductive, NEW w \in Worker, Goto(w, "apply"), job[w].pay \in Payment,
         online[job[w].pay].charge = "collected", job[w].op = "webhook" => Past(w),
         UNCHANGED ledger, UNCHANGED <<online, event>>
  PROVE  Inductive'
<1> DEFINE x == [job[w] EXCEPT !.at = "apply"]
<1>1. job[w] \in Job
  BY DEF Inductive, TablesOK
<1>2. /\ x \in Job /\ x.at = "apply" /\ x.op = job[w].op /\ x.pay = job[w].pay
      /\ x.op = "start" => x.inv \in Invoice
  BY <1>1 DEF Job, WorkInv, Inductive
<1>3. job' = [job EXCEPT ![w] = x] /\ job'[w] = x
  BY <1>1 DEF Goto, Inductive, TablesOK
<1>4. ~Opening(w)' /\ (Past(w)' => Past(w))
  BY <1>2, <1>3 DEF Opening, Past
<1>5. WorkInv(w)'
  BY <1>2, <1>3 DEF Opening, Past, WorkInv, Inductive
<1> HIDE DEF x
<1> QED
  BY <1>2, <1>3, <1>4, <1>5, NothingMoves, PlainStep

\* The answer of refresh, or the next candidate of the sweep that called it.
LEMMA ReturnStep ==
  ASSUME Inductive, NEW w \in Worker, NEW status \in PaymentStatus, Return(w, status),
         job[w].op = "webhook" => Past(w), job[w].pay \in Payment, LedgerMoves,
         UNCHANGED <<online, event>>
  PROVE  Inductive'
<1>1. CASE job[w].op = "start"
  BY <1>1, SweptStep DEF Return
<1>2. CASE job[w].op # "start"
  <2> DEFINE x == [job[w] EXCEPT !.at = "answered", !.told = status]
  <2>1. job[w] \in Job
    BY DEF Inductive, TablesOK
  <2>2. x \in Job /\ x.at = "answered" /\ x.op = job[w].op /\ x.pay = job[w].pay
    BY <2>1 DEF Job
  <2>3. job' = [job EXCEPT ![w] = x] /\ job'[w] = x
    BY <1>2, <2>1 DEF Return, Inductive, TablesOK
  <2>4. ~Opening(w)' /\ (Past(w)' => Past(w))
    BY <2>2, <2>3 DEF Opening, Past
  <2>5. WorkInv(w)'
    <3>1. x.op = "webhook" => x.pay \in event'
      BY <2>2 DEF Past, WorkInv, Inductive
    <3> QED
      BY <1>2, <2>2, <2>3, <2>4, <3>1 DEF WorkInv
  <2> HIDE DEF x
  <2> QED
    BY <2>2, <2>3, <2>4, <2>5, PlainStep
<1> QED
  BY <1>1, <1>2

-----------------------------------------------------------------------------
(* The steps of start. *)

\* The worker that leaves its sweep records a payment nobody has opened yet.
LEMMA StartRecordStep ==
  ASSUME Inductive, NEW w \in Worker, NEW p \in Payment, StartRecord(w, p)
  PROVE  GoodStep
<1> DEFINE x == [job[w] EXCEPT !.at = "reference", !.pay = p]
<1>1. job[w] \in Job /\ job[w].op = "start" /\ job[w].at = "sweep"
  BY DEF Inductive, TablesOK, StartRecord, At
<1>2. x \in Job /\ x.at = "reference" /\ x.op = "start" /\ x.pay = p /\ x.inv \in Invoice
  BY <1>1 DEF Job, WorkInv, Inductive
<1>3. job' = [job EXCEPT ![w] = x] /\ job'[w] = x
  BY <1>1 DEF StartRecord, Inductive, TablesOK
<1>4. ~Past(w)'
  BY <1>2, <1>3 DEF Past
<1> HIDE DEF x
<1>5. PICK i \in Invoice, a \in Amount : Ledger!Record(p, i, a)
  <2>1. Ledger!Record(p, job[w].inv, job[w].amount)
    BY DEF StartRecord
  <2>2. job[w].inv \in Invoice /\ job[w].amount \in Amount
    BY <1>1 DEF Job, WorkInv, Inductive
  <2> QED
    BY <2>1, <2>2
<1>6. LedgerMoves /\ Credited /\ payment[p].status = "none" /\ payment'[p].status = "PENDING"
  BY <1>5, RecordMoves
<1>7. online[p].charge = "none" /\ UNCHANGED <<online, event>>
  BY <1>6 DEF Inductive, RowInv, StartRecord
<1>8. WorkInv(w)'
  BY <1>2, <1>3, <1>6, <1>7 DEF WorkInv, Opening
<1>9. /\ online' \in [Payment -> OnlinePayment] /\ event' \subseteq Payment
      /\ \A q \in Payment : payment'[q].status = "none" => online'[q].charge = "none"
  BY <1>6, <1>7 DEF Inductive, TablesOK, RowInv, LedgerMoves
<1>10. ASSUME NEW v \in Worker \ {w}, Opening(v)
       PROVE  online'[job[v].pay].charge = "none" /\ x.pay # job[v].pay
  BY <1>2, <1>6, <1>7, <1>10 DEF Inductive, WorkInv
<1>11. ASSUME NEW v \in Worker \ {w}, Past(v) PROVE job[v].pay \in event'
  BY <1>7, <1>11 DEF Inductive, WorkInv, Past
<1> QED
  BY <1>2, <1>3, <1>4, <1>6, <1>7, <1>8, <1>9, <1>10, <1>11, WorkerStep DEF GoodStep

\* deleteMany where PENDING: the row is removed without a receipt, or nothing happens.
LEMMA DeleteMoves ==
  ASSUME Inductive, NEW p \in Payment, DeletePending(p) PROVE LedgerMoves /\ Credited
BY NothingMoves, RejectMoves DEF DeletePending

\* A verification credits a payment the provider has been seen to collect.
LEMMA ApplyMoves ==
  ASSUME Inductive, NEW w \in Worker, job[w].at = "apply",
         Ledger!Verify(job[w].pay) \/ UNCHANGED ledger
  PROVE  LedgerMoves /\ Credited
<1>1. job[w].pay \in Payment /\ online[job[w].pay].charge = "collected"
  BY DEF Inductive, WorkInv
<1>2. CASE Ledger!Verify(job[w].pay)
  BY <1>1, <1>2, VerifyMoves DEF Credited
<1> QED
  BY <1>2, NothingMoves

\* A worker that starts anew on a request or a delivery.
LEMMA ArriveStep ==
  ASSUME Inductive, NEW w \in Worker, NEW x \in Job, job' = [job EXCEPT ![w] = x],
         UNCHANGED <<invoice, payment, online, event>>,
         \/ x.op = "start" /\ x.at = "sweep" /\ x.inv \in Invoice
         \/ x.op = "refresh" /\ x.at = "read" /\ x.pay \in Payment
         \/ x.op = "webhook" /\ x.at = "claim" /\ x.pay \in Payment
  PROVE  GoodStep
<1>1. job'[w] = x
  BY DEF Inductive, TablesOK
<1>2. ~Opening(w)' /\ ~Past(w)' /\ WorkInv(w)'
  BY <1>1 DEF Opening, Past, WorkInv
<1>3. LedgerMoves /\ Credited
  BY NothingMoves DEF ledger
<1> QED
  BY <1>2, <1>3, PlainStep DEF GoodStep

\* A request or a delivery arrives.
LEMMA Arrives == ASSUME Inductive, NEW w \in Worker, Arrive(w) PROVE GoodStep
<1>1. CASE \E i \in Invoice, a \in Amount : StartOnline(w, i, a)
  <2>1. PICK i \in Invoice, a \in Amount : StartOnline(w, i, a)
    BY <1>1
  <2>2. PICK taken \in SUBSET Stale(i) :
          job' = [job EXCEPT ![w] = [Idle EXCEPT !.at = "sweep", !.op = "start",
                                       !.inv = i, !.amount = a, !.left = taken]]
    BY <2>1 DEF StartOnline
  <2>3. taken \in SUBSET Payment
    BY <2>2 DEF Stale, Of
  <2> DEFINE x == [Idle EXCEPT !.at = "sweep", !.op = "start",
                                !.inv = i, !.amount = a, !.left = taken]
  <2>4. x \in Job /\ x.op = "start" /\ x.at = "sweep" /\ x.inv \in Invoice
    BY <2>3, IdleType DEF Idle, Job
  <2>5. UNCHANGED <<invoice, payment, online, event>>
    BY <2>1 DEF StartOnline
  <2> HIDE DEF x
  <2> QED
    BY <2>2, <2>4, <2>5, ArriveStep DEF x
<1>2. ASSUME NEW p \in Payment, StartRefresh(w, p) PROVE GoodStep
  <2> DEFINE x == [Idle EXCEPT !.at = "read", !.op = "refresh", !.pay = p]
  <2>1. x \in Job /\ x.op = "refresh" /\ x.at = "read" /\ x.pay = p
    BY IdleType DEF Idle, Job
  <2>2. job' = [job EXCEPT ![w] = x] /\ UNCHANGED <<invoice, payment, online, event>>
    BY <1>2 DEF StartRefresh
  <2> HIDE DEF x
  <2> QED
    BY <2>1, <2>2, ArriveStep
<1>3. ASSUME NEW p \in Payment, Deliver(w, p) PROVE GoodStep
  <2> DEFINE x == [Idle EXCEPT !.at = "claim", !.op = "webhook", !.pay = p]
  <2>1. x \in Job /\ x.op = "webhook" /\ x.at = "claim" /\ x.pay = p
    BY IdleType DEF Idle, Job
  <2>2. job' = [job EXCEPT ![w] = x] /\ UNCHANGED <<invoice, payment, online, event>>
    BY <1>3 DEF Deliver
  <2> HIDE DEF x
  <2> QED
    BY <2>1, <2>2, ArriveStep
<1> QED
  BY <1>1, <1>2, <1>3 DEF Arrive

\* The sweep asks for one candidate, or gives it up.
LEMMA SweepSteps ==
  ASSUME Inductive, NEW w \in Worker, NEW p \in Payment,
         SweepUnreachable(w, p) \/ SweepCheck(w, p)
  PROVE  GoodStep
<1>1. /\ UNCHANGED ledger /\ UNCHANGED <<online, event>>
      /\ job[w].op = "start" /\ job[w].at = "sweep"
  BY DEF SweepUnreachable, SweepCheck, ledger, At
<1>2. LedgerMoves /\ Credited
  BY <1>1, NothingMoves
<1>3. CASE SweepUnreachable(w, p)
  BY <1>1, <1>2, <1>3, SweptStep DEF SweepUnreachable, GoodStep
<1>4. CASE SweepCheck(w, p)
  <2> DEFINE at == IF online[p].charge \in Success THEN "read" ELSE "delete"
             x  == [job[w] EXCEPT !.pay = p, !.at = at]
  <2>1. job[w] \in Job /\ job \in [Worker -> Job] /\ job[w].inv \in Invoice
    BY <1>1 DEF Inductive, TablesOK, WorkInv
  <2>2. at \in {"read", "delete"}
    OBVIOUS
  <2>3. job' = [job EXCEPT ![w] = x]
    BY <1>4, <2>1 DEF SweepCheck
  <2> HIDE DEF at
  <2>4. x \in Job /\ x.at = at /\ x.op = "start" /\ x.pay = p /\ x.inv \in Invoice
    BY <1>1, <2>1, <2>2 DEF Job
  <2> HIDE DEF x
  <2>5. job'[w] = x
    BY <2>1, <2>3
  <2>6. ~Opening(w)' /\ ~Past(w)' /\ WorkInv(w)'
    BY <2>2, <2>4, <2>5 DEF Opening, Past, WorkInv
  <2> QED
    BY <1>1, <1>2, <2>3, <2>4, <2>6, PlainStep DEF GoodStep
<1> QED
  BY <1>3, <1>4

\* The reference is stored; the charge is still not there.
LEMMA StartReferenceStep ==
  ASSUME Inductive, NEW w \in Worker, StartReference(w) PROVE GoodStep
<1> DEFINE x == [job[w] EXCEPT !.at = "initialize"]
           p == job[w].pay
<1>1. /\ job[w] \in Job /\ job \in [Worker -> Job] /\ job[w].inv \in Invoice
      /\ job[w].op = "start" /\ job[w].at = "reference" /\ p \in Payment
      /\ online[p].charge = "none" /\ payment[p].status # "none"
  BY DEF Inductive, TablesOK, WorkInv, StartReference, At, Opening
<1>2. x \in Job /\ x.at = "initialize" /\ x.op = "start" /\ x.pay = p /\ x.inv \in Invoice
  BY <1>1 DEF Job
<1>3. job' = [job EXCEPT ![w] = x] /\ job'[w] = x
  BY <1>1 DEF StartReference, Goto
<1> HIDE DEF x
<1>4. /\ online' \in [Payment -> OnlinePayment]
      /\ \A q \in Payment : online'[q].charge = online[q].charge
  <2>1. online \in [Payment -> OnlinePayment]
    BY DEF Inductive, TablesOK
  <2>2. online' = [online EXCEPT ![p] = [online[p] EXCEPT !.ref = TRUE]]
    BY <1>1, <2>1 DEF StartReference
  <2>3. /\ [online[p] EXCEPT !.ref = TRUE] \in OnlinePayment
        /\ [online[p] EXCEPT !.ref = TRUE].charge = online[p].charge
    BY <1>1, <2>1 DEF OnlinePayment
  <2> QED
    BY <2>1, <2>2, <2>3
<1>5. UNCHANGED <<invoice, payment, event>> /\ LedgerMoves /\ Credited
  BY NothingMoves DEF StartReference, ledger
<1>6. Opening(w) /\ Opening(w)' /\ ~Past(w)' /\ WorkInv(w)'
  BY <1>1, <1>2, <1>3, <1>4, <1>5 DEF Opening, Past, WorkInv
<1>7. /\ event' \subseteq Payment
      /\ \A q \in Payment : payment'[q].status = "none" => online'[q].charge = "none"
  BY <1>4, <1>5 DEF Inductive, TablesOK, RowInv
<1>8. ASSUME NEW v \in Worker \ {w}, Opening(v)
      PROVE  online'[job[v].pay].charge = "none" /\ x.pay # job[v].pay
  <2>1. job[v].pay \in Payment /\ online[job[v].pay].charge = "none" /\ p # job[v].pay
    BY <1>6, <1>8 DEF Inductive, WorkInv, OpeningInv, Opening
  <2> QED
    BY <1>2, <1>4, <2>1
<1>9. ASSUME NEW v \in Worker \ {w}, Past(v) PROVE job[v].pay \in event'
  BY <1>5, <1>9 DEF Inductive, WorkInv, Past
<1> QED
  BY <1>2, <1>3, <1>4, <1>5, <1>6, <1>7, <1>8, <1>9, WorkerStep DEF GoodStep

\* The provider opens the charge of a payment no other worker is opening.
LEMMA StartInitializeStep ==
  ASSUME Inductive, NEW w \in Worker, StartInitialize(w) PROVE GoodStep
<1> DEFINE p == job[w].pay
<1>1. /\ job \in [Worker -> Job] /\ p \in Payment /\ Opening(w)
      /\ online[p].charge = "none" /\ payment[p].status # "none"
  BY DEF Inductive, TablesOK, WorkInv, StartInitialize, At, Opening
<1>2. job' = [job EXCEPT ![w] = Idle] /\ job'[w] = Idle
  BY <1>1 DEF StartInitialize, Done
<1>3. /\ online' \in [Payment -> OnlinePayment]
      /\ \A q \in Payment \ {p} : online'[q] = online[q]
  <2>1. online \in [Payment -> OnlinePayment]
    BY DEF Inductive, TablesOK
  <2>2. online' = [online EXCEPT ![p] = [online[p] EXCEPT !.charge = "open"]]
    BY <1>1, <2>1 DEF StartInitialize
  <2>3. [online[p] EXCEPT !.charge = "open"] \in OnlinePayment
    BY <1>1, <2>1 DEF OnlinePayment, Charge
  <2> QED
    BY <2>1, <2>2, <2>3
<1>4. UNCHANGED <<invoice, payment, event>> /\ LedgerMoves /\ Credited
  BY NothingMoves DEF StartInitialize, ledger
<1>5. ~Opening(w)' /\ ~Past(w)' /\ WorkInv(w)'
  BY <1>2 DEF Opening, Past, WorkInv, Idle
<1>6. /\ event' \subseteq Payment
      /\ \A q \in Payment : payment'[q].status = "none" => online'[q].charge = "none"
      /\ \A q \in Payment : online[q].charge = "collected" => online'[q].charge = "collected"
  BY <1>1, <1>3, <1>4 DEF Inductive, TablesOK, RowInv
<1>7. ASSUME NEW v \in Worker \ {w}, Opening(v)
      PROVE  online'[job[v].pay].charge = "none"
  <2>1. job[v].pay \in Payment /\ online[job[v].pay].charge = "none" /\ p # job[v].pay
    BY <1>1, <1>7 DEF Inductive, WorkInv, OpeningInv, Opening
  <2> QED
    BY <1>3, <2>1
<1>8. ASSUME NEW v \in Worker \ {w}, Past(v) PROVE job[v].pay \in event'
  BY <1>4, <1>8 DEF Inductive, WorkInv, Past
<1> QED
  BY <1>2, <1>3, <1>4, <1>5, <1>6, <1>7, <1>8, IdleType, WorkerStep DEF GoodStep

\* Every step of start and of its sweep.
LEMMA Starts == ASSUME Inductive, NEW w \in Worker, Starting(w) PROVE GoodStep
<1>1. ASSUME NEW p \in Payment,
             SweepUnreachable(w, p) \/ SweepCheck(w, p) \/ StartRecord(w, p)
      PROVE  GoodStep
  BY <1>1, SweepSteps, StartRecordStep
<1>2. CASE SweepDelete(w)
  <2>1. LedgerMoves /\ Credited /\ UNCHANGED <<online, event>>
    <3>1. job[w].pay \in Payment
      BY <1>2 DEF SweepDelete, At, Inductive, WorkInv
    <3> QED
      BY <1>2, <3>1, DeleteMoves DEF SweepDelete
  <2> QED
    BY <1>2, <2>1, SweptStep DEF SweepDelete, At, GoodStep
<1>3. CASE StartReference(w)
  BY <1>3, StartReferenceStep
<1>4. CASE StartInitialize(w)
  BY <1>4, StartInitializeStep
<1>5. CASE StartRefused(w)
  <2>1. /\ Goto(w, "discard") /\ UNCHANGED <<online, event>> /\ UNCHANGED ledger
        /\ job[w].pay \in Payment /\ job[w].op = "start"
    BY <1>5 DEF StartRefused, At, Inductive, WorkInv, ledger
  <2> QED
    BY <2>1, NothingMoves, GotoStep DEF GoodStep
<1>6. CASE StartDiscard(w)
  <2>1. job[w].pay \in Payment /\ DeletePending(job[w].pay)
    BY <1>6 DEF StartDiscard, At, Inductive, WorkInv
  <2> QED
    BY <1>6, <2>1, DeleteMoves, DoneStep DEF StartDiscard, GoodStep
<1> QED
  BY <1>1, <1>2, <1>3, <1>4, <1>5, <1>6 DEF Starting

-----------------------------------------------------------------------------
(* The steps of refresh and of the webhook, and everybody else. *)

\* Every step of refresh.
LEMMA Refreshes == ASSUME Inductive, NEW w \in Worker, Refreshing(w) PROVE GoodStep
<1>1. CASE RefreshRead(w)
  <2>1. /\ job[w].pay \in Payment /\ payment[job[w].pay].status \in PaymentStatus
        /\ job[w].op = "webhook" => Past(w)
        /\ UNCHANGED ledger /\ UNCHANGED <<online, event>>
    BY <1>1 DEF RefreshRead, Inductive, WorkInv, TablesOK, PaymentRow, Past, ledger
  <2>2. LedgerMoves /\ Credited
    BY <2>1, NothingMoves
  <2> QED
    BY <1>1, <2>1, <2>2, GotoStep, ReturnStep DEF RefreshRead, GoodStep
<1>2. CASE RefreshAsk(w)
  <2>1. /\ job[w].pay \in Payment /\ "PENDING" \in PaymentStatus
        /\ job[w].op = "webhook" => Past(w)
        /\ UNCHANGED ledger /\ UNCHANGED <<online, event>>
    BY <1>2 DEF RefreshAsk, Inductive, WorkInv, PaymentStatus, Past, ledger
  <2>2. LedgerMoves /\ Credited
    BY <2>1, NothingMoves
  <2> QED
    BY <1>2, <2>1, <2>2, ApplyStep, ReturnStep DEF RefreshAsk, GoodStep
<1>3. CASE RefreshApply(w)
  <2>1. /\ job[w].pay \in Payment /\ job[w].op # "webhook" /\ "VERIFIED" \in PaymentStatus
    BY <1>3 DEF RefreshApply, Inductive, WorkInv, PaymentStatus
  <2>2. LedgerMoves /\ Credited
    BY <1>3, ApplyMoves DEF RefreshApply, Conflict
  <2> QED
    BY <1>3, <2>1, <2>2, ReturnStep DEF RefreshApply, GoodStep
<1>4. CASE RefreshAnswer(w)
  BY <1>4, NothingMoves, DoneStep DEF RefreshAnswer, ledger, GoodStep
<1> QED
  BY <1>1, <1>2, <1>3, <1>4 DEF Refreshing

\* The delivery that inserts the event is alone past its claim.
LEMMA ClaimStep == ASSUME Inductive, NEW w \in Worker, Claim(w) PROVE GoodStep
<1> DEFINE p == job[w].pay
           x == [job[w] EXCEPT !.at = "find"]
<1>1. /\ job[w] \in Job /\ job \in [Worker -> Job] /\ p \in Payment
      /\ job[w].op = "webhook" /\ UNCHANGED <<invoice, payment, online>>
      /\ LedgerMoves /\ Credited
  BY NothingMoves DEF Claim, At, Inductive, TablesOK, WorkInv, ledger
<1>2. CASE p \in event
  BY <1>1, <1>2, DoneStep DEF Claim, Acknowledge, GoodStep
<1>3. CASE p \notin event
  <2>1. event' = event \cup {p} /\ job' = [job EXCEPT ![w] = x] /\ job'[w] = x
    BY <1>1, <1>3 DEF Claim, Goto
  <2>2. x \in Job /\ x.at = "find" /\ x.op = "webhook" /\ x.pay = p
    BY <1>1 DEF Job
  <2> HIDE DEF x
  <2>3. ~Opening(w)' /\ WorkInv(w)'
    BY <1>1, <2>1, <2>2 DEF Opening, WorkInv
  <2>4. /\ online' \in [Payment -> OnlinePayment] /\ event' \subseteq Payment
        /\ \A q \in Payment : payment'[q].status = "none" => online'[q].charge = "none"
    BY <1>1, <2>1 DEF Inductive, TablesOK, RowInv
  <2>5. ASSUME NEW v \in Worker \ {w}, Opening(v)
        PROVE  online'[job[v].pay].charge = "none"
    BY <1>1, <2>5 DEF Inductive, WorkInv
  <2>6. ASSUME NEW v \in Worker \ {w}, Past(v)
        PROVE  job[v].pay \in event' /\ x.pay # job[v].pay
    BY <1>3, <2>1, <2>2, <2>6 DEF Inductive, WorkInv, Past
  <2> QED
    BY <1>1, <2>1, <2>2, <2>3, <2>4, <2>5, <2>6, WorkerStep DEF GoodStep
<1> QED
  BY <1>2, <1>3

\* The claim is released by the only delivery that holds it.
LEMMA ReleaseStep == ASSUME Inductive, NEW w \in Worker, Release(w) PROVE GoodStep
<1> DEFINE p == job[w].pay
<1>1. /\ job \in [Worker -> Job] /\ Past(w) /\ UNCHANGED <<invoice, payment, online>>
      /\ event' = event \ {p} /\ LedgerMoves /\ Credited
  BY NothingMoves DEF Release, At, Past, Inductive, TablesOK, ledger
<1>2. job' = [job EXCEPT ![w] = Idle] /\ job'[w] = Idle
  BY <1>1 DEF Release, Done
<1>3. ~Opening(w)' /\ ~Past(w)' /\ WorkInv(w)'
  BY <1>2 DEF Opening, Past, WorkInv, Idle
<1>4. /\ online' \in [Payment -> OnlinePayment] /\ event' \subseteq Payment
      /\ \A q \in Payment : payment'[q].status = "none" => online'[q].charge = "none"
  BY <1>1 DEF Inductive, TablesOK, RowInv
<1>5. ASSUME NEW v \in Worker \ {w}, Opening(v)
      PROVE  online'[job[v].pay].charge = "none"
  BY <1>1, <1>5 DEF Inductive, WorkInv
<1>6. ASSUME NEW v \in Worker \ {w}, Past(v) PROVE job[v].pay \in event'
  BY <1>1, <1>6 DEF Inductive, WorkInv, ClaimExcludes, Past
<1> QED
  BY <1>1, <1>2, <1>3, <1>4, <1>5, <1>6, IdleType, WorkerStep DEF GoodStep

\* Every step of a delivery.
LEMMA Webhooks == ASSUME Inductive, NEW w \in Worker, Webhook(w) PROVE GoodStep
<1>1. CASE Find(w)
  <2>1. /\ job[w].pay \in Payment /\ Past(w)
        /\ UNCHANGED ledger /\ UNCHANGED <<online, event>>
    BY <1>1 DEF Find, At, Inductive, WorkInv, Past, ledger
  <2>2. LedgerMoves /\ Credited
    BY <2>1, NothingMoves
  <2> QED
    BY <1>1, <2>1, <2>2, ApplyStep, DoneStep DEF Find, Acknowledge, GoodStep
<1>2. CASE WebhookApply(w)
  <2>1. LedgerMoves /\ Credited
    BY <1>2, ApplyMoves DEF WebhookApply, At, Conflict
  <2> QED
    BY <1>2, <2>1, DoneStep DEF WebhookApply, Acknowledge, GoodStep
<1>3. CASE WebhookError(w)
  <2>1. job[w].pay \in Payment /\ Past(w) /\ UNCHANGED <<online, event>>
    BY <1>3 DEF WebhookError, Inductive, WorkInv, Past
  <2>2. LedgerMoves /\ Credited
    BY <1>3, ApplyMoves, NothingMoves DEF WebhookError
  <2> QED
    BY <1>3, <2>1, <2>2, GotoStep DEF WebhookError, GoodStep
<1>4. CASE ReleaseFails(w)
  BY <1>4, NothingMoves, DoneStep DEF ReleaseFails, ledger, GoodStep
<1> QED
  BY <1>1, <1>2, <1>3, <1>4, ClaimStep, ReleaseStep DEF Webhook

\* A request that fails, or a worker that stops.
LEMMA Fails ==
  ASSUME Inductive, NEW w \in Worker, RequestFails(w) \/ Crash(w) PROVE GoodStep
<1>1. CASE RequestFails(w)
  <2>1. LedgerMoves /\ Credited
    BY <1>1, ApplyMoves, NothingMoves DEF RequestFails
  <2> QED
    BY <1>1, <2>1, SweptStep, DoneStep DEF RequestFails, GoodStep
<1>2. CASE Crash(w)
  BY <1>2, NothingMoves, DoneStep DEF Crash, ledger, GoodStep
<1> QED
  BY <1>1, <1>2

\* The payer, the clock and the bursar move no worker and claim nothing.
LEMMA OthersStep ==
  ASSUME Inductive, NEW p \in Payment,
         \/ Age(p) \/ Bursar(p)
         \/ \E charge \in Success : Pay(p, charge)
  PROVE  Inductive' /\ LedgerMoves /\ job' = job
<1>1. job' = job /\ event' = event
  BY DEF Age, Bursar, Pay
<1>2. LedgerMoves
  <2>1. CASE Bursar(p)
    BY <2>1, VerifyMoves, RejectMoves DEF Bursar
  <2>2. CASE Age(p) \/ \E charge \in Success : Pay(p, charge)
    BY <2>2, NothingMoves DEF Age, Pay, ledger
  <2> QED
    BY <2>1, <2>2
<1>3. /\ online' \in [Payment -> OnlinePayment]
      /\ \A q \in Payment : \/ online'[q].charge = online[q].charge
                            \/ online[q].charge = "open"
  <2>1. online \in [Payment -> OnlinePayment]
    BY DEF Inductive, TablesOK
  <2>2. CASE Bursar(p)
    BY <2>1, <2>2 DEF Bursar
  <2>3. CASE Age(p)
    <3>1. online' = [online EXCEPT ![p] = [online[p] EXCEPT !.old = TRUE]]
      BY <2>1, <2>3 DEF Age
    <3>2. /\ [online[p] EXCEPT !.old = TRUE] \in OnlinePayment
          /\ [online[p] EXCEPT !.old = TRUE].charge = online[p].charge
      BY <2>1 DEF OnlinePayment
    <3> QED
      BY <2>1, <3>1, <3>2
  <2>4. CASE \E charge \in Success : Pay(p, charge)
    <3>1. PICK charge \in Success : Pay(p, charge)
      BY <2>4
    <3>2. online' = [online EXCEPT ![p] = [online[p] EXCEPT !.charge = charge]]
      BY <2>1, <3>1 DEF Pay
    <3>3. [online[p] EXCEPT !.charge = charge] \in OnlinePayment
      BY <2>1 DEF OnlinePayment, Charge, Success
    <3> QED
      BY <2>1, <3>1, <3>2, <3>3 DEF Pay
  <2> QED
    BY <2>2, <2>3, <2>4
<1>4. TablesOK' /\ SequenceInv'
  BY <1>1, <1>2, <1>3 DEF Inductive, TablesOK, LedgerMoves
<1>5. RowInv'
  BY <1>2, <1>3 DEF Inductive, RowInv, LedgerMoves
<1>6. OpeningInv' /\ ClaimExcludes'
  BY <1>1 DEF Inductive, OpeningInv, ClaimExcludes, Opening
<1>7. ASSUME NEW w \in Worker PROVE WorkInv(w)'
  <2>1. WorkInv(w) /\ job'[w] = job[w]
    BY <1>1 DEF Inductive
  <2>2. job[w].at = "apply" => job[w].pay \in Payment /\ online'[job[w].pay].charge = "collected"
    BY <1>3, <2>1 DEF WorkInv
  <2>3. Opening(w) => /\ online'[job[w].pay].charge = "none"
                      /\ payment'[job[w].pay].status # "none"
    BY <1>2, <1>3, <2>1 DEF WorkInv, Opening, LedgerMoves
  <2> QED
    BY <1>1, <2>1, <2>2, <2>3 DEF WorkInv, Opening
<1> QED
  BY <1>1, <1>2, <1>4, <1>5, <1>6, <1>7 DEF Inductive

-----------------------------------------------------------------------------
(* Every step. *)

\* Nothing is recorded, opened, claimed or under way at the start.
LEMMA InitInductive == Init => Inductive
<1> SUFFICES ASSUME Init PROVE Inductive
  OBVIOUS
<1>1. Ledger!NoPayment \in PaymentRow /\ Ledger!NoPayment.receipt = None
  BY FeeMathAssumption DEF Ledger!NoPayment, PaymentRow, PaymentStatus, Amount
<1>2. payment = [p \in Payment |-> Ledger!NoPayment]
  BY DEF Init, Ledger!Init
<1>3. TablesOK
  BY <1>1, <1>2, IdleType DEF Init, TablesOK, OnlinePayment, Charge
<1>4. SequenceInv
  <2>1. IssuedSeqs(payment) = {}
    BY <1>1, <1>2 DEF IssuedSeqs, Issued
  <2>2. IssuedSeqs(payment) = 1 .. 0 /\ 0 \in IssuedSeqs(payment) \cup {0}
    BY <2>1
  <2> QED
    BY <2>2 DEF SequenceInv
<1>5. RowInv
  BY <1>1, <1>2 DEF Init, RowInv
<1>6. \A w \in Worker : job[w] = Idle
  BY DEF Init
<1>7. OpeningInv /\ ClaimExcludes /\ \A w \in Worker : WorkInv(w)
  BY <1>6 DEF OpeningInv, ClaimExcludes, WorkInv, Opening, Idle
<1> QED
  BY <1>3, <1>4, <1>5, <1>7 DEF Inductive

\* Every step keeps the invariant, takes no receipt back, and credits only what
\* was collected if it is a worker's.
LEMMA NextInductive ==
  ASSUME Inductive, [Next]_vars
  PROVE  Inductive' /\ LedgerMoves /\ (job' # job => Credited)
<1>1. ASSUME NEW w \in Worker, Arrive(w) \/ Proceed(w) \/ Crash(w) PROVE GoodStep
  BY <1>1, Arrives, Starts, Refreshes, Webhooks, Fails DEF Proceed
<1>2. ASSUME NEW p \in Payment,
             \/ Age(p) \/ Bursar(p)
             \/ \E charge \in Success : Pay(p, charge)
      PROVE  Inductive' /\ LedgerMoves /\ job' = job
  BY <1>2, OthersStep
<1>3. CASE UNCHANGED vars
  <2>1. LedgerMoves
    BY <1>3, NothingMoves DEF vars, ledger
  <2>2. Inductive'
    <3>1. TablesOK' /\ SequenceInv' /\ RowInv'
      BY <1>3 DEF vars, Inductive, TablesOK, SequenceInv, RowInv, IssuedSeqs, Issued
    <3>2. OpeningInv' /\ ClaimExcludes'
      BY <1>3 DEF vars, Inductive, OpeningInv, ClaimExcludes, Opening
    <3>3. \A w \in Worker : WorkInv(w)'
      BY <1>3 DEF vars, Inductive, WorkInv, Opening
    <3> QED
      BY <3>1, <3>2, <3>3 DEF Inductive
  <2> QED
    BY <1>3, <2>1, <2>2 DEF vars
<1> QED
  BY <1>1, <1>2, <1>3 DEF Next, GoodStep

-----------------------------------------------------------------------------
(* The balances of the ledger, under online payments. *)

\* Whatever a worker or the bursar does to the ledger is an operation of it.
LEMMA LedgerSteps ==
  ASSUME Inductive, [Next]_vars
  PROVE  Ledger!Next \/ UNCHANGED ledger
<1>1. ASSUME NEW w \in Worker, Arrive(w) \/ Crash(w) PROVE UNCHANGED ledger
  BY <1>1 DEF Arrive, StartOnline, StartRefresh, Deliver, Crash, ledger
<1>2. ASSUME NEW w \in Worker, Starting(w) PROVE Ledger!Next \/ UNCHANGED ledger
  <2>1. CASE \E p \in Payment : StartRecord(w, p)
    <3>1. PICK p \in Payment : Ledger!Record(p, job[w].inv, job[w].amount)
      BY <2>1 DEF StartRecord
    <3>2. job[w].inv \in Invoice /\ job[w].amount \in Ledger!Amount
      BY <2>1 DEF StartRecord, At, Inductive, TablesOK, Job, WorkInv, Amount, Ledger!Amount
    <3> QED
      BY <3>1, <3>2 DEF Ledger!Next
  <2>2. CASE SweepDelete(w) \/ StartDiscard(w)
    <3>1. job[w].pay \in Payment
      BY <2>2 DEF SweepDelete, StartDiscard, At, Inductive, WorkInv
    <3> QED
      BY <2>2, <3>1 DEF SweepDelete, StartDiscard, DeletePending, Ledger!Next
  <2>3. CASE \/ \E p \in Payment : SweepUnreachable(w, p) \/ SweepCheck(w, p)
             \/ StartReference(w) \/ StartInitialize(w) \/ StartRefused(w)
    BY <2>3 DEF SweepUnreachable, SweepCheck, StartReference, StartInitialize,
                StartRefused, ledger
  <2> QED
    BY <1>2, <2>1, <2>2, <2>3 DEF Starting
<1>3. ASSUME NEW w \in Worker, Refreshing(w) \/ Webhook(w) \/ RequestFails(w)
      PROVE  Ledger!Next \/ UNCHANGED ledger
  <2>1. job[w].at = "apply" => job[w].pay \in Payment
    BY DEF Inductive, WorkInv
  <2>2. CASE Refreshing(w)
    BY <2>1, <2>2 DEF Refreshing, RefreshRead, RefreshAsk, RefreshApply, RefreshAnswer,
                      Conflict, Ledger!Next, ledger
  <2>3. CASE Webhook(w)
    BY <2>1, <2>3 DEF Webhook, Claim, Find, WebhookApply, WebhookError, Release, ReleaseFails,
                      At, Conflict, Ledger!Next, ledger
  <2>4. CASE RequestFails(w)
    BY <2>1, <2>4 DEF RequestFails, Ledger!Next
  <2> QED
    BY <1>3, <2>2, <2>3, <2>4
<1>4. ASSUME NEW p \in Payment,
             \/ Age(p) \/ Bursar(p)
             \/ \E charge \in Success : Pay(p, charge)
      PROVE  Ledger!Next \/ UNCHANGED ledger
  BY <1>4 DEF Age, Bursar, Pay, Ledger!Next, ledger
<1> QED
  BY <1>1, <1>2, <1>3, <1>4 DEF Next, Proceed, vars, ledger

\* What one payment adds to the balance of an invoice, before and after it changes.
LEMMA OnePaymentCounts ==
  ASSUME NEW rows \in [Payment -> PaymentRow], NEW after \in [Payment -> PaymentRow],
         NEW p \in Payment, \A q \in Payment \ {p} : after[q] = rows[q], NEW i
  PROVE  \E n \in Nat :
           /\ Verified(rows, i) =
                IF rows[p].status = "VERIFIED" /\ rows[p].invoice = i
                THEN n + rows[p].amount ELSE n
           /\ Verified(after, i) =
                IF after[p].status = "VERIFIED" /\ after[p].invoice = i
                THEN n + after[p].amount ELSE n
<1> DEFINE Rest == Of(rows, i, {"VERIFIED"}) \ {p}
<1>1. Rest \in SUBSET Payment /\ p \in Payment \ Rest
  BY DEF Of
<1>2. ASSUME NEW table \in [Payment -> PaymentRow],
             \A q \in Payment \ {p} : table[q] = rows[q]
      PROVE  /\ Sum(table, Rest) = Sum(rows, Rest)
             /\ Verified(table, i) =
                  IF table[p].status = "VERIFIED" /\ table[p].invoice = i
                  THEN Sum(rows, Rest) + table[p].amount ELSE Sum(rows, Rest)
  <2>1. Of(table, i, {"VERIFIED"}) =
          IF table[p].status = "VERIFIED" /\ table[p].invoice = i
          THEN Rest \cup {p} ELSE Rest
    BY <1>2 DEF Of
  <2>2. table[p].amount \in Amount
    BY DEF PaymentRow
  <2>3. \A q \in Rest : table[q].amount = rows[q].amount
    BY <1>1, <1>2
  <2> HIDE DEF Rest
  <2>4. Sum(table, Rest) = Sum(rows, Rest)
    BY <1>1, <2>3, SumSame
  <2>5. Sum(table, Rest \cup {p}) = Sum(rows, Rest) + table[p].amount
    BY <1>1, <2>2, <2>4, SumAdd
  <2> QED
    BY <2>1, <2>4, <2>5 DEF Verified
<1>3. Sum(rows, Rest) \in Nat
  BY <1>1, SumType
<1> HIDE DEF Rest
<1> QED
  BY <1>2, <1>3

\* A balance that is moved and does not fall below nothing is one of an invoice.
LEMMA MoveType ==
  ASSUME invoice \in [Invoice -> InvoiceRow], NEW i \in Invoice, NEW by \in Int,
         invoice[i].paid + by \in Nat, Ledger!Move(i, by)
  PROVE  /\ invoice' \in [Invoice -> InvoiceRow]
         /\ invoice'[i].paid = invoice[i].paid + by
         /\ \A j \in Invoice \ {i} : invoice'[j] = invoice[j]
<1> DEFINE moved == [invoice[i] EXCEPT !.paid = @ + by]
           row   == [moved EXCEPT !.status = Ledger!DeriveStatus(moved, moved.status)]
<1>1. invoice' = [invoice EXCEPT ![i] = row]
  BY Zenon DEF Ledger!Move
<1>2. moved \in InvoiceRow /\ moved.paid = invoice[i].paid + by
  BY DEF InvoiceRow
<1>3. Ledger!DeriveStatus(moved, moved.status) \in InvoiceStatus
  <2> HIDE DEF moved
  <2> QED
    BY <1>2 DEF Ledger!DeriveStatus, Ledger!DerivedStatus, Ledger!DecidedStatus,
                InvoiceRow, InvoiceStatus, DecidedStatus
<1>4. row \in InvoiceRow /\ row.paid = invoice[i].paid + by
  <2> HIDE DEF moved
  <2> QED
    BY <1>2, <1>3 DEF InvoiceRow
<1> HIDE DEF row
<1> QED
  BY <1>1, <1>4

\* Every operation of the ledger keeps the balances.
LEMMA BalancesKept ==
  ASSUME Inductive, BalanceInv, Ledger!Next \/ UNCHANGED ledger, LedgerMoves
  PROVE  BalanceInv'
<1>1. /\ payment \in [Payment -> PaymentRow] /\ payment' \in [Payment -> PaymentRow]
      /\ invoice \in [Invoice -> InvoiceRow]
      /\ \A i \in Invoice : invoice[i].paid = Verified(payment, i) /\ invoice[i].paid \in Nat
  BY DEF Inductive, TablesOK, BalanceInv, LedgerMoves, InvoiceRow
<1>2. CASE UNCHANGED ledger
  BY <1>2 DEF BalanceInv, ledger
<1>3. ASSUME NEW p \in Payment,
             \/ \E i \in Invoice, a \in Amount : Ledger!Record(p, i, a)
             \/ Ledger!RejectPending(p) \/ Ledger!Discard(p)
      PROVE  BalanceInv'
  <2>1. /\ invoice' = invoice /\ \A q \in Payment \ {p} : payment'[q] = payment[q]
        /\ payment[p].status # "VERIFIED" /\ payment'[p].status # "VERIFIED"
        /\ payment'[p].status = "PENDING" => payment'[p].invoice \in Invoice
    <3>1. Ledger!NoPayment.status = "none" /\ Ledger!DeletedPayment.status = "deleted"
      BY DEF Ledger!NoPayment, Ledger!DeletedPayment
    <3> QED
      BY <1>1, <1>3, <3>1 DEF Ledger!Record, Ledger!RejectPending, Ledger!Discard,
                              PaymentRow, Ledger!NoPayment
  <2>2. \A i \in Invoice : Verified(payment', i) = Verified(payment, i)
    BY <1>1, <2>1, OnePaymentCounts
  <2> QED
    BY <1>1, <2>1, <2>2 DEF BalanceInv
<1>4. ASSUME NEW p \in Payment, Ledger!Verify(p) \/ Ledger!Reverse(p)
      PROVE  BalanceInv'
  <2> DEFINE i == payment[p].invoice
             a == payment[p].amount
             by == IF payment[p].status = "PENDING" THEN a ELSE -a
  <2>1. /\ payment[p].status \in {"PENDING", "VERIFIED"} /\ Ledger!Move(i, by)
        /\ payment'[p].status = IF payment[p].status = "PENDING" THEN "VERIFIED" ELSE "REJECTED"
        /\ payment'[p].invoice = i /\ payment'[p].amount = a
        /\ \A q \in Payment \ {p} : payment'[q] = payment[q]
    BY <1>1, <1>4 DEF Ledger!Verify, Ledger!Reverse, PaymentRow
  <2>2. i \in Invoice /\ a \in Nat
    BY <1>1, <2>1, FeeMathAssumption DEF BalanceInv, PaymentRow, Amount
  <2> HIDE DEF i, a
  <2>3. Verified(payment', i) = invoice[i].paid + by /\ Verified(payment', i) \in Nat
    <3>1. PICK n \in Nat :
            /\ Verified(payment, i) =
                 IF payment[p].status = "VERIFIED" /\ payment[p].invoice = i
                 THEN n + payment[p].amount ELSE n
            /\ Verified(payment', i) =
                 IF payment'[p].status = "VERIFIED" /\ payment'[p].invoice = i
                 THEN n + payment'[p].amount ELSE n
      BY <1>1, <2>1, OnePaymentCounts
    <3> QED
      BY <1>1, <2>1, <2>2, <3>1 DEF i, a
  <2>4. \A j \in Invoice \ {i} : Verified(payment', j) = Verified(payment, j)
    BY <1>1, <2>1, OnePaymentCounts DEF i
  <2>5. by \in Int
    BY <2>2
  <2> HIDE DEF by
  <2>6. /\ invoice' \in [Invoice -> InvoiceRow] /\ invoice'[i].paid = Verified(payment', i)
        /\ \A j \in Invoice \ {i} : invoice'[j] = invoice[j]
    BY <1>1, <2>1, <2>2, <2>3, <2>5, MoveType
  <2>7. \A q \in Payment : payment'[q].status \in {"PENDING", "VERIFIED"}
                             => payment'[q].invoice \in Invoice
    BY <2>1, <2>2 DEF BalanceInv, i
  <2> QED
    BY <1>1, <2>4, <2>6, <2>7 DEF BalanceInv
<1>5. ASSUME NEW i \in Invoice,
             \/ \E a \in Amount : Ledger!Discount(i, a)
             \/ Ledger!Waive(i) \/ Ledger!Cancel(i)
      PROVE  BalanceInv'
  <2>1. PICK row \in InvoiceRow : /\ invoice' = [invoice EXCEPT ![i] = row]
                                  /\ row.paid = invoice[i].paid /\ payment' = payment
    <3>1. invoice[i] \in InvoiceRow
      BY <1>1
    <3>2. CASE Ledger!Waive(i) \/ Ledger!Cancel(i)
      <4>1. PICK status \in InvoiceStatus : /\ invoice' = [invoice EXCEPT ![i].status = status]
                                            /\ payment' = payment
        BY <3>2 DEF Ledger!Waive, Ledger!Cancel, InvoiceStatus, DecidedStatus
      <4>2. /\ [invoice[i] EXCEPT !.status = status] \in InvoiceRow
            /\ [invoice[i] EXCEPT !.status = status].paid = invoice[i].paid
        BY <3>1 DEF InvoiceRow
      <4> QED
        BY <4>1, <4>2
    <3>3. CASE \E a \in Amount : Ledger!Discount(i, a)
      <4>1. PICK a \in Amount : Ledger!Discount(i, a)
        BY <3>3
      <4> DEFINE cut == [invoice[i] EXCEPT !.discount = a]
                 new == [cut EXCEPT !.status = Ledger!DerivedStatus(cut)]
      <4>2. cut \in InvoiceRow /\ cut.paid = invoice[i].paid
        BY <3>1 DEF InvoiceRow
      <4>3. Ledger!DerivedStatus(cut) \in InvoiceStatus
        BY DEF Ledger!DerivedStatus, InvoiceStatus
      <4>4. new \in InvoiceRow /\ new.paid = invoice[i].paid
        <5> HIDE DEF cut
        <5> QED
          BY <4>2, <4>3 DEF InvoiceRow
      <4>5. invoice' = [invoice EXCEPT ![i] = new] /\ payment' = payment
        BY <4>1 DEF Ledger!Discount
      <4> HIDE DEF new
      <4> QED
        BY <4>4, <4>5
    <3> QED
      BY <1>5, <3>2, <3>3
  <2> QED
    BY <1>1, <2>1 DEF BalanceInv
<1>6. Ledger!Amount = Amount
  BY DEF Ledger!Amount, Amount
<1> QED
  BY <1>2, <1>3, <1>4, <1>5, <1>6 DEF Ledger!Next

-----------------------------------------------------------------------------
(* Claims and acknowledgements. *)

\* Nothing a charge has become is taken back once it succeeded.
LEMMA SuccessStays ==
  ASSUME Inductive, [Next]_vars, NEW p \in Payment, online[p].charge \in Success
  PROVE  online'[p].charge = online[p].charge
<1>1. online \in [Payment -> OnlinePayment]
  BY DEF Inductive, TablesOK
<1>2. ASSUME NEW w \in Worker, StartReference(w) \/ StartInitialize(w)
      PROVE  online'[p].charge = online[p].charge
  <2>1. online[job[w].pay].charge = "none"
    BY <1>2 DEF StartReference, StartInitialize, At, Inductive, WorkInv, Opening
  <2>2. job[w].pay # p
    BY <2>1 DEF Success
  <2> QED
    BY <1>1, <1>2, <2>2 DEF StartReference, StartInitialize
<1>3. ASSUME NEW q \in Payment, Age(q) \/ \E charge \in Success : Pay(q, charge)
      PROVE  online'[p].charge = online[p].charge
  <2>1. CASE Age(q)
    BY <1>1, <2>1 DEF Age, OnlinePayment
  <2>2. CASE \E charge \in Success : Pay(q, charge)
    BY <1>1, <2>2 DEF Pay, Success
  <2> QED
    BY <1>3, <2>1, <2>2
<1>4. ASSUME NEW w \in Worker, Arrive(w) \/ Crash(w) \/ Refreshing(w) \/ RequestFails(w)
      PROVE  online' = online
  BY <1>4 DEF Arrive, StartOnline, StartRefresh, Deliver, Crash, Refreshing, RefreshRead,
              RefreshAsk, RefreshApply, RefreshAnswer, RequestFails
<1>5. ASSUME NEW w \in Worker, Webhook(w) PROVE online' = online
  BY <1>5 DEF Webhook, Claim, Find, WebhookApply, WebhookError, Release, ReleaseFails
<1>6. ASSUME NEW w \in Worker, Starting(w), ~StartReference(w), ~StartInitialize(w)
      PROVE  online' = online
  BY <1>6 DEF Starting, SweepUnreachable, SweepCheck, StartRecord, SweepDelete,
              StartRefused, StartDiscard
<1> QED
  BY <1>2, <1>3, <1>4, <1>5, <1>6 DEF Next, Proceed, Bursar, vars

\* What needs no retry will not need one.
LEMMA DealtWithStays ==
  ASSUME Inductive, [Next]_vars, NEW p \in Payment, online[p].charge \in Success,
         DealtWith(p)
  PROVE  DealtWith(p)'
<1>1. payment[p].status # "none"
  BY DEF Inductive, RowInv, Success
<1>2. payment'[p].status = "PENDING" => payment[p].status = "PENDING"
  BY <1>1, NextInductive DEF LedgerMoves
<1> QED
  BY <1>2, SuccessStays DEF DealtWith

\* The statements of a worker that is on no delivery, or gives one up unclaimed.
Elsewhere(w) ==
  \/ Starting(w) \/ Refreshing(w) \/ RequestFails(w)
  \/ \E i \in Invoice, a \in Amount : StartOnline(w, i, a)
  \/ \E p \in Payment : StartRefresh(w, p)

\* They claim and acknowledge nothing, and are no step of a delivery.
LEMMA ElsewhereStep ==
  ASSUME Inductive, DeliveryInv, NEW w \in Worker, Elsewhere(w)
  PROVE  /\ UNCHANGED <<event, acked>>
         /\ job'[w].op # "webhook" /\ ~Past(w)
         /\ \A v \in Worker \ {w} : job'[v] = job[v]
<1>1. job \in [Worker -> Job] /\ Idle.op = "none"
  BY DEF Inductive, TablesOK, Idle
<1>2. CASE Starting(w)
  <2>1. job[w].op = "start"
    BY <1>2 DEF Starting, SweepUnreachable, SweepCheck, StartRecord, SweepDelete,
                StartReference, StartInitialize, StartRefused, StartDiscard, At
  <2>2. UNCHANGED <<event, acked>>
    BY <1>2 DEF Starting, SweepUnreachable, SweepCheck, StartRecord, SweepDelete,
                StartReference, StartInitialize, StartRefused, StartDiscard
  <2>3. CASE \E p \in Payment : SweepCheck(w, p) \/ StartRecord(w, p)
    BY <1>1, <2>1, <2>2, <2>3 DEF SweepCheck, StartRecord, Past, Job
  <2>4. CASE \E p : Swept(w, p)
    <3>1. PICK p : Swept(w, p)
      BY <2>4
    <3> DEFINE x == [job[w] EXCEPT !.at = "sweep", !.left = @ \ {p}, !.pay = None]
    <3>2. x.op = "start"
      BY <1>1, <2>1 DEF Job
    <3>3. job' = [job EXCEPT ![w] = x]
      BY <1>1, <3>1 DEF Swept
    <3> HIDE DEF x
    <3> QED
      BY <1>1, <2>1, <2>2, <3>2, <3>3 DEF Past
  <2>5. CASE StartReference(w) \/ StartRefused(w)
    BY <1>1, <2>1, <2>2, <2>5 DEF StartReference, StartRefused, Goto, Past, Job
  <2>6. CASE StartInitialize(w) \/ StartDiscard(w)
    BY <1>1, <2>1, <2>2, <2>6 DEF StartInitialize, StartDiscard, Done, Past
  <2> QED
    BY <1>2, <2>3, <2>4, <2>5, <2>6 DEF Starting, SweepUnreachable, SweepDelete
<1>3. CASE Refreshing(w)
  <2>1. job[w].op # "webhook"
    BY <1>3 DEF Refreshing, RefreshRead, RefreshAsk, RefreshApply, RefreshAnswer, At,
                DeliveryInv
  <2> QED
    BY <1>1, <1>3, <2>1 DEF Refreshing, RefreshRead, RefreshAsk, RefreshApply, RefreshAnswer,
       Swept, Return, Goto, Done, Past, Job
<1>4. CASE RequestFails(w)
  <2>1. job[w].op \in {"start", "refresh"} \/ (job[w].op = "webhook" /\ job[w].at = "claim")
    BY <1>4 DEF RequestFails, At
  <2>2. \/ job[w].op = "start" /\ Swept(w, job[w].pay)
        \/ Done(w)
    BY <1>4 DEF RequestFails
  <2>3. UNCHANGED <<event, acked>>
    BY <1>4 DEF RequestFails
  <2> QED
    BY <1>1, <2>1, <2>2, <2>3 DEF Swept, Done, Past, Job
<1>5. CASE \E i \in Invoice, a \in Amount : StartOnline(w, i, a)
  <2>1. job[w].op # "webhook"
    BY <1>5 DEF StartOnline, DeliveryInv
  <2>2. PICK i \in Invoice, a \in Amount : StartOnline(w, i, a)
    BY <1>5
  <2>3. PICK taken \in SUBSET Stale(i) :
          job' = [job EXCEPT ![w] = [Idle EXCEPT !.at = "sweep", !.op = "start",
                                       !.inv = i, !.amount = a, !.left = taken]]
    BY <2>2 DEF StartOnline
  <2> QED
    BY <1>1, <2>1, <2>2, <2>3 DEF StartOnline, Past, Idle
<1>6. CASE \E p \in Payment : StartRefresh(w, p)
  BY <1>1, <1>6 DEF StartRefresh, DeliveryInv, Past, Idle
<1> QED
  BY <1>2, <1>3, <1>4, <1>5, <1>6 DEF Elsewhere

\* A step of the specification: elsewhere, on a delivery, or of nobody's request.
LEMMA StepKinds ==
  ASSUME [Next]_vars
  PROVE  \/ \E w \in Worker : Elsewhere(w)
         \/ \E w \in Worker : Webhook(w)
         \/ \E w \in Worker, p \in Payment : Deliver(w, p)
         \/ \E w \in Worker : Crash(w)
         \/ UNCHANGED <<event, acked, job>>
BY DEF Next, Arrive, Proceed, Elsewhere, Age, Bursar, Pay, vars

\* A statement of a delivery moves nobody else, and leaves the delivery where it
\* was going or ends it; only its insertion claims, and it acknowledges its own.
LEMMA WebhookStep ==
  ASSUME Inductive, DeliveryInv, NEW w \in Worker, Webhook(w)
  PROVE  /\ \A v \in Worker \ {w} : job'[v] = job[v]
         /\ \/ job'[w] = Idle
            \/ /\ job'[w].at \in {"find", "apply", "release"}
               /\ job'[w].op = "webhook" /\ job'[w].pay = job[w].pay
         /\ job[w].op = "webhook" /\ job[w].pay \in Payment
         /\ event' \subseteq event \cup {job[w].pay}
         /\ acked' \subseteq acked \cup {job[w].pay}
<1>1. job \in [Worker -> Job] /\ job[w].op = "webhook" /\ job[w].pay \in Payment
  <2>1. job[w].op = "webhook"
    BY DEF Webhook, Claim, Find, WebhookApply, WebhookError, Release, ReleaseFails, At
  <2> QED
    BY <2>1 DEF Inductive, TablesOK, WorkInv
<1>2. \/ Done(w)
      \/ \E at \in {"find", "apply", "release"} : Goto(w, at)
  BY DEF Webhook, Claim, Find, WebhookApply, WebhookError, Release, ReleaseFails, Acknowledge
<1>3. /\ \A v \in Worker \ {w} : job'[v] = job[v]
      /\ \/ job'[w] = Idle
         \/ /\ job'[w].at \in {"find", "apply", "release"}
            /\ job'[w].op = "webhook" /\ job'[w].pay = job[w].pay
  BY <1>1, <1>2 DEF Done, Goto, Job
<1>4. event' \subseteq event \cup {job[w].pay} /\ acked' \subseteq acked \cup {job[w].pay}
  BY DEF Webhook, Claim, Find, WebhookApply, WebhookError, Release, ReleaseFails, Acknowledge
<1> QED
  BY <1>1, <1>3, <1>4

\* Nothing is delivered, claimed or acknowledged but what the provider collected.
LEMMA DeliveriesSucceed ==
  ASSUME Inductive, DeliveryInv, [Next]_vars
  PROVE  DeliveryInv'
<1>1. \A p \in Payment : online[p].charge \in Success => online'[p].charge \in Success
  BY SuccessStays
<1>2. \A v \in Worker : job[v].op = "webhook" => job[v].pay \in Payment
  BY DEF Inductive, WorkInv
<1>3. event \subseteq Payment /\ job \in [Worker -> Job] /\ Idle.op = "none"
  BY DEF Inductive, TablesOK, Idle
<1>4. ASSUME NEW w \in Worker, Elsewhere(w) PROVE DeliveryInv'
  BY <1>1, <1>2, <1>3, <1>4, ElsewhereStep DEF DeliveryInv
<1>5. ASSUME NEW w \in Worker, Webhook(w) PROVE DeliveryInv'
  <2>1. job[w].pay \in Payment /\ online[job[w].pay].charge \in Success
    BY <1>5, WebhookStep DEF DeliveryInv
  <2> QED
    BY <1>1, <1>2, <1>3, <1>5, <2>1, WebhookStep DEF DeliveryInv
<1>6. ASSUME NEW w \in Worker, NEW p \in Payment, Deliver(w, p) PROVE DeliveryInv'
  <2>1. /\ job'[w].at = "claim" /\ job'[w].op = "webhook" /\ job'[w].pay = p
        /\ online[p].charge \in Success /\ UNCHANGED <<event, acked>>
        /\ \A v \in Worker \ {w} : job'[v] = job[v]
    BY <1>3, <1>6 DEF Deliver, Idle
  <2> QED
    BY <1>1, <1>2, <1>3, <2>1 DEF DeliveryInv
<1>7. ASSUME NEW w \in Worker, Crash(w) PROVE DeliveryInv'
  BY <1>1, <1>2, <1>3, <1>7 DEF DeliveryInv, Crash, Done
<1>8. CASE UNCHANGED <<event, acked, job>>
  BY <1>1, <1>2, <1>3, <1>8 DEF DeliveryInv
<1> QED
  BY <1>4, <1>5, <1>6, <1>7, <1>8, StepKinds

\* A delivery that is answered after its claim has settled what it was about.
LEMMA AnsweredIsDealtWith ==
  ASSUME Inductive, DeliveryInv, ~MayExhaust, NEW w \in Worker, NEW p, p = job[w].pay,
         Find(w) \/ WebhookApply(w), Acknowledge(w)
  PROVE  DealtWith(p)'
<1>1. /\ p \in Payment /\ online[p].charge \in Success /\ online' = online
      /\ payment \in [Payment -> PaymentRow]
  BY DEF Find, WebhookApply, At, Inductive, TablesOK, WorkInv, DeliveryInv
<1>2. CASE Find(w)
  <2>1. job'[w] = Idle /\ job \in [Worker -> Job]
    BY DEF Acknowledge, Done, Inductive, TablesOK
  <2>2. ~(Exists(p) /\ online[p].charge = "collected")
    BY <1>2, <2>1 DEF Find, Goto, Idle, Job
  <2> QED
    BY <1>1, <1>2, <2>2 DEF Find, Exists, DealtWith, Success
<1>3. CASE WebhookApply(w)
  <2>1. payment'[p].status # "PENDING"
    BY <1>1, <1>3 DEF WebhookApply, Conflict, Ledger!Verify, ledger, PaymentRow
  <2> QED
    BY <2>1 DEF DealtWith
<1> QED
  BY <1>2, <1>3

\* A claim is given back, or kept by somebody at work, or needs no more work.
LEMMA ClaimsAreHeld ==
  ASSUME Inductive, DeliveryInv, ClaimInv, [Next]_vars, ~MayCrash, ~MayExhaust
  PROVE  ClaimInv'
<1>1. event \subseteq Payment /\ job \in [Worker -> Job]
  BY DEF Inductive, TablesOK
<1>2. \A p \in event : DealtWith(p) => DealtWith(p)'
  BY <1>1, DealtWithStays DEF DeliveryInv
<1>3. ASSUME NEW w \in Worker, Elsewhere(w) PROVE ClaimInv'
  <2>1. \A v \in Worker : Past(v) => job'[v] = job[v]
    BY <1>3, ElsewhereStep
  <2> QED
    BY <1>2, <1>3, <2>1, ElsewhereStep DEF ClaimInv, Past
<1>4. ASSUME NEW w \in Worker, NEW p \in Payment, Deliver(w, p) PROVE ClaimInv'
  <2>1. /\ event' = event /\ ~Past(w) /\ \A v \in Worker \ {w} : job'[v] = job[v]
    BY <1>1, <1>4 DEF Deliver, Past, DeliveryInv
  <2> QED
    BY <1>2, <2>1 DEF ClaimInv, Past
<1>5. ASSUME NEW w \in Worker, Webhook(w) PROVE ClaimInv'
  <2> SUFFICES ASSUME NEW p \in event', ~DealtWith(p)'
               PROVE  \E v \in Worker : Past(v)' /\ job'[v].pay = p
    BY DEF ClaimInv
  <2>1. CASE p # job[w].pay
    <3>1. p \in event /\ ~DealtWith(p)
      BY <1>2, <1>5, <2>1, WebhookStep
    <3>2. PICK v \in Worker : Past(v) /\ job[v].pay = p
      BY <3>1 DEF ClaimInv
    <3> QED
      BY <1>5, <2>1, <3>2, WebhookStep DEF Past
  <2>2. CASE p = job[w].pay
    <3>1. CASE job'[w] # Idle
      BY <1>5, <2>2, <3>1, WebhookStep DEF Past
    <3>2. CASE job'[w] = Idle
      <4>1. ~Release(w)
        BY <2>2 DEF Release
      <4>2. ~WebhookError(w)
        BY <1>1, <3>2 DEF WebhookError, Goto, Idle, Job
      <4>3. ~(Find(w) \/ WebhookApply(w))
        <5>1. Find(w) \/ WebhookApply(w) => Acknowledge(w)
          BY <1>1, <3>2 DEF Find, WebhookApply, Goto, Idle, Job
        <5> QED
          BY <2>2, <5>1, AnsweredIsDealtWith
      <4>4. Claim(w) /\ p \in event /\ UNCHANGED event
        BY <1>1, <1>5, <2>2, <3>2, <4>1, <4>2, <4>3
           DEF Webhook, ReleaseFails, Claim, Goto, Idle, Job
      <4>5. PICK v \in Worker : Past(v) /\ job[v].pay = p
        BY <1>2, <4>4 DEF ClaimInv
      <4>6. v # w
        BY <4>4, <4>5 DEF Claim, At, Past
      <4> QED
        BY <1>5, <4>5, <4>6, WebhookStep DEF Past
    <3> QED
      BY <3>1, <3>2
  <2> QED
    BY <2>1, <2>2
<1>6. ~\E w \in Worker : Crash(w)
  BY DEF Crash
<1>7. CASE UNCHANGED <<event, acked, job>>
  BY <1>2, <1>7 DEF ClaimInv, Past
<1> QED
  BY <1>3, <1>4, <1>5, <1>6, <1>7, StepKinds

\* While it waits for an answer, Paystack does not send an event again.
LEMMA DeliveriesAreAlone ==
  ASSUME Inductive, DeliveryInv, AloneInv, [Next]_vars, ~MayOverlap
  PROVE  AloneInv'
<1>1. job \in [Worker -> Job] /\ Idle.op = "none"
  BY DEF Inductive, TablesOK, Idle
<1>2. ASSUME NEW w \in Worker, Elsewhere(w) PROVE AloneInv'
  BY <1>2, ElsewhereStep DEF AloneInv
<1>3. ASSUME NEW w \in Worker, Webhook(w) PROVE AloneInv'
  BY <1>1, <1>3, WebhookStep DEF AloneInv
<1>4. ASSUME NEW w \in Worker, NEW p \in Payment, Deliver(w, p) PROVE AloneInv'
  <2>1. /\ job'[w].op = "webhook" /\ job'[w].pay = p
        /\ \A v \in Worker \ {w} : job'[v] = job[v] /\ ~(job[v].op = "webhook" /\ job[v].pay = p)
    BY <1>1, <1>4 DEF Deliver, Working, Idle
  <2> QED
    BY <2>1 DEF AloneInv
<1>5. ASSUME NEW w \in Worker, Crash(w) PROVE AloneInv'
  BY <1>1, <1>5 DEF Crash, Done, AloneInv
<1>6. CASE UNCHANGED <<event, acked, job>>
  BY <1>6 DEF AloneInv
<1> QED
  BY <1>2, <1>3, <1>4, <1>5, <1>6, StepKinds

\* Only what needs no retry is acknowledged.
LEMMA AcknowledgedIsDealtWith ==
  ASSUME Inductive, DeliveryInv, ClaimInv, AloneInv, AckedIsDealtWith, [Next]_vars,
         ~MayCrash, ~MayExhaust
  PROVE  AckedIsDealtWith'
<1>1. event \subseteq Payment /\ job \in [Worker -> Job]
  BY DEF Inductive, TablesOK
<1>2. \A p \in event \cup acked : DealtWith(p) => DealtWith(p)'
  BY <1>1, DealtWithStays DEF DeliveryInv
<1>3. CASE acked' \subseteq acked
  BY <1>2, <1>3 DEF AckedIsDealtWith
<1>4. ASSUME NEW w \in Worker, Webhook(w), ~(acked' \subseteq acked) PROVE AckedIsDealtWith'
  <2> DEFINE p == job[w].pay
  <2>1. \A q : q = p => DealtWith(q)'
    <3> SUFFICES ASSUME NEW q, q = p PROVE DealtWith(q)'
      OBVIOUS
    <3>1. CASE Find(w) \/ WebhookApply(w)
      <4>1. Acknowledge(w)
        BY <1>4, <3>1 DEF Find, WebhookApply
      <4> QED
        BY <3>1, <4>1, AnsweredIsDealtWith
    <3>2. CASE Claim(w)
      <4>1. job[w].pay \in event /\ job[w].op = "webhook" /\ job[w].at = "claim"
        BY <1>4, <3>2 DEF Claim, At
      <4>2. \A v \in Worker : ~(Past(v) /\ job[v].pay = job[w].pay)
        BY <4>1 DEF AloneInv, Past
      <4> QED
        BY <1>2, <4>1, <4>2 DEF ClaimInv
    <3>3. CASE WebhookError(w) \/ Release(w) \/ ReleaseFails(w)
      BY <1>4, <3>3 DEF WebhookError, Release, ReleaseFails
    <3> QED
      BY <1>4, <3>1, <3>2, <3>3 DEF Webhook
  <2> QED
    BY <1>2, <1>4, <2>1, WebhookStep DEF AckedIsDealtWith
<1>5. ASSUME NEW w \in Worker, Elsewhere(w) PROVE acked' \subseteq acked
  BY <1>5, ElsewhereStep
<1>6. ASSUME NEW w \in Worker, Crash(w) \/ \E p \in Payment : Deliver(w, p)
      PROVE  acked' \subseteq acked
  BY <1>6 DEF Crash, Deliver
<1> QED
  BY <1>3, <1>4, <1>5, <1>6, StepKinds

\* No invoice has been paid, and nothing is delivered, claimed or acknowledged.
LEMMA InitBalances ==
  ASSUME Init
  PROVE  /\ BalanceInv /\ DeliveryInv /\ ClaimInv /\ AloneInv /\ AckedIsDealtWith
         /\ Ledger!Init
<1>1. Ledger!Amount = Amount
  BY DEF Ledger!Amount, Amount
<1>2. /\ invoice \in [Invoice -> [total : Amount, discount : {0}, paid : {0},
                                  status : {"UNPAID", "PAID"}]]
      /\ payment = [p \in Payment |-> Ledger!NoPayment]
  BY <1>1 DEF Init, Ledger!Init
<1>3. \A p \in Payment : payment[p].status = "none"
  BY <1>2 DEF Ledger!NoPayment
<1>4. ASSUME NEW i \in Invoice PROVE invoice[i] \in InvoiceRow /\ invoice[i].paid = 0
  BY <1>2, FeeMathAssumption DEF InvoiceRow, InvoiceStatus, Amount
<1>5. ASSUME NEW i \in Invoice PROVE Verified(payment, i) = 0
  <2>1. Of(payment, i, {"VERIFIED"}) = {}
    BY <1>3 DEF Of
  <2> QED
    BY <2>1, SumEmpty DEF Verified
<1>6. BalanceInv
  <2>1. invoice \in [Invoice -> InvoiceRow]
    BY <1>2, <1>4
  <2> QED
    BY <2>1, <1>3, <1>4, <1>5 DEF BalanceInv
<1>7. DeliveryInv /\ ClaimInv /\ AloneInv /\ AckedIsDealtWith
  BY DEF Init, Idle, DeliveryInv, ClaimInv, AloneInv, AckedIsDealtWith
<1> QED
  BY <1>6, <1>7 DEF Init

-----------------------------------------------------------------------------
(* The theorems. *)

\* The invariant all the others follow from: an inductive strengthening of the
\* exclusion of claims, over the tables and every worker's place in the code.
THEOREM InductiveInvariant == Spec => []Inductive
BY InitInductive, NextInductive, PTL DEF Spec

\* At most one delivery of an event is past its claim, for any number of workers and
\* deliveries, and whatever crashes (PaystackService.claimEvent, releaseEvent).
THEOREM DeliveriesExclude == Spec => []ClaimExcludes
<1>1. Inductive => ClaimExcludes
  BY DEF Inductive
<1> QED
  BY <1>1, InductiveInvariant, PTL

\* Neither the sweep nor a failed start ever deletes a payment that was settled
\* after they decided to (the deleteMany of PaystackService).
THEOREM SettledIsKept == Spec => CreditIsNeverDeleted
<1> DEFINE Kept == \A p \in Payment :
             payment[p].receipt # None => payment'[p].receipt = payment[p].receipt
<1>1. Inductive /\ [Next]_vars => [Kept]_vars
  BY NextInductive DEF LedgerMoves
<1>2. Spec => [][Kept]_vars
  <2> HIDE DEF Kept
  <2> QED
    BY <1>1, InductiveInvariant, PTL DEF Spec
<1> QED
  BY <1>2 DEF CreditIsNeverDeleted

\* On no path does the service credit a payment whose charge was not collected in
\* full (the checks of handleWebhook and of refresh).
THEOREM CollectedBeforeCredited == Spec => OnlyCollectedIsCredited
<1> DEFINE Due == \A p \in Payment :
             job' # job /\ payment[p].receipt = None /\ payment'[p].receipt # None
               => online[p].charge = "collected"
<1>1. Inductive /\ [Next]_vars => [Due]_vars
  BY NextInductive DEF Credited
<1>2. Spec => [][Due]_vars
  <2> HIDE DEF Due
  <2> QED
    BY <1>1, InductiveInvariant, PTL DEF Spec
<1> QED
  BY <1>2 DEF OnlyCollectedIsCredited

\* The service and everybody beside it only ever do to the ledger what one call of
\* PaymentsService does: no statement of start, refresh or handleWebhook, whatever
\* runs between it and the next, is a change the ledger does not allow.
THEOREM PaystackKeepsTheLedger == Spec => Ledger!Spec
<1>1. Init => Ledger!Init
  BY InitBalances
<1>2. Inductive /\ [Next]_vars => [Ledger!Next]_(Ledger!ledger)
  BY LedgerSteps DEF ledger, Ledger!ledger
<1> QED
  BY <1>1, <1>2, InductiveInvariant, PTL DEF Spec, Ledger!Spec

\* An invoice is paid what its verified payments add up to, although webhooks, sweeps,
\* refreshes and bursars verify and delete its payments side by side; and only what
\* the provider collected is ever delivered, claimed or acknowledged.
THEOREM BalancesStand == Spec => [](BalanceInv /\ DeliveryInv)
<1>1. Init => BalanceInv /\ DeliveryInv
  BY InitBalances
<1>2. Inductive /\ (BalanceInv /\ DeliveryInv) /\ [Next]_vars => (BalanceInv /\ DeliveryInv)'
  BY NextInductive, LedgerSteps, BalancesKept, DeliveriesSucceed
<1> QED
  BY <1>1, <1>2, InductiveInvariant, PTL DEF Spec

\* Every variable keeps its type (the columns and the workers' locals).
THEOREM TypeCorrect == Spec => []TypeOK
<1>1. Inductive /\ (BalanceInv /\ DeliveryInv) => TypeOK
  BY DEF Inductive, TablesOK, BalanceInv, DeliveryInv, TypeOK
<1> QED
  BY <1>1, InductiveInvariant, BalancesStand, PTL

\* While no process stops and no verification runs out of attempts, a claim is given
\* back or its event needs no retry, whatever errors (handleWebhook, releaseEvent).
THEOREM ClaimsEndDealtWith ==
  ASSUME ~MayCrash, ~MayExhaust
  PROVE  Spec => []ClaimIsDealtWith
<1>1. Init => ClaimInv
  BY InitBalances
<1>2. Inductive /\ (BalanceInv /\ DeliveryInv) /\ ClaimInv /\ [Next]_vars => ClaimInv'
  BY ClaimsAreHeld
<1>3. ClaimInv => ClaimIsDealtWith
  BY DEF ClaimInv, ClaimIsDealtWith, Past, Working
<1> QED
  BY <1>1, <1>2, <1>3, InductiveInvariant, BalancesStand, PTL DEF Spec

\* If moreover Paystack waits for an answer before it sends an event again, what it
\* has seen acknowledged needs no retry: each hypothesis excludes one fault under
\* which a delivery is answered 200 and its payment left pending (handleWebhook).
THEOREM AcknowledgedMeansSettled ==
  ASSUME ~MayCrash, ~MayExhaust, ~MayOverlap
  PROVE  Spec => []AckedIsDealtWith
<1> DEFINE I == ClaimInv /\ AloneInv /\ AckedIsDealtWith
<1>1. Init => I
  BY InitBalances
<1>2. Inductive /\ (BalanceInv /\ DeliveryInv) /\ I /\ [Next]_vars => I'
  BY ClaimsAreHeld, DeliveriesAreAlone, AcknowledgedIsDealtWith
<1>3. I => AckedIsDealtWith
  OBVIOUS
<1> HIDE DEF I
<1> QED
  BY <1>1, <1>2, <1>3, InductiveInvariant, BalancesStand, PTL DEF Spec
=============================================================================
