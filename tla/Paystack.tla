------------------------------ MODULE Paystack ------------------------------
(***************************************************************************)
(* Online payments: PaystackService.start with its sweep of abandoned      *)
(* attempts, handleWebhook with the claim of an event, and refresh, run by *)
(* concurrent workers of the server beside the provider, the payer and the *)
(* bursar.                                                                 *)
(*                                                                         *)
(* What PaymentsService does is taken from InvoiceLedger, one step per     *)
(* call: module Payments shows that its transactions implement that.       *)
(* Every statement of PaystackService is a step of its own, because none   *)
(* of them shares a transaction with the next.                             *)
(***************************************************************************)
EXTENDS FeeMath

CONSTANTS
  Worker,             \* requests and deliveries the server works on at once
  MaxAbandonedSwept,  \* MAX_ABANDONED_SWEPT, five in the source
  MayCrash,           \* faults a run includes: a worker stops, or cannot release;
  MayOverlap,         \* an event is delivered again while still being worked on;
  MayExhaust          \* a verification runs out of receipt attempts

ASSUME PaystackAssumption ==
  /\ MaxAbandonedSwept \in Nat \ {0}
  /\ {MayCrash, MayOverlap, MayExhaust} \subseteq BOOLEAN

VARIABLES
  invoice, payment,   \* the tables of InvoiceLedger
  online,             \* online[p]: what an online payment has beyond that
  event,              \* webhook_events: charges whose event is claimed
  acked,              \* charges whose event was answered 200, as Paystack knows
  job                 \* job[w]: where worker w is, and its local variables

ledger == <<invoice, payment>>
vars   == <<invoice, payment, online, event, acked, job>>

Ledger == INSTANCE InvoiceLedger

(***************************************************************************)
(* At Paystack a charge is not there, open on a page of the payer, or paid *)
(* in full or in another amount or currency than was asked for.            *)
(***************************************************************************)
Charge  == {"none", "open", "collected", "short"}
Success == {"collected", "short"}

OnlinePayment == [ref : BOOLEAN,   \* providerReference is set
                  old : BOOLEAN,   \* created ABANDONED_AFTER_MINUTES ago
                  charge : Charge]

Job == [at : {"idle", "sweep", "delete", "reference", "initialize", "discard",
              "read", "ask", "apply", "claim", "find", "release", "answered"},
        op : {"none", "start", "refresh", "webhook"},
        inv : Invoice \cup {None}, amount : Amount, pay : Payment \cup {None},
        left : SUBSET Payment, told : PaymentStatus]

Idle == [at |-> "idle", op |-> "none", inv |-> None, amount |-> 0, pay |-> None,
         left |-> {}, told |-> "none"]

TypeOK ==
  /\ invoice \in [Invoice -> InvoiceRow]
  /\ payment \in [Payment -> PaymentRow]
  /\ online \in [Payment -> OnlinePayment]
  /\ event \subseteq Payment /\ acked \subseteq Payment
  /\ job \in [Worker -> Job]

Init ==
  /\ Ledger!Init
  /\ online = [p \in Payment |-> [ref |-> FALSE, old |-> FALSE, charge |-> "none"]]
  /\ event = {} /\ acked = {}
  /\ job = [w \in Worker |-> Idle]

At(w, op, at) == job[w].op = op /\ job[w].at = at
Goto(w, at)   == job' = [job EXCEPT ![w].at = at]
Done(w)       == job' = [job EXCEPT ![w] = Idle]

Exists(p) == payment[p].status \notin {"none", "deleted"}

\* A bug: the row is deleted by its id alone.
DeleteAnyway(p) ==
  IF Exists(p)
  THEN payment' = [payment EXCEPT ![p] = DeletedPayment] /\ UNCHANGED invoice
  ELSE UNCHANGED ledger

\* deleteMany where id and status PENDING: nothing happens to any other row.
DeletePending(p) ==
  IF payment[p].status = "PENDING" THEN Ledger!Discard(p) ELSE UNCHANGED ledger

-----------------------------------------------------------------------------
(* PaymentsService.verify, as its callers here can tell its outcomes apart. *)

\* Not pending any more (or gone since it was looked up), or out of attempts.
\* Every other outcome is the ledger's Verify, or an error that writes nothing.
Conflict(p) ==
  /\ UNCHANGED ledger
  /\ payment[p].status = "PENDING" => MayExhaust

-----------------------------------------------------------------------------
(* start: sweep, record, store the reference, open the charge. *)

Stale(i) == {p \in Of(payment, i, {"PENDING"}) : online[p].ref /\ online[p].old}

StartOnline(w, i, a) ==
  /\ job[w].at = "idle"
  /\ a > 0
  /\ \E taken \in SUBSET Stale(i) :
       /\ Cardinality(taken) <= MaxAbandonedSwept
       /\ taken # Stale(i) => Cardinality(taken) = MaxAbandonedSwept
       /\ job' = [job EXCEPT ![w] = [Idle EXCEPT !.at = "sweep", !.op = "start",
                                       !.inv = i, !.amount = a, !.left = taken]]
  /\ UNCHANGED <<invoice, payment, online, event, acked>>

Swept(w, p) == job' = [job EXCEPT ![w].at = "sweep", ![w].left = @ \ {p}, ![w].pay = None]

\* Paystack could not be asked, or knows no such charge: the payment is kept.
SweepUnreachable(w, p) ==
  /\ At(w, "start", "sweep") /\ p \in job[w].left
  /\ Swept(w, p)
  /\ UNCHANGED <<invoice, payment, online, event, acked>>

SweepCheck(w, p) ==
  /\ At(w, "start", "sweep") /\ p \in job[w].left
  /\ online[p].charge # "none"
  /\ job' = [job EXCEPT ![w].pay = p,
       ![w].at = IF online[p].charge \in Success THEN "read" ELSE "delete"]
  /\ UNCHANGED <<invoice, payment, online, event, acked>>

SweepDelete(w) ==
  /\ At(w, "start", "delete")
  /\ DeletePending(job[w].pay)
  /\ Swept(w, job[w].pay)
  /\ UNCHANGED <<online, event, acked>>

StartRecord(w, p) ==
  /\ At(w, "start", "sweep") /\ job[w].left = {}
  /\ Ledger!Record(p, job[w].inv, job[w].amount)
  /\ job' = [job EXCEPT ![w].at = "reference", ![w].pay = p]
  /\ UNCHANGED <<online, event, acked>>

StartReference(w) ==
  /\ At(w, "start", "reference")
  /\ Exists(job[w].pay)
  /\ online' = [online EXCEPT ![job[w].pay].ref = TRUE]
  /\ Goto(w, "initialize")
  /\ UNCHANGED <<invoice, payment, event, acked>>

StartInitialize(w) ==
  /\ At(w, "start", "initialize")
  /\ online' = [online EXCEPT ![job[w].pay].charge = "open"]
  /\ Done(w)
  /\ UNCHANGED <<invoice, payment, event, acked>>

\* The provider refused, or its answer was lost: no payer ever sees the page.
StartRefused(w) ==
  /\ At(w, "start", "initialize")
  /\ Goto(w, "discard")
  /\ UNCHANGED <<invoice, payment, online, event, acked>>

StartDiscard(w) ==
  /\ At(w, "start", "discard")
  /\ DeletePending(job[w].pay)
  /\ Done(w)
  /\ UNCHANGED <<online, event, acked>>

-----------------------------------------------------------------------------
(* refresh, called by a user or by the sweep. *)

StartRefresh(w, p) ==
  /\ job[w].at = "idle"
  /\ Exists(p) /\ online[p].ref
  /\ job' = [job EXCEPT ![w] = [Idle EXCEPT !.at = "read", !.op = "refresh", !.pay = p]]
  /\ UNCHANGED <<invoice, payment, online, event, acked>>

\* A bug: the answer names the state of the invoice.
ReturnInvoice(w, status) ==
  IF job[w].op = "start" THEN Swept(w, job[w].pay)
  ELSE job' = [job EXCEPT ![w].at = "answered",
                          ![w].told = invoice[payment[job[w].pay].invoice].status]

\* The answer of refresh, or the next candidate of the sweep that called it.
Return(w, status) ==
  IF job[w].op = "start" THEN Swept(w, job[w].pay)
  ELSE job' = [job EXCEPT ![w].at = "answered", ![w].told = status]

RefreshRead(w) ==
  /\ job[w].at = "read"
  /\ Exists(job[w].pay)
  /\ IF payment[job[w].pay].status = "PENDING"
     THEN Goto(w, "ask") ELSE Return(w, payment[job[w].pay].status)
  /\ UNCHANGED <<invoice, payment, online, event, acked>>

\* A bug: any success will do, whatever was paid.
RefreshAskBarely(w) ==
  /\ job[w].at = "ask"
  /\ IF online[job[w].pay].charge \in Success
     THEN Goto(w, "apply") ELSE Return(w, "PENDING")
  /\ UNCHANGED <<invoice, payment, online, event, acked>>

RefreshAsk(w) ==
  /\ job[w].at = "ask"
  /\ IF online[job[w].pay].charge = "collected"
     THEN Goto(w, "apply") ELSE Return(w, "PENDING")
  /\ UNCHANGED <<invoice, payment, online, event, acked>>

\* Any conflict counts as the webhook having been faster.
RefreshApply(w) ==
  /\ job[w].at = "apply" /\ job[w].op # "webhook"
  /\ \/ Ledger!Verify(job[w].pay) \/ Conflict(job[w].pay)
  /\ Return(w, "VERIFIED")
  /\ UNCHANGED <<online, event, acked>>

RefreshAnswer(w) ==
  /\ At(w, "refresh", "answered")
  /\ Done(w)
  /\ UNCHANGED <<invoice, payment, online, event, acked>>

-----------------------------------------------------------------------------
(* handleWebhook: claim the event, find the payment, verify it. *)

Working(p) == {w \in Worker : job[w].op = "webhook" /\ job[w].pay = p}

\* Paystack sends charge.success, and again whenever it likes.
Deliver(w, p) ==
  /\ job[w].at = "idle"
  /\ online[p].charge \in Success
  /\ MayOverlap \/ Working(p) = {}
  /\ job' = [job EXCEPT ![w] = [Idle EXCEPT !.at = "claim", !.op = "webhook", !.pay = p]]
  /\ UNCHANGED <<invoice, payment, online, event, acked>>

\* 200, which Paystack may or may not get to see.
Acknowledge(w) ==
  /\ acked' \in {acked, acked \cup {job[w].pay}}
  /\ Done(w)

\* A bug: the event is looked up, and would be recorded later.
ClaimUnrecorded(w) ==
  /\ At(w, "webhook", "claim")
  /\ Goto(w, "find")
  /\ UNCHANGED <<event, acked, invoice, payment, online>>

Claim(w) ==
  /\ At(w, "webhook", "claim")
  /\ IF job[w].pay \in event
     THEN Acknowledge(w) /\ UNCHANGED event
     ELSE event' = event \cup {job[w].pay} /\ Goto(w, "find") /\ UNCHANGED acked
  /\ UNCHANGED <<invoice, payment, online>>

\* An unknown reference or another amount is acknowledged, and the claim kept.
Find(w) ==
  /\ At(w, "webhook", "find")
  /\ IF Exists(job[w].pay) /\ online[job[w].pay].charge = "collected"
     THEN Goto(w, "apply") /\ UNCHANGED acked
     ELSE Acknowledge(w)
  /\ UNCHANGED <<invoice, payment, online, event>>

\* Verified, or a conflict taken to mean that the event has been dealt with.
WebhookApply(w) ==
  /\ At(w, "webhook", "apply")
  /\ \/ Ledger!Verify(job[w].pay) \/ Conflict(job[w].pay)
  /\ Acknowledge(w)
  /\ UNCHANGED <<online, event>>

\* A bug: an error of the database is acknowledged like a conflict.
WebhookErrorAcknowledged(w) ==
  /\ job[w].op = "webhook" /\ job[w].at \in {"find", "apply"}
  /\ Acknowledge(w)
  /\ UNCHANGED <<invoice, payment, online, event>>

\* A bug: the claim outlives the error.
WebhookErrorKeepingClaim(w) ==
  /\ job[w].op = "webhook" /\ job[w].at \in {"find", "apply"}
  /\ Done(w)
  /\ UNCHANGED <<invoice, payment, online, event, acked>>

\* An error, before anything is written or after the verification committed.
WebhookError(w) ==
  /\ job[w].op = "webhook" /\ job[w].at \in {"find", "apply"}
  /\ \/ UNCHANGED ledger
     \/ job[w].at = "apply" /\ Ledger!Verify(job[w].pay)
  /\ Goto(w, "release")
  /\ UNCHANGED <<online, event, acked>>

Release(w) ==
  /\ At(w, "webhook", "release")
  /\ event' = event \ {job[w].pay}
  /\ Done(w)
  /\ UNCHANGED <<invoice, payment, online, acked>>

\* The delete failed too; the code logs that a retry will be ignored.
ReleaseFails(w) ==
  /\ MayCrash
  /\ At(w, "webhook", "release")
  /\ Done(w)
  /\ UNCHANGED <<invoice, payment, online, event, acked>>

-----------------------------------------------------------------------------
(* Refusals and failures of the server, and everybody else. *)

\* An error, before anything is written or after a verification committed.  Inside
\* the sweep one of refresh is caught, elsewhere it ends the request.
RequestFails(w) ==
  /\ job[w].op \in {"start", "refresh"} \/ At(w, "webhook", "claim")
  /\ job[w].at # "answered"
  /\ \/ UNCHANGED ledger
     \/ job[w].at = "apply" /\ Ledger!Verify(job[w].pay)
  /\ IF job[w].op = "start" /\ job[w].at \in {"read", "ask", "apply"}
     THEN Swept(w, job[w].pay) ELSE Done(w)
  /\ UNCHANGED <<online, event, acked>>

\* The process stops; so does every statement it had not sent yet.
Crash(w) ==
  /\ MayCrash /\ job[w].at # "idle"
  /\ Done(w)
  /\ UNCHANGED <<invoice, payment, online, event, acked>>

Pay(p, charge) ==
  /\ online[p].charge = "open"
  /\ online' = [online EXCEPT ![p].charge = charge]
  /\ UNCHANGED <<invoice, payment, event, acked, job>>

Age(p) ==
  /\ payment[p].status = "PENDING" /\ ~online[p].old
  /\ online' = [online EXCEPT ![p].old = TRUE]
  /\ UNCHANGED <<invoice, payment, event, acked, job>>

Bursar(p) ==
  /\ Ledger!Verify(p) \/ Ledger!RejectPending(p) \/ Ledger!Reverse(p)
  /\ UNCHANGED <<online, event, acked, job>>

-----------------------------------------------------------------------------
Arrive(w) ==
  \/ \E i \in Invoice, a \in Amount : StartOnline(w, i, a)
  \/ \E p \in Payment : StartRefresh(w, p) \/ Deliver(w, p)

Starting(w) ==
  \/ \E p \in Payment : SweepUnreachable(w, p) \/ SweepCheck(w, p) \/ StartRecord(w, p)
  \/ SweepDelete(w) \/ StartReference(w)
  \/ StartInitialize(w) \/ StartRefused(w) \/ StartDiscard(w)

Refreshing(w) == RefreshRead(w) \/ RefreshAsk(w) \/ RefreshApply(w) \/ RefreshAnswer(w)

Webhook(w) ==
  Claim(w) \/ Find(w) \/ WebhookApply(w) \/ WebhookError(w) \/ Release(w) \/ ReleaseFails(w)

Proceed(w) == Starting(w) \/ Refreshing(w) \/ Webhook(w) \/ RequestFails(w)

Next ==
  \/ \E w \in Worker : Arrive(w) \/ Proceed(w) \/ Crash(w)
  \/ \E p \in Payment : Age(p) \/ Bursar(p) \/ \E charge \in Success : Pay(p, charge)

Spec == Init /\ [][Next]_vars

(***************************************************************************)
(* The server keeps working; Paystack redelivers an event until it sees it *)
(* acknowledged; and neither the claim, the lookup nor the verification of *)
(* an event fails every time it is tried.                                  *)
(***************************************************************************)
Redelivered(p) == \E w \in Worker : p \notin acked /\ Deliver(w, p)
Claimed(p)     == \E w \in Worker : job[w].pay = p /\ Claim(w)
Found(p)       == \E w \in Worker : job[w].pay = p /\ Find(w)
Applied(p)     == \E w \in Worker : job[w].pay = p /\ WebhookApply(w)

Fairness ==
  /\ \A w \in Worker : WF_vars(Proceed(w))
  /\ \A p \in Payment : /\ SF_vars(Redelivered(p)) /\ SF_vars(Claimed(p))
                        /\ SF_vars(Found(p)) /\ SF_vars(Applied(p))

LiveSpec == Spec /\ Fairness

-----------------------------------------------------------------------------
(***************************************************************************)
(* The service credits a payment only if Paystack collected exactly what   *)
(* was asked for: not the payment of another charge, not one paid short,   *)
(* on no path (the checks of handleWebhook and of refresh).  A step of the *)
(* bursar moves no worker.                                                 *)
(***************************************************************************)
OnlyCollectedIsCredited ==
  [][\A p \in Payment :
       job' # job /\ payment[p].receipt = None /\ payment'[p].receipt # None
         => online[p].charge = "collected"]_vars

(***************************************************************************)
(* A payment with a receipt is never deleted, although the sweep and a     *)
(* start that failed decide to delete a step before they do: a bursar, a   *)
(* webhook or a refresh may have settled it since (deleteMany is           *)
(* conditional on PENDING).                                                *)
(***************************************************************************)
CreditIsNeverDeleted ==
  [][\A p \in Payment :
       payment[p].receipt # None => payment'[p].receipt = payment[p].receipt]_vars

(***************************************************************************)
(* At most one delivery of an event is past its claim, whatever crashed    *)
(* before and however often Paystack repeats it (claimEvent).              *)
(***************************************************************************)
ClaimExcludes ==
  \A w, v \in Worker :
    /\ job[w].op = "webhook" /\ job[w].at # "claim"
    /\ job[v].op = "webhook" /\ job[v].at # "claim"
    /\ job[w].pay = job[v].pay
    => w = v

DealtWith(p) == payment[p].status # "PENDING" \/ online[p].charge = "short"

(***************************************************************************)
(* A claim nobody works under belongs to an event that needs no retry: the *)
(* claim does not outlive a failure (handleWebhook, releaseEvent).         *)
(***************************************************************************)
ClaimIsDealtWith == \A p \in event : Working(p) # {} \/ DealtWith(p)

(***************************************************************************)
(* An event Paystack has seen acknowledged needs no retry: anything worth  *)
(* one is left unacknowledged (handleWebhook).                             *)
(***************************************************************************)
AckedIsDealtWith == \A p \in acked : DealtWith(p)

(***************************************************************************)
(* At the moment its payment is removed, a charge has not been collected   *)
(* ("only a charge they never collected is removed", sweepAbandoned).      *)
(***************************************************************************)
OnlyUncollectedIsRemoved ==
  [][\A p \in Payment :
       payment[p].status = "PENDING" /\ payment'[p].status = "deleted"
         => online[p].charge \notin Success]_vars

(***************************************************************************)
(* A refresh answers VERIFIED only for a payment that has a receipt.       *)
(***************************************************************************)
RefreshTellsTruth ==
  \A w \in Worker : job[w].told = "VERIFIED" => payment[job[w].pay].receipt # None

(***************************************************************************)
(* What a payer paid does not stay pending: however many deliveries fail,  *)
(* one is in the end applied.                                              *)
(***************************************************************************)
CollectedIsSettled ==
  \A p \in Payment : online[p].charge = "collected" ~> payment[p].status # "PENDING"

(***************************************************************************)
(* Why they hold: a worker past its claim holds the claim, one about to    *)
(* verify has seen the charge collected, and no charge is opened twice.    *)
(***************************************************************************)
RowInv ==
  \A p \in Payment :
    /\ payment[p].status \in {"none", "PENDING"} => payment[p].receipt = None
    /\ payment[p].status = "none" => online[p].charge = "none"

Opening(w) == job[w].op = "start" /\ job[w].at \in {"reference", "initialize"}

WorkInv(w) ==
  /\ job[w].op = "webhook" \/ job[w].at \notin {"idle", "sweep"} => job[w].pay \in Payment
  /\ job[w].op = "start" => job[w].inv \in Invoice
  /\ job[w].at = "idle" => job[w] = Idle
  /\ job[w].at = "apply" => online[job[w].pay].charge = "collected"
  /\ job[w].op = "webhook" /\ job[w].at # "claim" => job[w].pay \in event
  /\ Opening(w) => /\ online[job[w].pay].charge = "none"
                   /\ payment[job[w].pay].status # "none"

OpeningInv ==
  \A w, v \in Worker : Opening(w) /\ Opening(v) /\ job[w].pay = job[v].pay => w = v

TablesOK ==
  /\ payment \in [Payment -> PaymentRow]
  /\ online \in [Payment -> OnlinePayment]
  /\ event \subseteq Payment
  /\ job \in [Worker -> Job]

\* Receipts are numbered without gaps, so that there is a next one.
SequenceInv ==
  \E n \in IssuedSeqs(payment) \cup {0} : IssuedSeqs(payment) = 1 .. n

Inductive ==
  /\ TablesOK /\ SequenceInv /\ RowInv /\ OpeningInv /\ ClaimExcludes
  /\ \A w \in Worker : WorkInv(w)

\* An invoice is paid what its verified payments add up to, however they came.
BalanceInv ==
  /\ invoice \in [Invoice -> InvoiceRow]
  /\ \A p \in Payment :
       payment[p].status \in {"PENDING", "VERIFIED"} => payment[p].invoice \in Invoice
  /\ \A i \in Invoice : invoice[i].paid = Verified(payment, i)

\* What is delivered, claimed or acknowledged is a charge that succeeded.
DeliveryInv ==
  /\ \A w \in Worker : job[w].op = "webhook" =>
       /\ job[w].at \in {"claim", "find", "apply", "release"}
       /\ online[job[w].pay].charge \in Success
  /\ acked \subseteq Payment
  /\ \A p \in event \cup acked : online[p].charge \in Success

\* A claim is under work past its insertion, or needs none.  (While nobody stops
\* and no verification runs out of attempts.)
Past(w) == job[w].op = "webhook" /\ job[w].at # "claim"

ClaimInv == \A p \in event : DealtWith(p) \/ \E w \in Worker : Past(w) /\ job[w].pay = p

\* One delivery of an event at a time.  (While Paystack waits for an answer.)
AloneInv ==
  \A w, v \in Worker :
    job[w].op = "webhook" /\ job[v].op = "webhook" /\ job[w].pay = job[v].pay => w = v
=============================================================================
