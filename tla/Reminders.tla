------------------------------ MODULE Reminders -----------------------------
(***************************************************************************)
(* PaymentRemindersService: who owes, less what awaits verification; whom  *)
(* the cooldown spares; one e-mail per parent; the log the next request    *)
(* reads; the inbox of the portal.                                         *)
(*                                                                         *)
(* None of it is in a transaction: every read and the two writes are steps *)
(* of their own.  Amounts are what is still open of an invoice.  The day   *)
(* does not change while a request is under way.                           *)
(***************************************************************************)
EXTENDS Naturals, FiniteSets, FiniteSetsExt

CONSTANTS
  Invoice, Student, Guardian, Request,
  childOf, total,      \* whose each invoice is and what it asks
  parents,             \* guardians of each student
  mail, login,         \* guardians with an e-mail, and with an active login
  Cooldown, Days,      \* reminderCooldownDays, and the bound on days
  MayOverlap,          \* two requests, or a payment and one, at once
  MayFail              \* e-mails may fail, or a request half way

RemindersAssumption ==
  /\ childOf \in [Invoice -> Student] /\ total \in [Invoice -> Nat]
  /\ parents \in [Student -> SUBSET Guardian] /\ mail \subseteq Guardian /\ login \subseteq Guardian
  /\ Cooldown \in Nat /\ Days \in Nat

VARIABLES
  paid, pending,   \* of each invoice: verified, and awaiting it
  day, log,        \* feeReminder rows
  received,        \* day each student's parents last got an e-mail
  inbox,           \* students each parent was told of in the portal
  job

vars == <<paid, pending, day, log, received, inbox, job>>

Idle == [at |-> "none"]

Init ==
  /\ paid = [i \in Invoice |-> 0] /\ pending = paid /\ day = Cooldown + 1 /\ log = {}
  /\ received = [s \in Student |-> 0] /\ inbox = [g \in Guardian |-> {}]
  /\ job = [q \in Request |-> Idle]

Calm        == \A q \in Request : job[q] = Idle
At(q, at)   == job[q].at = at
Balance(i)  == total[i] - paid[i]
Sum(f, s)   == MapThenSumSet(LAMBDA i : f[i], {i \in Invoice : childOf[i] = s})
Reach(s)    == parents[s] \cap mail
Take(q, j)  == job' = [job EXCEPT ![q] = j]
Done(q)     == Take(q, Idle)

-----------------------------------------------------------------------------
(* Parents pay, the bursar verifies, days pass.                            *)

Submit(i, amount) ==
  /\ ~MayOverlap => Calm
  /\ amount <= Balance(i) - pending[i] /\ pending' = [pending EXCEPT ![i] = @ + amount]
  /\ UNCHANGED <<paid, day, log, received, inbox, job>>

Verify(i) ==
  /\ ~MayOverlap => Calm
  /\ pending[i] > 0 /\ pending' = [pending EXCEPT ![i] = 0]
  /\ paid' = [paid EXCEPT ![i] = @ + pending[i]]
  /\ UNCHANGED <<day, log, received, inbox, job>>

NextDay ==
  /\ Calm /\ day < Days /\ day' = day + 1
  /\ UNCHANGED <<paid, pending, log, received, inbox, job>>

-----------------------------------------------------------------------------
(* A request.                                                              *)

\* The invoices read first are not those whose payments are read next.
owingInvoices(q, named, days) ==
  /\ At(q, "none") /\ (~MayOverlap => Calm)
  /\ Take(q, [at |-> "pending", days |-> days, named |-> named, balance |-> [i \in Invoice |-> Balance(i)]])
  /\ UNCHANGED <<paid, pending, day, log, received, inbox>>

pendingByInvoice(i) == pending[i]

collectDebtors(q) ==
  /\ At(q, "pending")
  /\ LET owed == [i \in Invoice |-> IF job[q].balance[i] = 0 THEN 0
                                    ELSE job[q].balance[i] - pendingByInvoice(i)] IN
     Take(q, [at |-> "cooldown", days |-> job[q].days,
              owed |-> [s \in Student |-> IF s \in job[q].named THEN Sum(owed, s) ELSE 0]])
  /\ UNCHANGED <<paid, pending, day, log, received, inbox>>

\* A bug: one day is left out.
RecentShort(s, days) == \E r \in log : r.student = s /\ r.sent /\ r.day > day - days

RecentlyReminded(s, days) == \E r \in log : r.student = s /\ r.sent /\ r.day >= day - days

applyCooldown(q) ==
  /\ At(q, "cooldown")
  /\ LET debtors == {s \in Student : job[q].owed[s] > 0} IN
     Take(q, [at |-> "deliver", days |-> job[q].days, owed |-> job[q].owed, debtors |-> debtors,
              eligible |-> {s \in debtors : job[q].days = 0 \/ ~RecentlyReminded(s, job[q].days)}])
  /\ UNCHANGED <<paid, pending, day, log, received, inbox>>

DryRun(q) == At(q, "deliver") /\ Done(q) /\ UNCHANGED <<paid, pending, day, log, received, inbox>>

\* One e-mail to each parent; the provider may have sent what it did not say.
recipients(q) == UNION {Reach(s) : s \in job[q].eligible}

sendBatch(q) ==
  /\ At(q, "deliver")
  /\ \E delivered \in SUBSET recipients(q) : \E accepted \in SUBSET delivered :
       /\ ~MayFail => accepted = recipients(q)
       /\ received' = [s \in Student |->
            IF s \in job[q].eligible /\ Reach(s) \cap delivered # {} THEN day ELSE received[s]]
       /\ Take(q, [at |-> "log", eligible |-> job[q].eligible, to |-> recipients(q), accepted |-> accepted])
  /\ UNCHANGED <<paid, pending, day, log, inbox>>

Log(q) ==
  /\ At(q, "log")
  /\ log' = log \cup UNION {{[student |-> s, day |-> day, guardian |-> g, sent |-> g \in job[q].accepted]
                              : g \in Reach(s)} : s \in job[q].eligible}
  /\ Take(q, [at |-> "notify", eligible |-> job[q].eligible])
  /\ UNCHANGED <<paid, pending, day, received, inbox>>

Told(s) == parents[s] \cap login

notifyParentsOf(q) ==
  /\ At(q, "notify") /\ Done(q)
  /\ inbox' = [g \in Guardian |-> inbox[g] \cup {s \in job[q].eligible : g \in Told(s)}]
  /\ UNCHANGED <<paid, pending, day, log, received>>

\* The log cannot be written, or the process stops.
Fails(q) ==
  /\ MayFail /\ job[q] # Idle /\ Done(q)
  /\ UNCHANGED <<paid, pending, day, log, received, inbox>>

Next ==
  \/ \E i \in Invoice : Verify(i) \/ (\E a \in 1..total[i] : Submit(i, a))
  \/ NextDay
  \/ \E q \in Request :
       \/ \E named \in SUBSET Student, days \in {0, Cooldown} :
            named # {} /\ owingInvoices(q, named, days)
       \/ collectDebtors(q) \/ applyCooldown(q) \/ DryRun(q) \/ sendBatch(q) \/ Log(q)
       \/ notifyParentsOf(q) \/ Fails(q)

Spec == Init /\ [][Next]_vars

-----------------------------------------------------------------------------
(***************************************************************************)
(* Types; no more awaits verification than is open.                        *)
(***************************************************************************)
TypeOK ==
  /\ \A i \in Invoice : paid[i] + pending[i] \in 0..total[i]
  /\ \A r \in log : r.day \in 1..day /\ r.guardian \in Reach(r.student)
  /\ received \in [Student -> 0..day] /\ inbox \in [Guardian -> SUBSET Student]

Sending(q) == At(q, "deliver") /\ job'[q].at = "log"

(***************************************************************************)
(* "A second click does not mail every parent twice in an afternoon":      *)
(* nobody gets an e-mail inside the cooldown of the one before, unless the *)
(* bursar asked for none.  Holds where no two requests overlap and nothing *)
(* fails.  (applyCooldown, deliver.)                                       *)
(***************************************************************************)
\* Of every step.
NotTwice ==
  \A q \in Request : Sending(q) /\ job[q].days # 0 =>
    \A s \in job[q].eligible : received[s] = 0 \/ received[s] < day - job[q].days

(***************************************************************************)
(* "Money awaiting verification is not chased", and neither is money that  *)
(* was paid.  Holds where no payment overlaps the request.                 *)
(* (pendingByInvoice, collectDebtors.)                                     *)
(***************************************************************************)
\* Of every step.
OnlyWhatIsOwed ==
  \A q \in Request : Sending(q) => \A s \in job[q].eligible :
    job[q].owed[s] <= MapThenSumSet(LAMBDA i : Balance(i) - pending[i],
                                    {i \in Invoice : childOf[i] = s})

(***************************************************************************)
(* A failed send does not count toward the cooldown: a parent of a debtor  *)
(* whom no e-mail reached is among those the next request writes to.       *)
(* Holds where each child has one parent.  (applyCooldown, deliver.)       *)
(***************************************************************************)
\* Of every step.
FailedAreTriedAgain ==
  \A q \in Request : Sending(q) => \A s \in job[q].debtors : \A g \in Reach(s) :
    (\A r \in log : r.student = s /\ r.guardian = g => ~r.sent) => g \in job'[q].to

(***************************************************************************)
(* "Every reminded debtor - emailed or not - also lands in the portal      *)
(* inbox of any parent with a login."  Holds where nothing fails.          *)
(* (send, notifyParentsOf.)                                                *)
(***************************************************************************)
InboxToo ==
  Calm => \A s \in Student : received[s] # 0 => \A g \in parents[s] \cap login : s \in inbox[g]
=============================================================================
