------------------------------ MODULE Accounts ------------------------------
(***************************************************************************)
(* The account of one user: failed logins and the lock they lead to, and   *)
(* the links sent by e-mail to verify the address or reset the password.   *)
(* (AuthService, PlatformAuthService, TokenService.)                       *)
(*                                                                         *)
(* A request reads the user or the link, then writes by its id: nothing is *)
(* locked and nothing is in a transaction.                                 *)
(***************************************************************************)
EXTENDS Naturals, FiniteSets

CONSTANTS
  Link, None, Request,
  MaxFailed,    \* maxFailedLoginAttempts
  MayOverlap, MayStop

Purpose == {"VERIFICATION", "RESET"}
Mail    == [purpose : Purpose, consumed : BOOLEAN, expired : BOOLEAN]

AccountsAssumption ==
  MaxFailed \in Nat \ {0} /\ {MayOverlap, MayStop} \subseteq BOOLEAN /\ None \notin Mail

VARIABLES
  operator,  \* whether the user may use the platform's door
  attempts, locked, verified,     \* of the user
  link,      \* verification_tokens
  job,       \* what each request has read
  failed,    \* failed logins since the last that went well, lock or reset
  used       \* used[l]: how often a link had its effect

user == <<attempts, locked, verified>>
said == <<failed, used>>
vars == <<operator, user, link, job, said>>

Idle == [at |-> "none"]

Init ==
  /\ operator \in BOOLEAN
  /\ attempts = 0 /\ locked = FALSE /\ verified = FALSE
  /\ link = [l \in Link |-> None] /\ job = [q \in Request |-> Idle]
  /\ failed = 0 /\ used = [l \in Link |-> 0]

Begin(q) == job[q] = Idle /\ (MayOverlap \/ \A p \in Request : job[p] = Idle)

Set(q, record) == job' = [job EXCEPT ![q] = record]

-----------------------------------------------------------------------------
(* Login: a wrong password is counted, a right one clears the count.       *)

WrongPassword(q) ==
  /\ Begin(q) /\ ~locked
  /\ Set(q, [at |-> "failed", attempts |-> attempts])
  /\ UNCHANGED <<operator, user, link, said>>

\* registerFailedAttempt; lockedUntil is otherwise written as it was read.
CountFailure(q) ==
  /\ job[q].at = "failed"
  /\ LET count == job[q].attempts + 1 IN
     /\ attempts' = IF count >= MaxFailed THEN 0 ELSE count
     /\ locked' = (count >= MaxFailed)
     /\ failed' = IF count >= MaxFailed THEN 0 ELSE failed + 1
  /\ Set(q, Idle) /\ UNCHANGED <<operator, verified, link, used>>

Enter(q) ==
  /\ Begin(q) /\ ~locked
  /\ Set(q, [at |-> "entered"]) /\ UNCHANGED <<operator, user, link, said>>

Login(q)         == Enter(q)
PlatformLogin(q) == operator /\ Enter(q)   \* else refused, and only recorded

Cleared == attempts' = 0 /\ locked' = FALSE /\ failed' = 0

LoginWrite(q) ==
  /\ job[q].at = "entered" /\ Cleared
  /\ Set(q, Idle) /\ UNCHANGED <<operator, verified, link, used>>

\* accountLockMinutes go by.
Unlock == locked /\ locked' = FALSE /\ UNCHANGED <<operator, attempts, verified, link, job, said>>

-----------------------------------------------------------------------------
(* Links: forgotPassword, resendVerification, createVerificationToken.     *)

Ask(q, purpose) ==
  /\ Begin(q) /\ (purpose = "VERIFICATION" => ~verified)
  /\ Set(q, [at |-> "spend", purpose |-> purpose])
  /\ UNCHANGED <<operator, user, link, said>>

ForgotPassword(q)     == Ask(q, "RESET")
ResendVerification(q) == Ask(q, "VERIFICATION")

Spent(l) == [link[l] EXCEPT !.consumed = TRUE]

\* "Only one live token per purpose."
Spend(q) ==
  /\ job[q].at = "spend"
  /\ link' = [l \in Link |-> IF link[l] # None /\ link[l].purpose = job[q].purpose
                             THEN Spent(l) ELSE link[l]]
  /\ Set(q, [job[q] EXCEPT !.at = "send"]) /\ UNCHANGED <<operator, user, said>>

Send(q, l) ==
  /\ job[q].at = "send" /\ link[l] = None
  /\ link' = [link EXCEPT ![l] = [purpose |-> job[q].purpose, consumed |-> FALSE, expired |-> FALSE]]
  /\ Set(q, Idle) /\ UNCHANGED <<operator, user, said>>

Expire(l) ==
  /\ link[l] # None /\ ~link[l].expired
  /\ link' = [link EXCEPT ![l].expired = TRUE]
  /\ UNCHANGED <<operator, user, job, said>>

Works(l) == link[l] # None /\ ~link[l].consumed /\ ~link[l].expired

\* A bug: a spent link is not refused.
OpenSpent(q, l) ==
  /\ Begin(q) /\ link[l] # None /\ ~link[l].expired
  /\ Set(q, [at |-> "consume", link |-> l]) /\ UNCHANGED <<operator, user, link, said>>

\* consumeVerificationToken reads, then writes by id.
Open(q, l) ==
  /\ Begin(q) /\ Works(l)
  /\ Set(q, [at |-> "consume", link |-> l]) /\ UNCHANGED <<operator, user, link, said>>

Consume(q) ==
  /\ job[q].at = "consume"
  /\ link' = [link EXCEPT ![job[q].link] = Spent(job[q].link)]
  /\ Set(q, [job[q] EXCEPT !.at = "apply"]) /\ UNCHANGED <<operator, user, said>>

ResetPassword(q) ==
  /\ job[q].at = "apply" /\ link[job[q].link].purpose = "RESET"
  /\ Cleared /\ used' = [used EXCEPT ![job[q].link] = @ + 1]
  /\ Set(q, Idle) /\ UNCHANGED <<operator, verified, link>>

VerifyEmail(q) ==
  /\ job[q].at = "apply" /\ link[job[q].link].purpose = "VERIFICATION"
  /\ verified' = TRUE /\ used' = [used EXCEPT ![job[q].link] = @ + 1]
  /\ Set(q, Idle) /\ UNCHANGED <<operator, attempts, locked, link, failed>>

Stop(q) == MayStop /\ job[q] # Idle /\ Set(q, Idle) /\ UNCHANGED <<operator, user, link, said>>

Next ==
  \/ \E q \in Request :
       \/ WrongPassword(q) \/ CountFailure(q) \/ Login(q) \/ PlatformLogin(q) \/ LoginWrite(q)
       \/ ForgotPassword(q) \/ ResendVerification(q) \/ Spend(q)
       \/ Consume(q) \/ ResetPassword(q) \/ VerifyEmail(q) \/ Stop(q)
       \/ \E l \in Link : Send(q, l) \/ Open(q, l)
  \/ Unlock \/ \E l \in Link : Expire(l)

Spec == Init /\ [][Next]_vars

-----------------------------------------------------------------------------
(***************************************************************************)
(* Types; and an address is verified by a link only. (verifyEmail.)        *)
(***************************************************************************)
TypeOK ==
  /\ attempts \in 0..(MaxFailed - 1) /\ {operator, locked, verified} \subseteq BOOLEAN
  /\ link \in [Link -> {None} \cup Mail]
  /\ verified => \E l \in Link : link[l] # None /\ link[l].purpose = "VERIFICATION" /\ used[l] > 0

(***************************************************************************)
(* The count of failures is the number of failures: "5 failed attempts     *)
(* locks the account".  Holds one request at a time.                       *)
(* (registerFailedAttempt.)                                                *)
(***************************************************************************)
FailuresAreCounted == attempts = failed

(***************************************************************************)
(* "Only one live token per purpose, so an older link cannot be replayed." *)
(* (createVerificationToken.)                                              *)
(***************************************************************************)
OneLiveLink ==
  \A l, k \in Link : Works(l) /\ Works(k) /\ link[l].purpose = link[k].purpose => l = k

(***************************************************************************)
(* "Single-use tokens": a link has its effect once, or not at all when the *)
(* process stops after it was spent.  (consumeVerificationToken.)          *)
(***************************************************************************)
SingleUse == \A l \in Link : used[l] <= 1

(***************************************************************************)
(* Why they hold.  A link that had its effect was spent before.  One       *)
(* request at a time, what it read is what is there; the older links of a  *)
(* purpose are all spent before the next is sent; and a link that is about *)
(* to have its effect has had none.                                        *)
(***************************************************************************)
JobOK(j) ==
  \/ j = Idle
  \/ j \in [at : {"failed"}, attempts : 0..(MaxFailed - 1)]
  \/ j \in [at : {"entered"}]
  \/ j \in [at : {"spend", "send"}, purpose : Purpose]
  \/ j \in [at : {"consume"}, link : Link] /\ link[j.link] # None
  \/ j \in [at : {"apply"}, link : Link] /\ link[j.link] # None /\ link[j.link].consumed

Typed ==
  /\ TypeOK /\ used \in [Link -> Nat]
  /\ \A l \in Link : used[l] > 0 => link[l] # None /\ link[l].consumed
  /\ job = [q \in Request |-> job[q]] /\ \A q \in Request : JobOK(job[q])

Checked(j) ==
  /\ j.at = "failed"  => j.attempts = attempts
  /\ j.at = "send"    => \A l \in Link : link[l] # None /\ link[l].purpose = j.purpose => link[l].consumed
  /\ j.at = "consume" => ~link[j.link].consumed
  /\ j.at = "apply"   => used[j.link] = 0

Unspent(l) == link[l] # None /\ ~link[l].consumed

AloneInv ==
  /\ \A p, q \in Request : job[p] # Idle /\ job[q] # Idle => p = q
  /\ \A q \in Request : Checked(job[q])
  /\ FailuresAreCounted /\ SingleUse
  /\ \A l, k \in Link : Unspent(l) /\ Unspent(k) /\ link[l].purpose = link[k].purpose => l = k
=============================================================================
