-------------------------- MODULE AdmissionNumbers --------------------------
(***************************************************************************)
(* Admission numbers of one school and one admission year:                 *)
(* createWithGeneratedNumber of StudentsService, and the batches of        *)
(* StudentImportService.                                                   *)
(*                                                                         *)
(* The next number follows the highest on file, read with nothing locked;  *)
(* the unique index on the whole number is the guard, and a violation is   *)
(* answered by another attempt.                                            *)
(***************************************************************************)
EXTENDS Naturals, FiniteSets, FiniteSetsExt

CONSTANTS
  Admission, Batch,   \* requests: one student, or a file of them
  Prefix, NoPrefix,
  ADMISSION_NUMBER_ATTEMPTS, WRITE_ATTEMPTS,
  BatchSize,
  MaxSequence         \* bound on hand-typed numbers

NumbersAssumption ==
  /\ {ADMISSION_NUMBER_ATTEMPTS, WRITE_ATTEMPTS, BatchSize} \subseteq Nat \ {0}
  /\ MaxSequence \in Nat /\ Admission \cap Batch = {}

VARIABLES
  numbers,   \* students.studentId: the prefix and the sequence
  prefix,    \* admissionNumberPrefix
  job,       \* what each request has read
  landed     \* landed[q]: numbers others wrote since a request began

vars == <<numbers, prefix, job, landed>>

Request == Admission \cup Batch
Idle    == [at |-> "none", attempt |-> 0]
Over    == [at |-> "over", attempt |-> 0]
Refused == [at |-> "refused", attempt |-> 0]

Init ==
  /\ numbers = {} /\ prefix \in Prefix \cup {NoPrefix}
  /\ job = [q \in Request |-> Idle] /\ landed = [q \in Request |-> 0]

-----------------------------------------------------------------------------
\* nextSequence
NextSequence(existing) ==
  IF existing = {} THEN 1 ELSE Max({n.seq : n \in existing}) + 1

\* startsWith: `${year}/`
Matching == {n \in numbers : n.prefix = NoPrefix}

Number(p, s) == [prefix |-> p, seq |-> s]

Attempts(q) == IF q \in Batch THEN WRITE_ATTEMPTS ELSE ADMISSION_NUMBER_ATTEMPTS
Proposed(q) ==
  {Number(job[q].prefix, s) : s \in job[q].seq..(job[q].seq + IF q \in Batch THEN BatchSize - 1 ELSE 0)}

Land(q, new) ==
  /\ numbers' = numbers \cup new
  /\ landed' = [r \in Request |-> IF r # q /\ job[r].at \in {"read", "propose"}
                                  THEN landed[r] + Cardinality(new) ELSE landed[r]]

-----------------------------------------------------------------------------
\* findMany
Read(q) ==
  /\ job[q].at \in {"none", "again"}
  /\ job' = [job EXCEPT ![q] = [at |-> "read", attempt |-> job[q].attempt + 1,
                                seq |-> NextSequence(Matching)]]
  /\ UNCHANGED <<numbers, prefix, landed>>

\* settings.current, formatAdmissionNumber
Propose(q) ==
  /\ job[q].at = "read"
  /\ job' = [job EXCEPT ![q] = [at |-> "propose", attempt |-> job[q].attempt,
                                seq |-> job[q].seq, prefix |-> prefix]]
  /\ UNCHANGED <<numbers, prefix, landed>>

\* The transaction: all of the numbers, or a violation of the index.
Insert(q) ==
  /\ job[q].at = "propose"
  /\ \/ /\ Proposed(q) \cap numbers = {}
        /\ Land(q, Proposed(q)) /\ job' = [job EXCEPT ![q] = Over]
     \/ /\ Proposed(q) \cap numbers # {}
        /\ job' = [job EXCEPT ![q] = IF job[q].attempt < Attempts(q)
                                     THEN [at |-> "again", attempt |-> job[q].attempt] ELSE Refused]
        /\ UNCHANGED <<numbers, landed>>
  /\ UNCHANGED prefix

\* admit with a number of the school's own, looked up and inserted.
Supplied(s) ==
  /\ Number(NoPrefix, s) \notin numbers
  /\ Land("nobody", {Number(NoPrefix, s)})
  /\ UNCHANGED <<prefix, job>>

\* SchoolSettingsService.update
ChangePrefix(p) == p # prefix /\ prefix' = p /\ UNCHANGED <<numbers, job, landed>>

Ended == /\ \A q \in Request : job[q].at \in {"over", "refused"}
         /\ UNCHANGED vars

Step(q) == Read(q) \/ Propose(q) \/ Insert(q)

Fixed ==
  \/ \E q \in Request : Step(q)
  \/ \E s \in 1..MaxSequence : Supplied(s)
  \/ Ended

Next == Fixed \/ \E p \in Prefix \cup {NoPrefix} : ChangePrefix(p)

\* A school that keeps a prefix; and one that may change it.
PrefixedSpec == Init /\ prefix # NoPrefix /\ [][Fixed]_vars
Spec         == Init /\ [][Next]_vars

-----------------------------------------------------------------------------
(***************************************************************************)
(* Types: sequences begin at 1, and attempts are bounded.                  *)
(* (createWithGeneratedNumber.)                                            *)
(***************************************************************************)
TypeOK ==
  /\ \A n \in numbers : n.prefix \in Prefix \cup {NoPrefix} /\ n.seq \in Nat \ {0}
  /\ prefix \in Prefix \cup {NoPrefix}
  /\ \A q \in Request : job[q].attempt \in 0..Attempts(q)

(***************************************************************************)
(* A request gives up only when it was beaten to every one of its          *)
(* attempts: at least as many numbers of others landed while it was at     *)
(* work. (createWithGeneratedNumber, write.)                               *)
(***************************************************************************)
GivesUpWhenBeaten ==
  \A q \in Request : job[q].at = "refused" => landed[q] >= Attempts(q)

(***************************************************************************)
(* "The year's sequence continues across a change" of the prefix: no two   *)
(* students of a year share a sequence number. (nextSequence.)             *)
(***************************************************************************)
SequenceContinues ==
  \A n, k \in numbers : n.seq = k.seq => n = k
=============================================================================
