---------------------------- MODULE StudentImport ---------------------------
(***************************************************************************)
(* StudentImportService: a file of students, most of them with a parent,   *)
(* is checked against the database query by query, outside a transaction,  *)
(* and then written in one, which counts the seats again under the locks   *)
(* of the arms.                                                            *)
(*                                                                         *)
(* Numbers are those of one admission year, without a prefix (see          *)
(* AdmissionNumbers).  A row says which arm it is for, the number it       *)
(* brings, if any, and its parent's phone and e-mail.                      *)
(***************************************************************************)
EXTENDS Naturals, Sequences, FiniteSets, FiniteSetsExt

CONSTANTS
  Arm, Phone, Email, None,
  capacity,     \* of each arm, which is not resized here
  Files,        \* the files that may come
  Request,
  WRITE_ATTEMPTS,
  MaxStudents,  \* bound on the students of the school
  MayOverlap    \* others are at work between the checks and until the write

Row == [own : Nat, arm : Arm \cup {None, "unknown"}, phone : Phone \cup {None},
        email : Email \cup {None}, ok : BOOLEAN]

ImportAssumption ==
  /\ capacity \in [Arm -> Nat] /\ WRITE_ATTEMPTS \in Nat \ {0} /\ MaxStudents \in Nat
  /\ \A f \in Files : \A i \in DOMAIN f : f[i] \in Row

Options == [atomic : BOOLEAN, mayCreate : BOOLEAN, mayLink : BOOLEAN]

VARIABLES
  students,    \* number, arm and parent of each
  guardians,   \* id, phone and e-mail of each
  job          \* what each import has found out

vars == <<students, guardians, job>>

Idle == [at |-> "none"]

Init == students = {} /\ guardians = {} /\ job = [q \in Request |-> Idle]

Numbers    == {s.number : s \in students}
NextNumber == IF Numbers = {} THEN 1 ELSE Max(Numbers) + 1
Active(a)  == Cardinality({s \in students : s.arm = a})

-----------------------------------------------------------------------------
(* The checks, each of every row in the order of the file.  c is what an   *)
(* import has found out: its file and options, the students then active in *)
(* each arm, and which of its numbers were taken.                          *)

\* checkAdmissionNumbers
TakenNumber(c, i) ==
  LET f == c.file IN
  f[i].own # 0 /\ (f[i].own \in c.taken \/ \E j \in 1..(i - 1) : f[j].own = f[i].own)

\* resolveGuardians: by phone first, then by e-mail.
ByPhone(r) == {g \in guardians : g.phone = r.phone}
ByEmail(r) == {g \in guardians : r.email # None /\ g.email = r.email}

Matches(r) == IF ByPhone(r) # {} THEN ByPhone(r) ELSE ByEmail(r)

Disagree(r) ==
  ByPhone(r) # {} /\ ByEmail(r) # {} /\ ByPhone(r) \cap ByEmail(r) = {}

IsNew(r) == r.phone # None /\ Matches(r) = {}

\* The rows whose parent is to be created, none for one of an earlier row.
Creators(f) ==
  LET upTo[i \in 0..Len(f)] ==
        IF i = 0 THEN {}
        ELSE LET before == upTo[i - 1] IN
             IF /\ IsNew(f[i])
                /\ \A j \in before : /\ f[j].phone # f[i].phone
                                     /\ f[j].email # f[i].email \/ f[i].email = None
             THEN before \cup {i} ELSE before
  IN upTo[Len(f)]

\* A new parent with the e-mail of another one of the file.
OthersEmail(f, i) ==
  /\ IsNew(f[i]) /\ f[i].email # None
  /\ \A j \in Creators(f) : j < i => f[j].phone # f[i].phone
  /\ \E j \in Creators(f) : j < i /\ f[j].email = f[i].email

GuardianRefused(f, i, o) ==
  /\ f[i].phone # None
  /\ \/ Disagree(f[i]) \/ OthersEmail(f, i)
     \/ Matches(f[i]) # {} /\ ~o.mayLink
     \/ IsNew(f[i]) /\ ~o.mayCreate

\* Everything but the seats: checkShape, resolveArms, checkDates and these.
Faulty(c, i) ==
  \/ ~c.file[i].ok \/ c.file[i].arm = "unknown"
  \/ TakenNumber(c, i) \/ GuardianRefused(c.file, i, c.options)

\* checkCapacity: seats go to otherwise valid rows, in file order.
Valid(c) ==
  LET f == c.file
      upTo[i \in 0..Len(f)] ==
        IF i = 0 THEN {}
        ELSE LET before == upTo[i - 1] IN
             IF Faulty(c, i) THEN before
             ELSE IF f[i].arm = None THEN before \cup {i}
             ELSE IF c.active[f[i].arm] + Cardinality({j \in before : f[j].arm = f[i].arm})
                       < capacity[f[i].arm]
             THEN before \cup {i} ELSE before
  IN upTo[Len(f)]

\* allocateNumbers, of the rows that are written.
Allocated(f, rows, i) ==
  IF f[i].own # 0 THEN f[i].own
  ELSE NextNumber + Cardinality({j \in rows : j < i /\ f[j].own = 0})

ToWrite(c) == IF c.options.atomic /\ Valid(c) # DOMAIN c.file THEN {} ELSE Valid(c)

Goes(q, to) == job' = [job EXCEPT ![q] = to] /\ UNCHANGED <<students, guardians>>

\* The arms of the file, with how many are active in each.
ResolveArms(q, f, options) ==
  /\ job[q] = Idle /\ (MayOverlap \/ \A p \in Request : job[p] = Idle)
  /\ Cardinality(students) + Len(f) <= MaxStudents
  /\ Goes(q, [at |-> "numbers", file |-> f, options |-> options,
              active |-> [a \in Arm \cap {f[i].arm : i \in DOMAIN f} |-> Active(a)]])

CheckNumbers(q) ==
  /\ job[q].at = "numbers"
  /\ LET c == job[q]
         own == {c.file[i].own : i \in DOMAIN c.file} IN
     Goes(q, [at |-> "parents", file |-> c.file, options |-> c.options, active |-> c.active,
              taken |-> Numbers \cap own])

\* The parents on file, and with them what the file comes to; the preview is what
\* a dry run would show.
ResolveGuardians(q) ==
  /\ job[q].at = "parents"
  /\ LET f    == job[q].file
         rows == ToWrite(job[q]) IN
     Goes(q, IF rows = {} THEN Idle
             ELSE [at |-> "write", attempt |-> 1, file |-> f, rows |-> rows,
                   atomic |-> job[q].options.atomic,
                   match |-> [i \in rows |-> IF f[i].phone # None /\ Matches(f[i]) # {}
                                             THEN (CHOOSE g \in Matches(f[i]) : TRUE).id ELSE 0],
                   creators |-> Creators(f),
                   preview |-> {Allocated(f, rows, i) : i \in rows}])

-----------------------------------------------------------------------------
(* The transaction: writeOnce.                                             *)

Incoming(q, a) == Cardinality({i \in job[q].rows : job[q].file[i].arm = a})

HasRoom(q) == \A a \in Arm : Incoming(q, a) > 0 => Active(a) + Incoming(q, a) <= capacity[a]

\* The creator of the parent of a row that matched none.
CreatorOf(q, i) == CHOOSE j \in job[q].creators : job[q].file[j].phone = job[q].file[i].phone

Needed(q) ==
  {CreatorOf(q, i) : i \in {k \in job[q].rows : job[q].file[k].phone # None /\ job[q].match[k] = 0}}

NewId(q, j) == Cardinality(guardians) + Cardinality({k \in Needed(q) : k <= j})

Created(q) == {[id |-> NewId(q, j), phone |-> job[q].file[j].phone, email |-> job[q].file[j].email] :
                j \in Needed(q)}

ParentOf(q, i) ==
  IF job[q].file[i].phone = None THEN 0
  ELSE IF job[q].match[i] # 0 THEN job[q].match[i] ELSE NewId(q, CreatorOf(q, i))

Written(q) ==
  {[number |-> Allocated(job[q].file, job[q].rows, i), arm |-> job[q].file[i].arm,
    parent |-> ParentOf(q, i)] : i \in job[q].rows}

\* The unique indexes on admission numbers and on guardians' e-mails.
Violates(q) ==
  \/ Cardinality({s.number : s \in Written(q)}) # Cardinality(job[q].rows)
  \/ \E s \in Written(q) : s.number \in Numbers
  \/ \E g \in Created(q), h \in guardians : g.email # None /\ g.email = h.email

Write(q) ==
  /\ job[q].at = "write" /\ HasRoom(q) /\ ~Violates(q)
  /\ students' = students \cup Written(q) /\ guardians' = guardians \cup Created(q)
  /\ job' = [job EXCEPT ![q] = Idle]

\* Nothing is written: full by now, or a violation once too often.
Refuse(q) ==
  /\ job[q].at = "write"
  /\ ~HasRoom(q) \/ (Violates(q) /\ job[q].attempt = WRITE_ATTEMPTS)
  /\ job' = [job EXCEPT ![q] = Idle] /\ UNCHANGED <<students, guardians>>

Retry(q) ==
  /\ job[q].at = "write" /\ HasRoom(q) /\ Violates(q) /\ job[q].attempt < WRITE_ATTEMPTS
  /\ job' = [job EXCEPT ![q].attempt = @ + 1] /\ UNCHANGED <<students, guardians>>

\* One student admitted on the form meanwhile, under the lock of the arm.
Admit(a) ==
  /\ MayOverlap \/ \A q \in Request : job[q] = Idle
  /\ Cardinality(students) < MaxStudents /\ Active(a) < capacity[a]
  /\ students' = students \cup {[number |-> NextNumber, arm |-> a, parent |-> 0]}
  /\ UNCHANGED <<guardians, job>>

Step(q) == CheckNumbers(q) \/ ResolveGuardians(q) \/ Write(q) \/ Refuse(q) \/ Retry(q)

Next ==
  \/ \E q \in Request : (\E f \in Files, o \in Options : ResolveArms(q, f, o)) \/ Step(q)
  \/ \E a \in Arm : Admit(a)

Spec == Init /\ [][Next]_vars

-----------------------------------------------------------------------------
(***************************************************************************)
(* Types; and no arm is filled past its capacity, though the seats were    *)
(* counted before the write. (writeOnce.)                                  *)
(***************************************************************************)
TypeOK ==
  /\ \A s \in students : s.number \in Nat \ {0} /\ s.arm \in Arm \cup {None}
  /\ \A g \in guardians : g.phone \in Phone /\ g.email \in Email \cup {None}
  /\ \A a \in Arm : Active(a) <= capacity[a]

(***************************************************************************)
(* "Only parents that a written row actually needs are created", and every *)
(* parent a student has is on file.  (writeOnce.)                          *)
(***************************************************************************)
ParentsAreNeeded ==
  {g.id : g \in guardians} = {s.parent : s \in students} \ {0}

(***************************************************************************)
(* "ATOMIC writes all or nothing": however others interfere, an atomic     *)
(* file adds all of its rows or none.  (execute, write.)                   *)
(***************************************************************************)
\* Of every step.
AllOrNothing ==
  \A q \in Request : job[q].at = "write" /\ job'[q] = Idle /\ job[q].atomic =>
    Cardinality(students') - Cardinality(students) \in {0, Len(job[q].file)}

(***************************************************************************)
(* "Siblings in the same file sharing a phone share one parent record      *)
(* rather than creating one each", and a parent on file is matched: a      *)
(* phone has one record.  Holds one import at a time.  (resolveGuardians.) *)
(***************************************************************************)
OneRecordPerPhone ==
  \A g, h \in guardians : g.phone = h.phone => g = h

(***************************************************************************)
(* A dry run "shows exactly what would happen, down to the admission       *)
(* numbers": with nobody else at work, a file is written with the numbers  *)
(* the check came to.  (execute, allocateNumbers.)                         *)
(***************************************************************************)
\* Of every step.
PreviewIsTrue ==
  \A q \in Request : job[q].at = "write" /\ job'[q] = Idle =>
    Numbers' = Numbers \cup job[q].preview
=============================================================================
