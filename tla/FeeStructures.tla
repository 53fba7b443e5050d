---------------------------- MODULE FeeStructures ---------------------------
(***************************************************************************)
(* FeeStructuresService, FeeCategoriesService and StudentFeesService.assign: *)
(* a structure lists what is charged, and assigning it issues one invoice  *)
(* to each student.  A request reads first and writes later, without a     *)
(* lock in between.                                                        *)
(*                                                                         *)
(* Names, terms, classes and dates are left out.  What becomes of an       *)
(* invoice once it is issued is InvoiceLedger's.                           *)
(***************************************************************************)
EXTENDS Naturals, FiniteSets

CONSTANTS
  Category, Student, Structure, Request,
  ItemLists,    \* the lists of items that are asked for
  MayOverlap    \* two requests may be under way at once

Item == [category : Category, amount : Nat, optional : BOOLEAN]

FeeStructuresAssumption ==
  \A l \in ItemLists : /\ l # {} /\ l \subseteq Item
                       /\ \A i, j \in l : i.category = j.category => i = j

VARIABLES
  category,    \* "none", "active" or "retired"
  structure,   \* status, items and the total kept beside them
  student,     \* "ACTIVE" or "WITHDRAWN"
  invoices,
  job          \* what each request has read

vars == <<category, structure, student, invoices, job>>

NoRow == [status |-> "none", items |-> {}, total |-> 0]
Idle  == [at |-> "none"]

Init ==
  /\ category = [c \in Category |-> "none"] /\ structure = [s \in Structure |-> NoRow]
  /\ student = [n \in Student |-> "ACTIVE"] /\ invoices = {} /\ job = [q \in Request |-> Idle]

\* Counted unit by unit, so that a sum is the size of a set.
Sum(items) == Cardinality(UNION {{i} \X (1..i.amount) : i \in items})

\* Optional items are quoted, not charged.
compulsoryTotal(items) == Sum({i \in items : ~i.optional})

InvoicesOf(s) == {v \in invoices : v.structure = s}
Billed(s)     == {v.student : v \in InvoicesOf(s)}
Active        == {n \in Student : student[n] = "ACTIVE"}

\* assertCategoriesUsable
Usable(items) == \A i \in items : category[i.category] = "active"

\* The foreign key of an item.
OnFile(items) == \A i \in items : category[i.category] # "none"

Under   == {"create", "update", "publish", "archive", "remove", "bill", "skip", "issue"}
Free(q) == job[q].at \notin Under /\ (MayOverlap \/ \A p \in Request : job[p].at \notin Under)

End(q, outcome) == job' = [job EXCEPT ![q] = [at |-> outcome]]

-----------------------------------------------------------------------------
(* Categories, and the students' own comings and goings.                   *)

CreateCategory(c) ==
  /\ category[c] = "none" /\ category' = [category EXCEPT ![c] = "active"]
  /\ UNCHANGED <<structure, student, invoices, job>>

UpdateCategory(c) ==
  /\ category[c] # "none"
  /\ \E to \in {"active", "retired"} : category' = [category EXCEPT ![c] = to]
  /\ UNCHANGED <<structure, student, invoices, job>>

\* The count is read first; the foreign key keeps a category in use.
RemoveCategory(c) ==
  /\ category[c] # "none"
  /\ \A s \in Structure : \A i \in structure[s].items : i.category # c
  /\ category' = [category EXCEPT ![c] = "none"]
  /\ UNCHANGED <<structure, student, invoices, job>>

ChangeStatus(n) ==
  /\ MayOverlap \/ \A p \in Request : job[p].at \notin Under
  /\ \E to \in {"ACTIVE", "WITHDRAWN"} : student' = [student EXCEPT ![n] = to]
  /\ UNCHANGED <<category, structure, invoices, job>>

-----------------------------------------------------------------------------
(* Structures.                                                             *)

Create(q, items) ==
  /\ Free(q) /\ Usable(items)
  /\ job' = [job EXCEPT ![q] = [at |-> "create", items |-> items]]
  /\ UNCHANGED <<category, structure, student, invoices>>

\* Each request on a structure reads it and refuses what it may not do.
Ask(q, s, op, allowed, items) ==
  /\ Free(q) /\ structure[s] # NoRow /\ allowed
  /\ job' = [job EXCEPT ![q] = [at |-> op, s |-> s, items |-> items]]
  /\ UNCHANGED <<category, structure, student, invoices>>

Update(q, s, items) == Ask(q, s, "update", InvoicesOf(s) = {} /\ Usable(items), items)

Publish(q, s) == Ask(q, s, "publish", structure[s].status = "DRAFT" /\ structure[s].items # {}, {})

Archive(q, s) == Ask(q, s, "archive", structure[s].status # "ARCHIVED", {})
Remove(q, s)  == Ask(q, s, "remove", InvoicesOf(s) = {}, {})

Write(q, s, row) ==
  /\ structure' = [structure EXCEPT ![s] = row] /\ End(q, "done")
  /\ UNCHANGED <<category, student, invoices>>

\* A new structure gets an id that nothing refers to.
WriteCreate(q) ==
  /\ job[q].at = "create" /\ OnFile(job[q].items)
  /\ \E s \in Structure :
       /\ structure[s] = NoRow /\ \A p \in Request : "s" \in DOMAIN job[p] => job[p].s # s
       /\ Write(q, s, [status |-> "DRAFT", items |-> job[q].items,
                       total |-> compulsoryTotal(job[q].items)])

Retotalled(s, items) ==
  [structure[s] EXCEPT !.items = items, !.total = compulsoryTotal(items)]

WriteUpdate(q) ==
  /\ job[q].at = "update" /\ structure[job[q].s] # NoRow /\ OnFile(job[q].items)
  /\ Write(q, job[q].s, Retotalled(job[q].s, job[q].items))

WriteStatus(q) ==
  /\ job[q].at \in {"publish", "archive"} /\ structure[job[q].s] # NoRow
  /\ Write(q, job[q].s, [structure[job[q].s] EXCEPT
                           !.status = IF job[q].at = "publish" THEN "PUBLISHED" ELSE "ARCHIVED"])

\* The foreign key of an invoice keeps its structure.
WriteRemove(q) ==
  /\ job[q].at = "remove" /\ structure[job[q].s] # NoRow /\ InvoicesOf(job[q].s) = {}
  /\ Write(q, job[q].s, NoRow)

\* What it was about is gone, or a foreign key stands against it.
Fail(q) ==
  /\ \/ job[q].at \in {"create", "update"} /\ ~OnFile(job[q].items)
     \/ job[q].at \in {"update", "publish", "archive", "remove"} /\ structure[job[q].s] = NoRow
     \/ job[q].at = "remove" /\ InvoicesOf(job[q].s) # {}
  /\ End(q, "refused") /\ UNCHANGED <<category, structure, student, invoices>>

-----------------------------------------------------------------------------
(* assign: the structure, then the students, then who of them is billed    *)
(* already, then all invoices in one transaction.                          *)

Assign(q, s, wanted) ==
  /\ Free(q) /\ structure[s].status = "PUBLISHED"
  /\ wanted \subseteq {i \in structure[s].items : i.optional}
  /\ job' = [job EXCEPT ![q] =
       [at |-> "bill", s |-> s, items |-> {i \in structure[s].items : ~i.optional} \cup wanted]]
  /\ UNCHANGED <<category, structure, student, invoices>>

\* A whole arm, or a list of students.
ResolveStudents(q, students) ==
  /\ job[q].at = "bill" /\ students # {} /\ students \subseteq Active
  /\ job' = [job EXCEPT ![q] = [at |-> "skip", s |-> job[q].s, items |-> job[q].items,
                                students |-> students]]
  /\ UNCHANGED <<category, structure, student, invoices>>

\* Somebody on the list, or everybody in the arm, is not active.
RefuseStudents(q) ==
  /\ job[q].at = "bill" /\ Active # Student /\ End(q, "refused")
  /\ UNCHANGED <<category, structure, student, invoices>>

Targets(q) == job[q].students \ Billed(job[q].s)

SkipBilled(q) ==
  /\ job[q].at = "skip"
  /\ job' = [job EXCEPT ![q] = [at |-> "issue", s |-> job[q].s, items |-> job[q].items,
                                students |-> job[q].students, targets |-> Targets(q)]]
  /\ UNCHANGED <<category, structure, student, invoices>>

Invoice(q, n) ==
  [student |-> n, structure |-> job[q].s, items |-> job[q].items, total |-> Sum(job[q].items),
   status |-> IF Sum(job[q].items) = 0 THEN "PAID" ELSE "UNPAID"]

\* A bug: no unique index.
ClashNever(q) == FALSE

\* One invoice for each student and structure, of a structure on file.
Clash(q) == job[q].targets \cap Billed(job[q].s) # {}
Lost(q)  == job[q].targets # {} /\ structure[job[q].s] = NoRow

Issue(q) ==
  /\ job[q].at = "issue" /\ ~Clash(q) /\ ~Lost(q)
  /\ invoices' = invoices \cup {Invoice(q, n) : n \in job[q].targets}
  /\ job' = [job EXCEPT ![q] = [at |-> "issued", s |-> job[q].s, students |-> job[q].students]]
  /\ UNCHANGED <<category, structure, student>>

\* The transaction fails as a whole.
Abort(q) ==
  /\ \/ job[q].at = "issue" /\ Clash(q) /\ End(q, "duplicate")
     \/ job[q].at = "issue" /\ ~Clash(q) /\ Lost(q) /\ End(q, "refused")
  /\ UNCHANGED <<category, structure, student, invoices>>

Next ==
  \/ \E c \in Category : CreateCategory(c) \/ UpdateCategory(c) \/ RemoveCategory(c)
  \/ \E n \in Student : ChangeStatus(n)
  \/ \E q \in Request, items \in ItemLists : \/ Create(q, items)
                                             \/ \E s \in Structure : Update(q, s, items)
  \/ \E q \in Request, s \in Structure :
       \/ Publish(q, s) \/ Archive(q, s) \/ Remove(q, s)
       \/ \E wanted \in SUBSET {i \in structure[s].items : i.optional} : Assign(q, s, wanted)
  \/ \E q \in Request : \/ WriteCreate(q) \/ WriteUpdate(q) \/ WriteStatus(q) \/ WriteRemove(q)
                        \/ Fail(q) \/ RefuseStudents(q) \/ SkipBilled(q) \/ Issue(q) \/ Abort(q)
                        \/ \E students \in SUBSET Active : ResolveStudents(q, students)

Spec == Init /\ [][Next]_vars

-----------------------------------------------------------------------------
(***************************************************************************)
(* Types; and the total kept beside the items of a structure is that of    *)
(* its compulsory items, which the lists of structures rely on.  (update.) *)
(***************************************************************************)
TypeOK ==
  /\ category \in [Category -> {"none", "active", "retired"}]
  /\ \A s \in Structure :
       /\ structure[s].status \in {"none", "DRAFT", "PUBLISHED", "ARCHIVED"}
       /\ structure[s].items \subseteq Item
       /\ structure[s].total = compulsoryTotal(structure[s].items)
  /\ \A v \in invoices : v.student \in Student /\ structure[v.structure] # NoRow

(***************************************************************************)
(* An invoice's total is that of the items copied onto it, and nothing but *)
(* a bill of nothing is settled as it is issued.  (assign, billableItems.) *)
(***************************************************************************)
InvoicesAddUp ==
  \A v \in invoices : v.total = Sum(v.items) /\ (v.status = "PAID" <=> Sum(v.items) = 0)

(***************************************************************************)
(* A student holds one invoice of a structure, whatever requests overlap.  *)
(* (assign; the unique index.)                                             *)
(***************************************************************************)
BilledOnce ==
  \A v, w \in invoices : v.student = w.student /\ v.structure = w.structure => v = w

(***************************************************************************)
(* A request that is answered with its invoices leaves nobody it was asked *)
(* to bill without one of this structure.  (assign.)                       *)
(***************************************************************************)
NobodyIsMissed ==
  \A q \in Request : job[q].at = "issued" => job[q].students \subseteq Billed(job[q].s)

(***************************************************************************)
(* "Structure amounts are locked once invoices exist".  Holds where no two *)
(* requests overlap.  (update, assertNoInvoices.)                          *)
(***************************************************************************)
\* Of every step.
LockedOnceIssued ==
  \A s \in Structure : InvoicesOf(s) # {} => structure'[s].items = structure[s].items

(***************************************************************************)
(* "An archived fee structure cannot be published again".  (publish.)       *)
(***************************************************************************)
\* Of every step.
ArchivedForGood ==
  \A s \in Structure : structure[s].status = "ARCHIVED" =>
    structure'[s].status \in {"ARCHIVED", "none"}

(***************************************************************************)
(* "Only PUBLISHED structures can be assigned": the structure is published *)
(* when its invoices are issued.  (getPublishedOrThrow, assign.)           *)
(***************************************************************************)
\* Of every step.
OnlyPublishedIsBilled ==
  \A v \in invoices' \ invoices : structure[v.structure].status = "PUBLISHED"

(***************************************************************************)
(* "Withdrawn students are never billed".  (resolveStudents, assign.)      *)
(***************************************************************************)
\* Of every step.
WithdrawnNeverBilled ==
  \A v \in invoices' \ invoices : student[v.student] = "ACTIVE"

(***************************************************************************)
(* "Students who already hold an invoice for this structure are skipped    *)
(* rather than failing the batch": no assignment ends on a duplicate.      *)
(* (assign.)                                                               *)
(***************************************************************************)
SkippedNotFailed == \A q \in Request : job[q].at # "duplicate"

(***************************************************************************)
(* Why they hold.  A row keeps its total, and invoices are never deleted,  *)
(* so that whom an assignment left out as billed is billed for good.  One  *)
(* request at a time, what a request has checked is still so when it       *)
(* writes: retiring a category meanwhile changes none of it.               *)
(***************************************************************************)
JobOK(j) ==
  \/ j \in [at : {"none", "done", "refused", "duplicate"}]
  \/ j \in [at : {"create"}, items : SUBSET Item]
  \/ j \in [at : {"update", "publish", "archive", "remove", "bill"}, s : Structure,
            items : SUBSET Item]
  \/ j \in [at : {"skip"}, s : Structure, items : SUBSET Item, students : SUBSET Student]
  \/ /\ j \in [at : {"issue"}, s : Structure, items : SUBSET Item,
                students : SUBSET Student, targets : SUBSET Student]
     /\ j.students \ j.targets \subseteq Billed(j.s)
  \/ /\ j \in [at : {"issued"}, s : Structure, students : SUBSET Student]
     /\ j.students \subseteq Billed(j.s)

Typed ==
  /\ category \in [Category -> {"none", "active", "retired"}]
  /\ student \in [Student -> {"ACTIVE", "WITHDRAWN"}]
  /\ structure = [s \in Structure |-> structure[s]]
  /\ \A s \in Structure : structure[s] \in {NoRow} \cup
       [status : {"DRAFT", "PUBLISHED", "ARCHIVED"}, items : SUBSET Item,
        total : {compulsoryTotal(structure[s].items)}]
  /\ \A v \in invoices : v.student \in Student /\ v.structure \in Structure
                          /\ structure[v.structure] # NoRow
  /\ job = [q \in Request |-> job[q]] /\ \A q \in Request : JobOK(job[q])

Checked(j) ==
  /\ j.at \in {"update", "remove"} => InvoicesOf(j.s) = {}
  /\ j.at = "publish" => structure[j.s].status = "DRAFT"
  /\ j.at \in {"bill", "skip", "issue"} => structure[j.s].status = "PUBLISHED"
  /\ j.at = "skip" => j.students \subseteq Active
  /\ j.at = "issue" => j.targets \subseteq Active /\ j.targets \cap Billed(j.s) = {}
  /\ j.at # "duplicate"

AloneInv ==
  /\ \A p, q \in Request : job[p].at \in Under /\ job[q].at \in Under => p = q
  /\ \A q \in Request : Checked(job[q])
=============================================================================
