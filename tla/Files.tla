-------------------------------- MODULE Files -------------------------------
(***************************************************************************)
(* FilesService and those who call it: bytes in a bucket, rows in the      *)
(* database, the photo a student or a school points at, the evidence a     *)
(* payment points at, and the storage a school may use.                    *)
(*                                                                         *)
(* The bucket and the database are written one after the other.  A school  *)
(* is an owner like a student: its logo is its photo.                      *)
(***************************************************************************)
EXTENDS Naturals, FiniteSets

CONSTANTS
  File, Owner, School, Payment, Request, None,
  size, kind,      \* of each file's bytes
  maxBytes,        \* of each purpose
  childOf,         \* the student of each payment
  Limits,          \* what the operators may allow a school
  MayOverlap,      \* two requests may be under way at once
  MayFail          \* a request or a deletion of bytes may fail half way

Purpose == {"photo", "evidence"}

FilesAssumption ==
  /\ size \in [File -> Nat] /\ maxBytes \in [Purpose -> Nat] /\ Limits \subseteq Nat
  /\ School \in Owner /\ childOf \in [Payment -> Owner \ {School}] /\ IsFiniteSet(File)
  /\ Owner \cap Payment = {} /\ None \notin File \cup Owner \cup Payment \cup Request

VARIABLES
  object,    \* keys in the bucket
  row,       \* what is on file of each
  photo,     \* photoUrl, logoUrl
  evidence,  \* evidenceUrl
  student,   \* owners there are
  limit, most,  \* what the school may use, and the most it ever might
  lock,      \* who holds the school's advisory lock
  job

vars == <<object, row, photo, evidence, student, limit, most, lock, job>>

NoRow == [purpose |-> "none", linked |-> None, child |-> None]
Idle  == [at |-> "none", files |-> {}, bytes |-> None, file |-> None,
          owner |-> None, then |-> "nothing", purpose |-> "none"]

Init ==
  /\ object = {} /\ row = [f \in File |-> NoRow] /\ photo = [o \in Owner |-> None]
  /\ evidence = [p \in Payment |-> None] /\ student = Owner
  /\ limit \in Limits /\ most = limit /\ lock = None /\ job = [q \in Request |-> Idle]

Rows       == {f \in File : row[f] # NoRow}
Used       == Cardinality(UNION {{f} \X (1..size[f]) : f \in Rows})   \* byte by byte
Photos(o)  == {f \in Rows : row[f].purpose = "photo" /\ row[f].linked = o}
Calm       == \A q \in Request : job[q] = Idle
Free(q)    == job[q] = Idle /\ (~MayOverlap => Calm)
InUse(f)   == (\E o \in Owner : photo[o] = f) \/ (\E p \in Payment : evidence[p] = f)
Fresh(f)   == /\ f \notin object \cup Rows /\ ~InUse(f)
              /\ \A q \in Request : f \notin job[q].files \cup {job[q].file, job[q].bytes}

Goes(q, at) == job' = [job EXCEPT ![q].at = at]
Done(q)     == job' = [job EXCEPT ![q] = Idle]
Unlock      == lock' = None

-----------------------------------------------------------------------------
(* Uploading.                                                              *)

\* The bytes decide what a file is.
FilePolicies == [photo |-> {"image"}, evidence |-> {"image", "pdf"}]

checkFile(f, purpose) ==
  size[f] \in 1..maxBytes[purpose] /\ kind[f] \in FilePolicies[purpose]

\* Written to storage first.  Only setPhoto and setLogo replace what was there.
Upload(q, f, purpose, o, then) ==
  /\ Free(q) /\ Fresh(f) /\ checkFile(f, purpose) /\ o \in student \cup {None}
  /\ IF then = "point" THEN purpose = "photo" /\ o # None ELSE o # School
  /\ object' = object \cup {f}
  /\ job' = [job EXCEPT ![q] = [Idle EXCEPT !.at = "put", !.file = f, !.owner = o,
                                         !.then = then, !.purpose = purpose]]
  /\ UNCHANGED <<row, photo, evidence, student, limit, most, lock>>

\* A bug: every request takes the lock at once.
LockNothing(q) ==
  /\ job[q].at = "put" /\ Goes(q, "locked")
  /\ UNCHANGED <<object, row, photo, evidence, student, limit, most, lock>>

lockSchoolScope(q) ==
  /\ job[q].at = "put" /\ lock = None /\ lock' = q /\ Goes(q, "locked")
  /\ UNCHANGED <<object, row, photo, evidence, student, limit, most>>

Room(f) == Used + size[f] <= limit

\* A refusal rolls back, which lets the lock go.
assertWithinQuota(q) ==
  /\ job[q].at = "locked"
  /\ \/ Room(job[q].file) /\ Goes(q, "insert") /\ UNCHANGED lock
     \/ ~Room(job[q].file) /\ Goes(q, "discard") /\ Unlock
  /\ UNCHANGED <<object, row, photo, evidence, student, limit, most>>

Insert(q) ==
  /\ job[q].at = "insert" /\ Unlock
  /\ row' = [row EXCEPT ![job[q].file] =
               [purpose |-> job[q].purpose, linked |-> job[q].owner, child |-> job[q].owner]]
  /\ IF job[q].then = "point" THEN Goes(q, "replace") ELSE Done(q)
  /\ UNCHANGED <<object, photo, evidence, student, limit, most>>

Discard(q) ==
  /\ job[q].at = "discard" /\ Done(q) /\ object' = object \ {job[q].file}
  /\ UNCHANGED <<row, photo, evidence, student, limit, most, lock>>

-----------------------------------------------------------------------------
(* Deleting: row first, then bytes.                                        *)

Previous(o, f) == Photos(o) \ {f}

Replace(q) ==
  /\ job[q].at = "replace"
  /\ job' = [job EXCEPT ![q].at = "forget", ![q].files = Previous(job[q].owner, job[q].file)]
  /\ UNCHANGED <<object, row, photo, evidence, student, limit, most, lock>>

\* removeLinked, for a cleared photo or a student who is removed.
RemoveLinked(q, o, then) ==
  /\ Free(q) /\ o \in student
  /\ then = "leave" => o # School /\ \A p \in Payment : childOf[p] = o => evidence[p] = None
  /\ job' = [job EXCEPT ![q] = [Idle EXCEPT !.at = "forget", !.files = Photos(o), !.owner = o, !.then = then]]
  /\ UNCHANGED <<object, row, photo, evidence, student, limit, most, lock>>

Remove(q, f) ==
  /\ Free(q) /\ f \in Rows /\ row[f].linked \notin Payment
  /\ job' = [job EXCEPT ![q] = [Idle EXCEPT !.at = "forget", !.files = {f}]]
  /\ UNCHANGED <<object, row, photo, evidence, student, limit, most, lock>>

\* A row somebody else deleted fails the request.
Forget(q, f) ==
  /\ job[q].at = "forget" /\ f \in job[q].files
  /\ IF f \in Rows
     THEN job' = [job EXCEPT ![q].at = "bytes", ![q].files = @ \ {f}, ![q].bytes = f]
     ELSE Done(q)
  /\ row' = [row EXCEPT ![f] = NoRow]
  /\ UNCHANGED <<object, photo, evidence, student, limit, most, lock>>

ForgetObject(q) ==
  /\ job[q].at = "bytes" /\ object' = object \ {job[q].bytes}
  /\ job' = [job EXCEPT ![q].at = "forget", ![q].bytes = None]
  /\ UNCHANGED <<row, photo, evidence, student, limit, most, lock>>

\* The student points at the new photo, at none, or is gone: the last write of
\* setPhoto, setLogo, removePhoto, removeLogo and of a student's removal.
Finish(q) ==
  LET o == job[q].owner IN
  /\ job[q].at = "forget" /\ job[q].files = {} /\ Done(q)
  /\ photo' = IF o \in student /\ job[q].then # "nothing"
              THEN [photo EXCEPT ![o] = IF job[q].then = "point" THEN job[q].file ELSE None]
              ELSE photo
  /\ student' = IF job[q].then = "leave" THEN student \ {o} ELSE student
  /\ evidence' = [p \in Payment |-> IF childOf[p] \in student' THEN evidence[p] ELSE None]
  /\ UNCHANGED <<object, row, limit, most, lock>>

-----------------------------------------------------------------------------
(* A payment and its evidence, the operators, and what can go wrong.       *)

\* Another child's file is not found.
BelongsTo(f, c) ==
  /\ f \in Rows /\ row[f].purpose = "evidence"
  /\ row[f].linked \in Owner => row[f].linked = c

\* attachToPayment, in the transaction that records the payment.
Pay(p, f) ==
  /\ ~MayOverlap => Calm
  /\ evidence[p] = None /\ childOf[p] \in student /\ BelongsTo(f, childOf[p])
  /\ evidence' = [evidence EXCEPT ![p] = f] /\ row' = [row EXCEPT ![f].linked = p]
  /\ UNCHANGED <<object, photo, student, limit, most, lock, job>>

SetQuota(l) ==
  /\ l # limit /\ limit' = l /\ most' = IF l > most THEN l ELSE most
  /\ UNCHANGED <<object, row, photo, evidence, student, lock, job>>

\* The transaction fails, and its bytes are discarded.
InsertFails(q) ==
  /\ MayFail /\ job[q].at \in {"locked", "insert"} /\ Unlock /\ Goes(q, "discard")
  /\ UNCHANGED <<object, row, photo, evidence, student, limit, most>>

\* A deletion of bytes that fails leaves an orphan, and a warning.
DiscardFails(q) ==
  /\ MayFail
  /\ \/ job[q].at = "discard" /\ Done(q)
     \/ job[q].at = "bytes" /\ job' = [job EXCEPT ![q].at = "forget", ![q].bytes = None]
  /\ UNCHANGED <<object, row, photo, evidence, student, limit, most, lock>>

\* A request stops, and its transaction with it.
Stop(q) ==
  /\ MayFail /\ job[q] # Idle /\ Done(q) /\ lock' = IF lock = q THEN None ELSE lock
  /\ UNCHANGED <<object, row, photo, evidence, student, limit, most>>

Step(q) ==
  \/ lockSchoolScope(q) \/ assertWithinQuota(q) \/ Insert(q) \/ Discard(q)
  \/ Replace(q) \/ ForgetObject(q) \/ Finish(q)
  \/ \E f \in File : Forget(q, f)

Next ==
  \/ \E q \in Request, f \in File, purpose \in Purpose, o \in Owner \cup {None},
       then \in {"point", "nothing"} : Upload(q, f, purpose, o, then)
  \/ \E q \in Request, o \in Owner, then \in {"clear", "leave"} : RemoveLinked(q, o, then)
  \/ \E q \in Request, f \in File : Remove(q, f)
  \/ \E q \in Request : Step(q) \/ InsertFails(q) \/ DiscardFails(q) \/ Stop(q)
  \/ \E p \in Payment, f \in File : Pay(p, f)
  \/ \E l \in Limits : SetQuota(l)

Spec == Init /\ [][Next]_vars

-----------------------------------------------------------------------------
(***************************************************************************)
(* Types; the lock is held by a request inside its transaction.            *)
(***************************************************************************)
TypeOK ==
  /\ object \subseteq File /\ photo \in [Owner -> File \cup {None}]
  /\ \A f \in Rows : row[f].linked \in Owner \cup Payment \cup {None}
  /\ \A q \in Request : lock = q <=> job[q].at \in {"locked", "insert"}

(***************************************************************************)
(* "A row pointing at bytes that are not there is worse than bytes nothing *)
(* points at": whatever fails, overlaps or stops.  (upload, forget,        *)
(* discard.)                                                               *)
(***************************************************************************)
RowsHaveBytes == Rows \subseteq object

(***************************************************************************)
(* A school stores no more than it was ever allowed, however many uploads  *)
(* arrive at the same moment.  (lockSchoolScope, assertWithinQuota.)       *)
(***************************************************************************)
WithinQuota == Used <= most

(***************************************************************************)
(* Where nothing fails, no bytes are left that nothing points at.          *)
(* (upload's catch, discard, forget.)                                      *)
(***************************************************************************)
NothingIsLeft == Calm => object = Rows

(***************************************************************************)
(* "A new passport photo means the old one goes, rather than accumulating  *)
(* in the bucket for ever."  Holds where no two requests overlap.          *)
(* (setPhoto, setLogo, replaceLinked.)                                     *)
(***************************************************************************)
\* Of every step.
OldPhotosGo ==
  \A o \in Owner : photo'[o] \notin {photo[o], None} => Photos(o)' = {photo'[o]}

(***************************************************************************)
(* A request that points a student at a photo points them at one there is. *)
(* Holds where no two requests overlap.  (setPhoto, replaceLinked, removeLinked.)        *)
(***************************************************************************)
\* Of every step.
PhotoIsThere ==
  \A o \in Owner : photo'[o] \notin {photo[o], None} => photo'[o] \in Rows

(***************************************************************************)
(* "A file attached to a payment is evidence of that payment and stays."   *)
(* Holds where no two requests overlap.  (remove, attachToPayment.)        *)
(***************************************************************************)
\* Of every step.
EvidenceStays == \A f \in File : row[f].linked \in Payment => f \in Rows'

(***************************************************************************)
(* A file is deleted, other than by what replaces it, when nothing uses    *)
(* it.  (remove.)                                                          *)
(***************************************************************************)
\* Of every step.
OnlyUnusedFilesGo ==
  \A q \in Request, f \in File : Remove(q, f) => ~InUse(f)

(***************************************************************************)
(* Another child's file is no evidence.  (attachToPayment.)                *)
(***************************************************************************)
OwnEvidence ==
  \A p \in Payment : evidence[p] \in Rows =>
    row[evidence[p]].child \in {childOf[p], None}

(***************************************************************************)
(* Why they hold.  Bytes that have no row yet, or none any more, belong to *)
(* one request, which alone may insert the row or delete them; whoever     *)
(* inserts holds the lock, and found room.  One request at a time, what a  *)
(* request deletes is no evidence of a payment; of a student's photos it   *)
(* deletes all but the new one; and where nothing fails as well, the       *)
(* bytes with no row are those it has in hand.                             *)
(***************************************************************************)
Uploading == {"put", "locked", "insert", "discard"}
Bare      == Purpose \cup {"none"}
Jobs == [at : Uploading \cup {"none", "replace", "forget", "bytes"}, files : SUBSET File,
         bytes : File \cup {None}, file : File \cup {None}, owner : Owner \cup {None},
         then : {"nothing", "point", "clear", "leave"}, purpose : Bare]

InHand(j) == j.files \cup {j.file, j.bytes}

JobOK(j) ==
  /\ j.at \in Uploading => j.file \in File \ Rows /\ j.purpose \in Purpose
  /\ j.at \in Uploading \ {"discard"} => j.file \in object
  /\ j.at = "bytes" => j.bytes \in File \ Rows
  /\ j.then = "point" => /\ j.file \in File /\ j.owner \in Owner
                         /\ j.at \in Uploading => j.purpose = "photo"

Typed ==
  /\ TypeOK /\ RowsHaveBytes
  /\ row \in [File -> [purpose : Bare, linked : Owner \cup Payment \cup {None},
                       child : Owner \cup {None}]]
  /\ job \in [Request -> Jobs] /\ \A q \in Request : JobOK(job[q])
  /\ \A p, q \in Request : p # q /\ job[p].at \in Uploading => job[p].file \notin InHand(job[q])
  /\ limit \in Nat /\ most \in Nat /\ limit <= most

Afforded ==
  /\ WithinQuota
  /\ \A q \in Request : job[q].at = "insert" => Used + size[job[q].file] <= most

Checked(j) ==
  /\ \A f \in j.files : row[f].linked \notin Payment
  /\ j.then = "point" /\ j.at = "replace" => j.file \in Photos(j.owner)
  /\ j.then = "point" /\ j.at \in {"forget", "bytes"} =>
       Photos(j.owner) = j.files \cup {j.file} /\ j.file \notin j.files

AloneInv ==
  /\ \A p, q \in Request : job[p] # Idle /\ job[q] # Idle => p = q
  /\ \A q \in Request : Checked(job[q])

Unrowed(j) == IF j.at \in Uploading THEN {j.file} ELSE IF j.at = "bytes" THEN {j.bytes} ELSE {}

Neat == object = Rows \cup UNION {Unrowed(job[q]) : q \in Request}
=============================================================================
