---------------------------- MODULE ResultSheets ----------------------------
(***************************************************************************)
(* Scores and result sheets of the arms of a school, for one term:         *)
(* ScoresService.save, ResultSheetsService and the withdrawal of a subject *)
(* in SubjectsService, by requests that overlap.                           *)
(*                                                                         *)
(* A transaction takes effect at its last step.  What it reads first under *)
(* the lock of the sheet is kept in its request; the scores, which it      *)
(* reads last, are read in the step that commits.                          *)
(***************************************************************************)
EXTENDS Naturals, FiniteSets

CONSTANTS
  Arm, Class, ClassOf,       \* ClassOf[a]: the class of an arm
  Student, Subject, Mark,
  Component,                 \* the scheme: fixed once scores exist (Assessment)
  Scale,                     \* grading scales an administrator may set
  Text,                      \* comments
  Request, None,
  MayMove,                   \* students change arm, or leave, while there are sheets
  MayWithdraw,               \* a subject is withdrawn from its class
  MayCrash                   \* a request stops before its transaction commits

SheetsAssumption ==
  /\ ClassOf \in [Arm -> Class]
  /\ {MayMove, MayWithdraw, MayCrash} \subseteq BOOLEAN
  /\ None \notin Mark /\ None \notin Text /\ None \notin Scale /\ None \notin Request
  /\ Component # {}

VARIABLES
  pupil,      \* pupil[s]: arm and whether ACTIVE
  offer,      \* class_subjects: offer[c][u]
  scale,      \* grade_bands
  score,      \* scores: score[<<s, u, k>>] = [mark, arm] or None
  status,     \* result_sheets.status, "ABSENT" while there is no row
  card,       \* student_results and subject_results of a sheet, and comments
  stale,      \* never computed, or scoresChangedAt later than computedAt
  told,       \* parents were told of the publication
  holder,     \* holder[a]: the request that holds the lock of the row
  req         \* req[r]: where a request is, with its local variables

tables == <<pupil, offer, scale, score, status, card, stale, told>>
vars   == <<tables, holder, req>>

Status == {"ABSENT", "DRAFT", "SUBMITTED", "APPROVED", "PUBLISHED"}
Locked == {"SUBMITTED", "APPROVED", "PUBLISHED"}
Cell   == Student \X Subject \X Component
Entry  == [mark : Mark, arm : Arm]

Idle     == [op |-> "none"]
Blank    == [marks |-> <<>>, of |-> {}, bands |-> None,
             form |-> [s \in Student |-> None], principal |-> [s \in Student |-> None]]

TypeOK ==
  /\ pupil \in [Student -> [arm : Arm, active : BOOLEAN]]
  /\ offer \in [Class -> [Subject -> {"none", "elective", "compulsory"}]]
  /\ scale \in Scale \cup {None}
  /\ score \in [Cell -> Entry \cup {None}]
  /\ status \in [Arm -> Status]
  /\ \A a \in Arm :
       /\ DOMAIN card[a] = DOMAIN Blank /\ card[a].of \subseteq Student
       /\ card[a].bands \in Scale \cup {None}
       /\ DOMAIN card[a].marks \subseteq Cell
       /\ {card[a].form, card[a].principal} \subseteq [Student -> Text \cup {None}]
  /\ {stale, told} \subseteq [Arm -> BOOLEAN]
  /\ holder \in [Arm -> Request \cup {None}]
  /\ \A r \in Request :
       req[r].op \in {"none", "save", "compute", "submit", "publish", "withdraw"}

Init ==
  /\ pupil \in [Student -> [arm : Arm, active : {TRUE}]]
  /\ offer = [c \in Class |-> [u \in Subject |-> "compulsory"]]
  /\ scale \in Scale \cup {None}
  /\ score = [c \in Cell |-> None]
  /\ status = [a \in Arm |-> "ABSENT"] /\ card = [a \in Arm |-> Blank]
  /\ stale = [a \in Arm |-> TRUE] /\ told = [a \in Arm |-> TRUE]
  /\ holder = [a \in Arm |-> None] /\ req = [r \in Request |-> Idle]

-----------------------------------------------------------------------------
(* computeResults, as far as the snapshot and the missing list go.         *)

Active(a) == {s \in Student : pupil[s].arm = a /\ pupil[s].active}

\* Compulsory for everyone; an elective for those with a score in it.
Taken(students, offered) ==
  {c \in students \X Subject \X Component :
     \/ offered[c[2]] = "compulsory"
     \/ /\ offered[c[2]] = "elective"
        /\ \E k \in Component : score[<<c[1], c[2], k>>] # None}

MarkOf(c) == IF score[c] = None THEN None ELSE score[c].mark

Marks(students, offered) == [c \in Taken(students, offered) |-> MarkOf(c)]

Missing(marks) == {c \in DOMAIN marks : marks[c] = None}

-----------------------------------------------------------------------------
(* Rows and locks.                                                         *)

Finish(r) == req' = [req EXCEPT ![r] = Idle]

\* A second transaction on the row waits until the first commits.
Free(a)      == holder[a] = None
Lock(r, a)   == Free(a) /\ holder' = [holder EXCEPT ![a] = r]
Unlock(a)    == holder' = [holder EXCEPT ![a] = None]

\* An error: the transaction is rolled back and the row released.
Refuse(r, a) == /\ Finish(r)
                /\ holder' = [b \in Arm |-> IF b = a /\ holder[a] = r
                                            THEN None ELSE holder[b]]
                /\ UNCHANGED tables

\* upsert: creates the sheet on its first use, and changes nothing after.
Upserted(a) == IF status[a] = "ABSENT" THEN "DRAFT" ELSE status[a]

\* A bug: the status is read before the lock, so a sheet may be locked since.
LockDraftUnchecked(r, a, job) ==
  /\ Lock(r, a)
  /\ req' = [req EXCEPT ![r] = job]
  /\ UNCHANGED tables

\* lockDraft and ensureDraftSheet: upsert, lock, and go on with a draft only.
LockDraft(r, a, job) ==
  \/ /\ Lock(r, a) /\ status[a] \in {"ABSENT", "DRAFT"}
     /\ req' = [req EXCEPT ![r] = job]
     /\ UNCHANGED tables
  \/ /\ Free(a) /\ status[a] \in Locked
     /\ Refuse(r, a)

-----------------------------------------------------------------------------
(* ScoresService.save, of one cell: a batch is all or nothing.             *)

\* context and validateEntries read before the transaction.
SaveValidate(r, a, c, m) ==
  /\ req[r] = Idle
  /\ offer[ClassOf[a]][c[2]] # "none"
  /\ c[1] \in Active(a)
  /\ req' = [req EXCEPT ![r] = [op |-> "save", at |-> "valid", arm |-> a,
                                cell |-> c, mark |-> m]]
  /\ UNCHANGED <<tables, holder>>

SaveLock(r) ==
  /\ req[r].op = "save" /\ req[r].at = "valid"
  /\ LockDraft(r, req[r].arm, [req[r] EXCEPT !.at = "locked"])

\* A bug: the sheet is not told that its scores changed.
SaveCommitUnmarked(r) ==
  /\ req[r].op = "save" /\ req[r].at = "locked"
  /\ LET a == req[r].arm IN
     /\ score' = [score EXCEPT ![req[r].cell] =
                    IF req[r].mark = None THEN None ELSE [mark |-> req[r].mark, arm |-> a]]
     /\ status' = [status EXCEPT ![a] = Upserted(a)]
     /\ Unlock(a)
  /\ Finish(r)
  /\ UNCHANGED <<pupil, offer, scale, card, stale, told>>

\* Deletes the score for null, upserts it otherwise, and marks the sheet stale.
SaveCommit(r) ==
  /\ req[r].op = "save" /\ req[r].at = "locked"
  /\ LET a == req[r].arm IN
     /\ score' = [score EXCEPT ![req[r].cell] =
                    IF req[r].mark = None THEN None ELSE [mark |-> req[r].mark, arm |-> a]]
     /\ status' = [status EXCEPT ![a] = Upserted(a)]
     /\ stale' = [stale EXCEPT ![a] = TRUE]
     /\ Unlock(a)
  /\ Finish(r)
  /\ UNCHANGED <<pupil, offer, scale, card, told>>

-----------------------------------------------------------------------------
(* compute and submit.                                                     *)

\* recompute's reads but the last: students, offers and bands.  compute makes
\* the sheet when there is none; submit is given the id of one.
Inputs(a) == [students |-> Active(a), offered |-> offer[ClassOf[a]], bands |-> scale]

Compute(r, a, op) ==
  /\ req[r] = Idle
  /\ op = "submit" => status[a] # "ABSENT"
  /\ LockDraft(r, a, [op |-> op, arm |-> a, in |-> Inputs(a)])

\* The card a recomputation leaves: comments survive for those still there.
Recomputed(a, in) ==
  LET kept(comments) ==
        [s \in Student |-> IF s \in in.students THEN comments[s] ELSE None]
  IN  [marks |-> Marks(in.students, in.offered), of |-> in.students,
       bands |-> in.bands,
       form |-> kept(card[a].form), principal |-> kept(card[a].principal)]

\* Not without a scale; submitted only with students and every score.
Recompute(r) ==
  /\ req[r].op \in {"compute", "submit"}
  /\ LET a == req[r].arm  new == Recomputed(a, req[r].in)
         good == /\ new.bands # None
                 /\ req[r].op = "submit" => new.of # {} /\ Missing(new.marks) = {}
     IN \/ /\ good
           /\ card' = [card EXCEPT ![a] = new]
           /\ stale' = [stale EXCEPT ![a] = FALSE]
           /\ status' = [status EXCEPT ![a] =
                           IF req[r].op = "submit" THEN "SUBMITTED" ELSE Upserted(a)]
           /\ Unlock(a) /\ Finish(r)
           /\ UNCHANGED <<pupil, offer, scale, score, told>>
        \/ ~good /\ Refuse(r, a)

-----------------------------------------------------------------------------
(* approve, publish, return and comment: short transactions under the lock. *)

Transition(a, from, to) ==
  /\ Free(a) /\ status[a] = from
  /\ status' = [status EXCEPT ![a] = to]

Approve(a) ==
  /\ Transition(a, "SUBMITTED", "APPROVED")
  /\ UNCHANGED <<pupil, offer, scale, score, card, stale, told, holder, req>>

Publish(r, a) ==
  /\ req[r] = Idle
  /\ Transition(a, "APPROVED", "PUBLISHED")
  /\ told' = [told EXCEPT ![a] = FALSE]
  /\ req' = [req EXCEPT ![r] = [op |-> "publish", arm |-> a]]
  /\ UNCHANGED <<pupil, offer, scale, score, card, stale, holder>>

\* After the transaction, from a second read of the sheet, whatever it is by then.
Notify(r) ==
  /\ req[r].op = "publish"
  /\ told' = [told EXCEPT ![req[r].arm] = TRUE]
  /\ Finish(r)
  /\ UNCHANGED <<pupil, offer, scale, score, status, card, stale, holder>>

\* A bug: the cards are cleared with the dates.
ReturnToDraftEmpty(a) ==
  /\ Free(a) /\ status[a] \in Locked
  /\ status' = [status EXCEPT ![a] = "DRAFT"]
  /\ card' = [card EXCEPT ![a] = Blank]
  /\ UNCHANGED <<pupil, offer, scale, score, stale, told, holder, req>>

ReturnToDraft(a) ==
  /\ Free(a) /\ status[a] \in Locked
  /\ status' = [status EXCEPT ![a] = "DRAFT"]
  /\ UNCHANGED <<pupil, offer, scale, score, card, stale, told, holder, req>>

\* f, p: the comments of a request, None for one it does not bring.
Comment(a, s, f, p) ==
  /\ Free(a) /\ status[a] # "ABSENT"
  /\ f # None => status[a] \in {"DRAFT", "SUBMITTED"}
  /\ p # None => status[a] # "PUBLISHED"
  /\ s \in card[a].of
  /\ card' = [card EXCEPT ![a].form[s] = IF f = None THEN @ ELSE f,
                          ![a].principal[s] = IF p = None THEN @ ELSE p]
  /\ UNCHANGED <<pupil, offer, scale, score, status, stale, told, holder, req>>

-----------------------------------------------------------------------------
(* Subjects, scale and students change meanwhile.                          *)

\* offer and updateOffer: single statements, which mark no sheet stale.
Offer(c, u, kind) ==
  /\ kind # "none"
  /\ offer' = [offer EXCEPT ![c][u] = kind]
  /\ UNCHANGED <<pupil, scale, score, status, card, stale, told, holder, req>>

\* withdraw counts the scores entered in the arms of the class...
WithdrawCount(r, c, u) ==
  /\ MayWithdraw /\ req[r] = Idle /\ offer[c][u] # "none"
  /\ ~\E x \in Cell : x[2] = u /\ score[x] # None /\ ClassOf[score[x].arm] = c
  /\ req' = [req EXCEPT ![r] = [op |-> "withdraw", class |-> c, subject |-> u]]
  /\ UNCHANGED <<tables, holder>>

\* A bug: the offer is blanked, not deleted.
WithdrawHalf(r) ==
  /\ req[r].op = "withdraw"
  /\ offer' = [offer EXCEPT ![req[r].class][req[r].subject] = None]
  /\ Finish(r)
  /\ UNCHANGED <<pupil, scale, score, status, card, stale, told, holder>>

\* ... and then deletes the offer, in a transaction that counts nothing again.
Withdraw(r) ==
  /\ req[r].op = "withdraw"
  /\ offer' = [offer EXCEPT ![req[r].class][req[r].subject] = "none"]
  /\ Finish(r)
  /\ UNCHANGED <<pupil, scale, score, status, card, stale, told, holder>>

SetGrading(b) ==
  /\ scale' = b
  /\ UNCHANGED <<pupil, offer, score, status, card, stale, told, holder, req>>

\* StudentsService.update and changeStatus, as far as the sheets see them.
MovePupil(s, a, active) ==
  /\ \/ MayMove
     \/ (\A b \in Arm : status[b] = "ABSENT") /\ \A r \in Request : req[r] = Idle
  /\ pupil' = [pupil EXCEPT ![s] = [arm |-> a, active |-> active]]
  /\ UNCHANGED <<offer, scale, score, status, card, stale, told, holder, req>>

\* The process stops: the database rolls back and releases the row.
Crash(r) ==
  /\ MayCrash /\ req[r] # Idle
  /\ Finish(r)
  /\ holder' = [a \in Arm |-> IF holder[a] = r THEN None ELSE holder[a]]
  /\ UNCHANGED tables

-----------------------------------------------------------------------------
Work(r) == SaveLock(r) \/ SaveCommit(r) \/ Recompute(r) \/ Notify(r) \/ Withdraw(r)

Saving(r) == \E a \in Arm, c \in Cell, m \in Mark \cup {None} : SaveValidate(r, a, c, m)

Computing(r) == \E a \in Arm, op \in {"compute", "submit"} : Compute(r, a, op)

Heads(a) == Approve(a) \/ ReturnToDraft(a)

Commenting(a) == \E s \in Student, f, p \in Text \cup {None} : Comment(a, s, f, p)

Next ==
  \/ \E r \in Request :
       \/ Saving(r) \/ Computing(r) \/ Work(r) \/ Crash(r)
       \/ \E a \in Arm : Publish(r, a)
       \/ \E c \in Class, u \in Subject : WithdrawCount(r, c, u)
  \/ \E a \in Arm : Heads(a) \/ Commenting(a)
  \/ \E c \in Class, u \in Subject, kind \in {"elective", "compulsory"} : Offer(c, u, kind)
  \/ \E b \in Scale : SetGrading(b)
  \/ \E s \in Student, a \in Arm, active \in BOOLEAN : MovePupil(s, a, active)

Spec == Init /\ [][Next]_vars

-----------------------------------------------------------------------------
(***************************************************************************)
(* A sheet implements its path: whatever requests overlap, students move,  *)
(* scales change and crashes happen, a sheet that is not a draft keeps the *)
(* complete snapshot it was submitted with, its form teacher's comments    *)
(* from approval on and its principal's from publication on.               *)
(* (ResultSheetsService, class comment and comment.)                       *)
(***************************************************************************)
Path == INSTANCE SheetPath WITH Sheets <- Arm, Unmarked <- None

FollowsPath == Path!PathSpec

(***************************************************************************)
(* While the students of its sheets stay, the snapshot that was submitted  *)
(* is what the score table says: no save gets in between its validation    *)
(* and the lock.  (ScoresService.save, ensureDraftSheet, lockDraft.)       *)
(***************************************************************************)
Agrees(a) == \A c \in DOMAIN card[a].marks : card[a].marks[c] = MarkOf(c)

SnapshotIsCurrent == \A a \in Arm : status[a] \in Locked => Agrees(a)

(***************************************************************************)
(* A draft that is not called stale shows the scores as they are, after    *)
(* any order of saves, computations, returns and crashes.  (summary.stale, *)
(* scoresChangedAt.)                                                       *)
(***************************************************************************)
FreshIsCurrent == \A a \in Arm : status[a] = "DRAFT" /\ ~stale[a] => Agrees(a)

(***************************************************************************)
(* "Only a draft can be computed or have its scores changed": the scores   *)
(* of the students on a sheet that was submitted stay as they are.  Does   *)
(* not hold: save validates the arm of a student before it locks a sheet,  *)
(* and the student may have moved to an arm whose sheet is submitted.      *)
(***************************************************************************)
ScoresStand(a) == \A c \in DOMAIN card[a].marks :
                     c[1] \in Active(a) => score'[c] = score[c]

\* Of every step.
OnlyDraftScoresChange == \A a \in Arm : status[a] \in Locked => ScoresStand(a)

(***************************************************************************)
(* A score is of a subject its class offers.  Does not hold: withdraw      *)
(* counts the scores before its transaction, and save validated the offer  *)
(* before its own.                                                         *)
(***************************************************************************)
ScoresAreOffered == \A c \in Cell : score[c] # None =>
                       offer[ClassOf[score[c].arm]][c[2]] # "none"

(***************************************************************************)
(* "A draft with every score in, ready to submit": submitting a ready      *)
(* draft finds students and every score.  Does not hold: readiness counts  *)
(* the students of the last snapshot, submission those there now.          *)
(***************************************************************************)
Live(a) == Marks(Active(a), offer[ClassOf[a]])

Ready(a) == /\ status[a] = "DRAFT" /\ ~stale[a]
            /\ Missing(Live(a)) = {} /\ card[a].of # {}

ReadyCanBeSubmitted == \A a \in Arm : Ready(a) => Active(a) # {}

(***************************************************************************)
(* Why they hold.  Whoever is between its lock and its commit holds the    *)
(* row, and the sheet is a draft until then; and while the students of     *)
(* its sheets stay, those of a card, of a save and of a computation are    *)
(* those of the arm, so that no save reaches the marks of another sheet.   *)
(***************************************************************************)
Kinds   == {"none", "elective", "compulsory"}
Drafts  == {"ABSENT", "DRAFT"}
Reading == [students : SUBSET Student, offered : [Subject -> Kinds], bands : Scale \cup {None}]

Jobs == {Idle}
  \cup [op : {"save"}, at : {"valid", "locked"}, arm : Arm, cell : Cell, mark : Mark \cup {None}]
  \cup [op : {"compute", "submit"}, arm : Arm, in : Reading]
  \cup [op : {"publish"}, arm : Arm]
  \cup [op : {"withdraw"}, class : Class, subject : Subject]

CardInv(a) ==
  /\ card[a] = [marks |-> card[a].marks, of |-> card[a].of, bands |-> card[a].bands,
                form |-> card[a].form, principal |-> card[a].principal]
  /\ DOMAIN card[a].marks \subseteq Cell /\ card[a].of \subseteq Student
  /\ card[a].bands \in Scale \cup {None}
  /\ card[a].form \in [Student -> Text \cup {None}]
  /\ card[a].principal \in [Student -> Text \cup {None}]

TablesOK ==
  /\ pupil \in [Student -> [arm : Arm, active : BOOLEAN]]
  /\ offer \in [Class -> [Subject -> Kinds]]
  /\ scale \in Scale \cup {None}
  /\ score \in [Cell -> Entry \cup {None}]
  /\ status \in [Arm -> Status]
  /\ card = [a \in Arm |-> card[a]] /\ \A a \in Arm : CardInv(a)
  /\ stale \in [Arm -> BOOLEAN] /\ told \in [Arm -> BOOLEAN]
  /\ holder \in [Arm -> Request \cup {None}]
  /\ req \in [Request -> Jobs]

InTransaction(r) == \/ req[r].op = "save" /\ req[r].at = "locked"
                    \/ req[r].op \in {"compute", "submit"}

LockInv(r) ==
  InTransaction(r) =>
    /\ holder[req[r].arm] = r
    /\ status[req[r].arm] \in Drafts
    /\ req[r].op = "submit" => status[req[r].arm] = "DRAFT"

Inductive == TablesOK /\ \A r \in Request : LockInv(r)

\* Of students who stay.
StayInv ==
  /\ \A a \in Arm : \A c \in DOMAIN card[a].marks : c[1] \in Active(a)
  /\ \A a \in Arm : status[a] = "ABSENT" => DOMAIN card[a].marks = {}
  /\ \A r \in Request :
       /\ req[r].op = "save" => req[r].cell[1] \in Active(req[r].arm)
       /\ req[r].op \in {"compute", "submit"} => req[r].in.students \subseteq Active(req[r].arm)

CurrentInv == StayInv /\ SnapshotIsCurrent /\ FreshIsCurrent
=============================================================================
