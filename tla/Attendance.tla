------------------------------ MODULE Attendance ----------------------------
(***************************************************************************)
(* AttendanceService: the register of an arm for a day, saved by its form  *)
(* teacher or an administrator, and the tally of a student's marks.        *)
(*                                                                         *)
(* A save is checked, then upserts one mark after another in one           *)
(* transaction: each holds its row until the end, so two saves of one      *)
(* register wait for each other, and the database stops one of two that    *)
(* wait for ever.                                                          *)
(***************************************************************************)
EXTENDS Naturals, FiniteSets, Sequences, FiniteSetsExt, Functions

CONSTANTS
  Student, Arm, Teacher, Save, None,
  formTeacher, Admin,  \* the form teacher of each arm, and academic staff
  Day, Status,         \* days, and the marks in use
  MayOverlap,          \* two saves may be under way at once
  MayMove              \* students move, and the calendar changes

AttendanceAssumption ==
  /\ formTeacher \in [Arm -> Teacher \cup {None}] /\ Admin \subseteq Teacher
  /\ Day \subseteq Nat \ {0} /\ None \notin Teacher

VARIABLES
  arm,    \* of each active student
  mark,   \* of each student on each day, who saved it and with which others
  open,   \* days inside a term on which the school opens
  today, job

vars == <<arm, mark, open, today, job>>

NoMark == [status |-> "none", by |-> None, with |-> {}]
Idle   == [at |-> "none", day |-> 0, todo |-> <<>>, held |-> {}]

Init ==
  /\ arm \in [Student -> Arm] /\ (~MayMove => \A s, t \in Student : arm[s] = arm[t])
  /\ mark = [s \in Student |-> [d \in Day |-> NoMark]]
  /\ open = Day /\ today = Min(Day) /\ job = [q \in Save |-> Idle]

Calm == \A q \in Save : job[q] = Idle

-----------------------------------------------------------------------------
(* Who may save which register.                                            *)

mayTake(t, a) == t \in Admin \/ formTeacher[a] = t

isFuture(d) == d > today

\* A bug: the week is not looked at on the screen.
CanEditAnyDay(t, a, d) == mayTake(t, a) /\ ~isFuture(d)

\* What the screen is told.
canEdit(t, a, d) == d \in open /\ ~isFuture(d) /\ mayTake(t, a)

\* No student of another arm, and none twice.
Accepts(t, a, d, order) ==
  /\ mayTake(t, a) /\ ~isFuture(d) /\ d \in open
  /\ \A n \in DOMAIN order : arm[order[n]] = a
  /\ IsInjective(order)

Validate(q, t, a, d, order, marks) ==
  /\ job[q] = Idle /\ (~MayOverlap => Calm) /\ Accepts(t, a, d, order)
  /\ job' = [job EXCEPT ![q] = [at |-> "write", day |-> d, todo |-> order, held |-> {},
                                marks |-> marks, before |-> <<>>]]
  /\ UNCHANGED <<arm, mark, open, today>>

-----------------------------------------------------------------------------
(* The transaction.                                                        *)

Holds(q, s, d) == s \in job[q].held /\ job[q].day = d
WaitsFor(q, r) ==
  /\ q # r /\ job[q].todo # <<>> /\ Holds(r, Head(job[q].todo), job[q].day)

\* One mark of a student a day.
Upsert(q) ==
  LET s == Head(job[q].todo) IN
  /\ job[q].todo # <<>> /\ \A r \in Save : ~WaitsFor(q, r)
  /\ mark' = [mark EXCEPT ![s][job[q].day] =
       [status |-> job[q].marks[s], by |-> q, with |-> job[q].held \cup Range(job[q].todo)]]
  /\ job' = [job EXCEPT ![q].todo = Tail(@), ![q].held = @ \cup {s},
                      ![q].before = [t \in DOMAIN @ \cup {s} |->
                                       IF t = s THEN mark[s][job[q].day] ELSE @[t]]]
  /\ UNCHANGED <<arm, open, today>>

Commit(q) ==
  /\ job[q].at = "write" /\ job[q].todo = <<>> /\ job' = [job EXCEPT ![q] = Idle]
  /\ UNCHANGED <<arm, mark, open, today>>

\* What was written is undone, and the rows are let go.
Rollback(q) ==
  /\ mark' = [s \in Student |-> [d \in Day |->
                IF Holds(q, s, d) THEN job[q].before[s] ELSE mark[s][d]]]
  /\ job' = [job EXCEPT ![q] = Idle] /\ UNCHANGED <<arm, open, today>>

\* The database stops one of two that wait for each other.
Deadlocked(q) == \E r \in Save : WaitsFor(q, r) /\ WaitsFor(r, q)

StopDeadlocked(q) == Deadlocked(q) /\ Rollback(q)

Crash(q) == job[q].at = "write" /\ Rollback(q)

-----------------------------------------------------------------------------
(* Students move, days pass, the calendar changes.                         *)

Move(s, a) ==
  /\ MayMove /\ Calm /\ arm[s] # a /\ arm' = [arm EXCEPT ![s] = a]
  /\ UNCHANGED <<mark, open, today, job>>

NextDay ==
  /\ Calm /\ \E d \in Day : d > today
  /\ today' = Min({d \in Day : d > today}) /\ UNCHANGED <<arm, mark, open, job>>

Calendar(days) ==
  /\ MayMove /\ Calm /\ open' = days /\ UNCHANGED <<arm, mark, today, job>>

\* The entries of a save: students of the arm, all or some, in any order.
Orders(a) ==
  LET inArm == {s \in Student : arm[s] = a} IN
  UNION {Injection(1..n, inArm) : n \in 1..Cardinality(inArm)}

Step(q) == Upsert(q) \/ Commit(q)

Next ==
  \/ \E q \in Save, t \in Teacher, a \in Arm, d \in Day :
       \E order \in Orders(a) : \E marks \in [Range(order) -> Status] :
         Validate(q, t, a, d, order, marks)
  \/ \E q \in Save : Step(q) \/ StopDeadlocked(q) \/ Crash(q)
  \/ \E s \in Student, a \in Arm : Move(s, a)
  \/ NextDay
  \/ \E days \in SUBSET Day : Calendar(days)

Spec == Init /\ [][Next]_vars

-----------------------------------------------------------------------------
(* The tally.                                                              *)

\* Late counts as present, and excused as absent.
tally(marks) == [daysOpen |-> marks["PRESENT"] + marks["ABSENT"] + marks["LATE"] + marks["EXCUSED"],
                 present |-> marks["PRESENT"] + marks["LATE"], absent |-> marks["ABSENT"] + marks["EXCUSED"]]

Marks(s) == [m \in {"PRESENT", "ABSENT", "LATE", "EXCUSED"} |->
               Cardinality({d \in Day : mark[s][d].status = m})]

-----------------------------------------------------------------------------
(***************************************************************************)
(* Types; a save holds rows of its own only.                               *)
(***************************************************************************)
TypeOK ==
  /\ \A s \in Student, d \in Day : mark[s][d] = NoMark \/ (mark[s][d].status \in Status /\ d <= today)
  /\ \A q, r \in Save : q # r /\ job[q].day = job[r].day => job[q].held \cap job[r].held = {}

(***************************************************************************)
(* A save is there whole or not at all: whomever it listed with a student  *)
(* it marked has a mark, and where two saves listed the same students, one *)
(* of them stands for all.  Of saves that overlap, or stop half way, no    *)
(* mixture is left.  (save's transaction.)                                 *)
(***************************************************************************)
RegisterIsWhole ==
  Calm => \A d \in Day, s \in Student : \A t \in mark[s][d].with :
    /\ mark[t][d] # NoMark
    /\ s \in mark[t][d].with => mark[t][d].by = mark[s][d].by

(***************************************************************************)
(* Whom the screen lets edit a register, the save lets too, and no one     *)
(* else.  (register's canEdit, save.)                                      *)
(***************************************************************************)
ScreenAgrees ==
  \A t \in Teacher, a \in Arm, d \in Day : canEdit(t, a, d) <=> Accepts(t, a, d, <<>>)

(***************************************************************************)
(* Every marked day is a day present or a day absent, and none is both:    *)
(* late is present, excused is absent.  (tally, studentTermSummary.)       *)
(***************************************************************************)
TallyAddsUp ==
  \A s \in Student : LET t == tally(Marks(s)) IN
    /\ t.present + t.absent = t.daysOpen
    /\ t.daysOpen = Cardinality({d \in Day : mark[s][d] # NoMark})
=============================================================================
