----------------------------- MODULE ClassArms ------------------------------
(***************************************************************************)
(* The rolls of class arms: ClassArmsService and everything that puts a    *)
(* student into an arm or takes one out - admission, update, change of     *)
(* status, promotion, deletion and the writing half of an import.          *)
(*                                                                         *)
(* A request reads first, outside its transaction; the transaction then    *)
(* locks the arms it fills, counts their rolls, writes and commits.        *)
(***************************************************************************)
EXTENDS Naturals, FiniteSets

CONSTANTS
  Arm,           \* numbers, in the order of their ids
  Student, Request, None, Gone,
  MaxCapacity,
  MayOverlap,    \* two requests handle one student at once
  MayResize,     \* capacities change while others are at work
  MayRemove      \* arms and students are deleted

ArmsAssumption ==
  /\ Arm \subseteq Nat /\ IsFiniteSet(Student) /\ MaxCapacity \in Nat \ {0}
  /\ None \notin Nat \cup Request /\ Gone \notin Nat \cup {None}
  /\ {MayOverlap, MayResize, MayRemove} \subseteq BOOLEAN

VARIABLES
  capacity,   \* capacity[a]: of an arm, None for no limit, Gone when deleted
  student,    \* student[s]: status and arm
  record,     \* record[s]: the arm a score, a sheet or a register has s in, or None
  holder,     \* holder[a]: the request that holds the lock of the row
  req         \* req[r]: a request and what it read

vars == <<capacity, student, record, holder, req>>

Status  == {"none", "ACTIVE", "WITHDRAWN", "GRADUATED"}
Pupil   == [status : Status, arm : Arm \cup {None}]
Nobody  == [status |-> "none", arm |-> None]
Idle    == [op |-> "none", pupils |-> {}]
Limit   == 0..MaxCapacity \cup {None}

Init ==
  /\ capacity \in [Arm -> {1, None}]
  /\ student = [s \in Student |-> Nobody] /\ record = [s \in Student |-> None]
  /\ holder = [a \in Arm |-> None] /\ req = [r \in Request |-> Idle]

Exists(s) == student[s].status # "none"
Open(a)   == capacity[a] # Gone
Active(a) == {s \in Student : student[s].status = "ACTIVE" /\ student[s].arm = a}

\* job fills, for each arm, as many seats as job.seats says.
Begin(r, job) ==
  /\ req[r] = Idle
  /\ \A q \in Request : MayOverlap \/ req[q].pupils \cap job.pupils = {}
  /\ \A q \in Request : MayResize \/ req[q].op # "resize"
  /\ req' = [req EXCEPT ![r] = job]
  /\ UNCHANGED <<capacity, student, record, holder>>

Seats(arms, n)  == [a \in Arm |-> IF a \in arms THEN n ELSE 0]
Filled(seats)   == {a \in Arm : seats[a] > 0}
Enrol(op, pupils, seats, more) ==
  [op |-> op, pupils |-> pupils, seats |-> seats, left |-> Filled(seats), arg |-> more]

Admit(r, s, to) ==
  /\ ~Exists(s)
  /\ Begin(r, Enrol("admit", {s}, Seats({to}, 1), [s2 \in {s} |-> to]))

\* writeOnce: the valid rows of a file, each for an arm or for none.
Import(r, place) ==
  /\ \A s \in DOMAIN place : ~Exists(s)
  /\ DOMAIN place # {}
  /\ Begin(r, Enrol("import", DOMAIN place,
        [a \in Arm |-> Cardinality({s \in DOMAIN place : place[s] = a})], place))

\* update: a seat is taken only where the student is not known to be already.
Update(r, s, to) ==
  /\ Exists(s)
  /\ Begin(r, Enrol("update", {s}, Seats({to} \ {student[s].arm}, 1), to))

\* changeStatus: who returns must fit into the arm they point at.
ChangeStatus(r, s, status) ==
  /\ Exists(s) /\ status \in Status \ {"none", student[s].status}
  /\ Begin(r, Enrol("status", {s},
        Seats(IF status = "ACTIVE" THEN {student[s].arm} ELSE {}, 1), status))

\* promote: to is None for a class that graduates.
Promote(r, movers, from, to) ==
  /\ from # to /\ Open(from) /\ to \in {None} \cup {a \in Arm : Open(a)}
  /\ movers # {} /\ movers \subseteq Active(from)
  /\ Begin(r, Enrol("promote", movers, Seats({to}, Cardinality(movers)),
                    [from |-> from, to |-> to]))

-----------------------------------------------------------------------------
(* The transaction.                                                        *)

Enrolling(r) == req[r].op \in {"admit", "import", "update", "status", "promote"}

\* A bug: an import locks its arms in the order of the file.
LockUnsorted(r) ==
  /\ Enrolling(r)
  /\ \E a \in req[r].left :
       /\ holder[a] = None
       /\ holder' = [holder EXCEPT ![a] = r]
       /\ req' = [req EXCEPT ![r].left = @ \ {a}]
  /\ UNCHANGED <<capacity, student, record>>

\* lockRow and lockRows: one arm after the other, in the order of their ids.
Lock(r) ==
  /\ Enrolling(r)
  /\ \E a \in req[r].left :
       /\ \A b \in req[r].left : a <= b
       /\ holder[a] = None
       /\ holder' = [holder EXCEPT ![a] = r]
       /\ req' = [req EXCEPT ![r].left = @ \ {a}]
  /\ UNCHANGED <<capacity, student, record>>

\* A bug: the locks of a transaction outlive it.
EndLocked(r) == req' = [req EXCEPT ![r] = Idle] /\ UNCHANGED holder

End(r) == /\ req' = [req EXCEPT ![r] = Idle]
          /\ holder' = [a \in Arm |-> IF holder[a] = r THEN None ELSE holder[a]]

\* A bug: room is made for one student, however many come.
HasRoomForOne(r) == \A a \in Filled(req[r].seats) :
  /\ Open(a)
  /\ capacity[a] # None => Cardinality(Active(a)) + 1 <= capacity[a]

\* assertHasRoom, and the recount of writeOnce.
HasRoom(r) == \A a \in Filled(req[r].seats) :
  /\ Open(a)
  /\ capacity[a] # None => Cardinality(Active(a)) + req[r].seats[a] <= capacity[a]

\* What the statement makes of one of its students: a promotion leaves alone
\* those who are not active in the arm any more.
Written(r, s) ==
  CASE req[r].op \in {"admit", "import"} -> [status |-> "ACTIVE", arm |-> req[r].arg[s]]
    [] req[r].op = "update"  -> [student[s] EXCEPT !.arm = req[r].arg]
    [] req[r].op = "status"  -> [student[s] EXCEPT !.status = req[r].arg]
    [] req[r].op = "promote" ->
         IF s \notin Active(req[r].arg.from) THEN student[s]
         ELSE IF req[r].arg.to = None THEN [status |-> "GRADUATED", arm |-> None]
         ELSE [student[s] EXCEPT !.arm = req[r].arg.to]

\* A unique index refuses a number twice, a foreign key an arm that is gone.
Possible(r) == /\ (req[r].op \in {"admit", "import"}) <=> \A s \in req[r].pupils : ~Exists(s)
               /\ req[r].op = "update" => req[r].arg \in {None} \cup {a \in Arm : Open(a)}

Write(r) ==
  /\ Enrolling(r) /\ req[r].left = {}
  /\ \/ /\ HasRoom(r) /\ Possible(r)
        /\ student' = [s \in Student |-> IF s \in req[r].pupils THEN Written(r, s)
                                                               ELSE student[s]]
     \/ /\ ~(HasRoom(r) /\ Possible(r))
        /\ UNCHANGED student
  /\ End(r)
  /\ UNCHANGED <<capacity, record>>

-----------------------------------------------------------------------------
(* Arms and students are changed and deleted: counted first, then written, *)
(* in no transaction.  A statement on the row of an arm waits for its lock. *)

Resize(r, a, limit) ==
  /\ MayResize \/ \A q \in Request : req[q] = Idle
  /\ Open(a)
  /\ limit # None => limit >= Cardinality(Active(a))
  /\ Begin(r, [op |-> "resize", pupils |-> {}, arm |-> a, limit |-> limit])

ResizeWrite(r) ==
  /\ req[r].op = "resize" /\ holder[req[r].arm] = None
  /\ capacity' = [capacity EXCEPT ![req[r].arm] = IF @ = Gone THEN @ ELSE req[r].limit]
  /\ End(r)
  /\ UNCHANGED <<student, record>>

RemoveArm(r, a) ==
  /\ MayRemove /\ Open(a)
  /\ Active(a) = {} /\ \A s \in Student : record[s] # a
  /\ Begin(r, [op |-> "removeArm", pupils |-> {}, arm |-> a])

\* onDelete: SetNull for students, Restrict for what results and registers name.
RemoveArmWrite(r) ==
  /\ req[r].op = "removeArm" /\ holder[req[r].arm] = None
  /\ LET a == req[r].arm IN
     IF \E s \in Student : record[s] = a
     THEN UNCHANGED <<capacity, student>>
     ELSE /\ capacity' = [capacity EXCEPT ![a] = Gone]
          /\ student' = [s \in Student |-> IF student[s].arm = a
                                           THEN [student[s] EXCEPT !.arm = None] ELSE student[s]]
  /\ End(r)
  /\ UNCHANGED record

RemoveStudent(r, s) ==
  /\ MayRemove /\ Exists(s) /\ record[s] = None
  /\ Begin(r, [op |-> "removeStudent", pupils |-> {s}])

\* onDelete: Cascade for invoices, payments, scores, results and attendance.
RemoveStudentWrite(r) ==
  /\ req[r].op = "removeStudent"
  /\ \A s \in req[r].pupils :
       /\ student' = [student EXCEPT ![s] = Nobody]
       /\ record' = [record EXCEPT ![s] = None]
  /\ End(r)
  /\ UNCHANGED capacity

\* A score, a register or an invoice: the services that write them hold no
\* lock of the student or the arm.
Record(s) ==
  /\ MayRemove /\ student[s].status = "ACTIVE" /\ student[s].arm # None
  /\ record' = [record EXCEPT ![s] = student[s].arm]
  /\ UNCHANGED <<capacity, student, holder, req>>

-----------------------------------------------------------------------------
Arms == Arm \cup {None}

Arrive(r) ==
  \/ \E s \in Student, to \in Arms : Admit(r, s, to) \/ Update(r, s, to)
  \/ \E rows \in SUBSET Student : \E place \in [rows -> Arms] : Import(r, place)
  \/ \E s \in Student, status \in Status : ChangeStatus(r, s, status)
  \/ \E movers \in SUBSET Student, from \in Arm, to \in Arms : Promote(r, movers, from, to)
  \/ \E a \in Arm, limit \in Limit : Resize(r, a, limit)
  \/ \E a \in Arm : RemoveArm(r, a)
  \/ \E s \in Student : RemoveStudent(r, s)

Proceed(r) == Write(r) \/ ResizeWrite(r) \/ RemoveArmWrite(r) \/ RemoveStudentWrite(r)

Next == \/ \E r \in Request : Arrive(r) \/ Lock(r) \/ Proceed(r)
        \/ \E s \in Student : Record(s)

Spec == Init /\ [][Next]_vars

-----------------------------------------------------------------------------
(***************************************************************************)
(* Types, and the discipline of the locks: whoever holds the row of an arm *)
(* is a request on its way that takes a seat there.  (lockRow, lockRows.)  *)
(***************************************************************************)
TypeOK ==
  /\ \A a \in Arm : capacity[a] = Gone \/ capacity[a] \in Limit
  /\ student \in [Student -> Pupil]
  /\ record \in [Student -> Arm \cup {None}]
  /\ \A a \in Arm : holder[a] # None =>
       /\ Enrolling(holder[a])
       /\ a \in Filled(req[holder[a]].seats) \ req[holder[a]].left
  /\ \A r \in Request : req[r].pupils \subseteq Student

(***************************************************************************)
(* No arm holds more active students than its capacity, however many       *)
(* requests race for its last seat.  Holds while nobody else handles the   *)
(* same student and a capacity only changes while nobody is at work; one   *)
(* lowered since the count, and a student moved while being reactivated,   *)
(* break it.                                                               *)
(* (assertHasRoom, lockRow, writeOnce.)                                    *)
(***************************************************************************)
RollFitsCapacity ==
  \A a \in Arm : Open(a) /\ capacity[a] # None => Cardinality(Active(a)) <= capacity[a]

(***************************************************************************)
(* No two requests wait for each other's locks, whatever arms they fill.   *)
(* (lockRows: "Two transactions locking the same set in different orders   *)
(* is the textbook deadlock; sorting removes it.")                         *)
(***************************************************************************)
WaitsFor(r, q) == Enrolling(r) /\ \E a \in req[r].left : holder[a] = q
                  /\ \A b \in req[r].left : a <= b

NoDeadlyEmbrace == ~\E r, q \in Request : r # q /\ WaitsFor(r, q) /\ WaitsFor(q, r)

(***************************************************************************)
(* "A student withdrawn a moment ago is not swept along with the arm": a   *)
(* promotion touches nobody who is no longer active in the arm, whatever   *)
(* happened since its movers were read.  (promote.)                        *)
(***************************************************************************)
Promoting(r) == req[r].op = "promote" /\ req'[r] = Idle

\* Of every step.
PromotionSparesLeavers ==
  \A r \in Request : Promoting(r) =>
    \A s \in Student \ Active(req[r].arg.from) : student'[s] = student[s]

(***************************************************************************)
(* "promoted: Students moved into the target arm": a promotion answers     *)
(* with as many as it moved.  Does not hold: it answers with those it read *)
(* before its transaction.                                                 *)
(***************************************************************************)
Refused(r) == ~(HasRoom(r) /\ Possible(r))

\* Of every step.
PromotionCountsMoved ==
  \A r \in Request : Promoting(r) /\ ~Refused(r) =>
    Cardinality({s \in Student : student'[s] # student[s]})
      = Cardinality(req[r].pupils)

(***************************************************************************)
(* An arm is not deleted under its roll.  Does not hold: the roll is       *)
(* counted before the deletion, and admission holds a lock the count did   *)
(* not take.                                                               *)
(***************************************************************************)
\* Of every step.
OnlyEmptyArmsGo == \A a \in Arm : Open(a) /\ ~Open(a)' => Active(a) = {}

(***************************************************************************)
(* What was recorded of a student is never erased.  Does not hold: remove  *)
(* counts the records, then deletes the student and whatever cascades.     *)
(***************************************************************************)
\* Of every step.
RecordsOutlive == \A s \in Student : record[s] # None => record'[s] # None

(***************************************************************************)
(* Why they hold: a request takes its locks in the order of the arms, and  *)
(* the seats it asked for are, until it writes, at least those it fills.   *)
(***************************************************************************)

\* What a request is, by what it does.
Enrolments(op, Arg) ==
  [op : {op}, pupils : SUBSET Student, seats : [Arm -> Nat], left : SUBSET Arm, arg : Arg]

JobInv(r) ==
  \/ req[r] = Idle
  \/ /\ req[r].op \in {"admit", "import"}
     /\ req[r] \in Enrolments(req[r].op, [req[r].pupils -> Arms])
  \/ req[r].op = "update" /\ req[r] \in Enrolments("update", Arms)
  \/ req[r].op = "status" /\ req[r] \in Enrolments("status", Status \ {"none"})
  \/ req[r].op = "promote" /\ req[r] \in Enrolments("promote", [from : Arm, to : Arms])
  \/ req[r] \in [op : {"resize"}, pupils : {{}}, arm : Arm, limit : Limit]
  \/ req[r] \in [op : {"removeArm"}, pupils : {{}}, arm : Arm]
  \/ req[r] \in [op : {"removeStudent"}, pupils : {{s} : s \in Student}]

\* It has locked the arms it fills up to some arm, and none after it.
OrderInv(r) ==
  Enrolling(r) =>
    /\ req[r].left \subseteq Filled(req[r].seats)
    /\ \A a \in Filled(req[r].seats) \ req[r].left, b \in req[r].left : a < b

HolderInv ==
  /\ holder \in [Arm -> Request \cup {None}]
  /\ \A a \in Arm : holder[a] # None =>
       /\ Enrolling(holder[a])
       /\ a \in Filled(req[holder[a]].seats) \ req[holder[a]].left

TablesOK ==
  /\ capacity \in [Arm -> Limit \cup {Gone}]
  /\ student \in [Student -> Pupil]
  /\ record \in [Student -> Arm \cup {None}]
  /\ req = [r \in Request |-> req[r]]

Inductive == TablesOK /\ HolderInv /\ \A r \in Request : JobInv(r) /\ OrderInv(r)

\* Of one request at a time for each student.
ApartInv == \A r, q \in Request : r # q => req[r].pupils \cap req[q].pupils = {}

\* The seats it asked for, with the one a student has already.
SeatsInv(r) ==
  /\ req[r].op \in {"admit", "import"} =>
       \A a \in Arm : Cardinality({s \in req[r].pupils : req[r].arg[s] = a}) <= req[r].seats[a]
  /\ req[r].op = "update" => \A s \in req[r].pupils :
       /\ req[r].pupils = {s}
       /\ req[r].arg \in Arm => \/ req[r].seats[req[r].arg] >= 1
                                \/ student[s].arm = req[r].arg
                                \/ ~Open(req[r].arg)
  /\ req[r].op = "status" => \A s \in req[r].pupils :
       /\ req[r].pupils = {s}
       /\ req[r].arg = "ACTIVE" /\ student[s].arm \in Arm
            => req[r].seats[student[s].arm] >= 1
  /\ req[r].op = "promote" /\ req[r].arg.to \in Arm
       => Cardinality(req[r].pupils) <= req[r].seats[req[r].arg.to]

\* Who changes a capacity is alone, and has counted who must fit.
ResizeInv ==
  \A r \in Request : req[r].op = "resize" =>
    /\ \A q \in Request \ {r} : req[q] = Idle
    /\ req[r].limit # None => Cardinality(Active(req[r].arm)) <= req[r].limit

RollInv == ApartInv /\ RollFitsCapacity /\ \A r \in Request : SeatsInv(r)
=============================================================================
