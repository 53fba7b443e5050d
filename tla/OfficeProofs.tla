---------------------------- MODULE OfficeProofs -----------------------------
(***************************************************************************)
(* Proofs about what the office does: the rolls of class arms; fee         *)
(* structures and invoices; files and the quota of storage; the calendar;  *)
(* guardians and their logins.  For any number of arms, students, files,   *)
(* periods, guardians and requests.  Of each component first what every    *)
(* request does to the rows, however they overlap; then what holds while   *)
(* they come one at a time.                                                *)
(***************************************************************************)
EXTENDS ClassArms, FiniteSetTheorems, TLAPS

\* Students are finitely many, and so are those on a roll.
LEMMA PupilsFinite ==
  ASSUME ArmsAssumption, NEW P \in SUBSET Student
  PROVE  IsFiniteSet(P) /\ Cardinality(P) \in Nat
BY FS_Subset, FS_CardinalityType DEF ArmsAssumption

\* One student is one seat, or none.
LEMMA AtMostOne ==
  ASSUME NEW x, NEW P, P \subseteq {x}
  PROVE  IsFiniteSet(P) /\ Cardinality(P) \in Nat /\ Cardinality(P) <= 1
<1>1. IsFiniteSet({x}) /\ Cardinality({x}) = 1
  BY FS_Singleton
<1> QED
  BY <1>1, FS_Subset, FS_CardinalityType

-----------------------------------------------------------------------------
(* Jobs and locks. *)

\* A step of one request, which leaves the others where they are.
LEMMA OneMoves ==
  ASSUME Inductive, NEW r \in Request, NEW job, req' = [req EXCEPT ![r] = job],
         capacity' \in [Arm -> Limit \cup {Gone}], student' \in [Student -> Pupil],
         record' \in [Student -> Arm \cup {None}],
         HolderInv', JobInv(r)', OrderInv(r)'
  PROVE  Inductive'
<1>1. \A q \in Request \ {r} : req'[q] = req[q]
  BY DEF Inductive, TablesOK
<1>2. TablesOK'
  BY DEF Inductive, TablesOK
<1>3. ASSUME NEW q \in Request \ {r} PROVE JobInv(q)' /\ OrderInv(q)'
  BY <1>1, <1>3 DEF Inductive, JobInv, OrderInv, Enrolling
<1> QED
  BY <1>2, <1>3 DEF Inductive

\* A request holds no arm it is not enrolling students into.
LEMMA HoldsNothing ==
  ASSUME ArmsAssumption, Inductive, NEW r \in Request, ~Enrolling(r)
  PROVE  \A a \in Arm : holder[a] # r
BY DEF Inductive, HolderInv, ArmsAssumption

\* An enrolment that arrives has locked nothing, and its arms are still to lock.
LEMMA EnrolStarts ==
  ASSUME ArmsAssumption, Inductive, NEW r \in Request,
         NEW op \in {"admit", "import", "update", "status", "promote"},
         NEW pupils \in SUBSET Student, NEW seats \in [Arm -> Nat], NEW arg,
         Begin(r, Enrol(op, pupils, seats, arg)),
         \/ op \in {"admit", "import"} /\ arg \in [pupils -> Arms]
         \/ op = "update" /\ arg \in Arms
         \/ op = "status" /\ arg \in Status \ {"none"}
         \/ op = "promote" /\ arg \in [from : Arm, to : Arms]
  PROVE  Inductive'
<1> DEFINE job == [op |-> op, pupils |-> pupils, seats |-> seats, left |-> Filled(seats),
                   arg |-> arg]
<1>1. /\ req[r] = Idle /\ req' = [req EXCEPT ![r] = job]
      /\ UNCHANGED <<capacity, student, record, holder>>
  BY DEF Begin, Enrol
<1>2. req'[r] = job /\ \A q \in Request \ {r} : req'[q] = req[q]
  BY <1>1 DEF Inductive, TablesOK
<1>3. HolderInv'
  <2>1. \A a \in Arm : holder[a] # r
    BY <1>1, HoldsNothing DEF Enrolling, Idle
  <2> QED
    BY <1>1, <1>2, <2>1 DEF Inductive, HolderInv, Enrolling
<1>4. JobInv(r)'
  <2>1. Filled(seats) \in SUBSET Arm
    BY DEF Filled
  <2> QED
    BY <1>2, <2>1 DEF JobInv, Enrolments, Arms, Status
<1>5. OrderInv(r)'
  BY <1>2 DEF OrderInv, Enrolling
<1> HIDE DEF job
<1> QED
  BY <1>1, <1>3, <1>4, <1>5, OneMoves DEF Inductive, TablesOK

\* Neither has any other request.
LEMMA OtherStarts ==
  ASSUME ArmsAssumption, Inductive, NEW r \in Request, NEW job, Begin(r, job),
         \/ job \in [op : {"resize"}, pupils : {{}}, arm : Arm, limit : Limit]
         \/ job \in [op : {"removeArm"}, pupils : {{}}, arm : Arm]
         \/ job \in [op : {"removeStudent"}, pupils : {{s} : s \in Student}]
  PROVE  Inductive'
<1>1. /\ req[r] = Idle /\ req' = [req EXCEPT ![r] = job]
      /\ UNCHANGED <<capacity, student, record, holder>>
  BY DEF Begin
<1>2. req'[r] = job /\ \A q \in Request \ {r} : req'[q] = req[q]
  BY <1>1 DEF Inductive, TablesOK
<1>3. ~Enrolling(r)'
  BY <1>2 DEF Enrolling
<1>4. HolderInv'
  <2>1. \A a \in Arm : holder[a] # r
    BY <1>1, HoldsNothing DEF Enrolling, Idle
  <2> QED
    BY <1>1, <1>2, <2>1 DEF Inductive, HolderInv, Enrolling
<1>5. JobInv(r)' /\ OrderInv(r)'
  BY <1>2, <1>3 DEF JobInv, OrderInv
<1> QED
  BY <1>1, <1>4, <1>5, OneMoves DEF Inductive, TablesOK

\* A transaction that ends gives up the arms it held, and no others.
LEMMA Ends ==
  ASSUME ArmsAssumption, Inductive, NEW r \in Request, End(r),
         capacity' \in [Arm -> Limit \cup {Gone}], student' \in [Student -> Pupil],
         record' \in [Student -> Arm \cup {None}]
  PROVE  Inductive'
<1>1. /\ req' = [req EXCEPT ![r] = Idle]
      /\ holder' = [a \in Arm |-> IF holder[a] = r THEN None ELSE holder[a]]
  BY DEF End
<1>2. req'[r] = Idle /\ \A q \in Request \ {r} : req'[q] = req[q]
  BY <1>1 DEF Inductive, TablesOK
<1>3. HolderInv'
  BY <1>1, <1>2 DEF Inductive, HolderInv, Enrolling
<1>4. JobInv(r)' /\ OrderInv(r)'
  BY <1>2 DEF JobInv, OrderInv, Enrolling, Idle
<1> QED
  BY <1>1, <1>3, <1>4, OneMoves

\* The arm locked next comes after those that are locked (lockRows).
LEMMA Locks ==
  ASSUME ArmsAssumption, Inductive, NEW r \in Request, Lock(r)
  PROVE  Inductive'
<1>1. PICK a \in req[r].left :
        /\ \A b \in req[r].left : a <= b
        /\ holder[a] = None
        /\ holder' = [holder EXCEPT ![a] = r]
        /\ req' = [req EXCEPT ![r].left = @ \ {a}]
  BY DEF Lock
<1> DEFINE job == [req[r] EXCEPT !.left = @ \ {a}]
<1>2. Enrolling(r) /\ UNCHANGED <<capacity, student, record>>
  BY DEF Lock
<1>3. /\ job.op = req[r].op /\ job.pupils = req[r].pupils /\ job.seats = req[r].seats
      /\ job.left = req[r].left \ {a} /\ job.arg = req[r].arg
      /\ req[r].left \subseteq Arm /\ req[r].seats \in [Arm -> Nat]
  BY <1>2 DEF Inductive, JobInv, Enrolling, Enrolments, Idle
<1>4. req' = [req EXCEPT ![r] = job]
  BY <1>1
<1>5. req'[r] = job /\ \A q \in Request \ {r} : req'[q] = req[q]
  BY <1>4 DEF Inductive, TablesOK
<1>6. JobInv(r)'
  BY <1>2, <1>3, <1>5 DEF Inductive, JobInv, Enrolling, Enrolments, Idle
<1> HIDE DEF job
<1>7. OrderInv(r)'
  BY <1>1, <1>2, <1>3, <1>5 DEF Inductive, OrderInv, Enrolling, ArmsAssumption
<1>8. HolderInv'
  <2>1. a \in Arm /\ a \in Filled(job.seats) \ job.left
    BY <1>2, <1>3 DEF Inductive, OrderInv
  <2>2. holder'[a] = r /\ \A b \in Arm \ {a} : holder'[b] = holder[b]
    BY <1>1, <2>1 DEF Inductive, HolderInv
  <2>3. holder' \in [Arm -> Request \cup {None}]
    BY <1>1 DEF Inductive, HolderInv
  <2>4. Enrolling(r)'
    BY <1>2, <1>3, <1>5 DEF Enrolling
  <2>5. ASSUME NEW b \in Arm \ {a}, holder'[b] # None
        PROVE  /\ Enrolling(holder[b])'
               /\ b \in Filled(req'[holder[b]].seats) \ req'[holder[b]].left
    <3>1. CASE holder[b] = r
      BY <1>3, <1>5, <2>2, <2>4, <2>5, <3>1 DEF Inductive, HolderInv
    <3>2. CASE holder[b] # r
      BY <1>5, <2>2, <2>5, <3>2 DEF Inductive, HolderInv, Enrolling
    <3> QED
      BY <3>1, <3>2
  <2> QED
    BY <1>5, <2>1, <2>2, <2>3, <2>4, <2>5 DEF HolderInv
<1> QED
  BY <1>2, <1>4, <1>6, <1>7, <1>8, OneMoves DEF Inductive, TablesOK

\* Requests arrive: Admit, Import, Update, ChangeStatus, Promote, and the rest.
LEMMA Arrives ==
  ASSUME ArmsAssumption, Inductive, NEW r \in Request, Arrive(r)
  PROVE  Inductive'
<1>0. /\ student \in [Student -> Pupil]
      /\ \A arms : \A n \in Nat : Seats(arms, n) \in [Arm -> Nat]
  BY DEF Inductive, TablesOK, Seats
<1>1. ASSUME NEW s \in Student, NEW to \in Arms, Admit(r, s, to) PROVE Inductive'
  <2>1. {s} \in SUBSET Student /\ [s2 \in {s} |-> to] \in [{s} -> Arms]
    OBVIOUS
  <2> QED
    BY <1>0, <1>1, <2>1, EnrolStarts DEF Admit
<1>2. ASSUME NEW s \in Student, NEW to \in Arms, Update(r, s, to) PROVE Inductive'
  BY <1>0, <1>2, EnrolStarts DEF Update
<1>3. ASSUME NEW rows \in SUBSET Student, NEW place \in [rows -> Arms], Import(r, place)
      PROVE  Inductive'
  <2> DEFINE seats == [a \in Arm |-> Cardinality({s \in DOMAIN place : place[s] = a})]
  <2>1. seats \in [Arm -> Nat]
    <3>1. \A a \in Arm : {s \in DOMAIN place : place[s] = a} \in SUBSET Student
      OBVIOUS
    <3> QED
      BY <3>1, PupilsFinite
  <2>2. Begin(r, Enrol("import", rows, seats, place))
    BY <1>3 DEF Import
  <2> HIDE DEF seats
  <2> QED
    BY <2>1, <2>2, EnrolStarts
<1>4. ASSUME NEW s \in Student, NEW status \in Status, ChangeStatus(r, s, status)
      PROVE  Inductive'
  BY <1>0, <1>4, EnrolStarts DEF ChangeStatus
<1>5. ASSUME NEW movers \in SUBSET Student, NEW from \in Arm, NEW to \in Arms,
             Promote(r, movers, from, to)
      PROVE  Inductive'
  <2>1. Seats({to}, Cardinality(movers)) \in [Arm -> Nat]
    BY <1>0, PupilsFinite
  <2>2. [from |-> from, to |-> to] \in [from : Arm, to : Arms]
    OBVIOUS
  <2> QED
    BY <1>5, <2>1, <2>2, EnrolStarts DEF Promote
<1>6. ASSUME NEW a \in Arm, NEW limit \in Limit, Resize(r, a, limit) PROVE Inductive'
  BY <1>6, OtherStarts DEF Resize
<1>7. ASSUME NEW a \in Arm, RemoveArm(r, a) PROVE Inductive'
  BY <1>7, OtherStarts DEF RemoveArm
<1>8. ASSUME NEW s \in Student, RemoveStudent(r, s) PROVE Inductive'
  BY <1>8, OtherStarts DEF RemoveStudent
<1> QED
  BY <1>1, <1>2, <1>3, <1>4, <1>5, <1>6, <1>7, <1>8 DEF Arrive

\* What a statement makes of a student is a student.
LEMMA WrittenIsPupil ==
  ASSUME ArmsAssumption, Inductive, NEW r \in Request, Enrolling(r), NEW s \in req[r].pupils
  PROVE  s \in Student /\ Written(r, s) \in Pupil
<1>1. JobInv(r) /\ student \in [Student -> Pupil]
  BY DEF Inductive, TablesOK
<1>2. s \in Student
  BY <1>1 DEF JobInv, Enrolments, Enrolling, Idle
<1>3. CASE req[r].op \in {"admit", "import"}
  <2>1. req[r].arg[s] \in Arms
    BY <1>1, <1>3 DEF JobInv, Enrolments, Idle
  <2> QED
    BY <1>2, <1>3, <2>1 DEF Written, Pupil, Status, Arms
<1>4. CASE req[r].op = "update"
  <2>1. req[r].arg \in Arms
    BY <1>1, <1>4 DEF JobInv, Enrolments, Idle
  <2> QED
    BY <1>1, <1>2, <1>4, <2>1 DEF Written, Pupil, Arms
<1>5. CASE req[r].op = "status"
  <2>1. req[r].arg \in Status
    BY <1>1, <1>5 DEF JobInv, Enrolments, Idle
  <2> QED
    BY <1>1, <1>2, <1>5, <2>1 DEF Written, Pupil
<1>6. CASE req[r].op = "promote"
  <2>1. req[r].arg.to \in Arms
    BY <1>1, <1>6 DEF JobInv, Enrolments, Idle
  <2> QED
    BY <1>1, <1>2, <1>6, <2>1 DEF Written, Pupil, Arms, Status
<1> QED
  BY <1>2, <1>3, <1>4, <1>5, <1>6 DEF Enrolling

\* The arm or the student a deletion names.
LEMMA Named ==
  ASSUME Inductive, NEW r \in Request
  PROVE  /\ req[r].op = "resize" => req[r].arm \in Arm /\ req[r].limit \in Limit
         /\ req[r].op = "removeArm" => req[r].arm \in Arm
         /\ req[r].op = "removeStudent" => \E s \in Student : req[r].pupils = {s}
         /\ req[r].pupils \subseteq Student
         /\ req[r].op \in {"resize", "removeArm"} => req[r].pupils = {}
BY DEF Inductive, JobInv, Enrolments, Idle

LEMMA Proceeds ==
  ASSUME ArmsAssumption, Inductive, NEW r \in Request, Proceed(r)
  PROVE  Inductive'
<1>0. TablesOK
  BY DEF Inductive
<1>1. CASE Write(r)
  <2>1. student' \in [Student -> Pupil]
    BY <1>0, <1>1, WrittenIsPupil DEF Write, TablesOK
  <2> QED
    BY <1>0, <1>1, <2>1, Ends DEF Write, TablesOK
<1>2. CASE ResizeWrite(r)
  <2>1. capacity' \in [Arm -> Limit \cup {Gone}]
    BY <1>0, <1>2, Named DEF ResizeWrite, TablesOK
  <2> QED
    BY <1>0, <1>2, <2>1, Ends DEF ResizeWrite, TablesOK
<1>3. CASE RemoveArmWrite(r)
  <2>1. capacity' \in [Arm -> Limit \cup {Gone}]
    BY <1>0, <1>3 DEF RemoveArmWrite, TablesOK
  <2>2. student' \in [Student -> Pupil]
    <3>1. \A s \in Student : [student[s] EXCEPT !.arm = None] \in Pupil
      BY <1>0 DEF TablesOK, Pupil
    <3> QED
      BY <1>0, <1>3, <3>1 DEF RemoveArmWrite, TablesOK
  <2> QED
    BY <1>0, <1>3, <2>1, <2>2, Ends DEF RemoveArmWrite, TablesOK
<1>4. CASE RemoveStudentWrite(r)
  <2>1. PICK s \in Student : req[r].pupils = {s}
    BY <1>4, Named DEF RemoveStudentWrite
  <2>2. student' = [student EXCEPT ![s] = Nobody] /\ record' = [record EXCEPT ![s] = None]
    BY <1>4, <2>1 DEF RemoveStudentWrite
  <2>3. student' \in [Student -> Pupil] /\ record' \in [Student -> Arm \cup {None}]
    BY <1>0, <2>2 DEF TablesOK, Nobody, Pupil, Status
  <2> QED
    BY <1>0, <1>4, <2>3, Ends DEF RemoveStudentWrite, TablesOK
<1> QED
  BY <1>1, <1>2, <1>3, <1>4 DEF Proceed

LEMMA InductiveInvariant ==
  ASSUME ArmsAssumption
  PROVE  Spec => []Inductive
<1>1. Init => Inductive
  BY DEF Init, Inductive, TablesOK, HolderInv, JobInv, OrderInv, Enrolling, Idle, Nobody,
         Pupil, Status, Limit, ArmsAssumption
<1>2. ASSUME Inductive, [Next]_vars PROVE Inductive'
  <2>1. ASSUME NEW r \in Request, Arrive(r) PROVE Inductive'
    BY <1>2, <2>1, Arrives
  <2>2. ASSUME NEW r \in Request, Lock(r) PROVE Inductive'
    BY <1>2, <2>2, Locks
  <2>3. ASSUME NEW r \in Request, Proceed(r) PROVE Inductive'
    BY <1>2, <2>3, Proceeds
  <2>4. ASSUME NEW s \in Student, Record(s) PROVE Inductive'
    <3>1. /\ record' = [record EXCEPT ![s] = student[s].arm] /\ student[s].arm \in Arm \cup {None}
          /\ UNCHANGED <<capacity, student, holder, req>>
      BY <1>2, <2>4 DEF Record, Inductive, TablesOK, Pupil
    <3>2. TablesOK'
      BY <1>2, <3>1 DEF Inductive, TablesOK
    <3> QED
      BY <1>2, <3>1, <3>2 DEF Inductive, HolderInv, JobInv, OrderInv, Enrolling
  <2>5. CASE UNCHANGED vars
    BY <1>2, <2>5 DEF vars, Inductive, TablesOK, HolderInv, JobInv, OrderInv, Enrolling
  <2> QED
    BY <1>2, <2>1, <2>2, <2>3, <2>4, <2>5 DEF Next
<1> QED
  BY <1>1, <1>2, PTL DEF Spec

-----------------------------------------------------------------------------
(* The roll of an arm. *)

\* A job without seats, or one whose students are where they were, stands as it was.
LEMMA SeatsStay ==
  ASSUME ArmsAssumption, NEW r \in Request, SeatsInv(r), req'[r] = req[r],
         \A a \in Arm : Open(a)' => Open(a),
         \A s \in req[r].pupils :
           \/ student'[s] = student[s]
           \/ student'[s].arm = None /\ capacity'[student[s].arm] = Gone
  PROVE  SeatsInv(r)'
<1>1. ASSUME req[r].op \in {"admit", "import"}, NEW a \in Arm
      PROVE  Cardinality({s \in req'[r].pupils : req'[r].arg[s] = a}) <= req'[r].seats[a]
  BY <1>1 DEF SeatsInv
<1>2. ASSUME req[r].op = "update", NEW s \in req[r].pupils, req[r].arg \in Arm
      PROVE  \/ req[r].seats[req[r].arg] >= 1
             \/ student'[s].arm = req[r].arg
             \/ capacity'[req[r].arg] = Gone
  BY <1>2 DEF SeatsInv, Open
<1>3. ASSUME req[r].op = "status", NEW s \in req[r].pupils, req[r].arg = "ACTIVE",
             student'[s].arm \in Arm
      PROVE  req[r].seats[student'[s].arm] >= 1
  BY <1>3 DEF SeatsInv, ArmsAssumption
<1>4. /\ req[r].op \in {"update", "status"} => \A s \in req[r].pupils : req[r].pupils = {s}
      /\ req[r].op = "promote" /\ req[r].arg.to \in Arm
           => Cardinality(req[r].pupils) <= req[r].seats[req[r].arg.to]
  BY DEF SeatsInv
<1> QED
  BY <1>1, <1>2, <1>3, <1>4 DEF SeatsInv, Open

\* A request that ends, having written nobody but its own students, leaves the others' jobs.
LEMMA RollOfEnding ==
  ASSUME ArmsAssumption, Inductive, RollInv, NEW r \in Request, End(r), RollFitsCapacity',
         \A a \in Arm : Open(a)' => Open(a),
         \A s \in Student \ req[r].pupils : student'[s] = student[s]
  PROVE  RollInv'
<1>1. req'[r] = Idle /\ \A q \in Request \ {r} : req'[q] = req[q]
  BY DEF End, Inductive, TablesOK
<1>2. ApartInv'
  BY <1>1 DEF RollInv, ApartInv, Idle
<1>3. SeatsInv(r)'
  BY <1>1 DEF SeatsInv, Idle
<1>4. ASSUME NEW q \in Request \ {r} PROVE SeatsInv(q)'
  <2>1. \A s \in req[q].pupils : student'[s] = student[s]
    BY Named DEF RollInv, ApartInv
  <2> QED
    BY <1>1, <2>1, SeatsStay DEF RollInv
<1> QED
  BY <1>2, <1>3, <1>4 DEF RollInv

\* The students a statement brings onto the roll of an arm have seats there
\* (assertHasRoom counts them before they come).
Coming(r, a) == {s \in req[r].pupils : s \notin Active(a) /\ Written(r, s).status = "ACTIVE"
                                                        /\ Written(r, s).arm = a}

LEMMA ComingHaveSeats ==
  ASSUME ArmsAssumption, Inductive, RollInv, NEW r \in Request, Enrolling(r), Possible(r),
         NEW a \in Arm, Open(a)
  PROVE  /\ Coming(r, a) \subseteq Student /\ req[r].seats[a] \in Nat
         /\ Cardinality(Coming(r, a)) <= req[r].seats[a]
<1>0. /\ JobInv(r) /\ SeatsInv(r) /\ student \in [Student -> Pupil]
      /\ req[r].pupils \in SUBSET Student /\ req[r].seats \in [Arm -> Nat]
  BY Named DEF Inductive, TablesOK, RollInv, JobInv, Enrolling, Enrolments, Idle
<1>1. Coming(r, a) \in SUBSET Student /\ req[r].seats[a] \in Nat
  BY <1>0 DEF Coming
<1>2. CASE Coming(r, a) = {}
  BY <1>1, <1>2, FS_EmptySet
<1>3. CASE req[r].op \in {"admit", "import"}
  <2> DEFINE P == {s \in req[r].pupils : req[r].arg[s] = a}
  <2>1. Coming(r, a) \subseteq P /\ P \in SUBSET Student
    BY <1>0, <1>3 DEF Coming, Written
  <2>2. Cardinality(P) <= req[r].seats[a]
    BY <1>0, <1>3 DEF SeatsInv
  <2> HIDE DEF P
  <2>3. /\ Cardinality(Coming(r, a)) <= Cardinality(P)
        /\ Cardinality(P) \in Nat /\ Cardinality(Coming(r, a)) \in Nat
    BY <1>1, <2>1, PupilsFinite, FS_Subset
  <2> QED
    BY <1>1, <2>2, <2>3
<1>4. ASSUME Coming(r, a) # {}, req[r].op \in {"update", "status"}
      PROVE  Cardinality(Coming(r, a)) <= req[r].seats[a]
  <2>1. PICK s \in Coming(r, a) : TRUE
    BY <1>4
  <2>2. /\ s \in req[r].pupils /\ s \in Student /\ s \notin Active(a)
        /\ Written(r, s).status = "ACTIVE" /\ Written(r, s).arm = a /\ student[s] \in Pupil
    BY <1>0, <2>1 DEF Coming
  <2>3. req[r].pupils = {s}
    BY <1>0, <1>4, <2>2 DEF SeatsInv
  <2>4. req[r].seats[a] >= 1
    <3>1. CASE req[r].op = "update"
      <4>1. Written(r, s) = [student[s] EXCEPT !.arm = req[r].arg]
        BY <3>1 DEF Written
      <4>2. req[r].arg = a /\ student[s].status = "ACTIVE"
        BY <2>2, <4>1 DEF Pupil
      <4>3. student[s].arm # a
        BY <2>2, <4>2 DEF Active
      <4> QED
        BY <1>0, <2>2, <3>1, <4>2, <4>3 DEF SeatsInv
    <3>2. CASE req[r].op = "status"
      <4>1. Written(r, s) = [student[s] EXCEPT !.status = req[r].arg]
        BY <3>2 DEF Written
      <4>2. req[r].arg = "ACTIVE" /\ student[s].arm = a
        BY <2>2, <4>1 DEF Pupil
      <4> QED
        BY <1>0, <2>2, <3>2, <4>2 DEF SeatsInv
    <3> QED
      BY <1>4, <3>1, <3>2
  <2>5. Cardinality(Coming(r, a)) \in Nat /\ Cardinality(Coming(r, a)) <= 1
    <3>1. Coming(r, a) \subseteq {s}
      BY <2>3 DEF Coming
    <3> QED
      BY <3>1, AtMostOne
  <2> QED
    BY <1>1, <2>4, <2>5
<1>5. ASSUME Coming(r, a) # {}, req[r].op = "promote"
      PROVE  Cardinality(Coming(r, a)) <= req[r].seats[a]
  <2>1. PICK s \in Coming(r, a) : TRUE
    BY <1>5
  <2>2. /\ s \in req[r].pupils /\ s \in Student /\ s \notin Active(a)
        /\ Written(r, s).status = "ACTIVE" /\ Written(r, s).arm = a /\ student[s] \in Pupil
    BY <1>0, <2>1 DEF Coming
  <2>3. req[r].arg.to = a
    <3>1. Written(r, s) # student[s]
      BY <2>2 DEF Active
    <3>2. req[r].arg.to # None
      BY <1>5, <2>2, <3>1 DEF Written
    <3>3. Written(r, s) = [student[s] EXCEPT !.arm = req[r].arg.to]
      BY <1>5, <3>1, <3>2 DEF Written
    <3> QED
      BY <2>2, <3>3 DEF Pupil
  <2>4. Cardinality(req[r].pupils) <= req[r].seats[a]
    BY <1>0, <1>5, <2>3 DEF SeatsInv
  <2>5. /\ Cardinality(Coming(r, a)) <= Cardinality(req[r].pupils)
        /\ Cardinality(req[r].pupils) \in Nat /\ Cardinality(Coming(r, a)) \in Nat
    <3>1. Coming(r, a) \subseteq req[r].pupils
      BY DEF Coming
    <3> QED
      BY <1>0, <1>1, <3>1, PupilsFinite, FS_Subset
  <2> QED
    BY <1>1, <2>4, <2>5
<1> QED
  BY <1>1, <1>2, <1>3, <1>4, <1>5 DEF Enrolling

\* A transaction that commits counted the roll it fills under the lock of its arm.
LEMMA WriteKeepsRolls ==
  ASSUME ArmsAssumption, Inductive, RollInv, NEW r \in Request, Write(r)
  PROVE  RollInv'
<1>0. /\ Enrolling(r) /\ End(r) /\ capacity' = capacity
      /\ req[r].pupils \subseteq Student /\ student \in [Student -> Pupil]
      /\ \A a \in Arm : capacity[a] = Gone \/ capacity[a] \in Limit
  BY Named DEF Write, Inductive, TablesOK
<1>1. \A s \in Student \ req[r].pupils : student'[s] = student[s]
  BY DEF Write
<1>2. RollFitsCapacity'
  <2>1. CASE student' = student
    <3>1. \A a \in Arm : Active(a)' = Active(a)
      BY <2>1 DEF Active
    <3> QED
      BY <1>0, <3>1 DEF RollInv, RollFitsCapacity, Open
  <2>2. CASE /\ HasRoom(r) /\ Possible(r)
             /\ student' = [s \in Student |-> IF s \in req[r].pupils THEN Written(r, s)
                                                                     ELSE student[s]]
    <3>1. SUFFICES ASSUME NEW a \in Arm, Open(a), capacity[a] # None
                   PROVE  Cardinality(Active(a)') <= capacity[a]
      BY <1>0 DEF RollFitsCapacity, Open
    <3>2. /\ Coming(r, a) \in SUBSET Student /\ req[r].seats[a] \in Nat
          /\ Cardinality(Coming(r, a)) <= req[r].seats[a]
      BY <1>0, <2>2, <3>1, ComingHaveSeats
    <3>3. Active(a)' \in SUBSET Student /\ Active(a) \in SUBSET Student
      BY DEF Active
    <3>4. Active(a)' \subseteq Active(a) \cup Coming(r, a)
      BY <2>2 DEF Active, Coming
    <3>5. /\ IsFiniteSet(Active(a)) /\ Cardinality(Active(a)) \in Nat
          /\ IsFiniteSet(Coming(r, a)) /\ Cardinality(Coming(r, a)) \in Nat
          /\ IsFiniteSet(Active(a)') /\ Cardinality(Active(a)') \in Nat
      BY <3>2, <3>3, PupilsFinite
    <3>6. Cardinality(Active(a)') <= Cardinality(Active(a)) + Cardinality(Coming(r, a))
      <4> DEFINE A == Active(a)  B == Coming(r, a)  C == Active(a)'
      <4>1. /\ IsFiniteSet(A \cup B)
            /\ Cardinality(A \cup B) = Cardinality(A) + Cardinality(B) - Cardinality(A \cap B)
        BY <3>5, FS_Union
      <4>2. Cardinality(A \cap B) \in Nat
        BY <3>5, FS_Intersection, FS_CardinalityType
      <4>3. Cardinality(C) <= Cardinality(A \cup B)
        BY <3>4, <4>1, FS_Subset
      <4> HIDE DEF A, B, C
      <4>4. Cardinality(C) <= Cardinality(A) + Cardinality(B)
        <5>1. Cardinality(A) \in Nat /\ Cardinality(B) \in Nat /\ Cardinality(C) \in Nat
          BY <3>5 DEF A, B, C
        <5> QED
          BY <4>1, <4>2, <4>3, <5>1
      <4> QED
        BY <4>4 DEF A, B, C
    <3>7. capacity[a] \in Nat
      BY <1>0, <3>1 DEF Limit, Open
    <3>8. CASE req[r].seats[a] > 0
      <4>1. Cardinality(Active(a)) + req[r].seats[a] <= capacity[a]
        BY <2>2, <3>1, <3>8 DEF HasRoom, Filled
      <4> QED
        BY <3>2, <3>5, <3>6, <3>7, <4>1
    <3>9. CASE req[r].seats[a] = 0
      <4>1. Cardinality(Active(a)) <= capacity[a]
        BY <3>1 DEF RollInv, RollFitsCapacity
      <4> QED
        BY <3>2, <3>5, <3>6, <3>7, <3>9, <4>1
    <3> QED
      BY <3>2, <3>8, <3>9
  <2> QED
    BY <2>1, <2>2 DEF Write
<1>3. \A a \in Arm : Open(a)' => Open(a)
  BY <1>0 DEF Open
<1> QED
  BY <1>0, <1>1, <1>2, <1>3, RollOfEnding

\* A deletion shortens rolls, and only those.
LEMMA ShorterRollsFit ==
  ASSUME ArmsAssumption, RollFitsCapacity, student \in [Student -> Pupil],
         \A a \in Arm : capacity[a] = Gone \/ capacity[a] \in Limit,
         \A a \in Arm : Open(a)' => Open(a) /\ capacity'[a] = capacity[a],
         \A a \in Arm : Open(a)' => Active(a)' \subseteq Active(a)
  PROVE  RollFitsCapacity'
<1>1. SUFFICES ASSUME NEW a \in Arm, Open(a)', capacity'[a] # None
               PROVE  Cardinality(Active(a)') <= capacity'[a]
  BY DEF RollFitsCapacity
<1>2. /\ Open(a) /\ capacity'[a] = capacity[a] /\ Active(a)' \subseteq Active(a)
      /\ Cardinality(Active(a)) <= capacity[a] /\ capacity[a] \in Nat
  BY <1>1 DEF RollFitsCapacity, Limit, Open
<1>3. Active(a) \in SUBSET Student /\ Active(a)' \in SUBSET Student
  BY DEF Active
<1>4. /\ Cardinality(Active(a)') <= Cardinality(Active(a))
      /\ Cardinality(Active(a)) \in Nat /\ Cardinality(Active(a)') \in Nat
  BY <1>2, <1>3, PupilsFinite, FS_Subset
<1> QED
  BY <1>2, <1>4

LEMMA ProceedKeepsRolls ==
  ASSUME ArmsAssumption, Inductive, RollInv, ResizeInv, NEW r \in Request, Proceed(r)
  PROVE  RollInv'
<1>0. /\ student \in [Student -> Pupil] /\ record \in [Student -> Arm \cup {None}]
      /\ capacity \in [Arm -> Limit \cup {Gone}] /\ RollFitsCapacity
      /\ \A a \in Arm : capacity[a] = Gone \/ capacity[a] \in Limit
  BY DEF Inductive, TablesOK, RollInv
<1>1. CASE Write(r)
  BY <1>1, WriteKeepsRolls
<1>2. CASE ResizeWrite(r)
  <2>1. PICK a, limit : a = req[r].arm /\ limit = req[r].limit
    OBVIOUS
  <2>2. /\ a \in Arm /\ limit \in Limit /\ req[r].op = "resize"
        /\ capacity' = [capacity EXCEPT ![a] = IF @ = Gone THEN @ ELSE limit]
        /\ student' = student /\ End(r)
    BY <1>2, <2>1, Named DEF ResizeWrite
  <2>3. \A q \in Request : req'[q] = Idle
    BY <2>2 DEF ResizeInv, End, Inductive, TablesOK
  <2>4. RollFitsCapacity'
    <3>1. SUFFICES ASSUME NEW b \in Arm, Open(b)', capacity'[b] # None
                   PROVE  Cardinality(Active(b)') <= capacity'[b]
      BY DEF RollFitsCapacity
    <3>2. Active(b)' = Active(b)
      BY <2>2 DEF Active
    <3>3. CASE b = a
      BY <1>0, <2>1, <2>2, <3>1, <3>2, <3>3 DEF ResizeInv, Open
    <3>4. CASE b # a
      BY <1>0, <2>2, <3>1, <3>2, <3>4 DEF RollFitsCapacity, Open
    <3> QED
      BY <3>3, <3>4
  <2> QED
    BY <2>3, <2>4 DEF RollInv, ApartInv, SeatsInv, Idle
<1>3. CASE RemoveArmWrite(r)
  <2> DEFINE a == req[r].arm
  <2>1. a \in Arm /\ End(r) /\ record' = record
    BY <1>3, Named DEF RemoveArmWrite
  <2>2. CASE UNCHANGED <<capacity, student>>
    <3>1. RollFitsCapacity'
      BY <1>0, <2>2, ShorterRollsFit DEF Open, Active
    <3> QED
      BY <2>1, <2>2, <3>1, RollOfEnding DEF Open
  <2>3. CASE /\ capacity' = [capacity EXCEPT ![a] = Gone]
             /\ student' = [s \in Student |-> IF student[s].arm = a
                                              THEN [student[s] EXCEPT !.arm = None] ELSE student[s]]
    <3>1. /\ capacity'[a] = Gone
          /\ \A b \in Arm \ {a} : capacity'[b] = capacity[b]
          /\ \A s \in Student : \/ student'[s] = student[s]
                                \/ /\ student'[s].arm = None
                                   /\ student[s].arm = a
      BY <1>0, <2>1, <2>3 DEF Pupil
    <3> HIDE DEF a
    <3>2. RollFitsCapacity'
      <4>1. \A b \in Arm : Open(b)' => Open(b) /\ capacity'[b] = capacity[b]
        BY <3>1 DEF Open
      <4>2. \A b \in Arm : Active(b)' \subseteq Active(b)
        BY <3>1 DEF Active, ArmsAssumption
      <4> QED
        BY <1>0, <4>1, <4>2, ShorterRollsFit
    <3>3. req'[r] = Idle /\ \A q \in Request \ {r} : req'[q] = req[q]
      BY <2>1 DEF End, Inductive, TablesOK
    <3>4. ApartInv' /\ SeatsInv(r)'
      BY <3>3 DEF RollInv, ApartInv, SeatsInv, Idle
    <3>5. ASSUME NEW q \in Request \ {r} PROVE SeatsInv(q)'
      <4>1. \A s \in req[q].pupils : \/ student'[s] = student[s]
                                     \/ student'[s].arm = None /\ capacity'[student[s].arm] = Gone
        BY <3>1, Named
      <4>2. \A b \in Arm : Open(b)' => Open(b)
        BY <3>1 DEF Open
      <4> QED
        BY <3>3, <4>1, <4>2, SeatsStay DEF RollInv
    <3> QED
      BY <3>2, <3>4, <3>5 DEF RollInv
  <2> QED
    BY <1>3, <2>2, <2>3 DEF RemoveArmWrite
<1>4. CASE RemoveStudentWrite(r)
  <2>1. PICK s \in Student : req[r].pupils = {s}
    BY <1>4, Named DEF RemoveStudentWrite
  <2>2. student' = [student EXCEPT ![s] = Nobody] /\ capacity' = capacity /\ End(r)
    BY <1>4, <2>1 DEF RemoveStudentWrite
  <2>3. \A a \in Arm : Active(a)' \subseteq Active(a)
    BY <1>0, <2>2 DEF Active, Nobody
  <2>4. RollFitsCapacity'
    BY <1>0, <2>2, <2>3, ShorterRollsFit DEF Open
  <2> QED
    BY <1>0, <2>1, <2>2, <2>4, RollOfEnding DEF Open
<1> QED
  BY <1>1, <1>2, <1>3, <1>4 DEF Proceed

\* What a request asks for when it arrives.
LEMMA ArriveKeepsRolls ==
  ASSUME ArmsAssumption, ~MayOverlap, ~MayResize, Inductive, RollInv,
         NEW r \in Request, Arrive(r)
  PROVE  RollInv'
<1>1. ASSUME NEW job, Begin(r, job), req'[r] = job => SeatsInv(r)' PROVE RollInv'
  <2>1. /\ req'[r] = job /\ \A q \in Request \ {r} : req'[q] = req[q]
        /\ \A q \in Request : req[q].pupils \cap job.pupils = {}
        /\ UNCHANGED <<capacity, student>>
    BY <1>1 DEF Begin, Inductive, TablesOK
  <2>2. ApartInv'
    BY <2>1 DEF RollInv, ApartInv
  <2>3. RollFitsCapacity'
    BY <2>1 DEF RollInv, RollFitsCapacity, Open, Active
  <2>4. \A q \in Request \ {r} : SeatsInv(q)'
    BY <2>1, SeatsStay DEF RollInv, Open
  <2> QED
    BY <1>1, <2>1, <2>2, <2>3, <2>4 DEF RollInv
<1>2. ASSUME NEW s \in Student, NEW to \in Arms, Admit(r, s, to) PROVE RollInv'
  <2> DEFINE job == Enrol("admit", {s}, Seats({to}, 1), [s2 \in {s} |-> to])
  <2>1. ASSUME req'[r] = job PROVE SeatsInv(r)'
    <3>1. ASSUME NEW a \in Arm
          PROVE  Cardinality({s2 \in {s} : [s3 \in {s} |-> to][s2] = a}) <= Seats({to}, 1)[a]
      <4> DEFINE P == {s2 \in {s} : [s3 \in {s} |-> to][s2] = a}
      <4>1. CASE a = to
        BY <4>1, AtMostOne, P \subseteq {s} DEF Seats
      <4>2. CASE a # to
        <5>1. P = {}
          BY <4>2
        <5> QED
          BY <4>2, <5>1, FS_EmptySet DEF Seats
      <4> QED
        BY <4>1, <4>2
    <3> QED
      BY <2>1, <3>1 DEF SeatsInv, Enrol
  <2> QED
    BY <1>1, <1>2, <2>1 DEF Admit
<1>3. ASSUME NEW s \in Student, NEW to \in Arms, Update(r, s, to) PROVE RollInv'
  <2> DEFINE job == Enrol("update", {s}, Seats({to} \ {student[s].arm}, 1), to)
  <2>1. ASSUME req'[r] = job, student' = student PROVE SeatsInv(r)'
    BY <2>1 DEF SeatsInv, Enrol, Seats
  <2> QED
    BY <1>1, <1>3, <2>1 DEF Update, Begin
<1>4. ASSUME NEW rows \in SUBSET Student, NEW place \in [rows -> Arms], Import(r, place)
      PROVE  RollInv'
  <2> DEFINE seats == [a \in Arm |-> Cardinality({s \in DOMAIN place : place[s] = a})]
             job   == Enrol("import", rows, seats, place)
  <2>1. ASSUME req'[r] = job PROVE SeatsInv(r)'
    <3>1. ASSUME NEW a \in Arm
          PROVE  Cardinality({s \in rows : place[s] = a}) <= seats[a]
      BY PupilsFinite, {s \in rows : place[s] = a} \in SUBSET Student
    <3> QED
      BY <2>1, <3>1 DEF SeatsInv, Enrol
  <2> QED
    BY <1>1, <1>4, <2>1 DEF Import
<1>5. ASSUME NEW s \in Student, NEW status \in Status, ChangeStatus(r, s, status)
      PROVE  RollInv'
  <2> DEFINE job == Enrol("status", {s}, Seats(IF status = "ACTIVE" THEN {student[s].arm}
                                                                    ELSE {}, 1), status)
  <2>1. ASSUME req'[r] = job, student' = student PROVE SeatsInv(r)'
    BY <2>1 DEF SeatsInv, Enrol, Seats
  <2> QED
    BY <1>1, <1>5, <2>1 DEF ChangeStatus, Begin
<1>6. ASSUME NEW movers \in SUBSET Student, NEW from \in Arm, NEW to \in Arms,
             Promote(r, movers, from, to)
      PROVE  RollInv'
  <2> DEFINE job == Enrol("promote", movers, Seats({to}, Cardinality(movers)),
                          [from |-> from, to |-> to])
  <2>1. ASSUME req'[r] = job PROVE SeatsInv(r)'
    <3>1. Cardinality(movers) \in Nat
      BY PupilsFinite
    <3> QED
      BY <2>1, <3>1 DEF SeatsInv, Enrol, Seats
  <2> QED
    BY <1>1, <1>6, <2>1 DEF Promote
<1>7. ASSUME NEW a \in Arm, RemoveArm(r, a) PROVE RollInv'
  BY <1>1, <1>7 DEF RemoveArm, SeatsInv
<1>8. ASSUME NEW s \in Student, RemoveStudent(r, s) PROVE RollInv'
  BY <1>1, <1>8 DEF RemoveStudent, SeatsInv
<1>9. ASSUME NEW a \in Arm, NEW limit \in Limit, Resize(r, a, limit) PROVE RollInv'
  <2> DEFINE job == [op |-> "resize", pupils |-> {}, arm |-> a, limit |-> limit]
  <2>1. Begin(r, job)
    BY <1>9 DEF Resize
  <2> QED
    BY <1>1, <2>1 DEF SeatsInv
<1> QED
  BY <1>2, <1>3, <1>4, <1>5, <1>6, <1>7, <1>8, <1>9 DEF Arrive

\* Whoever arrives begins; a change of a capacity is told from the others.
LEMMA ArrivalBegins ==
  ASSUME NEW r \in Request, Arrive(r)
  PROVE  \/ \E a \in Arm, limit \in Limit : Resize(r, a, limit)
         \/ \E job : Begin(r, job) /\ job.op # "resize"
<1> DEFINE Goal == \E job : Begin(r, job) /\ job.op # "resize"
<1>1. ASSUME NEW op, op # "resize", NEW pupils, NEW seats, NEW arg,
             Begin(r, Enrol(op, pupils, seats, arg))
      PROVE  Goal
  <2>1. Enrol(op, pupils, seats, arg).op # "resize"
    BY <1>1 DEF Enrol
  <2> QED
    BY <1>1, <2>1
<1>2. ASSUME NEW s \in Student, NEW to \in Arms, Admit(r, s, to) \/ Update(r, s, to) PROVE Goal
  BY <1>1, <1>2 DEF Admit, Update
<1>3. ASSUME NEW rows \in SUBSET Student, NEW place \in [rows -> Arms], Import(r, place) PROVE Goal
  BY <1>1, <1>3 DEF Import
<1>4. ASSUME NEW s \in Student, NEW status \in Status, ChangeStatus(r, s, status) PROVE Goal
  BY <1>1, <1>4 DEF ChangeStatus
<1>5. ASSUME NEW movers \in SUBSET Student, NEW from \in Arm, NEW to \in Arms,
             Promote(r, movers, from, to)
      PROVE  Goal
  BY <1>1, <1>5 DEF Promote
<1>6. ASSUME NEW a \in Arm, RemoveArm(r, a) PROVE Goal
  BY <1>6 DEF RemoveArm
<1>7. ASSUME NEW s \in Student, RemoveStudent(r, s) PROVE Goal
  BY <1>7 DEF RemoveStudent
<1> QED
  BY <1>2, <1>3, <1>4, <1>5, <1>6, <1>7 DEF Arrive

\* Whoever is to change a capacity has it to themselves until it is written.
LEMMA ResizeStaysAlone ==
  ASSUME ArmsAssumption, ~MayResize, Inductive, ResizeInv, [Next]_vars
  PROVE  ResizeInv'
<1>1. ASSUME NEW r \in Request, NEW job, Begin(r, job), job.op # "resize" PROVE ResizeInv'
  <2>1. /\ req'[r] = job /\ \A q \in Request \ {r} : req'[q] = req[q]
        /\ \A q \in Request : req[q].op # "resize"
    BY <1>1 DEF Begin, Inductive, TablesOK
  <2> QED
    BY <1>1, <2>1 DEF ResizeInv
<1>2. ASSUME NEW r \in Request, NEW a \in Arm, NEW limit \in Limit, Resize(r, a, limit)
      PROVE  ResizeInv'
  <2> DEFINE job == [op |-> "resize", pupils |-> {}, arm |-> a, limit |-> limit]
  <2>1. /\ req' = [req EXCEPT ![r] = job] /\ student' = student
        /\ \A q \in Request : req[q] = Idle
        /\ limit # None => limit >= Cardinality(Active(a))
    BY <1>2 DEF Resize, Begin
  <2>2. req'[r] = job /\ \A q \in Request \ {r} : req'[q] = Idle
    BY <2>1 DEF Inductive, TablesOK
  <2>3. limit # None => Cardinality(Active(a)) <= limit
    BY <2>1
  <2>5. \A q \in Request \ {r} : req'[q].op # "resize"
    BY <2>2 DEF Idle
  <2>6. req'[r].arm = a /\ req'[r].limit = limit
    BY <2>2
  <2> HIDE DEF job
  <2>7. Active(a) = {s \in Student : student'[s].status = "ACTIVE" /\ student'[s].arm = req'[r].arm}
    BY <2>1, <2>6 DEF Active
  <2> QED
    BY <2>2, <2>3, <2>5, <2>6, <2>7 DEF ResizeInv, Active
<1>3. ASSUME NEW r \in Request, Arrive(r) PROVE ResizeInv'
  BY <1>1, <1>2, <1>3, ArrivalBegins
<1>4. ASSUME NEW r \in Request, req[r].op # "none", NEW job, req' = [req EXCEPT ![r] = job],
             job.op # "resize"
      PROVE  ResizeInv'
  <2>1. req'[r] = job /\ \A q \in Request \ {r} : req'[q] = req[q]
    BY <1>4 DEF Inductive, TablesOK
  <2>2. \A q \in Request \ {r} : req[q].op # "resize"
    BY <1>4 DEF ResizeInv, Idle
  <2> QED
    BY <1>4, <2>1, <2>2 DEF ResizeInv
<1>5. ASSUME NEW r \in Request, Lock(r) PROVE ResizeInv'
  <2>1. PICK a \in req[r].left : req' = [req EXCEPT ![r].left = @ \ {a}]
    BY <1>5 DEF Lock
  <2>2. PICK job : /\ job = [req[r] EXCEPT !.left = @ \ {a}]
                   /\ req' = [req EXCEPT ![r] = job]
    BY <2>1
  <2>3. job.op = req[r].op /\ Enrolling(r)
    BY <1>5, <2>2 DEF Lock
  <2> QED
    BY <1>4, <2>2, <2>3 DEF Enrolling
<1>6. ASSUME NEW r \in Request, Proceed(r) PROVE ResizeInv'
  <2>1. req[r].op # "none" /\ End(r)
    BY <1>6 DEF Proceed, Write, Enrolling, ResizeWrite, RemoveArmWrite, RemoveStudentWrite
  <2>2. req' = [req EXCEPT ![r] = Idle] /\ Idle.op # "resize"
    BY <2>1 DEF End, Idle
  <2> QED
    BY <1>4, <2>1, <2>2
<1>7. CASE UNCHANGED <<student, req>>
  BY <1>7 DEF ResizeInv, Active
<1> QED
  BY <1>3, <1>5, <1>6, <1>7 DEF Next, Record, vars

LEMMA RollInvariant ==
  ASSUME ArmsAssumption, ~MayOverlap, ~MayResize
  PROVE  Spec => []RollInv
<1>1. ASSUME Init PROVE RollInv
  <2>1. RollFitsCapacity
    <3>1. \A a \in Arm : Active(a) = {}
      BY <1>1 DEF Init, Active, Nobody
    <3> QED
      BY <1>1, <3>1, FS_EmptySet DEF Init, RollFitsCapacity
  <2>2. ApartInv /\ \A r \in Request : SeatsInv(r)
    BY <1>1 DEF Init, ApartInv, SeatsInv, Idle
  <2> QED
    BY <2>1, <2>2 DEF RollInv
<1>2. ASSUME Inductive, RollInv, ResizeInv, [Next]_vars PROVE RollInv'
  <2>1. ASSUME NEW r \in Request, Arrive(r) PROVE RollInv'
    BY <1>2, <2>1, ArriveKeepsRolls
  <2>2. ASSUME NEW r \in Request, Lock(r) PROVE RollInv'
    <3>1. PICK a \in req[r].left :
             /\ req' = [req EXCEPT ![r].left = @ \ {a}] /\ UNCHANGED <<capacity, student>>
      BY <2>2 DEF Lock
    <3>2. req' = [req EXCEPT ![r] = [req[r] EXCEPT !.left = @ \ {a}]]
      BY <3>1
    <3>3. /\ req'[r] = [req[r] EXCEPT !.left = @ \ {a}]
          /\ \A q \in Request \ {r} : req'[q] = req[q]
      BY <1>2, <3>2 DEF Inductive, TablesOK
    <3>4. /\ Enrolling(r) /\ JobInv(r)
      BY <1>2, <2>2 DEF Lock, Inductive
    <3>5. /\ req'[r].op = req[r].op /\ req'[r].pupils = req[r].pupils
          /\ req'[r].seats = req[r].seats /\ req'[r].arg = req[r].arg
      BY <3>3, <3>4 DEF JobInv, Enrolling, Enrolments, Idle
    <3>6. ApartInv'
      <4>1. \A q \in Request : req'[q].pupils = req[q].pupils
        BY <3>3, <3>5
      <4>2. ApartInv
        BY <1>2 DEF RollInv
      <4> QED
        BY <4>1, <4>2 DEF ApartInv
    <3>7. RollFitsCapacity'
      BY <1>2, <3>1 DEF RollInv, RollFitsCapacity, Open, Active
    <3>8. SeatsInv(r)'
      BY <1>2, <3>1, <3>5 DEF RollInv, SeatsInv, Open
    <3>9. \A q \in Request \ {r} : SeatsInv(q)'
      BY <1>2, <3>1, <3>3, SeatsStay DEF RollInv, Open
    <3> QED
      BY <3>6, <3>7, <3>8, <3>9 DEF RollInv
  <2>3. ASSUME NEW r \in Request, Proceed(r) PROVE RollInv'
    BY <1>2, <2>3, ProceedKeepsRolls
  <2>4. CASE UNCHANGED <<capacity, student, req>>
    BY <1>2, <2>4 DEF RollInv, ApartInv, RollFitsCapacity, SeatsInv, Open, Active
  <2> QED
    BY <1>2, <2>1, <2>2, <2>3, <2>4 DEF Next, Record, vars
<1>3. Init => ResizeInv
  BY DEF Init, ResizeInv, Idle
<1> QED
  BY <1>1, <1>2, <1>3, ResizeStaysAlone, InductiveInvariant, PTL DEF Spec

-----------------------------------------------------------------------------
(* The theorems. *)

\* The types, and that whoever holds the row of an arm takes a seat there.
THEOREM ArmsTypeCorrect ==
  ASSUME ArmsAssumption
  PROVE  Spec => []TypeOK
<1>1. Inductive => TypeOK
  BY Named DEF Inductive, TablesOK, HolderInv, TypeOK
<1> QED
  BY <1>1, InductiveInvariant, PTL

\* However many arms each request fills, no two wait for each other (lockRows).
THEOREM ArmsDoNotDeadlock ==
  ASSUME ArmsAssumption
  PROVE  Spec => []NoDeadlyEmbrace
<1>1. ASSUME Inductive PROVE NoDeadlyEmbrace
  <2>1. SUFFICES ASSUME NEW r \in Request, NEW q \in Request, r # q,
                        WaitsFor(r, q), WaitsFor(q, r)
                 PROVE  FALSE
    BY DEF NoDeadlyEmbrace
  <2>2. PICK a \in req[r].left : holder[a] = q
    BY <2>1 DEF WaitsFor
  <2>3. PICK b \in req[q].left : holder[b] = r
    BY <2>1 DEF WaitsFor
  <2>4. Enrolling(r) /\ Enrolling(q) /\ req[r].left \subseteq Arm /\ req[q].left \subseteq Arm
    BY <1>1, <2>1 DEF WaitsFor, Inductive, JobInv, Enrolling, Enrolments, Idle
  <2>5. /\ a \in Filled(req[q].seats) \ req[q].left
        /\ b \in Filled(req[r].seats) \ req[r].left
    BY <1>1, <2>2, <2>3, <2>4 DEF Inductive, HolderInv, ArmsAssumption
  <2>6. a < b /\ b < a
    BY <1>1, <2>4, <2>5 DEF Inductive, OrderInv
  <2>7. a \in Nat /\ b \in Nat
    BY <2>4 DEF ArmsAssumption
  <2> QED
    BY <2>6, <2>7
<1> QED
  BY <1>1, InductiveInvariant, PTL

\* A promotion touches nobody who has left the arm since (promote).
THEOREM LeaversAreSpared ==
  ASSUME ArmsAssumption
  PROVE  Spec => [][PromotionSparesLeavers]_vars
<1>1. ASSUME Inductive, Inductive', [Next]_vars PROVE PromotionSparesLeavers
  <2>1. SUFFICES ASSUME NEW r \in Request, Promoting(r), NEW s \in Student,
                        s \notin Active(req[r].arg.from)
                 PROVE  student'[s] = student[s]
    BY DEF PromotionSparesLeavers
  <2>2. req[r].op = "promote" /\ req'[r] = Idle /\ req'[r].op = "none" /\ req'[r] # req[r]
    BY <2>1 DEF Promoting, Idle
  <2>3. CASE Write(r)
    BY <2>1, <2>2, <2>3 DEF Write, Written
  <2>4. \A q \in Request \ {r} : ~Proceed(q)
    <3>1. SUFFICES ASSUME NEW q \in Request \ {r}, End(q) PROVE FALSE
      BY DEF Proceed, Write, ResizeWrite, RemoveArmWrite, RemoveStudentWrite
    <3>2. req'[r] = req[r]
      BY <1>1, <3>1 DEF End, Inductive, TablesOK
    <3> QED
      BY <2>2, <3>2
  <2>5. Proceed(r) => Write(r)
    BY <2>2 DEF Proceed, ResizeWrite, RemoveArmWrite, RemoveStudentWrite
  <2>6. CASE student' = student
    BY <2>6
  <2>7. \A q \in Request : Arrive(q) => student' = student
    BY ArrivalBegins DEF Begin, Resize
  <2>8. \A q \in Request : Lock(q) => student' = student
    BY DEF Lock
  <2> QED
    BY <1>1, <2>3, <2>4, <2>5, <2>6, <2>7, <2>8 DEF Next, Record, vars
<1> QED
  BY <1>1, InductiveInvariant, PTL DEF Spec

\* No arm takes more active students than it holds, of one request for each
\* student at a time and capacities that change while nobody is at work
\* (assertHasRoom).
THEOREM RollsFit ==
  ASSUME ArmsAssumption, ~MayOverlap, ~MayResize
  PROVE  Spec => []RollFitsCapacity
<1>1. RollInv => RollFitsCapacity
  BY DEF RollInv
<1> QED
  BY <1>1, RollInvariant, PTL

-----------------------------------------------------------------------------
(* Fee structures and the invoices issued of them. *)

CONSTANTS Category, Structure, ItemLists
VARIABLES category, structure, invoices, job

Fees == INSTANCE FeeStructures

\* The same sets are of the same size there.
LEMMA FeesCount == ASSUME NEW S PROVE Fees!Cardinality(S) = Cardinality(S)
BY DEF Cardinality, Fees!Cardinality, IsFiniteSet, Fees!IsFiniteSet

\* Nothing adds up to nothing.
LEMMA NothingIsZero == Fees!Sum({}) = 0 /\ Fees!compulsoryTotal({}) = 0
<1>1. Fees!Sum({}) = 0
  <2>1. PICK U : U = UNION {{i} \X (1..i.amount) : i \in {}}
    OBVIOUS
  <2>2. U = {}
    BY <2>1
  <2>3. Fees!Sum({}) = Cardinality(U)
    BY <2>1, FeesCount DEF Fees!Sum
  <2> QED
    BY <2>2, <2>3, FS_EmptySet
<1>2. {i \in {} : ~i.optional} = {}
  OBVIOUS
<1> QED
  BY <1>1, <1>2 DEF Fees!compulsoryTotal

\* What a request is, by where it is.
LEMMA FeeJobIs ==
  ASSUME NEW j, Fees!JobOK(j)
  PROVE  /\ j.at = "create" => j \in [at : {"create"}, items : SUBSET Fees!Item]
         /\ j.at \in {"update", "publish", "archive", "remove", "bill"} =>
              j \in [at : {"update", "publish", "archive", "remove", "bill"}, s : Structure,
                     items : SUBSET Fees!Item]
         /\ j.at = "skip" =>
              j \in [at : {"skip"}, s : Structure, items : SUBSET Fees!Item,
                     students : SUBSET Student]
         /\ j.at = "issue" =>
              /\ j \in [at : {"issue"}, s : Structure, items : SUBSET Fees!Item,
                        students : SUBSET Student, targets : SUBSET Student]
              /\ j.students \ j.targets \subseteq Fees!Billed(j.s)
         /\ j.at = "issued" =>
              /\ j \in [at : {"issued"}, s : Structure, students : SUBSET Student]
              /\ j.students \subseteq Fees!Billed(j.s)
BY DEF Fees!JobOK

\* Invoices are never deleted: who was billed is.
LEMMA FeeJobStays ==
  ASSUME NEW j, Fees!JobOK(j), invoices \subseteq invoices'
  PROVE  Fees!JobOK(j)'
<1>1. \A s : Fees!Billed(s) \subseteq Fees!Billed(s)'
  BY DEF Fees!Billed, Fees!InvoicesOf
<1> QED
  BY <1>1 DEF Fees!JobOK

LEMMA FeeJobsStay ==
  ASSUME Fees!Typed, invoices \subseteq invoices',
         job' = job \/ \E q \in Request : \E j : job' = [job EXCEPT ![q] = j] /\ Fees!JobOK(j)'
  PROVE  job' = [q \in Request |-> job'[q]] /\ \A q \in Request : Fees!JobOK(job[q])'
<1>1. job' = [q \in Request |-> job'[q]]
  BY DEF Fees!Typed
<1>2. ASSUME NEW p \in Request PROVE Fees!JobOK(job[p])'
  <2>1. PICK k : k = job'[p]
    OBVIOUS
  <2>2. Fees!JobOK(k) \/ Fees!JobOK(k)'
    BY <2>1 DEF Fees!Typed
  <2>3. Fees!JobOK(k)'
    BY <2>2, FeeJobStays
  <2> QED
    BY <2>1, <2>3 DEF Fees!JobOK, Fees!Billed, Fees!InvoicesOf
<1> QED
  BY <1>1, <1>2

\* A request that begins or ends leaves the tables alone.
LEMMA FeeTablesStay ==
  ASSUME Fees!Typed, UNCHANGED <<structure, invoices>>,
         category' \in [Category -> {"none", "active", "retired"}],
         student' \in [Student -> {"ACTIVE", "WITHDRAWN"}],
         job' = job \/ \E q \in Request : \E j : job' = [job EXCEPT ![q] = j] /\ Fees!JobOK(j)'
  PROVE  Fees!Typed'
<1>1. job' = [q \in Request |-> job'[q]] /\ \A q \in Request : Fees!JobOK(job[q])'
  BY FeeJobsStay
<1> QED
  BY <1>1 DEF Fees!Typed, Fees!compulsoryTotal, Fees!Sum

LEMMA FeeRowWritten ==
  ASSUME Fees!Typed, NEW q \in Request, NEW s \in Structure, NEW row, Fees!Write(q, s, row),
         row \in {Fees!NoRow} \cup
            [status : {"DRAFT", "PUBLISHED", "ARCHIVED"}, items : SUBSET Fees!Item,
             total : {Fees!compulsoryTotal(row.items)}],
         row = Fees!NoRow => Fees!InvoicesOf(s) = {}
  PROVE  Fees!Typed'
<1>1. /\ structure' = [structure EXCEPT ![s] = row] /\ UNCHANGED <<category, student, invoices>>
      /\ job' = [job EXCEPT ![q] = [at |-> "done"]]
  BY DEF Fees!Write, Fees!End
<1>2. Fees!JobOK([at |-> "done"])'
  BY DEF Fees!JobOK
<1>3. job' = [p \in Request |-> job'[p]] /\ \A p \in Request : Fees!JobOK(job[p])'
  BY <1>1, <1>2, FeeJobsStay
<1>4. structure' = [x \in Structure |-> structure'[x]]
  BY <1>1 DEF Fees!Typed
<1>5. ASSUME NEW x \in Structure
      PROVE  structure'[x] \in {Fees!NoRow} \cup
               [status : {"DRAFT", "PUBLISHED", "ARCHIVED"}, items : SUBSET Fees!Item,
                total : {Fees!compulsoryTotal(structure'[x].items)}]
  BY <1>1 DEF Fees!Typed
<1>6. \A v \in invoices : structure'[v.structure] # Fees!NoRow
  BY <1>1 DEF Fees!Typed, Fees!InvoicesOf
<1> QED
  BY <1>1, <1>3, <1>4, <1>5, <1>6 DEF Fees!Typed, Fees!compulsoryTotal, Fees!Sum, Fees!NoRow

LEMMA FeeWritesTyped ==
  ASSUME Fees!Typed, NEW q \in Request,
         Fees!WriteCreate(q) \/ Fees!WriteUpdate(q) \/ Fees!WriteStatus(q) \/ Fees!WriteRemove(q)
  PROVE  Fees!Typed'
<1>1. PICK j : j = job[q] /\ Fees!JobOK(j)
  BY DEF Fees!Typed
<1>2. CASE Fees!WriteCreate(q)
  <2>1. PICK s, row :
          /\ s \in Structure /\ Fees!Write(q, s, row)
          /\ row = [status |-> "DRAFT", items |-> j.items, total |-> Fees!compulsoryTotal(j.items)]
    BY <1>1, <1>2 DEF Fees!WriteCreate
  <2>2. j.items \in SUBSET Fees!Item
    BY <1>1, <1>2, FeeJobIs DEF Fees!WriteCreate
  <2>3. row \in [status : {"DRAFT", "PUBLISHED", "ARCHIVED"}, items : SUBSET Fees!Item,
                 total : {Fees!compulsoryTotal(row.items)}] /\ row # Fees!NoRow
    BY <2>1, <2>2 DEF Fees!NoRow
  <2> QED
    BY <2>1, <2>3, FeeRowWritten
<1>3. ASSUME Fees!WriteUpdate(q) \/ Fees!WriteStatus(q) \/ Fees!WriteRemove(q)
      PROVE  j.s \in Structure /\ j.items \in SUBSET Fees!Item /\ structure[j.s] # Fees!NoRow
             /\ structure[j.s] \in [status : {"DRAFT", "PUBLISHED", "ARCHIVED"},
                                    items : SUBSET Fees!Item,
                                    total : {Fees!compulsoryTotal(structure[j.s].items)}]
  BY <1>1, <1>3, FeeJobIs DEF Fees!WriteUpdate, Fees!WriteStatus, Fees!WriteRemove, Fees!Typed
<1>4. CASE Fees!WriteUpdate(q)
  <2>1. PICK row : Fees!Write(q, j.s, row) /\ row = Fees!Retotalled(j.s, j.items)
    BY <1>1, <1>4 DEF Fees!WriteUpdate
  <2>2. row \in [status : {"DRAFT", "PUBLISHED", "ARCHIVED"}, items : SUBSET Fees!Item,
                 total : {Fees!compulsoryTotal(row.items)}] /\ row # Fees!NoRow
    BY <1>3, <1>4, <2>1 DEF Fees!NoRow, Fees!Retotalled
  <2> QED
    BY <1>3, <1>4, <2>1, <2>2, FeeRowWritten
<1>5. CASE Fees!WriteStatus(q)
  <2>1. PICK row, status : status \in {"PUBLISHED", "ARCHIVED"} /\
          Fees!Write(q, j.s, row) /\ row = [structure[j.s] EXCEPT !.status = status]
    BY <1>1, <1>5 DEF Fees!WriteStatus
  <2>2. row \in [status : {"DRAFT", "PUBLISHED", "ARCHIVED"}, items : SUBSET Fees!Item,
                 total : {Fees!compulsoryTotal(row.items)}] /\ row # Fees!NoRow
    BY <1>3, <1>5, <2>1 DEF Fees!NoRow
  <2> QED
    BY <1>3, <1>5, <2>1, <2>2, FeeRowWritten
<1>6. CASE Fees!WriteRemove(q)
  <2>1. Fees!Write(q, j.s, Fees!NoRow) /\ Fees!InvoicesOf(j.s) = {}
    BY <1>1, <1>6 DEF Fees!WriteRemove
  <2> QED
    BY <1>3, <1>6, <2>1, FeeRowWritten
<1> QED
  BY <1>2, <1>4, <1>5, <1>6

LEMMA FeeIssueTyped ==
  ASSUME Fees!Typed, NEW q \in Request, Fees!Issue(q)
  PROVE  Fees!Typed'
<1>1. PICK j : j = job[q] /\ Fees!JobOK(j)
  BY DEF Fees!Typed
<1>2. /\ j.s \in Structure /\ j.students \in SUBSET Student /\ j.targets \in SUBSET Student
      /\ j.students \ j.targets \subseteq Fees!Billed(j.s)
  BY <1>1, FeeJobIs DEF Fees!Issue
<1>3. /\ invoices' = invoices \cup {Fees!Invoice(q, n) : n \in j.targets}
      /\ job' = [job EXCEPT ![q] = [at |-> "issued", s |-> j.s, students |-> j.students]]
      /\ UNCHANGED <<category, structure, student>>
      /\ j.targets # {} => structure[j.s] # Fees!NoRow
  BY <1>1 DEF Fees!Issue, Fees!Lost
<1>4. \A n \in j.targets : Fees!Invoice(q, n).student = n /\ Fees!Invoice(q, n).structure = j.s
  BY <1>1 DEF Fees!Invoice
<1>5. j.students \subseteq Fees!Billed(j.s)'
  BY <1>2, <1>3, <1>4 DEF Fees!Billed, Fees!InvoicesOf
<1>6. Fees!JobOK([at |-> "issued", s |-> j.s, students |-> j.students])'
  BY <1>2, <1>5 DEF Fees!JobOK, Fees!Billed, Fees!InvoicesOf
<1>7. job' = [p \in Request |-> job'[p]] /\ \A p \in Request : Fees!JobOK(job[p])'
  BY <1>3, <1>6, FeeJobsStay
<1>8. \A v \in invoices' : v.student \in Student /\ v.structure \in Structure
                           /\ structure'[v.structure] # Fees!NoRow
  BY <1>2, <1>3, <1>4 DEF Fees!Typed
<1> QED
  BY <1>3, <1>7, <1>8 DEF Fees!Typed, Fees!compulsoryTotal, Fees!Sum

\* A request begins with what it has checked.
FeeBegun(q, j) ==
  /\ job' = [job EXCEPT ![q] = j] /\ Fees!JobOK(j) /\ Fees!Checked(j)
  /\ UNCHANGED <<category, structure, student, invoices>>

LEMMA FeeAskBegins ==
  ASSUME Fees!FeeStructuresAssumption, Fees!Typed, NEW q \in Request,
         \/ \E items \in ItemLists : Fees!Create(q, items)
         \/ \E items \in ItemLists, s \in Structure : Fees!Update(q, s, items)
         \/ \E s \in Structure : \/ Fees!Publish(q, s) \/ Fees!Archive(q, s) \/ Fees!Remove(q, s)
              \/ \E wanted \in SUBSET {i \in structure[s].items : i.optional} :
                   Fees!Assign(q, s, wanted)
  PROVE  Fees!Free(q) /\ \E j : FeeBegun(q, j)
<1>1. \A items \in ItemLists : items \in SUBSET Fees!Item
  BY DEF Fees!FeeStructuresAssumption
<1>2. ASSUME NEW items \in ItemLists, Fees!Create(q, items)
      PROVE  Fees!Free(q) /\ FeeBegun(q, [at |-> "create", items |-> items])
  BY <1>1, <1>2 DEF Fees!Create, FeeBegun, Fees!JobOK, Fees!Checked
<1>3. ASSUME NEW s \in Structure, NEW items \in ItemLists, Fees!Update(q, s, items)
      PROVE  Fees!Free(q) /\ FeeBegun(q, [at |-> "update", s |-> s, items |-> items])
  BY <1>1, <1>3 DEF Fees!Update, Fees!Ask, FeeBegun, Fees!JobOK, Fees!Checked
<1>4. ASSUME NEW s \in Structure, Fees!Publish(q, s)
      PROVE  Fees!Free(q) /\ FeeBegun(q, [at |-> "publish", s |-> s, items |-> {}])
  BY <1>4 DEF Fees!Publish, Fees!Ask, FeeBegun, Fees!JobOK, Fees!Checked
<1>5. ASSUME NEW s \in Structure, Fees!Archive(q, s)
      PROVE  Fees!Free(q) /\ FeeBegun(q, [at |-> "archive", s |-> s, items |-> {}])
  BY <1>5 DEF Fees!Archive, Fees!Ask, FeeBegun, Fees!JobOK, Fees!Checked
<1>6. ASSUME NEW s \in Structure, Fees!Remove(q, s)
      PROVE  Fees!Free(q) /\ FeeBegun(q, [at |-> "remove", s |-> s, items |-> {}])
  BY <1>6 DEF Fees!Remove, Fees!Ask, FeeBegun, Fees!JobOK, Fees!Checked
<1>7. ASSUME NEW s \in Structure, NEW wanted \in SUBSET {i \in structure[s].items : i.optional},
             Fees!Assign(q, s, wanted)
      PROVE  Fees!Free(q) /\ FeeBegun(q, [at |-> "bill", s |-> s,
               items |-> {i \in structure[s].items : ~i.optional} \cup wanted])
  <2>1. structure[s].items \subseteq Fees!Item
    BY DEF Fees!Typed, Fees!NoRow
  <2> QED
    BY <1>7, <2>1 DEF Fees!Assign, FeeBegun, Fees!JobOK, Fees!Checked
<1> QED
  BY <1>2, <1>3, <1>4, <1>5, <1>6, <1>7

\* An assignment finds its students, and then leaves out who is billed, which is
\* here to stay.
FeeGoesOn(q, j) ==
  /\ job' = [job EXCEPT ![q] = j] /\ Fees!JobOK(j) /\ job[q].at \in Fees!Under
  /\ UNCHANGED <<category, structure, student, invoices>>
  /\ Fees!Checked(job[q]) => Fees!Checked(j)

LEMMA FeeStudents ==
  ASSUME Fees!Typed, NEW q \in Request, NEW students \in SUBSET Fees!Active,
         Fees!ResolveStudents(q, students)
  PROVE  \E j : FeeGoesOn(q, j)
<1>1. PICK k : k = job[q] /\ Fees!JobOK(k) /\ k.at = "bill"
  BY DEF Fees!Typed, Fees!ResolveStudents
<1>2. k.s \in Structure /\ k.items \in SUBSET Fees!Item
  BY <1>1, FeeJobIs
<1>3. students \in SUBSET Student
  BY DEF Fees!Active
<1>4. PICK j : j = [at |-> "skip", s |-> k.s, items |-> k.items, students |-> students]
  OBVIOUS
<1>5. Fees!JobOK(j)
  BY <1>2, <1>3, <1>4 DEF Fees!JobOK
<1>6. Fees!Checked(k) => Fees!Checked(j)
  BY <1>1, <1>4 DEF Fees!Checked
<1> QED
  BY <1>1, <1>4, <1>5, <1>6 DEF Fees!ResolveStudents, FeeGoesOn, Fees!Under

LEMMA FeeTargets ==
  ASSUME Fees!Typed, NEW q \in Request, Fees!SkipBilled(q)
  PROVE  \E j : FeeGoesOn(q, j)
<1>1. PICK k : k = job[q] /\ Fees!JobOK(k) /\ k.at = "skip"
  BY DEF Fees!Typed, Fees!SkipBilled
<1>2. k.s \in Structure /\ k.items \in SUBSET Fees!Item /\ k.students \in SUBSET Student
  BY <1>1, FeeJobIs
<1>3. PICK j : j = [at |-> "issue", s |-> k.s, items |-> k.items, students |-> k.students,
                    targets |-> k.students \ Fees!Billed(k.s)]
  OBVIOUS
<1>4. Fees!JobOK(j)
  BY <1>2, <1>3 DEF Fees!JobOK
<1>5. Fees!Checked(k) => Fees!Checked(j)
  BY <1>1, <1>3 DEF Fees!Checked
<1> QED
  BY <1>1, <1>3, <1>4, <1>5 DEF Fees!SkipBilled, Fees!Targets, FeeGoesOn, Fees!Under

LEMMA FeeNextTyped ==
  ASSUME Fees!FeeStructuresAssumption, Fees!Typed, [Fees!Next]_(Fees!vars)
  PROVE  Fees!Typed'
<1>1. ASSUME NEW c \in Category,
             Fees!CreateCategory(c) \/ Fees!UpdateCategory(c) \/ Fees!RemoveCategory(c)
      PROVE  Fees!Typed'
  <2>1. /\ UNCHANGED <<structure, student, invoices, job>>
        /\ \E to : category' = [category EXCEPT ![c] = to] /\ to \in {"none", "active", "retired"}
    BY <1>1 DEF Fees!CreateCategory, Fees!UpdateCategory, Fees!RemoveCategory
  <2>2. category' \in [Category -> {"none", "active", "retired"}]
    BY <2>1 DEF Fees!Typed
  <2>3. student' \in [Student -> {"ACTIVE", "WITHDRAWN"}]
    BY <2>1 DEF Fees!Typed
  <2> QED
    BY <2>1, <2>2, <2>3, FeeTablesStay
<1>2. ASSUME NEW n \in Student, Fees!ChangeStatus(n) PROVE Fees!Typed'
  <2>1. UNCHANGED <<category, structure, invoices, job>>
        /\ student' \in [Student -> {"ACTIVE", "WITHDRAWN"}]
    BY <1>2 DEF Fees!ChangeStatus, Fees!Typed
  <2>2. category' \in [Category -> {"none", "active", "retired"}]
    BY <2>1 DEF Fees!Typed
  <2> QED
    BY <2>1, <2>2, FeeTablesStay
<1>3. ASSUME NEW q \in Request, NEW j, job' = [job EXCEPT ![q] = j], Fees!JobOK(j),
             UNCHANGED <<category, structure, student, invoices>>
      PROVE  Fees!Typed'
  <2>1. Fees!JobOK(j)'
    BY <1>3, FeeJobStays
  <2>2. /\ category' \in [Category -> {"none", "active", "retired"}]
        /\ student' \in [Student -> {"ACTIVE", "WITHDRAWN"}]
    BY <1>3 DEF Fees!Typed
  <2> QED
    BY <1>3, <2>1, <2>2, FeeTablesStay
<1>4. ASSUME NEW q \in Request, Fees!Fail(q) \/ Fees!RefuseStudents(q) \/ Fees!Abort(q)
      PROVE  Fees!Typed'
  <2>1. PICK out \in {"refused", "duplicate"} : Fees!End(q, out)
    BY <1>4 DEF Fees!Fail, Fees!RefuseStudents, Fees!Abort
  <2>2. UNCHANGED <<category, structure, student, invoices>>
    BY <1>4 DEF Fees!Fail, Fees!RefuseStudents, Fees!Abort
  <2>3. Fees!JobOK([at |-> out])
    BY DEF Fees!JobOK
  <2> QED
    BY <1>3, <2>1, <2>2, <2>3 DEF Fees!End
<1>5. ASSUME NEW q \in Request,
             \/ \E students \in SUBSET Fees!Active : Fees!ResolveStudents(q, students)
             \/ Fees!SkipBilled(q)
      PROVE  Fees!Typed'
  BY <1>3, <1>5, FeeStudents, FeeTargets DEF FeeGoesOn
<1>6. ASSUME NEW q \in Request, NEW j, FeeBegun(q, j) PROVE Fees!Typed'
  BY <1>3, <1>6 DEF FeeBegun
<1>7. CASE UNCHANGED Fees!vars
  BY <1>7, FeeTablesStay DEF Fees!vars, Fees!Typed
<1> QED
  BY <1>1, <1>2, <1>4, <1>5, <1>6, <1>7, FeeAskBegins, FeeWritesTyped, FeeIssueTyped
     DEF Fees!Next

LEMMA FeeInitTyped ==
  ASSUME Fees!Init
  PROVE  Fees!Typed /\ invoices = {} /\ \A q \in Request : job[q] = Fees!Idle
BY NothingIsZero DEF Fees!Init, Fees!Typed, Fees!NoRow, Fees!Idle, Fees!JobOK

LEMMA FeeTyped ==
  ASSUME Fees!FeeStructuresAssumption
  PROVE  Fees!Spec => []Fees!Typed
<1>1. Fees!Init => Fees!Typed
  BY FeeInitTyped
<1>2. Fees!Typed /\ [Fees!Next]_(Fees!vars) => Fees!Typed'
  BY FeeNextTyped
<1> QED
  BY <1>1, <1>2, PTL DEF Fees!Spec

(***************************************************************************)
(* Types; a structure keeps its total in step with its compulsory items    *)
(* (FeeStructuresService.update), and every invoice has a student and a    *)
(* structure on file, whatever requests overlap.                           *)
(***************************************************************************)
THEOREM FeesTypeCorrect ==
  ASSUME Fees!FeeStructuresAssumption
  PROVE  Fees!Spec => []Fees!TypeOK
<1>1. ASSUME Fees!Typed PROVE Fees!TypeOK
  <2>1. ASSUME NEW s \in Structure
        PROVE  /\ structure[s].status \in {"none", "DRAFT", "PUBLISHED", "ARCHIVED"}
               /\ structure[s].items \subseteq Fees!Item
               /\ structure[s].total = Fees!compulsoryTotal(structure[s].items)
    <3>1. CASE structure[s] = Fees!NoRow
      BY <3>1, NothingIsZero DEF Fees!NoRow
    <3>2. CASE structure[s] # Fees!NoRow
      BY <1>1, <3>2 DEF Fees!Typed
    <3> QED
      BY <3>1, <3>2
  <2> QED
    BY <1>1, <2>1 DEF Fees!Typed, Fees!TypeOK
<1> QED
  BY <1>1, FeeTyped, PTL

(***************************************************************************)
(* An assignment that is answered with its invoices has left nobody out    *)
(* (StudentFeesService.assign), whatever requests overlap and whoever was  *)
(* billed by another one meanwhile.                                        *)
(***************************************************************************)
THEOREM NobodyIsLeftOut ==
  ASSUME Fees!FeeStructuresAssumption
  PROVE  Fees!Spec => []Fees!NobodyIsMissed
<1>1. Fees!Typed => Fees!NobodyIsMissed
  BY FeeJobIs DEF Fees!Typed, Fees!NobodyIsMissed
<1> QED
  BY <1>1, FeeTyped, PTL

\* Only an assignment issues invoices.
LEMMA OnlyIssueBills ==
  ASSUME [Fees!Next]_(Fees!vars), invoices' # invoices
  PROVE  \E q \in Request : Fees!Issue(q)
<1>1. ASSUME NEW q \in Request, Fees!WriteCreate(q) \/ Fees!WriteUpdate(q)
               \/ Fees!WriteStatus(q) \/ Fees!WriteRemove(q)
      PROVE  invoices' = invoices
  BY <1>1 DEF Fees!WriteCreate, Fees!WriteUpdate, Fees!WriteStatus, Fees!WriteRemove, Fees!Write
<1> QED
  BY <1>1 DEF Fees!Next, Fees!vars, Fees!CreateCategory, Fees!UpdateCategory,
     Fees!RemoveCategory, Fees!ChangeStatus, Fees!Create, Fees!Update, Fees!Publish,
     Fees!Archive, Fees!Remove, Fees!Ask, Fees!Assign, Fees!ResolveStudents, Fees!SkipBilled,
     Fees!RefuseStudents, Fees!Fail, Fees!Abort

(***************************************************************************)
(* Invoices add up to the items copied onto them, one that asks for        *)
(* nothing is settled and no other is (assign, billableItems), and a       *)
(* student holds one of a structure, though assignments race for the       *)
(* unique index.                                                           *)
(***************************************************************************)
THEOREM InvoicesAreRight ==
  ASSUME Fees!FeeStructuresAssumption
  PROVE  Fees!Spec => [](Fees!InvoicesAddUp /\ Fees!BilledOnce)
<1>1. Fees!Init => Fees!InvoicesAddUp /\ Fees!BilledOnce
  BY FeeInitTyped DEF Fees!InvoicesAddUp, Fees!BilledOnce
<1>2. ASSUME Fees!InvoicesAddUp, Fees!BilledOnce, [Fees!Next]_(Fees!vars)
      PROVE  Fees!InvoicesAddUp' /\ Fees!BilledOnce'
  <2>1. CASE invoices' = invoices
    BY <1>2, <2>1 DEF Fees!InvoicesAddUp, Fees!BilledOnce, Fees!Sum
  <2>2. ASSUME NEW q \in Request, Fees!Issue(q)
        PROVE  Fees!InvoicesAddUp' /\ Fees!BilledOnce'
    <3>1. PICK j, sum : j = job[q] /\ sum = Fees!Sum(j.items)
      OBVIOUS
    <3>2. /\ invoices' = invoices \cup {Fees!Invoice(q, n) : n \in j.targets}
          /\ j.targets \cap Fees!Billed(j.s) = {}
      BY <2>2, <3>1 DEF Fees!Issue, Fees!Clash
    <3>3. \A n : Fees!Invoice(q, n) =
            [student |-> n, structure |-> j.s, items |-> j.items, total |-> sum,
             status |-> IF sum = 0 THEN "PAID" ELSE "UNPAID"]
      BY <3>1 DEF Fees!Invoice
    <3>4. Fees!BilledOnce'
      BY <1>2, <3>2, <3>3 DEF Fees!BilledOnce, Fees!Billed, Fees!InvoicesOf
    <3>5. ASSUME NEW v \in invoices'
          PROVE  v.total = Fees!Sum(v.items) /\ (v.status = "PAID" <=> Fees!Sum(v.items) = 0)
      <4>1. CASE v \in invoices
        BY <1>2, <4>1 DEF Fees!InvoicesAddUp
      <4>2. CASE v \notin invoices
        BY <3>1, <3>2, <3>3, <3>5, <4>2
      <4> QED
        BY <4>1, <4>2
    <3> QED
      BY <3>4, <3>5 DEF Fees!InvoicesAddUp, Fees!Sum
  <2> QED
    BY <1>2, <2>1, <2>2, OnlyIssueBills
<1> QED
  BY <1>1, <1>2, PTL DEF Fees!Spec

-----------------------------------------------------------------------------
(* Fees, one request at a time. *)

\* Nobody else is under way.
LEMMA FeeAloneMoves ==
  ASSUME Fees!Typed, Fees!AloneInv, NEW q \in Request, NEW j, job' = [job EXCEPT ![q] = j],
         \A p \in Request \ {q} : job[p].at \notin Fees!Under,
         Fees!Checked(j)'
  PROVE  Fees!AloneInv'
<1>1. job'[q] = j /\ \A p \in Request \ {q} : job'[p] = job[p]
  BY DEF Fees!Typed
<1>2. \A p \in Request \ {q} : job'[p].at \notin Fees!Under /\ job'[p].at # "duplicate"
  BY <1>1 DEF Fees!AloneInv, Fees!Checked
<1>3. ASSUME NEW p \in Request PROVE Fees!Checked(job[p])'
  <2>1. CASE p = q
    BY <1>1, <2>1 DEF Fees!Checked, Fees!InvoicesOf, Fees!Billed, Fees!Active
  <2>2. CASE p # q
    BY <1>2, <2>2 DEF Fees!Checked, Fees!Under
  <2> QED
    BY <2>1, <2>2
<1> QED
  BY <1>1, <1>2, <1>3 DEF Fees!AloneInv

\* Of a request under way nobody else is, and what it checked is still so.
LEMMA FeeAtWork ==
  ASSUME Fees!AloneInv, NEW q \in Request, job[q].at \in Fees!Under
  PROVE  Fees!Checked(job[q]) /\ \A p \in Request \ {q} : job[p].at \notin Fees!Under
BY DEF Fees!AloneInv

LEMMA FeeNextAlone ==
  ASSUME Fees!FeeStructuresAssumption, ~MayOverlap, Fees!Typed, Fees!AloneInv,
         [Fees!Next]_(Fees!vars)
  PROVE  Fees!AloneInv'
<1>1. ASSUME UNCHANGED <<structure, student, invoices, job>> PROVE Fees!AloneInv'
  BY <1>1 DEF Fees!AloneInv, Fees!Checked, Fees!InvoicesOf, Fees!Billed, Fees!Active
<1>2. ASSUME NEW n \in Student, Fees!ChangeStatus(n) PROVE Fees!AloneInv'
  <2>1. (\A p \in Request : job[p].at \notin Fees!Under) /\ UNCHANGED job
    BY <1>2 DEF Fees!ChangeStatus
  <2> QED
    BY <2>1 DEF Fees!AloneInv, Fees!Checked, Fees!Under
<1>3. ASSUME NEW q \in Request, Fees!Free(q), NEW j, FeeBegun(q, j) PROVE Fees!AloneInv'
  <2>1. /\ \A p \in Request \ {q} : job[p].at \notin Fees!Under
        /\ job' = [job EXCEPT ![q] = j]
    BY <1>3 DEF Fees!Free, FeeBegun
  <2>2. Fees!Checked(j)'
    BY <1>3 DEF FeeBegun, Fees!Checked, Fees!InvoicesOf, Fees!Billed, Fees!Active
  <2> QED
    BY <2>1, <2>2, FeeAloneMoves
<1>4. ASSUME NEW q \in Request, Fees!WriteCreate(q) \/ Fees!WriteUpdate(q)
               \/ Fees!WriteStatus(q) \/ Fees!WriteRemove(q)
      PROVE  Fees!AloneInv'
  <2>1. job[q].at \in Fees!Under
    BY <1>4 DEF Fees!WriteCreate, Fees!WriteUpdate, Fees!WriteStatus, Fees!WriteRemove,
       Fees!Under
  <2>2. job' = [job EXCEPT ![q] = [at |-> "done"]]
    BY <1>4 DEF Fees!WriteCreate, Fees!WriteUpdate, Fees!WriteStatus, Fees!WriteRemove,
       Fees!Write, Fees!End
  <2>3. Fees!Checked([at |-> "done"])'
    BY DEF Fees!Checked
  <2> QED
    BY <2>1, <2>2, <2>3, FeeAtWork, FeeAloneMoves
<1>5. ASSUME NEW q \in Request, Fees!Fail(q) \/ Fees!RefuseStudents(q) PROVE Fees!AloneInv'
  <2>1. job[q].at \in Fees!Under /\ job' = [job EXCEPT ![q] = [at |-> "refused"]]
    BY <1>5 DEF Fees!Fail, Fees!RefuseStudents, Fees!Under, Fees!End
  <2>2. Fees!Checked([at |-> "refused"])'
    BY DEF Fees!Checked
  <2> QED
    BY <2>1, <2>2, FeeAtWork, FeeAloneMoves
<1>6. ASSUME NEW q \in Request, Fees!Abort(q) PROVE Fees!AloneInv'
  <2>1. job[q].at \in Fees!Under
    BY <1>6 DEF Fees!Abort, Fees!Under
  <2>2. ~(job[q].at = "issue" /\ Fees!Clash(q))
    BY <2>1, FeeAtWork DEF Fees!Checked, Fees!Clash
  <2>3. job' = [job EXCEPT ![q] = [at |-> "refused"]]
    BY <1>6, <2>2 DEF Fees!Abort, Fees!End
  <2>4. Fees!Checked([at |-> "refused"])'
    BY DEF Fees!Checked
  <2> QED
    BY <2>1, <2>3, <2>4, FeeAtWork, FeeAloneMoves
<1>7. ASSUME NEW q \in Request,
             \/ \E students \in SUBSET Fees!Active : Fees!ResolveStudents(q, students)
             \/ Fees!SkipBilled(q)
      PROVE  Fees!AloneInv'
  <2>1. PICK j : FeeGoesOn(q, j)
    BY <1>7, FeeStudents, FeeTargets
  <2>2. /\ job' = [job EXCEPT ![q] = j] /\ UNCHANGED <<category, structure, student, invoices>>
        /\ Fees!Checked(j) /\ \A p \in Request \ {q} : job[p].at \notin Fees!Under
    BY <2>1, FeeAtWork DEF FeeGoesOn
  <2>3. Fees!Checked(j)'
    BY <2>2 DEF Fees!Checked, Fees!InvoicesOf, Fees!Billed, Fees!Active
  <2> QED
    BY <2>2, <2>3, FeeAloneMoves
<1>8. ASSUME NEW q \in Request, Fees!Issue(q) PROVE Fees!AloneInv'
  <2>1. PICK j : /\ j = [at |-> "issued", s |-> job[q].s, students |-> job[q].students]
                 /\ job' = [job EXCEPT ![q] = j] /\ job[q].at \in Fees!Under
    BY <1>8 DEF Fees!Issue, Fees!Under
  <2>2. Fees!Checked(j)'
    BY <2>1 DEF Fees!Checked
  <2> QED
    BY <2>1, <2>2, FeeAtWork, FeeAloneMoves
<1>9. ASSUME NEW c \in Category,
             Fees!CreateCategory(c) \/ Fees!UpdateCategory(c) \/ Fees!RemoveCategory(c)
      PROVE  Fees!AloneInv'
  BY <1>1, <1>9 DEF Fees!CreateCategory, Fees!UpdateCategory, Fees!RemoveCategory
<1>10. CASE UNCHANGED Fees!vars
  BY <1>1, <1>10 DEF Fees!vars
<1>11. ASSUME NEW q \in Request,
         \/ \E items \in ItemLists : Fees!Create(q, items)
         \/ \E items \in ItemLists, s \in Structure : Fees!Update(q, s, items)
         \/ \E s \in Structure : \/ Fees!Publish(q, s) \/ Fees!Archive(q, s) \/ Fees!Remove(q, s)
              \/ \E wanted \in SUBSET {i \in structure[s].items : i.optional} :
                   Fees!Assign(q, s, wanted)
       PROVE  Fees!AloneInv'
  BY <1>3, <1>11, FeeAskBegins
<1> QED
  BY <1>2, <1>4, <1>5, <1>6, <1>7, <1>8, <1>9, <1>10, <1>11 DEF Fees!Next

LEMMA FeeAlone ==
  ASSUME Fees!FeeStructuresAssumption, ~MayOverlap
  PROVE  Fees!Spec => [](Fees!Typed /\ Fees!AloneInv)
<1>1. Fees!Init => Fees!AloneInv
  BY FeeInitTyped DEF Fees!AloneInv, Fees!Checked, Fees!Idle, Fees!Under
<1>2. Fees!Typed /\ Fees!AloneInv /\ [Fees!Next]_(Fees!vars) => Fees!AloneInv'
  BY FeeNextAlone
<1> QED
  BY <1>1, <1>2, FeeTyped, PTL DEF Fees!Spec

(***************************************************************************)
(* "Only PUBLISHED structures can be assigned", "withdrawn students are    *)
(* never billed", and who holds an invoice already is skipped rather than  *)
(* failing the batch (assign, resolveStudents), one request at a time.     *)
(***************************************************************************)
THEOREM BillsAreDue ==
  ASSUME Fees!FeeStructuresAssumption, ~MayOverlap
  PROVE  Fees!Spec => /\ [][Fees!OnlyPublishedIsBilled /\ Fees!WithdrawnNeverBilled]_(Fees!vars)
                      /\ []Fees!SkippedNotFailed
<1>1. ASSUME Fees!Typed, Fees!AloneInv, [Fees!Next]_(Fees!vars)
      PROVE  Fees!OnlyPublishedIsBilled /\ Fees!WithdrawnNeverBilled
  <2>1. ASSUME NEW q \in Request, Fees!Issue(q)
        PROVE  Fees!OnlyPublishedIsBilled /\ Fees!WithdrawnNeverBilled
    <3>1. Fees!Checked(job[q]) /\ job[q].at = "issue"
      BY <1>1, <2>1, FeeAtWork DEF Fees!Issue, Fees!Under
    <3>2. invoices' = invoices \cup {Fees!Invoice(q, n) : n \in job[q].targets}
      BY <2>1 DEF Fees!Issue
    <3>3. \A n : Fees!Invoice(q, n).student = n /\ Fees!Invoice(q, n).structure = job[q].s
      BY DEF Fees!Invoice
    <3> QED
      BY <3>1, <3>2, <3>3
         DEF Fees!Checked, Fees!Active, Fees!OnlyPublishedIsBilled, Fees!WithdrawnNeverBilled
  <2> QED
    BY <1>1, <2>1, OnlyIssueBills DEF Fees!OnlyPublishedIsBilled, Fees!WithdrawnNeverBilled
<1>2. Fees!AloneInv => Fees!SkippedNotFailed
  BY DEF Fees!AloneInv, Fees!Checked, Fees!SkippedNotFailed
<1> QED
  BY <1>1, <1>2, FeeAlone, PTL DEF Fees!Spec

(***************************************************************************)
(* "Structure amounts are locked once invoices exist", and "an archived    *)
(* fee structure cannot be published again" (update, publish), one request *)
(* at a time.                                                              *)
(***************************************************************************)
THEOREM StructuresStand ==
  ASSUME Fees!FeeStructuresAssumption, ~MayOverlap
  PROVE  Fees!Spec => [][Fees!LockedOnceIssued /\ Fees!ArchivedForGood]_(Fees!vars)
<1>1. ASSUME Fees!Typed, Fees!AloneInv, [Fees!Next]_(Fees!vars)
      PROVE  Fees!LockedOnceIssued /\ Fees!ArchivedForGood
  <2>1. CASE structure' = structure
    BY <1>1, <2>1 DEF Fees!LockedOnceIssued, Fees!ArchivedForGood
  <2>2. ASSUME NEW q \in Request, NEW s \in Structure, NEW row, Fees!Write(q, s, row),
               Fees!InvoicesOf(s) # {} => row.items = structure[s].items,
               structure[s].status = "ARCHIVED" => row.status \in {"ARCHIVED", "none"}
        PROVE  Fees!LockedOnceIssued /\ Fees!ArchivedForGood
    BY <1>1, <2>2 DEF Fees!Typed, Fees!Write, Fees!LockedOnceIssued, Fees!ArchivedForGood
  <2>3. ASSUME NEW q \in Request, Fees!WriteCreate(q)
        PROVE  Fees!LockedOnceIssued /\ Fees!ArchivedForGood
    <3>1. PICK s, row : s \in Structure /\ Fees!Write(q, s, row) /\ structure[s] = Fees!NoRow
      BY <2>3 DEF Fees!WriteCreate
    <3>2. Fees!InvoicesOf(s) = {}
      BY <1>1, <3>1 DEF Fees!Typed, Fees!InvoicesOf
    <3> QED
      BY <2>2, <3>1, <3>2 DEF Fees!NoRow
  <2>4. ASSUME NEW q \in Request,
               Fees!WriteUpdate(q) \/ Fees!WriteStatus(q) \/ Fees!WriteRemove(q)
        PROVE  Fees!LockedOnceIssued /\ Fees!ArchivedForGood
    <3>1. PICK j : j = job[q] /\ Fees!JobOK(j) /\ Fees!Checked(j)
      BY <1>1 DEF Fees!Typed, Fees!AloneInv
    <3>2. /\ j.s \in Structure /\ structure[j.s] # Fees!NoRow
          /\ structure[j.s] \in [status : {"DRAFT", "PUBLISHED", "ARCHIVED"},
               items : SUBSET Fees!Item, total : {Fees!compulsoryTotal(structure[j.s].items)}]
      BY <1>1, <2>4, <3>1, FeeJobIs DEF Fees!WriteUpdate, Fees!WriteStatus, Fees!WriteRemove,
         Fees!Typed
    <3>3. CASE Fees!WriteUpdate(q)
      <4>1. PICK row : Fees!Write(q, j.s, row) /\ row = Fees!Retotalled(j.s, j.items)
        BY <3>1, <3>3 DEF Fees!WriteUpdate
      <4>2. Fees!InvoicesOf(j.s) = {} /\ row.status = structure[j.s].status
        BY <3>1, <3>2, <3>3, <4>1 DEF Fees!Checked, Fees!WriteUpdate, Fees!Retotalled
      <4> QED
        BY <2>2, <3>2, <4>1, <4>2
    <3>4. CASE Fees!WriteStatus(q)
      <4>1. PICK status, row :
              /\ Fees!Write(q, j.s, row) /\ row = [structure[j.s] EXCEPT !.status = status]
              /\ status = "ARCHIVED" \/ structure[j.s].status = "DRAFT"
        BY <3>1, <3>4 DEF Fees!WriteStatus, Fees!Checked
      <4>2. row.items = structure[j.s].items /\ row.status = status
        BY <3>2, <4>1
      <4> QED
        BY <2>2, <3>2, <4>1, <4>2
    <3>5. CASE Fees!WriteRemove(q)
      <4>1. Fees!Write(q, j.s, Fees!NoRow) /\ Fees!InvoicesOf(j.s) = {}
        BY <3>1, <3>5 DEF Fees!WriteRemove
      <4> QED
        BY <2>2, <3>2, <4>1 DEF Fees!NoRow
    <3> QED
      BY <2>4, <3>3, <3>4, <3>5
  <2> QED
    BY <1>1, <2>1, <2>3, <2>4 DEF Fees!Next, Fees!vars, Fees!CreateCategory,
       Fees!UpdateCategory, Fees!RemoveCategory, Fees!ChangeStatus, Fees!Create, Fees!Update,
       Fees!Publish, Fees!Archive, Fees!Remove, Fees!Ask, Fees!Assign, Fees!ResolveStudents,
       Fees!SkipBilled, Fees!RefuseStudents, Fees!Fail, Fees!Issue, Fees!Abort
<1> QED
  BY <1>1, FeeAlone, PTL DEF Fees!Spec

-----------------------------------------------------------------------------
(* Files. *)

CONSTANTS File, Owner, School, Payment, size, kind, maxBytes, childOf, Limits, MayFail
VARIABLES object, row, photo, evidence, limit, most, lock

Store == INSTANCE Files

\* The same sets are finite and of the same size there.
LEMMA StoreCount ==
  ASSUME NEW S PROVE Store!Cardinality(S) = Cardinality(S) /\ (Store!IsFiniteSet(S) <=> IsFiniteSet(S))
BY DEF Cardinality, Store!Cardinality, IsFiniteSet, Store!IsFiniteSet

\* The bytes of some files, one by one.
BytesOf(S) == UNION {{f} \X (1..size[f]) : f \in S}

LEMMA StoreBytes ==
  ASSUME Store!FilesAssumption, NEW S \in SUBSET File
  PROVE  /\ IsFiniteSet(BytesOf(S)) /\ Cardinality(BytesOf(S)) \in Nat
         /\ \A T \in SUBSET S : Cardinality(BytesOf(T)) <= Cardinality(BytesOf(S))
         /\ \A f \in File \ S : Cardinality(BytesOf(S \cup {f})) = Cardinality(BytesOf(S)) + size[f]
<1>1. IsFiniteSet(File) /\ \A f \in File : size[f] \in Nat
  BY StoreCount DEF Store!FilesAssumption
<1>2. ASSUME NEW f \in File
      PROVE  IsFiniteSet({f} \X (1..size[f])) /\ Cardinality({f} \X (1..size[f])) = size[f]
  <2>1. IsFiniteSet(1..size[f]) /\ Cardinality(1..size[f]) = size[f]
    <3>1. PICK n \in Nat : n = size[f]
      BY <1>1
    <3>2. IsFiniteSet(1..n) /\ Cardinality(1..n) = IF 1 > n THEN 0 ELSE n - 1 + 1
      BY FS_Interval
    <3> QED
      BY <3>1, <3>2
  <2>2. IsFiniteSet({f}) /\ Cardinality({f}) = 1
    BY FS_Singleton
  <2>3. /\ IsFiniteSet({f} \X (1..size[f]))
        /\ Cardinality({f} \X (1..size[f])) = Cardinality({f}) * Cardinality(1..size[f])
    BY <2>1, <2>2, FS_Product
  <2> QED
    BY <1>1, <2>1, <2>2, <2>3
<1>3. ASSUME NEW T \in SUBSET File PROVE IsFiniteSet(BytesOf(T))
  <2>1. IsFiniteSet(T)
    BY <1>1, FS_Subset
  <2>2. IsFiniteSet({{f} \X (1..size[f]) : f \in T})
    <3>1. PICK g : g = [f \in T |-> {f} \X (1..size[f])]
      OBVIOUS
    <3>2. g \in Surjection(T, {{f} \X (1..size[f]) : f \in T})
      BY <3>1 DEF Surjection
    <3> QED
      BY <2>1, <3>2, FS_Surjection
  <2>3. \A U \in {{f} \X (1..size[f]) : f \in T} : IsFiniteSet(U)
    BY <1>2
  <2> QED
    BY <2>2, <2>3, FS_UNION DEF BytesOf
<1>4. ASSUME NEW T \in SUBSET S PROVE Cardinality(BytesOf(T)) <= Cardinality(BytesOf(S))
  <2>1. BytesOf(T) \subseteq BytesOf(S)
    BY DEF BytesOf
  <2> QED
    BY <1>3, <2>1, FS_Subset
<1>5. ASSUME NEW f \in File \ S
      PROVE  Cardinality(BytesOf(S \cup {f})) = Cardinality(BytesOf(S)) + size[f]
  <2>1. BytesOf(S \cup {f}) = BytesOf(S) \cup ({f} \X (1..size[f]))
    BY DEF BytesOf
  <2>2. BytesOf(S) \cap ({f} \X (1..size[f])) = {}
    BY DEF BytesOf
  <2>3. Cardinality(BytesOf(S)) \in Nat /\ size[f] \in Nat
    BY <1>1, <1>3, FS_CardinalityType
  <2>4. Cardinality(BytesOf(S \cup {f})) = Cardinality(BytesOf(S)) + size[f] - Cardinality({})
    <3>1. PICK A, B : A = BytesOf(S) /\ B = {f} \X (1..size[f])
      OBVIOUS
    <3>2. IsFiniteSet(A) /\ IsFiniteSet(B) /\ Cardinality(B) = size[f]
      BY <1>2, <1>3, <3>1
    <3>3. Cardinality(A \cup B) = Cardinality(A) + Cardinality(B) - Cardinality(A \cap B)
      BY <3>2, FS_Union
    <3> QED
      BY <2>1, <2>2, <3>1, <3>2, <3>3
  <2> QED
    BY <2>3, <2>4, FS_EmptySet
<1> QED
  BY <1>3, <1>4, <1>5, FS_CardinalityType

LEMMA StoreUsed ==
  /\ Store!Used = Cardinality(BytesOf(Store!Rows))
  /\ Store!Used' = Cardinality(BytesOf(Store!Rows'))
<1>1. Store!Used = Store!Cardinality(BytesOf(Store!Rows))
  BY DEF Store!Used, BytesOf
<1>2. Store!Used' = Store!Cardinality(BytesOf(Store!Rows'))
  BY DEF Store!Used, BytesOf
<1> QED
  BY <1>1, <1>2, StoreCount

LEMMA StoreFacts ==
  ASSUME Store!Typed
  PROVE  /\ object \subseteq File /\ photo \in [Owner -> File \cup {None}]
         /\ row \in [File -> [purpose : Store!Bare, linked : Owner \cup Payment \cup {None},
                              child : Owner \cup {None}]]
         /\ Store!Rows \subseteq object /\ Store!Rows \subseteq File
         /\ job \in [Request -> Store!Jobs]
         /\ \A q \in Request : Store!JobOK(job[q]) /\ job[q] \in Store!Jobs
         /\ \A q \in Request : lock = q <=> job[q].at \in {"locked", "insert"}
         /\ limit \in Nat /\ most \in Nat /\ limit <= most
BY DEF Store!Typed, Store!TypeOK, Store!RowsHaveBytes, Store!Rows

\* What a step may do to the bytes and rows others have in hand.
LEMMA StoreMoves ==
  ASSUME Store!FilesAssumption, Store!Typed, NEW q \in Request, NEW j \in Store!Jobs,
         job' = [job EXCEPT ![q] = j], Store!JobOK(j)',
         object' \subseteq File, photo' \in [Owner -> File \cup {None}],
         row' \in [File -> [purpose : Store!Bare, linked : Owner \cup Payment \cup {None},
                            child : Owner \cup {None}]],
         Store!Rows' \subseteq object', limit' \in Nat, most' \in Nat, limit' <= most',
         \/ Store!Rows' \subseteq Store!Rows
         \/ /\ job[q].at \in Store!Uploading
            /\ Store!Rows' \subseteq Store!Rows \cup {job[q].file},
         object \ Store!InHand(job[q]) \subseteq object',
         NEW F, \A p \in Request \ {q} : F \cap Store!InHand(job[p]) = {},
         Store!InHand(j) \subseteq Store!InHand(job[q]) \cup Store!Rows \cup F \cup {None},
         j.at \in Store!Uploading =>
           j.file \in F \/ (job[q].at \in Store!Uploading /\ j.file = job[q].file),
         lock' = q <=> j.at \in {"locked", "insert"},
         \A p \in Request \ {q} : lock' = p <=> lock = p
  PROVE  Store!Typed'
<1>1. job' \in [Request -> Store!Jobs] /\ job'[q] = j
      /\ \A p \in Request \ {q} : job'[p] = job[p]
  BY StoreFacts
<1>2. None \notin File
  BY DEF Store!FilesAssumption
<1>3. ASSUME NEW p \in Request \ {q}, NEW k, k = job[p]
      PROVE  /\ Store!JobOK(k)' 
             /\ k.at \in Store!Uploading => k.file \notin Store!InHand(j)
             /\ j.at \in Store!Uploading => j.file \notin Store!InHand(k)
  <2>1. Store!JobOK(k) /\ k \in Store!Jobs
    BY <1>3, StoreFacts
  <2>2. k.at \in Store!Uploading => k.file \notin Store!InHand(job[q]) /\ k.file \in File \ Store!Rows
    BY <1>3, <2>1 DEF Store!Typed, Store!JobOK
  <2>3. k.at \in Store!Uploading => k.file \notin F
    BY <1>3 DEF Store!InHand
  <2>4. k.at \in Store!Uploading => k.file \notin Store!Rows'
    BY <2>2 DEF Store!InHand
  <2>5. k.at = "bytes" => k.bytes \in File \ Store!Rows'
    <3>1. job[q].at \in Store!Uploading => job[q].file # k.bytes
      BY <1>3 DEF Store!Typed, Store!InHand
    <3> QED
      BY <2>1, <3>1 DEF Store!JobOK
  <2>6. k.at \in Store!Uploading /\ k.file \in object => k.file \in object'
    BY <2>2
  <2>7. Store!JobOK(k)'
    BY <2>1, <2>2, <2>4, <2>5, <2>6 DEF Store!JobOK
  <2>8. k.at \in Store!Uploading => k.file \notin Store!InHand(j)
    BY <1>2, <2>2, <2>3
  <2>9. j.at \in Store!Uploading => j.file \notin Store!InHand(k)
    BY <1>3 DEF Store!Typed
  <2> QED
    BY <2>7, <2>8, <2>9
<1>4. ASSUME NEW p \in Request PROVE Store!JobOK(job[p])'
  BY <1>1, <1>3 DEF Store!JobOK
<1>5. \A p, r \in Request : p # r /\ job'[p].at \in Store!Uploading => job'[p].file \notin Store!InHand(job'[r])
  <2>1. SUFFICES ASSUME NEW p \in Request, NEW r \in Request, p # r,
                        job'[p].at \in Store!Uploading
                 PROVE  job'[p].file \notin Store!InHand(job'[r])
    OBVIOUS
  <2>2. CASE p # q /\ r # q
    BY <1>1, <2>1, <2>2 DEF Store!Typed
  <2>3. CASE p = q
    BY <1>1, <1>3, <2>1, <2>3
  <2>4. CASE r = q
    BY <1>1, <1>3, <2>1, <2>4
  <2> QED
    BY <2>2, <2>3, <2>4
<1>6. \A p \in Request : lock' = p <=> job'[p].at \in {"locked", "insert"}
  BY <1>1, StoreFacts
<1>7. Store!TypeOK'
  BY <1>6 DEF Store!TypeOK, Store!Rows
<1> QED
  BY <1>1, <1>4, <1>5, <1>7 DEF Store!Typed, Store!RowsHaveBytes

\* A step that writes no row, no bytes and no photo.
LEMMA StoreGoes ==
  ASSUME Store!FilesAssumption, Store!Typed, NEW q \in Request, NEW j \in Store!Jobs,
         job' = [job EXCEPT ![q] = j], UNCHANGED <<object, row, photo, limit, most>>,
         Store!JobOK(j),
         Store!InHand(j) \subseteq Store!InHand(job[q]) \cup Store!Rows \cup {None},
         j.at \in Store!Uploading => job[q].at \in Store!Uploading /\ j.file = job[q].file,
         lock' = q <=> j.at \in {"locked", "insert"},
         \A p \in Request \ {q} : lock' = p <=> lock = p
  PROVE  Store!Typed'
<1>1. Store!JobOK(j)' /\ Store!Rows' = Store!Rows
  BY DEF Store!JobOK, Store!Rows
<1>2. /\ object' \subseteq File /\ photo' \in [Owner -> File \cup {None}]
      /\ row' \in [File -> [purpose : Store!Bare, linked : Owner \cup Payment \cup {None},
                            child : Owner \cup {None}]]
      /\ Store!Rows' \subseteq object' /\ limit' \in Nat /\ most' \in Nat /\ limit' <= most'
  BY <1>1, StoreFacts
<1>3. PICK F : F = {}
  OBVIOUS
<1>4. Store!InHand(j) \subseteq Store!InHand(job[q]) \cup Store!Rows \cup F \cup {None}
  BY <1>3
<1>5. object \ Store!InHand(job[q]) \subseteq object' /\ Store!Rows' \subseteq Store!Rows
  BY <1>1
<1>6. \A p \in Request \ {q} : F \cap Store!InHand(job[p]) = {}
  BY <1>3
<1> QED
  BY <1>1, <1>2, <1>4, <1>5, <1>6, StoreMoves

\* A step of none of the requests.
LEMMA StoreStays ==
  ASSUME Store!Typed, UNCHANGED <<object, photo, lock, job>>, Store!Rows' = Store!Rows,
         row' \in [File -> [purpose : Store!Bare, linked : Owner \cup Payment \cup {None},
                            child : Owner \cup {None}]],
         limit' \in Nat, most' \in Nat, limit' <= most'
  PROVE  Store!Typed'
<1>1. \A f \in Store!Rows' : row'[f].linked \in Owner \cup Payment \cup {None}
  BY DEF Store!Rows
<1>2. Store!TypeOK' /\ Store!RowsHaveBytes'
  BY <1>1 DEF Store!Typed, Store!TypeOK, Store!RowsHaveBytes
<1>3. ASSUME NEW p \in Request PROVE Store!JobOK(job[p])'
  BY StoreFacts DEF Store!JobOK
<1> QED
  BY <1>2, <1>3 DEF Store!Typed

\* Free requests have nothing in hand, and what is fresh nobody has.
LEMMA StoreIdle ==
  ASSUME Store!FilesAssumption, Store!Typed
  PROVE  /\ Store!Idle \in Store!Jobs /\ Store!InHand(Store!Idle) = {None}
         /\ Store!JobOK(Store!Idle) /\ Store!JobOK(Store!Idle)'
         /\ \A q \in Request : None \notin {q}
         /\ \A f : Store!Fresh(f) => \A q \in Request : f \notin Store!InHand(job[q])
BY DEF Store!FilesAssumption, Store!Idle, Store!Jobs, Store!InHand, Store!JobOK, Store!Bare,
   Store!Uploading, Store!Fresh

LEMMA StoreAskTyped ==
  ASSUME Store!FilesAssumption, Store!Typed, NEW q \in Request,
         \/ \E f \in File, purpose \in Store!Purpose, o \in Owner \cup {None},
               then \in {"point", "nothing"} : Store!Upload(q, f, purpose, o, then)
         \/ \E o \in Owner, then \in {"clear", "leave"} : Store!RemoveLinked(q, o, then)
         \/ \E f \in File : Store!Remove(q, f)
  PROVE  Store!Typed'
<1>1. job[q] = Store!Idle /\ job[q].at = "none" /\ lock # q
  <2>1. job[q] = Store!Idle
    BY DEF Store!Upload, Store!RemoveLinked, Store!Remove, Store!Free
  <2> QED
    BY <2>1, StoreFacts DEF Store!Idle
<1>2. ASSUME NEW f \in File, NEW purpose \in Store!Purpose, NEW o \in Owner \cup {None},
             NEW then \in {"point", "nothing"}, Store!Upload(q, f, purpose, o, then)
      PROVE  Store!Typed'
  <2>1. PICK j : /\ j = [Store!Idle EXCEPT !.at = "put", !.file = f, !.owner = o,
                                           !.then = then, !.purpose = purpose]
                 /\ job' = [job EXCEPT ![q] = j] /\ object' = object \cup {f}
                 /\ UNCHANGED <<row, photo, limit, most, lock>>
                 /\ Store!Fresh(f) /\ (then = "point" => purpose = "photo" /\ o # None)
    BY <1>2 DEF Store!Upload
  <2>2. /\ j.at = "put" /\ j.file = f /\ j.owner = o /\ j.then = then /\ j.purpose = purpose
        /\ j.files = {} /\ j.bytes = None /\ j \in Store!Jobs
    BY <2>1 DEF Store!Idle, Store!Jobs, Store!Uploading, Store!Bare
  <2>3. f \notin Store!Rows /\ Store!Rows' = Store!Rows
    BY <2>1 DEF Store!Fresh, Store!Rows
  <2>4. Store!JobOK(j)'
    BY <2>1, <2>2, <2>3 DEF Store!JobOK, Store!Uploading, Store!Purpose
  <2>5. PICK F : F = {f}
    OBVIOUS
  <2>6. /\ \A p \in Request \ {q} : F \cap Store!InHand(job[p]) = {}
        /\ Store!InHand(j) \subseteq Store!InHand(job[q]) \cup Store!Rows \cup F \cup {None}
        /\ j.file \in F
    BY <2>1, <2>2, <2>5, StoreIdle DEF Store!InHand
  <2>7. /\ object' \subseteq File /\ photo' \in [Owner -> File \cup {None}]
        /\ row' \in [File -> [purpose : Store!Bare, linked : Owner \cup Payment \cup {None},
                              child : Owner \cup {None}]]
        /\ Store!Rows' \subseteq object' /\ limit' \in Nat /\ most' \in Nat /\ limit' <= most'
        /\ Store!Rows' \subseteq Store!Rows /\ object \ Store!InHand(job[q]) \subseteq object'
    BY <2>1, <2>3, StoreFacts
  <2>8. /\ lock' = q <=> j.at \in {"locked", "insert"}
        /\ \A p \in Request \ {q} : lock' = p <=> lock = p
    BY <1>1, <2>1, <2>2
  <2>9. j.at \in Store!Uploading =>
          j.file \in F \/ (job[q].at \in Store!Uploading /\ j.file = job[q].file)
    BY <2>6
  <2>10. \/ Store!Rows' \subseteq Store!Rows
         \/ /\ job[q].at \in Store!Uploading
            /\ Store!Rows' \subseteq Store!Rows \cup {job[q].file}
    BY <2>7
  <2>11. job' = [job EXCEPT ![q] = j] /\ j \in Store!Jobs
    BY <2>1, <2>2
  <2> QED
    BY <2>4, <2>6, <2>7, <2>8, <2>9, <2>10, <2>11, StoreMoves
<1>3. ASSUME NEW S \in SUBSET Store!Rows, NEW o \in Owner \cup {None}, NEW then \in {"nothing", "clear", "leave"},
             job' = [job EXCEPT ![q] = [Store!Idle EXCEPT !.at = "forget", !.files = S,
                                                          !.owner = o, !.then = then]],
             UNCHANGED <<object, row, photo, limit, most, lock>>
      PROVE  Store!Typed'
  <2>1. PICK j : /\ j = [Store!Idle EXCEPT !.at = "forget", !.files = S, !.owner = o, !.then = then]
                 /\ job' = [job EXCEPT ![q] = j]
    BY <1>3
  <2>2. /\ j.at = "forget" /\ j.then = then /\ j.files = S /\ j.bytes = None /\ j.file = None
        /\ j \in Store!Jobs
    BY <2>1, StoreFacts DEF Store!Idle, Store!Jobs, Store!Bare
  <2>3. Store!JobOK(j) /\ Store!InHand(j) \subseteq Store!InHand(job[q]) \cup Store!Rows \cup {None}
    BY <2>2 DEF Store!JobOK, Store!Uploading, Store!InHand
  <2>4. /\ j.at \notin Store!Uploading
        /\ lock' = q <=> j.at \in {"locked", "insert"}
        /\ \A p \in Request \ {q} : lock' = p <=> lock = p
    BY <1>1, <1>3, <2>2 DEF Store!Uploading
  <2> QED
    BY <1>3, <2>1, <2>2, <2>3, <2>4, StoreGoes
<1>4. ASSUME NEW o \in Owner, NEW then \in {"clear", "leave"}, Store!RemoveLinked(q, o, then)
      PROVE  Store!Typed'
  <2>1. Store!Photos(o) \subseteq Store!Rows
    BY DEF Store!Photos
  <2> QED
    BY <1>3, <1>4, <2>1 DEF Store!RemoveLinked
<1>5. ASSUME NEW f \in File, Store!Remove(q, f) PROVE Store!Typed'
  <2>1. PICK j : j = [Store!Idle EXCEPT !.at = "forget", !.files = {f}]
    OBVIOUS
  <2>2. PICK k : k = [Store!Idle EXCEPT !.at = "forget", !.files = {f}, !.owner = None,
                                        !.then = "nothing"]
    OBVIOUS
  <2>3. j = k
    <3>1. j = [at |-> "forget", files |-> {f}, bytes |-> None, file |-> None, owner |-> None,
               then |-> "nothing", purpose |-> "none"]
      BY <2>1 DEF Store!Idle
    <3>2. k = [at |-> "forget", files |-> {f}, bytes |-> None, file |-> None, owner |-> None,
               then |-> "nothing", purpose |-> "none"]
      BY <2>2 DEF Store!Idle
    <3> QED
      BY <3>1, <3>2
  <2>4. /\ job' = [job EXCEPT ![q] = j] /\ f \in Store!Rows
        /\ UNCHANGED <<object, row, photo, limit, most, lock>>
    BY <1>5, <2>1 DEF Store!Remove
  <2> QED
    BY <1>3, <2>2, <2>3, <2>4
<1> QED
  BY <1>2, <1>4, <1>5

LEMMA StoreUploadTyped ==
  ASSUME Store!FilesAssumption, Store!Typed, NEW q \in Request,
         \/ Store!lockSchoolScope(q) \/ Store!assertWithinQuota(q) \/ Store!Insert(q)
         \/ Store!Discard(q) \/ Store!InsertFails(q)
  PROVE  Store!Typed'
<1>1. PICK k : /\ k = job[q] /\ k \in Store!Jobs /\ Store!JobOK(k)
               /\ lock = q <=> k.at \in {"locked", "insert"}
  BY StoreFacts
<1>2. None \notin Request
  BY DEF Store!FilesAssumption
<1>3. /\ k.at \in {"put", "locked", "insert", "discard"}
      /\ k.file \in File \ Store!Rows /\ k.purpose \in Store!Purpose
      /\ k.at # "discard" => k.file \in object
      /\ k.then = "point" => k.owner \in Owner /\ k.purpose = "photo"
  BY <1>1 DEF Store!lockSchoolScope, Store!assertWithinQuota, Store!Insert, Store!Discard,
     Store!InsertFails, Store!JobOK, Store!Uploading
<1>4. ASSUME NEW a \in {"locked", "insert", "discard"}, job' = [job EXCEPT ![q].at = a],
             UNCHANGED <<object, row, photo, limit, most>>, k.at # "discard",
             a \in {"locked", "insert"} => lock' = q /\ (lock = q \/ lock = None),
             a = "discard" => lock' = None /\ lock = q
      PROVE  Store!Typed'
  <2>1. PICK j : j = [k EXCEPT !.at = a] /\ job' = [job EXCEPT ![q] = j]
    BY <1>1, <1>4
  <2>2. /\ j.at = a /\ j.file = k.file /\ j.files = k.files /\ j.bytes = k.bytes
        /\ j.then = k.then /\ j.owner = k.owner /\ j.purpose = k.purpose /\ j \in Store!Jobs
    BY <1>1, <2>1 DEF Store!Jobs, Store!Uploading
  <2>3. Store!JobOK(j)
    BY <1>3, <1>4, <2>2 DEF Store!JobOK, Store!Uploading
  <2>4. /\ Store!InHand(j) \subseteq Store!InHand(job[q]) \cup Store!Rows \cup {None}
        /\ j.at \in Store!Uploading => job[q].at \in Store!Uploading /\ j.file = job[q].file
    BY <1>1, <1>3, <2>2 DEF Store!InHand, Store!Uploading
  <2>5. lock' = q <=> j.at \in {"locked", "insert"}
    BY <1>2, <1>4, <2>2
  <2>6. \A p \in Request \ {q} : lock' = p <=> lock = p
    BY <1>2, <1>4
  <2> QED
    BY <1>4, <2>1, <2>2, <2>3, <2>4, <2>5, <2>6, StoreGoes
<1>5. CASE Store!lockSchoolScope(q)
  BY <1>1, <1>4, <1>5 DEF Store!lockSchoolScope, Store!Goes
<1>6. CASE Store!assertWithinQuota(q)
  <2>1. \/ job' = [job EXCEPT ![q].at = "insert"] /\ lock' = lock
        \/ job' = [job EXCEPT ![q].at = "discard"] /\ lock' = None
    BY <1>6 DEF Store!assertWithinQuota, Store!Goes, Store!Unlock
  <2>2. lock = q /\ k.at # "discard" /\ UNCHANGED <<object, row, photo, limit, most>>
    BY <1>1, <1>6 DEF Store!assertWithinQuota
  <2> QED
    BY <1>4, <2>1, <2>2
<1>7. CASE Store!InsertFails(q)
  BY <1>1, <1>4, <1>7 DEF Store!InsertFails, Store!Goes, Store!Unlock
<1>8. CASE Store!Insert(q)
  <2>1. PICK j : /\ j = Store!Idle \/ (k.then = "point" /\ j = [k EXCEPT !.at = "replace"])
                 /\ job' = [job EXCEPT ![q] = j] /\ lock' = None /\ k.at = "insert"
                 /\ UNCHANGED <<object, photo, limit, most>>
    BY <1>1, <1>8 DEF Store!Insert, Store!Goes, Store!Done, Store!Unlock
  <2>2. PICK rec, f : /\ rec = [purpose |-> k.purpose, linked |-> k.owner, child |-> k.owner]
                      /\ f = k.file
    OBVIOUS
  <2>3. row' = [row EXCEPT ![f] = rec]
    BY <1>1, <1>8, <2>2 DEF Store!Insert
  <2>4. rec \in [purpose : Store!Bare, linked : Owner \cup Payment \cup {None},
                 child : Owner \cup {None}]
    BY <1>1, <1>3, <2>2 DEF Store!Jobs, Store!Bare
  <2>5. row' \in [File -> [purpose : Store!Bare, linked : Owner \cup Payment \cup {None},
                           child : Owner \cup {None}]]
        /\ \A g \in File \ {f} : row'[g] = row[g]
    BY <1>3, <2>3, <2>4, StoreFacts
  <2>6. Store!Rows' \subseteq Store!Rows \cup {f}
    BY <2>5 DEF Store!Rows
  <2>7. /\ j \in Store!Jobs /\ j.at \in {"none", "replace"}
        /\ Store!InHand(j) \subseteq Store!InHand(k) \cup {None}
        /\ j.at = "replace" => j.then = "point" /\ j.file = k.file /\ j.owner = k.owner
        /\ j.at = "none" => j = Store!Idle
    BY <1>1, <2>1, StoreIdle DEF Store!Jobs, Store!Idle, Store!InHand
  <2>8. Store!JobOK(j)'
    BY <1>3, <2>1, <2>7, StoreIdle DEF Store!JobOK, Store!Uploading
  <2>9. PICK F : F = {}
    OBVIOUS
  <2>10. /\ \A p \in Request \ {q} : F \cap Store!InHand(job[p]) = {}
         /\ Store!InHand(j) \subseteq Store!InHand(job[q]) \cup Store!Rows \cup F \cup {None}
         /\ j.at \notin Store!Uploading
    BY <1>1, <2>7, <2>9 DEF Store!Uploading
  <2>11. /\ object' \subseteq File /\ photo' \in [Owner -> File \cup {None}]
         /\ Store!Rows' \subseteq object' /\ limit' \in Nat /\ most' \in Nat /\ limit' <= most'
         /\ object \ Store!InHand(job[q]) \subseteq object'
    BY <1>3, <2>1, <2>2, <2>6, StoreFacts
  <2>12. \/ Store!Rows' \subseteq Store!Rows
         \/ /\ job[q].at \in Store!Uploading
            /\ Store!Rows' \subseteq Store!Rows \cup {job[q].file}
    BY <1>1, <2>1, <2>2, <2>6 DEF Store!Uploading
  <2>13. /\ lock' = q <=> j.at \in {"locked", "insert"}
         /\ \A p \in Request \ {q} : lock' = p <=> lock = p
    BY <1>1, <1>2, <2>1, <2>7
  <2>14. j.at \in Store!Uploading =>
          j.file \in F \/ (job[q].at \in Store!Uploading /\ j.file = job[q].file)
    BY <2>10
  <2>15. job' = [job EXCEPT ![q] = j] /\ j \in Store!Jobs
    BY <2>1, <2>7
  <2>16. row' \in [File -> [purpose : Store!Bare, linked : Owner \cup Payment \cup {None},
                            child : Owner \cup {None}]]
    BY <2>5
  <2> QED
    BY <2>8, <2>10, <2>11, <2>12, <2>13, <2>14, <2>15, <2>16, StoreMoves
<1>9. CASE Store!Discard(q)
  <2>1. PICK j : /\ j = Store!Idle /\ job' = [job EXCEPT ![q] = j] /\ k.at = "discard"
                 /\ object' = object \ {k.file} /\ UNCHANGED <<row, photo, limit, most, lock>>
    BY <1>1, <1>9 DEF Store!Discard, Store!Done
  <2>2. Store!Rows' = Store!Rows
    BY <2>1 DEF Store!Rows
  <2>3. PICK F : F = {}
    OBVIOUS
  <2>4. /\ \A p \in Request \ {q} : F \cap Store!InHand(job[p]) = {}
        /\ Store!InHand(j) \subseteq Store!InHand(job[q]) \cup Store!Rows \cup F \cup {None}
        /\ j.at \notin Store!Uploading /\ j \in Store!Jobs /\ Store!JobOK(j)'
    BY <2>1, <2>3, StoreIdle DEF Store!Uploading, Store!Idle
  <2>5. /\ object' \subseteq File /\ photo' \in [Owner -> File \cup {None}]
        /\ row' \in [File -> [purpose : Store!Bare, linked : Owner \cup Payment \cup {None},
                              child : Owner \cup {None}]]
        /\ Store!Rows' \subseteq object' /\ limit' \in Nat /\ most' \in Nat /\ limit' <= most'
        /\ Store!Rows' \subseteq Store!Rows
    BY <1>3, <2>1, <2>2, StoreFacts
  <2>6. object \ Store!InHand(job[q]) \subseteq object'
    BY <1>1, <2>1 DEF Store!InHand
  <2>7. /\ lock' = q <=> j.at \in {"locked", "insert"}
        /\ \A p \in Request \ {q} : lock' = p <=> lock = p
    BY <1>1, <2>1 DEF Store!Idle
  <2>8. j.at \in Store!Uploading =>
          j.file \in F \/ (job[q].at \in Store!Uploading /\ j.file = job[q].file)
    BY <2>4
  <2>9. \/ Store!Rows' \subseteq Store!Rows
        \/ /\ job[q].at \in Store!Uploading
           /\ Store!Rows' \subseteq Store!Rows \cup {job[q].file}
    BY <2>5
  <2>10. job' = [job EXCEPT ![q] = j]
    BY <2>1
  <2> QED
    BY <2>4, <2>5, <2>6, <2>7, <2>8, <2>9, <2>10, StoreMoves
<1> QED
  BY <1>5, <1>6, <1>7, <1>8, <1>9

LEMMA StoreDeleteTyped ==
  ASSUME Store!FilesAssumption, Store!Typed, NEW q \in Request,
         \/ Store!Replace(q) \/ (\E f \in File : Store!Forget(q, f)) \/ Store!ForgetObject(q)
         \/ Store!Finish(q) \/ Store!DiscardFails(q) \/ Store!Stop(q)
  PROVE  Store!Typed'
<1>1. PICK k : /\ k = job[q] /\ k \in Store!Jobs /\ Store!JobOK(k)
               /\ lock = q <=> k.at \in {"locked", "insert"}
  BY StoreFacts
<1>2. None \notin Request \cup File
  BY DEF Store!FilesAssumption
<1>3. /\ object \subseteq File /\ photo \in [Owner -> File \cup {None}]
      /\ row \in [File -> [purpose : Store!Bare, linked : Owner \cup Payment \cup {None},
                           child : Owner \cup {None}]]
      /\ Store!Rows \subseteq object /\ limit \in Nat /\ most \in Nat /\ limit <= most
  BY StoreFacts
\* The request ends, or goes on to delete with the lock left alone.
<1>4. ASSUME NEW j, j = Store!Idle \/ (/\ j \in Store!Jobs /\ j.at \in {"forget", "bytes"}
                                       /\ j.then = k.then /\ j.file = k.file /\ j.owner = k.owner
                                       /\ j.at = "bytes" => j.bytes \in File \ Store!Rows')
      PROVE  /\ j \in Store!Jobs /\ Store!JobOK(j)' /\ j.at \notin Store!Uploading
             /\ ~(j.at \in {"locked", "insert"})
  BY <1>1, <1>4, StoreIdle DEF Store!JobOK, Store!Uploading, Store!Idle
<1>5. CASE Store!Replace(q)
  <2>1. PICK j, S : /\ j = [k EXCEPT !.at = "forget", !.files = S] /\ job' = [job EXCEPT ![q] = j]
                    /\ S = Store!Previous(k.owner, k.file) /\ k.at = "replace"
                    /\ UNCHANGED <<object, row, photo, limit, most, lock>>
    <3>1. PICK S : S = Store!Previous(k.owner, k.file)
      OBVIOUS
    <3>2. PICK j : j = [k EXCEPT !.at = "forget", !.files = S]
      OBVIOUS
    <3>3. /\ job' = [job EXCEPT ![q] = j] /\ k.at = "replace"
          /\ UNCHANGED <<object, row, photo, limit, most, lock>>
      BY <1>1, <1>5, <3>1, <3>2 DEF Store!Replace
    <3> QED
      BY <3>1, <3>2, <3>3
  <2>2. S \subseteq Store!Rows /\ S \subseteq File
    BY <2>1 DEF Store!Previous, Store!Photos, Store!Rows
  <2>3. /\ j \in Store!Jobs /\ j.at = "forget" /\ j.files = S /\ j.then = k.then
        /\ j.file = k.file /\ j.bytes = k.bytes /\ j.owner = k.owner
    BY <1>1, <2>1, <2>2 DEF Store!Jobs
  <2>4. Store!JobOK(j) /\ j.at \notin Store!Uploading
    BY <1>1, <2>3 DEF Store!JobOK, Store!Uploading
  <2>5. Store!InHand(j) \subseteq Store!InHand(job[q]) \cup Store!Rows \cup {None}
    BY <1>1, <2>2, <2>3 DEF Store!InHand
  <2>6. /\ lock' = q <=> j.at \in {"locked", "insert"}
        /\ \A p \in Request \ {q} : lock' = p <=> lock = p
    BY <1>1, <2>1, <2>3
  <2> QED
    BY <2>1, <2>3, <2>4, <2>5, <2>6, StoreGoes
<1>6. ASSUME NEW f \in File, Store!Forget(q, f) PROVE Store!Typed'
  <2>1. PICK j : /\ \/ j = Store!Idle
                    \/ j = [k EXCEPT !.at = "bytes", !.files = k.files \ {f}, !.bytes = f]
                 /\ job' = [job EXCEPT ![q] = j] /\ k.at = "forget" /\ f \in k.files
                 /\ row' = [row EXCEPT ![f] = Store!NoRow]
                 /\ UNCHANGED <<object, photo, limit, most, lock>>
    <3>1. CASE f \in Store!Rows
      <4>1. PICK j : j = [k EXCEPT !.at = "bytes", !.files = k.files \ {f}, !.bytes = f]
        OBVIOUS
      <4>2. job' = [job EXCEPT ![q] = j]
        BY <1>1, <1>6, <3>1, <4>1 DEF Store!Forget
      <4> QED
        BY <1>1, <1>6, <4>1, <4>2 DEF Store!Forget
    <3>2. CASE f \notin Store!Rows
      BY <1>1, <1>6, <3>2 DEF Store!Forget, Store!Done
    <3> QED
      BY <3>1, <3>2
  <2>2. Store!NoRow \in [purpose : Store!Bare, linked : Owner \cup Payment \cup {None},
                         child : Owner \cup {None}]
    BY DEF Store!NoRow, Store!Bare
  <2>3. row' \in [File -> [purpose : Store!Bare, linked : Owner \cup Payment \cup {None},
                           child : Owner \cup {None}]]
    BY <1>3, <2>1, <2>2
  <2>4. Store!Rows' = Store!Rows \ {f}
    BY <1>3, <2>1 DEF Store!Rows
  <2>5. /\ j = Store!Idle \/ (/\ j \in Store!Jobs /\ j.at \in {"forget", "bytes"}
                              /\ j.then = k.then /\ j.file = k.file /\ j.owner = k.owner
                              /\ j.at = "bytes" => j.bytes \in File \ Store!Rows')
        /\ Store!InHand(j) \subseteq Store!InHand(k) \cup {None}
    <3>1. CASE j = Store!Idle
      BY <3>1, StoreIdle
    <3>2. CASE j = [k EXCEPT !.at = "bytes", !.files = k.files \ {f}, !.bytes = f]
      <4>1. /\ j \in Store!Jobs /\ j.at = "bytes" /\ j.then = k.then /\ j.file = k.file
            /\ j.owner = k.owner /\ j.bytes = f /\ j.files = k.files \ {f}
        BY <1>1, <3>2 DEF Store!Jobs
      <4>2. Store!InHand(j) \subseteq Store!InHand(k)
        BY <2>1, <4>1 DEF Store!InHand
      <4> QED
        BY <2>4, <4>1, <4>2
    <3> QED
      BY <2>1, <3>1, <3>2
  <2>6. PICK F : F = {}
    OBVIOUS
  <2>7. /\ \A p \in Request \ {q} : F \cap Store!InHand(job[p]) = {}
        /\ Store!InHand(j) \subseteq Store!InHand(job[q]) \cup Store!Rows \cup F \cup {None}
    BY <1>1, <2>5, <2>6
  <2>8. /\ j \in Store!Jobs /\ Store!JobOK(j)' /\ j.at \notin Store!Uploading
        /\ ~(j.at \in {"locked", "insert"})
    BY <1>4, <2>5
  <2>9. /\ object' \subseteq File /\ photo' \in [Owner -> File \cup {None}]
        /\ Store!Rows' \subseteq object' /\ limit' \in Nat /\ most' \in Nat /\ limit' <= most'
        /\ object \ Store!InHand(job[q]) \subseteq object'
    BY <1>3, <2>1, <2>4
  <2>10. /\ lock' = q <=> j.at \in {"locked", "insert"}
         /\ \A p \in Request \ {q} : lock' = p <=> lock = p
    BY <1>1, <2>1, <2>8
  <2>11. j.at \in Store!Uploading =>
           j.file \in F \/ (job[q].at \in Store!Uploading /\ j.file = job[q].file)
    BY <2>8
  <2>12. \/ Store!Rows' \subseteq Store!Rows
         \/ /\ job[q].at \in Store!Uploading
            /\ Store!Rows' \subseteq Store!Rows \cup {job[q].file}
    BY <2>4
  <2>13. job' = [job EXCEPT ![q] = j]
    BY <2>1
  <2> QED
    BY <2>3, <2>7, <2>8, <2>9, <2>10, <2>11, <2>12, <2>13, StoreMoves
<1>7. CASE Store!ForgetObject(q)
  <2>1. PICK j : /\ j = [k EXCEPT !.at = "forget", !.bytes = None] /\ job' = [job EXCEPT ![q] = j]
                 /\ object' = object \ {k.bytes} /\ k.at = "bytes"
                 /\ UNCHANGED <<row, photo, limit, most, lock>>
    <3>1. PICK j : j = [k EXCEPT !.at = "forget", !.bytes = None]
      OBVIOUS
    <3> QED
      BY <1>1, <1>7, <3>1 DEF Store!ForgetObject
  <2>2. Store!Rows' = Store!Rows /\ k.bytes \in File \ Store!Rows
    BY <1>1, <2>1 DEF Store!Rows, Store!JobOK
  <2>3. /\ j \in Store!Jobs /\ j.at = "forget" /\ j.then = k.then /\ j.file = k.file
        /\ j.owner = k.owner /\ j.bytes = None /\ j.files = k.files
    BY <1>1, <2>1 DEF Store!Jobs
  <2>4. PICK F : F = {}
    OBVIOUS
  <2>5. /\ \A p \in Request \ {q} : F \cap Store!InHand(job[p]) = {}
        /\ Store!InHand(j) \subseteq Store!InHand(job[q]) \cup Store!Rows \cup F \cup {None}
    BY <1>1, <2>3, <2>4 DEF Store!InHand
  <2>6. /\ j \in Store!Jobs /\ Store!JobOK(j)' /\ j.at \notin Store!Uploading
        /\ ~(j.at \in {"locked", "insert"})
    BY <1>4, <2>3
  <2>7. /\ object' \subseteq File /\ photo' \in [Owner -> File \cup {None}]
        /\ row' \in [File -> [purpose : Store!Bare, linked : Owner \cup Payment \cup {None},
                              child : Owner \cup {None}]]
        /\ Store!Rows' \subseteq object' /\ limit' \in Nat /\ most' \in Nat /\ limit' <= most'
    BY <1>3, <2>1, <2>2
  <2>8. object \ Store!InHand(job[q]) \subseteq object'
    BY <1>1, <2>1 DEF Store!InHand
  <2>9. /\ lock' = q <=> j.at \in {"locked", "insert"}
        /\ \A p \in Request \ {q} : lock' = p <=> lock = p
    BY <1>1, <2>1, <2>6
  <2>10. j.at \in Store!Uploading =>
           j.file \in F \/ (job[q].at \in Store!Uploading /\ j.file = job[q].file)
    BY <2>6
  <2>11. \/ Store!Rows' \subseteq Store!Rows
         \/ /\ job[q].at \in Store!Uploading
            /\ Store!Rows' \subseteq Store!Rows \cup {job[q].file}
    BY <2>2
  <2>12. job' = [job EXCEPT ![q] = j]
    BY <2>1
  <2> QED
    BY <2>5, <2>6, <2>7, <2>8, <2>9, <2>10, <2>11, <2>12, StoreMoves
<1>8. CASE Store!Finish(q)
  <2>1. /\ job' = [job EXCEPT ![q] = Store!Idle] /\ k.at = "forget"
        /\ UNCHANGED <<object, row, limit, most, lock>>
        /\ photo' = photo \/ photo' = [photo EXCEPT ![k.owner] = None]
           \/ (k.then = "point" /\ photo' = [photo EXCEPT ![k.owner] = k.file])
    <3>1. PICK n : n = IF k.then = "point" THEN k.file ELSE None
      OBVIOUS
    <3>2. photo' = photo \/ photo' = [photo EXCEPT ![k.owner] = n]
      BY <1>1, <1>8, <3>1 DEF Store!Finish
    <3> QED
      BY <1>1, <1>8, <3>1, <3>2 DEF Store!Finish, Store!Done
  <2>2. photo' \in [Owner -> File \cup {None}]
    BY <1>1, <1>3, <2>1 DEF Store!JobOK
  <2>3. Store!Rows' = Store!Rows
    BY <2>1 DEF Store!Rows
  <2>4. PICK j : j = Store!Idle
    OBVIOUS
  <2>5. PICK F : F = {}
    OBVIOUS
  <2>6. /\ \A p \in Request \ {q} : F \cap Store!InHand(job[p]) = {}
        /\ Store!InHand(j) \subseteq Store!InHand(job[q]) \cup Store!Rows \cup F \cup {None}
    BY <2>4, <2>5, StoreIdle
  <2>7. /\ j \in Store!Jobs /\ Store!JobOK(j)' /\ j.at \notin Store!Uploading
        /\ ~(j.at \in {"locked", "insert"})
    BY <1>4, <2>4
  <2>8. /\ object' \subseteq File /\ photo' \in [Owner -> File \cup {None}]
        /\ row' \in [File -> [purpose : Store!Bare, linked : Owner \cup Payment \cup {None},
                              child : Owner \cup {None}]]
        /\ Store!Rows' \subseteq object' /\ limit' \in Nat /\ most' \in Nat /\ limit' <= most'
        /\ object \ Store!InHand(job[q]) \subseteq object'
    BY <1>3, <2>1, <2>2, <2>3
  <2>9. /\ lock' = q <=> j.at \in {"locked", "insert"}
        /\ \A p \in Request \ {q} : lock' = p <=> lock = p
    BY <1>1, <2>1, <2>7
  <2>10. j.at \in Store!Uploading =>
           j.file \in F \/ (job[q].at \in Store!Uploading /\ j.file = job[q].file)
    BY <2>7
  <2>11. \/ Store!Rows' \subseteq Store!Rows
         \/ /\ job[q].at \in Store!Uploading
            /\ Store!Rows' \subseteq Store!Rows \cup {job[q].file}
    BY <2>3
  <2>12. job' = [job EXCEPT ![q] = j]
    BY <2>1, <2>4
  <2> QED
    BY <2>6, <2>7, <2>8, <2>9, <2>10, <2>11, <2>12, StoreMoves
<1>9. CASE Store!DiscardFails(q) \/ Store!Stop(q)
  <2>1. PICK j : /\ j = Store!Idle \/ (k.at = "bytes" /\ j = [k EXCEPT !.at = "forget", !.bytes = None])
                 /\ job' = [job EXCEPT ![q] = j] /\ UNCHANGED <<object, row, photo, limit, most>>
                 /\ \/ lock' = lock /\ k.at \in {"discard", "bytes"}
                    \/ lock' = IF lock = q THEN None ELSE lock
    <3>1. CASE Store!DiscardFails(q)
      <4>1. PICK j : j = [k EXCEPT !.at = "forget", !.bytes = None]
        OBVIOUS
      <4> QED
        BY <1>1, <3>1, <4>1 DEF Store!DiscardFails, Store!Done
    <3>2. CASE Store!Stop(q)
      BY <3>2 DEF Store!Stop, Store!Done
    <3> QED
      BY <1>9, <3>1, <3>2
  <2>2. j = Store!Idle \/ (/\ j \in Store!Jobs /\ j.at = "forget" /\ j.then = k.then
                           /\ j.file = k.file /\ j.owner = k.owner /\ j.bytes = None
                           /\ j.files = k.files)
    BY <1>1, <2>1 DEF Store!Jobs
  <2>3. /\ j \in Store!Jobs /\ j.at \notin Store!Uploading /\ ~(j.at \in {"locked", "insert"})
    BY <1>4, <2>2
  <2>4. Store!JobOK(j)
    BY <1>1, <2>2, StoreIdle DEF Store!JobOK, Store!Uploading
  <2>5. Store!InHand(j) \subseteq Store!InHand(job[q]) \cup Store!Rows \cup {None}
    BY <1>1, <2>2, StoreIdle DEF Store!InHand
  <2>6. lock' = q <=> j.at \in {"locked", "insert"}
    BY <1>1, <1>2, <2>1, <2>3
  <2>7. \A p \in Request \ {q} : lock' = p <=> lock = p
    BY <1>1, <1>2, <2>1
  <2> QED
    BY <2>1, <2>3, <2>4, <2>5, <2>6, <2>7, StoreGoes
<1> QED
  BY <1>5, <1>6, <1>7, <1>8, <1>9

\* The evidence of a payment changes no row but for what it is linked to.
LEMMA StorePays ==
  ASSUME Store!Typed, NEW p \in Payment, NEW f \in File, Store!Pay(p, f)
  PROVE  /\ UNCHANGED <<object, photo, limit, most, lock, job>> /\ Store!Rows' = Store!Rows
         /\ row' \in [File -> [purpose : Store!Bare, linked : Owner \cup Payment \cup {None},
                               child : Owner \cup {None}]]
<1>1. PICK rec : rec = [row[f] EXCEPT !.linked = p]
  OBVIOUS
<1>2. /\ row[f] \in [purpose : Store!Bare, linked : Owner \cup Payment \cup {None},
                     child : Owner \cup {None}]
      /\ row \in [File -> [purpose : Store!Bare, linked : Owner \cup Payment \cup {None},
                           child : Owner \cup {None}]]
  BY StoreFacts
<1>3. /\ row' = [row EXCEPT ![f] = rec] /\ f \in Store!Rows /\ row[f].purpose = "evidence"
      /\ UNCHANGED <<object, photo, limit, most, lock, job>>
  BY <1>1 DEF Store!Pay, Store!BelongsTo
<1>4. /\ rec \in [purpose : Store!Bare, linked : Owner \cup Payment \cup {None},
                  child : Owner \cup {None}]
      /\ rec.purpose = "evidence"
  BY <1>1, <1>2, <1>3
<1>5. rec # Store!NoRow
  BY <1>4 DEF Store!NoRow
<1>6. row'[f] = rec /\ \A g \in File \ {f} : row'[g] = row[g]
  BY <1>2, <1>3
<1>7. Store!Rows' = Store!Rows
  BY <1>3, <1>5, <1>6 DEF Store!Rows
<1> QED
  BY <1>2, <1>3, <1>4, <1>7

LEMMA StoreNextTyped ==
  ASSUME Store!FilesAssumption, Store!Typed, [Store!Next]_(Store!vars)
  PROVE  Store!Typed'
<1>1. ASSUME NEW p \in Payment, NEW f \in File, Store!Pay(p, f) PROVE Store!Typed'
  <2>1. limit' \in Nat /\ most' \in Nat /\ limit' <= most'
    BY <1>1, StorePays, StoreFacts
  <2> QED
    BY <1>1, <2>1, StorePays, StoreStays
<1>2. ASSUME UNCHANGED <<object, row, photo, lock, job>>, limit' \in Nat, most' \in Nat,
             limit' <= most'
      PROVE  Store!Typed'
  <2>1. Store!Rows' = Store!Rows
    BY <1>2 DEF Store!Rows
  <2> QED
    BY <1>2, <2>1, StoreStays, StoreFacts
<1>3. ASSUME NEW l \in Limits, Store!SetQuota(l) PROVE Store!Typed'
  <2>1. /\ UNCHANGED <<object, row, photo, lock, job>> /\ limit' = l
        /\ most' = IF l > most THEN l ELSE most
    BY <1>3 DEF Store!SetQuota
  <2>2. l \in Nat /\ most \in Nat
    BY StoreFacts DEF Store!FilesAssumption
  <2> QED
    BY <1>2, <2>1, <2>2
<1>4. CASE UNCHANGED Store!vars
  BY <1>2, <1>4, StoreFacts DEF Store!vars
<1>5. ASSUME NEW q \in Request, Store!Step(q) \/ Store!InsertFails(q) \/ Store!DiscardFails(q)
                                \/ Store!Stop(q)
      PROVE  Store!Typed'
  BY <1>5, StoreUploadTyped, StoreDeleteTyped DEF Store!Step
<1>6. ASSUME NEW q \in Request,
             \/ \E f \in File, purpose \in Store!Purpose, o \in Owner \cup {None},
                   then \in {"point", "nothing"} : Store!Upload(q, f, purpose, o, then)
             \/ \E o \in Owner, then \in {"clear", "leave"} : Store!RemoveLinked(q, o, then)
             \/ \E f \in File : Store!Remove(q, f)
      PROVE  Store!Typed'
  BY <1>6, StoreAskTyped
<1> QED
  BY <1>1, <1>3, <1>4, <1>5, <1>6 DEF Store!Next

LEMMA StoreInitTyped ==
  ASSUME Store!FilesAssumption, Store!Init
  PROVE  Store!Typed /\ Store!Rows = {} /\ object = {} /\ \A q \in Request : job[q] = Store!Idle
<1>1. /\ object = {} /\ row = [f \in File |-> Store!NoRow] /\ photo = [o \in Owner |-> None]
      /\ limit \in Limits /\ most = limit /\ lock = None /\ job = [q \in Request |-> Store!Idle]
  BY DEF Store!Init
<1>2. Store!Rows = {} /\ limit \in Nat /\ limit <= most
  BY <1>1 DEF Store!Rows, Store!FilesAssumption
<1>3. Store!NoRow \in [purpose : Store!Bare, linked : Owner \cup Payment \cup {None},
                       child : Owner \cup {None}]
  BY DEF Store!NoRow, Store!Bare
<1>4. \A q \in Request : lock = q <=> job[q].at \in {"locked", "insert"}
  BY <1>1 DEF Store!FilesAssumption, Store!Idle
<1>5. Store!TypeOK /\ Store!RowsHaveBytes
  BY <1>1, <1>2, <1>4 DEF Store!TypeOK, Store!RowsHaveBytes
<1>6. /\ Store!Idle \in Store!Jobs /\ Store!JobOK(Store!Idle) /\ Store!Idle.at \notin Store!Uploading
  BY DEF Store!Idle, Store!Jobs, Store!Bare, Store!JobOK, Store!Uploading
<1> QED
  BY <1>1, <1>2, <1>3, <1>5, <1>6 DEF Store!Typed

LEMMA StoreTyped ==
  ASSUME Store!FilesAssumption
  PROVE  Store!Spec => []Store!Typed
<1>1. Store!Init => Store!Typed
  BY StoreInitTyped
<1>2. Store!Typed /\ [Store!Next]_(Store!vars) => Store!Typed'
  BY StoreNextTyped
<1> QED
  BY <1>1, <1>2, PTL DEF Store!Spec

\* Types: the lock is held by a request inside its transaction.  And "a row
\* pointing at bytes that are not there is worse than bytes nothing points at":
\* no row does, whatever fails, overlaps or stops (upload, forget, discard).
THEOREM RowsHaveTheirBytes ==
  ASSUME Store!FilesAssumption
  PROVE  Store!Spec => [](Store!TypeOK /\ Store!RowsHaveBytes)
BY StoreTyped, PTL DEF Store!Typed

-----------------------------------------------------------------------------
(* The quota. *)

LEMMA StoreAfforded ==
  ASSUME Store!FilesAssumption, Store!Typed, Store!Afforded, Store!Rows' \subseteq Store!Rows,
         most' \in Nat, most <= most',
         \A q \in Request : job'[q].at = "insert" => job[q].at = "insert" /\ job'[q].file = job[q].file
  PROVE  Store!Afforded'
<1>1. PICK u, v : u = Store!Used /\ v = Store!Used'
  OBVIOUS
<1>2. u \in Nat /\ v \in Nat /\ v <= u
  <2>1. u = Cardinality(BytesOf(Store!Rows)) /\ Store!Rows \in SUBSET File
    BY <1>1, StoreUsed, StoreFacts
  <2>2. v = Cardinality(BytesOf(Store!Rows'))
    BY <1>1, StoreUsed
  <2>3. Store!Rows' \in SUBSET File
    BY <2>1
  <2> QED
    BY <2>1, <2>2, <2>3, StoreBytes
<1>3. most \in Nat /\ u <= most
  BY <1>1, StoreFacts DEF Store!Afforded, Store!WithinQuota
<1>4. ASSUME NEW q \in Request, job'[q].at = "insert" PROVE v + size[job'[q].file] <= most'
  <2>1. PICK n : n = size[job[q].file]
    OBVIOUS
  <2>2. job[q].at = "insert" /\ job'[q].file = job[q].file /\ u + n <= most
    BY <1>1, <1>4, <2>1 DEF Store!Afforded
  <2>3. n \in Nat
    BY <2>1, <2>2, StoreFacts DEF Store!JobOK, Store!Uploading, Store!FilesAssumption
  <2> QED
    BY <1>2, <1>3, <2>1, <2>2, <2>3
<1>5. v <= most'
  BY <1>2, <1>3
<1> QED
  BY <1>1, <1>4, <1>5 DEF Store!Afforded, Store!WithinQuota

LEMMA StoreNextAfforded ==
  ASSUME Store!FilesAssumption, Store!Typed, Store!Afforded, [Store!Next]_(Store!vars)
  PROVE  Store!Afforded'
<1>1. /\ most \in Nat /\ limit \in Nat /\ limit <= most /\ job \in [Request -> Store!Jobs]
      /\ \A q \in Request : lock = q <=> job[q].at \in {"locked", "insert"}
  BY StoreFacts
<1>2. ASSUME Store!Rows' \subseteq Store!Rows, UNCHANGED most,
             NEW q \in Request, NEW j, job' = [job EXCEPT ![q] = j], j.at # "insert"
      PROVE  Store!Afforded'
  <2>1. \A p \in Request : job'[p].at = "insert" => job[p].at = "insert" /\ job'[p].file = job[p].file
    BY <1>1, <1>2
  <2> QED
    BY <1>1, <1>2, <2>1, StoreAfforded
<1>3. UNCHANGED row => Store!Rows' = Store!Rows
  BY DEF Store!Rows
<1>4. ASSUME NEW q \in Request,
             \/ \E f \in File, purpose \in Store!Purpose, o \in Owner \cup {None},
                   then \in {"point", "nothing"} : Store!Upload(q, f, purpose, o, then)
             \/ \E o \in Owner, then \in {"clear", "leave"} : Store!RemoveLinked(q, o, then)
             \/ \E f \in File : Store!Remove(q, f)
      PROVE  Store!Afforded'
  <2>1. \E j : job' = [job EXCEPT ![q] = j] /\ j.at # "insert" /\ UNCHANGED <<row, most>>
    <3>1. ASSUME NEW f \in File, NEW purpose \in Store!Purpose, NEW o \in Owner \cup {None},
                 NEW then \in {"point", "nothing"}, Store!Upload(q, f, purpose, o, then)
          PROVE  \E j : job' = [job EXCEPT ![q] = j] /\ j.at # "insert" /\ UNCHANGED <<row, most>>
      <4>1. PICK j : j = [Store!Idle EXCEPT !.at = "put", !.file = f, !.owner = o,
                                            !.then = then, !.purpose = purpose]
        OBVIOUS
      <4>2. j.at = "put"
        BY <4>1 DEF Store!Idle
      <4> QED
        BY <3>1, <4>1, <4>2 DEF Store!Upload
    <3>2. ASSUME NEW o \in Owner, NEW then \in {"clear", "leave"}, Store!RemoveLinked(q, o, then)
          PROVE  \E j : job' = [job EXCEPT ![q] = j] /\ j.at # "insert" /\ UNCHANGED <<row, most>>
      <4>1. PICK j : j = [Store!Idle EXCEPT !.at = "forget", !.files = Store!Photos(o),
                                            !.owner = o, !.then = then]
        OBVIOUS
      <4>2. j.at = "forget"
        BY <4>1 DEF Store!Idle
      <4> QED
        BY <3>2, <4>1, <4>2 DEF Store!RemoveLinked
    <3>3. ASSUME NEW f \in File, Store!Remove(q, f)
          PROVE  \E j : job' = [job EXCEPT ![q] = j] /\ j.at # "insert" /\ UNCHANGED <<row, most>>
      <4>1. PICK j : j = [Store!Idle EXCEPT !.at = "forget", !.files = {f}]
        OBVIOUS
      <4>2. j.at = "forget"
        BY <4>1 DEF Store!Idle
      <4> QED
        BY <3>3, <4>1, <4>2 DEF Store!Remove
    <3> QED
      BY <1>4, <3>1, <3>2, <3>3
  <2> QED
    BY <1>2, <1>3, <2>1
<1>5. ASSUME NEW q \in Request, Store!assertWithinQuota(q) PROVE Store!Afforded'
  <2>1. PICK k : k = job[q] /\ k \in Store!Jobs /\ k.at = "locked"
    BY <1>1, <1>5 DEF Store!assertWithinQuota
  <2>2. UNCHANGED <<object, row, photo, evidence, student, limit, most>>
    BY <1>5 DEF Store!assertWithinQuota
  <2>3. CASE job' = [job EXCEPT ![q].at = "discard"]
    <3>1. PICK j : j = [k EXCEPT !.at = "discard"]
      OBVIOUS
    <3>2. j.at = "discard" /\ job' = [job EXCEPT ![q] = j]
      BY <2>1, <2>3, <3>1 DEF Store!Jobs
    <3> QED
      BY <1>2, <1>3, <2>2, <3>2
  <2>4. CASE job' = [job EXCEPT ![q].at = "insert"] /\ Store!Room(k.file)
    <3>1. PICK j : j = [k EXCEPT !.at = "insert"]
      OBVIOUS
    <3>2. j.file = k.file /\ job' = [job EXCEPT ![q] = j]
      BY <2>1, <2>4, <3>1 DEF Store!Jobs
    <3>3. \A p \in Request \ {q} : job'[p].at # "insert"
      BY <1>1, <2>1, <3>2
    <3>4. Store!Used + size[k.file] <= limit /\ size[k.file] \in Nat
      BY <2>1, <2>4, StoreFacts DEF Store!Room, Store!JobOK, Store!Uploading,
         Store!FilesAssumption
    <3>5. Store!Used \in Nat
      BY StoreUsed, StoreBytes, StoreFacts
    <3>6. Store!Used' = Store!Used /\ most' = most /\ job'[q].file = k.file
      BY <1>1, <1>3, <2>2, <3>2 DEF Store!Used
    <3>7. Store!Used' + size[job'[q].file] <= most' /\ Store!Used' <= most'
      BY <1>1, <3>4, <3>5, <3>6
    <3> QED
      BY <3>3, <3>7 DEF Store!Afforded, Store!WithinQuota
  <2> QED
    BY <1>5, <2>1, <2>3, <2>4 DEF Store!assertWithinQuota, Store!Goes
<1>6. ASSUME NEW q \in Request, Store!Insert(q) PROVE Store!Afforded'
  <2>1. PICK k : k = job[q] /\ k \in Store!Jobs /\ k.at = "insert" /\ k.file \in File \ Store!Rows
    BY <1>1, <1>6, StoreFacts DEF Store!Insert, Store!JobOK, Store!Uploading
  <2>2. Store!Rows' \subseteq Store!Rows \cup {k.file} /\ UNCHANGED most
    <3>1. PICK rec, f : f = k.file /\ row' = [row EXCEPT ![f] = rec]
      BY <1>6, <2>1 DEF Store!Insert
    <3>2. \A g \in File \ {f} : row'[g] = row[g]
      BY <3>1, StoreFacts
    <3> QED
      BY <1>6, <3>1, <3>2 DEF Store!Rows, Store!Insert
  <2>3. PICK j : /\ j = Store!Idle \/ j = [k EXCEPT !.at = "replace"]
                 /\ job' = [job EXCEPT ![q] = j]
    BY <1>6, <2>1 DEF Store!Insert, Store!Goes, Store!Done
  <2>4. j.at # "insert"
    BY <2>1, <2>3 DEF Store!Idle, Store!Jobs
  <2>5. \A p \in Request : job'[p].at # "insert"
    BY <1>1, <2>1, <2>3, <2>4
  <2>6. Store!Used + size[k.file] <= most /\ size[k.file] \in Nat
    BY <2>1 DEF Store!Afforded, Store!FilesAssumption
  <2>7. Store!Rows \in SUBSET File /\ Store!Rows \cup {k.file} \in SUBSET File
    BY <2>1, StoreFacts
  <2>8. Cardinality(BytesOf(Store!Rows \cup {k.file})) = Store!Used + size[k.file]
        /\ Store!Used \in Nat
    BY <2>1, <2>7, StoreUsed, StoreBytes
  <2>9. Store!Used' = Cardinality(BytesOf(Store!Rows'))
    BY StoreUsed
  <2>10. Store!Used' <= Store!Used + size[k.file] /\ Store!Used' \in Nat
    <3>1. Store!Rows' \in SUBSET (Store!Rows \cup {k.file})
      BY <2>2
    <3>2. Cardinality(BytesOf(Store!Rows')) <= Cardinality(BytesOf(Store!Rows \cup {k.file}))
      BY <2>7, <3>1, StoreBytes
    <3>3. Cardinality(BytesOf(Store!Rows')) \in Nat
      BY <2>7, <3>1, StoreBytes
    <3> QED
      BY <2>8, <2>9, <3>2, <3>3
  <2>11. Store!Used' <= most'
    BY <1>1, <2>2, <2>6, <2>8, <2>10
  <2> QED
    BY <2>5, <2>11 DEF Store!Afforded, Store!WithinQuota
<1>7. ASSUME NEW q \in Request, NEW f \in File, Store!Forget(q, f) PROVE Store!Afforded'
  <2>1. PICK k : k = job[q] /\ k \in Store!Jobs
    BY <1>1
  <2>2. Store!Rows' \subseteq Store!Rows /\ UNCHANGED most
    <3>1. row' = [row EXCEPT ![f] = Store!NoRow]
      BY <1>7 DEF Store!Forget
    <3>2. \A g \in File \ {f} : row'[g] = row[g]
      BY <3>1, StoreFacts
    <3>3. row'[f] = Store!NoRow
      BY <3>1, StoreFacts
    <3> QED
      BY <1>7, <3>2, <3>3 DEF Store!Rows, Store!Forget
  <2>3. \E j : job' = [job EXCEPT ![q] = j] /\ j.at # "insert"
    <3>1. CASE job' = [job EXCEPT ![q] = Store!Idle]
      <4>1. PICK j : j = Store!Idle
        OBVIOUS
      <4>2. j.at = "none"
        BY <4>1 DEF Store!Idle
      <4> QED
        BY <3>1, <4>1, <4>2
    <3>2. CASE f \in Store!Rows
      <4>1. PICK j : j = [k EXCEPT !.at = "bytes", !.files = k.files \ {f}, !.bytes = f]
        OBVIOUS
      <4>2. j.at = "bytes"
        BY <2>1, <4>1 DEF Store!Jobs
      <4>3. job' = [job EXCEPT ![q] = j]
        BY <1>7, <2>1, <3>2, <4>1 DEF Store!Forget
      <4> QED
        BY <4>2, <4>3
    <3> QED
      BY <1>7, <3>1, <3>2 DEF Store!Forget, Store!Done
  <2> QED
    BY <1>2, <2>2, <2>3
<1>8. ASSUME NEW q \in Request,
             \/ Store!lockSchoolScope(q) \/ Store!Discard(q) \/ Store!InsertFails(q)
             \/ Store!Replace(q) \/ Store!ForgetObject(q) \/ Store!Finish(q)
             \/ Store!DiscardFails(q) \/ Store!Stop(q)
      PROVE  Store!Afforded'
  <2>1. PICK k : k = job[q] /\ k \in Store!Jobs
    BY <1>1
  <2>2. UNCHANGED <<row, most>>
    BY <1>8 DEF Store!lockSchoolScope, Store!Discard, Store!InsertFails, Store!Replace,
       Store!ForgetObject, Store!Finish, Store!DiscardFails, Store!Stop
  <2>3. PICK j1, j2, j3, j4, j5 :
          /\ j1 = [k EXCEPT !.at = "locked"] /\ j2 = [k EXCEPT !.at = "discard"]
          /\ j3 = Store!Idle /\ j4 = [k EXCEPT !.at = "forget", !.bytes = None]
          /\ j5 = [k EXCEPT !.at = "forget", !.files = Store!Previous(k.owner, k.file)]
    OBVIOUS
  <2>4. /\ j1.at = "locked" /\ j2.at = "discard" /\ j3.at = "none"
        /\ j4.at = "forget" /\ j5.at = "forget"
    BY <2>1, <2>3 DEF Store!Idle, Store!Jobs
  <2>5. CASE Store!lockSchoolScope(q)
    BY <1>2, <1>3, <2>1, <2>2, <2>3, <2>4, <2>5 DEF Store!lockSchoolScope, Store!Goes
  <2>6. CASE Store!InsertFails(q)
    BY <1>2, <1>3, <2>1, <2>2, <2>3, <2>4, <2>6 DEF Store!InsertFails, Store!Goes
  <2>7. CASE Store!Replace(q)
    <3>1. job' = [job EXCEPT ![q] = j5]
      BY <2>1, <2>3, <2>7 DEF Store!Replace
    <3> QED
      BY <1>2, <1>3, <2>2, <2>4, <3>1
  <2>8. CASE Store!ForgetObject(q)
    <3>1. job' = [job EXCEPT ![q] = j4]
      BY <2>1, <2>3, <2>8 DEF Store!ForgetObject
    <3> QED
      BY <1>2, <1>3, <2>2, <2>4, <3>1
  <2>9. CASE Store!Discard(q) \/ Store!Finish(q) \/ Store!Stop(q)
    <3>1. job' = [job EXCEPT ![q] = j3]
      BY <2>3, <2>9 DEF Store!Discard, Store!Finish, Store!Stop, Store!Done
    <3> QED
      BY <1>2, <1>3, <2>2, <2>4, <3>1
  <2>10. CASE Store!DiscardFails(q)
    <3>1. job' = [job EXCEPT ![q] = j3] \/ job' = [job EXCEPT ![q] = j4]
      BY <2>1, <2>3, <2>10 DEF Store!DiscardFails, Store!Done
    <3> QED
      BY <1>2, <1>3, <2>2, <2>4, <3>1
  <2> QED
    BY <1>8, <2>5, <2>6, <2>7, <2>8, <2>9, <2>10
<1>9. ASSUME NEW p \in Payment, NEW f \in File, Store!Pay(p, f) PROVE Store!Afforded'
  BY <1>1, <1>9, StorePays, StoreAfforded
<1>10. ASSUME UNCHANGED <<row, job>>, most' \in Nat, most <= most' PROVE Store!Afforded'
  BY <1>3, <1>10, StoreAfforded
<1>11. ASSUME NEW l \in Limits, Store!SetQuota(l) PROVE Store!Afforded'
  <2>1. UNCHANGED <<row, job>> /\ most' = (IF l > most THEN l ELSE most) /\ l \in Nat
    BY <1>11 DEF Store!SetQuota, Store!FilesAssumption
  <2> QED
    BY <1>1, <1>10, <2>1
<1>12. CASE UNCHANGED Store!vars
  BY <1>1, <1>10, <1>12 DEF Store!vars
<1> QED
  BY <1>4, <1>5, <1>6, <1>7, <1>8, <1>9, <1>11, <1>12 DEF Store!Next, Store!Step

(***************************************************************************)
(* A school stores no more than it was ever allowed, however many uploads  *)
(* arrive at the same moment and whatever fails: the lock of the school    *)
(* is held from the sum to the row (lockSchoolScope, assertWithinQuota).   *)
(***************************************************************************)
THEOREM StorageIsAfforded ==
  ASSUME Store!FilesAssumption
  PROVE  Store!Spec => []Store!WithinQuota
<1>1. Store!Init => Store!Typed /\ Store!Afforded
  <2>1. SUFFICES ASSUME Store!Init PROVE Store!Typed /\ Store!Afforded
    OBVIOUS
  <2>2. Store!Typed /\ Store!Rows = {} /\ \A q \in Request : job[q] = Store!Idle
    BY <2>1, StoreInitTyped
  <2>3. PICK U : U = BytesOf({})
    OBVIOUS
  <2>4. U = {}
    BY <2>3 DEF BytesOf
  <2>5. Store!Used = 0
    BY <2>2, <2>3, <2>4, StoreUsed, FS_EmptySet
  <2> QED
    BY <2>2, <2>5, StoreFacts DEF Store!Afforded, Store!WithinQuota, Store!Idle
<1>2. Store!Typed /\ Store!Afforded /\ [Store!Next]_(Store!vars) => (Store!Typed /\ Store!Afforded)'
  BY StoreNextTyped, StoreNextAfforded
<1>3. Store!Afforded => Store!WithinQuota
  BY DEF Store!Afforded
<1> QED
  BY <1>1, <1>2, <1>3, PTL DEF Store!Spec

-----------------------------------------------------------------------------
(* Files, one request at a time. *)

LEMMA StoreAloneMoves ==
  ASSUME Store!Typed, NEW q \in Request, NEW j, job' = [job EXCEPT ![q] = j],
         \A p \in Request \ {q} : job[p] = Store!Idle, Store!Checked(j)'
  PROVE  /\ Store!AloneInv'
         /\ object' = Store!Rows' \cup Store!Unrowed(j) => Store!Neat'
<1>1. job'[q] = j /\ \A p \in Request \ {q} : job'[p] = Store!Idle
  BY StoreFacts
<1>2. ASSUME NEW p \in Request PROVE Store!Checked(job[p])'
  <2>1. CASE p = q
    BY <1>1, <2>1 DEF Store!Checked, Store!Photos, Store!Rows
  <2>2. CASE p # q
    BY <1>1, <2>2 DEF Store!Checked, Store!Idle
  <2> QED
    BY <2>1, <2>2
<1>3. UNION {Store!Unrowed(job'[p]) : p \in Request} = Store!Unrowed(j)
  BY <1>1 DEF Store!Unrowed, Store!Idle, Store!Uploading
<1> QED
  BY <1>1, <1>2, <1>3 DEF Store!AloneInv, Store!Neat

\* Whoever moves is alone.
LEMMA StoreAtWork ==
  ASSUME Store!Typed, Store!AloneInv, ~MayOverlap, NEW q \in Request,
         Store!Free(q) \/ job[q].at # "none"
  PROVE  /\ \A p \in Request \ {q} : job[p] = Store!Idle
         /\ Store!Checked(job[q])
         /\ Store!Neat => object = Store!Rows \cup Store!Unrowed(job[q])
<1>1. \A p \in Request \ {q} : job[p] = Store!Idle
  BY DEF Store!AloneInv, Store!Free, Store!Calm, Store!Idle
<1>2. UNION {Store!Unrowed(job[p]) : p \in Request} = Store!Unrowed(job[q])
  BY <1>1 DEF Store!Unrowed, Store!Idle, Store!Uploading
<1> QED
  BY <1>1, <1>2 DEF Store!AloneInv, Store!Neat

LEMMA StoreAskAlone ==
  ASSUME Store!FilesAssumption, Store!Typed, Store!AloneInv, ~MayOverlap, NEW q \in Request,
         \/ \E f \in File, purpose \in Store!Purpose, o \in Owner \cup {None},
               then \in {"point", "nothing"} : Store!Upload(q, f, purpose, o, then)
         \/ \E o \in Owner, then \in {"clear", "leave"} : Store!RemoveLinked(q, o, then)
         \/ \E f \in File : Store!Remove(q, f)
  PROVE  Store!AloneInv' /\ (Store!Neat => Store!Neat')
<1>1. Store!Free(q) /\ job[q] = Store!Idle
  BY DEF Store!Upload, Store!RemoveLinked, Store!Remove, Store!Free
<1>2. /\ \A p \in Request \ {q} : job[p] = Store!Idle
      /\ Store!Neat => object = Store!Rows
  <2>1. /\ \A p \in Request \ {q} : job[p] = Store!Idle
        /\ Store!Neat => object = Store!Rows \cup Store!Unrowed(job[q])
    BY <1>1, StoreAtWork
  <2>2. Store!Unrowed(job[q]) = {}
    BY <1>1 DEF Store!Unrowed, Store!Uploading, Store!Idle
  <2> QED
    BY <2>1, <2>2
<1>3. ASSUME NEW f \in File, NEW purpose \in Store!Purpose, NEW o \in Owner \cup {None},
             NEW then \in {"point", "nothing"}, Store!Upload(q, f, purpose, o, then)
      PROVE  Store!AloneInv' /\ (Store!Neat => Store!Neat')
  <2>1. PICK j : /\ j = [Store!Idle EXCEPT !.at = "put", !.file = f, !.owner = o,
                                           !.then = then, !.purpose = purpose]
                 /\ job' = [job EXCEPT ![q] = j] /\ object' = object \cup {f}
                 /\ UNCHANGED row
    BY <1>3 DEF Store!Upload
  <2>2. j.at = "put" /\ j.file = f /\ j.files = {}
    BY <2>1 DEF Store!Idle
  <2>3. Store!Checked(j)' /\ Store!Unrowed(j) = {f} /\ Store!Rows' = Store!Rows
    BY <2>1, <2>2 DEF Store!Checked, Store!Unrowed, Store!Uploading, Store!Rows
  <2>4. Store!Neat => object' = Store!Rows' \cup Store!Unrowed(j)
    BY <1>2, <2>1, <2>3
  <2> QED
    BY <1>2, <2>1, <2>3, <2>4, StoreAloneMoves
<1>4. ASSUME NEW j, job' = [job EXCEPT ![q] = j], j.at = "forget", j.then # "point",
             \A f \in j.files : row[f].linked \notin Payment, UNCHANGED <<object, row>>
      PROVE  Store!AloneInv' /\ (Store!Neat => Store!Neat')
  <2>1. Store!Checked(j)' /\ Store!Unrowed(j) = {} /\ Store!Rows' = Store!Rows
    BY <1>4 DEF Store!Checked, Store!Unrowed, Store!Uploading, Store!Rows
  <2>2. Store!Neat => object' = Store!Rows' \cup Store!Unrowed(j)
    BY <1>2, <1>4, <2>1
  <2> QED
    BY <1>2, <1>4, <2>1, <2>2, StoreAloneMoves
<1>5. ASSUME NEW o \in Owner, NEW then \in {"clear", "leave"}, Store!RemoveLinked(q, o, then)
      PROVE  Store!AloneInv' /\ (Store!Neat => Store!Neat')
  <2>1. PICK j : /\ j = [Store!Idle EXCEPT !.at = "forget", !.files = Store!Photos(o),
                                           !.owner = o, !.then = then]
                 /\ job' = [job EXCEPT ![q] = j] /\ UNCHANGED <<object, row>>
    BY <1>5 DEF Store!RemoveLinked
  <2>2. j.at = "forget" /\ j.then = then /\ j.files = Store!Photos(o)
    BY <2>1 DEF Store!Idle
  <2>3. \A f \in j.files : row[f].linked \notin Payment
    BY <2>2 DEF Store!Photos, Store!FilesAssumption
  <2> QED
    BY <1>4, <2>1, <2>2, <2>3
<1>6. ASSUME NEW f \in File, Store!Remove(q, f)
      PROVE  Store!AloneInv' /\ (Store!Neat => Store!Neat')
  <2>1. PICK j : /\ j = [Store!Idle EXCEPT !.at = "forget", !.files = {f}]
                 /\ job' = [job EXCEPT ![q] = j] /\ UNCHANGED <<object, row>>
                 /\ row[f].linked \notin Payment
    BY <1>6 DEF Store!Remove
  <2>2. j.at = "forget" /\ j.then = "nothing" /\ j.files = {f}
    BY <2>1 DEF Store!Idle
  <2> QED
    BY <1>4, <2>1, <2>2
<1> QED
  BY <1>3, <1>5, <1>6

LEMMA StoreUploadAlone ==
  ASSUME Store!FilesAssumption, Store!Typed, Store!AloneInv, ~MayOverlap, NEW q \in Request,
         \/ Store!lockSchoolScope(q) \/ Store!assertWithinQuota(q) \/ Store!Insert(q)
         \/ Store!Discard(q) \/ Store!InsertFails(q)
  PROVE  Store!AloneInv' /\ (Store!Neat => Store!Neat')
<1>1. PICK k : k = job[q] /\ k \in Store!Jobs /\ Store!JobOK(k)
  BY StoreFacts
<1>2. /\ k.at \in {"put", "locked", "insert", "discard"}
      /\ k.file \in File \ Store!Rows /\ k.purpose \in Store!Purpose
      /\ k.then = "point" => k.owner \in Owner /\ k.purpose = "photo"
  BY <1>1 DEF Store!lockSchoolScope, Store!assertWithinQuota, Store!Insert, Store!Discard,
     Store!InsertFails, Store!JobOK, Store!Uploading
<1>3. /\ \A p \in Request \ {q} : job[p] = Store!Idle
      /\ \A f \in k.files : row[f].linked \notin Payment
      /\ Store!Neat => object = Store!Rows \cup {k.file}
  BY <1>1, <1>2, StoreAtWork DEF Store!Checked, Store!Unrowed, Store!Uploading
<1>4. ASSUME NEW a \in {"locked", "insert", "discard"}, job' = [job EXCEPT ![q].at = a],
             UNCHANGED <<object, row>>
      PROVE  Store!AloneInv' /\ (Store!Neat => Store!Neat')
  <2>1. PICK j : j = [k EXCEPT !.at = a]
    OBVIOUS
  <2>2. /\ job' = [job EXCEPT ![q] = j] /\ j.at = a /\ j.file = k.file /\ j.files = k.files
    BY <1>1, <1>4, <2>1 DEF Store!Jobs
  <2>3. Store!Checked(j)' /\ Store!Unrowed(j) = {k.file} /\ Store!Rows' = Store!Rows
    BY <1>3, <1>4, <2>2 DEF Store!Checked, Store!Unrowed, Store!Uploading, Store!Rows
  <2>4. Store!Neat => object' = Store!Rows' \cup Store!Unrowed(j)
    BY <1>3, <1>4, <2>3
  <2> QED
    BY <1>3, <2>2, <2>3, <2>4, StoreAloneMoves
<1>5. CASE Store!lockSchoolScope(q)
  BY <1>4, <1>5 DEF Store!lockSchoolScope, Store!Goes
<1>6. CASE Store!assertWithinQuota(q)
  BY <1>4, <1>6 DEF Store!assertWithinQuota, Store!Goes
<1>7. CASE Store!InsertFails(q)
  BY <1>4, <1>7 DEF Store!InsertFails, Store!Goes
<1>8. CASE Store!Insert(q)
  <2>1. PICK f, rec, j :
          /\ f = k.file /\ rec = [purpose |-> k.purpose, linked |-> k.owner, child |-> k.owner]
          /\ row' = [row EXCEPT ![f] = rec] /\ job' = [job EXCEPT ![q] = j] /\ UNCHANGED object
          /\ j = Store!Idle \/ j = [k EXCEPT !.at = "replace"]
    BY <1>1, <1>8 DEF Store!Insert, Store!Goes, Store!Done
  <2>2. row'[f] = rec /\ \A g \in File \ {f} : row'[g] = row[g]
    BY <1>2, <2>1, StoreFacts
  <2>3. rec # Store!NoRow
    BY <1>2, <2>1 DEF Store!NoRow, Store!Purpose
  <2>4. Store!Rows' = Store!Rows \cup {f}
    BY <1>2, <2>1, <2>2, <2>3 DEF Store!Rows
  <2>5. rec.linked \notin Payment
    BY <1>1, <2>1 DEF Store!Jobs, Store!FilesAssumption
  <2>6. \/ j = Store!Idle
        \/ /\ j.at = "replace" /\ j.files = k.files /\ j.file = f /\ j.owner = k.owner
           /\ j.then = k.then
    BY <1>1, <2>1 DEF Store!Jobs
  <2>7. k.then = "point" => f \in Store!Photos(k.owner)'
    BY <1>2, <2>1, <2>2, <2>4 DEF Store!Photos
  <2>8. \A g \in k.files : row'[g].linked \notin Payment
    BY <1>1, <1>3, <2>2, <2>5 DEF Store!Jobs
  <2>9. Store!Checked(j)'
    <3>1. CASE j = Store!Idle
      BY <3>1 DEF Store!Checked, Store!Idle
    <3>2. CASE j # Store!Idle
      BY <2>6, <2>7, <2>8, <3>2 DEF Store!Checked, Store!Photos, Store!Rows
    <3> QED
      BY <3>1, <3>2
  <2>10. Store!Unrowed(j) = {}
    BY <2>6 DEF Store!Unrowed, Store!Uploading, Store!Idle
  <2>11. Store!Neat => object' = Store!Rows' \cup Store!Unrowed(j)
    BY <1>3, <2>1, <2>4, <2>10
  <2> QED
    BY <1>3, <2>1, <2>9, <2>11, StoreAloneMoves
<1>9. CASE Store!Discard(q)
  <2>1. PICK j : /\ j = Store!Idle /\ job' = [job EXCEPT ![q] = j]
                 /\ object' = object \ {k.file} /\ UNCHANGED row
    BY <1>1, <1>9 DEF Store!Discard, Store!Done
  <2>2. Store!Checked(j)' /\ Store!Unrowed(j) = {} /\ Store!Rows' = Store!Rows
    BY <2>1 DEF Store!Checked, Store!Unrowed, Store!Uploading, Store!Rows, Store!Idle
  <2>3. Store!Neat => object' = Store!Rows' \cup Store!Unrowed(j)
    BY <1>2, <1>3, <2>1, <2>2
  <2> QED
    BY <1>3, <2>1, <2>2, <2>3, StoreAloneMoves
<1> QED
  BY <1>5, <1>6, <1>7, <1>8, <1>9

LEMMA StoreDeleteAlone ==
  ASSUME Store!FilesAssumption, Store!Typed, Store!AloneInv, ~MayOverlap, NEW q \in Request,
         \/ Store!Replace(q) \/ (\E f \in File : Store!Forget(q, f)) \/ Store!ForgetObject(q)
         \/ Store!Finish(q) \/ Store!DiscardFails(q) \/ Store!Stop(q)
  PROVE  Store!AloneInv' /\ (~MayFail /\ Store!Neat => Store!Neat')
<1>1. PICK k : k = job[q] /\ k \in Store!Jobs /\ Store!JobOK(k)
  BY StoreFacts
<1>2. \A p \in Request \ {q} : job[p] = Store!Idle
  <2>1. CASE Store!Stop(q)
    BY <2>1 DEF Store!Stop, Store!AloneInv
  <2>2. CASE ~Store!Stop(q)
    <3>1. k.at # "none"
      BY <1>1, <2>2 DEF Store!Replace, Store!Forget, Store!ForgetObject, Store!Finish,
         Store!DiscardFails
    <3> QED
      BY <1>1, <3>1, StoreAtWork
  <2> QED
    BY <2>1, <2>2
<1>3. Store!Checked(k)
  BY <1>1 DEF Store!AloneInv
<1>4. k.at # "none" /\ Store!Neat => object = Store!Rows \cup Store!Unrowed(k)
  BY <1>1, StoreAtWork
<1>0. PICK i : i = Store!Idle
  OBVIOUS
<1>5. i = Store!Idle /\ i.at = "none" /\ Store!Checked(i)' /\ Store!Unrowed(i) = {}
  <2>1. i = Store!Idle /\ i.at = "none" /\ i.files = {}
    BY <1>0 DEF Store!Idle
  <2>2. Store!Checked(i)'
    BY <2>1 DEF Store!Checked
  <2> QED
    BY <2>1, <2>2 DEF Store!Unrowed, Store!Uploading
<1>6. UNCHANGED row => Store!Rows' = Store!Rows /\ \A o : Store!Photos(o)' = Store!Photos(o)
  BY DEF Store!Photos, Store!Rows
<1>7. CASE Store!Replace(q)
  <2>1. PICK S : S = Store!Previous(k.owner, k.file)
    OBVIOUS
  <2>2. PICK j : j = [k EXCEPT !.at = "forget", !.files = S]
    OBVIOUS
  <2>3. job' = [job EXCEPT ![q] = j] /\ k.at = "replace" /\ UNCHANGED <<object, row>>
    BY <1>1, <1>7, <2>1, <2>2 DEF Store!Replace
  <2>4. /\ j.at = "forget" /\ j.files = S /\ j.then = k.then /\ j.file = k.file
        /\ j.owner = k.owner
    BY <1>1, <2>2 DEF Store!Jobs
  <2>5. \A f \in S : row[f].linked = k.owner
    BY <2>1 DEF Store!Previous, Store!Photos
  <2>6. k.owner \notin Payment
    BY <1>1 DEF Store!Jobs, Store!FilesAssumption
  <2>7. k.then = "point" => Store!Photos(k.owner) = S \cup {k.file} /\ k.file \notin S
    BY <1>3, <2>1, <2>3 DEF Store!Checked, Store!Previous
  <2>8. Store!Checked(j)'
    BY <1>6, <2>3, <2>4, <2>5, <2>6, <2>7 DEF Store!Checked
  <2>9. Store!Unrowed(j) = {} /\ Store!Unrowed(k) = {}
    BY <2>3, <2>4 DEF Store!Unrowed, Store!Uploading
  <2>10. Store!Neat => object' = Store!Rows' \cup Store!Unrowed(j)
    BY <1>4, <1>6, <2>3, <2>9
  <2> QED
    BY <1>2, <2>3, <2>8, <2>10, StoreAloneMoves
<1>8. ASSUME NEW f \in File, Store!Forget(q, f)
      PROVE  Store!AloneInv' /\ (~MayFail /\ Store!Neat => Store!Neat')
  <2>1. /\ k.at = "forget" /\ f \in k.files /\ row' = [row EXCEPT ![f] = Store!NoRow]
        /\ UNCHANGED object
    BY <1>1, <1>8 DEF Store!Forget
  <2>2. /\ row'[f] = Store!NoRow /\ \A g \in File \ {f} : row'[g] = row[g]
        /\ Store!NoRow.linked = None
    BY <2>1, StoreFacts DEF Store!NoRow
  <2>3. Store!Rows' = Store!Rows \ {f}
    BY <2>2 DEF Store!Rows
  <2>4. Store!Unrowed(k) = {}
    BY <2>1 DEF Store!Unrowed, Store!Uploading
  <2>5. CASE f \notin Store!Rows
    <3>1. job' = [job EXCEPT ![q] = i]
      BY <1>5, <1>8, <2>5 DEF Store!Forget, Store!Done
    <3>2. Store!Neat => object' = Store!Rows' \cup Store!Unrowed(i)
      BY <1>4, <1>5, <2>1, <2>3, <2>4, <2>5
    <3> QED
      BY <1>2, <1>5, <3>1, <3>2, StoreAloneMoves
  <2>6. CASE f \in Store!Rows
    <3>1. PICK j : j = [k EXCEPT !.at = "bytes", !.files = k.files \ {f}, !.bytes = f]
      OBVIOUS
    <3>2. job' = [job EXCEPT ![q] = j]
      BY <1>1, <1>8, <2>6, <3>1 DEF Store!Forget
    <3>3. /\ j.at = "bytes" /\ j.files = k.files \ {f} /\ j.then = k.then /\ j.file = k.file
          /\ j.owner = k.owner /\ j.bytes = f /\ k.files \subseteq File
      BY <1>1, <3>1 DEF Store!Jobs
    <3>4. Store!Photos(k.owner)' = Store!Photos(k.owner) \ {f}
      BY <2>2, <2>3 DEF Store!Photos, Store!Rows
    <3>5. /\ \A g \in k.files : row[g].linked \notin Payment
          /\ k.then = "point" => /\ Store!Photos(k.owner) = k.files \cup {k.file}
                                 /\ k.file \notin k.files
      BY <1>3, <2>1 DEF Store!Checked
    <3>6. \A g \in j.files : row'[g].linked \notin Payment
      BY <2>2, <3>3, <3>5
    <3>7. j.then = "point" => /\ Store!Photos(j.owner)' = j.files \cup {j.file}
                              /\ j.file \notin j.files
      BY <2>1, <3>3, <3>4, <3>5
    <3>8. Store!Checked(j)'
      BY <3>3, <3>6, <3>7 DEF Store!Checked, Store!Photos, Store!Rows
    <3>9. Store!Unrowed(j) = {f}
      BY <3>3 DEF Store!Unrowed, Store!Uploading
    <3>10. Store!Neat => object' = Store!Rows' \cup Store!Unrowed(j)
      BY <1>4, <2>1, <2>3, <2>4, <2>6, <3>9
    <3> QED
      BY <1>2, <3>2, <3>8, <3>10, StoreAloneMoves
  <2> QED
    BY <2>5, <2>6
\* The bytes are dealt with, and the request goes on to the next row.
<1>9. ASSUME NEW j, j = [k EXCEPT !.at = "forget", !.bytes = None], k.at = "bytes",
             job' = [job EXCEPT ![q] = j], UNCHANGED row,
             object' = object \ {k.bytes} \/ MayFail
      PROVE  Store!AloneInv' /\ (~MayFail /\ Store!Neat => Store!Neat')
  <2>1. /\ j.at = "forget" /\ j.files = k.files /\ j.then = k.then /\ j.file = k.file
        /\ j.owner = k.owner
    BY <1>1, <1>9 DEF Store!Jobs
  <2>2. Store!Checked(j)'
    BY <1>3, <1>6, <1>9, <2>1 DEF Store!Checked
  <2>3. /\ Store!Unrowed(j) = {} /\ Store!Unrowed(k) = {k.bytes} /\ k.bytes \notin Store!Rows
    BY <1>1, <1>9, <2>1 DEF Store!Unrowed, Store!Uploading, Store!JobOK
  <2>4. ~MayFail /\ Store!Neat => object' = Store!Rows' \cup Store!Unrowed(j)
    BY <1>4, <1>6, <1>9, <2>3
  <2> QED
    BY <1>2, <1>9, <2>2, <2>4, StoreAloneMoves
<1>10. CASE Store!ForgetObject(q)
  <2>1. PICK j : j = [k EXCEPT !.at = "forget", !.bytes = None]
    OBVIOUS
  <2>2. job' = [job EXCEPT ![q] = j]
    BY <1>1, <1>10, <2>1 DEF Store!ForgetObject
  <2> QED
    BY <1>1, <1>9, <1>10, <2>1, <2>2 DEF Store!ForgetObject
<1>11. CASE Store!Finish(q)
  <2>1. job' = [job EXCEPT ![q] = i] /\ k.at = "forget" /\ UNCHANGED <<object, row>>
    BY <1>1, <1>5, <1>11 DEF Store!Finish, Store!Done
  <2>2. Store!Unrowed(k) = {}
    BY <2>1 DEF Store!Unrowed, Store!Uploading
  <2>3. Store!Neat => object' = Store!Rows' \cup Store!Unrowed(i)
    BY <1>4, <1>5, <1>6, <2>1, <2>2
  <2> QED
    BY <1>2, <1>5, <2>1, <2>3, StoreAloneMoves
<1>12. ASSUME MayFail, job' = [job EXCEPT ![q] = i], UNCHANGED row
       PROVE  Store!AloneInv' /\ (~MayFail /\ Store!Neat => Store!Neat')
  BY <1>2, <1>5, <1>12, StoreAloneMoves
<1>13. CASE Store!DiscardFails(q)
  <2>1. CASE job' = [job EXCEPT ![q] = i]
    BY <1>12, <1>13, <2>1 DEF Store!DiscardFails
  <2>2. CASE k.at = "bytes" /\ job' = [job EXCEPT ![q].at = "forget", ![q].bytes = None]
    <3>1. PICK j : j = [k EXCEPT !.at = "forget", !.bytes = None]
      OBVIOUS
    <3>2. job' = [job EXCEPT ![q] = j]
      BY <1>1, <2>2, <3>1
    <3> QED
      BY <1>9, <1>13, <2>2, <3>1, <3>2 DEF Store!DiscardFails
  <2> QED
    BY <1>1, <1>5, <1>13, <2>1, <2>2 DEF Store!DiscardFails, Store!Done
<1>14. CASE Store!Stop(q)
  BY <1>5, <1>12, <1>14 DEF Store!Stop, Store!Done
<1> QED
  BY <1>7, <1>8, <1>10, <1>11, <1>13, <1>14

LEMMA StoreNextAlone ==
  ASSUME Store!FilesAssumption, Store!Typed, Store!AloneInv, ~MayOverlap,
         [Store!Next]_(Store!vars)
  PROVE  Store!AloneInv' /\ (~MayFail /\ Store!Neat => Store!Neat')
<1>1. ASSUME NEW p \in Payment, NEW f \in File, Store!Pay(p, f)
      PROVE  Store!AloneInv' /\ (Store!Neat => Store!Neat')
  <2>1. \A q \in Request : job'[q] = Store!Idle
    BY <1>1 DEF Store!Pay, Store!Calm
  <2>2. \A q \in Request : Store!Checked(job[q])'
    BY <2>1 DEF Store!Checked, Store!Idle
  <2>3. /\ \A q \in Request : Store!Unrowed(job'[q]) = Store!Unrowed(job[q])
        /\ object' = object /\ Store!Rows' = Store!Rows
    BY <1>1, StorePays
  <2> QED
    BY <2>1, <2>2, <2>3 DEF Store!AloneInv, Store!Neat
<1>2. CASE UNCHANGED <<object, row, job>>
  <2>1. Store!Rows' = Store!Rows /\ \A o : Store!Photos(o)' = Store!Photos(o)
    BY <1>2 DEF Store!Photos, Store!Rows
  <2> QED
    BY <1>2, <2>1 DEF Store!AloneInv, Store!Neat, Store!Checked
<1> QED
  BY <1>1, <1>2, StoreAskAlone, StoreUploadAlone, StoreDeleteAlone
  DEF Store!Next, Store!Step, Store!SetQuota, Store!vars

LEMMA StoreInitAlone ==
  ASSUME Store!FilesAssumption, Store!Init
  PROVE  Store!AloneInv /\ Store!Neat
<1>1. Store!Rows = {} /\ object = {} /\ \A q \in Request : job[q] = Store!Idle
  BY StoreInitTyped
<1>2. \A q \in Request : Store!Unrowed(job[q]) = {}
  BY <1>1 DEF Store!Unrowed, Store!Uploading, Store!Idle
<1>3. UNION {Store!Unrowed(job[q]) : q \in Request} = {}
  BY <1>2
<1> QED
  BY <1>1, <1>3 DEF Store!AloneInv, Store!Neat, Store!Checked, Store!Idle

(***************************************************************************)
(* Where nothing fails and requests do not overlap, no bytes are left that *)
(* nothing points at (upload's catch, discard, forget).                    *)
(***************************************************************************)
THEOREM NoBytesAreLeft ==
  ASSUME Store!FilesAssumption, ~MayOverlap, ~MayFail
  PROVE  Store!Spec => []Store!NothingIsLeft
<1>1. Store!Init => Store!Typed /\ Store!AloneInv /\ Store!Neat
  BY StoreInitTyped, StoreInitAlone
<1>2. Store!Typed /\ Store!AloneInv /\ Store!Neat /\ [Store!Next]_(Store!vars)
      => (Store!Typed /\ Store!AloneInv /\ Store!Neat)'
  BY StoreNextTyped, StoreNextAlone
<1>3. Store!Neat => Store!NothingIsLeft
  <2>1. SUFFICES ASSUME Store!Neat, Store!Calm PROVE object = Store!Rows
    BY DEF Store!NothingIsLeft
  <2>2. \A q \in Request : Store!Unrowed(job[q]) = {}
    BY <2>1 DEF Store!Calm, Store!Unrowed, Store!Uploading, Store!Idle
  <2> QED
    BY <2>1, <2>2 DEF Store!Neat
<1> QED
  BY <1>1, <1>2, <1>3, PTL DEF Store!Spec

\* Only a request that ends points a student at a photo, and then at the one
\* there is; and what is evidence nobody deletes.
LEMMA StorePoints ==
  ASSUME Store!FilesAssumption, Store!Typed, Store!AloneInv, [Store!Next]_(Store!vars)
  PROVE  Store!OldPhotosGo /\ Store!PhotoIsThere
<1>1. CASE UNCHANGED photo
  BY <1>1 DEF Store!OldPhotosGo, Store!PhotoIsThere
<1>2. ASSUME NEW q \in Request, Store!Finish(q) PROVE Store!OldPhotosGo /\ Store!PhotoIsThere
  <2>1. PICK k : k = job[q] /\ k \in Store!Jobs /\ Store!Checked(k)
    BY StoreFacts DEF Store!AloneInv
  <2>2. SUFFICES ASSUME NEW o \in Owner, photo'[o] \notin {photo[o], None}
                 PROVE  Store!Photos(o)' = {photo'[o]} /\ photo'[o] \in Store!Rows
    BY DEF Store!OldPhotosGo, Store!PhotoIsThere
  <2>3. PICK n : n = IF k.then = "point" THEN k.file ELSE None
    OBVIOUS
  <2>4. k.at = "forget" /\ k.files = {} /\ UNCHANGED row
        /\ (photo' = photo \/ photo' = [photo EXCEPT ![k.owner] = n])
    BY <1>2, <2>1, <2>3 DEF Store!Finish
  <2>5. photo' = [photo EXCEPT ![k.owner] = n] /\ photo \in [Owner -> File \cup {None}]
    BY <2>2, <2>4, StoreFacts
  <2>6. o = k.owner /\ photo'[o] = n /\ k.then = "point" /\ n = k.file
    BY <2>2, <2>3, <2>5
  <2>7. Store!Photos(o) = {n}
    BY <2>1, <2>4, <2>6 DEF Store!Checked
  <2>8. Store!Photos(o)' = Store!Photos(o) /\ Store!Photos(o) \subseteq Store!Rows
    BY <2>4 DEF Store!Photos, Store!Rows
  <2> QED
    BY <2>6, <2>7, <2>8
<1>3. ASSUME NEW p \in Payment, NEW f \in File, Store!Pay(p, f) PROVE UNCHANGED photo
  BY <1>3, StorePays
<1> QED
  BY <1>1, <1>2, <1>3 DEF Store!Next, Store!Step, Store!Upload, Store!RemoveLinked, Store!Remove,
     Store!lockSchoolScope, Store!assertWithinQuota, Store!Insert, Store!Discard, Store!Replace,
     Store!ForgetObject, Store!Forget, Store!InsertFails, Store!DiscardFails, Store!Stop,
     Store!SetQuota, Store!vars

LEMMA StoreEvidence ==
  ASSUME Store!FilesAssumption, Store!Typed, Store!AloneInv, [Store!Next]_(Store!vars)
  PROVE  Store!EvidenceStays
<1>1. SUFFICES ASSUME NEW f \in File, row[f].linked \in Payment PROVE f \in Store!Rows'
  BY DEF Store!EvidenceStays
<1>2. f \in Store!Rows
  BY <1>1 DEF Store!Rows, Store!NoRow, Store!FilesAssumption
<1>3. CASE Store!Rows' = Store!Rows
  BY <1>2, <1>3
<1>4. UNCHANGED row => Store!Rows' = Store!Rows
  BY DEF Store!Rows
<1>5. ASSUME NEW q \in Request, Store!Insert(q) PROVE f \in Store!Rows'
  <2>1. PICK k, g, rec : /\ k = job[q] /\ k.at = "insert" /\ g = k.file
                         /\ row' = [row EXCEPT ![g] = rec]
    BY <1>5 DEF Store!Insert
  <2>2. g # f
    BY <1>2, <2>1, StoreFacts DEF Store!JobOK, Store!Uploading
  <2>3. row'[f] = row[f]
    BY <2>1, <2>2, StoreFacts
  <2> QED
    BY <1>2, <2>3 DEF Store!Rows
<1>6. ASSUME NEW q \in Request, NEW g \in File, Store!Forget(q, g) PROVE f \in Store!Rows'
  <2>1. g # f
    BY <1>1, <1>6 DEF Store!Forget, Store!AloneInv, Store!Checked
  <2>2. row'[f] = row[f]
    BY <1>6, <2>1, StoreFacts DEF Store!Forget
  <2> QED
    BY <1>2, <2>2 DEF Store!Rows
<1>7. ASSUME NEW p \in Payment, NEW g \in File, Store!Pay(p, g) PROVE f \in Store!Rows'
  BY <1>2, <1>7, StorePays
<1> QED
  BY <1>3, <1>4, <1>5, <1>6, <1>7 DEF Store!Next, Store!Step, Store!Upload, Store!RemoveLinked,
     Store!Remove, Store!lockSchoolScope, Store!assertWithinQuota, Store!Discard, Store!Replace,
     Store!ForgetObject, Store!Finish, Store!InsertFails, Store!DiscardFails, Store!Stop,
     Store!SetQuota, Store!vars

(***************************************************************************)
(* "A new passport photo means the old one goes": a request that points a  *)
(* student at a photo points them at one there is, their only one          *)
(* (setPhoto, setLogo, replaceLinked); and "a file attached to a payment   *)
(* is evidence of that payment and stays" (remove, attachToPayment).  One  *)
(* request at a time, whatever fails.                                      *)
(***************************************************************************)
THEOREM PhotosAndEvidence ==
  ASSUME Store!FilesAssumption, ~MayOverlap
  PROVE  Store!Spec =>
           [][Store!OldPhotosGo /\ Store!PhotoIsThere /\ Store!EvidenceStays]_(Store!vars)
<1>1. Store!Init => Store!Typed /\ Store!AloneInv
  BY StoreInitTyped, StoreInitAlone
<1>2. Store!Typed /\ Store!AloneInv /\ [Store!Next]_(Store!vars) => (Store!Typed /\ Store!AloneInv)'
  BY StoreNextTyped, StoreNextAlone
<1>3. Store!Typed /\ Store!AloneInv /\ [Store!Next]_(Store!vars)
      => [Store!OldPhotosGo /\ Store!PhotoIsThere /\ Store!EvidenceStays]_(Store!vars)
  BY StorePoints, StoreEvidence
<1> QED
  BY <1>1, <1>2, <1>3, PTL DEF Store!Spec

-----------------------------------------------------------------------------
(* The calendar. *)

CONSTANTS Session, Term, Days
VARIABLES used

Cal == INSTANCE AcademicCalendar

\* At most one is at most one there.
LEMMA CalFew == ASSUME NEW S, NEW p, S \subseteq {p} PROVE Cal!Cardinality(S) <= 1
<1>1. S = {} \/ S = {p}
  OBVIOUS
<1>2. Cal!Cardinality(S) = Cardinality(S)
  BY DEF Cardinality, Cal!Cardinality, IsFiniteSet, Cal!IsFiniteSet
<1>3. Cardinality({}) = 0 /\ Cardinality({p}) = 1
  BY FS_EmptySet, FS_Singleton
<1> QED
  BY <1>1, <1>2, <1>3

\* What a request has in hand, and what it does to a row it takes the marker from.
LEMMA CalFacts ==
  ASSUME Cal!CalendarAssumption, Cal!Typed
  PROVE  /\ \A q \in Request : job[q] = Cal!Idle \/
              /\ job[q] \in [at : {"clear", "fees", "results", "write"}, p : Cal!Period, seen : SUBSET Cal!Period,
                             op : {"create", "update", "current", "remove"}, row : Cal!Dated]
              /\ Cal!Placed(job[q].p, job[q].row)
         /\ \A q \in Request : job[q].at # "none" => job[q] # Cal!Idle
         /\ \A p \in Cal!Period : /\ row[p] = Cal!NoRow \/ Cal!Placed(p, row[p])
                                  /\ row[p].current \in BOOLEAN
         /\ \A p, r : Cal!Placed(p, r) => r # Cal!NoRow
<1>1. ASSUME NEW q \in Request, job[q] # Cal!Idle
      PROVE  /\ job[q] \in [at : {"clear", "fees", "results", "write"}, p : Cal!Period, seen : SUBSET Cal!Period,
                             op : {"create", "update", "current", "remove"}, row : Cal!Dated]
             /\ Cal!Placed(job[q].p, job[q].row)
  BY <1>1 DEF Cal!Typed, Cal!JobOK
<1>2. \A p, r : Cal!Placed(p, r) => r # Cal!NoRow /\ r.current \in BOOLEAN
  BY DEF Cal!CalendarAssumption, Cal!NoRow, Cal!Placed, Cal!Dated
<1>3. Cal!NoRow.current \in BOOLEAN
  BY DEF Cal!NoRow
<1>4. \A p \in Cal!Period : row[p] = Cal!NoRow \/ Cal!Placed(p, row[p])
  BY DEF Cal!Typed, Cal!OnFile
<1>5. \A q \in Request : job[q].at # "none" => job[q] # Cal!Idle
  BY DEF Cal!Idle
<1> QED
  BY <1>1, <1>2, <1>3, <1>4, <1>5

LEMMA CalCleared ==
  ASSUME Cal!CalendarAssumption, Cal!Typed, NEW q \in Request, NEW x \in Cal!Period, NEW r,
         r = Cal!Cleared(q)[x]
  PROVE  /\ (r = Cal!NoRow) <=> (row[x] = Cal!NoRow)
         /\ r # Cal!NoRow => Cal!Placed(x, r)
         /\ r.of = row[x].of /\ r.start = row[x].start /\ r.end = row[x].end
         /\ r.current <=> (row[x].current /\ x \notin job[q].seen)
         /\ r.current \in BOOLEAN
<1>1. row[x] = Cal!NoRow \/ Cal!Placed(x, row[x])
  BY CalFacts
<1>2. CASE x \notin job[q].seen
  <2>1. r = row[x]
    BY <1>2 DEF Cal!Cleared
  <2>2. row[x].current \in BOOLEAN
    BY CalFacts
  <2> QED
    BY <1>1, <1>2, <2>1, <2>2
<1>3. CASE x \in job[q].seen
  <2>1. r = [row[x] EXCEPT !.current = FALSE]
    BY <1>3 DEF Cal!Cleared
  <2>2. CASE row[x] = Cal!NoRow
    <3>1. r = [Cal!NoRow EXCEPT !.current = FALSE]
      BY <2>1, <2>2
    <3>2. r = Cal!NoRow /\ r.current = FALSE
      BY <3>1 DEF Cal!NoRow
    <3> QED
      BY <1>3, <2>2, <3>2
  <2>3. CASE Cal!Placed(x, row[x])
    <3>1. row[x] \in Cal!Dated
      BY <2>3 DEF Cal!Placed
    <3>2. r = [of |-> row[x].of, start |-> row[x].start, end |-> row[x].end, current |-> FALSE]
      BY <2>1, <3>1 DEF Cal!Dated
    <3>3. Cal!Placed(x, r)
      BY <2>3, <3>1, <3>2 DEF Cal!Placed, Cal!Dated
    <3>4. /\ r.of = row[x].of /\ r.start = row[x].start /\ r.end = row[x].end
          /\ r.current = FALSE
      BY <3>2
    <3>5. r # Cal!NoRow /\ row[x] # Cal!NoRow
      BY <2>3, <3>3, CalFacts
    <3> QED
      BY <1>3, <3>3, <3>4, <3>5
  <2> QED
    BY <1>1, <2>2, <2>3
<1> QED
  BY <1>2, <1>3

\* A request takes what it asked for in hand, having checked it.
CalBegun(q, j) ==
  /\ job' = [job EXCEPT ![q] = j] /\ Cal!JobOK(j) /\ UNCHANGED <<row, used>>
  /\ Cal!Apart => Cal!Checked(j)

CalAsks(q, p) ==
  \/ \E of \in Session \cup {None}, r \in Cal!Ranges, current \in BOOLEAN :
       Cal!Create(q, p, of, r, current)
  \/ \E r \in Cal!Ranges : Cal!Update(q, p, r)
  \/ Cal!SetCurrent(q, p) \/ Cal!Remove(q, p)

LEMMA CalBegins ==
  ASSUME Cal!CalendarAssumption, Cal!Typed, NEW q \in Request, NEW p \in Cal!Period, CalAsks(q, p)
  PROVE  Cal!Free(q) /\ \E j : CalBegun(q, j)
<1>1. ASSUME NEW of \in Session \cup {None}, NEW r \in Cal!Ranges, NEW current \in BOOLEAN,
             Cal!Create(q, p, of, r, current)
      PROVE  Cal!Free(q) /\ \E j : CalBegun(q, j)
  <2>1. PICK d : d = [of |-> of, start |-> r.start, end |-> r.end, current |-> current]
    OBVIOUS
  <2>2. PICK j : j = [at |-> IF current THEN "clear" ELSE "write", op |-> "create", p |-> p,
                      seen |-> {}, row |-> d]
    OBVIOUS
  <2>3. /\ Cal!Free(q) /\ job' = [job EXCEPT ![q] = j] /\ UNCHANGED <<row, used>>
        /\ ~Cal!OnFile(p) /\ (p \in Term => Cal!OnFile(of)) /\ Cal!assertNoOverlap(p, of, r)
        /\ p \in Session => of = None
        /\ p \in Term => of \in Session
    BY <1>1, <2>1, <2>2 DEF Cal!Create, Cal!Take, Cal!CalendarAssumption
  <2>4. r.start \in 1..Days /\ r.end \in 1..Days /\ r.start < r.end
    BY DEF Cal!Ranges
  <2>5. Cal!Placed(p, d)
    BY <2>1, <2>3, <2>4 DEF Cal!Placed, Cal!Dated
  <2>6. Cal!JobOK(j)
    BY <2>2, <2>5 DEF Cal!JobOK, Cal!Placed
  <2>7. Cal!assertNoOverlap(p, of, d)
    BY <2>1, <2>3 DEF Cal!assertNoOverlap, Cal!Meet
  <2>8. Cal!Checked(j)
    BY <2>1, <2>2, <2>3, <2>7 DEF Cal!Checked, Cal!Moves
  <2> QED
    BY <2>3, <2>6, <2>8 DEF CalBegun
<1>2. ASSUME NEW r \in Cal!Ranges, Cal!Update(q, p, r)
      PROVE  Cal!Free(q) /\ \E j : CalBegun(q, j)
  <2>1. Cal!OnFile(p) /\ Cal!Placed(p, row[p])
    BY <1>2 DEF Cal!Update, Cal!Typed
  <2>2. PICK d : d = [row[p] EXCEPT !.start = r.start, !.end = r.end]
    OBVIOUS
  <2>3. d = [of |-> row[p].of, start |-> r.start, end |-> r.end, current |-> row[p].current]
    BY <2>1, <2>2 DEF Cal!Placed, Cal!Dated
  <2>4. PICK j : j = [at |-> "write", op |-> "update", p |-> p, seen |-> {}, row |-> d]
    OBVIOUS
  <2>5. /\ Cal!Free(q) /\ job' = [job EXCEPT ![q] = j] /\ UNCHANGED <<row, used>>
        /\ <<r.start, r.end>> # <<row[p].start, row[p].end>> => Cal!assertNoOverlap(p, row[p].of, r)
    BY <1>2, <2>2, <2>4 DEF Cal!Update, Cal!Take
  <2>6. r.start \in 1..Days /\ r.end \in 1..Days /\ r.start < r.end
    BY DEF Cal!Ranges
  <2>7. Cal!Placed(p, d)
    BY <2>1, <2>3, <2>6 DEF Cal!Placed, Cal!Dated
  <2>8. Cal!JobOK(j)
    BY <2>4, <2>7 DEF Cal!JobOK, Cal!Placed
  <2>9. Cal!Apart => Cal!assertNoOverlap(p, row[p].of, d)
    <3>1. CASE <<r.start, r.end>> # <<row[p].start, row[p].end>>
      BY <2>3, <2>5, <3>1 DEF Cal!assertNoOverlap, Cal!Meet
    <3>2. CASE <<r.start, r.end>> = <<row[p].start, row[p].end>>
      BY <2>1, <2>3, <3>2 DEF Cal!Apart, Cal!assertNoOverlap, Cal!Meet
    <3> QED
      BY <3>1, <3>2
  <2>10. Cal!Apart => Cal!Checked(j)
    BY <2>1, <2>3, <2>4, <2>9 DEF Cal!Checked, Cal!Moves
  <2> QED
    BY <2>5, <2>8, <2>10 DEF CalBegun
<1>3. ASSUME NEW j, NEW at, NEW op, j = [at |-> at, op |-> op, p |-> p, seen |-> {}, row |-> row[p]],
             job' = [job EXCEPT ![q] = j], UNCHANGED <<row, used>>, Cal!OnFile(p),
             \/ at = "clear" /\ op = "current"
             \/ at = "fees" /\ op = "remove" /\ ~row[p].current /\ Cal!TermsOf(p) = {}
      PROVE  CalBegun(q, j)
  <2>1. Cal!Placed(p, row[p])
    BY <1>3 DEF Cal!Typed
  <2>2. Cal!JobOK(j)
    BY <1>3, <2>1 DEF Cal!JobOK, Cal!Placed
  <2>3. Cal!Checked(j)
    BY <1>3 DEF Cal!Checked, Cal!Moves
  <2> QED
    BY <1>3, <2>2, <2>3 DEF CalBegun
<1>4. CASE Cal!SetCurrent(q, p)
  BY <1>3, <1>4 DEF Cal!SetCurrent, Cal!Take
<1>5. CASE Cal!Remove(q, p)
  BY <1>3, <1>5 DEF Cal!Remove, Cal!Take
<1> QED
  BY <1>1, <1>2, <1>4, <1>5 DEF CalAsks

\* A removal has counted what refers to its period: it ends, or goes on.
CalCounted(q, j) ==
  /\ job' = [job EXCEPT ![q] = j] /\ Cal!JobOK(j) /\ UNCHANGED <<row, used>>
  /\ job[q] # Cal!Idle /\ (j = Cal!Idle \/ (Cal!Checked(job[q]) => Cal!Checked(j)))

LEMMA CalCounts ==
  ASSUME Cal!CalendarAssumption, Cal!Typed, NEW q \in Request,
         Cal!CountFees(q) \/ Cal!CountResults(q)
  PROVE  \E j : CalCounted(q, j)
<1>1. PICK k : k = job[q]
  OBVIOUS
<1>2. /\ k.at \in {"fees", "results"} /\ UNCHANGED <<row, used>>
      /\ k.at = "results" \/ k.at = "fees"
  BY <1>1 DEF Cal!CountFees, Cal!CountResults, Cal!Take
<1>3. /\ k \in [at : {"clear", "fees", "results", "write"}, p : Cal!Period, seen : SUBSET Cal!Period,
                op : {"create", "update", "current", "remove"}, row : Cal!Dated]
      /\ Cal!Placed(k.p, k.row) /\ job[q] # Cal!Idle
  BY <1>1, <1>2, CalFacts
<1>4. ASSUME NEW at \in {"results", "write"}, job' = [job EXCEPT ![q] = [k EXCEPT !.at = at]],
             ~Cal!Priced(k.p) \/ k.at = "results",
             at = "write" => ~Cal!Scored(k.p)
      PROVE  \E j : CalCounted(q, j)
  <2>1. PICK j : j = [k EXCEPT !.at = at]
    OBVIOUS
  <2>2. j = [at |-> at, p |-> k.p, seen |-> k.seen, op |-> k.op, row |-> k.row]
    BY <1>3, <2>1
  <2>3. Cal!JobOK(j)
    BY <1>3, <2>2 DEF Cal!JobOK
  <2>4. /\ j.at = at /\ j.p = k.p /\ j.seen = k.seen /\ j.op = k.op /\ j.row = k.row
        /\ at # "clear" /\ at # "fees" /\ k.at # "clear"
    BY <1>2, <2>2
  <2>5. Cal!Checked(k) => Cal!Checked(j)
    <3>1. Cal!Moves(j) <=> Cal!Moves(k)
      BY <2>4 DEF Cal!Moves
    <3>2. Cal!Checked(k) => ~Cal!Priced(k.p)
      BY <1>2, <1>4 DEF Cal!Checked
    <3> QED
      BY <1>2, <1>4, <2>4, <3>1, <3>2 DEF Cal!Checked
  <2> QED
    BY <1>1, <1>2, <1>3, <1>4, <2>1, <2>3, <2>5 DEF CalCounted
<1>5. ASSUME job' = [job EXCEPT ![q] = Cal!Idle] PROVE \E j : CalCounted(q, j)
  BY <1>2, <1>3, <1>5 DEF CalCounted, Cal!JobOK
<1>6. \A u \in used : u \in Cal!Uses
  BY DEF Cal!Typed
<1>7. CASE Cal!CountFees(q)
  <2>1. /\ Cal!Priced(k.p) => job' = [job EXCEPT ![q] = Cal!Idle]
        /\ ~Cal!Priced(k.p) =>
             job' = [job EXCEPT ![q] = [k EXCEPT !.at = IF k.p \in Term THEN "results" ELSE "write"]]
    BY <1>1, <1>7 DEF Cal!CountFees, Cal!Take
  <2>2. k.p \notin Term => ~Cal!Scored(k.p)
    BY <1>6 DEF Cal!Scored, Cal!Uses
  <2> QED
    BY <1>4, <1>5, <2>1, <2>2
<1>8. CASE Cal!CountResults(q)
  <2>1. /\ k.at = "results"
        /\ Cal!Scored(k.p) => job' = [job EXCEPT ![q] = Cal!Idle]
        /\ ~Cal!Scored(k.p) => job' = [job EXCEPT ![q] = [k EXCEPT !.at = "write"]]
    BY <1>1, <1>8 DEF Cal!CountResults, Cal!Take
  <2> QED
    BY <1>4, <1>5, <2>1
<1> QED
  BY <1>7, <1>8

LEMMA CalMoves ==
  ASSUME Cal!Typed, NEW q \in Request, NEW j, job' = [job EXCEPT ![q] = j], Cal!JobOK(j)
  PROVE  job' = [p \in Request |-> job'[p]] /\ \A p \in Request : Cal!JobOK(job'[p])
<1>1. job' = [p \in Request |-> job'[p]] /\ \A p \in Request : job'[p] = job[p] \/ job'[p] = j
  BY DEF Cal!Typed
<1> QED
  BY <1>1 DEF Cal!Typed

\* The rows of a calendar after a step, one by one.
LEMMA CalRowsTyped ==
  ASSUME Cal!Typed, NEW q \in Request, NEW j, job' = [job EXCEPT ![q] = j], Cal!JobOK(j),
         row' = [p \in Cal!Period |-> row'[p]],
         \A p \in Cal!Period : row'[p] # Cal!NoRow => Cal!Placed(p, row'[p]),
         \A t \in Term : row'[t] # Cal!NoRow => row'[row'[t].of] # Cal!NoRow,
         \A u \in used' : u \in Cal!Uses /\ row'[u[1]] # Cal!NoRow
  PROVE  Cal!Typed'
<1>1. job' = [p \in Request |-> job'[p]] /\ \A p \in Request : Cal!JobOK(job'[p])
  BY CalMoves
<1>2. \A p \in Request : Cal!JobOK(job[p])'
  BY <1>1 DEF Cal!JobOK
<1> QED
  BY <1>1, <1>2 DEF Cal!Typed, Cal!OnFile, Cal!Placed, Cal!JobOK

\* What a write makes of the rows of other periods, and of its own.
CalOthers(q, seen) ==
  \A x \in Cal!Period \ {job[q].p} :
    /\ (row'[x] = Cal!NoRow) <=> (row[x] = Cal!NoRow)
    /\ row'[x] # Cal!NoRow => Cal!Placed(x, row'[x])
    /\ row'[x].of = row[x].of /\ row'[x].start = row[x].start /\ row'[x].end = row[x].end
    /\ row'[x].current <=> (row[x].current /\ x \notin seen)
    /\ row'[x].current \in BOOLEAN

CalEnds(q) ==
  /\ job[q].at = "write" /\ job[q] # Cal!Idle /\ job[q].p \in Cal!Period
  /\ job' = [job EXCEPT ![q] = Cal!Idle] /\ row' = [p \in Cal!Period |-> row'[p]]

LEMMA CalCreates ==
  ASSUME Cal!CalendarAssumption, Cal!Typed, NEW q \in Request, Cal!WriteCreate(q)
  PROVE  /\ CalEnds(q) /\ CalOthers(q, job[q].seen) /\ job[q].op = "create"
         /\ row'[job[q].p] = job[q].row /\ Cal!Placed(job[q].p, job[q].row) /\ UNCHANGED used
         /\ job[q].p \in Term => row[job[q].row.of] # Cal!NoRow
<1>1. PICK j : j = job[q]
  OBVIOUS
<1>2. PICK c : c = Cal!Cleared(q)
  OBVIOUS
<1>3. /\ j.at = "write" /\ j.op = "create" /\ row' = [c EXCEPT ![j.p] = j.row]
      /\ job' = [job EXCEPT ![q] = Cal!Idle] /\ UNCHANGED used
      /\ j.p \in Term => row[j.row.of] # Cal!NoRow
  BY <1>1, <1>2 DEF Cal!WriteCreate, Cal!Writes, Cal!Done, Cal!OnFile
<1>4. j # Cal!Idle /\ j.p \in Cal!Period /\ Cal!Placed(j.p, j.row)
  BY <1>1, <1>3, CalFacts
<1>5. c = [x \in Cal!Period |-> c[x]]
  BY <1>2 DEF Cal!Cleared
<1>6. /\ row' = [x \in Cal!Period |-> row'[x]] /\ row'[j.p] = j.row
      /\ \A x \in Cal!Period \ {j.p} : row'[x] = c[x]
  BY <1>3, <1>4, <1>5
<1>7. CalOthers(q, j.seen)
  BY <1>1, <1>2, <1>6, CalCleared DEF CalOthers
<1> QED
  BY <1>1, <1>3, <1>4, <1>6, <1>7 DEF CalEnds

LEMMA CalMarks ==
  ASSUME Cal!CalendarAssumption, Cal!Typed, NEW q \in Request, Cal!WriteCurrent(q)
  PROVE  /\ CalEnds(q) /\ CalOthers(q, job[q].seen) /\ job[q].op = "current"
         /\ row[job[q].p] # Cal!NoRow
         /\ row'[job[q].p] = [of |-> row[job[q].p].of, start |-> row[job[q].p].start,
                              end |-> row[job[q].p].end, current |-> TRUE]
         /\ UNCHANGED used
<1>1. PICK j : j = job[q]
  OBVIOUS
<1>2. PICK c : c = Cal!Cleared(q)
  OBVIOUS
<1>3. /\ j.at = "write" /\ j.op = "current" /\ row' = [c EXCEPT ![j.p].current = TRUE]
      /\ job' = [job EXCEPT ![q] = Cal!Idle] /\ UNCHANGED used /\ row[j.p] # Cal!NoRow
  BY <1>1, <1>2 DEF Cal!WriteCurrent, Cal!Writes, Cal!Done, Cal!OnFile
<1>4. j # Cal!Idle /\ j.p \in Cal!Period
  BY <1>1, <1>3, CalFacts
<1>5. c = [x \in Cal!Period |-> c[x]]
  BY <1>2 DEF Cal!Cleared
<1>6. /\ row' = [x \in Cal!Period |-> row'[x]] /\ row'[j.p] = [c[j.p] EXCEPT !.current = TRUE]
      /\ \A x \in Cal!Period \ {j.p} : row'[x] = c[x]
  BY <1>3, <1>4, <1>5
<1>7. CalOthers(q, j.seen)
  BY <1>1, <1>2, <1>6, CalCleared DEF CalOthers
<1>8. PICK r : r = c[j.p]
  OBVIOUS
<1>9. /\ Cal!Placed(j.p, r)
      /\ r.of = row[j.p].of /\ r.start = row[j.p].start /\ r.end = row[j.p].end
  BY <1>1, <1>2, <1>3, <1>4, <1>8, CalCleared
<1>10. row'[j.p] = [of |-> r.of, start |-> r.start, end |-> r.end, current |-> TRUE]
  BY <1>6, <1>8, <1>9 DEF Cal!Placed, Cal!Dated
<1> QED
  BY <1>1, <1>3, <1>4, <1>6, <1>7, <1>9, <1>10 DEF CalEnds

LEMMA CalUpdates ==
  ASSUME Cal!CalendarAssumption, Cal!Typed, NEW q \in Request, Cal!WriteUpdate(q)
  PROVE  /\ CalEnds(q) /\ CalOthers(q, {}) /\ job[q].op = "update"
         /\ row[job[q].p] # Cal!NoRow /\ Cal!Placed(job[q].p, job[q].row)
         /\ row'[job[q].p] = [of |-> row[job[q].p].of, start |-> job[q].row.start,
                              end |-> job[q].row.end, current |-> row[job[q].p].current]
         /\ UNCHANGED used
<1>1. PICK j : j = job[q]
  OBVIOUS
<1>2. /\ j.at = "write" /\ j.op = "update"
      /\ row' = [row EXCEPT ![j.p].start = j.row.start, ![j.p].end = j.row.end]
      /\ job' = [job EXCEPT ![q] = Cal!Idle] /\ UNCHANGED used /\ row[j.p] # Cal!NoRow
  BY <1>1 DEF Cal!WriteUpdate, Cal!Writes, Cal!Done, Cal!OnFile
<1>3. j # Cal!Idle /\ j.p \in Cal!Period /\ Cal!Placed(j.p, j.row) /\ Cal!Placed(j.p, row[j.p])
  BY <1>1, <1>2, CalFacts
<1>4. row = [x \in Cal!Period |-> row[x]]
  BY DEF Cal!Typed
<1>5. /\ row' = [x \in Cal!Period |-> row'[x]]
      /\ row'[j.p] = [row[j.p] EXCEPT !.start = j.row.start, !.end = j.row.end]
      /\ \A x \in Cal!Period \ {j.p} : row'[x] = row[x]
  BY <1>2, <1>3, <1>4
<1>6. CalOthers(q, {})
  BY <1>1, <1>5, CalFacts DEF CalOthers
<1>7. row'[j.p] = [of |-> row[j.p].of, start |-> j.row.start, end |-> j.row.end,
                   current |-> row[j.p].current]
  BY <1>3, <1>5 DEF Cal!Placed, Cal!Dated
<1> QED
  BY <1>1, <1>2, <1>3, <1>5, <1>6, <1>7 DEF CalEnds

LEMMA CalRemoves ==
  ASSUME Cal!CalendarAssumption, Cal!Typed, NEW q \in Request, Cal!WriteRemove(q)
  PROVE  /\ CalEnds(q) /\ job[q].op = "remove"
         /\ \A x \in Cal!Period :
              row'[x] = IF x = job[q].p \/ x \in Cal!TermsOf(job[q].p) THEN Cal!NoRow ELSE row[x]
         /\ used' = {u \in used : u[1] \notin {job[q].p} \cup Cal!TermsOf(job[q].p)}
<1>1. PICK j, S : j = job[q] /\ S = {j.p} \cup Cal!TermsOf(j.p)
  OBVIOUS
<1>2. /\ j.at = "write" /\ j.op = "remove" /\ used' = {u \in used : u[1] \notin S}
      /\ row' = [p \in Cal!Period |-> IF p \in S THEN Cal!NoRow ELSE row[p]]
      /\ job' = [job EXCEPT ![q] = Cal!Idle]
  BY <1>1 DEF Cal!WriteRemove, Cal!Writes, Cal!Done, Cal!WithTerms, Cal!UsesOf
<1>3. j # Cal!Idle /\ j.p \in Cal!Period
  BY <1>1, <1>2, CalFacts
<1>4. /\ row' = [p \in Cal!Period |-> row'[p]]
      /\ \A x \in Cal!Period : row'[x] = IF x \in S THEN Cal!NoRow ELSE row[x]
  BY <1>2
<1> QED
  BY <1>1, <1>2, <1>3, <1>4 DEF CalEnds

LEMMA CalNextTyped ==
  ASSUME Cal!CalendarAssumption, Cal!Typed, [Cal!Next]_(Cal!vars)
  PROVE  Cal!Typed'
<1>1. /\ row = [p \in Cal!Period |-> row[p]]
      /\ \A p \in Cal!Period : row[p] # Cal!NoRow => Cal!Placed(p, row[p])
      /\ \A t \in Term : row[t] # Cal!NoRow => row[row[t].of] # Cal!NoRow
      /\ \A u \in used : u \in Cal!Uses /\ row[u[1]] # Cal!NoRow
      /\ \A u \in Cal!Uses : u[1] \in Cal!Period
  BY DEF Cal!Typed, Cal!OnFile, Cal!Uses, Cal!Period
<1>2. ASSUME NEW q \in Request, NEW j, job' = [job EXCEPT ![q] = j], Cal!JobOK(j),
             UNCHANGED <<row, used>>
      PROVE  Cal!Typed'
  BY <1>1, <1>2, CalRowsTyped
<1>3. Cal!JobOK(Cal!Idle)
  BY DEF Cal!JobOK
<1>4. ASSUME NEW q \in Request, Cal!Clear(q) PROVE Cal!Typed'
  <2>1. PICK k, S : k = job[q] /\ S = Cal!Current(Cal!Kind(k.p, k.row.of))
    OBVIOUS
  <2>2. PICK j : j = [k EXCEPT !.at = "write", !.seen = S]
    OBVIOUS
  <2>3. job' = [job EXCEPT ![q] = j] /\ UNCHANGED <<row, used>> /\ k.at = "clear"
    BY <1>4, <2>1, <2>2 DEF Cal!Clear, Cal!Typed
  <2>4. S \in SUBSET Cal!Period
    BY <2>1 DEF Cal!Current, Cal!Kind, Cal!Period
  <2>5. /\ k \in [at : {"clear", "fees", "results", "write"}, p : Cal!Period, seen : SUBSET Cal!Period,
                  op : {"create", "update", "current", "remove"}, row : Cal!Dated]
        /\ Cal!Placed(k.p, k.row)
    BY <2>1, <2>3, CalFacts
  <2>6. j = [at |-> "write", p |-> k.p, seen |-> S, op |-> k.op, row |-> k.row]
    BY <2>2, <2>5
  <2>7. Cal!JobOK(j)
    BY <2>4, <2>5, <2>6 DEF Cal!JobOK
  <2> QED
    BY <1>2, <2>3, <2>7
<1>5. ASSUME NEW q \in Request, Cal!Fail(q) PROVE Cal!Typed'
  BY <1>2, <1>3, <1>5 DEF Cal!Fail, Cal!Done
<1>6. ASSUME NEW q \in Request, NEW seen, CalEnds(q), CalOthers(q, seen), UNCHANGED used,
             Cal!Placed(job[q].p, row'[job[q].p]),
             job[q].p \in Term => row[row'[job[q].p].of] # Cal!NoRow
      PROVE  Cal!Typed'
  <2>1. PICK p \in Cal!Period : p = job[q].p
    BY <1>6 DEF CalEnds
  <2>2. row'[p] # Cal!NoRow
    BY <1>6, <2>1, CalFacts
  <2>3. \A x \in Cal!Period : row[x] # Cal!NoRow => row'[x] # Cal!NoRow
    BY <1>6, <2>1, <2>2 DEF CalOthers
  <2>4. \A x \in Cal!Period : row'[x] # Cal!NoRow => Cal!Placed(x, row'[x])
    BY <1>6, <2>1 DEF CalOthers
  <2>5. ASSUME NEW t \in Term, row'[t] # Cal!NoRow PROVE row'[row'[t].of] # Cal!NoRow
    <3>1. row'[t].of \in Cal!Period
      BY <2>4, <2>5 DEF Cal!Placed, Cal!Period
    <3>2. CASE t = p
      BY <1>6, <2>1, <2>3, <3>1, <3>2
    <3>3. CASE t # p
      BY <1>1, <1>6, <2>1, <2>3, <2>5, <3>1, <3>3 DEF CalOthers, Cal!Period
    <3> QED
      BY <3>2, <3>3
  <2>6. \A u \in used' : u \in Cal!Uses /\ row'[u[1]] # Cal!NoRow
    BY <1>1, <1>6, <2>3
  <2> QED
    BY <1>3, <1>6, <2>4, <2>5, <2>6, CalRowsTyped DEF CalEnds
<1>7. ASSUME NEW q \in Request, Cal!WriteCreate(q) PROVE Cal!Typed'
  BY <1>6, <1>7, CalCreates
<1>8. ASSUME NEW q \in Request, NEW of, NEW start, NEW end, NEW current \in BOOLEAN,
             row[job[q].p] # Cal!NoRow, CalEnds(q), NEW seen, CalOthers(q, seen), UNCHANGED used,
             row'[job[q].p] = [of |-> row[job[q].p].of, start |-> start, end |-> end,
                               current |-> current],
             start \in 1..Days, end \in 1..Days, start < end
      PROVE  Cal!Typed'
  <2>1. PICK p \in Cal!Period : p = job[q].p
    BY <1>8 DEF CalEnds
  <2>2. Cal!Placed(p, row[p]) /\ row'[p].of = row[p].of
    BY <1>1, <1>8, <2>1
  <2>3. Cal!Placed(p, row'[p])
    BY <1>8, <2>1, <2>2 DEF Cal!Placed, Cal!Dated
  <2>4. p \in Term => row[row'[p].of] # Cal!NoRow
    BY <1>1, <1>8, <2>1, <2>2
  <2> QED
    BY <1>6, <1>8, <2>1, <2>3, <2>4
<1>9. ASSUME NEW q \in Request, Cal!WriteCurrent(q) PROVE Cal!Typed'
  <2>1. /\ CalEnds(q) /\ CalOthers(q, job[q].seen) /\ row[job[q].p] # Cal!NoRow
        /\ row'[job[q].p] = [of |-> row[job[q].p].of, start |-> row[job[q].p].start,
                             end |-> row[job[q].p].end, current |-> TRUE]
        /\ UNCHANGED used
    BY <1>9, CalMarks
  <2>2. /\ row[job[q].p].start \in 1..Days /\ row[job[q].p].end \in 1..Days
        /\ row[job[q].p].start < row[job[q].p].end
    BY <1>1, <2>1 DEF CalEnds, Cal!Placed, Cal!Dated
  <2> QED
    BY <1>8, <2>1, <2>2
<1>10. ASSUME NEW q \in Request, Cal!WriteUpdate(q) PROVE Cal!Typed'
  <2>1. /\ CalEnds(q) /\ CalOthers(q, {}) /\ row[job[q].p] # Cal!NoRow
        /\ row'[job[q].p] = [of |-> row[job[q].p].of, start |-> job[q].row.start,
                             end |-> job[q].row.end, current |-> row[job[q].p].current]
        /\ UNCHANGED used
    BY <1>10, CalUpdates
  <2>2. /\ job[q].row.start \in 1..Days /\ job[q].row.end \in 1..Days
        /\ job[q].row.start < job[q].row.end
    BY <1>10, CalUpdates DEF Cal!Placed, Cal!Dated
  <2>3. row[job[q].p].current \in BOOLEAN
    BY <2>1, CalFacts DEF CalEnds
  <2> QED
    BY <1>8, <2>1, <2>2, <2>3
<1>11. ASSUME NEW q \in Request, Cal!WriteRemove(q) PROVE Cal!Typed'
  <2>1. PICK p, S : p = job[q].p /\ S = {p} \cup Cal!TermsOf(p)
    OBVIOUS
  <2>2. /\ CalEnds(q) /\ used' = {u \in used : u[1] \notin S}
        /\ \A x \in Cal!Period : row'[x] = IF x \in S THEN Cal!NoRow ELSE row[x]
    BY <1>11, <2>1, CalRemoves
  <2>3. ASSUME NEW t \in Term, row'[t] # Cal!NoRow PROVE row'[row'[t].of] # Cal!NoRow
    <3>1. t \in Cal!Period /\ t \notin S /\ row'[t] = row[t]
      BY <2>2, <2>3 DEF Cal!Period
    <3>2. row[t].of \in Session /\ row[row[t].of] # Cal!NoRow
      BY <1>1, <2>3, <3>1 DEF Cal!Placed
    <3>3. row[t].of # p
      BY <2>1, <2>3, <3>1 DEF Cal!TermsOf, Cal!OnFile
    <3>4. row[t].of \notin S
      BY <2>1, <3>2, <3>3 DEF Cal!TermsOf, Cal!CalendarAssumption
    <3> QED
      BY <2>2, <3>1, <3>2, <3>4 DEF Cal!Period
  <2>4. \A x \in Cal!Period : row'[x] # Cal!NoRow => Cal!Placed(x, row'[x])
    BY <1>1, <2>2
  <2>5. \A u \in used' : u \in Cal!Uses /\ row'[u[1]] # Cal!NoRow
    BY <1>1, <2>2
  <2> QED
    BY <1>3, <2>2, <2>3, <2>4, <2>5, CalRowsTyped DEF CalEnds
<1>12. ASSUME NEW p \in Cal!Period, NEW what, Cal!Use(p, what) PROVE Cal!Typed'
  <2>1. /\ UNCHANGED <<row, job>> /\ row[p] # Cal!NoRow
        /\ <<p, what>> \in Cal!Uses /\ used' = used \cup {<<p, what>>}
    BY <1>12 DEF Cal!Use, Cal!OnFile
  <2>2. \A u \in used' : u \in Cal!Uses /\ row'[u[1]] # Cal!NoRow
    BY <1>1, <2>1
  <2> QED
    BY <2>1, <2>2 DEF Cal!Typed, Cal!OnFile, Cal!JobOK, Cal!Placed
<1>13. CASE UNCHANGED Cal!vars
  BY <1>13 DEF Cal!vars, Cal!Typed, Cal!OnFile, Cal!JobOK, Cal!Placed
<1>14. ASSUME NEW q \in Request, NEW p \in Cal!Period, CalAsks(q, p) PROVE Cal!Typed'
  <2>1. PICK j : CalBegun(q, j)
    BY <1>14, CalBegins
  <2> QED
    BY <1>2, <2>1 DEF CalBegun
<1>15. ASSUME NEW q \in Request, Cal!CountFees(q) \/ Cal!CountResults(q) PROVE Cal!Typed'
  <2>1. PICK j : CalCounted(q, j)
    BY <1>15, CalCounts
  <2> QED
    BY <1>2, <2>1 DEF CalCounted
<1> QED
  BY <1>4, <1>5, <1>7, <1>9, <1>10, <1>11, <1>12, <1>13, <1>14, <1>15 DEF Cal!Next, CalAsks

LEMMA CalInitTyped ==
  ASSUME Cal!Init
  PROVE  Cal!Typed
BY DEF Cal!Init, Cal!Typed, Cal!OnFile, Cal!Period, Cal!JobOK

LEMMA CalTyped ==
  ASSUME Cal!CalendarAssumption
  PROVE  Cal!Spec => []Cal!Typed
<1>1. Cal!Init => Cal!Typed
  BY CalInitTyped
<1>2. Cal!Typed /\ [Cal!Next]_(Cal!vars) => Cal!Typed'
  BY CalNextTyped
<1> QED
  BY <1>1, <1>2, PTL DEF Cal!Spec

-----------------------------------------------------------------------------
(* The calendar, one request at a time. *)

LEMMA CalAtWork ==
  ASSUME Cal!AloneInv, NEW q \in Request, job[q] # Cal!Idle
  PROVE  Cal!Checked(job[q]) /\ \A p \in Request \ {q} : job[p] = Cal!Idle
BY DEF Cal!AloneInv

CalKind(p) == IF p \in Session THEN Session ELSE Term

\* A period is dated or marked, and takes the marker from those of its kind or
\* from none; or it goes.
CalWrote(p, seen) ==
  /\ \A x \in Cal!Period \ {p} :
       /\ (row'[x] = Cal!NoRow) <=> (row[x] = Cal!NoRow)
       /\ row'[x].of = row[x].of /\ row'[x].start = row[x].start /\ row'[x].end = row[x].end
       /\ row'[x].current <=> (row[x].current /\ x \notin seen)
  /\ row'[p] # Cal!NoRow /\ Cal!assertNoOverlap(p, row'[p].of, row'[p])
  /\ \/ seen = {} /\ (row'[p].current <=> row[p].current)
     \/ row'[p].current /\ seen = Cal!Current(CalKind(p))

CalTook(p) ==
  /\ \A x \in Cal!Period : row'[x] = IF x = p THEN Cal!NoRow ELSE row[x]
  /\ ~row[p].current /\ \A u \in used : u[1] # p

LEMMA CalWritesAlone ==
  ASSUME Cal!CalendarAssumption, Cal!Typed, Cal!AloneInv, NEW q \in Request,
         \/ Cal!WriteCreate(q) \/ Cal!WriteUpdate(q) \/ Cal!WriteCurrent(q) \/ Cal!WriteRemove(q)
  PROVE  /\ CalEnds(q)
         /\ \A p \in Request \ {q} : job[p] = Cal!Idle
         /\ (\E seen : CalWrote(job[q].p, seen)) \/ CalTook(job[q].p)
<1>1. CalEnds(q)
  BY CalCreates, CalUpdates, CalMarks, CalRemoves
<1>2. PICK j, p : j = job[q] /\ p = j.p
  OBVIOUS
<1>3. /\ j.at = "write" /\ p \in Cal!Period /\ Cal!Checked(j)
      /\ \A r \in Request \ {q} : job[r] = Cal!Idle
  BY <1>1, <1>2, CalAtWork DEF CalEnds
<1>4. Cal!Moves(j) => j.seen = Cal!Current(CalKind(p))
  BY <1>2, <1>3 DEF Cal!Checked, Cal!Kind, CalKind
<1>5. ~Cal!Moves(j) => j.seen = {}
  BY <1>3 DEF Cal!Checked
<1>6. ASSUME Cal!WriteCreate(q) PROVE \E seen : CalWrote(p, seen)
  <2>1. /\ CalOthers(q, j.seen) /\ j.op = "create" /\ row'[p] = j.row /\ Cal!Placed(p, j.row)
    BY <1>2, <1>6, CalCreates
  <2>2. row[p] = Cal!NoRow /\ Cal!assertNoOverlap(p, j.row.of, j.row)
    BY <1>2, <1>3, <2>1 DEF Cal!Checked, Cal!OnFile
  <2>3. row'[p] # Cal!NoRow /\ j.row.current \in BOOLEAN /\ row[p].current = FALSE
    BY <2>1, <2>2, CalFacts DEF Cal!Placed, Cal!Dated, Cal!NoRow
  <2>4. \/ j.seen = {} /\ (row'[p].current <=> row[p].current)
        \/ row'[p].current /\ j.seen = Cal!Current(CalKind(p))
    BY <1>4, <1>5, <2>1, <2>3 DEF Cal!Moves
  <2>5. Cal!assertNoOverlap(p, row'[p].of, row'[p])
    BY <2>1, <2>2
  <2>6. CalWrote(p, j.seen)
    BY <1>2, <2>1, <2>3, <2>4, <2>5 DEF CalWrote, CalOthers
  <2> QED
    BY <2>6
<1>7. ASSUME Cal!WriteUpdate(q) PROVE \E seen : CalWrote(p, seen)
  <2>1. /\ CalOthers(q, {}) /\ j.op = "update" /\ row[p] # Cal!NoRow
        /\ row'[p] = [of |-> row[p].of, start |-> j.row.start, end |-> j.row.end,
                      current |-> row[p].current]
        /\ Cal!Placed(p, j.row)
    BY <1>2, <1>7, CalUpdates
  <2>2. j.row.of = row[p].of /\ Cal!assertNoOverlap(p, j.row.of, j.row)
    BY <1>2, <1>3, <2>1 DEF Cal!Checked
  <2>3. Cal!assertNoOverlap(p, row'[p].of, row'[p])
    BY <2>1, <2>2 DEF Cal!assertNoOverlap, Cal!Meet
  <2>4. row'[p] # Cal!NoRow
    BY <2>1 DEF Cal!NoRow, Cal!Placed, Cal!Dated
  <2>5. row'[p].current = row[p].current
    BY <2>1
  <2> QED
    BY <1>2, <2>1, <2>3, <2>4, <2>5 DEF CalWrote, CalOthers
<1>8. ASSUME Cal!WriteCurrent(q) PROVE \E seen : CalWrote(p, seen)
  <2>1. /\ CalOthers(q, j.seen) /\ j.op = "current" /\ row[p] # Cal!NoRow
        /\ row'[p] = [of |-> row[p].of, start |-> row[p].start, end |-> row[p].end,
                      current |-> TRUE]
    BY <1>2, <1>8, CalMarks
  <2>2. Cal!Placed(p, row[p])
    BY <1>3, <2>1, CalFacts
  <2>3. Cal!assertNoOverlap(p, row[p].of, row[p])
    BY <1>3, <2>1 DEF Cal!AloneInv, Cal!Apart, Cal!OnFile
  <2>4. Cal!assertNoOverlap(p, row'[p].of, row'[p])
    BY <2>1, <2>3 DEF Cal!assertNoOverlap, Cal!Meet
  <2>5. row'[p] # Cal!NoRow
    BY <2>1, <2>2 DEF Cal!NoRow, Cal!Placed, Cal!Dated
  <2>6. row'[p].current /\ j.seen = Cal!Current(CalKind(p))
    BY <1>4, <2>1 DEF Cal!Moves
  <2> QED
    BY <1>2, <2>1, <2>4, <2>5, <2>6 DEF CalWrote, CalOthers
<1>9. ASSUME Cal!WriteRemove(q) PROVE CalTook(p)
  <2>1. /\ j.op = "remove"
        /\ \A x \in Cal!Period :
             row'[x] = IF x = p \/ x \in Cal!TermsOf(p) THEN Cal!NoRow ELSE row[x]
    BY <1>2, <1>9, CalRemoves
  <2>2. ~row[p].current /\ Cal!TermsOf(p) = {} /\ ~Cal!Priced(p) /\ ~Cal!Scored(p)
    BY <1>2, <1>3, <2>1 DEF Cal!Checked
  <2>3. \A u \in used : u[1] # p
    BY <2>2 DEF Cal!Priced, Cal!Scored, Cal!Typed, Cal!Uses
  <2> QED
    BY <2>1, <2>2, <2>3 DEF CalTook
<1> QED
  BY <1>1, <1>2, <1>3, <1>6, <1>7, <1>8, <1>9

LEMMA CalRowsAlone ==
  ASSUME Cal!CalendarAssumption, Cal!Typed, Cal!OneEach, Cal!Apart, NEW p \in Cal!Period,
         (\E seen : CalWrote(p, seen)) \/ CalTook(p)
  PROVE  Cal!OneEach' /\ Cal!Apart' /\ Cal!MarkerStays /\ Cal!OnlyWhatWasAsked
<1>1. ~Cal!NoRow.current
  BY DEF Cal!NoRow
<1>2. CASE CalTook(p)
  <2>1. \A x \in Cal!Period : /\ row'[x].current <=> row[x].current
                              /\ row'[x] # Cal!NoRow => x # p /\ row'[x] = row[x]
    BY <1>1, <1>2 DEF CalTook
  <2>2. Cal!OneEach'
    BY <2>1 DEF Cal!OneEach
  <2>3. Cal!Apart'
    BY <2>1 DEF Cal!Apart, Cal!OnFile, Cal!assertNoOverlap, Cal!Peers
  <2>4. Cal!MarkerStays
    BY <2>1 DEF Cal!MarkerStays, Cal!Current, Cal!Period
  <2>5. PICK S : S = {x \in Cal!Period : Cal!OnFile(x) /\ row'[x] = Cal!NoRow}
    OBVIOUS
  <2>6. S \subseteq {p} /\ \A u \in used : u[1] \notin S
    BY <1>2, <2>5 DEF CalTook, Cal!OnFile
  <2>7. Cal!Cardinality(S) <= 1
    BY <2>6, CalFew
  <2> QED
    BY <2>2, <2>3, <2>4, <2>5, <2>6, <2>7 DEF Cal!OnlyWhatWasAsked
<1>3. ASSUME NEW seen, CalWrote(p, seen)
      PROVE  Cal!OneEach' /\ Cal!Apart' /\ Cal!MarkerStays /\ Cal!OnlyWhatWasAsked
  <2>1. \A x \in Cal!Period \ {p} : /\ row'[x].current => row[x].current /\ x \notin seen
                                    /\ row[x].current /\ x \notin seen => row'[x].current
    BY <1>3 DEF CalWrote
  <2>2. Cal!OneEach'
    <3>1. CASE seen = {} /\ (row'[p].current <=> row[p].current)
      <4>1. \A x \in Cal!Period : row'[x].current => row[x].current
        BY <2>1, <3>1
      <4> QED
        BY <4>1 DEF Cal!OneEach
    <3>2. CASE row'[p].current /\ seen = Cal!Current(CalKind(p))
      <4>1. ASSUME NEW x \in Cal!Period \ {p}, row'[x].current
            PROVE  ~(x \in Session <=> p \in Session)
        BY <2>1, <3>2, <4>1 DEF Cal!Current, CalKind, Cal!Period
      <4>2. ASSUME NEW x \in Cal!Period \ {p}, NEW y \in Cal!Period \ {p}, row'[x].current,
                   row'[y].current, x \in Session <=> y \in Session
            PROVE  x = y
        BY <2>1, <4>2 DEF Cal!OneEach
      <4> QED
        BY <4>1, <4>2 DEF Cal!OneEach
    <3> QED
      BY <1>3, <3>1, <3>2 DEF CalWrote
  <2>3. Cal!Apart'
    <3>1. /\ row'[p] # Cal!NoRow
          /\ \A x \in Cal!Period \ {p} : row[x] # Cal!NoRow /\ row[x].of = row'[p].of
                                         => ~Cal!Meet(row[x], row'[p])
      BY <1>3 DEF CalWrote, Cal!assertNoOverlap, Cal!Peers, Cal!OnFile
    <3>2. \A x, y \in Cal!Period : row[x] # Cal!NoRow /\ row[y] # Cal!NoRow /\ x # y
                                   /\ row[x].of = row[y].of => ~Cal!Meet(row[y], row[x])
      BY DEF Cal!Apart, Cal!assertNoOverlap, Cal!Peers, Cal!OnFile
    <3>3. \A x \in Cal!Period \ {p} :
            /\ (row'[x] = Cal!NoRow) <=> (row[x] = Cal!NoRow)
            /\ row'[x].of = row[x].of /\ row'[x].start = row[x].start /\ row'[x].end = row[x].end
      BY <1>3 DEF CalWrote
    <3>4. ASSUME NEW x \in Cal!Period, NEW y \in Cal!Period, x # y, row'[x] # Cal!NoRow,
                 row'[y] # Cal!NoRow, row'[y].of = row'[x].of
          PROVE  ~Cal!Meet(row'[y], row'[x])
      <4>1. CASE x = p
        BY <3>1, <3>3, <3>4, <4>1 DEF Cal!Meet
      <4>2. CASE y = p
        BY <3>1, <3>3, <3>4, <4>2 DEF Cal!Meet
      <4>3. CASE x # p /\ y # p
        BY <3>2, <3>3, <3>4, <4>3 DEF Cal!Meet
      <4> QED
        BY <4>1, <4>2, <4>3
    <3> QED
      BY <3>4 DEF Cal!Apart, Cal!assertNoOverlap, Cal!Peers, Cal!OnFile
  <2>4. Cal!MarkerStays
    <3>1. CASE seen = {} /\ (row'[p].current <=> row[p].current)
      <4>1. \A x \in Cal!Period : row[x].current => row'[x].current
        BY <2>1, <3>1
      <4> QED
        BY <4>1 DEF Cal!MarkerStays, Cal!Current, Cal!Period
    <3>2. CASE row'[p].current /\ seen = Cal!Current(CalKind(p))
      <4>1. \A x \in Cal!Period \ CalKind(p) : row[x].current => row'[x].current
        BY <2>1, <3>2 DEF Cal!Current, CalKind, Cal!Period
      <4>2. p \in CalKind(p)
        BY DEF CalKind, Cal!Period
      <4>3. Session \cap Term = {}
        BY DEF Cal!CalendarAssumption
      <4> QED
        BY <3>2, <4>1, <4>2, <4>3 DEF Cal!MarkerStays, Cal!Current, CalKind, Cal!Period
    <3> QED
      BY <1>3, <3>1, <3>2 DEF CalWrote
  <2>5. Cal!OnlyWhatWasAsked
    <3>1. {x \in Cal!Period : Cal!OnFile(x) /\ row'[x] = Cal!NoRow} = {}
      BY <1>3 DEF CalWrote, Cal!OnFile
    <3>2. Cal!Cardinality({}) <= 1
      BY CalFew
    <3> QED
      BY <3>1, <3>2 DEF Cal!OnlyWhatWasAsked
  <2> QED
    BY <2>2, <2>3, <2>4, <2>5
<1> QED
  BY <1>2, <1>3

LEMMA CalAloneMoves ==
  ASSUME Cal!Typed, NEW q \in Request, NEW j, job' = [job EXCEPT ![q] = j],
         \A p \in Request \ {q} : job[p] = Cal!Idle,
         j # Cal!Idle => Cal!Checked(j)',
         Cal!OneEach', Cal!Apart'
  PROVE  Cal!AloneInv'
<1>1. job'[q] = j /\ \A p \in Request \ {q} : job'[p] = Cal!Idle
  BY DEF Cal!Typed
<1>2. ASSUME NEW p \in Request, job'[p] # Cal!Idle PROVE Cal!Checked(job[p])'
  <2>1. p = q /\ job'[p] = j
    BY <1>1, <1>2
  <2> QED
    BY <1>2, <2>1 DEF Cal!Checked, Cal!OnFile, Cal!assertNoOverlap, Cal!Peers, Cal!TermsOf,
       Cal!Priced, Cal!Scored, Cal!Moves, Cal!Current, Cal!Kind
<1> QED
  BY <1>1, <1>2 DEF Cal!AloneInv, Cal!Idle

LEMMA CalNextAlone ==
  ASSUME Cal!CalendarAssumption, ~MayOverlap, Cal!Typed, Cal!AloneInv, [Cal!Next]_(Cal!vars)
  PROVE  Cal!AloneInv' /\ ((Cal!MarkerStays /\ Cal!OnlyWhatWasAsked) \/ UNCHANGED row)
<1>1. UNCHANGED row => Cal!OneEach' /\ Cal!Apart'
  BY DEF Cal!AloneInv, Cal!OneEach, Cal!Apart, Cal!OnFile, Cal!assertNoOverlap, Cal!Peers
<1>2. ASSUME NEW q \in Request, NEW p \in Cal!Period, CalAsks(q, p)
      PROVE  Cal!AloneInv' /\ UNCHANGED row
  <2>1. PICK j : Cal!Free(q) /\ CalBegun(q, j)
    BY <1>2, CalBegins
  <2>2. \A r \in Request \ {q} : job[r] = Cal!Idle
    BY <2>1 DEF Cal!Free, Cal!Calm
  <2>3. Cal!Checked(j) /\ UNCHANGED <<row, used>> /\ job' = [job EXCEPT ![q] = j]
    BY <2>1 DEF CalBegun, Cal!AloneInv
  <2>4. Cal!Checked(j)'
    BY <2>3 DEF Cal!Checked, Cal!OnFile, Cal!assertNoOverlap, Cal!Peers, Cal!TermsOf,
       Cal!Priced, Cal!Scored, Cal!Moves, Cal!Current, Cal!Kind
  <2> QED
    BY <1>1, <2>2, <2>3, <2>4, CalAloneMoves
<1>3. ASSUME NEW q \in Request, Cal!Clear(q) PROVE Cal!AloneInv' /\ UNCHANGED row
  <2>1. PICK k, S : k = job[q] /\ S = Cal!Current(Cal!Kind(k.p, k.row.of))
    OBVIOUS
  <2>2. PICK j : j = [k EXCEPT !.at = "write", !.seen = S]
    OBVIOUS
  <2>3. job' = [job EXCEPT ![q] = j] /\ UNCHANGED <<row, used>> /\ k.at = "clear"
    BY <1>3, <2>1, <2>2 DEF Cal!Clear, Cal!Typed
  <2>4. k \in [at : {"clear", "fees", "results", "write"}, p : Cal!Period, seen : SUBSET Cal!Period,
               op : {"create", "update", "current", "remove"}, row : Cal!Dated]
    BY <2>1, <2>3, CalFacts
  <2>5. /\ j.at = "write" /\ j.op = k.op /\ j.p = k.p /\ j.row = k.row /\ j.seen = S
    BY <2>2, <2>4
  <2>6. Cal!Checked(k) /\ \A p \in Request \ {q} : job[p] = Cal!Idle
    BY <2>1, <2>3, CalAtWork, CalFacts
  <2>7. Cal!Moves(k) /\ Cal!Moves(j)
    BY <2>3, <2>5, <2>6 DEF Cal!Checked, Cal!Moves
  <2>8. Cal!Checked(j)
    <3>1. k.op # "remove"
      BY <2>7 DEF Cal!Moves
    <3> QED
      BY <2>1, <2>5, <2>6, <2>7, <3>1 DEF Cal!Checked
  <2>9. Cal!Checked(j)'
    BY <2>3, <2>8 DEF Cal!Checked, Cal!OnFile, Cal!assertNoOverlap, Cal!Peers, Cal!TermsOf,
       Cal!Priced, Cal!Scored, Cal!Moves, Cal!Current, Cal!Kind
  <2> QED
    BY <1>1, <2>3, <2>6, <2>9, CalAloneMoves
<1>4. ASSUME NEW q \in Request, Cal!Fail(q) PROVE Cal!AloneInv' /\ UNCHANGED row
  <2>1. /\ UNCHANGED <<row, used>> /\ job' = [job EXCEPT ![q] = Cal!Idle]
        /\ job[q].at = "write"
    BY <1>4 DEF Cal!Fail, Cal!Done
  <2>2. \A p \in Request \ {q} : job[p] = Cal!Idle
    BY <2>1, CalAtWork, CalFacts
  <2> QED
    BY <1>1, <2>1, <2>2, CalAloneMoves
<1>5. ASSUME NEW q \in Request,
             \/ Cal!WriteCreate(q) \/ Cal!WriteUpdate(q) \/ Cal!WriteCurrent(q)
             \/ Cal!WriteRemove(q)
      PROVE  Cal!AloneInv' /\ Cal!MarkerStays /\ Cal!OnlyWhatWasAsked
  <2>1. PICK p : p = job[q].p
    OBVIOUS
  <2>2. /\ CalEnds(q) /\ \A r \in Request \ {q} : job[r] = Cal!Idle
        /\ (\E seen : CalWrote(p, seen)) \/ CalTook(p)
    BY <1>5, <2>1, CalWritesAlone
  <2>3. p \in Cal!Period /\ job' = [job EXCEPT ![q] = Cal!Idle]
    BY <2>1, <2>2 DEF CalEnds
  <2>4. Cal!OneEach /\ Cal!Apart
    BY DEF Cal!AloneInv
  <2>5. Cal!OneEach' /\ Cal!Apart' /\ Cal!MarkerStays /\ Cal!OnlyWhatWasAsked
    BY <2>2, <2>3, <2>4, CalRowsAlone
  <2> QED
    BY <2>2, <2>3, <2>5, CalAloneMoves
<1>6. ASSUME NEW p \in Cal!Period, NEW what, Cal!Use(p, what) PROVE Cal!AloneInv' /\ UNCHANGED row
  <2>1. UNCHANGED <<row, job>> /\ \A q \in Request : job[q] = Cal!Idle
    BY <1>6 DEF Cal!Use, Cal!Calm
  <2> QED
    BY <1>1, <2>1 DEF Cal!AloneInv, Cal!Idle
<1>7. CASE UNCHANGED Cal!vars
  BY <1>1, <1>7 DEF Cal!vars, Cal!AloneInv, Cal!Checked, Cal!OnFile, Cal!assertNoOverlap,
     Cal!Peers, Cal!TermsOf, Cal!Priced, Cal!Scored, Cal!Moves, Cal!Current, Cal!Kind, Cal!Idle
<1>8. ASSUME NEW q \in Request, Cal!CountFees(q) \/ Cal!CountResults(q)
      PROVE  Cal!AloneInv' /\ UNCHANGED row
  <2>1. PICK j : CalCounted(q, j)
    BY <1>8, CalCounts
  <2>2. Cal!Checked(job[q]) /\ \A p \in Request \ {q} : job[p] = Cal!Idle
    BY <2>1, CalAtWork DEF CalCounted
  <2>3. /\ j = Cal!Idle \/ Cal!Checked(j)
        /\ UNCHANGED <<row, used>> /\ job' = [job EXCEPT ![q] = j]
    BY <2>1, <2>2 DEF CalCounted
  <2>4. j # Cal!Idle => Cal!Checked(j)'
    BY <2>3 DEF Cal!Checked, Cal!OnFile, Cal!assertNoOverlap, Cal!Peers, Cal!TermsOf,
       Cal!Priced, Cal!Scored, Cal!Moves, Cal!Current, Cal!Kind
  <2> QED
    BY <1>1, <2>2, <2>3, <2>4, CalAloneMoves
<1> QED
  BY <1>2, <1>3, <1>4, <1>5, <1>6, <1>7, <1>8 DEF Cal!Next, CalAsks

LEMMA CalInitAlone ==
  ASSUME Cal!Init
  PROVE  Cal!AloneInv
BY DEF Cal!Init, Cal!AloneInv, Cal!OneEach, Cal!Apart, Cal!OnFile, Cal!NoRow

\* What holds of one request at a time, said as the services mean it.
LEMMA CalSays ==
  ASSUME Cal!CalendarAssumption, Cal!Typed, Cal!AloneInv
  PROVE  Cal!OneCurrent /\ Cal!NoDayIsShared
<1>1. ASSUME NEW S \in {Session, Term} PROVE Cal!Cardinality(Cal!Current(S)) <= 1
  <2>1. \A p, x \in Cal!Current(S) : p = x
    BY DEF Cal!Current, Cal!AloneInv, Cal!OneEach, Cal!Period, Cal!CalendarAssumption
  <2>2. \E p : Cal!Current(S) \subseteq {p}
    BY <2>1
  <2> QED
    BY <2>2, CalFew
<1>2. ASSUME NEW p \in Cal!Period, Cal!OnFile(p), NEW x \in Cal!Peers(p, row[p].of),
             NEW d \in 1..Days
      PROVE  ~(d \in row[p].start..row[p].end /\ d \in row[x].start..row[x].end)
  <2>1. ~Cal!Meet(row[x], row[p])
    BY <1>2 DEF Cal!AloneInv, Cal!Apart, Cal!assertNoOverlap
  <2>2. Cal!Placed(p, row[p]) /\ Cal!Placed(x, row[x])
    BY <1>2 DEF Cal!Typed, Cal!Peers
  <2> QED
    BY <2>1, <2>2 DEF Cal!Meet, Cal!Placed, Cal!Dated
<1> QED
  BY <1>1, <1>2 DEF Cal!OneCurrent, Cal!NoDayIsShared

(***************************************************************************)
(* The calendar is kept.  However requests overlap, a period has days and  *)
(* a term a session on file, which is what others refer to.  One at a      *)
(* time, no two sessions or terms are current ("Exactly one session is     *)
(* current per school"), a marker once set stays, sessions and the terms   *)
(* of a session share no day, and a removal takes one period, which        *)
(* nothing refers to (AcademicSessionsService, TermsService: create,       *)
(* update, setCurrent, remove).                                            *)
(***************************************************************************)
THEOREM CalendarIsKept ==
  ASSUME Cal!CalendarAssumption
  PROVE  Cal!Spec =>
           /\ []Cal!TypeOK
           /\ ~MayOverlap => [](Cal!OneCurrent /\ Cal!NoDayIsShared)
           /\ ~MayOverlap => [][Cal!MarkerStays /\ Cal!OnlyWhatWasAsked]_(Cal!vars)
<1>1. Cal!Typed => Cal!TypeOK
  <2>1. ASSUME Cal!Typed, NEW p \in Cal!Period, Cal!OnFile(p)
        PROVE  0 < row[p].start /\ row[p].start < row[p].end
    BY <2>1 DEF Cal!Typed, Cal!Placed, Cal!Dated, Cal!CalendarAssumption
  <2>2. ASSUME Cal!Typed, NEW t \in Term, Cal!OnFile(t)
        PROVE  row[t].of \in Session /\ Cal!OnFile(row[t].of)
    BY <2>2 DEF Cal!Typed, Cal!Placed, Cal!Period
  <2>3. Cal!Typed => \A u \in used : u \in Cal!Uses /\ Cal!OnFile(u[1])
    BY DEF Cal!Typed
  <2> QED
    BY <2>1, <2>2, <2>3 DEF Cal!TypeOK
<1>2. ASSUME ~MayOverlap
      PROVE  Cal!Spec => /\ [](Cal!OneCurrent /\ Cal!NoDayIsShared)
                         /\ [][Cal!MarkerStays /\ Cal!OnlyWhatWasAsked]_(Cal!vars)
  <2>1. Cal!Init => Cal!Typed /\ Cal!AloneInv
    BY CalInitTyped, CalInitAlone
  <2>2. Cal!Typed /\ Cal!AloneInv /\ [Cal!Next]_(Cal!vars) => (Cal!Typed /\ Cal!AloneInv)'
    BY <1>2, CalNextTyped, CalNextAlone
  <2>3. Cal!Typed /\ Cal!AloneInv => Cal!OneCurrent /\ Cal!NoDayIsShared
    BY CalSays
  <2>4. Cal!Typed /\ Cal!AloneInv /\ [Cal!Next]_(Cal!vars)
        => [Cal!MarkerStays /\ Cal!OnlyWhatWasAsked]_(Cal!vars)
    <3>1. UNCHANGED row => Cal!MarkerStays /\ Cal!OnlyWhatWasAsked
      <4>1. ASSUME UNCHANGED row
            PROVE  {x \in Cal!Period : Cal!OnFile(x) /\ row'[x] = Cal!NoRow} = {}
        BY <4>1 DEF Cal!OnFile
      <4>2. Cal!Cardinality({}) <= 1
        BY CalFew
      <4> QED
        BY <4>1, <4>2 DEF Cal!MarkerStays, Cal!OnlyWhatWasAsked, Cal!Current
    <3> QED
      BY <1>2, <3>1, CalNextAlone
  <2> QED
    BY <2>1, <2>2, <2>3, <2>4, PTL DEF Cal!Spec
<1>3. Cal!Spec => []Cal!TypeOK
  BY <1>1, CalTyped, PTL
<1> QED
  BY <1>2, <1>3

-----------------------------------------------------------------------------
(* Guardians and their logins. *)

CONSTANTS Guardian, User, Invoice
VARIABLES guardian, links, member, invited, enabled, cut

Kin == INSTANCE Guardians

GuardianRow == [email : User \cup {None}, user : User \cup {None}, onFile : BOOLEAN]

\* At most one is at most one there.
LEMMA KinFew == ASSUME NEW S, NEW p, S \subseteq {p} PROVE Kin!Cardinality(S) <= 1
<1>1. S = {} \/ S = {p}
  OBVIOUS
<1>2. Kin!Cardinality(S) = Cardinality(S)
  BY DEF Cardinality, Kin!Cardinality, IsFiniteSet, Kin!IsFiniteSet
<1>3. Cardinality({}) = 0 /\ Cardinality({p}) = 1
  BY FS_EmptySet, FS_Singleton
<1> QED
  BY <1>1, <1>2, <1>3

LEMMA KinFacts ==
  ASSUME Kin!Typed, NEW q \in Request
  PROVE  /\ job[q].at \in {"remove", "link", "update", "attach", "detach"} =>
              job[q] # Kin!Idle /\ job[q].g \in Guardian
         /\ job[q].at \in {"attach", "detach"} => job[q].user \in User
         /\ job[q].at \in {"link", "update"} =>
              /\ job[q].s \in Student /\ job[q].primary \in BOOLEAN
              /\ \A k \in job[q].seen : k.student = job[q].s /\ k.guardian # job[q].g
BY DEF Kin!Typed, Kin!JobOK, Kin!Idle

LEMMA KinMoves ==
  ASSUME Kin!Typed, NEW q \in Request, NEW j, job' = [job EXCEPT ![q] = j], Kin!JobOK(j)
  PROVE  job' = [p \in Request |-> job'[p]] /\ \A p \in Request : Kin!JobOK(job'[p])
<1>1. job' = [p \in Request |-> job'[p]] /\ \A p \in Request : job'[p] = job[p] \/ job'[p] = j
  BY DEF Kin!Typed
<1> QED
  BY <1>1 DEF Kin!Typed

\* The tables after a step, one by one.
LEMMA KinTables ==
  ASSUME Kin!Typed,
         job' = job \/ (\E q \in Request : \E j : job' = [job EXCEPT ![q] = j] /\ Kin!JobOK(j)),
         guardian' \in [Guardian -> GuardianRow],
         \A g \in Guardian : ~guardian'[g].onFile => guardian'[g] = Kin!NoRow,
         \A g, h \in Guardian :
           guardian'[g].email = guardian'[h].email => g = h \/ guardian'[g].email = None,
         links' \subseteq Kin!LinkRow,
         \A k \in links' : guardian'[k.guardian].onFile,
         \A k, l \in links' : k.student = l.student /\ k.guardian = l.guardian => k = l,
         member' = [u \in User |-> member'[u]], cut' \subseteq User
  PROVE  Kin!Typed'
<1>1. job' = [p \in Request |-> job'[p]] /\ \A p \in Request : Kin!JobOK(job'[p])
  <2>1. CASE job' = job
    BY <2>1 DEF Kin!Typed
  <2>2. CASE \E q \in Request : \E j : job' = [job EXCEPT ![q] = j] /\ Kin!JobOK(j)
    BY <2>2, KinMoves
  <2> QED
    BY <2>1, <2>2
<1>2. \A p \in Request : Kin!JobOK(job[p])'
  BY <1>1 DEF Kin!JobOK, Kin!LinkRow
<1>3. Kin!TypeOK'
  <2>1. \A g \in Guardian : guardian'[g].user \in User \cup {None}
    BY DEF GuardianRow
  <2>2. \A k \in links' : k.student \in Student
    BY DEF Kin!LinkRow
  <2> QED
    BY <2>1, <2>2 DEF Kin!TypeOK, Kin!OnFile
<1> QED
  BY <1>1, <1>2, <1>3 DEF Kin!Typed, Kin!OnFile, GuardianRow, Kin!LinkRow, Kin!NoRow

LEMMA KinIs ==
  ASSUME Kin!Typed
  PROVE  /\ guardian \in [Guardian -> GuardianRow]
         /\ \A g \in Guardian : ~guardian[g].onFile => guardian[g] = Kin!NoRow
         /\ \A g, h \in Guardian :
              guardian[g].email = guardian[h].email => g = h \/ guardian[g].email = None
         /\ links \subseteq Kin!LinkRow
         /\ \A k \in links : guardian[k.guardian].onFile
         /\ \A k, l \in links : k.student = l.student /\ k.guardian = l.guardian => k = l
         /\ member = [u \in User |-> member[u]] /\ cut \subseteq User
BY DEF Kin!Typed, Kin!TypeOK, Kin!OnFile, GuardianRow

\* One row of a guardian is written, and who goes has no links.
LEMMA KinRowTyped ==
  ASSUME Kin!Typed, NEW g \in Guardian, NEW r \in GuardianRow, guardian' = [guardian EXCEPT ![g] = r],
         r.onFile \/ (r = Kin!NoRow /\ \A k \in links' : k.guardian # g),
         r.email \in {None, guardian[g].email} \/ Kin!HasEmail(r.email) = {},
         links' \subseteq links, UNCHANGED member, cut' \subseteq User,
         job' = job \/ (\E q \in Request : \E j : job' = [job EXCEPT ![q] = j] /\ Kin!JobOK(j))
  PROVE  Kin!Typed'
<1>1. /\ guardian' \in [Guardian -> GuardianRow] /\ guardian'[g] = r
      /\ \A h \in Guardian \ {g} : guardian'[h] = guardian[h]
  BY KinIs
<1>2. \A h \in Guardian : ~guardian'[h].onFile => guardian'[h] = Kin!NoRow
  BY <1>1, KinIs
<1>3. ASSUME NEW h \in Guardian, NEW i \in Guardian, guardian'[h].email = guardian'[i].email
      PROVE  h = i \/ guardian'[h].email = None
  BY <1>1, <1>3, KinIs DEF Kin!HasEmail
<1>4. \A k \in links' : guardian'[k.guardian].onFile
  BY <1>1, KinIs DEF Kin!LinkRow
<1>5. /\ links' \subseteq Kin!LinkRow /\ member' = [u \in User |-> member'[u]]
      /\ \A k, l \in links' : k.student = l.student /\ k.guardian = l.guardian => k = l
  BY KinIs
<1> QED
  BY <1>1, <1>2, <1>3, <1>4, <1>5, KinTables

\* What a link that is written leaves: others of the student may be demoted.
KinDemoted(j) == {k \in links : [k EXCEPT !.primary = TRUE] \in j.seen}

KinNew(j) == [student |-> j.s, guardian |-> j.g, primary |-> j.primary]

KinWas(j, k, m) ==
  /\ ~(m.student = j.s /\ m.guardian = j.g)
  /\ k.student = m.student /\ k.guardian = m.guardian
  /\ IF m \in KinDemoted(j) THEN k = [m EXCEPT !.primary = FALSE] ELSE k = m

LEMMA KinLinks ==
  ASSUME Kin!Typed, NEW q \in Request, Kin!WriteLink(q)
  PROVE  /\ \A k \in links' : k = KinNew(job[q]) \/ \E m \in links : KinWas(job[q], k, m)
         /\ links' \subseteq Kin!LinkRow
         /\ \A k \in links' : guardian[k.guardian].onFile
         /\ \A k, l \in links' : k.student = l.student /\ k.guardian = l.guardian => k = l
<1>1. PICK j : j = job[q]
  OBVIOUS
<1>2. PICK own, demoted, new :
        /\ own = {k \in links : k.student = j.s /\ k.guardian = j.g}
        /\ demoted = {k \in links : [k EXCEPT !.primary = TRUE] \in j.seen}
        /\ new = [student |-> j.s, guardian |-> j.g, primary |-> j.primary]
  OBVIOUS
<1>3. /\ j.at \in {"link", "update"} /\ guardian[j.g].onFile
      /\ links' = ((links \ own) \ demoted) \cup {[k EXCEPT !.primary = FALSE] : k \in demoted}
                    \cup {new}
  BY <1>1, <1>2 DEF Kin!WriteLink, Kin!OnFile
<1>4. j.s \in Student /\ j.g \in Guardian /\ new \in Kin!LinkRow
  BY <1>1, <1>2, <1>3, KinFacts DEF Kin!LinkRow
<1>5. \A k \in demoted : k \in links /\ k.guardian # j.g
  <2>1. ASSUME NEW k \in demoted PROVE k \in links /\ k.guardian # j.g
    <3>1. k \in links /\ k \in Kin!LinkRow /\ [k EXCEPT !.primary = TRUE] \in j.seen
      BY <1>2, KinIs
    <3>2. [k EXCEPT !.primary = TRUE].guardian = k.guardian
      BY <3>1 DEF Kin!LinkRow
    <3> QED
      BY <1>1, <1>3, <3>1, <3>2, KinFacts
  <2> QED
    BY <2>1
\* Every link is the new one, or one there was with the primary it has now.
<1>6. ASSUME NEW k \in links'
      PROVE  /\ k \in Kin!LinkRow
             /\ \/ k = new
                \/ \E m \in links : /\ m \notin own
                                    /\ k.student = m.student /\ k.guardian = m.guardian
                                    /\ IF m \in demoted THEN k = [m EXCEPT !.primary = FALSE]
                                                        ELSE k = m
  <2>1. CASE k = new
    BY <1>4, <2>1
  <2>2. CASE k \in (links \ own) \ demoted
    BY <2>2, KinIs
  <2>3. ASSUME NEW m \in demoted, k = [m EXCEPT !.primary = FALSE]
        PROVE  k \in Kin!LinkRow /\ k.student = m.student /\ k.guardian = m.guardian
               /\ m \in links /\ m \notin own
    <3>1. m \in Kin!LinkRow /\ m \in links /\ m \notin own
      BY <1>2, <1>5, <2>3, KinIs
    <3> QED
      BY <2>3, <3>1 DEF Kin!LinkRow
  <2> QED
    BY <1>3, <2>1, <2>2, <2>3
<1>7. new.student = j.s /\ new.guardian = j.g
  BY <1>2
<1>8. ASSUME NEW k \in links' PROVE guardian[k.guardian].onFile
  <2>1. CASE k = new
    BY <1>3, <1>7, <2>1
  <2>2. ASSUME NEW m \in links, k.guardian = m.guardian PROVE guardian[k.guardian].onFile
    BY <2>2, KinIs
  <2> QED
    BY <1>6, <2>1, <2>2
<1>9. ASSUME NEW k \in links', NEW l \in links', k.student = l.student, k.guardian = l.guardian
      PROVE  k = l
  <2>1. \A m \in links : m \notin own => ~(m.student = j.s /\ m.guardian = j.g)
    BY <1>2
  <2>2. CASE k = new \/ l = new
    BY <1>6, <1>7, <1>9, <2>1, <2>2
  <2>3. CASE k # new /\ l # new
    <3>1. PICK m \in links : /\ k.student = m.student /\ k.guardian = m.guardian
                             /\ k = IF m \in demoted THEN [m EXCEPT !.primary = FALSE] ELSE m
      BY <1>6, <2>3
    <3>2. PICK n \in links : /\ l.student = n.student /\ l.guardian = n.guardian
                             /\ l = IF n \in demoted THEN [n EXCEPT !.primary = FALSE] ELSE n
      BY <1>6, <2>3
    <3>3. m = n
      BY <1>9, <3>1, <3>2, KinIs
    <3> QED
      BY <3>1, <3>2, <3>3
  <2> QED
    BY <2>2, <2>3
<1>10. ASSUME NEW k \in links' PROVE k = KinNew(j) \/ \E m \in links : KinWas(j, k, m)
  <2>1. new = KinNew(j) /\ demoted = KinDemoted(j)
    BY <1>2 DEF KinNew, KinDemoted
  <2>2. CASE k = new
    BY <2>1, <2>2
  <2>3. ASSUME NEW m \in links, m \notin own, k.student = m.student, k.guardian = m.guardian,
               IF m \in demoted THEN k = [m EXCEPT !.primary = FALSE] ELSE k = m
        PROVE  KinWas(j, k, m)
    BY <1>2, <2>1, <2>3 DEF KinWas
  <2> QED
    BY <1>6, <2>2, <2>3
<1> QED
  BY <1>1, <1>6, <1>8, <1>9, <1>10

KinAsks(q) ==
  \/ \E g \in Guardian : Kin!Remove(q, g) \/ Kin!Invite(q, g) \/ Kin!Revoke(q, g)
  \/ \E g \in Guardian, s \in Student, op \in {"link", "update"}, p \in BOOLEAN :
       Kin!Link(q, s, g, op, p)

\* A request takes what it asked for in hand, having checked it.
KinBegun(q, j) ==
  /\ job' = [job EXCEPT ![q] = j] /\ Kin!JobOK(j) /\ Kin!Checked(j)
  /\ UNCHANGED <<guardian, links, cut>> /\ member' = [u \in User |-> member'[u]]

LEMMA KinBegins ==
  ASSUME Kin!Typed, NEW q \in Request, KinAsks(q)
  PROVE  Kin!Free(q) /\ \E j : KinBegun(q, j)
<1>1. ASSUME NEW g \in Guardian, Kin!Remove(q, g) PROVE Kin!Free(q) /\ \E j : KinBegun(q, j)
  <2>1. PICK j : j = [at |-> "remove", g |-> g]
    OBVIOUS
  <2>2. Kin!JobOK(j)
    BY <2>1 DEF Kin!JobOK
  <2>3. Kin!Checked(j)
    BY <1>1, <2>1 DEF Kin!Checked, Kin!Remove
  <2> QED
    BY <1>1, <2>1, <2>2, <2>3, KinIs DEF Kin!Remove, Kin!Take, KinBegun
<1>2. ASSUME NEW g \in Guardian, Kin!Invite(q, g) PROVE Kin!Free(q) /\ \E j : KinBegun(q, j)
  <2>1. PICK u : u = guardian[g].email
    OBVIOUS
  <2>2. PICK j : j = [at |-> "attach", g |-> g, user |-> u]
    OBVIOUS
  <2>3. /\ Kin!Free(q) /\ Kin!OnFile(g) /\ u # None /\ Kin!NoOther(u, g)
        /\ member' = Kin!Invited(u) /\ job' = [job EXCEPT ![q] = j]
        /\ UNCHANGED <<guardian, links, cut>>
    BY <1>2, <2>1, <2>2 DEF Kin!Invite, Kin!Take
  <2>4. u \in User
    BY <2>1, <2>3, KinIs DEF GuardianRow
  <2>5. Kin!JobOK(j)
    BY <2>2, <2>4 DEF Kin!JobOK
  <2>6. Kin!Checked(j)
    BY <2>2, <2>3 DEF Kin!Checked
  <2>7. member' = [x \in User |-> member'[x]]
    BY <2>3, KinIs DEF Kin!Invited
  <2> QED
    BY <2>3, <2>5, <2>6, <2>7 DEF KinBegun
<1>3. ASSUME NEW g \in Guardian, Kin!Revoke(q, g) PROVE Kin!Free(q) /\ \E j : KinBegun(q, j)
  <2>1. PICK u : u = guardian[g].user
    OBVIOUS
  <2>2. PICK j : j = [at |-> "detach", g |-> g, user |-> u]
    OBVIOUS
  <2>3. /\ Kin!Free(q) /\ u # None /\ job' = [job EXCEPT ![q] = j]
        /\ member' = IF Kin!Ends(u) THEN [member EXCEPT ![u].status = "REVOKED"] ELSE member
        /\ UNCHANGED <<guardian, links, cut>>
    BY <1>3, <2>1, <2>2 DEF Kin!Revoke, Kin!Take
  <2>4. u \in User
    BY <2>1, <2>3, KinIs DEF GuardianRow
  <2>5. Kin!JobOK(j)
    BY <2>2, <2>4 DEF Kin!JobOK
  <2>6. Kin!Checked(j)
    BY <2>1, <2>2 DEF Kin!Checked
  <2>7. member' = [x \in User |-> member'[x]]
    BY <2>3, KinIs
  <2> QED
    BY <2>3, <2>5, <2>6, <2>7 DEF KinBegun
<1>4. ASSUME NEW g \in Guardian, NEW s \in Student, NEW op \in {"link", "update"},
             NEW p \in BOOLEAN, Kin!Link(q, s, g, op, p)
      PROVE  Kin!Free(q) /\ \E j : KinBegun(q, j)
  <2>1. PICK S : S = IF p THEN Kin!demoteOtherPrimaries(s, g) ELSE {}
    OBVIOUS
  <2>2. PICK j : j = [at |-> op, s |-> s, g |-> g, primary |-> p, seen |-> S]
    OBVIOUS
  <2>3. S \in SUBSET Kin!LinkRow /\ \A k \in S : k.student = s /\ k.guardian # g
    BY <2>1, KinIs DEF Kin!demoteOtherPrimaries
  <2>4. Kin!JobOK(j)
    BY <2>2, <2>3 DEF Kin!JobOK
  <2>5. Kin!Checked(j)
    BY <2>1, <2>2 DEF Kin!Checked
  <2> QED
    BY <1>4, <2>1, <2>2, <2>4, <2>5, KinIs DEF Kin!Link, Kin!Take, KinBegun
<1> QED
  BY <1>1, <1>2, <1>3, <1>4 DEF KinAsks

LEMMA KinNextTyped ==
  ASSUME Kin!Typed, [Kin!Next]_(Kin!vars)
  PROVE  Kin!Typed'
<1>1. Kin!JobOK(Kin!Idle)
  BY DEF Kin!JobOK
<1>2. ASSUME UNCHANGED guardian, links' \subseteq links, member' = [u \in User |-> member'[u]],
             cut' \subseteq User,
             job' = job \/ (\E q \in Request : \E j : job' = [job EXCEPT ![q] = j] /\ Kin!JobOK(j))
      PROVE  Kin!Typed'
  BY <1>2, KinIs, KinTables
<1>3. ASSUME NEW q \in Request, KinAsks(q) PROVE Kin!Typed'
  <2>1. PICK j : KinBegun(q, j)
    BY <1>3, KinBegins
  <2>2. /\ UNCHANGED <<guardian, links, cut>> /\ member' = [u \in User |-> member'[u]]
        /\ job' = [job EXCEPT ![q] = j] /\ Kin!JobOK(j)
    BY <2>1 DEF KinBegun
  <2>3. cut' \subseteq User
    BY <2>2, KinIs
  <2> QED
    BY <1>2, <2>2, <2>3
<1>4. ASSUME NEW g \in Guardian, NEW e \in User \cup {None},
             Kin!CreateGuardian(g, e) \/ Kin!UpdateGuardian(g, e)
      PROVE  Kin!Typed'
  <2>1. guardian[g] \in GuardianRow
    BY KinIs
  <2>2. PICK r : /\ guardian' = [guardian EXCEPT ![g] = r] /\ r.email = e /\ r.onFile
                 /\ r \in GuardianRow
    <3>1. CASE Kin!CreateGuardian(g, e)
      <4>1. [email |-> e, user |-> None, onFile |-> TRUE] \in GuardianRow
        BY DEF GuardianRow
      <4> QED
        BY <3>1, <4>1 DEF Kin!CreateGuardian
    <3>2. CASE Kin!UpdateGuardian(g, e)
      <4>1. PICK r : r = [guardian[g] EXCEPT !.email = e]
        OBVIOUS
      <4>2. r \in GuardianRow /\ r.email = e /\ r.onFile
        BY <2>1, <3>2, <4>1 DEF GuardianRow, Kin!UpdateGuardian, Kin!OnFile
      <4>3. guardian' = [guardian EXCEPT ![g] = r]
        BY <3>2, <4>1 DEF Kin!UpdateGuardian
      <4> QED
        BY <4>2, <4>3
    <3> QED
      BY <1>4, <3>1, <3>2
  <2>3. /\ e = None \/ Kin!HasEmail(e) = {}
        /\ UNCHANGED <<links, member, cut, job>>
    BY <1>4 DEF Kin!CreateGuardian, Kin!UpdateGuardian
  <2>4. cut' \subseteq User
    BY <2>3, KinIs
  <2> QED
    BY <2>2, <2>3, <2>4, KinRowTyped
<1>5. ASSUME NEW q \in Request, Kin!Delete(q) PROVE Kin!Typed'
  <2>1. PICK g \in Guardian : g = job[q].g
    BY <1>5, KinFacts DEF Kin!Delete
  <2>2. /\ guardian' = [guardian EXCEPT ![g] = Kin!NoRow] /\ links' = links \ Kin!LinksOf(g)
        /\ job' = [job EXCEPT ![q] = Kin!Idle] /\ UNCHANGED <<member, cut>>
    BY <1>5, <2>1 DEF Kin!Delete, Kin!Done, Kin!Take
  <2>3. Kin!NoRow \in GuardianRow /\ Kin!NoRow.email = None
    BY DEF Kin!NoRow, GuardianRow
  <2>4. \A k \in links' : k.guardian # g
    BY <2>2 DEF Kin!LinksOf
  <2>5. cut' \subseteq User
    BY <2>2, KinIs
  <2> QED
    BY <1>1, <2>2, <2>3, <2>4, <2>5, KinRowTyped
<1>6. ASSUME NEW q \in Request, Kin!WriteLink(q) PROVE Kin!Typed'
  <2>1. UNCHANGED <<guardian, member, cut>> /\ job' = [job EXCEPT ![q] = Kin!Idle]
    BY <1>6 DEF Kin!WriteLink, Kin!Done, Kin!Take
  <2>2. /\ links' \subseteq Kin!LinkRow
        /\ \A k \in links' : guardian[k.guardian].onFile
        /\ \A k, l \in links' : k.student = l.student /\ k.guardian = l.guardian => k = l
    BY <1>6, KinLinks
  <2> QED
    BY <1>1, <2>1, <2>2, KinIs, KinTables
<1>7. ASSUME NEW q \in Request, NEW g \in Guardian, NEW u \in User \cup {None},
             guardian' = [guardian EXCEPT ![g].user = u], u = guardian[g].user \/ Kin!OnFile(g) \/ u = None,
             UNCHANGED <<links, member>>, cut' \subseteq User, job' = [job EXCEPT ![q] = Kin!Idle]
      PROVE  Kin!Typed'
  <2>1. guardian[g] \in GuardianRow
    BY KinIs
  <2>2. PICK r : r = [guardian[g] EXCEPT !.user = u]
    OBVIOUS
  <2>3. r = [email |-> guardian[g].email, user |-> u, onFile |-> guardian[g].onFile]
    BY <2>1, <2>2 DEF GuardianRow
  <2>4. r \in GuardianRow /\ guardian' = [guardian EXCEPT ![g] = r]
    BY <1>7, <2>1, <2>2, <2>3 DEF GuardianRow
  <2>5. r.onFile \/ (r = Kin!NoRow /\ \A k \in links' : k.guardian # g)
    <3>1. CASE guardian[g].onFile
      BY <2>3, <3>1
    <3>2. CASE ~guardian[g].onFile
      <4>1. guardian[g] = Kin!NoRow /\ \A k \in links : k.guardian # g
        BY <3>2, KinIs
      <4>2. u = None
        BY <1>7, <3>2, <4>1 DEF Kin!OnFile, Kin!NoRow
      <4> QED
        BY <1>7, <2>3, <4>1, <4>2 DEF Kin!NoRow
    <3> QED
      BY <3>1, <3>2
  <2> QED
    BY <1>1, <1>7, <2>3, <2>4, <2>5, KinRowTyped
<1>8. ASSUME NEW q \in Request, Kin!Attach(q) PROVE Kin!Typed'
  <2>1. PICK g \in Guardian, w \in User : g = job[q].g /\ w = job[q].user
    BY <1>8, KinFacts DEF Kin!Attach
  <2>2. PICK u : u = IF Kin!OnFile(g) THEN w ELSE guardian[g].user
    OBVIOUS
  <2>3. u \in User \cup {None} /\ (u = guardian[g].user \/ Kin!OnFile(g))
    BY <2>2, KinIs DEF GuardianRow
  <2>4. /\ guardian' = [guardian EXCEPT ![g].user = u] /\ UNCHANGED <<links, member>>
        /\ job' = [job EXCEPT ![q] = Kin!Idle] /\ cut' \subseteq cut
    BY <1>8, <2>1, <2>2 DEF Kin!Attach, Kin!Done, Kin!Take
  <2>5. cut' \subseteq User
    BY <2>4, KinIs
  <2> QED
    BY <1>7, <2>3, <2>4, <2>5
<1>9. ASSUME NEW q \in Request, Kin!Detach(q) PROVE Kin!Typed'
  <2>1. PICK g \in Guardian, w \in User : g = job[q].g /\ w = job[q].user
    BY <1>9, KinFacts DEF Kin!Detach
  <2>2. /\ guardian' = [guardian EXCEPT ![g].user = None] /\ UNCHANGED <<links, member>>
        /\ job' = [job EXCEPT ![q] = Kin!Idle] /\ cut' = cut \cup {w}
    BY <1>9, <2>1 DEF Kin!Detach, Kin!Done, Kin!Take
  <2>3. cut' \subseteq User
    BY <2>1, <2>2, KinIs
  <2> QED
    BY <1>7, <2>2, <2>3
<1>10. ASSUME NEW u \in User, Kin!Accept(u) \/ Kin!Staff(u) PROVE Kin!Typed'
  <2>1. UNCHANGED <<guardian, links, cut, job>>
    BY <1>10 DEF Kin!Accept, Kin!Staff
  <2>2. member' = [x \in User |-> member'[x]]
    BY <1>10, KinIs DEF Kin!Accept, Kin!Staff
  <2> QED
    BY <1>2, <2>1, <2>2, KinIs
<1>11. ASSUME NEW k \in links, Kin!Unlink(k) PROVE Kin!Typed'
  BY <1>2, <1>11, KinIs DEF Kin!Unlink
<1>12. ASSUME NEW q \in Request, Kin!LinkFails(q) PROVE Kin!Typed'
  BY <1>1, <1>2, <1>12, KinIs DEF Kin!LinkFails, Kin!Done, Kin!Take
<1>13. CASE Kin!Switch
  BY <1>2, <1>13, KinIs DEF Kin!Switch
<1>14. CASE UNCHANGED Kin!vars
  BY <1>2, <1>14, KinIs DEF Kin!vars
<1> QED
  BY <1>3, <1>4, <1>5, <1>6, <1>8, <1>9, <1>10, <1>11, <1>12, <1>13, <1>14 DEF Kin!Next, KinAsks

LEMMA KinInitTyped ==
  ASSUME Kin!Init
  PROVE  Kin!Typed
BY DEF Kin!Init, Kin!Typed, Kin!TypeOK, Kin!OnFile, Kin!NoRow, Kin!JobOK

LEMMA KinTyped == Kin!Spec => []Kin!Typed
<1>1. Kin!Init => Kin!Typed
  BY KinInitTyped
<1>2. Kin!Typed /\ [Kin!Next]_(Kin!vars) => Kin!Typed'
  BY KinNextTyped
<1> QED
  BY <1>1, <1>2, PTL DEF Kin!Spec

\* Whoever goes from the staff does so by no step of a guardian's request.
LEMMA KinSparesStaff ==
  ASSUME Kin!Typed, [Kin!Next]_(Kin!vars)
  PROVE  Kin!StaffKeepTheirLogin
<1>1. SUFFICES ASSUME job' # job, NEW u \in User, member[u].role = "staff", Kin!Active(u)
               PROVE  member'[u] = member[u]
  BY DEF Kin!StaffKeepTheirLogin
<1>2. ASSUME NEW q \in Request, NEW g \in Guardian, Kin!Invite(q, g) PROVE member'[u] = member[u]
  <2>1. PICK w : w = guardian[g].email
    OBVIOUS
  <2>2. member' = Kin!Invited(w)
    BY <1>2, <2>1 DEF Kin!Invite
  <2>3. CASE Kin!Active(w)
    BY <2>2, <2>3 DEF Kin!Invited
  <2>4. CASE ~Kin!Active(w)
    <3>1. w # u
      BY <1>1, <2>4
    <3> QED
      BY <2>2, <2>4, <3>1, KinIs DEF Kin!Invited
  <2> QED
    BY <2>3, <2>4
<1>3. ASSUME NEW q \in Request, NEW g \in Guardian, Kin!Revoke(q, g) PROVE member'[u] = member[u]
  <2>1. PICK w : w = guardian[g].user
    OBVIOUS
  <2>2. member' = IF Kin!Ends(w) THEN [member EXCEPT ![w].status = "REVOKED"] ELSE member
    BY <1>3, <2>1 DEF Kin!Revoke
  <2>3. w = u => ~Kin!Ends(w)
    BY <1>1 DEF Kin!Ends
  <2> QED
    BY <2>2, <2>3, KinIs
<1>4. member' = member \/ job' = job
      \/ \E q \in Request, g \in Guardian : Kin!Invite(q, g) \/ Kin!Revoke(q, g)
  BY DEF Kin!Next, Kin!vars, Kin!CreateGuardian, Kin!UpdateGuardian, Kin!Remove, Kin!Delete, Kin!Link,
     Kin!LinkFails, Kin!WriteLink, Kin!Unlink, Kin!Attach, Kin!Accept, Kin!Detach, Kin!Staff,
     Kin!Switch
<1> QED
  BY <1>1, <1>2, <1>3, <1>4

-----------------------------------------------------------------------------
(* Guardians, one request at a time. *)

LEMMA KinAtWork ==
  ASSUME Kin!AloneInv, NEW q \in Request, job[q] # Kin!Idle
  PROVE  Kin!Checked(job[q]) /\ \A p \in Request \ {q} : job[p] = Kin!Idle
BY DEF Kin!AloneInv

LEMMA KinAloneMoves ==
  ASSUME Kin!Typed, NEW q \in Request, NEW j, job' = [job EXCEPT ![q] = j],
         \A p \in Request \ {q} : job[p] = Kin!Idle,
         Kin!Checked(j)', Kin!OnePrimary', Kin!OneLogin', Kin!CutOut'
  PROVE  Kin!AloneInv'
<1>1. job'[q] = j /\ \A p \in Request \ {q} : job'[p] = Kin!Idle
  BY DEF Kin!Typed
<1>2. ASSUME NEW p \in Request PROVE Kin!Checked(job[p])'
  <2>1. CASE p = q
    BY <1>1, <2>1 DEF Kin!Checked, Kin!LinksOf, Kin!demoteOtherPrimaries, Kin!OnFile, Kin!NoOther,
       Kin!SignsIn
  <2>2. CASE p # q
    <3>1. job'[p].at = "none"
      BY <1>1, <2>2 DEF Kin!Idle
    <3> QED
      BY <3>1 DEF Kin!Checked
  <2> QED
    BY <2>1, <2>2
<1> QED
  BY <1>1, <1>2 DEF Kin!AloneInv, Kin!Idle

\* A step on which nobody is given a login.
LEMMA KinLoginsStay ==
  ASSUME Kin!GuardiansAssumption, Kin!Typed, Kin!OneLogin, Kin!CutOut, UNCHANGED cut,
         \A g \in Guardian : guardian'[g].user \in {guardian[g].user, None}
  PROVE  Kin!OneLogin' /\ Kin!CutOut'
<1>1. Kin!OneLogin'
  BY DEF Kin!OneLogin
<1>2. \A u \in cut : u # None
  BY KinIs DEF Kin!GuardiansAssumption
<1>3. Kin!CutOut'
  BY <1>2 DEF Kin!CutOut, Kin!SignsIn
<1> QED
  BY <1>1, <1>3

LEMMA KinLoginMoves ==
  ASSUME Kin!Typed, NEW g \in Guardian, NEW u, guardian' = [guardian EXCEPT ![g].user = u]
  PROVE  /\ guardian'[g].user = u /\ guardian'[g].onFile = guardian[g].onFile
         /\ \A h \in Guardian \ {g} : guardian'[h] = guardian[h]
BY KinIs DEF GuardianRow

LEMMA KinLinkAlone ==
  ASSUME Kin!Typed, Kin!OnePrimary, NEW q \in Request, Kin!WriteLink(q), Kin!Checked(job[q])
  PROVE  Kin!OnePrimary'
<1>1. PICK j : j = job[q]
  OBVIOUS
<1>2. PICK new : new = KinNew(j)
  OBVIOUS
<1>3. /\ j.at \in {"link", "update"} /\ new.student = j.s /\ new.primary = j.primary
      /\ j.seen = IF j.primary THEN Kin!demoteOtherPrimaries(j.s, j.g) ELSE {}
  BY <1>1, <1>2 DEF Kin!WriteLink, Kin!Checked, KinNew
<1>4. ASSUME NEW k, NEW m \in links, KinWas(j, k, m), k.primary
      PROVE  k = m /\ ~(k.student = j.s /\ j.primary)
  <2>1. m \in Kin!LinkRow
    BY KinIs
  <2>2. m \notin KinDemoted(j)
    BY <1>4, <2>1 DEF KinWas, Kin!LinkRow
  <2>3. k = m
    BY <1>4, <2>2 DEF KinWas
  <2>4. ASSUME k.student = j.s, j.primary PROVE FALSE
    <3>1. m.guardian # j.g /\ m.student = j.s /\ m.primary
      BY <1>4, <2>3, <2>4 DEF KinWas
    <3>2. m \in j.seen
      BY <1>3, <2>4, <3>1 DEF Kin!demoteOtherPrimaries
    <3>3. m.primary = TRUE
      BY <2>1, <3>1 DEF Kin!LinkRow
    <3>4. [m EXCEPT !.primary = TRUE] = m
      BY <2>1, <3>3 DEF Kin!LinkRow
    <3> QED
      BY <2>2, <3>2, <3>4 DEF KinDemoted
  <2> QED
    BY <2>3, <2>4
<1>5. ASSUME NEW k \in links', NEW l \in links', k.student = l.student, k.primary, l.primary
      PROVE  k = l
  <2>1. /\ k = new \/ \E m \in links : KinWas(j, k, m)
        /\ l = new \/ \E m \in links : KinWas(j, l, m)
    BY <1>1, <1>2, KinLinks
  <2>2. k = new \/ (k \in links /\ ~(k.student = j.s /\ j.primary))
    BY <1>4, <1>5, <2>1
  <2>3. l = new \/ (l \in links /\ ~(l.student = j.s /\ j.primary))
    BY <1>4, <1>5, <2>1
  <2>4. CASE k = new \/ l = new
    BY <1>3, <1>5, <2>2, <2>3, <2>4
  <2>5. CASE k # new /\ l # new
    BY <1>5, <2>2, <2>3, <2>5 DEF Kin!OnePrimary
  <2> QED
    BY <2>4, <2>5
<1> QED
  BY <1>5 DEF Kin!OnePrimary

LEMMA KinNextAlone ==
  ASSUME Kin!GuardiansAssumption, ~MayOverlap, Kin!Typed, Kin!AloneInv, [Kin!Next]_(Kin!vars)
  PROVE  Kin!AloneInv' /\ Kin!NobodyIsStripped
<1>1. /\ Kin!OnePrimary /\ Kin!OneLogin /\ Kin!CutOut
      /\ \A g \in Guardian : guardian[g].user \in {guardian[g].user, None}
  BY DEF Kin!AloneInv
<1>2. UNCHANGED guardian => Kin!NobodyIsStripped
  BY DEF Kin!NobodyIsStripped, Kin!OnFile
<1>3. links' \subseteq links => Kin!OnePrimary'
  BY <1>1 DEF Kin!OnePrimary
<1>4. UNCHANGED <<guardian, cut>> => Kin!OneLogin' /\ Kin!CutOut'
  BY <1>1, KinLoginsStay
<1>5. \A q \in Request : Kin!Checked(Kin!Idle)'
  BY DEF Kin!Checked, Kin!Idle
<1>6. ASSUME NEW q \in Request, KinAsks(q) PROVE Kin!AloneInv' /\ Kin!NobodyIsStripped
  <2>1. PICK j : Kin!Free(q) /\ KinBegun(q, j)
    BY <1>6, KinBegins
  <2>2. \A p \in Request \ {q} : job[p] = Kin!Idle
    BY <2>1 DEF Kin!Free, Kin!Calm
  <2>3. Kin!Checked(j) /\ UNCHANGED <<guardian, links, cut>> /\ job' = [job EXCEPT ![q] = j]
    BY <2>1 DEF KinBegun
  <2>4. Kin!Checked(j)'
    BY <2>3 DEF Kin!Checked, Kin!LinksOf, Kin!demoteOtherPrimaries, Kin!OnFile, Kin!NoOther,
       Kin!SignsIn
  <2> QED
    BY <1>2, <1>3, <1>4, <2>2, <2>3, <2>4, KinAloneMoves
<1>7. ASSUME \A q \in Request : job[q] = Kin!Idle, UNCHANGED job, links' \subseteq links,
             Kin!OneLogin', Kin!CutOut'
      PROVE  Kin!AloneInv'
  BY <1>3, <1>7 DEF Kin!AloneInv, Kin!Checked, Kin!Idle
<1>8. ASSUME NEW g \in Guardian, NEW e \in User \cup {None},
             Kin!CreateGuardian(g, e) \/ Kin!UpdateGuardian(g, e)
      PROVE  Kin!AloneInv' /\ Kin!NobodyIsStripped
  <2>1. /\ \A q \in Request : job[q] = Kin!Idle
        /\ UNCHANGED <<job, links, cut>>
    BY <1>8 DEF Kin!CreateGuardian, Kin!UpdateGuardian, Kin!Calm
  <2>2. \A h \in Guardian : /\ guardian'[h].user \in {guardian[h].user, None}
                            /\ guardian[h].onFile => guardian'[h].onFile
    BY <1>8, KinIs DEF Kin!CreateGuardian, Kin!UpdateGuardian, GuardianRow
  <2>3. Kin!OneLogin' /\ Kin!CutOut'
    BY <1>1, <2>1, <2>2, KinLoginsStay
  <2>4. Kin!NobodyIsStripped
    BY <2>2 DEF Kin!NobodyIsStripped, Kin!OnFile
  <2> QED
    BY <1>7, <2>1, <2>3, <2>4
<1>9. ASSUME NEW q \in Request, Kin!Delete(q) PROVE Kin!AloneInv' /\ Kin!NobodyIsStripped
  <2>1. PICK g \in Guardian : g = job[q].g
    BY <1>9, KinFacts DEF Kin!Delete
  <2>2. /\ guardian' = [guardian EXCEPT ![g] = Kin!NoRow] /\ links' = links \ Kin!LinksOf(g)
        /\ job' = [job EXCEPT ![q] = Kin!Idle] /\ UNCHANGED cut /\ job[q].at = "remove"
    BY <1>9, <2>1 DEF Kin!Delete, Kin!Done, Kin!Take
  <2>3. Kin!Checked(job[q]) /\ \A p \in Request \ {q} : job[p] = Kin!Idle
    BY <2>2, KinAtWork, KinFacts
  <2>4. Kin!LinksOf(g) = {}
    BY <2>1, <2>2, <2>3 DEF Kin!Checked
  <2>5. /\ \A h \in Guardian : guardian'[h].user \in {guardian[h].user, None}
        /\ \A h \in Guardian \ {g} : guardian'[h] = guardian[h]
    BY <2>2, KinIs DEF Kin!NoRow
  <2>6. Kin!OneLogin' /\ Kin!CutOut'
    BY <1>1, <2>2, <2>5, KinLoginsStay
  <2>7. Kin!NobodyIsStripped
    BY <2>4, <2>5 DEF Kin!NobodyIsStripped, Kin!OnFile
  <2> QED
    BY <1>3, <1>5, <2>2, <2>3, <2>6, <2>7, KinAloneMoves
<1>10. ASSUME NEW q \in Request, Kin!WriteLink(q) PROVE Kin!AloneInv' /\ Kin!NobodyIsStripped
  <2>1. /\ UNCHANGED <<guardian, cut>> /\ job' = [job EXCEPT ![q] = Kin!Idle]
        /\ job[q].at \in {"link", "update"}
    BY <1>10 DEF Kin!WriteLink, Kin!Done, Kin!Take
  <2>2. Kin!Checked(job[q]) /\ \A p \in Request \ {q} : job[p] = Kin!Idle
    BY <2>1, KinAtWork, KinFacts
  <2>3. Kin!OnePrimary'
    BY <1>1, <1>10, <2>2, KinLinkAlone
  <2> QED
    BY <1>2, <1>4, <1>5, <2>1, <2>2, <2>3, KinAloneMoves
<1>11. ASSUME NEW q \in Request, Kin!Attach(q) PROVE Kin!AloneInv' /\ Kin!NobodyIsStripped
  <2>1. PICK g \in Guardian, u \in User : g = job[q].g /\ u = job[q].user
    BY <1>11, KinFacts DEF Kin!Attach
  <2>2. job[q].at = "attach"
    BY <1>11 DEF Kin!Attach
  <2>3. Kin!Checked(job[q]) /\ \A p \in Request \ {q} : job[p] = Kin!Idle
    BY <2>2, KinAtWork, KinFacts
  <2>4. Kin!OnFile(g) /\ Kin!SignsIn(u) \subseteq {g}
    BY <2>1, <2>2, <2>3 DEF Kin!Checked, Kin!NoOther
  <2>5. /\ guardian' = [guardian EXCEPT ![g].user = u] /\ cut' = cut \ {u} /\ UNCHANGED links
        /\ job' = [job EXCEPT ![q] = Kin!Idle]
    BY <1>11, <2>1, <2>4 DEF Kin!Attach, Kin!Done, Kin!Take
  <2>6. /\ guardian'[g].user = u /\ guardian'[g].onFile = guardian[g].onFile
        /\ \A h \in Guardian \ {g} : guardian'[h] = guardian[h]
    BY <2>5, KinLoginMoves
  <2>7. \A h \in Guardian \ {g} : guardian[h].user # u
    BY <2>4 DEF Kin!SignsIn
  <2>8. Kin!OneLogin'
    BY <1>1, <2>6, <2>7 DEF Kin!OneLogin
  <2>9. Kin!CutOut'
    BY <1>1, <2>5, <2>6 DEF Kin!CutOut, Kin!SignsIn
  <2>10. Kin!NobodyIsStripped
    BY <2>6 DEF Kin!NobodyIsStripped, Kin!OnFile
  <2> QED
    BY <1>3, <1>5, <2>3, <2>5, <2>8, <2>9, <2>10, KinAloneMoves
<1>12. ASSUME NEW q \in Request, Kin!Detach(q) PROVE Kin!AloneInv' /\ Kin!NobodyIsStripped
  <2>1. PICK g \in Guardian, u \in User : g = job[q].g /\ u = job[q].user
    BY <1>12, KinFacts DEF Kin!Detach
  <2>2. /\ guardian' = [guardian EXCEPT ![g].user = None] /\ UNCHANGED links
        /\ job' = [job EXCEPT ![q] = Kin!Idle] /\ cut' = cut \cup {u} /\ job[q].at = "detach"
    BY <1>12, <2>1 DEF Kin!Detach, Kin!Done, Kin!Take
  <2>3. Kin!Checked(job[q]) /\ \A p \in Request \ {q} : job[p] = Kin!Idle
    BY <2>2, KinAtWork, KinFacts
  <2>4. guardian[g].user = u /\ u # None
    BY <2>1, <2>2, <2>3 DEF Kin!Checked, Kin!GuardiansAssumption
  <2>5. /\ guardian'[g].user = None /\ guardian'[g].onFile = guardian[g].onFile
        /\ \A h \in Guardian \ {g} : guardian'[h] = guardian[h]
    BY <2>2, KinLoginMoves
  <2>6. Kin!OneLogin'
    BY <1>1, <2>5 DEF Kin!OneLogin
  <2>7. \A h \in Guardian \ {g} : guardian[h].user # u
    BY <1>1, <2>4 DEF Kin!OneLogin
  <2>8. \A w \in cut : w # None /\ \A h \in Guardian : guardian[h].user # w
    BY <1>1, KinIs DEF Kin!CutOut, Kin!SignsIn, Kin!GuardiansAssumption
  <2>9. Kin!CutOut'
    BY <2>2, <2>4, <2>5, <2>7, <2>8 DEF Kin!CutOut, Kin!SignsIn
  <2>10. Kin!NobodyIsStripped
    BY <2>5 DEF Kin!NobodyIsStripped, Kin!OnFile
  <2> QED
    BY <1>3, <1>5, <2>2, <2>3, <2>6, <2>9, <2>10, KinAloneMoves
<1>13. ASSUME NEW u \in User, Kin!Accept(u) \/ Kin!Staff(u) PROVE Kin!AloneInv' /\ Kin!NobodyIsStripped
  <2>1. UNCHANGED <<guardian, links, cut, job>> /\ \A q \in Request : job[q] = Kin!Idle
    BY <1>13 DEF Kin!Accept, Kin!Staff, Kin!Calm
  <2> QED
    BY <1>2, <1>4, <1>7, <2>1
<1>14. ASSUME NEW k \in links, Kin!Unlink(k) PROVE Kin!AloneInv' /\ Kin!NobodyIsStripped
  <2>1. /\ UNCHANGED <<guardian, cut, job>> /\ links' \subseteq links
        /\ \A q \in Request : job[q] = Kin!Idle
    BY <1>14 DEF Kin!Unlink, Kin!Calm
  <2> QED
    BY <1>2, <1>4, <1>7, <2>1
<1>15. ASSUME NEW q \in Request, Kin!LinkFails(q) PROVE Kin!AloneInv' /\ Kin!NobodyIsStripped
  <2>1. /\ UNCHANGED <<guardian, links, cut>> /\ job' = [job EXCEPT ![q] = Kin!Idle]
        /\ job[q].at \in {"link", "update"}
    BY <1>15 DEF Kin!LinkFails, Kin!Done, Kin!Take
  <2>2. \A p \in Request \ {q} : job[p] = Kin!Idle
    BY <2>1, KinAtWork, KinFacts
  <2> QED
    BY <1>2, <1>3, <1>4, <1>5, <2>1, <2>2, KinAloneMoves
<1>16. CASE UNCHANGED <<guardian, links, cut, job>>
  <2>1. \A q \in Request : Kin!Checked(job[q])'
    BY <1>16 DEF Kin!AloneInv, Kin!Checked, Kin!LinksOf, Kin!demoteOtherPrimaries, Kin!OnFile,
       Kin!NoOther, Kin!SignsIn
  <2> QED
    BY <1>2, <1>3, <1>4, <1>16, <2>1 DEF Kin!AloneInv, Kin!Idle
<1> QED
  BY <1>6, <1>8, <1>9, <1>10, <1>11, <1>12, <1>13, <1>14, <1>15, <1>16
     DEF Kin!Next, Kin!vars, Kin!Switch, KinAsks

LEMMA KinInitAlone ==
  ASSUME Kin!Init
  PROVE  Kin!AloneInv
BY DEF Kin!Init, Kin!AloneInv, Kin!Checked, Kin!Idle, Kin!OnePrimary, Kin!OneLogin, Kin!CutOut,
   Kin!NoRow

\* What holds of one request at a time, said as the services mean it.
LEMMA KinSays ==
  ASSUME Kin!GuardiansAssumption, Kin!Typed, Kin!AloneInv
  PROVE  Kin!OnePrimary /\ Kin!OneFamilyPerLogin /\ Kin!RevokedStaysOut
<1>1. ASSUME NEW u \in User PROVE Kin!Cardinality(Kin!SignsIn(u)) <= 1
  <2>1. u # None
    BY DEF Kin!GuardiansAssumption
  <2>2. \A g, h \in Kin!SignsIn(u) : g = h
    BY <2>1 DEF Kin!AloneInv, Kin!OneLogin, Kin!SignsIn
  <2>3. \E g : Kin!SignsIn(u) \subseteq {g}
    BY <2>2
  <2> QED
    BY <2>3, KinFew
<1>2. ASSUME NEW u \in cut PROVE Kin!Answered(u) = {}
  <2>1. Kin!SignsIn(u) = {}
    BY DEF Kin!AloneInv, Kin!CutOut
  <2>2. Kin!Wards(u) = {}
    BY <2>1 DEF Kin!Wards
  <2> QED
    BY <2>2 DEF Kin!Answered
<1> QED
  BY <1>1, <1>2 DEF Kin!AloneInv, Kin!OneFamilyPerLogin, Kin!RevokedStaysOut

(***************************************************************************)
(* Guardians and their logins are kept.  However requests overlap, a link  *)
(* is of a guardian on file, a pair is linked once and an e-mail is of one *)
(* guardian; and neither inviting nor revoking touches a member of staff   *)
(* ("Revoking a parent must never touch a staff login").  One request at a *)
(* time, a student has one guardian who is called first, a login is of one *)
(* family, a login taken from a parent shows nothing until the school      *)
(* gives it again, and a guardian goes only without children               *)
(* (GuardiansService: link, remove; PortalAccessService: invite, revoke).  *)
(***************************************************************************)
THEOREM FamiliesAreKeptApart ==
  ASSUME Kin!GuardiansAssumption
  PROVE  Kin!Spec =>
           /\ []Kin!TypeOK /\ [][Kin!StaffKeepTheirLogin]_(Kin!vars)
           /\ ~MayOverlap => [](Kin!OnePrimary /\ Kin!OneFamilyPerLogin /\ Kin!RevokedStaysOut)
           /\ ~MayOverlap => [][Kin!NobodyIsStripped]_(Kin!vars)
<1>1. ASSUME ~MayOverlap
      PROVE  Kin!Spec => /\ [](Kin!OnePrimary /\ Kin!OneFamilyPerLogin /\ Kin!RevokedStaysOut)
                         /\ [][Kin!NobodyIsStripped]_(Kin!vars)
  <2>1. Kin!Init => Kin!Typed /\ Kin!AloneInv
    BY KinInitTyped, KinInitAlone
  <2>2. Kin!Typed /\ Kin!AloneInv /\ [Kin!Next]_(Kin!vars) => (Kin!Typed /\ Kin!AloneInv)'
    BY <1>1, KinNextTyped, KinNextAlone
  <2>3. Kin!Typed /\ Kin!AloneInv
        => Kin!OnePrimary /\ Kin!OneFamilyPerLogin /\ Kin!RevokedStaysOut
    BY KinSays
  <2>4. Kin!Typed /\ Kin!AloneInv /\ [Kin!Next]_(Kin!vars) => [Kin!NobodyIsStripped]_(Kin!vars)
    BY <1>1, KinNextAlone
  <2> QED
    BY <2>1, <2>2, <2>3, <2>4, PTL DEF Kin!Spec
<1>2. Kin!Spec => []Kin!TypeOK
  <2>1. Kin!Typed => Kin!TypeOK
    BY DEF Kin!Typed
  <2> QED
    BY <2>1, KinTyped, PTL
<1>3. Kin!Spec => [][Kin!StaffKeepTheirLogin]_(Kin!vars)
  <2>1. Kin!Typed /\ [Kin!Next]_(Kin!vars) => [Kin!StaffKeepTheirLogin]_(Kin!vars)
    BY KinSparesStaff
  <2> QED
    BY <2>1, KinTyped, PTL DEF Kin!Spec
<1> QED
  BY <1>1, <1>2, <1>3
==============================================================================
