------------------------------- MODULE MCLive -------------------------------
(***************************************************************************)
(* Liveness, for TLC: requests that overlap, wait for locks, retry or tell *)
(* others when they are done come to an end.  These components share no    *)
(* row the check depends on, so a behaviour is of one of them, and `on`    *)
(* says which.                                                             *)
(*                                                                         *)
(* A request under way goes on: nobody cancels it, and the database hands  *)
(* rows and advisory locks to those who wait in turn, so one who may go on *)
(* again and again does in the end.  Arrivals are under no fairness.       *)
(***************************************************************************)
EXTENDS Naturals, FiniteSets

CONSTANTS q1, q2, None, Gone

VARIABLES
  on,
  invoice, payment,                                       \* payments
  pupil, offer, scale, score, status, card, stale, told,  \* sheets
  capacity, record,                                       \* arms
  numbers, landed,                                        \* numbers
  students, guardians,                                    \* imports
  object, row, photo, evidence, limit, most, lock,        \* files
  arm, mark, open, today,                                 \* the register
  prefix, student, holder, req, job                       \* of whoever is on

moneyVars    == <<invoice, payment>>
sheetVars    == <<pupil, offer, scale, score, status, card, stale, told>>
armVars      == <<capacity, record>>
numberVars   == <<numbers, landed>>
importVars   == <<students, guardians>>
fileVars     == <<object, row, photo, evidence, limit, most, lock>>
registerVars == <<arm, mark, open, today>>
rowVars      == <<sheetVars, armVars, numberVars, importVars, fileVars, registerVars>>
vars == <<on, moneyVars, rowVars, prefix, student, holder, req, job>>

Both == {q1, q2}

-----------------------------------------------------------------------------
(* Payments: verifications on two invoices, which no lock keeps apart. *)
Money == INSTANCE MCPayments WITH
  Invoice <- {"i1", "i2"}, Payment <- {"p1", "p2"}, Prefix <- {"RCP"}, MaxAmount <- 1,
  Request <- Both, ReceiptAttempts <- 3

(* Sheets: of an arm whose student comes and goes, one request at a time, *)
(* which does not stop.                                                    *)
OneArm   == {"a1"}
OneClass == [a \in OneArm |-> "c1"]

Sheets == INSTANCE ResultSheets WITH
  Arm <- OneArm, Class <- {"c1"}, ClassOf <- OneClass, Student <- {"s1"},
  Subject <- {"u1"}, Mark <- {1}, Component <- {"k1"}, Scale <- {"waec"}, Text <- {},
  Request <- {q1}, MayMove <- TRUE, MayWithdraw <- TRUE, MayCrash <- FALSE

(* Seats: imports, which lock both of two arms, and updates, which lock one. *)
Pupils == {"s1", "s2"}

Arms == INSTANCE ClassArms WITH
  Arm <- {1, 2}, Student <- Pupils, Request <- Both, MaxCapacity <- 1,
  MayOverlap <- TRUE, MayResize <- FALSE, MayRemove <- FALSE

(* Numbers: an admission and a file, while the prefix changes. *)
Admissions == INSTANCE AdmissionNumbers WITH
  Admission <- {q1}, Batch <- {q2}, Prefix <- {"p1"}, NoPrefix <- None,
  ADMISSION_NUMBER_ATTEMPTS <- 2, WRITE_ATTEMPTS <- 2, BatchSize <- 2, MaxSequence <- 2

(* Imports: siblings, two parents with one e-mail, and a number that collides. *)
OfOne(own, arms, phone, email) ==
  [own |-> own, arm |-> arms, phone |-> phone, email |-> email, ok |-> TRUE]

Siblings  == <<OfOne(0, "a1", "p1", None), OfOne(0, "a1", "p1", "e1")>>
OneEmail  == <<OfOne(0, None, "p1", "e1"), OfOne(0, None, "p2", "e1")>>
Colliding == <<OfOne(0, None, "p1", None), OfOne(1, None, None, None)>>
TwoSeats  == [a \in OneArm |-> 2]

Import == INSTANCE StudentImport WITH
  Arm <- OneArm, Phone <- {"p1", "p2"}, Email <- {"e1"}, capacity <- TwoSeats,
  Files <- {Siblings, OneEmail, Colliding}, Request <- Both, WRITE_ATTEMPTS <- 2,
  MaxStudents <- 3, MayOverlap <- TRUE

(* Files: two images, one too large to be stored with the other. *)
TwoFiles == {"f1", "f2"}
Sizes    == [f \in TwoFiles |-> IF f = "f2" THEN 2 ELSE 1]
Images   == [f \in TwoFiles |-> "image"]
MaxBytes == [p \in {"photo", "evidence"} |-> 2]

Store == INSTANCE Files WITH
  File <- TwoFiles, Owner <- {"s1", "school"}, School <- "school", Payment <- {},
  Request <- Both, size <- Sizes, kind <- Images, maxBytes <- MaxBytes, childOf <- <<>>,
  Limits <- {2}, MayOverlap <- TRUE, MayFail <- FALSE

(* The register: two saves of one arm of two. *)
FormTeacher == [a \in OneArm |-> "t1"]

Register == INSTANCE Attendance WITH
  Student <- {"s1", "s2"}, Arm <- OneArm, Teacher <- {"t1"}, Save <- Both,
  formTeacher <- FormTeacher, Admin <- {}, Day <- {1}, Status <- {"PRESENT"},
  MayOverlap <- TRUE, MayMove <- FALSE

ASSUME /\ Sheets!SheetsAssumption /\ Arms!ArmsAssumption /\ Admissions!NumbersAssumption
       /\ Import!ImportAssumption /\ Store!FilesAssumption /\ Register!AttendanceAssumption

-----------------------------------------------------------------------------
NoMoney    == invoice = None /\ payment = None
NoSheets   == /\ pupil = None /\ offer = None /\ scale = None /\ score = None
              /\ status = None /\ card = None /\ stale = None /\ told = None
NoArms     == capacity = None /\ record = None
NoNumbers  == numbers = None /\ landed = None
NoImport   == students = None /\ guardians = None
NoFiles    == /\ object = None /\ row = None /\ photo = None /\ evidence = None
              /\ limit = None /\ most = None /\ lock = None
NoRegister == arm = None /\ mark = None /\ open = None /\ today = None
NoLocks    == holder = None /\ req = None

Init ==
  \/ /\ on = "money" /\ Money!Init
     /\ NoSheets /\ NoArms /\ NoNumbers /\ NoImport /\ NoFiles /\ NoRegister
     /\ student = None /\ job = None
  \/ /\ NoMoney
     /\ \/ /\ on = "sheets" /\ Sheets!Init
           /\ NoArms /\ NoNumbers /\ NoImport /\ NoFiles /\ NoRegister
           /\ prefix = None /\ student = None /\ job = None
        \/ /\ on = "arms" /\ Arms!Init
           /\ NoSheets /\ NoNumbers /\ NoImport /\ NoFiles /\ NoRegister
           /\ prefix = None /\ job = None
        \/ /\ on = "numbers" /\ Admissions!Init
           /\ NoSheets /\ NoArms /\ NoImport /\ NoFiles /\ NoRegister
           /\ student = None /\ NoLocks
        \/ /\ on = "import" /\ Import!Init
           /\ NoSheets /\ NoArms /\ NoNumbers /\ NoFiles /\ NoRegister
           /\ prefix = None /\ student = None /\ NoLocks
        \/ /\ on = "files" /\ Store!Init
           /\ NoSheets /\ NoArms /\ NoNumbers /\ NoImport /\ NoRegister
           /\ prefix = None /\ NoLocks
        \/ /\ on = "register" /\ Register!Init
           /\ NoSheets /\ NoArms /\ NoNumbers /\ NoImport /\ NoFiles
           /\ prefix = None /\ student = None /\ NoLocks

(* What stays when a component takes a step. *)
MoneyOnly    == UNCHANGED <<on, rowVars, student, job>>
SheetsOnly   == /\ UNCHANGED <<on, moneyVars, armVars, numberVars, importVars>>
                /\ UNCHANGED <<fileVars, registerVars, prefix, student, job>>
ArmsOnly     == /\ UNCHANGED <<on, moneyVars, sheetVars, numberVars, importVars>>
                /\ UNCHANGED <<fileVars, registerVars, prefix, job>>
NumbersOnly  == /\ UNCHANGED <<on, moneyVars, sheetVars, armVars, importVars>>
                /\ UNCHANGED <<fileVars, registerVars, student, holder, req>>
ImportOnly   == /\ UNCHANGED <<on, moneyVars, sheetVars, armVars, numberVars>>
                /\ UNCHANGED <<fileVars, registerVars, prefix, student, holder, req>>
FilesOnly    == /\ UNCHANGED <<on, moneyVars, sheetVars, armVars, numberVars>>
                /\ UNCHANGED <<importVars, registerVars, prefix, holder, req>>
RegisterOnly == /\ UNCHANGED <<on, moneyVars, sheetVars, armVars, numberVars>>
                /\ UNCHANGED <<importVars, fileVars, prefix, student, holder, req>>

Seated ==
  \E q \in Both :
    \/ \E rows \in SUBSET Pupils : \E place \in [rows -> Arms!Arms] : Arms!Import(q, place)
    \/ \E s \in Pupils, to \in Arms!Arms : Arms!Update(q, s, to)
    \/ Arms!Lock(q) \/ Arms!Proceed(q)

Next ==
  \/ on = "money" /\ Money!PaymentsOnly /\ MoneyOnly
  \/ on = "sheets" /\ Sheets!Next /\ SheetsOnly
  \/ on = "arms" /\ Seated /\ ArmsOnly
  \/ on = "numbers" /\ Admissions!Next /\ NumbersOnly
  \/ on = "import" /\ Import!Next /\ ImportOnly
  \/ on = "files" /\ Store!Next /\ FilesOnly
  \/ on = "register" /\ Register!Next /\ RegisterOnly

\* A request that has begun takes its next step.
GoesOn(q) ==
  \/ on = "money" /\ (Money!Lock(q) \/ Money!PaymentSteps(q)) /\ MoneyOnly
  \/ on = "sheets" /\ q = q1 /\ Sheets!Work(q) /\ SheetsOnly
  \/ on = "arms" /\ (Arms!Lock(q) \/ Arms!Proceed(q)) /\ ArmsOnly
  \/ on = "numbers" /\ Admissions!Step(q) /\ NumbersOnly
  \/ on = "import" /\ Import!Step(q) /\ ImportOnly
  \/ on = "files" /\ Store!Step(q) /\ FilesOnly
  \/ on = "register" /\ (Register!Step(q) \/ Register!StopDeadlocked(q)) /\ RegisterOnly

Spec == Init /\ [][Next]_vars /\ \A q \in Both : SF_vars(GoesOn(q))

-----------------------------------------------------------------------------
Busy(q) ==
  CASE on = "money"    -> req[q] # Money!Idle
    [] on = "sheets"   -> \E a \in OneArm : status[a] = "PUBLISHED" /\ ~told[a]
    [] on = "arms"     -> req[q] # Arms!Idle
    [] on = "numbers"  -> job[q].at \notin {"over", "refused"}
    [] on = "import"   -> job[q] # Import!Idle
    [] on = "files"    -> job[q] # Store!Idle
    [] on = "register" -> job[q] # Register!Idle

(***************************************************************************)
(* Two imports that fill the same arms never wait for each other's locks,  *)
(* whichever arms their files name first.  (write, lockRows.)              *)
(***************************************************************************)
NoDeadlyEmbrace == on = "arms" => Arms!NoDeadlyEmbrace

(***************************************************************************)
(* What was asked is done, or refused, in the end.  A payment is recorded, *)
(* verified or rejected, though receipt numbers collide (verify).  Parents *)
(* hear of every sheet that is published (publish); two who fill the same  *)
(* arms do not wait for each other (lockRows); an admission is answered    *)
(* within its attempts, whatever the prefix does                           *)
(* (createWithGeneratedNumber), and so is an import (write); an upload     *)
(* gets the lock of its school (lockSchoolScope); and a save of a register *)
(* ends, also where two wait for each other's rows (save, and PostgreSQL's *)
(* detection of deadlocks).                                                *)
(***************************************************************************)
RequestsEnd == \A q \in Both : Busy(q) ~> ~Busy(q)
=============================================================================
