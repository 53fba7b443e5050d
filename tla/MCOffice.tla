------------------------------ MODULE MCOffice ------------------------------
(***************************************************************************)
(* Instances for TLC of what the office does: fee structures and invoices, *)
(* the calendar, guardians and the portal, settings, files, reminders, the *)
(* register, grading schemes and the arithmetic of results, seats of arms, *)
(* admission numbers and imports.                                          *)
(*                                                                         *)
(* These components share no row the checks depend on, so one behaviour is *)
(* of one of them: `on` says which, and under which constants.  Parts with *)
(* Overlap in their name let requests overlap; the others take one at a    *)
(* time wherever the guarantee needs it.                                   *)
(***************************************************************************)
EXTENDS Naturals, FiniteSets, TLC

CONSTANTS x1, x2, y1, y2, q1, q2, None, Gone

VARIABLES
  on,
  category, structure, invoices,                        \* fees
  used,                                                 \* the calendar
  guardian, links, member, invited, enabled, cut,       \* guardians
  audit,                                                \* settings
  object, photo, evidence, limit, most, lock,           \* files
  paid, pending, day, log, received, inbox,             \* reminders
  arm, open, today,                                     \* the register
  rows, scored, nextId, bands,                          \* schemes, arithmetic
  capacity, record,                                     \* seats
  numbers, landed,                                      \* numbers
  students, guardians,                                  \* imports
  row, mark, student, prefix, holder, req, job          \* of whoever is on

feeVars      == <<category, structure, invoices>>
guardianVars == <<guardian, links, member, invited, enabled, cut>>
fileVars     == <<object, photo, evidence, limit, most, lock>>
reminderVars == <<paid, pending, day, log, received, inbox>>
registerVars == <<arm, open, today>>
dailyVars    == <<feeVars, used, guardianVars, audit, fileVars, reminderVars, registerVars>>
schemeVars   == <<rows, scored, nextId>>
armVars      == <<capacity, record>>
numberVars   == <<numbers, landed>>
importVars   == <<students, guardians>>
yearlyVars   == <<schemeVars, bands, armVars, numberVars, importVars>>
vars == <<on, dailyVars, yearlyVars, row, mark, student, prefix, holder, req, job>>

Xs       == {x1, x2}
Ys       == {y1, y2}
One      == {q1}
Both     == {q1, q2}
Symmetry == Permutations(Xs) \cup Permutations(Ys) \cup Permutations(Both)

-----------------------------------------------------------------------------
(* Fees: two students and two structures, whose items are bought or not. *)
Of(c, amount, optional) == [category |-> c, amount |-> amount, optional |-> optional]

Tuition == {Of("c1", 2, FALSE)}
WithBus == {Of("c1", 3, FALSE), Of("c2", 1, TRUE)}
BusOnly == {Of("c2", 1, TRUE)}

ByChoice == {Of("c1", 1, TRUE)}

TuitionOrNot == {Tuition, ByChoice}
WithBusOnly  == {WithBus, BusOnly}

Fees == INSTANCE FeeStructures WITH
  Category <- {"c1", "c2"}, Student <- Xs, Structure <- Ys, Request <- One,
  ItemLists <- WithBusOnly, MayOverlap <- FALSE

FeesOverlap == INSTANCE FeeStructures WITH
  Category <- {"c1"}, Student <- Xs, Structure <- {y1}, Request <- Both,
  ItemLists <- TuitionOrNot, MayOverlap <- TRUE

(* The calendar: two sessions, two terms, four days; or one of each. *)
Calendar == INSTANCE AcademicCalendar WITH
  Session <- Xs, Term <- Ys, Request <- One, Days <- 4, MayOverlap <- FALSE

CalendarOverlap == INSTANCE AcademicCalendar WITH
  Session <- {x1}, Term <- {y1}, Request <- Both, Days <- 3, MayOverlap <- TRUE

(* Guardians: two of them, of one child, with two logins; or one of each. *)
OneChild == [i \in {"i1"} |-> "s1"]

Parents == INSTANCE Guardians WITH
  Guardian <- Xs, Student <- {"s1"}, User <- Ys, Request <- One, Invoice <- {"i1"},
  childOf <- OneChild, MayOverlap <- FALSE

ParentsOverlap == INSTANCE Guardians WITH
  Guardian <- {x1}, Student <- {"s1"}, User <- {y1}, Request <- Both, Invoice <- {"i1"},
  childOf <- OneChild, MayOverlap <- TRUE

(* Settings: three days and two fields; or two days and one. *)
Setting == INSTANCE Settings WITH
  Field <- {"portalEnabled", "receiptPrefix"}, Value <- {"v1", "v2"}, Default <- "v1",
  Bits <- 3, DefaultWeek <- 2, OldMasks <- {0, 1, 8, 11}, Request <- One, MayOverlap <- FALSE

SettingOverlap == INSTANCE Settings WITH
  Field <- {"portalEnabled"}, Value <- {"v1", "v2"}, Default <- "v1",
  Bits <- 2, DefaultWeek <- 2, OldMasks <- {0, 1, 8, 11}, Request <- Both, MayOverlap <- TRUE

(* Files: three, of a child and the school; or two images, and failures. *)
ThreeFiles == {"f1", "f2", "f3"}
TwoFiles   == {"f1", "f2"}
Sizes      == [f \in ThreeFiles |-> IF f = "f2" THEN 2 ELSE 1]
TwoSizes   == [f \in TwoFiles |-> Sizes[f]]
Kinds      == [f \in ThreeFiles |-> IF f = "f2" THEN "pdf" ELSE "image"]
Images     == [f \in TwoFiles |-> "image"]
MaxBytes   == [p \in {"photo", "evidence"} |-> 2]
Child      == [p \in {"p1"} |-> "s1"]

Store == INSTANCE Files WITH
  File <- ThreeFiles, Owner <- {"s1", "school"}, School <- "school", Payment <- {"p1"},
  Request <- One, size <- Sizes, kind <- Kinds, maxBytes <- MaxBytes, childOf <- Child,
  Limits <- {2, 4}, MayOverlap <- FALSE, MayFail <- FALSE

StoreOverlap == INSTANCE Files WITH
  File <- TwoFiles, Owner <- {"s1", "school"}, School <- "school", Payment <- {"p1"},
  Request <- Both, size <- TwoSizes, kind <- Images, maxBytes <- MaxBytes, childOf <- Child,
  Limits <- {1, 2}, MayOverlap <- TRUE, MayFail <- TRUE

(* Reminders: two children of one family; or of two, and failures. *)
Owing     == [i \in {"i1", "i2"} |-> IF i = "i1" THEN 2 ELSE 1]
Little    == [i \in {"i1", "i2"} |-> 1]
Whose     == [i \in {"i1", "i2"} |-> IF i = "i1" THEN "s1" ELSE "s2"]
OneFamily == [s \in {"s1", "s2"} |-> IF s = "s1" THEN {"g1", "g2"} ELSE {"g1"}]
Families  == [s \in {"s1", "s2"} |-> IF s = "s1" THEN {"g1"} ELSE {"g2"}]

Dunning == INSTANCE Reminders WITH
  Invoice <- {"i1", "i2"}, Student <- {"s1", "s2"}, Guardian <- {"g1", "g2"}, Request <- One,
  childOf <- Whose, total <- Owing, parents <- OneFamily, mail <- {"g1", "g2"},
  login <- {"g1", "g2"}, Cooldown <- 1, Days <- 4, MayOverlap <- FALSE, MayFail <- FALSE

DunningFails == INSTANCE Reminders WITH
  Invoice <- {"i1", "i2"}, Student <- {"s1", "s2"}, Guardian <- {"g1", "g2"}, Request <- One,
  childOf <- Whose, total <- Little, parents <- Families, mail <- {"g1", "g2"},
  login <- {}, Cooldown <- 1, Days <- 3, MayOverlap <- FALSE, MayFail <- TRUE

(* The register: two arms and two days; or one, and two saves of any students. *)
FormTeachers == [a \in {"a1", "a2"} |-> IF a = "a1" THEN "t1" ELSE None]
FormTeacher  == [a \in {"a1"} |-> "t1"]

Register == INSTANCE Attendance WITH
  Student <- Xs, Arm <- {"a1", "a2"}, Teacher <- {"t1", "t2", "t3"}, Save <- One,
  formTeacher <- FormTeachers, Admin <- {"t2"}, Day <- {1, 2}, Status <- {"PRESENT", "LATE"},
  MayOverlap <- FALSE, MayMove <- TRUE

RegisterOverlap == INSTANCE Attendance WITH
  Student <- {x1, x2, "s3"}, Arm <- {"a1"}, Teacher <- {"t1"}, Save <- Both,
  formTeacher <- FormTeacher, Admin <- {}, Day <- {1}, Status <- {"PRESENT"},
  MayOverlap <- TRUE, MayMove <- FALSE

(* Schemes: two names, a whole of two. *)
Halves == <<[name |-> "test", size |-> 1], [name |-> "exam", size |-> 1]>>

Scheme == INSTANCE Assessment WITH
  Table <- {"components", "bands"}, Whole <- 2, Name <- {"test", "exam"}, Default <- Halves,
  Request <- Both, MaxRows <- 4, MayOverlap <- FALSE

(* Arithmetic: three pupils with an elective; every scale of three bands. *)
Pupils == {x1, x2, "x3"}

Places == INSTANCE ResultMath WITH
  Pupil <- Pupils, Subject <- {"u1", "u2"}, Elective <- {"u2"}, Top <- 2, Unit <- 1, MaxBands <- 0

Scales == INSTANCE ResultMath WITH
  Pupil <- {}, Subject <- {}, Elective <- {}, Top <- 2, Unit <- 2, MaxBands <- 3

(* Seats: of two arms, for a student two requests handle at once; and of   *)
(* one that is resized and deleted.  (MCClassArms has the race for seats.) *)
SeatsOverlap == INSTANCE ClassArms WITH
  Arm <- {1, 2}, Student <- {"s1"}, Request <- Both, MaxCapacity <- 1,
  MayOverlap <- TRUE, MayResize <- FALSE, MayRemove <- FALSE

SeatsChange == INSTANCE ClassArms WITH
  Arm <- {1}, Student <- {"s1"}, Request <- Both, MaxCapacity <- 1,
  MayOverlap <- TRUE, MayResize <- TRUE, MayRemove <- TRUE

(* Numbers: two admissions and a file of two, two attempts. *)
Admissions == INSTANCE AdmissionNumbers WITH
  Admission <- Xs, Batch <- {"b1"}, Prefix <- {"p1"}, NoPrefix <- None,
  ADMISSION_NUMBER_ATTEMPTS <- 2, WRITE_ATTEMPTS <- 2, BatchSize <- 2, MaxSequence <- 2

(* Imports: files of siblings, of two parents with one e-mail, of rows with *)
(* a fault, with numbers of their own, and with one that collides.          *)
Listed(room, own, phone, email, ok) ==
  [own |-> own, arm |-> room, phone |-> phone, email |-> email, ok |-> ok]

Siblings  == <<Listed("a1", 0, "p1", None, TRUE), Listed("a1", 0, "p1", "e1", TRUE)>>
OneEmail  == <<Listed(None, 0, "p1", "e1", TRUE), Listed(None, 0, "p2", "e1", TRUE)>>
Bad       == <<Listed(None, 0, "p1", None, FALSE), Listed(None, 0, "p2", "e1", TRUE)>>
Unknown   == <<Listed("unknown", 0, "p2", None, TRUE), Listed("a1", 0, "p2", None, TRUE)>>
Numbered  == <<Listed("a1", 5, None, None, TRUE), Listed(None, 5, "p2", None, TRUE)>>
Colliding == <<Listed(None, 0, "p1", None, TRUE), Listed(None, 1, None, None, TRUE)>>

OneRoom   == {"a1"}
MostFiles == {Siblings, OneEmail, Bad, Unknown, Numbered}
RaceFiles == {Siblings, OneEmail, Numbered, Colliding}
TwoSeats  == [a \in OneRoom |-> 2]

Import == INSTANCE StudentImport WITH
  Arm <- OneRoom, Phone <- {"p1", "p2"}, Email <- {"e1"}, capacity <- TwoSeats,
  Files <- MostFiles, Request <- One, WRITE_ATTEMPTS <- 2, MaxStudents <- 6, MayOverlap <- FALSE

ImportOverlap == INSTANCE StudentImport WITH
  Arm <- OneRoom, Phone <- {"p1", "p2"}, Email <- {"e1"}, capacity <- TwoSeats,
  Files <- RaceFiles, Request <- Both, WRITE_ATTEMPTS <- 2, MaxStudents <- 3, MayOverlap <- TRUE

ASSUME /\ Fees!FeeStructuresAssumption /\ FeesOverlap!FeeStructuresAssumption
       /\ Calendar!CalendarAssumption /\ CalendarOverlap!CalendarAssumption
       /\ Parents!GuardiansAssumption /\ ParentsOverlap!GuardiansAssumption
       /\ Setting!SettingsAssumption /\ SettingOverlap!SettingsAssumption
       /\ Store!FilesAssumption /\ StoreOverlap!FilesAssumption
       /\ Dunning!RemindersAssumption /\ DunningFails!RemindersAssumption
       /\ Register!AttendanceAssumption /\ RegisterOverlap!AttendanceAssumption
       /\ Scheme!AssessmentAssumption /\ Places!MathAssumption /\ Scales!MathAssumption
       /\ SeatsOverlap!ArmsAssumption /\ SeatsChange!ArmsAssumption
       /\ Admissions!NumbersAssumption
       /\ Import!ImportAssumption /\ ImportOverlap!ImportAssumption

-----------------------------------------------------------------------------
NoFees      == category = None /\ structure = None /\ invoices = None
NoGuardians == /\ guardian = None /\ links = None /\ member = None
               /\ invited = None /\ enabled = None /\ cut = None
NoFiles     == /\ object = None /\ photo = None /\ evidence = None
               /\ limit = None /\ most = None /\ lock = None
NoReminders == /\ paid = None /\ pending = None /\ day = None
               /\ log = None /\ received = None /\ inbox = None
NoRegister  == arm = None /\ open = None /\ today = None
NoScheme    == rows = None /\ scored = None /\ nextId = None
NoArms      == capacity = None /\ record = None
NoNumbers   == numbers = None /\ landed = None
NoImport    == students = None /\ guardians = None
NoYearly    == NoScheme /\ bands = None /\ NoArms /\ NoNumbers /\ NoImport
NoDaily     == /\ NoFees /\ used = None /\ NoGuardians /\ audit = None
               /\ NoFiles /\ NoReminders /\ NoRegister

Init ==
  \/ /\ \/ on = "fees" /\ Fees!Init
        \/ on = "feesOverlap" /\ FeesOverlap!Init
     /\ NoYearly /\ used = None /\ NoGuardians /\ audit = None /\ NoFiles /\ NoReminders
     /\ NoRegister /\ row = None /\ mark = None /\ prefix = None /\ holder = None
     /\ req = None
  \/ /\ \/ on = "calendar" /\ Calendar!Init
        \/ on = "calendarOverlap" /\ CalendarOverlap!Init
     /\ NoYearly /\ NoFees /\ NoGuardians /\ audit = None /\ NoFiles /\ NoReminders
     /\ NoRegister /\ mark = None /\ student = None /\ prefix = None /\ holder = None
     /\ req = None
  \/ /\ \/ on = "parents" /\ Parents!Init
        \/ on = "parentsOverlap" /\ ParentsOverlap!Init
     /\ NoYearly /\ NoFees /\ used = None /\ audit = None /\ NoFiles /\ NoReminders
     /\ NoRegister /\ row = None /\ mark = None /\ student = None /\ prefix = None
     /\ holder = None /\ req = None
  \/ /\ \/ on = "settings" /\ Setting!Init
        \/ on = "settingsOverlap" /\ SettingOverlap!Init
     /\ NoYearly /\ NoFees /\ used = None /\ NoGuardians /\ NoFiles /\ NoReminders
     /\ NoRegister /\ mark = None /\ student = None /\ prefix = None /\ holder = None
     /\ req = None
  \/ /\ \/ on = "files" /\ Store!Init
        \/ on = "filesOverlap" /\ StoreOverlap!Init
     /\ NoYearly /\ NoFees /\ used = None /\ NoGuardians /\ audit = None /\ NoReminders
     /\ NoRegister /\ mark = None /\ prefix = None /\ holder = None /\ req = None
  \/ /\ \/ on = "reminders" /\ Dunning!Init
        \/ on = "remindersFail" /\ DunningFails!Init
     /\ NoYearly /\ NoFees /\ used = None /\ NoGuardians /\ audit = None /\ NoFiles
     /\ NoRegister /\ row = None /\ mark = None /\ student = None /\ prefix = None
     /\ holder = None /\ req = None
  \/ /\ \/ on = "register" /\ Register!Init
        \/ on = "registerOverlap" /\ RegisterOverlap!Init
     /\ NoYearly /\ NoFees /\ used = None /\ NoGuardians /\ audit = None /\ NoFiles
     /\ NoReminders /\ row = None /\ student = None /\ prefix = None /\ holder = None
     /\ req = None
  \/ /\ on = "scheme" /\ Scheme!Init
     /\ NoDaily /\ bands = None /\ NoArms /\ NoNumbers /\ NoImport /\ row = None
     /\ mark = None /\ student = None /\ prefix = None /\ holder = None /\ job = None
  \/ /\ \/ on = "places" /\ Places!Init
        \/ on = "scales" /\ Scales!Init
     /\ NoDaily /\ NoScheme /\ NoArms /\ NoNumbers /\ NoImport /\ row = None
     /\ student = None /\ prefix = None /\ holder = None /\ req = None /\ job = None
  \/ /\ \/ on = "seatsOverlap" /\ SeatsOverlap!Init
        \/ on = "seatsChange" /\ SeatsChange!Init
     /\ NoDaily /\ NoScheme /\ bands = None /\ NoNumbers /\ NoImport /\ row = None
     /\ mark = None /\ prefix = None /\ job = None
  \/ /\ on = "numbers" /\ Admissions!Init /\ prefix = None
     /\ NoDaily /\ NoScheme /\ bands = None /\ NoArms /\ NoImport /\ row = None
     /\ mark = None /\ student = None /\ holder = None /\ req = None
  \/ /\ \/ on = "import" /\ Import!Init
        \/ on = "importOverlap" /\ ImportOverlap!Init
     /\ NoDaily /\ NoScheme /\ bands = None /\ NoArms /\ NoNumbers /\ row = None
     /\ mark = None /\ student = None /\ prefix = None /\ holder = None /\ req = None

InFees ==
  /\ \/ on = "fees" /\ Fees!Next
     \/ on = "feesOverlap" /\ FeesOverlap!Next
  /\ UNCHANGED <<on, yearlyVars, used, guardianVars, audit, fileVars, reminderVars,
                 registerVars, row, mark, prefix, holder, req>>

InCalendar ==
  /\ \/ on = "calendar" /\ Calendar!Next
     \/ on = "calendarOverlap" /\ CalendarOverlap!Next
  /\ UNCHANGED <<on, yearlyVars, feeVars, guardianVars, audit, fileVars, reminderVars,
                 registerVars, mark, student, prefix, holder, req>>

InGuardians ==
  /\ \/ on = "parents" /\ Parents!Next
     \/ on = "parentsOverlap" /\ ParentsOverlap!Next
  /\ UNCHANGED <<on, yearlyVars, feeVars, used, audit, fileVars, reminderVars, registerVars,
                 row, mark, student, prefix, holder, req>>

InSettings ==
  /\ \/ on = "settings" /\ Setting!Next
     \/ on = "settingsOverlap" /\ SettingOverlap!Next
  /\ UNCHANGED <<on, yearlyVars, feeVars, used, guardianVars, fileVars, reminderVars,
                 registerVars, mark, student, prefix, holder, req>>

InFiles ==
  /\ \/ on = "files" /\ Store!Next
     \/ on = "filesOverlap" /\ StoreOverlap!Next
  /\ UNCHANGED <<on, yearlyVars, feeVars, used, guardianVars, audit, reminderVars,
                 registerVars, mark, prefix, holder, req>>

InReminders ==
  /\ \/ on = "reminders" /\ Dunning!Next
     \/ on = "remindersFail" /\ DunningFails!Next
  /\ UNCHANGED <<on, yearlyVars, feeVars, used, guardianVars, audit, fileVars, registerVars,
                 row, mark, student, prefix, holder, req>>

InRegister ==
  /\ \/ on = "register" /\ Register!Next
     \/ on = "registerOverlap" /\ RegisterOverlap!Next
  /\ UNCHANGED <<on, yearlyVars, feeVars, used, guardianVars, audit, fileVars, reminderVars,
                 row, student, prefix, holder, req>>

InScheme ==
  /\ on = "scheme" /\ Scheme!Next
  /\ UNCHANGED <<on, dailyVars, bands, armVars, numberVars, importVars, row, mark, student,
                 prefix, holder, job>>

InMath ==
  /\ \/ on = "places" /\ Places!Next
     \/ on = "scales" /\ Scales!Next
  /\ UNCHANGED <<on, dailyVars, schemeVars, armVars, numberVars, importVars, row, student,
                 prefix, holder, req, job>>

InArms ==
  /\ \/ on = "seatsOverlap" /\ SeatsOverlap!Next
     \/ on = "seatsChange" /\ SeatsChange!Next
  /\ UNCHANGED <<on, dailyVars, schemeVars, bands, numberVars, importVars, row, mark, prefix,
                 job>>

InNumbers ==
  /\ on = "numbers" /\ Admissions!Fixed
  /\ UNCHANGED <<on, dailyVars, schemeVars, bands, armVars, importVars, row, mark, student,
                 holder, req>>

InImport ==
  /\ \/ on = "import" /\ Import!Next
     \/ on = "importOverlap" /\ ImportOverlap!Next
  /\ UNCHANGED <<on, dailyVars, schemeVars, bands, armVars, numberVars, row, mark, student,
                 prefix, holder, req>>

Next ==
  \/ InFees \/ InCalendar \/ InGuardians \/ InSettings \/ InFiles \/ InReminders \/ InRegister
  \/ InScheme \/ InMath \/ InArms \/ InNumbers \/ InImport

Spec == Init /\ [][Next]_vars

-----------------------------------------------------------------------------
(***************************************************************************)
(* Types of every component, each while it is on.                          *)
(***************************************************************************)
TypeOK ==
  /\ on = "fees" => Fees!TypeOK
  /\ on = "feesOverlap" => FeesOverlap!TypeOK
  /\ on = "calendar" => Calendar!TypeOK
  /\ on = "calendarOverlap" => CalendarOverlap!TypeOK
  /\ on = "parents" => Parents!TypeOK
  /\ on = "parentsOverlap" => ParentsOverlap!TypeOK
  /\ on = "settings" => Setting!TypeOK
  /\ on = "settingsOverlap" => SettingOverlap!TypeOK
  /\ on = "files" => Store!TypeOK
  /\ on = "filesOverlap" => StoreOverlap!TypeOK
  /\ on = "reminders" => Dunning!TypeOK
  /\ on = "remindersFail" => DunningFails!TypeOK
  /\ on = "register" => Register!TypeOK
  /\ on = "registerOverlap" => RegisterOverlap!TypeOK
  /\ on = "scheme" => Scheme!TypeOK
  /\ on = "places" => Places!TypeOK
  /\ on = "scales" => Scales!TypeOK
  /\ on = "seatsOverlap" => SeatsOverlap!TypeOK
  /\ on = "seatsChange" => SeatsChange!TypeOK
  /\ on = "numbers" => Admissions!TypeOK
  /\ on = "import" => Import!TypeOK
  /\ on = "importOverlap" => ImportOverlap!TypeOK

(***************************************************************************)
(* There is one of what there must be one of: invoices of a structure for  *)
(* a student (though assignments overlap); the current session and term,   *)
(* and the period of a day; the guardian the school calls first, and the   *)
(* family a login is of.  (assign, setCurrent, assertNoOverlap,            *)
(* demoteOtherPrimaries, invite.)  And an import leaves one record for     *)
(* each parent.  (writeOnce.)                                              *)
(***************************************************************************)
OneOfEach ==
  /\ on = "feesOverlap" => FeesOverlap!BilledOnce
  /\ on = "calendar" => Calendar!OneCurrent /\ Calendar!NoDayIsShared
  /\ on = "parents" => Parents!OnePrimary /\ Parents!OneFamilyPerLogin
  /\ on = "import" => Import!OneRecordPerPhone

(***************************************************************************)
(* Nothing is done by halves, however requests overlap, fail or stop:      *)
(* invoices add up and nobody is left without one; a file on record has    *)
(* its bytes, inside the quota, and no others are left; a save of a        *)
(* register is there whole or not at all, and two of the same students do  *)
(* not mix; who is reminded is told in the portal as well; a scheme that   *)
(* is replaced row by row beside teachers who enter scores makes a whole;  *)
(* and an import leaves no parent whom no student needs.                   *)
(* (assign, upload, forget, save, send, replace, write.)                   *)
(***************************************************************************)
NothingByHalves ==
  /\ on = "fees" => Fees!NobodyIsMissed /\ Fees!SkippedNotFailed
  /\ on = "feesOverlap" => FeesOverlap!InvoicesAddUp /\ FeesOverlap!NobodyIsMissed
  /\ on = "files" => Store!RowsHaveBytes /\ Store!NothingIsLeft
  /\ on = "filesOverlap" => StoreOverlap!RowsHaveBytes /\ StoreOverlap!WithinQuota
  /\ on = "registerOverlap" => RegisterOverlap!RegisterIsWhole
  /\ on = "reminders" => Dunning!InboxToo
  /\ on = "scheme" => Scheme!PartsMakeWhole
  /\ on = "import" => Import!ParentsAreNeeded
  /\ on = "importOverlap" => ImportOverlap!ParentsAreNeeded

(***************************************************************************)
(* What is answered agrees with what is on file: who may edit a register,  *)
(* how its days add up, on which days a school opens, whatever row it has, *)
(* and that a login taken from a parent shows nothing.  (register, tally,  *)
(* isSchoolDay, PortalGuard.)  A pupil's place and average are those of    *)
(* the pupils and marks that count, a scale that is let through gives each *)
(* mark one grade, and a request for an admission number gives up only     *)
(* when others took one at each of its attempts.  (ranking.ts, grading.ts, *)
(* createWithGeneratedNumber.)                                             *)
(***************************************************************************)
AnswersAgree ==
  /\ on = "register" => Register!ScreenAgrees /\ Register!TallyAddsUp
  /\ on = "settings" => Setting!SomeDayIsOpen
  /\ on = "settingsOverlap" => SettingOverlap!SomeDayIsOpen
  /\ on = "parents" => Parents!RevokedStaysOut
  /\ on = "places" => Places!PlacesAreRight /\ Places!AveragesAreFair
  /\ on = "scales" => Scales!ScaleGradesAll
  /\ on = "numbers" => Admissions!GivesUpWhenBeaten

(***************************************************************************)
(* No step does what nobody asked for.  One request at a time: the items   *)
(* of a structure stay once it was invoiced, an archived one is neither    *)
(* published nor billed, and nobody who left is billed; a removal takes    *)
(* one period and the marker stays; a guardian goes only without children; *)
(* a setting stands until it is changed, and the record says which was;    *)
(* a new photo replaces the old and evidence stays; a scheme that scores   *)
(* were entered against keeps its marking; and an import writes what its   *)
(* dry run showed.  Though requests overlap: a staff login is left alone,  *)
(* settings read back, a promotion moves nobody who left the arm           *)
(* meanwhile, and an atomic file is written whole or not at all.           *)
(***************************************************************************)
OnlyWhatWasAsked ==
  [][/\ on = "fees" => /\ Fees!LockedOnceIssued
                       /\ Fees!ArchivedForGood
                       /\ Fees!OnlyPublishedIsBilled
                       /\ Fees!WithdrawnNeverBilled
     /\ on = "calendar" => Calendar!MarkerStays /\ Calendar!OnlyWhatWasAsked
     /\ on = "parents" => Parents!NobodyIsStripped /\ Parents!StaffKeepTheirLogin
     /\ on = "parentsOverlap" => ParentsOverlap!StaffKeepTheirLogin
     /\ on = "settings" => /\ Setting!ReadsBack
                           /\ Setting!ChangesStand
                           /\ Setting!RecordedAsItWas
     /\ on = "settingsOverlap" => SettingOverlap!ReadsBack
     /\ on = "files" => Store!OldPhotosGo /\ Store!PhotoIsThere /\ Store!EvidenceStays
     /\ on = "scheme" => Scheme!MarkingStands
     /\ on = "seatsOverlap" => SeatsOverlap!PromotionSparesLeavers
     /\ on = "seatsChange" => SeatsChange!PromotionSparesLeavers
     /\ on = "importOverlap" => ImportOverlap!AllOrNothing
     /\ on = "import" => Import!PreviewIsTrue]_vars

(***************************************************************************)
(* An e-mail is sent to the parents of those who owe what it asks, outside *)
(* the cooldown of the one before; and those whom none reached are tried   *)
(* again.  (applyCooldown, collectDebtors, deliver.)                       *)
(***************************************************************************)
RemindersAreDue ==
  [][/\ on = "reminders" => Dunning!NotTwice /\ Dunning!OnlyWhatIsOwed
     /\ on = "remindersFail" => DunningFails!FailedAreTriedAgain]_vars
=============================================================================
