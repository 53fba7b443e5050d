------------------------------- MODULE Settings -----------------------------
(***************************************************************************)
(* SchoolSettingsService: one row per school, read, merged with what a     *)
(* request names and written whole, and the week it keeps as a mask.       *)
(*                                                                         *)
(* The school's fields but the week are values it chooses among.           *)
(***************************************************************************)
EXTENDS Naturals, FiniteSets, FiniteSetsExt

CONSTANTS
  Field, Value, Default,  \* fields, what they may be, and DEFAULT_SETTINGS
  Bits, DefaultWeek,      \* days of the week, and DEFAULT_SCHOOL_DAYS_MASK
  OldMasks,               \* what a row of another age may hold
  Request, None,
  MayOverlap              \* two requests may be under way at once

SettingsAssumption ==
  /\ Bits \in Nat \ {0} /\ DefaultWeek \in 1..(2^Bits - 1) /\ OldMasks \subseteq Nat
  /\ Default \in Value /\ None \notin Value

VARIABLES
  row,    \* what is on file: each field, and the mask
  job,    \* what each request read and asks
  audit   \* what the last change was recorded to be

vars == <<row, job, audit>>

Day   == 0..(Bits - 1)
NoRow == [field |-> [f \in Field |-> None], mask |-> 0]
Idle  == [at |-> "none"]

-----------------------------------------------------------------------------
(* The week.                                                               *)

\* Bits outside the week are dropped, and an empty week is the default.
normaliseMask(mask) == IF mask % 2^Bits = 0 THEN DefaultWeek ELSE mask % 2^Bits

daysFromMask(mask) == {d \in Day : (normaliseMask(mask) \div 2^d) % 2 = 1}

maskFromDays(days) == MapThenSumSet(LAMBDA d : 2^d, days)

isSchoolDay(d, mask) == (normaliseMask(mask) \div 2^d) % 2 = 1

-----------------------------------------------------------------------------
(* Reading and writing.                                                    *)

\* A school with no row has the defaults.
current ==
  IF row = NoRow THEN [field |-> [f \in Field |-> Default], mask |-> DefaultWeek]
  ELSE [row EXCEPT !.mask = normaliseMask(@)]

view == [field |-> current.field, days |-> daysFromMask(current.mask)]

Init ==
  /\ row \in {NoRow} \cup [field : [Field -> {Default}], mask : OldMasks]
  /\ job = [q \in Request |-> Idle] /\ audit = {}

\* asked names the fields of the request; an empty week is refused.
Read(q, asked, days) ==
  /\ job[q] = Idle /\ (~MayOverlap => \A r \in Request : job[r] = Idle)
  /\ job' = [job EXCEPT ![q] = [at |-> "write", before |-> current, asked |-> asked, days |-> days]]
  /\ UNCHANGED <<row, audit>>

merged(before, asked, days) ==
  [field |-> [f \in Field |-> IF f \in DOMAIN asked THEN asked[f] ELSE before.field[f]],
   mask  |-> IF days = {} THEN before.mask ELSE maskFromDays(days)]

changed(j, after) ==
  {f \in Field : after.field[f] # j.before.field[f]}
    \cup (IF after.mask # j.before.mask THEN {"schoolDays"} ELSE {})

\* The upsert writes every field.
Write(q) ==
  /\ job[q].at = "write"
  /\ row' = merged(job[q].before, job[q].asked, job[q].days)
  /\ audit' = changed(job[q], row')
  /\ job' = [job EXCEPT ![q] = Idle]

Requests == UNION {[S -> Value] : S \in SUBSET Field}

Next ==
  \E q \in Request :
    \/ \E asked \in Requests, days \in SUBSET Day : Read(q, asked, days)
    \/ Write(q)

Spec == Init /\ [][Next]_vars

-----------------------------------------------------------------------------
(***************************************************************************)
(* Types.                                                                  *)
(***************************************************************************)
TypeOK ==
  /\ row.mask \in Nat /\ \A f \in Field : row.field[f] \in Value \cup {None}
  /\ current.mask \in 1..(2^Bits - 1)

(***************************************************************************)
(* A school always opens on some day, whatever row it has: "a school with  *)
(* no open day could never take a register again".  (normaliseMask,        *)
(* fromRow, isSchoolDay.)                                                  *)
(***************************************************************************)
SomeDayIsOpen ==
  /\ view.days # {} /\ view.days = {d \in Day : isSchoolDay(d, current.mask)}

Written(q) == job[q].at = "write" /\ job'[q] = Idle

(***************************************************************************)
(* "Takes effect from now on": what a request asks for is what is read     *)
(* back, days in place of the mask.  (update, view, maskFromDays.)         *)
(***************************************************************************)
\* Of every step.
ReadsBack ==
  \A q \in Request : Written(q) =>
    /\ \A f \in DOMAIN job[q].asked : view'.field[f] = job[q].asked[f]
    /\ job[q].days # {} => view'.days = job[q].days

(***************************************************************************)
(* A setting changes when a request asks for it, and stands until the next *)
(* that does.  Holds where no two requests overlap.  (update.)             *)
(***************************************************************************)
\* Of every step.
ChangesStand ==
  \A q \in Request : Written(q) =>
    /\ \A f \in Field \ DOMAIN job[q].asked : view'.field[f] = view.field[f]
    /\ job[q].days = {} => view'.days = view.days

(***************************************************************************)
(* The record of a change names the fields whose value did change: none    *)
(* for "a no-op".  Holds where no two requests overlap.  (update.)         *)
(***************************************************************************)
\* Of every step.
RecordedAsItWas ==
  \A q \in Request : Written(q) =>
    audit' = {f \in Field : view'.field[f] # view.field[f]}
               \cup (IF view'.days # view.days THEN {"schoolDays"} ELSE {})
=============================================================================
