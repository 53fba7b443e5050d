----------------------------- MODULE SheetPath -----------------------------
(***************************************************************************)
(* What a result sheet promises the people who read it: the path of the    *)
(* comment above ResultSheetsService, and which parts of a report card     *)
(* each stop on it fixes.  How a card (its students, marks and comments)   *)
(* is put together is the business of ResultSheets.                        *)
(***************************************************************************)
CONSTANTS
  Sheets,             \* the sheets: one for each arm, for one term
  Unmarked            \* the mark of a score nobody entered
VARIABLES
  status,             \* status[a], "ABSENT" before the first use of the sheet
  card                \* card[a], the snapshot with its comments

Fixed == {"SUBMITTED", "APPROVED", "PUBLISHED"}

PathInit == status = [a \in Sheets |-> "ABSENT"]

\* Scores, recomputations and the form teacher's and principal's comments.
Draft(a) == /\ status[a] \in {"ABSENT", "DRAFT"}
            /\ status' = [status EXCEPT ![a] = "DRAFT"]

\* The last recomputation: of somebody, and with every score.
Submit(a) == /\ status[a] = "DRAFT"
             /\ status' = [status EXCEPT ![a] = "SUBMITTED"]
             /\ card'[a].of # {}
             /\ \A c \in DOMAIN card'[a].marks : card'[a].marks[c] # Unmarked

Annotate(a) == /\ status[a] \in {"SUBMITTED", "APPROVED"}
               /\ card'[a].marks = card[a].marks
               /\ status[a] = "APPROVED" => card'[a].form = card[a].form
               /\ UNCHANGED status

Advance(a, from, to) == /\ status[a] = from
                        /\ status' = [status EXCEPT ![a] = to]
                        /\ card'[a] = card[a]

Return(a) == /\ status[a] \in Fixed
             /\ status' = [status EXCEPT ![a] = "DRAFT"]
             /\ card'[a] = card[a]

PathNext == \E a \in Sheets :
  /\ \/ Draft(a) \/ Submit(a) \/ Annotate(a) \/ Return(a)
     \/ Advance(a, "SUBMITTED", "APPROVED")
     \/ Advance(a, "APPROVED", "PUBLISHED")
  /\ \A b \in Sheets \ {a} : card'[b] = card[b]

PathSpec == PathInit /\ [][PathNext]_<<status, card>>
=============================================================================
