-------------------------- MODULE AcademicCalendar --------------------------
(***************************************************************************)
(* AcademicSessionsService and TermsService: a school's sessions, the      *)
(* terms of each, and which of them is current.  Both services are alike;  *)
(* a period here is a session, or a term of one.                           *)
(*                                                                         *)
(* A request checks first and writes later.  A transaction that moves the  *)
(* marker clears what its first statement found current and then sets its  *)
(* own; what others commit in between it does not find.                    *)
(*                                                                         *)
(* Names are left out.                                                     *)
(***************************************************************************)
EXTENDS Naturals, FiniteSets

CONSTANTS
  Session, Term, Request, None,
  Days,         \* the days of the calendar, 1..Days
  MayOverlap    \* two requests may be under way at once

CalendarAssumption == Days \in Nat /\ Session \cap Term = {} /\ None \notin Session

Period == Session \cup Term
Uses   == (Period \X {"fees"}) \cup (Term \X {"results"})

VARIABLES
  row,     \* of each period: its session, first and last day, and the marker
  used,    \* which periods fee structures and which terms results refer to
  job      \* what each request has checked

vars == <<row, used, job>>

NoRow == [of |-> None, start |-> 0, end |-> 0, current |-> FALSE]
Idle  == [at |-> "none"]

Init ==
  /\ row = [p \in Period |-> NoRow] /\ used = {} /\ job = [q \in Request |-> Idle]

OnFile(p)  == row[p] # NoRow
TermsOf(s) == {t \in Term : OnFile(t) /\ row[t].of = s}
Current(kind) == {p \in kind : row[p].current}

\* A fee structure of a term is one of its session too.
Priced(p) == <<p, "fees">> \in used \/ \E t \in TermsOf(p) : <<t, "fees">> \in used
Scored(p) == <<p, "results">> \in used

\* validateRange
Ranges == {r \in [start : 1..Days, end : 1..Days] : r.start < r.end}

\* rangesOverlap, rangeContains
Meet(a, b)   == a.start <= b.end /\ b.start <= a.end
Within(a, b) == b.start <= a.start /\ a.end <= b.end

\* Sessions keep apart, and so do the terms of one session.
Peers(p, of) == {x \in Period : OnFile(x) /\ row[x].of = of /\ x # p}
assertNoOverlap(p, of, r) == \A x \in Peers(p, of) : ~Meet(row[x], r)

\* The marker is one for the school's sessions and one for all of its terms.
Kind(p, of) == IF p \in Session THEN Session ELSE Term

-----------------------------------------------------------------------------
(* The checks.                                                             *)

Calm    == \A q \in Request : job[q] = Idle
Free(q) == job[q] = Idle /\ (~MayOverlap => Calm)

Take(q, what) == job' = [job EXCEPT ![q] = what] /\ UNCHANGED <<row, used>>

Create(q, p, of, r, current) ==
  /\ Free(q) /\ ~OnFile(p) /\ \A o \in Request : job[o] # Idle => job[o].p # p
  /\ IF p \in Session THEN of = None
     ELSE of \in Session /\ OnFile(of) /\ Within(r, row[of]) /\ (current => row[of].current)
  /\ assertNoOverlap(p, of, r)
  /\ Take(q, [at |-> IF current THEN "clear" ELSE "write", op |-> "create", p |-> p,
              seen |-> {}, row |-> [of |-> of, start |-> r.start, end |-> r.end,
                                    current |-> current]])

\* Without new dates the old ones are not compared, and written again.
Update(q, p, r) ==
  /\ Free(q) /\ OnFile(p)
  /\ p \in Term => Within(r, row[row[p].of])
  /\ <<r.start, r.end>> # <<row[p].start, row[p].end>> => assertNoOverlap(p, row[p].of, r)
  /\ Take(q, [at |-> "write", op |-> "update", p |-> p, seen |-> {},
              row |-> [row[p] EXCEPT !.start = r.start, !.end = r.end]])

SetCurrent(q, p) ==
  /\ Free(q) /\ OnFile(p)
  /\ p \in Term => row[row[p].of].current
  /\ Take(q, [at |-> "clear", op |-> "current", p |-> p, seen |-> {}, row |-> row[p]])

\* The period with its terms, then what is priced by it, then a term's results.
Remove(q, p) ==
  /\ Free(q) /\ OnFile(p) /\ ~row[p].current /\ TermsOf(p) = {}
  /\ Take(q, [at |-> "fees", op |-> "remove", p |-> p, seen |-> {}, row |-> row[p]])

CountFees(q) ==
  /\ job[q].at = "fees"
  /\ Take(q, IF Priced(job[q].p) THEN Idle
             ELSE [job[q] EXCEPT !.at = IF job[q].p \in Term THEN "results" ELSE "write"])

CountResults(q) ==
  /\ job[q].at = "results"
  /\ Take(q, IF Scored(job[q].p) THEN Idle ELSE [job[q] EXCEPT !.at = "write"])

-----------------------------------------------------------------------------
(* The writes.                                                             *)

\* updateMany finds the rows that are current as it begins.
Clear(q) ==
  /\ job[q].at = "clear"
  /\ job' = [job EXCEPT ![q].at = "write", ![q].seen = Current(Kind(job[q].p, job[q].row.of))]
  /\ UNCHANGED <<row, used>>

Writes(q, op) == job[q].at = "write" /\ job[q].op = op

Done(q) == job' = [job EXCEPT ![q] = Idle]

Cleared(q) == [p \in Period |-> IF p \in job[q].seen THEN [row[p] EXCEPT !.current = FALSE] ELSE row[p]]

\* A bug: a term of a session that is not on file.
WriteAnyCreate(q) ==
  /\ Writes(q, "create")
  /\ row' = [Cleared(q) EXCEPT ![job[q].p] = job[q].row] /\ Done(q) /\ UNCHANGED used

WriteCreate(q) ==
  /\ Writes(q, "create") /\ (job[q].p \in Term => OnFile(job[q].row.of))
  /\ row' = [Cleared(q) EXCEPT ![job[q].p] = job[q].row] /\ Done(q) /\ UNCHANGED used

WriteUpdate(q) ==
  /\ Writes(q, "update") /\ OnFile(job[q].p)
  /\ row' = [row EXCEPT ![job[q].p].start = job[q].row.start, ![job[q].p].end = job[q].row.end]
  /\ Done(q) /\ UNCHANGED used

WriteCurrent(q) ==
  /\ Writes(q, "current") /\ OnFile(job[q].p)
  /\ row' = [Cleared(q) EXCEPT ![job[q].p].current = TRUE] /\ Done(q) /\ UNCHANGED used

\* The terms of a session go with it and the fee structures with both; invoices
\* of a structure, scores and sheets stand in the way.
WithTerms(p) == {p} \cup TermsOf(p)
UsesOf(p)    == {u \in used : u[1] \in WithTerms(p)}

WriteRemove(q) ==
  /\ Writes(q, "remove") /\ OnFile(job[q].p) /\ \A x \in WithTerms(job[q].p) : ~Scored(x)
  /\ row' = [p \in Period |-> IF p \in WithTerms(job[q].p) THEN NoRow ELSE row[p]]
  /\ used' = used \ UsesOf(job[q].p)
  /\ Done(q)

\* The period, or the session of a new term, is gone by now, or a period to be
\* removed is in use.
Fail(q) ==
  /\ job[q].at = "write"
  /\ \/ job[q].op = "create" /\ job[q].p \in Term /\ ~OnFile(job[q].row.of)
     \/ job[q].op # "create" /\ ~OnFile(job[q].p)
     \/ job[q].op = "remove" /\ UsesOf(job[q].p) # {}
  /\ Done(q) /\ UNCHANGED <<row, used>>

\* A fee structure, or a term's score or sheet.
Use(p, kind) ==
  /\ ~MayOverlap => Calm
  /\ OnFile(p) /\ <<p, kind>> \in Uses
  /\ used' = used \cup {<<p, kind>>} /\ UNCHANGED <<row, job>>

Next ==
  \/ \E q \in Request, p \in Period :
       \/ \E of \in Session \cup {None}, r \in Ranges, current \in BOOLEAN :
            Create(q, p, of, r, current)
       \/ \E r \in Ranges : Update(q, p, r)
       \/ SetCurrent(q, p) \/ Remove(q, p)
  \/ \E q \in Request : \/ Clear(q) \/ WriteCreate(q) \/ WriteUpdate(q) \/ WriteCurrent(q)
                        \/ CountFees(q) \/ CountResults(q) \/ WriteRemove(q) \/ Fail(q)
  \/ \E p \in Period, kind \in {"fees", "results"} : Use(p, kind)

Spec == Init /\ [][Next]_vars

-----------------------------------------------------------------------------
(***************************************************************************)
(* Types; a period has days, and a term has a session on file.             *)
(***************************************************************************)
TypeOK ==
  /\ \A p \in Period : OnFile(p) => 0 < row[p].start /\ row[p].start < row[p].end
  /\ \A t \in Term : OnFile(t) => row[t].of \in Session /\ OnFile(row[t].of)
  /\ \A u \in used : u \in Uses /\ OnFile(u[1])

(***************************************************************************)
(* "Exactly one session is current per school", and one term: never two.   *)
(* Holds where no two requests overlap.  (create, setCurrent.)             *)
(***************************************************************************)
OneCurrent ==
  Cardinality(Current(Session)) <= 1 /\ Cardinality(Current(Term)) <= 1

(***************************************************************************)
(* Once there is a current session there is one ever after, and so it is   *)
(* with terms.  Holds where no two requests overlap.  (remove.)            *)
(***************************************************************************)
\* Of every step.
MarkerStays ==
  /\ Current(Session) # {} => Current(Session)' # {}
  /\ Current(Term) # {} => Current(Term)' # {}

(***************************************************************************)
(* "A school cannot be running two sessions on the same day", nor two      *)
(* terms of a session.  Holds where no two requests overlap.               *)
(* (assertNoOverlap.)                                                      *)
(***************************************************************************)
NoDayIsShared ==
  \A p \in Period : OnFile(p) =>
    \A x \in Peers(p, row[p].of) :
      \A d \in 1..Days : ~(d \in row[p].start..row[p].end /\ d \in row[x].start..row[x].end)

(***************************************************************************)
(* "Terms cascade at the database level, so refuse rather than silently    *)
(* deleting": a removal takes one period and nothing that is in use.       *)
(* Holds where no two requests overlap.  (remove.)                         *)
(***************************************************************************)
\* Of every step.
OnlyWhatWasAsked ==
  LET gone == {p \in Period : OnFile(p) /\ row'[p] = NoRow} IN
  Cardinality(gone) <= 1 /\ \A u \in used : u[1] \notin gone

(***************************************************************************)
(* "The current term and current session must agree".                      *)
(* (assertSessionIsCurrent, AcademicSessionsService.setCurrent.)           *)
(***************************************************************************)
CurrentsAgree == \A t \in Current(Term) : row[row[t].of].current

(***************************************************************************)
(* "A term outside its session's dates would break every date-driven       *)
(* report."  (assertWithinSession, AcademicSessionsService.update.)        *)
(***************************************************************************)
TermsWithinSessions == \A t \in Term : OnFile(t) => Within(row[t], row[row[t].of])

(***************************************************************************)
(* Why they hold.  A period is a session, or a term of a session on file.  *)
(* One request at a time, what a request has checked is still so when it   *)
(* writes: its days are free, and whom it found current still is.          *)
(***************************************************************************)
Dated == [of : Session \cup {None}, start : 1..Days, end : 1..Days, current : BOOLEAN]

Placed(p, r) == /\ r \in Dated /\ r.start < r.end
                /\ p \in Session => r.of = None
                /\ p \in Term => r.of \in Session

JobOK(j) ==
  \/ j = Idle
  \/ /\ j \in [at : {"clear", "fees", "results", "write"}, p : Period, seen : SUBSET Period,
               op : {"create", "update", "current", "remove"}, row : Dated]
     /\ Placed(j.p, j.row)

Typed ==
  /\ row = [p \in Period |-> row[p]] /\ \A p \in Period : OnFile(p) => Placed(p, row[p])
  /\ \A t \in Term : OnFile(t) => OnFile(row[t].of)
  /\ \A u \in used : u \in Uses /\ OnFile(u[1])
  /\ job = [q \in Request |-> job[q]] /\ \A q \in Request : JobOK(job[q])

Moves(j) == j.op = "current" \/ (j.op = "create" /\ j.row.current)

Checked(j) ==
  /\ j.op = "create" => ~OnFile(j.p) /\ (j.p \in Term => OnFile(j.row.of))
  /\ j.op # "create" => OnFile(j.p) /\ j.row.of = row[j.p].of
  /\ j.op \in {"create", "update"} => assertNoOverlap(j.p, j.row.of, j.row)
  /\ j.op = "remove" => /\ ~row[j.p].current /\ TermsOf(j.p) = {}
                        /\ j.at # "fees" => ~Priced(j.p)
                        /\ j.at = "write" => ~Scored(j.p)
  /\ j.at \in {"fees", "results"} => j.op = "remove"
  /\ j.at = "clear" => Moves(j)
  /\ j.at # "clear" => j.seen = IF Moves(j) THEN Current(Kind(j.p, j.row.of)) ELSE {}

OneEach == \A p, x \in Period :
  row[p].current /\ row[x].current /\ (p \in Session <=> x \in Session) => p = x

Apart == \A p \in Period : OnFile(p) => assertNoOverlap(p, row[p].of, row[p])

AloneInv ==
  /\ \A p, q \in Request : job[p] # Idle /\ job[q] # Idle => p = q
  /\ \A q \in Request : job[q] # Idle => Checked(job[q])
  /\ OneEach /\ Apart
=============================================================================
