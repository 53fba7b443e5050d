----------------------------- MODULE ResultMath -----------------------------
(***************************************************************************)
(* The arithmetic of results: computeResults, competitionRank, gradeFor    *)
(* and validateGradeBands, over every table of marks in bounds.            *)
(*                                                                         *)
(* Marks are integers, in parts of Unit to a whole mark: a hundredth in    *)
(* the source, where scores and averages have two decimal places.          *)
(***************************************************************************)
EXTENDS Integers, Sequences, FiniteSets, SequencesExt, FiniteSetsExt

CONSTANTS
  Pupil,
  Subject, Elective,  \* Elective: those that are not compulsory
  Top,                \* the largest total, in whole marks: 100 in the source
  Unit,               \* parts of a whole mark: 100 in the source
  MaxBands, None

VARIABLES
  mark,               \* mark[p][u]: the total of a subject, None without scores
  bands               \* the scale: [lo, hi] in whole marks

vars == <<mark, bands>>

MathAssumption ==
  /\ {Top, Unit} \subseteq Nat \ {0} /\ MaxBands \in Nat
  /\ Elective \subseteq Subject
  /\ None \notin 0..(Top * Unit)

Band == [lo : 0..(Top + 1), hi : 0..(Top + 1)]

-----------------------------------------------------------------------------
(* grading.ts and ranking.ts.                                              *)

\* Sorted by where they start; no two start together unless they overlap.
Sorted(scale) == SetToSortSeq(scale, LAMBDA b, c : b.lo < c.lo)

ValidBands(scale) ==
  /\ scale # {}
  /\ \A b \in scale : b.lo <= b.hi
  /\ LET sorted == Sorted(scale) IN
     /\ sorted[1].lo = 0
     /\ \A i \in 2..Len(sorted) : sorted[i].lo = sorted[i - 1].hi + 1
     /\ sorted[Len(sorted)].hi = Top

\* The bands a total falls in by whole marks; the code takes the first.
GradesFor(total, scale) == {b \in scale : b.lo <= total \div Unit /\ total \div Unit <= b.hi}

\* Sorts downwards and walks the list; equal values keep the place of the first.
CompetitionRank(value) ==
  LET sorted == SetToSortSeq(DOMAIN value, LAMBDA p, q : value[p] > value[q])
      place[i \in DOMAIN sorted] ==
        IF i > 1 /\ value[sorted[i]] = value[sorted[i - 1]] THEN place[i - 1] ELSE i
  IN  [p \in DOMAIN value |-> place[CHOOSE i \in DOMAIN sorted : sorted[i] = p]]

-----------------------------------------------------------------------------
(* compute-results.ts.                                                     *)

TakenBy(p) == {u \in Subject : u \notin Elective \/ mark[p][u] # None}

\* A missing compulsory score counts as zero.
TotalOf(p, u) == IF mark[p][u] = None THEN 0 ELSE mark[p][u]

HalfUp(sum, n) == (2 * sum + n) \div (2 * n)

Average(p) == IF TakenBy(p) = {} THEN 0
              ELSE HalfUp(MapThenSumSet(LAMBDA u : TotalOf(p, u), TakenBy(p)),
                          Cardinality(TakenBy(p)))

\* Only those who take a subject have a place in the class.
Ranked    == {p \in Pupil : TakenBy(p) # {}}
ClassRank == CompetitionRank([p \in Ranked |-> Average(p)])

Takers(u)      == {p \in Pupil : u \in TakenBy(p)}
SubjectRank(u) == CompetitionRank([p \in Takers(u) |-> TotalOf(p, u)])

\* Class statistics of a subject somebody takes.
Stats(u) == LET totals == {TotalOf(p, u) : p \in Takers(u)} IN
            [highest |-> Max(totals), lowest |-> Min(totals),
             average |-> HalfUp(MapThenSumSet(LAMBDA p : TotalOf(p, u), Takers(u)),
                                Cardinality(Takers(u)))]

-----------------------------------------------------------------------------
Init == /\ mark = [p \in Pupil |-> [u \in Subject |-> None]]
        /\ bands = {}

Enter(p, u, m) == mark' = [mark EXCEPT ![p][u] = m] /\ UNCHANGED bands

SetBands(b) == /\ Cardinality(bands \cup {b}) <= MaxBands
               /\ bands' = bands \cup {b} /\ UNCHANGED mark

Next == \/ \E p \in Pupil, u \in Subject, m \in 0..(Top * Unit) : Enter(p, u, m)
        \/ \E b \in Band : SetBands(b)

Spec == Init /\ [][Next]_vars

-----------------------------------------------------------------------------
TypeOK == /\ mark \in [Pupil -> [Subject -> 0..(Top * Unit) \cup {None}]]
          /\ bands \subseteq Band

(***************************************************************************)
(* The place of a pupil is one more than the number of those above, in the *)
(* class and in each subject: "1st, 2nd, 2nd, 4th".  (competitionRank.)    *)
(***************************************************************************)
Places(rank, value(_)) == \A p \in DOMAIN rank :
  rank[p] = 1 + Cardinality({q \in DOMAIN rank : value(q) > value(p)})

PlacesAreRight ==
  /\ Places(ClassRank, Average)
  /\ \A u \in Subject : Places(SubjectRank(u), LAMBDA p : TotalOf(p, u))

(***************************************************************************)
(* A pupil who is at least as good in every subject both take, and takes   *)
(* the same subjects, is not placed behind; an average lies between the    *)
(* lowest and highest total it is of.  (computeResults.)                   *)
(***************************************************************************)
AveragesAreFair ==
  /\ \A p, q \in Ranked :
       /\ TakenBy(p) = TakenBy(q)
       /\ \A u \in TakenBy(p) : TotalOf(p, u) >= TotalOf(q, u)
       => ClassRank[p] <= ClassRank[q]
  /\ \A p \in Ranked : LET totals == {TotalOf(p, u) : u \in TakenBy(p)} IN
       Min(totals) <= Average(p) /\ Average(p) <= Max(totals)
  /\ \A u \in Subject : Takers(u) # {} =>
       Stats(u).lowest <= Stats(u).average /\ Stats(u).average <= Stats(u).highest

(***************************************************************************)
(* A scale is let through exactly when every total has one grade.          *)
(* (validateGradeBands, gradeFor.)                                         *)
(***************************************************************************)
ScaleGradesAll ==
  ValidBands(bands) <=>
    /\ \A total \in 0..(Top * Unit) : Cardinality(GradesFor(total, bands)) = 1
    /\ \A b \in bands : b.lo <= b.hi /\ b.hi <= Top
=============================================================================
