----------------------------- MODULE Assessment -----------------------------
(***************************************************************************)
(* AssessmentService: how a school sets its assessment scheme and grading  *)
(* scale, beside the teachers who enter scores against the components.     *)
(*                                                                         *)
(* Both tables hold parts that must make up a whole: components worth 100  *)
(* marks together, bands that cover 0 to 100 once.  A part is its name and *)
(* its size.  Transactions are READ COMMITTED: deleteMany deletes the rows *)
(* committed when it began, waiting for those another one is deleting.     *)
(***************************************************************************)
EXTENDS Integers, Sequences, FiniteSets

CONSTANTS
  Table,        \* a subset of {"components", "bands"}
  Whole,        \* the hundred marks
  Name,
  Default,      \* DEFAULT_ASSESSMENT_COMPONENTS, WAEC_GRADE_BANDS
  Request, MaxRows,
  MayOverlap    \* two administrators configure at once

VARIABLES
  rows,         \* rows[t]: what the table holds
  scored,       \* ids of the components scores were entered against
  nextId,       \* the next row id, at most MaxRows
  req           \* req[r]: a request and its local variables

vars == <<rows, scored, nextId, req>>

Row  == [id : 1..MaxRows, at : Nat, name : Name, size : 1..Whole]
Idle == [at |-> "idle"]

Total(sizes) == LET sum[i \in 0..Len(sizes)] == IF i = 0 THEN 0 ELSE sizes[i] + sum[i - 1]
                IN  sum[Len(sizes)]

\* What validateAssessmentScheme and validateGradeBands let through.
Valid(parts) == /\ parts # <<>>
                /\ \A i, j \in DOMAIN parts : parts[i].name = parts[j].name => i = j
                /\ Total([i \in DOMAIN parts |-> parts[i].size]) = Whole

Config == {parts \in UNION {[1..n -> [name : Name, size : 1..Whole]] :
                              n \in 1..Cardinality(Name)} : Valid(parts)}

AssessmentAssumption ==
  /\ Table \subseteq {"components", "bands"} /\ Default \in Config
  /\ Whole \in Nat /\ MaxRows \in Nat /\ MayOverlap \in BOOLEAN

TypeOK ==
  /\ \A t \in Table : \A row \in rows[t] : row \in Row
  /\ scored \subseteq 1..MaxRows /\ nextId \in 1..(MaxRows + 1)
  /\ \A r \in Request :
       req[r].at \in {"idle", "count", "rename", "unscored", "delete", "deleted", "counted",
                      "score"}

Init ==
  /\ rows = [t \in Table |-> {}] /\ scored = {} /\ nextId = 1
  /\ req = [r \in Request |-> Idle]

Finish(r) == req' = [req EXCEPT ![r] = Idle]
Fail(r)   == Finish(r) /\ UNCHANGED <<rows, scored, nextId>>

Ids(t) == {row.id : row \in rows[t]}

BeingDeleted(id) == \E q \in Request : req[q].at = "deleted" /\ id \in req[q].seen

Configuring == {"count", "rename", "unscored", "delete", "deleted", "counted"}

Begin(r) == /\ req[r] = Idle
            /\ MayOverlap \/ \A q \in Request : req[q].at \notin Configuring

\* createMany in table t, where kept is left of it: names are unique.
Created(t, kept, parts) ==
  /\ {row.name : row \in kept} \cap {parts[i].name : i \in DOMAIN parts} = {}
  /\ nextId + Len(parts) <= MaxRows + 1
  /\ rows' = [rows EXCEPT ![t] = kept \cup
                {[id |-> nextId + i - 1, at |-> i, name |-> parts[i].name,
                  size |-> parts[i].size] : i \in DOMAIN parts}]
  /\ nextId' = nextId + Len(parts)
  /\ UNCHANGED scored

-----------------------------------------------------------------------------
(* setScheme and setGrading.                                               *)

\* The components in their order, ties as they come.
Ordered(set) ==
  {seq \in [1..Cardinality(set) -> set] :
     \A i, j \in DOMAIN seq : i < j => seq[i].id # seq[j].id /\ seq[i].at <= seq[j].at}

SetScheme(r, parts) ==
  /\ Begin(r) /\ "components" \in Table
  /\ \E existing \in Ordered(rows["components"]) :
       req' = [req EXCEPT ![r] = [at |-> "count", parts |-> parts, existing |-> existing]]
  /\ UNCHANGED <<rows, scored, nextId>>

SameShape(existing, parts) ==
  /\ Len(existing) = Len(parts)
  /\ \A i \in DOMAIN parts : existing[i].size = parts[i].size

Replacing(t, parts) == [at |-> "unscored", table |-> t, parts |-> parts]

\* Once there are scores only names may change; without any the scheme is replaced.
CountScores(r) ==
  /\ req[r].at = "count"
  /\ LET same == SameShape(req[r].existing, req[r].parts) IN
     req' = [req EXCEPT ![r] = IF scored = {} THEN Replacing("components", @.parts)
                               ELSE IF same THEN [@ EXCEPT !.at = "rename"] ELSE Idle]
  /\ UNCHANGED <<rows, scored, nextId>>

NewName(r, i) == req[r].parts[i].name

\* All names in one transaction, which waits for whoever deletes one of the rows
\* and fails when one is gone or another row has the name.
Rename(r) ==
  /\ req[r].at = "rename"
  /\ LET existing == req[r].existing
         ids      == {existing[i].id : i \in DOMAIN existing}
         others   == {row.name : row \in {x \in rows["components"] : x.id \notin ids}}
         clash    == \E i \in DOMAIN existing : NewName(r, i) \in others IN
     /\ \A id \in ids : ~BeingDeleted(id)
     /\ IF ids \subseteq Ids("components") /\ ~clash
        THEN rows' = [rows EXCEPT !["components"] =
               {IF row.id \in ids
                THEN [row EXCEPT !.name = NewName(r, CHOOSE i \in DOMAIN existing :
                                                       existing[i].id = row.id)]
                ELSE row : row \in @}]
        ELSE UNCHANGED rows
  /\ Finish(r) /\ UNCHANGED <<scored, nextId>>

SetGrading(r, parts) ==
  /\ Begin(r) /\ "bands" \in Table
  /\ req' = [req EXCEPT ![r] = Replacing("bands", parts)]
  /\ UNCHANGED <<rows, scored, nextId>>

\* A bug: the new parts are added to the old ones.
DeleteNone(r) ==
  /\ req[r].at = "unscored"
  /\ req' = [req EXCEPT ![r] = [at |-> "delete", table |-> @.table, parts |-> @.parts, seen |-> {}]]
  /\ UNCHANGED <<rows, scored, nextId>>

\* deleteMany begins, with the rows committed by now.
Delete(r) ==
  /\ req[r].at = "unscored"
  /\ req' = [req EXCEPT ![r] = [at |-> "delete", table |-> @.table, parts |-> @.parts,
                                seen |-> Ids(@.table)]]
  /\ UNCHANGED <<rows, scored, nextId>>

\* It gets the rows that are left once nobody else is deleting them; a
\* component with a score cannot be deleted.
Deleted(r) ==
  /\ req[r].at = "delete"
  /\ \A id \in req[r].seen : ~BeingDeleted(id)
  /\ LET gone == req[r].seen \cap Ids(req[r].table) IN
     \/ /\ gone \cap scored # {}
        /\ Fail(r)
     \/ /\ gone \cap scored = {}
        /\ req' = [req EXCEPT ![r].at = "deleted", ![r].seen = gone]
        /\ UNCHANGED <<rows, scored, nextId>>

Create(r) ==
  /\ req[r].at = "deleted"
  /\ \/ Created(req[r].table, {row \in rows[req[r].table] : row.id \notin req[r].seen},
                req[r].parts) /\ Finish(r)
     \/ Fail(r)

-----------------------------------------------------------------------------
(* setupDefaults: counts, then creates, in no transaction.                 *)

SetupDefaults(r, t) ==
  /\ Begin(r) /\ rows[t] = {}
  /\ req' = [req EXCEPT ![r] = [at |-> "counted", table |-> t]]
  /\ UNCHANGED <<rows, scored, nextId>>

CreateDefaults(r) ==
  /\ req[r].at = "counted"
  /\ \/ Created(req[r].table, rows[req[r].table], Default) /\ Finish(r)
     \/ Fail(r)

-----------------------------------------------------------------------------
(* ScoresService.save: the component is read, then referred to.            *)

ScoreValidate(r, row) ==
  /\ req[r] = Idle /\ "components" \in Table /\ row \in rows["components"]
  /\ req' = [req EXCEPT ![r] = [at |-> "score", id |-> row.id]]
  /\ UNCHANGED <<rows, scored, nextId>>

\* The foreign key: it waits for a deletion, and fails when the row is gone.
ScoreInsert(r) ==
  /\ req[r].at = "score"
  /\ ~BeingDeleted(req[r].id)
  /\ scored' = scored \cup ({req[r].id} \cap Ids("components"))
  /\ Finish(r)
  /\ UNCHANGED <<rows, nextId>>

ScoreDelete == /\ \E id \in scored : scored' = scored \ {id}
               /\ UNCHANGED <<rows, nextId, req>>

Next ==
  \/ \E r \in Request :
       \/ \E parts \in Config : SetScheme(r, parts) \/ SetGrading(r, parts)
       \/ CountScores(r) \/ Rename(r)
       \/ \E t \in Table : SetupDefaults(r, t)
       \/ Delete(r) \/ Deleted(r) \/ Create(r) \/ CreateDefaults(r) \/ ScoreInsert(r)
       \/ \E row \in UNION {rows[t] : t \in Table} : ScoreValidate(r, row)
  \/ ScoreDelete

Spec == Init /\ [][Next]_vars

-----------------------------------------------------------------------------
(***************************************************************************)
(* A table is empty or its parts make up the whole: a total is always a    *)
(* percentage, and every total has one grade.  Holds with one              *)
(* administrator at a time; two who replace it, or one beside              *)
(* setupDefaults, leave the parts of both.                                 *)
(***************************************************************************)
SumOf(set) ==
  LET sum[s \in SUBSET set] ==
        IF s = {} THEN 0 ELSE LET x == CHOOSE x \in s : TRUE IN x.size + sum[s \ {x}]
  IN  sum[set]

PartsMakeWhole == \A t \in Table : rows[t] = {} \/ SumOf(rows[t]) = Whole

(***************************************************************************)
(* "Once any score exists, the marks are what those scores were entered    *)
(* against, so only names may change", whatever was counted before the     *)
(* transaction that replaces the components.                               *)
(***************************************************************************)
Marking == {<<row.id, row.size>> : row \in rows["components"]}

\* Of every step.
MarkingStands == scored # {} => Marking' = Marking
=============================================================================
