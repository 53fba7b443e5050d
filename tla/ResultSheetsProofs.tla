-------------------------- MODULE ResultSheetsProofs --------------------------
(***************************************************************************)
(* Proofs about scores and result sheets, for any school: any number of    *)
(* arms, students, subjects and requests.  First the locks; then that a    *)
(* sheet follows its path, whatever happens; then that what it shows is    *)
(* what the scores say, while the students of its sheets stay.             *)
(***************************************************************************)
EXTENDS ResultSheets, TLAPS

-----------------------------------------------------------------------------
(* Requests and locks. *)

\* What a request is, by what it does.
LEMMA JobIs ==
  ASSUME TablesOK, NEW r \in Request
  PROVE  /\ req[r] \in Jobs
         /\ req[r].op = "save" =>
              /\ req[r].at \in {"valid", "locked"} /\ req[r].arm \in Arm
              /\ req[r].cell \in Cell /\ req[r].mark \in Mark \cup {None}
              /\ [req[r] EXCEPT !.at = "locked"] \in Jobs
              /\ [req[r] EXCEPT !.at = "locked"].op = "save"
              /\ [req[r] EXCEPT !.at = "locked"].arm = req[r].arm
              /\ [req[r] EXCEPT !.at = "locked"].cell = req[r].cell
         /\ req[r].op \in {"compute", "submit"} => req[r].arm \in Arm /\ req[r].in \in Reading
         /\ req[r].op = "publish" => req[r].arm \in Arm
         /\ req[r].op = "withdraw" => req[r].class \in Class /\ req[r].subject \in Subject
<1> DEFINE Save  == [op : {"save"}, at : {"valid", "locked"}, arm : Arm, cell : Cell,
                     mark : Mark \cup {None}]
           Comp  == [op : {"compute", "submit"}, arm : Arm, in : Reading]
           Pub   == [op : {"publish"}, arm : Arm]
           Draws == [op : {"withdraw"}, class : Class, subject : Subject]
<1>1. req[r] \in Jobs
  BY DEF TablesOK
<1>2. req[r] = [op |-> "none"] \/ req[r] \in Save \/ req[r] \in Comp \/ req[r] \in Pub
      \/ req[r] \in Draws
  BY <1>1 DEF Jobs, Idle
<1>3. CASE req[r] = [op |-> "none"]
  BY <1>1, <1>3
<1>4. CASE req[r] \in Save
  <2>1. [req[r] EXCEPT !.at = "locked"] \in Save
    BY <1>4
  <2> QED
    BY <1>1, <1>4, <2>1 DEF Jobs
<1>5. CASE req[r] \in Comp
  BY <1>1, <1>5
<1>6. CASE req[r] \in Pub
  BY <1>1, <1>6
<1>7. CASE req[r] \in Draws
  BY <1>1, <1>7
<1> QED
  BY <1>2, <1>3, <1>4, <1>5, <1>6, <1>7

\* A step of one request leaves every lock of the others, and their sheets, alone.
LEMMA OneMoves ==
  ASSUME SheetsAssumption, Inductive, NEW r \in Request, NEW job \in Jobs,
         req' = [req EXCEPT ![r] = job], TablesOK', LockInv(r)',
         \A a \in Arm : holder[a] \in Request \ {r} =>
           holder'[a] = holder[a] /\ status'[a] = status[a]
  PROVE  Inductive'
<1>1. \A q \in Request \ {r} : req'[q] = req[q]
  BY DEF Inductive, TablesOK
<1>2. ASSUME NEW q \in Request \ {r} PROVE LockInv(q)'
  <2>1. SUFFICES ASSUME InTransaction(q)
                 PROVE  /\ holder'[req[q].arm] = q
                        /\ status'[req[q].arm] \in Drafts
                        /\ req[q].op = "submit" => status'[req[q].arm] = "DRAFT"
    BY <1>1 DEF LockInv, InTransaction
  <2>2. /\ holder[req[q].arm] = q /\ req[q].arm \in Arm
        /\ status[req[q].arm] \in Drafts
        /\ req[q].op = "submit" => status[req[q].arm] = "DRAFT"
    BY <2>1, JobIs DEF Inductive, LockInv, InTransaction
  <2> QED
    BY <2>2
<1> QED
  BY <1>2 DEF Inductive

\* Nobody's step leaves every lock alone.
LEMMA NoneMoves ==
  ASSUME SheetsAssumption, Inductive, req' = req, holder' = holder, TablesOK',
         \A a \in Arm : holder[a] # None => status'[a] = status[a]
  PROVE  Inductive'
<1>1. ASSUME NEW q \in Request PROVE LockInv(q)'
  <2>1. SUFFICES ASSUME InTransaction(q)
                 PROVE  /\ holder[req[q].arm] = q
                        /\ status'[req[q].arm] \in Drafts
                        /\ req[q].op = "submit" => status'[req[q].arm] = "DRAFT"
    BY DEF LockInv, InTransaction
  <2>2. /\ holder[req[q].arm] = q /\ req[q].arm \in Arm
        /\ status[req[q].arm] \in Drafts
        /\ req[q].op = "submit" => status[req[q].arm] = "DRAFT"
    BY <2>1, JobIs DEF Inductive, LockInv, InTransaction
  <2>3. q # None
    BY DEF SheetsAssumption
  <2> QED
    BY <2>2, <2>3
<1> QED
  BY <1>1 DEF Inductive

\* A request that touches no table.
LEMMA SameTables ==
  ASSUME TablesOK, UNCHANGED tables, holder' \in [Arm -> Request \cup {None}],
         req' \in [Request -> Jobs]
  PROVE  TablesOK'
BY DEF TablesOK, tables, CardInv

\* An error or a crash gives up what the request held, and nothing else.
LEMMA Refused ==
  ASSUME SheetsAssumption, Inductive, NEW r \in Request,
         Crash(r) \/ \E a \in Arm : Refuse(r, a)
  PROVE  Inductive'
<1>0. TablesOK
  BY DEF Inductive
<1>1. /\ req' = [req EXCEPT ![r] = Idle] /\ UNCHANGED tables
      /\ holder' \in [Arm -> Request \cup {None}]
      /\ \A a \in Arm : holder[a] \in Request \ {r} => holder'[a] = holder[a]
  BY <1>0 DEF Crash, Refuse, Finish, TablesOK
<1>2. Idle \in Jobs
  BY DEF Jobs
<1>3. TablesOK'
  BY <1>0, <1>1, <1>2, SameTables DEF TablesOK
<1>4. LockInv(r)'
  BY <1>0, <1>1 DEF LockInv, InTransaction, Idle, TablesOK
<1> QED
  BY <1>1, <1>2, <1>3, <1>4, OneMoves DEF tables

\* lockDraft: the row of a draft, or an error.
LEMMA Locks ==
  ASSUME SheetsAssumption, Inductive, NEW r \in Request, NEW a \in Arm, NEW job \in Jobs,
         LockDraft(r, a, job), job.arm = a,
         job.op = "save" \/ job.op = "compute" \/ (job.op = "submit" /\ status[a] # "ABSENT")
  PROVE  Inductive'
<1>0. TablesOK
  BY DEF Inductive
<1>1. CASE Refuse(r, a)
  BY <1>1, Refused
<1>2. CASE /\ Lock(r, a) /\ status[a] \in {"ABSENT", "DRAFT"}
           /\ req' = [req EXCEPT ![r] = job] /\ UNCHANGED tables
  <2>1. holder[a] = None /\ holder' = [holder EXCEPT ![a] = r]
    BY <1>2 DEF Lock, Free
  <2>2. TablesOK'
    BY <1>0, <1>2, <2>1, SameTables DEF TablesOK
  <2>3. LockInv(r)'
    BY <1>0, <1>2, <2>1 DEF LockInv, InTransaction, TablesOK, tables, Drafts
  <2>4. None \notin Request
    BY DEF SheetsAssumption
  <2> QED
    BY <1>0, <1>2, <2>1, <2>2, <2>3, <2>4, OneMoves DEF TablesOK, tables
<1> QED
  BY <1>1, <1>2 DEF LockDraft

-----------------------------------------------------------------------------
(* Saving and computing. *)

LEMMA Saves ==
  ASSUME SheetsAssumption, Inductive, NEW r \in Request,
         Saving(r) \/ SaveLock(r) \/ SaveCommit(r)
  PROVE  Inductive'
<1>0. TablesOK
  BY DEF Inductive
<1>1. ASSUME NEW a \in Arm, NEW c \in Cell, NEW m \in Mark \cup {None}, SaveValidate(r, a, c, m)
      PROVE  Inductive'
  <2> DEFINE job == [op |-> "save", at |-> "valid", arm |-> a, cell |-> c, mark |-> m]
  <2>1. req' = [req EXCEPT ![r] = job] /\ UNCHANGED tables /\ holder' = holder
    BY <1>1 DEF SaveValidate
  <2>2. job \in Jobs /\ job.op = "save" /\ job.at = "valid"
    BY DEF Jobs
  <2> HIDE DEF job
  <2>3. TablesOK'
    BY <1>0, <2>1, <2>2, SameTables DEF TablesOK
  <2>4. LockInv(r)'
    BY <1>0, <2>1, <2>2 DEF LockInv, InTransaction, TablesOK
  <2> QED
    BY <2>1, <2>2, <2>3, <2>4, OneMoves DEF tables
<1>2. CASE SaveLock(r)
  <2>1. PICK a, job : a = req[r].arm /\ job = [req[r] EXCEPT !.at = "locked"]
    OBVIOUS
  <2>2. LockDraft(r, a, job) /\ req[r].op = "save"
    BY <1>2, <2>1 DEF SaveLock
  <2>3. a \in Arm /\ job \in Jobs /\ job.arm = a /\ job.op = "save"
    BY <1>0, <2>1, <2>2, JobIs
  <2> QED
    BY <2>2, <2>3, Locks
<1>3. CASE SaveCommit(r)
  <2>1. PICK a, c, m : a = req[r].arm /\ c = req[r].cell /\ m = req[r].mark
    OBVIOUS
  <2>2. /\ a \in Arm /\ c \in Cell /\ m \in Mark \cup {None} /\ holder[a] = r
        /\ status[a] \in Drafts
    BY <1>0, <1>3, <2>1, JobIs DEF SaveCommit, Inductive, LockInv, InTransaction
  <2>3. /\ score' = [score EXCEPT ![c] = IF m = None THEN None ELSE [mark |-> m, arm |-> a]]
        /\ status' = [status EXCEPT ![a] = Upserted(a)]
        /\ stale' = [stale EXCEPT ![a] = TRUE]
        /\ holder' = [holder EXCEPT ![a] = None]
        /\ req' = [req EXCEPT ![r] = Idle]
        /\ UNCHANGED <<pupil, offer, scale, card, told>>
    BY <1>3, <2>1 DEF SaveCommit, Unlock, Finish
  <2>4. Idle \in Jobs /\ Upserted(a) \in Status
    BY <2>2 DEF Jobs, Upserted, Status, Drafts
  <2>5. score' \in [Cell -> Entry \cup {None}]
    BY <1>0, <2>2, <2>3 DEF TablesOK, Entry
  <2>6. stale' \in [Arm -> BOOLEAN]
    BY <1>0, <2>2, <2>3 DEF TablesOK
  <2>7. TablesOK'
    BY <1>0, <2>2, <2>3, <2>4, <2>5, <2>6 DEF TablesOK, CardInv
  <2>8. LockInv(r)'
    BY <1>0, <2>3 DEF LockInv, InTransaction, Idle, TablesOK
  <2>9. \A b \in Arm : holder[b] \in Request \ {r} =>
          holder'[b] = holder[b] /\ status'[b] = status[b]
    BY <1>0, <2>2, <2>3 DEF TablesOK
  <2> QED
    BY <2>3, <2>4, <2>7, <2>8, <2>9, OneMoves
<1> QED
  BY <1>1, <1>2, <1>3 DEF Saving

\* What a recomputation leaves is a card.
LEMMA CardOfRecomputed ==
  ASSUME TablesOK, NEW a \in Arm, NEW in \in Reading
  PROVE  LET new == Recomputed(a, in) IN
         /\ new = [marks |-> new.marks, of |-> new.of, bands |-> new.bands,
                   form |-> new.form, principal |-> new.principal]
         /\ new.marks = Marks(in.students, in.offered)
         /\ DOMAIN new.marks \subseteq Cell /\ new.of = in.students /\ new.of \subseteq Student
         /\ \A c \in DOMAIN new.marks : c[1] \in in.students
         /\ new.bands \in Scale \cup {None}
         /\ new.form \in [Student -> Text \cup {None}]
         /\ new.principal \in [Student -> Text \cup {None}]
<1>1. in.students \subseteq Student /\ in.bands \in Scale \cup {None}
  BY DEF Reading
<1>2. /\ card[a].form \in [Student -> Text \cup {None}]
      /\ card[a].principal \in [Student -> Text \cup {None}]
  BY DEF TablesOK, CardInv
<1>3. DOMAIN Marks(in.students, in.offered) = Taken(in.students, in.offered)
  BY DEF Marks
<1>4. /\ Taken(in.students, in.offered) \subseteq Cell
      /\ \A c \in Taken(in.students, in.offered) : c[1] \in in.students
  BY <1>1 DEF Taken, Cell
<1> QED
  BY <1>1, <1>2, <1>3, <1>4 DEF Recomputed

\* A recomputation that is committed, of the row it holds.
Commits(r, a, new) ==
  /\ req[r].op \in {"compute", "submit"} /\ a = req[r].arm
  /\ new = Recomputed(a, req[r].in) /\ new.bands # None
  /\ req[r].op = "submit" => new.of # {} /\ Missing(new.marks) = {}
  /\ card' = [card EXCEPT ![a] = new]
  /\ stale' = [stale EXCEPT ![a] = FALSE]
  /\ status' = [status EXCEPT ![a] = IF req[r].op = "submit" THEN "SUBMITTED" ELSE Upserted(a)]
  /\ holder' = [holder EXCEPT ![a] = None]
  /\ req' = [req EXCEPT ![r] = Idle]
  /\ UNCHANGED <<pupil, offer, scale, score, told>>

LEMMA RecomputeIs ==
  ASSUME TablesOK, NEW r \in Request, Recompute(r)
  PROVE  (\E a \in Arm : Refuse(r, a)) \/ \E a \in Arm : \E new : Commits(r, a, new)
BY JobIs DEF Recompute, Commits, Unlock, Finish

LEMMA Computes ==
  ASSUME SheetsAssumption, Inductive, NEW r \in Request, Computing(r) \/ Recompute(r)
  PROVE  Inductive'
<1>0. TablesOK
  BY DEF Inductive
<1>1. ASSUME NEW a \in Arm, NEW op \in {"compute", "submit"}, Compute(r, a, op)
      PROVE  Inductive'
  <2> DEFINE job == [op |-> op, arm |-> a, in |-> Inputs(a)]
  <2>1. Inputs(a) \in Reading
    <3>1. Active(a) \in SUBSET Student /\ offer[ClassOf[a]] \in [Subject -> Kinds]
      BY <1>0 DEF Active, TablesOK, SheetsAssumption
    <3> QED
      BY <1>0, <3>1 DEF Inputs, Reading, TablesOK
  <2>2. job \in Jobs /\ job.arm = a /\ job.op = op
    BY <2>1 DEF Jobs
  <2>3. LockDraft(r, a, job) /\ (op = "submit" => status[a] # "ABSENT")
    BY <1>1 DEF Compute
  <2>4. job.op = "save" \/ job.op = "compute" \/ (job.op = "submit" /\ status[a] # "ABSENT")
    BY <2>2, <2>3
  <2> HIDE DEF job
  <2> QED
    BY <2>2, <2>3, <2>4, Locks
<1>2. ASSUME NEW a \in Arm, NEW new, Commits(r, a, new) PROVE Inductive'
  <2>1. /\ holder[a] = r /\ status[a] \in Drafts /\ req[r].in \in Reading
    BY <1>0, <1>2, JobIs DEF Commits, Inductive, LockInv, InTransaction
  <2>2. /\ card' = [card EXCEPT ![a] = new] /\ stale' = [stale EXCEPT ![a] = FALSE]
        /\ status' = [status EXCEPT ![a] = IF req[r].op = "submit" THEN "SUBMITTED"
                                                                  ELSE Upserted(a)]
        /\ holder' = [holder EXCEPT ![a] = None] /\ req' = [req EXCEPT ![r] = Idle]
        /\ UNCHANGED <<pupil, offer, scale, score, told>>
    BY <1>2 DEF Commits
  <2>3. Idle \in Jobs /\ Upserted(a) \in Status /\ "SUBMITTED" \in Status
    BY <2>1 DEF Jobs, Upserted, Status, Drafts
  <2>4. \A b \in Arm : CardInv(b)'
    <3>1. CardInv(a)'
      <4>1. card'[a] = new /\ new = Recomputed(a, req[r].in)
        BY <1>0, <1>2, <2>2 DEF TablesOK, Commits
      <4> QED
        BY <1>0, <2>1, <4>1, CardOfRecomputed DEF CardInv
    <3>2. \A b \in Arm \ {a} : card'[b] = card[b]
      BY <1>0, <2>2 DEF TablesOK
    <3> QED
      BY <1>0, <3>1, <3>2 DEF TablesOK, CardInv
  <2>5. TablesOK'
    BY <1>0, <2>2, <2>3, <2>4 DEF TablesOK
  <2>6. LockInv(r)'
    BY <1>0, <2>2 DEF LockInv, InTransaction, Idle, TablesOK
  <2>7. \A b \in Arm : holder[b] \in Request \ {r} =>
          holder'[b] = holder[b] /\ status'[b] = status[b]
    BY <1>0, <2>1, <2>2 DEF TablesOK
  <2> QED
    BY <2>2, <2>3, <2>5, <2>6, <2>7, OneMoves
<1> QED
  BY <1>0, <1>1, <1>2, RecomputeIs, Refused DEF Computing

-----------------------------------------------------------------------------
(* Everybody else. *)

\* A comment changes the two columns of one student, and nothing else of a card.
Commented(a, s, f, p) ==
  [marks |-> card[a].marks, of |-> card[a].of, bands |-> card[a].bands,
   form |-> [card[a].form EXCEPT ![s] = IF f = None THEN @ ELSE f],
   principal |-> [card[a].principal EXCEPT ![s] = IF p = None THEN @ ELSE p]]

LEMMA CommentIs ==
  ASSUME TablesOK, NEW a \in Arm, NEW s \in Student, NEW f \in Text \cup {None},
         NEW p \in Text \cup {None}, Comment(a, s, f, p)
  PROVE  /\ card'[a] = Commented(a, s, f, p)
         /\ \A b \in Arm \ {a} : card'[b] = card[b]
         /\ card' = [b \in Arm |-> card'[b]]
         /\ \A b \in Arm : CardInv(b)'
<1>1. card' = [card EXCEPT ![a].form[s] = IF f = None THEN @ ELSE f,
                           ![a].principal[s] = IF p = None THEN @ ELSE p]
  BY DEF Comment
<1>2. CardInv(a)
  BY DEF TablesOK
<1> DEFINE form == [card[a].form EXCEPT ![s] = IF f = None THEN @ ELSE f]
           principal == [card[a].principal EXCEPT ![s] = IF p = None THEN @ ELSE p]
<1>3. card'[a] = [[card[a] EXCEPT !.form = form] EXCEPT !.principal = principal]
  <2>1. card' = [[card EXCEPT ![a] = [card[a] EXCEPT !.form = form]] EXCEPT
                   ![a] = [[card[a] EXCEPT !.form = form] EXCEPT !.principal = principal]]
    BY <1>1, <1>2 DEF TablesOK, CardInv
  <2> QED
    BY <2>1 DEF TablesOK
<1>4. card'[a] = [marks |-> card[a].marks, of |-> card[a].of, bands |-> card[a].bands,
                  form |-> form, principal |-> principal]
  BY <1>2, <1>3 DEF CardInv
<1>5. (\A b \in Arm \ {a} : card'[b] = card[b]) /\ card' = [b \in Arm |-> card'[b]]
  BY <1>1 DEF TablesOK
<1>6. form \in [Student -> Text \cup {None}] /\ principal \in [Student -> Text \cup {None}]
  BY <1>2 DEF CardInv
<1> HIDE DEF form, principal
<1>7. CardInv(a)'
  BY <1>2, <1>4, <1>6 DEF CardInv
<1>8. \A b \in Arm : CardInv(b)'
  BY <1>5, <1>7 DEF TablesOK, CardInv
<1> QED
  BY <1>4, <1>5, <1>8 DEF form, principal, Commented

LEMMA Others ==
  ASSUME SheetsAssumption, Inductive,
         \/ \E r \in Request : \/ Notify(r) \/ Withdraw(r)
                               \/ \E a \in Arm : Publish(r, a)
                               \/ \E c \in Class, u \in Subject : WithdrawCount(r, c, u)
         \/ \E a \in Arm : Heads(a) \/ Commenting(a)
         \/ \E c \in Class, u \in Subject, kind \in {"elective", "compulsory"} : Offer(c, u, kind)
         \/ \E b \in Scale : SetGrading(b)
         \/ \E s \in Student, a \in Arm, active \in BOOLEAN : MovePupil(s, a, active)
  PROVE  Inductive'
<1>0. TablesOK /\ None \notin Request /\ Idle \in Jobs
  BY DEF Inductive, SheetsAssumption, Jobs
\* Requests that hold no row before or after.
<1>1. ASSUME NEW r \in Request, NEW job \in Jobs, req' = [req EXCEPT ![r] = job],
             job.op \in {"none", "publish", "withdraw"}, TablesOK', holder' = holder,
             \A a \in Arm : holder[a] # None => status'[a] = status[a]
      PROVE  Inductive'
  <2>1. LockInv(r)'
    BY <1>0, <1>1 DEF LockInv, InTransaction, TablesOK
  <2> QED
    BY <1>0, <1>1, <2>1, OneMoves
<1>2. ASSUME NEW r \in Request, NEW a \in Arm, Publish(r, a) PROVE Inductive'
  <2> DEFINE job == [op |-> "publish", arm |-> a]
  <2>1. job \in Jobs /\ job.op = "publish"
    BY DEF Jobs
  <2>2. /\ holder[a] = None /\ status' = [status EXCEPT ![a] = "PUBLISHED"]
        /\ told' = [told EXCEPT ![a] = FALSE] /\ req' = [req EXCEPT ![r] = job]
        /\ UNCHANGED <<pupil, offer, scale, score, card, stale, holder>>
    BY <1>2 DEF Publish, Transition, Free
  <2> HIDE DEF job
  <2>3. TablesOK'
    BY <1>0, <2>1, <2>2 DEF TablesOK, Status, CardInv
  <2>4. \A b \in Arm : holder[b] # None => status'[b] = status[b]
    BY <1>0, <2>2 DEF TablesOK
  <2> QED
    BY <1>1, <2>1, <2>2, <2>3, <2>4
<1>3. ASSUME NEW r \in Request, Notify(r) PROVE Inductive'
  <2>1. /\ told' = [told EXCEPT ![req[r].arm] = TRUE] /\ req' = [req EXCEPT ![r] = Idle]
        /\ UNCHANGED <<pupil, offer, scale, score, status, card, stale, holder>>
    BY <1>3 DEF Notify, Finish
  <2>2. TablesOK'
    BY <1>0, <2>1 DEF TablesOK, CardInv
  <2> QED
    BY <1>0, <1>1, <2>1, <2>2 DEF Idle
<1>4. ASSUME NEW r \in Request, NEW c \in Class, NEW u \in Subject, WithdrawCount(r, c, u)
      PROVE  Inductive'
  <2> DEFINE job == [op |-> "withdraw", class |-> c, subject |-> u]
  <2>1. job \in Jobs /\ job.op = "withdraw"
    BY DEF Jobs
  <2>2. req' = [req EXCEPT ![r] = job] /\ UNCHANGED tables /\ holder' = holder
    BY <1>4 DEF WithdrawCount
  <2> HIDE DEF job
  <2>3. TablesOK'
    BY <1>0, <2>1, <2>2, SameTables DEF TablesOK
  <2> QED
    BY <1>1, <2>1, <2>2, <2>3 DEF tables
<1>5. ASSUME NEW r \in Request, Withdraw(r) PROVE Inductive'
  <2>1. PICK c, u : c = req[r].class /\ u = req[r].subject
    OBVIOUS
  <2>2. /\ offer' = [offer EXCEPT ![c][u] = "none"] /\ req' = [req EXCEPT ![r] = Idle]
        /\ UNCHANGED <<pupil, scale, score, status, card, stale, told, holder>>
        /\ c \in Class /\ u \in Subject
    BY <1>0, <1>5, <2>1, JobIs DEF Withdraw, Finish
  <2>3. TablesOK'
    BY <1>0, <2>2 DEF TablesOK, CardInv, Kinds
  <2> QED
    BY <1>0, <1>1, <2>2, <2>3 DEF Idle
<1>6. ASSUME NEW a \in Arm, Heads(a) PROVE Inductive'
  <2>1. PICK to \in {"APPROVED", "DRAFT"} :
          /\ holder[a] = None /\ status' = [status EXCEPT ![a] = to]
          /\ UNCHANGED <<pupil, offer, scale, score, card, stale, told, holder, req>>
    BY <1>6 DEF Heads, Approve, ReturnToDraft, Transition, Free
  <2>2. TablesOK'
    BY <1>0, <2>1 DEF TablesOK, Status, CardInv
  <2>3. \A b \in Arm : holder[b] # None => status'[b] = status[b]
    BY <1>0, <2>1 DEF TablesOK
  <2> QED
    BY <2>1, <2>2, <2>3, NoneMoves
<1>7. ASSUME NEW a \in Arm, Commenting(a) PROVE Inductive'
  <2>1. UNCHANGED <<pupil, offer, scale, score, status, stale, told, holder, req>>
    BY <1>7 DEF Commenting, Comment
  <2>2. card' = [b \in Arm |-> card'[b]] /\ \A b \in Arm : CardInv(b)'
    BY <1>0, <1>7, CommentIs DEF Commenting
  <2>3. TablesOK'
    BY <1>0, <2>1, <2>2 DEF TablesOK
  <2> QED
    BY <2>1, <2>3, NoneMoves
<1>8. ASSUME NEW c \in Class, NEW u \in Subject, NEW kind \in {"elective", "compulsory"},
             Offer(c, u, kind)
      PROVE  Inductive'
  <2>1. /\ offer' = [offer EXCEPT ![c][u] = kind]
        /\ UNCHANGED <<pupil, scale, score, status, card, stale, told, holder, req>>
    BY <1>8 DEF Offer
  <2>2. TablesOK'
    BY <1>0, <2>1 DEF TablesOK, CardInv, Kinds
  <2> QED
    BY <2>1, <2>2, NoneMoves
<1>9. ASSUME NEW b \in Scale, SetGrading(b) PROVE Inductive'
  <2>1. scale' = b /\ UNCHANGED <<pupil, offer, score, status, card, stale, told, holder, req>>
    BY <1>9 DEF SetGrading
  <2>2. TablesOK'
    BY <1>0, <2>1 DEF TablesOK, CardInv
  <2> QED
    BY <2>1, <2>2, NoneMoves
<1>10. ASSUME NEW s \in Student, NEW a \in Arm, NEW active \in BOOLEAN, MovePupil(s, a, active)
       PROVE  Inductive'
  <2>1. /\ pupil' = [pupil EXCEPT ![s] = [arm |-> a, active |-> active]]
        /\ UNCHANGED <<offer, scale, score, status, card, stale, told, holder, req>>
    BY <1>10 DEF MovePupil
  <2>2. TablesOK'
    BY <1>0, <2>1 DEF TablesOK, CardInv
  <2> QED
    BY <2>1, <2>2, NoneMoves
<1> QED
  BY <1>2, <1>3, <1>4, <1>5, <1>6, <1>7, <1>8, <1>9, <1>10

LEMMA InductiveInvariant ==
  ASSUME SheetsAssumption
  PROVE  Spec => []Inductive
<1>1. ASSUME Init PROVE Inductive
  <2>1. \A a \in Arm : CardInv(a)
    <3>1. /\ Blank = [marks |-> Blank.marks, of |-> Blank.of, bands |-> Blank.bands,
                      form |-> Blank.form, principal |-> Blank.principal]
          /\ DOMAIN Blank.marks = {} /\ Blank.of = {} /\ Blank.bands = None
          /\ Blank.form = [s \in Student |-> None] /\ Blank.principal = [s \in Student |-> None]
      BY DEF Blank
    <3> QED
      BY <1>1, <3>1 DEF Init, CardInv
  <2>2. TablesOK
    BY <1>1, <2>1 DEF Init, TablesOK, Jobs, Kinds, Status
  <2>3. \A r \in Request : LockInv(r)
    BY <1>1 DEF Init, LockInv, InTransaction, Idle
  <2> QED
    BY <2>2, <2>3 DEF Inductive
<1>2. ASSUME Inductive, [Next]_vars PROVE Inductive'
  <2>1. CASE UNCHANGED vars
    BY <1>2, <2>1 DEF vars, tables, Inductive, TablesOK, CardInv, LockInv, InTransaction
  <2>2. ASSUME NEW r \in Request, Saving(r) \/ Computing(r) \/ Work(r) \/ Crash(r)
        PROVE  Inductive'
    BY <1>2, <2>2, Saves, Computes, Refused, Others DEF Work
  <2> QED
    BY <1>2, <2>1, <2>2, Others DEF Next
<1> QED
  BY <1>1, <1>2, PTL DEF Spec

-----------------------------------------------------------------------------
(* The path of a sheet. *)

LEMMA StepFollowsPath ==
  ASSUME SheetsAssumption, Inductive, [Next]_vars
  PROVE  [Path!PathNext]_<<status, card>>
<1>0. TablesOK /\ status \in [Arm -> Status] /\ \A a \in Arm : CardInv(a)
  BY DEF Inductive, TablesOK
<1>1. ASSUME NEW r \in Request, SaveCommit(r) PROVE Path!PathNext
  <2>1. PICK a : a = req[r].arm
    OBVIOUS
  <2>2. a \in Arm /\ status[a] \in Drafts
    BY <1>0, <1>1, <2>1, JobIs DEF SaveCommit, Inductive, LockInv, InTransaction
  <2>3. status' = [status EXCEPT ![a] = Upserted(a)] /\ card' = card
    BY <1>1, <2>1 DEF SaveCommit
  <2>4. Path!Draft(a)
    BY <2>2, <2>3 DEF Path!Draft, Upserted, Drafts
  <2> QED
    BY <2>2, <2>3, <2>4 DEF Path!PathNext
<1>2. ASSUME NEW r \in Request, NEW a \in Arm, NEW new, Commits(r, a, new)
      PROVE  Path!PathNext
  <2>1. /\ status[a] \in Drafts /\ (req[r].op = "submit" => status[a] = "DRAFT")
        /\ req[r].in \in Reading
    BY <1>0, <1>2, JobIs DEF Commits, Inductive, LockInv, InTransaction
  <2>2. /\ card'[a] = new /\ \A b \in Arm \ {a} : card'[b] = card[b]
        /\ status' = [status EXCEPT ![a] = IF req[r].op = "submit" THEN "SUBMITTED"
                                                                  ELSE Upserted(a)]
    BY <1>0, <1>2 DEF Commits, TablesOK
  <2>3. CASE req[r].op = "submit"
    <3>1. new.of # {} /\ \A c \in DOMAIN new.marks : new.marks[c] # None
      BY <1>2, <2>3 DEF Commits, Missing
    <3>2. Path!Submit(a)
      BY <2>1, <2>2, <2>3, <3>1 DEF Path!Submit
    <3> QED
      BY <2>2, <3>2 DEF Path!PathNext
  <2>4. CASE req[r].op # "submit"
    <3>1. Path!Draft(a)
      BY <2>1, <2>2, <2>4 DEF Path!Draft, Upserted, Drafts
    <3> QED
      BY <2>2, <3>1 DEF Path!PathNext
  <2> QED
    BY <2>3, <2>4
<1>3. ASSUME NEW r \in Request, Recompute(r) PROVE [Path!PathNext]_<<status, card>>
  <2>1. CASE \E a \in Arm : Refuse(r, a)
    BY <2>1 DEF Refuse, tables
  <2>2. CASE \E a \in Arm : \E new : Commits(r, a, new)
    BY <1>2, <2>2
  <2> QED
    BY <1>0, <1>3, <2>1, <2>2, RecomputeIs
<1>4. ASSUME NEW a \in Arm, Approve(a) PROVE Path!PathNext
  BY <1>4 DEF Approve, Transition, Path!PathNext, Path!Advance
<1>5. ASSUME NEW r \in Request, NEW a \in Arm, Publish(r, a) PROVE Path!PathNext
  BY <1>5 DEF Publish, Transition, Path!PathNext, Path!Advance
<1>6. ASSUME NEW a \in Arm, ReturnToDraft(a) PROVE Path!PathNext
  BY <1>6 DEF ReturnToDraft, Path!PathNext, Path!Return, Path!Fixed, Locked
<1>7. ASSUME NEW a \in Arm, NEW s \in Student, NEW f \in Text \cup {None},
             NEW p \in Text \cup {None}, Comment(a, s, f, p)
      PROVE  [Path!PathNext]_<<status, card>>
  <2>1. /\ status' = status /\ status[a] # "ABSENT"
        /\ f # None => status[a] \in {"DRAFT", "SUBMITTED"}
        /\ p # None => status[a] # "PUBLISHED"
    BY <1>7 DEF Comment
  <2>2. /\ card'[a] = Commented(a, s, f, p)
        /\ \A b \in Arm \ {a} : card'[b] = card[b]
        /\ card' = [b \in Arm |-> card'[b]]
    BY <1>0, <1>7, CommentIs
  <2>3. /\ card[a] = [marks |-> card[a].marks, of |-> card[a].of, bands |-> card[a].bands,
                      form |-> card[a].form, principal |-> card[a].principal]
        /\ card[a].form \in [Student -> Text \cup {None}]
        /\ card[a].principal \in [Student -> Text \cup {None}]
    BY <1>0 DEF CardInv
  <2>4. f = None => [card[a].form EXCEPT ![s] = IF f = None THEN @ ELSE f] = card[a].form
    BY <2>3
  <2>5. p = None =>
          [card[a].principal EXCEPT ![s] = IF p = None THEN @ ELSE p] = card[a].principal
    BY <2>3
  <2>6. CASE status[a] = "DRAFT"
    <3>1. status' = [status EXCEPT ![a] = "DRAFT"]
      BY <1>0, <2>1, <2>6
    <3>2. Path!Draft(a)
      BY <2>6, <3>1 DEF Path!Draft
    <3> QED
      BY <2>2, <3>2 DEF Path!PathNext
  <2>7. CASE status[a] \in {"SUBMITTED", "APPROVED"}
    <3>1. card'[a].marks = card[a].marks
      BY <2>2 DEF Commented
    <3>2. status[a] = "APPROVED" => card'[a].form = card[a].form
      BY <2>1, <2>2, <2>4 DEF Commented
    <3>3. Path!Annotate(a)
      BY <2>1, <2>7, <3>1, <3>2 DEF Path!Annotate
    <3> QED
      BY <2>2, <3>3 DEF Path!PathNext
  <2>8. CASE status[a] = "PUBLISHED"
    <3>1. f = None /\ p = None
      BY <2>1, <2>8
    <3>2. card'[a] = card[a]
      BY <2>2, <2>3, <2>4, <2>5, <3>1 DEF Commented
    <3>3. card' = card
      BY <1>0, <2>2, <3>2 DEF TablesOK
    <3> QED
      BY <2>1, <3>3
  <2>9. status[a] \in {"DRAFT", "SUBMITTED", "APPROVED", "PUBLISHED"}
    BY <1>0, <2>1 DEF Status
  <2> QED
    BY <2>6, <2>7, <2>8, <2>9
<1>8. ASSUME NEW r \in Request,
             \/ Saving(r) \/ Computing(r) \/ SaveLock(r) \/ Notify(r) \/ Withdraw(r) \/ Crash(r)
             \/ \E c \in Class, u \in Subject : WithdrawCount(r, c, u)
      PROVE  UNCHANGED <<status, card>>
  BY <1>8 DEF Saving, SaveValidate, Computing, Compute, SaveLock, LockDraft, Refuse, Notify,
              Withdraw, Crash, WithdrawCount, tables
<1>9. CASE \/ UNCHANGED vars
           \/ \E c \in Class, u \in Subject, kind \in {"elective", "compulsory"} : Offer(c, u, kind)
           \/ \E b \in Scale : SetGrading(b)
           \/ \E s \in Student, a \in Arm, active \in BOOLEAN : MovePupil(s, a, active)
  BY <1>9 DEF vars, tables, Offer, SetGrading, MovePupil
<1>10. CASE \E r \in Request : \/ Saving(r) \/ Computing(r) \/ Work(r) \/ Crash(r)
                               \/ \E a \in Arm : Publish(r, a)
                               \/ \E c \in Class, u \in Subject : WithdrawCount(r, c, u)
  BY <1>1, <1>3, <1>5, <1>8, <1>10 DEF Work
<1>11. CASE \E a \in Arm : Heads(a) \/ Commenting(a)
  BY <1>4, <1>6, <1>7, <1>11 DEF Heads, Commenting
<1> QED
  BY <1>9, <1>10, <1>11 DEF Next

-----------------------------------------------------------------------------
(* What a sheet shows, while its students stay. *)

\* Before there are sheets, students move as they like.
LEMMA MovesComeFirst ==
  ASSUME CurrentInv, NEW s \in Student, NEW a \in Arm, NEW active \in BOOLEAN,
         MovePupil(s, a, active), ~MayMove
  PROVE  CurrentInv'
<1>1. /\ \A b \in Arm : status[b] = "ABSENT" /\ DOMAIN card[b].marks = {}
      /\ \A r \in Request : req[r] = Idle
      /\ UNCHANGED <<score, status, card, stale, req>>
  BY DEF MovePupil, CurrentInv, StayInv
<1>2. StayInv'
  BY <1>1 DEF StayInv, Idle
<1> QED
  BY <1>1, <1>2 DEF CurrentInv, SnapshotIsCurrent, FreshIsCurrent, Locked

LEMMA CurrentStays ==
  ASSUME SheetsAssumption, ~MayMove, Inductive, CurrentInv, [Next]_vars,
         ~\E s \in Student, a \in Arm, active \in BOOLEAN : MovePupil(s, a, active)
  PROVE  CurrentInv'
<1>0. /\ TablesOK /\ StayInv /\ SnapshotIsCurrent /\ FreshIsCurrent
      /\ status \in [Arm -> Status]
  BY DEF Inductive, CurrentInv, TablesOK
<1>1. pupil' = pupil
  <2>1. ASSUME NEW r \in Request, Saving(r) \/ Computing(r) \/ SaveLock(r) PROVE pupil' = pupil
    BY <2>1 DEF Saving, SaveValidate, Computing, Compute, SaveLock, LockDraft, Refuse, tables
  <2>2. ASSUME NEW r \in Request, SaveCommit(r) \/ Recompute(r) PROVE pupil' = pupil
    BY <2>2 DEF SaveCommit, Recompute, Refuse, tables
  <2>3. ASSUME NEW r \in Request, Notify(r) \/ Withdraw(r) \/ Crash(r) PROVE pupil' = pupil
    BY <2>3 DEF Notify, Withdraw, Crash, tables
  <2>4. ASSUME NEW r \in Request, \/ \E a \in Arm : Publish(r, a)
                                  \/ \E c \in Class, u \in Subject : WithdrawCount(r, c, u)
        PROVE  pupil' = pupil
    BY <2>4 DEF Publish, WithdrawCount, tables
  <2>5. ASSUME NEW a \in Arm, Heads(a) \/ Commenting(a) PROVE pupil' = pupil
    BY <2>5 DEF Heads, Approve, ReturnToDraft, Commenting, Comment
  <2> QED
    BY <2>1, <2>2, <2>3, <2>4, <2>5 DEF Next, Work, Offer, SetGrading, vars, tables
<1>2. \A a \in Arm : Active(a)' = Active(a)
  BY <1>1 DEF Active
\* Requests: what they bring is of their arm.
<1>3. ASSUME NEW r \in Request, NEW job, req' = [req EXCEPT ![r] = job],
             job.op = "save" => job.cell[1] \in Active(job.arm) /\ job.arm \in Arm,
             job.op \in {"compute", "submit"} =>
               job.in.students \subseteq Active(job.arm) /\ job.arm \in Arm,
             \A a \in Arm : \A c \in DOMAIN card'[a].marks : c[1] \in Active(a),
             \A a \in Arm : status'[a] = "ABSENT" => DOMAIN card'[a].marks = {}
      PROVE  StayInv'
  <2>1. req'[r] = job /\ \A q \in Request \ {r} : req'[q] = req[q]
    BY <1>0, <1>3 DEF TablesOK
  <2>2. ASSUME NEW q \in Request
        PROVE  /\ req'[q].op = "save" => req'[q].cell[1] \in Active(req'[q].arm)
               /\ req'[q].op \in {"compute", "submit"} =>
                    req'[q].in.students \subseteq Active(req'[q].arm)
    <3>1. CASE q = r
      BY <1>3, <2>1, <3>1
    <3>2. CASE q # r
      BY <1>0, <2>1, <3>2, JobIs DEF StayInv
    <3> QED
      BY <3>1, <3>2
  <2> QED
    BY <1>1, <1>2, <1>3, <2>2 DEF StayInv, Active
\* The tables of scores and cards stay, and a sheet is not made a draft but by its return.
<1>4. ASSUME score' = score, \A a \in Arm : card'[a].marks = card[a].marks,
             stale' = stale,
             \A a \in Arm : status'[a] # status[a] => status[a] \in Locked
      PROVE  SnapshotIsCurrent' /\ FreshIsCurrent'
  <2>1. \A a \in Arm : Agrees(a) => Agrees(a)'
    BY <1>4 DEF Agrees, MarkOf
  <2> QED
    BY <1>0, <1>4, <2>1 DEF SnapshotIsCurrent, FreshIsCurrent, Locked
<1>5. ASSUME req' = req, score' = score, \A a \in Arm : card'[a].marks = card[a].marks,
             stale' = stale,
             \A a \in Arm : status'[a] # status[a] => status[a] \in Locked /\ status'[a] # "ABSENT"
      PROVE  CurrentInv'
  <2>1. StayInv'
    BY <1>0, <1>1, <1>2, <1>5 DEF StayInv, Active
  <2> QED
    BY <1>4, <1>5, <2>1 DEF CurrentInv
\* A request that touches neither.
<1>6. ASSUME NEW r \in Request, NEW job, req' = [req EXCEPT ![r] = job],
             job.op = "save" => job.cell[1] \in Active(job.arm) /\ job.arm \in Arm,
             job.op \in {"compute", "submit"} =>
               job.in.students \subseteq Active(job.arm) /\ job.arm \in Arm,
             score' = score, card' = card, stale' = stale,
             \A a \in Arm : status'[a] # status[a] => status[a] \in Locked /\ status'[a] # "ABSENT"
      PROVE  CurrentInv'
  BY <1>0, <1>3, <1>4, <1>6 DEF CurrentInv, StayInv
<1>7. ASSUME NEW r \in Request, Crash(r) \/ \E a \in Arm : Refuse(r, a) PROVE CurrentInv'
  BY <1>6, <1>7 DEF Crash, Refuse, Finish, tables, Idle
<1>8. ASSUME NEW r \in Request, NEW a \in Arm, NEW c \in Cell, NEW m \in Mark \cup {None},
             SaveValidate(r, a, c, m)
      PROVE  CurrentInv'
  <2> DEFINE job == [op |-> "save", at |-> "valid", arm |-> a, cell |-> c, mark |-> m]
  <2>1. /\ req' = [req EXCEPT ![r] = job] /\ UNCHANGED tables
        /\ job.op = "save" /\ job.arm = a /\ job.cell = c /\ c[1] \in Active(a)
    BY <1>8 DEF SaveValidate
  <2> HIDE DEF job
  <2> QED
    BY <1>6, <2>1 DEF tables
<1>9. ASSUME NEW r \in Request, SaveLock(r) PROVE CurrentInv'
  <2>1. PICK a, job : a = req[r].arm /\ job = [req[r] EXCEPT !.at = "locked"]
    OBVIOUS
  <2>2. LockDraft(r, a, job) /\ req[r].op = "save"
    BY <1>9, <2>1 DEF SaveLock
  <2>3. /\ a \in Arm /\ job.arm = a /\ job.op = "save" /\ job.cell = req[r].cell
        /\ job.cell[1] \in Active(a)
    BY <1>0, <2>1, <2>2, JobIs DEF StayInv
  <2> QED
    BY <1>6, <1>7, <2>2, <2>3 DEF LockDraft, tables
<1>10. ASSUME NEW r \in Request, SaveCommit(r) PROVE CurrentInv'
  <2>1. PICK a, c, m : a = req[r].arm /\ c = req[r].cell /\ m = req[r].mark
    OBVIOUS
  <2>2. /\ a \in Arm /\ c \in Cell /\ status[a] \in Drafts /\ c[1] \in Active(a)
    BY <1>0, <1>10, <2>1, JobIs DEF SaveCommit, Inductive, LockInv, InTransaction, StayInv
  <2>3. /\ score' = [score EXCEPT ![c] = IF m = None THEN None ELSE [mark |-> m, arm |-> a]]
        /\ status' = [status EXCEPT ![a] = Upserted(a)]
        /\ stale' = [stale EXCEPT ![a] = TRUE]
        /\ req' = [req EXCEPT ![r] = Idle] /\ card' = card
    BY <1>10, <2>1 DEF SaveCommit, Finish
  <2>4. stale'[a] = TRUE /\ status'[a] = "DRAFT" /\ \A b \in Arm \ {a} : status'[b] = status[b]
    BY <1>0, <2>2, <2>3 DEF TablesOK, Upserted, Drafts
  <2>5. StayInv' /\ status'[a] \notin Locked
    BY <1>0, <1>3, <2>3, <2>4 DEF StayInv, Idle, Locked
  <2>6. ASSUME NEW b \in Arm \ {a}
        PROVE  status'[b] = status[b] /\ stale'[b] = stale[b] /\ (Agrees(b) => Agrees(b)')
    <3>1. c \notin DOMAIN card[b].marks
      BY <1>0, <2>2 DEF StayInv, Active
    <3>2. \A d \in DOMAIN card[b].marks : d \in Cell /\ score'[d] = score[d]
      BY <1>0, <2>3, <3>1 DEF TablesOK, CardInv
    <3>3. status'[b] = status[b] /\ stale'[b] = stale[b]
      BY <1>0, <2>3 DEF TablesOK
    <3> QED
      BY <2>3, <3>2, <3>3 DEF Agrees, MarkOf
  <2> QED
    BY <1>0, <2>4, <2>5, <2>6 DEF CurrentInv, SnapshotIsCurrent, FreshIsCurrent
<1>11. ASSUME NEW r \in Request, NEW a \in Arm, NEW op \in {"compute", "submit"},
              Compute(r, a, op)
       PROVE  CurrentInv'
  <2> DEFINE job == [op |-> op, arm |-> a, in |-> Inputs(a)]
  <2>1. /\ LockDraft(r, a, job) /\ job.op = op /\ job.arm = a
        /\ job.in.students \subseteq Active(a)
    BY <1>11 DEF Compute, Inputs
  <2> HIDE DEF job
  <2> QED
    BY <1>6, <1>7, <2>1 DEF LockDraft, tables
<1>12. ASSUME NEW r \in Request, NEW a \in Arm, NEW new, Commits(r, a, new)
       PROVE  CurrentInv'
  <2>1. /\ req[r].in \in Reading /\ req[r].in.students \subseteq Active(a)
    BY <1>0, <1>12, JobIs DEF Commits, StayInv
  <2>2. /\ card'[a] = new /\ \A b \in Arm \ {a} : card'[b] = card[b]
        /\ score' = score /\ req' = [req EXCEPT ![r] = Idle]
        /\ \A b \in Arm \ {a} : status'[b] = status[b] /\ stale'[b] = stale[b]
    BY <1>0, <1>12 DEF Commits, TablesOK
  <2>3. /\ new.marks = Marks(req[r].in.students, req[r].in.offered)
        /\ \A c \in DOMAIN new.marks : c[1] \in Active(a)
    BY <1>0, <1>12, <2>1, CardOfRecomputed DEF Commits
  <2>4. status'[a] # "ABSENT"
    BY <1>0, <1>12, JobIs DEF Commits, Upserted
  <2>5. StayInv'
    BY <1>0, <1>3, <2>2, <2>3, <2>4 DEF StayInv, Idle
  <2>6. Agrees(a)'
    <3>1. \A c \in DOMAIN new.marks : new.marks[c] = MarkOf(c)
      BY <2>3 DEF Marks
    <3> QED
      BY <2>2, <3>1 DEF Agrees, MarkOf
  <2>7. \A b \in Arm \ {a} : Agrees(b) => Agrees(b)'
    BY <2>2 DEF Agrees, MarkOf
  <2> QED
    BY <1>0, <2>2, <2>5, <2>6, <2>7 DEF CurrentInv, SnapshotIsCurrent, FreshIsCurrent
<1>13. ASSUME NEW r \in Request, Recompute(r) PROVE CurrentInv'
  BY <1>0, <1>7, <1>12, <1>13, RecomputeIs
<1>14. ASSUME NEW r \in Request, NEW a \in Arm, Publish(r, a) PROVE CurrentInv'
  <2>1. /\ status[a] = "APPROVED" /\ status' = [status EXCEPT ![a] = "PUBLISHED"]
        /\ req' = [req EXCEPT ![r] = [op |-> "publish", arm |-> a]]
        /\ UNCHANGED <<score, card, stale>>
    BY <1>14 DEF Publish, Transition
  <2> QED
    BY <1>0, <1>6, <2>1 DEF Locked
<1>15. ASSUME NEW r \in Request,
              \/ Notify(r) \/ Withdraw(r)
              \/ \E c \in Class, u \in Subject : WithdrawCount(r, c, u)
       PROVE  CurrentInv'
  <2>1. PICK job \in Jobs : /\ req' = [req EXCEPT ![r] = job]
                            /\ job.op \in {"none", "withdraw"}
                            /\ UNCHANGED <<score, card, stale, status>>
    BY <1>15 DEF Notify, Withdraw, WithdrawCount, Finish, Idle, Jobs, tables
  <2> QED
    BY <1>6, <2>1
<1>16. ASSUME NEW a \in Arm, Heads(a) PROVE CurrentInv'
  BY <1>0, <1>5, <1>16 DEF Heads, Approve, ReturnToDraft, Transition, Locked
<1>17. ASSUME NEW a \in Arm, Commenting(a) PROVE CurrentInv'
  <2>0. PICK s \in Student, f \in Text \cup {None}, p \in Text \cup {None} : Comment(a, s, f, p)
    BY <1>17 DEF Commenting
  <2>1. UNCHANGED <<score, status, stale, req>> /\ \A b \in Arm : card'[b].marks = card[b].marks
    <3>1. card'[a] = Commented(a, s, f, p) /\ \A b \in Arm \ {a} : card'[b] = card[b]
      BY <1>0, <2>0, CommentIs
    <3>2. card'[a].marks = card[a].marks
      BY <3>1 DEF Commented
    <3> QED
      BY <2>0, <3>1, <3>2 DEF Comment
  <2> QED
    BY <1>5, <2>1
<1>18. CASE UNCHANGED <<score, card, stale, status, req>>
  BY <1>5, <1>18
<1> QED
  BY <1>7, <1>8, <1>9, <1>10, <1>11, <1>13, <1>14, <1>15, <1>16, <1>17, <1>18
     DEF Next, Work, Saving, Computing, Offer, SetGrading, MovePupil, vars, tables

LEMMA CurrentInvariant ==
  ASSUME SheetsAssumption, ~MayMove
  PROVE  Spec => []CurrentInv
<1>1. ASSUME Init PROVE CurrentInv
  <2>1. \A a \in Arm : DOMAIN card[a].marks = {} /\ status[a] = "ABSENT"
    BY <1>1 DEF Init, Blank
  <2>2. StayInv
    BY <1>1, <2>1 DEF Init, StayInv, Idle
  <2> QED
    BY <2>1, <2>2 DEF CurrentInv, SnapshotIsCurrent, FreshIsCurrent, Locked
<1>2. Inductive /\ CurrentInv /\ [Next]_vars => CurrentInv'
  BY CurrentStays, MovesComeFirst
<1> QED
  BY <1>1, <1>2, InductiveInvariant, PTL DEF Spec

-----------------------------------------------------------------------------
(* The theorems. *)

\* The types of every table of the results.
THEOREM SheetsTypeCorrect ==
  ASSUME SheetsAssumption
  PROVE  Spec => []TypeOK
<1>1. ASSUME Inductive PROVE TypeOK
  <2>1. TablesOK
    BY <1>1 DEF Inductive
  <2>2. ASSUME NEW a \in Arm PROVE DOMAIN card[a] = DOMAIN Blank
    <3>1. card[a] = [marks |-> card[a].marks, of |-> card[a].of, bands |-> card[a].bands,
                     form |-> card[a].form, principal |-> card[a].principal]
      BY <2>1 DEF TablesOK, CardInv
    <3>2. DOMAIN card[a] = {"marks", "of", "bands", "form", "principal"}
      BY <3>1
    <3>3. DOMAIN Blank = {"marks", "of", "bands", "form", "principal"}
      BY DEF Blank
    <3> QED
      BY <3>2, <3>3
  <2>3. ASSUME NEW r \in Request
        PROVE  req[r].op \in {"none", "save", "compute", "submit", "publish", "withdraw"}
    BY <2>1 DEF TablesOK, Jobs, Idle
  <2> QED
    BY <2>1, <2>2, <2>3 DEF TypeOK, TablesOK, CardInv, Kinds
<1> QED
  BY <1>1, InductiveInvariant, PTL

\* Whatever requests overlap, students move, scales change and crashes happen,
\* a sheet goes its path (ResultSheetsService, class comment).
THEOREM SheetsFollowTheirPath ==
  ASSUME SheetsAssumption
  PROVE  Spec => FollowsPath
<1>1. Init => Path!PathInit
  BY DEF Init, Path!PathInit
<1> QED
  BY <1>1, StepFollowsPath, InductiveInvariant, PTL DEF Spec, FollowsPath, Path!PathSpec

\* What was submitted is what the scores say, and still are, while its students
\* stay (ScoresService.save, lockDraft).
THEOREM SnapshotsAreCurrent ==
  ASSUME SheetsAssumption, ~MayMove
  PROVE  Spec => []SnapshotIsCurrent
<1>1. CurrentInv => SnapshotIsCurrent
  BY DEF CurrentInv
<1> QED
  BY <1>1, CurrentInvariant, PTL

\* And so is what a draft shows that is not called stale (scoresChangedAt).
THEOREM FreshDraftsAreCurrent ==
  ASSUME SheetsAssumption, ~MayMove
  PROVE  Spec => []FreshIsCurrent
<1>1. CurrentInv => FreshIsCurrent
  BY DEF CurrentInv
<1> QED
  BY <1>1, CurrentInvariant, PTL
=============================================================================
