---------------------------- MODULE AccessProofs -----------------------------
(***************************************************************************)
(* Proofs about who may do what: memberships, invitations and operators;   *)
(* sessions; accounts and the links mailed for them.  For any number of    *)
(* persons, schools, tokens, links and requests.  Of each component first  *)
(* types and what stands behind a row, however requests overlap; then what *)
(* holds besides while they come one at a time.                            *)
(***************************************************************************)
EXTENDS Memberships, FiniteSetTheorems, TLAPS

Ats == {"account", "upsert", "retire", "issue", "consume", "accept", "update", "revoke",
        "grant", "dismiss"}

\* What a request is, by where it is.
LEMMA JobIs ==
  ASSUME NEW j, JobOK(j)
  PROVE  /\ j = Idle \/ j.at \in Ats
         /\ j.at = "none" <=> j = Idle
         /\ j.at \in {"account", "upsert", "retire", "issue"} =>
              j \in [at : {"account", "upsert", "retire", "issue"}, who : Person,
                     school : School, role : Position]
         /\ j.at \in {"upsert", "retire", "issue", "grant", "dismiss"} => HasAccount(j.who)
         /\ j.at \in {"retire", "issue", "update", "revoke"} => IsMember(j.who, j.school)
         /\ j.at \in {"consume", "accept"} =>
              j \in [at : {"consume", "accept"}, link : Link] /\ IsMember(j.link.who, j.link.school)
         /\ j.at = "update" =>
              j \in [at : {"update"}, who : Person, school : School, role : Position \cup {None},
                     status : {"ACTIVE", "SUSPENDED", None}]
         /\ j.at = "revoke" => j.who \in Person /\ j.school \in School
         /\ j.at = "grant" => j.who \in Person /\ j.role \in {"OWNER", "SUPPORT"}
         /\ j.at = "dismiss" => j.who \in Person
BY DEF JobOK, Idle, Ats

\* One request moves on, the others stay where they are.
LEMMA OneMoves ==
  ASSUME Typed, NEW r \in Request, NEW j, req' = [req EXCEPT ![r] = j]
  PROVE  req'[r] = j /\ \A q \in Request \ {r} : req'[q] = req[q]
BY DEF Typed

\* Accounts and memberships are never deleted: what stood behind a request
\* still does.
Kept == /\ \A p \in Person : HasAccount(p) => HasAccount(p)'
        /\ \A p \in Person, s \in School : IsMember(p, s) => IsMember(p, s)'

LEMMA JobStays ==
  ASSUME NEW j, JobOK(j), Kept
  PROVE  JobOK(j)'
<1>1. \A p \in Person : HasAccount(p) => HasAccount(p)'
  BY DEF Kept
<1>2. \A p \in Person, s \in School : IsMember(p, s) => IsMember(p, s)'
  BY DEF Kept
<1>3. CASE j = Idle
  BY <1>3 DEF JobOK
<1>4. CASE j.at \in {"consume", "accept"}
  <2>1. j.link \in Link /\ j \in [at : {"consume", "accept"}, link : Link]
        /\ IsMember(j.link.who, j.link.school)
    BY <1>4, JobIs
  <2> QED
    BY <1>2, <2>1 DEF JobOK, Link
<1>5. CASE j.at \in Ats \ {"consume", "accept"}
  BY <1>1, <1>2, <1>5 DEF JobOK, Ats, Idle
<1> QED
  BY <1>3, <1>4, <1>5, JobIs

LEMMA JobsStay ==
  ASSUME Typed, NEW r \in Request, NEW j, req' = [req EXCEPT ![r] = j], Kept, JobOK(j)'
  PROVE  req' = [q \in Request |-> req'[q]] /\ \A q \in Request : JobOK(req[q])'
<1>1. req' = [q \in Request |-> req'[q]]
  BY DEF Typed
<1>2. ASSUME NEW q \in Request PROVE JobOK(req[q])'
  <2>1. PICK k : k = req'[q]
    OBVIOUS
  <2>2. k = j \/ JobOK(k)
    BY <2>1, OneMoves DEF Typed
  <2>3. JobOK(k)'
    BY <2>2, JobStays
  <2> QED
    BY <2>1, <2>3 DEF JobOK, HasAccount, IsMember
<1> QED
  BY <1>1, <1>2

-----------------------------------------------------------------------------
(* Counting invitations. *)

\* Requests are finitely many, and so are those that invite.
LEMMA RequestsFinite ==
  ASSUME MembershipsAssumption, NEW R \in SUBSET Request
  PROVE  IsFiniteSet(R) /\ Cardinality(R) \in Nat
BY FS_Subset, FS_CardinalityType DEF MembershipsAssumption

\* Spending links makes no more of them.
LEMMA SpendingAddsNone ==
  ASSUME IsFiniteSet(links), NEW f \in [links -> Link],
         NEW spent, spent = {f[l] : l \in links}
  PROVE  IsFiniteSet(spent) /\ Cardinality(spent) <= Cardinality(links)
         /\ Cardinality(spent) \in Nat /\ Cardinality(links) \in Nat
<1>1. f \in Surjection(links, spent)
  BY DEF Surjection
<1> QED
  BY <1>1, FS_Surjection, FS_CardinalityType

Inviters == {r \in Request : Inviting(r)}

LEMMA SameCount ==
  ASSUME Typed, MembershipsAssumption, IsFiniteSet(links'), Cardinality(links') <= Cardinality(links),
         Inviters' \subseteq Inviters
  PROVE  Cardinality(links') + Cardinality(Inviters') <= MaxLinks
<1>1. /\ Cardinality(links) \in Nat /\ Cardinality(links') \in Nat
      /\ Cardinality(Inviters) \in Nat /\ Cardinality(Inviters') \in Nat
      /\ Cardinality(Inviters') <= Cardinality(Inviters)
  BY FS_CardinalityType, FS_Subset, RequestsFinite DEF Typed, Inviters
<1> QED
  BY <1>1 DEF Typed, Inviters, MembershipsAssumption

-----------------------------------------------------------------------------
(* Types, and what stands behind a row. *)

LEMMA TypedMoves ==
  ASSUME Typed, NEW r \in Request, NEW j, req' = [req EXCEPT ![r] = j], Kept, JobOK(j)',
         TypeOK', IsFiniteSet(links'), Cardinality(links') + Cardinality(Inviters') <= MaxLinks
  PROVE  Typed'
BY JobsStay DEF Typed, Inviters

\* A request begins with what it has checked.
Begun(r, j) ==
  /\ Begin(r, j) /\ JobOK(j) /\ Checked(j)
  /\ j.at \in {"account", "consume", "update", "revoke", "grant", "dismiss"}
  /\ j.at = "account" => MayInvite

LEMMA AskBegins ==
  ASSUME MembershipsAssumption, Typed, NEW r \in Request, Ask(r)
  PROVE  \E j : Begun(r, j)
<1>1. ASSUME NEW p \in Person, NEW s \in School, NEW role \in Position, Invite(r, p, s, role)
      PROVE  Begun(r, Invitation(p, s, role))
  BY <1>1 DEF Invite, Invitation, JobOK, Checked, Begun
<1>2. ASSUME NEW l \in links, AcceptRead(r, l)
      PROVE  Begun(r, [at |-> "consume", link |-> l])
  BY <1>2 DEF AcceptRead, JobOK, Checked, Typed, TypeOK, IsMember, Begun
<1>3. ASSUME NEW by \in Person, NEW p \in Person, NEW s \in School,
             NEW role \in Position \cup {None}, NEW status \in {"ACTIVE", "SUSPENDED", None},
             Update(r, by, p, s, role, status)
      PROVE  Begun(r, [at |-> "update", who |-> p, school |-> s, role |-> role,
                       status |-> status])
  BY <1>3 DEF Update, JobOK, Checked, IsMember, Begun
<1>4. ASSUME NEW p \in Person, NEW s \in School, RevokeAccess(r, p, s)
      PROVE  Begun(r, [at |-> "revoke", who |-> p, school |-> s])
  BY <1>4 DEF RevokeAccess, JobOK, Checked, IsMember, Begun
<1>5. ASSUME NEW p \in Person, NEW role \in {"OWNER", "SUPPORT"}, Grant(r, p, role)
      PROVE  Begun(r, [at |-> "grant", who |-> p, role |-> role])
  BY <1>5 DEF Grant, JobOK, Checked, IsMember, HasAccount, Begun
<1>6. ASSUME NEW by \in Person, NEW p \in Person, RevokeOperator(r, by, p)
      PROVE  Begun(r, [at |-> "dismiss", who |-> p])
  BY <1>6 DEF RevokeOperator, JobOK, Checked, HasAccount, Owners, Typed, TypeOK, Begun
<1> QED
  BY <1>1, <1>2, <1>3, <1>4, <1>5, <1>6 DEF Ask

LEMMA AskKeeps ==
  ASSUME MembershipsAssumption, Typed, NEW r \in Request, Ask(r)
  PROVE  Typed'
<1>1. PICK j : Begun(r, j)
  BY AskBegins
<1>2. /\ req' = [req EXCEPT ![r] = j] /\ UNCHANGED <<account, member, links, operator>>
      /\ req'[r] = j /\ \A q \in Request \ {r} : req'[q] = req[q]
      /\ req[r] = Idle
  BY <1>1, OneMoves DEF Begin, Begun
<1>3. Kept /\ JobOK(j)' /\ TypeOK'
  BY <1>1, <1>2, JobStays DEF Kept, HasAccount, IsMember, Typed, TypeOK, Begun
<1>4. Cardinality(links) + Cardinality(Inviters') <= MaxLinks
  <2>1. CASE j.at = "account"
    <3>1. r \notin Inviters /\ Inviters' = Inviters \cup {r}
      BY <1>2, <2>1 DEF Inviters, Inviting, Idle
    <3>2. IsFiniteSet(Inviters) /\ Cardinality(Inviters) \in Nat /\ Cardinality(links) \in Nat
      BY RequestsFinite, FS_CardinalityType DEF Inviters, Typed
    <3>3. Cardinality(Inviters') = Cardinality(Inviters) + 1
      BY <3>1, <3>2, FS_AddElement
    <3> QED
      BY <1>1, <2>1, <3>2, <3>3 DEF MayInvite, Inviters, MembershipsAssumption, Begun
  <2>2. CASE j.at # "account"
    <3>1. Inviters' \subseteq Inviters
      BY <1>1, <1>2, <2>2 DEF Inviters, Inviting, Begun
    <3>2. IsFiniteSet(links') /\ Cardinality(links') <= Cardinality(links) /\ links' = links
      BY <1>2, FS_CardinalityType DEF Typed
    <3> QED
      BY <3>1, <3>2, SameCount
  <2> QED
    BY <2>1, <2>2
<1> QED
  BY <1>2, <1>3, <1>4, TypedMoves DEF Typed

\* A request goes on to j, and what it leaves in the tables has its type.
LEMMA Goes ==
  ASSUME MembershipsAssumption, Typed, NEW r \in Request, NEW j,
         req' = [req EXCEPT ![r] = j], Kept, JobOK(j)', TypeOK',
         Inviting(r)' => Inviting(r), IsFiniteSet(links'), Cardinality(links') <= Cardinality(links)
  PROVE  Typed'
<1>1. Inviters' \subseteq Inviters
  BY OneMoves DEF Inviters, Inviting
<1> QED
  BY <1>1, SameCount, TypedMoves

\* A row that is written is one of a person with an account.
LEMMA MemberWritten ==
  ASSUME Typed, NEW p \in Person, NEW s \in School, NEW row \in [status : Status, role : Position],
         HasAccount(p), row.status # "none",
         member' = [member EXCEPT ![p][s] = row],
         account' = account \/ account' = [account EXCEPT ![p] = "ACTIVE"],
         UNCHANGED <<links, operator>>
  PROVE  TypeOK' /\ Kept
<1>1. /\ member' \in [Person -> [School -> [status : Status, role : Position]]]
      /\ \A x \in Person, y \in School :
           member'[x][y] = IF x = p /\ y = s THEN row ELSE member[x][y]
  BY DEF Typed, TypeOK
<1>2. /\ account' \in [Person -> {"none", "PENDING_VERIFICATION", "ACTIVE"}]
      /\ \A x \in Person : account'[x] = "none" => account[x] = "none" /\ x # p
      /\ \A x \in Person : account[x] # "none" => account'[x] # "none"
  BY DEF Typed, TypeOK, HasAccount
<1>3. \A x \in Person : account'[x] = "none" =>
        operator'[x] = "none" /\ \A y \in School : member'[x][y] = Stranger
  BY <1>1, <1>2 DEF Typed, TypeOK
<1>4. Kept
  BY <1>1, <1>2 DEF Kept, HasAccount, IsMember
<1>5. \A l \in links' : member'[l.who][l.school].status # "none"
  BY <1>1 DEF Typed, TypeOK, Link
<1> QED
  BY <1>1, <1>2, <1>3, <1>4, <1>5 DEF TypeOK, Typed

\* Who is a member has an account.
LEMMA MembersHaveAccounts ==
  ASSUME Typed, NEW p \in Person, NEW s \in School, IsMember(p, s)
  PROVE  HasAccount(p)
BY DEF Typed, TypeOK, HasAccount, IsMember, Stranger

\* Links that are spent stay links of members.
LEMMA Spends ==
  ASSUME Typed, NEW dead \in SUBSET links, UNCHANGED <<account, member, operator>>,
         links' = {IF l \in dead THEN [l EXCEPT !.live = FALSE] ELSE l : l \in links}
  PROVE  /\ TypeOK' /\ Kept /\ IsFiniteSet(links') /\ Cardinality(links') <= Cardinality(links)
         /\ \A l \in links' : l.live => l \in links \ dead
<1>0. TypeOK /\ IsFiniteSet(links) /\ links \subseteq Link
  BY DEF Typed, TypeOK
<1>1. PICK f : f = [l \in links |-> IF l \in dead THEN [l EXCEPT !.live = FALSE] ELSE l]
  OBVIOUS
<1>2. ASSUME NEW l \in links
      PROVE  /\ f[l] \in Link /\ f[l].who = l.who /\ f[l].school = l.school
             /\ f[l].live => f[l] = l /\ l \notin dead
  <2>1. /\ [l EXCEPT !.live = FALSE] \in Link /\ [l EXCEPT !.live = FALSE].who = l.who
        /\ [l EXCEPT !.live = FALSE].school = l.school
        /\ [l EXCEPT !.live = FALSE].live = FALSE
    BY <1>0 DEF Link
  <2> QED
    BY <1>0, <1>1, <2>1
<1>3. f \in [links -> Link]
  BY <1>1, <1>2
<1>4. links' = {f[l] : l \in links}
  BY <1>1
<1>5. IsFiniteSet(links') /\ Cardinality(links') <= Cardinality(links)
  BY <1>0, <1>3, <1>4, SpendingAddsNone
<1>6. links' \subseteq Link /\ \A l \in links' : l.live => l \in links \ dead
  BY <1>2, <1>4
<1>7. \A l \in links' : member[l.who][l.school].status # "none"
  <2>1. SUFFICES ASSUME NEW l \in links PROVE member[f[l].who][f[l].school].status # "none"
    BY <1>4
  <2> QED
    BY <1>0, <1>2 DEF TypeOK
<1>8. TypeOK'
  BY <1>0, <1>6, <1>7 DEF TypeOK
<1>9. Kept
  BY DEF Kept, HasAccount, IsMember
<1> QED
  BY <1>5, <1>6, <1>8, <1>9

LEMMA ProceedKeeps ==
  ASSUME MembershipsAssumption, Typed, NEW r \in Request, Proceed(r)
  PROVE  Typed'
<1>0. JobOK(req[r]) /\ IsFiniteSet(links) /\ Cardinality(links) \in Nat
      /\ Cardinality(links) <= Cardinality(links) /\ TypeOK
  BY FS_CardinalityType DEF Typed
<1>1. CASE CreateUser(r)
  <2>1. PICK job, j : job = req[r] /\ j = [job EXCEPT !.at = "upsert"]
    OBVIOUS
  <2>2. /\ job \in [at : {"account", "upsert", "retire", "issue"}, who : Person,
                     school : School, role : Position]
        /\ job.at = "account"
    BY <1>0, <1>1, <2>1, JobIs DEF CreateUser, Continue
  <2>3. /\ req' = [req EXCEPT ![r] = j] /\ UNCHANGED <<member, links, operator>>
        /\ account' = [account EXCEPT ![job.who] =
                          IF @ = "none" THEN "PENDING_VERIFICATION" ELSE @]
    BY <1>1, <2>1 DEF CreateUser, Continue
  <2>4. TypeOK' /\ Kept /\ account'[job.who] # "none"
    <3>1. PICK p : p = job.who
      OBVIOUS
    <3>2. p \in Person
      BY <2>2, <3>1
    <3>3. /\ account' \in [Person -> {"none", "PENDING_VERIFICATION", "ACTIVE"}]
          /\ account'[p] # "none" /\ \A x \in Person : x # p => account'[x] = account[x]
      BY <1>0, <2>3, <3>1, <3>2 DEF TypeOK
    <3> QED
      BY <1>0, <2>3, <3>1, <3>3 DEF TypeOK, Kept, HasAccount, IsMember
  <2>5. JobOK(j)'
    BY <2>1, <2>2, <2>4 DEF JobOK, HasAccount
  <2> QED
    BY <1>0, <2>1, <2>2, <2>3, <2>4, <2>5, Goes DEF Inviting
<1>2. CASE Upsert(r)
  <2>1. PICK job, j : job = req[r] /\ j = [job EXCEPT !.at = "retire"]
    OBVIOUS
  <2>2. /\ job \in [at : {"account", "upsert", "retire", "issue"}, who : Person,
                     school : School, role : Position]
        /\ job.at = "upsert" /\ HasAccount(job.who)
    BY <1>0, <1>2, <2>1, JobIs DEF Upsert, Continue
  <2>3. PICK row : row = [status |-> "INVITED", role |-> job.role]
    OBVIOUS
  <2>4. /\ req' = [req EXCEPT ![r] = j] /\ UNCHANGED <<account, links, operator>>
        /\ member' = [member EXCEPT ![job.who][job.school] = row]
    BY <1>2, <2>1, <2>3 DEF Upsert, Continue
  <2>5. TypeOK' /\ Kept
    <3>1. /\ job.who \in Person /\ job.school \in School /\ row.status # "none"
          /\ row \in [status : Status, role : Position]
      BY <2>2, <2>3 DEF Status
    <3> QED
      BY <2>2, <2>4, <3>1, MemberWritten
  <2>6. IsMember(job.who, job.school)'
    <3>1. member'[job.who][job.school] = row
      BY <1>0, <2>2, <2>4 DEF TypeOK
    <3> QED
      BY <2>3, <3>1 DEF IsMember
  <2>7. JobOK(j)'
    <3>1. /\ j \in [at : {"retire"}, who : Person, school : School, role : Position]
          /\ j.who = job.who /\ j.school = job.school
      BY <2>1, <2>2
    <3>2. HasAccount(j.who)' /\ IsMember(j.who, j.school)'
      BY <2>2, <2>4, <2>6, <3>1 DEF HasAccount, IsMember
    <3> QED
      BY <3>1, <3>2 DEF JobOK
  <2> QED
    BY <1>0, <2>1, <2>2, <2>4, <2>5, <2>7, Goes DEF Inviting
<1>3. CASE Retire(r)
  <2>1. PICK job, j : job = req[r] /\ j = [job EXCEPT !.at = "issue"]
    OBVIOUS
  <2>2. /\ job \in [at : {"account", "upsert", "retire", "issue"}, who : Person,
                     school : School, role : Position]
        /\ job.at = "retire" /\ HasAccount(job.who) /\ IsMember(job.who, job.school)
    BY <1>0, <1>3, <2>1, JobIs DEF Retire, Continue
  <2>3. /\ req' = [req EXCEPT ![r] = j] /\ UNCHANGED <<account, member, operator>>
        /\ links' = Consumed({l \in links : l.who = job.who})
    BY <1>3, <2>1 DEF Retire, Continue
  <2>4. /\ TypeOK' /\ Kept /\ IsFiniteSet(links')
        /\ Cardinality(links') <= Cardinality(links)
    <3>1. PICK dead : dead = {l \in links : l.who = job.who}
      OBVIOUS
    <3>2. links' = {IF l \in dead THEN [l EXCEPT !.live = FALSE] ELSE l : l \in links}
      BY <2>3, <3>1 DEF Consumed
    <3>3. dead \in SUBSET links
      BY <3>1
    <3> QED
      BY <2>3, <3>2, <3>3, Spends
  <2>5. JobOK(j)'
    BY <2>1, <2>2, <2>3 DEF JobOK, HasAccount, IsMember
  <2> QED
    BY <1>0, <2>1, <2>2, <2>3, <2>4, <2>5, Goes DEF Inviting
<1>4. CASE Issue(r)
  <2>1. PICK job : job = req[r]
    OBVIOUS
  <2>2. /\ job \in [at : {"account", "upsert", "retire", "issue"}, who : Person,
                     school : School, role : Position]
        /\ job.at = "issue" /\ HasAccount(job.who) /\ IsMember(job.who, job.school)
    BY <1>0, <1>4, <2>1, JobIs DEF Issue, Finish
  <2>3. PICK new : new = [id |-> Cardinality(links) + 1, who |-> job.who,
                          school |-> job.school, live |-> TRUE]
    OBVIOUS
  <2>4. /\ req' = [req EXCEPT ![r] = Idle] /\ UNCHANGED <<account, member, operator>>
        /\ links' = links \cup {new}
    BY <1>4, <2>1, <2>3 DEF Issue, Finish
  <2>5. r \in Inviters /\ Inviters' = Inviters \ {r}
    <3>1. req'[r] = Idle /\ \A q \in Request \ {r} : req'[q] = req[q]
      BY <2>4, OneMoves
    <3>2. ~Inviting(r)' /\ Inviting(r)
      BY <2>1, <2>2, <3>1 DEF Inviting, Idle
    <3>3. \A q \in Request \ {r} : Inviting(q)' <=> Inviting(q)
      BY <3>1 DEF Inviting
    <3> QED
      BY <3>2, <3>3 DEF Inviters
  <2>6. /\ IsFiniteSet(Inviters) /\ Cardinality(Inviters) \in Nat
        /\ Cardinality(Inviters') = Cardinality(Inviters) - 1 /\ Cardinality(Inviters') \in Nat
    BY <2>5, RequestsFinite, FS_RemoveElement, FS_CardinalityType DEF Inviters
  <2>7. /\ IsFiniteSet(links') /\ Cardinality(links') \in Nat
        /\ Cardinality(links') <= Cardinality(links) + 1
    <3>1. /\ IsFiniteSet(links \cup {new})
          /\ Cardinality(links \cup {new}) =
               IF new \in links THEN Cardinality(links) ELSE Cardinality(links) + 1
      BY <1>0, FS_AddElement
    <3> QED
      BY <1>0, <2>4, <3>1
  <2>8. Cardinality(links) + 1 <= MaxLinks
        /\ Cardinality(links') + Cardinality(Inviters') <= MaxLinks
    BY <1>0, <2>6, <2>7 DEF Typed, Inviters, MembershipsAssumption
  <2>9. new \in Link
    BY <1>0, <2>2, <2>3, <2>8 DEF Link, MembershipsAssumption
  <2>10. TypeOK' /\ Kept /\ JobOK(Idle)'
    <3>1. member[new.who][new.school].status # "none"
      BY <2>2, <2>3 DEF IsMember
    <3>2. links' \subseteq Link /\ \A l \in links' : member[l.who][l.school].status # "none"
      BY <1>0, <2>4, <2>9, <3>1 DEF TypeOK
    <3> QED
      BY <1>0, <2>4, <3>2 DEF TypeOK, Kept, HasAccount, IsMember, JobOK
  <2> QED
    BY <2>4, <2>7, <2>8, <2>10, TypedMoves
<1>5. CASE AcceptConsume(r)
  <2>1. PICK job, j : job = req[r] /\ j = [job EXCEPT !.at = "accept"]
    OBVIOUS
  <2>2. /\ job \in [at : {"consume", "accept"}, link : Link]
        /\ job.at = "consume" /\ IsMember(job.link.who, job.link.school)
    BY <1>0, <1>5, <2>1, JobIs DEF AcceptConsume, Continue
  <2>3. /\ req' = [req EXCEPT ![r] = j] /\ UNCHANGED <<account, member, operator>>
        /\ links' = {IF l.id = job.link.id THEN [l EXCEPT !.live = FALSE] ELSE l : l \in links}
    BY <1>5, <2>1 DEF AcceptConsume, Continue
  <2>4. PICK dead : dead = {l \in links : l.id = job.link.id}
    OBVIOUS
  <2>5. links' = {IF l \in dead THEN [l EXCEPT !.live = FALSE] ELSE l : l \in links}
    BY <2>3, <2>4
  <2>6. /\ TypeOK' /\ Kept /\ IsFiniteSet(links')
        /\ Cardinality(links') <= Cardinality(links)
    <3>1. dead \in SUBSET links
      BY <2>4
    <3> QED
      BY <2>3, <2>5, <3>1, Spends
  <2>7. JobOK(j)'
    BY <2>1, <2>2, <2>3 DEF JobOK, HasAccount, IsMember
  <2>8. req'[r] = j /\ j.at = "accept"
    BY <2>1, <2>2, <2>3, OneMoves
  <2> QED
    BY <1>0, <2>3, <2>6, <2>7, <2>8, Goes DEF Inviting
<1>6. ASSUME req' = [req EXCEPT ![r] = Idle], links' = links, TypeOK', Kept PROVE Typed'
  <2>1. ~Inviting(r)'
    <3>1. req'[r] = Idle
      BY <1>6, OneMoves
    <3> QED
      BY <3>1 DEF Inviting, Idle
  <2> QED
    BY <1>0, <1>6, <2>1, Goes DEF JobOK
<1>7. CASE Accept(r)
  <2>1. PICK p, s, row : p = req[r].link.who /\ s = req[r].link.school
                         /\ row = [member[p][s] EXCEPT !.status = "ACTIVE"]
    OBVIOUS
  <2>2. p \in Person /\ s \in School /\ HasAccount(p)
    BY <1>0, <1>7, <2>1, JobIs, MembersHaveAccounts DEF Accept, Finish, Link
  <2>3. row \in [status : Status, role : Position] /\ row.status # "none"
    <3>1. member[p][s] \in [status : Status, role : Position]
      BY <1>0, <2>2 DEF TypeOK
    <3> QED
      BY <2>1, <3>1 DEF Status
  <2>4. /\ member' = [member EXCEPT ![p][s] = row] /\ account' = [account EXCEPT ![p] = "ACTIVE"]
        /\ UNCHANGED <<links, operator>> /\ req' = [req EXCEPT ![r] = Idle]
    BY <1>7, <2>1 DEF Accept, Finish
  <2> QED
    BY <1>6, <2>2, <2>3, <2>4, MemberWritten
<1>8. CASE UpdateWrite(r)
  <2>1. PICK p, s, row : p = req[r].who /\ s = req[r].school
          /\ row = [status |-> IF req[r].status = None THEN member[p][s].status ELSE req[r].status,
                    role |-> IF req[r].role = None THEN member[p][s].role ELSE req[r].role]
    OBVIOUS
  <2>2. /\ req[r] \in [at : {"update"}, who : Person, school : School, role : Position \cup {None},
                        status : {"ACTIVE", "SUSPENDED", None}]
        /\ IsMember(p, s)
    BY <1>0, <1>8, <2>1, JobIs DEF UpdateWrite, Finish
  <2>3. p \in Person /\ s \in School /\ HasAccount(p)
    BY <2>1, <2>2, MembersHaveAccounts
  <2>4. row \in [status : Status, role : Position] /\ row.status # "none"
    <3>1. member[p][s] \in [status : Status, role : Position] /\ member[p][s].status # "none"
      BY <1>0, <2>2, <2>3 DEF TypeOK, IsMember
    <3>2. PICK k : k = req[r]
      OBVIOUS
    <3> QED
      BY <2>1, <2>2, <3>1, <3>2 DEF Status
  <2>5. /\ member' = [member EXCEPT ![p][s] = row]
        /\ UNCHANGED <<account, links, operator>> /\ req' = [req EXCEPT ![r] = Idle]
    BY <1>8, <2>1 DEF UpdateWrite, Finish
  <2> QED
    BY <1>6, <2>3, <2>4, <2>5, MemberWritten
<1>9. CASE RevokeWrite(r)
  <2>1. PICK p, s, row : p = req[r].who /\ s = req[r].school
                         /\ row = [member[p][s] EXCEPT !.status = "REVOKED"]
    OBVIOUS
  <2>2. p \in Person /\ s \in School /\ HasAccount(p)
    BY <1>0, <1>9, <2>1, JobIs, MembersHaveAccounts DEF RevokeWrite, Finish
  <2>3. row \in [status : Status, role : Position] /\ row.status # "none"
    <3>1. member[p][s] \in [status : Status, role : Position]
      BY <1>0, <2>2 DEF TypeOK
    <3> QED
      BY <2>1, <3>1 DEF Status
  <2>4. /\ member' = [member EXCEPT ![p][s] = row]
        /\ UNCHANGED <<account, links, operator>> /\ req' = [req EXCEPT ![r] = Idle]
    BY <1>9, <2>1 DEF RevokeWrite, Finish
  <2> QED
    BY <1>6, <2>2, <2>3, <2>4, MemberWritten
<1>10. CASE GrantWrite(r) \/ Dismiss(r)
  <2>1. PICK p : p = req[r].who
    OBVIOUS
  <2>2. p \in Person /\ HasAccount(p)
    BY <1>0, <1>10, <2>1, JobIs DEF GrantWrite, Dismiss, Finish
  <2>3. GrantWrite(r) => req[r].role \in {"OWNER", "SUPPORT"}
    BY <1>0, JobIs DEF GrantWrite, Finish
  <2>4. /\ UNCHANGED <<account, member, links>>
        /\ operator' \in [Person -> {"none", "OWNER", "SUPPORT", "disabled"}]
        /\ \A x \in Person : x # p => operator'[x] = operator[x]
    BY <1>0, <1>10, <2>1, <2>2, <2>3 DEF GrantWrite, Dismiss, TypeOK
  <2>5. TypeOK' /\ Kept
    BY <1>0, <2>2, <2>4 DEF TypeOK, Kept, HasAccount, IsMember
  <2> QED
    BY <1>6, <1>10, <2>4, <2>5 DEF GrantWrite, Dismiss, Finish
<1> QED
  BY <1>1, <1>2, <1>3, <1>4, <1>5, <1>7, <1>8, <1>9, <1>10 DEF Proceed

LEMMA TypedInvariant ==
  ASSUME MembershipsAssumption
  PROVE  Spec => []Typed
<1>1. ASSUME Init PROVE Typed
  <2>1. PICK founder \in [School -> Person], first \in Person :
          /\ account = [p \in Person |-> IF p = first \/ \E s \in School : founder[s] = p
                                         THEN "ACTIVE" ELSE "none"]
          /\ member = [p \in Person |-> [s \in School |->
                        IF founder[s] = p THEN [status |-> "ACTIVE", role |-> "PROPRIETOR"]
                                          ELSE Stranger]]
          /\ links = {}
          /\ operator = [p \in Person |-> IF p = first THEN "OWNER" ELSE "none"]
          /\ req = [r \in Request |-> Idle]
    BY <1>1 DEF Init
  <2>2. Stranger \in [status : Status, role : Position]
        /\ [status |-> "ACTIVE", role |-> "PROPRIETOR"] \in [status : Status, role : Position]
    BY DEF Stranger, Status, Position
  <2>3. /\ account \in [Person -> {"none", "PENDING_VERIFICATION", "ACTIVE"}]
        /\ member \in [Person -> [School -> [status : Status, role : Position]]]
        /\ operator \in [Person -> {"none", "OWNER", "SUPPORT", "disabled"}]
    BY <2>1, <2>2
  <2>4. \A p \in Person : account[p] = "none" =>
          operator[p] = "none" /\ \A s \in School : member[p][s] = Stranger
    BY <2>1
  <2>5. TypeOK
    BY <2>1, <2>3, <2>4 DEF TypeOK
  <2>6. IsFiniteSet(links) /\ Cardinality(links) = 0
    BY <2>1, FS_EmptySet
  <2>7. \A r \in Request : req[r] = Idle /\ JobOK(req[r]) /\ ~Inviting(r)
    BY <2>1 DEF JobOK, Inviting, Idle
  <2>8. Cardinality({r \in Request : Inviting(r)}) = 0
    <3>1. {r \in Request : Inviting(r)} = {}
      BY <2>7
    <3> QED
      BY <3>1, FS_EmptySet
  <2> QED
    BY <2>1, <2>5, <2>6, <2>7, <2>8 DEF Typed, MembershipsAssumption
<1>2. ASSUME Typed, [Next]_vars PROVE Typed'
  <2>1. ASSUME NEW r \in Request, Stop(r) PROVE Typed'
    <3>1. /\ req' = [req EXCEPT ![r] = Idle] /\ UNCHANGED <<account, member, links, operator>>
      BY <2>1 DEF Stop
    <3>2. req'[r] = Idle
      BY <1>2, <3>1, OneMoves
    <3>5. ~Inviting(r)'
      BY <3>2 DEF Inviting, Idle
    <3>3. TypeOK' /\ Kept /\ JobOK(Idle)'
      BY <1>2, <3>1 DEF Typed, TypeOK, Kept, HasAccount, IsMember, JobOK
    <3>4. IsFiniteSet(links') /\ Cardinality(links') <= Cardinality(links)
      BY <1>2, <3>1, FS_CardinalityType DEF Typed
    <3> QED
      BY <1>2, <3>1, <3>3, <3>4, <3>5, Goes
  <2>2. ASSUME NEW p \in Person, NEW role \in ScriptRoles, Script(p, role) PROVE Typed'
    <3>1. /\ account' = [account EXCEPT ![p] = IF @ = "none" THEN "ACTIVE" ELSE @]
          /\ operator' = [operator EXCEPT ![p] = role] /\ UNCHANGED <<member, links, req>>
          /\ role \in {"OWNER", "SUPPORT"}
      BY <2>2 DEF Script, MembershipsAssumption
    <3>2. /\ account' \in [Person -> {"none", "PENDING_VERIFICATION", "ACTIVE"}]
          /\ account'[p] # "none" /\ \A x \in Person : x # p => account'[x] = account[x]
          /\ operator' \in [Person -> {"none", "OWNER", "SUPPORT", "disabled"}]
          /\ \A x \in Person : x # p => operator'[x] = operator[x]
      BY <1>2, <3>1 DEF Typed, TypeOK
    <3>3. TypeOK' /\ Kept
      BY <1>2, <3>1, <3>2 DEF Typed, TypeOK, Kept, HasAccount, IsMember
    <3>4. ASSUME NEW r \in Request PROVE JobOK(req[r])'
      <4>1. PICK k : k = req[r]
        OBVIOUS
      <4>2. JobOK(k)'
        BY <1>2, <3>3, <4>1, JobStays DEF Typed
      <4> QED
        BY <3>1, <4>1, <4>2 DEF JobOK, HasAccount, IsMember
    <3> QED
      BY <1>2, <3>1, <3>3, <3>4 DEF Typed, Inviting
  <2>3. CASE UNCHANGED vars
    <3>1. ASSUME NEW r \in Request PROVE JobOK(req[r])'
      BY <1>2, <2>3 DEF vars, Typed, JobOK, HasAccount, IsMember
    <3> QED
      BY <1>2, <2>3, <3>1 DEF vars, Typed, TypeOK, Inviting
  <2> QED
    BY <1>2, <2>1, <2>2, <2>3, AskKeeps, ProceedKeeps DEF Next
<1> QED
  BY <1>1, <1>2, PTL DEF Spec

(***************************************************************************)
(* "Types, and what an account must be behind a membership and a role"     *)
(* (Memberships.TypeOK), however many requests overlap and wherever a      *)
(* process stops between two statements of a handler.                      *)
(***************************************************************************)
THEOREM MembershipsTypeCorrect ==
  ASSUME MembershipsAssumption
  PROVE  Spec => []TypeOK
<1>1. Typed => TypeOK
  BY DEF Typed
<1> QED
  BY <1>1, TypedInvariant, PTL

-----------------------------------------------------------------------------
(* One request at a time. *)

Calm == AloneInv /\ OnlyNewestIsLive /\ KeepsAProprietor /\ OperatorsStandApart

\* Where one request is at work it is the only one, and moves to what it has
\* checked.
LEMMA AloneMoves ==
  ASSUME Typed, NEW r \in Request, NEW j, \A q \in Request \ {r} : req[q] = Idle,
         req' = [req EXCEPT ![r] = j], Checked(j)'
  PROVE  AloneInv'
<1>1. req'[r] = j /\ \A q \in Request \ {r} : req'[q] = Idle
  BY OneMoves
<1>2. \A x, y \in Request : req'[x] # Idle /\ req'[y] # Idle => x = y
  BY <1>1
<1>3. ASSUME NEW q \in Request PROVE Checked(req[q])'
  <2>1. PICK k : k = req'[q]
    OBVIOUS
  <2>2. Checked(k)'
    <3>1. CASE q = r
      BY <1>1, <2>1, <3>1
    <3>2. CASE q # r
      <4>1. k = Idle
        BY <1>1, <2>1, <3>2
      <4> QED
        BY <4>1 DEF Checked, Idle
    <3> QED
      BY <3>1, <3>2
  <2> QED
    BY <2>1, <2>2 DEF Checked, NotLastProprietor, Proprietors, Live, IsMember, Owners
<1> QED
  BY <1>2, <1>3 DEF AloneInv

\* The same when it is done.
LEMMA AloneEnds ==
  ASSUME Typed, NEW r \in Request, \A q \in Request \ {r} : req[q] = Idle,
         req' = [req EXCEPT ![r] = Idle]
  PROVE  AloneInv'
<1>1. PICK j : j = Idle
  OBVIOUS
<1>2. Checked(j)'
  BY <1>1 DEF Checked, Idle
<1> QED
  BY <1>1, <1>2, AloneMoves

\* A school keeps a proprietor, unless its last one is overwritten.
LEMMA ProprietorStays ==
  ASSUME Typed, KeepsAProprietor, NEW p \in Person, NEW s \in School, NEW row,
         member' = [member EXCEPT ![p][s] = row],
         \/ p \notin Proprietors(s)
         \/ row = member[p][s]
         \/ Cardinality(Proprietors(s)) > 1
  PROVE  KeepsAProprietor'
<1>1. \A x \in Person, y \in School :
        member'[x][y] = IF x = p /\ y = s THEN row ELSE member[x][y]
  BY DEF Typed, TypeOK
<1>2. SUFFICES ASSUME NEW y \in School
               PROVE  \E x \in Person : member'[x][y] = [status |-> "ACTIVE",
                                                         role |-> "PROPRIETOR"]
  BY DEF KeepsAProprietor, Proprietors
<1>3. PICK x \in Person : member[x][y] = [status |-> "ACTIVE", role |-> "PROPRIETOR"]
  BY DEF KeepsAProprietor, Proprietors
<1>4. CASE y # s \/ x # p \/ row = member[p][s]
  BY <1>1, <1>3, <1>4
<1>5. CASE y = s /\ x = p /\ Cardinality(Proprietors(s)) > 1
  <2>1. \E q \in Proprietors(s) : q # p
    <3>1. SUFFICES ASSUME Proprietors(s) \subseteq {p} PROVE FALSE
      OBVIOUS
    <3>2. Proprietors(s) = {p}
      BY <1>3, <1>5, <3>1 DEF Proprietors
    <3> QED
      BY <1>5, <3>2, FS_Singleton
  <2> QED
    BY <1>1, <1>5, <2>1 DEF Proprietors
<1> QED
  BY <1>3, <1>4, <1>5 DEF Proprietors

\* Who becomes or stays a member is no operator.
LEMMA ApartStays ==
  ASSUME Typed, OperatorsStandApart, NEW p \in Person, NEW s \in School, NEW row,
         member' = [member EXCEPT ![p][s] = row], operator' = operator,
         operator[p] = "none" \/ IsMember(p, s)
  PROVE  OperatorsStandApart'
<1>1. \A x \in Person, y \in School :
        member'[x][y] = IF x = p /\ y = s THEN row ELSE member[x][y]
  BY DEF Typed, TypeOK
<1> QED
  BY <1>1 DEF OperatorsStandApart, IsMember

\* Spent links leave one live link of a person at most.
LEMMA NewestStays ==
  ASSUME OnlyNewestIsLive, \A l \in links' : l.live => l \in links
  PROVE  OnlyNewestIsLive'
BY DEF OnlyNewestIsLive

LEMMA AskIsCalm ==
  ASSUME MembershipsAssumption, ~MayOverlap, Typed, Calm, NEW r \in Request, Ask(r)
  PROVE  Calm'
<1>1. PICK j : Begun(r, j)
  BY AskBegins
<1>2. /\ req' = [req EXCEPT ![r] = j] /\ UNCHANGED <<account, member, links, operator>>
      /\ \A q \in Request : req[q] = Idle
  BY <1>1 DEF Begin, Begun
<1>3. Checked(j)'
  BY <1>1, <1>2 DEF Begun, Checked, NotLastProprietor, Proprietors, Live, IsMember, Owners
<1>4. AloneInv'
  BY <1>2, <1>3, AloneMoves
<1> QED
  BY <1>2, <1>4 DEF Calm, OnlyNewestIsLive, KeepsAProprietor, Proprietors, OperatorsStandApart

\* Who is at work is alone, with what it has checked.
LEMMA AtWork ==
  ASSUME Typed, Calm, NEW r \in Request, Proceed(r) \/ Stop(r)
  PROVE  /\ req[r] # Idle /\ \A q \in Request \ {r} : req[q] = Idle
         /\ JobOK(req[r]) /\ Checked(req[r])
<1>1. req[r] # Idle
  <2>1. CreateUser(r) \/ Upsert(r) \/ Retire(r) \/ AcceptConsume(r) => req[r].at \in Ats
    BY DEF CreateUser, Upsert, Retire, AcceptConsume, Continue, Ats
  <2>2. Issue(r) \/ Accept(r) \/ UpdateWrite(r) \/ RevokeWrite(r) \/ GrantWrite(r) \/ Dismiss(r)
        => req[r].at \in Ats
    BY DEF Issue, Accept, UpdateWrite, RevokeWrite, GrantWrite, Dismiss, Finish, Ats
  <2>3. Idle.at \notin Ats
    BY DEF Idle, Ats
  <2> QED
    BY <2>1, <2>2, <2>3 DEF Proceed, Stop
<1> QED
  BY <1>1 DEF Calm, AloneInv, Typed

LEMMA ProceedIsCalm ==
  ASSUME MembershipsAssumption, Typed, Calm, NEW r \in Request, Proceed(r)
  PROVE  Calm'
<1>0. /\ JobOK(req[r]) /\ Checked(req[r]) /\ \A q \in Request \ {r} : req[q] = Idle
      /\ AloneInv /\ OnlyNewestIsLive /\ KeepsAProprietor /\ OperatorsStandApart /\ TypeOK
  BY AtWork DEF Calm, Typed
<1>1. CASE CreateUser(r)
  <2>1. PICK job, j : job = req[r] /\ j = [job EXCEPT !.at = "upsert"]
    OBVIOUS
  <2>2. /\ job \in [at : {"account", "upsert", "retire", "issue"}, who : Person,
                     school : School, role : Position]
        /\ job.at = "account"
    BY <1>0, <1>1, <2>1, JobIs DEF CreateUser, Continue
  <2>3. req' = [req EXCEPT ![r] = j] /\ UNCHANGED <<member, links, operator>>
    BY <1>1, <2>1 DEF CreateUser, Continue
  <2>4. Checked(j)'
    BY <1>0, <2>1, <2>2, <2>3 DEF Checked
  <2>5. AloneInv'
    BY <1>0, <2>3, <2>4, AloneMoves
  <2> QED
    BY <1>0, <2>3, <2>5 DEF Calm, OnlyNewestIsLive, KeepsAProprietor, Proprietors,
       OperatorsStandApart
<1>2. CASE Upsert(r)
  <2>1. PICK job, j, row : job = req[r] /\ j = [job EXCEPT !.at = "retire"]
                           /\ row = [status |-> "INVITED", role |-> job.role]
    OBVIOUS
  <2>2. /\ job \in [at : {"account", "upsert", "retire", "issue"}, who : Person,
                     school : School, role : Position]
        /\ job.at = "upsert" /\ Checked(job)
    BY <1>0, <1>2, <2>1, JobIs DEF Upsert, Continue
  <2>3. /\ req' = [req EXCEPT ![r] = j] /\ UNCHANGED <<links, operator>>
        /\ member' = [member EXCEPT ![job.who][job.school] = row]
    BY <1>2, <2>1 DEF Upsert, Continue
  <2>4. Checked(j)'
    BY <2>1, <2>2 DEF Checked
  <2>5. AloneInv'
    BY <1>0, <2>3, <2>4, AloneMoves
  <2>6. /\ job.who \in Person /\ job.school \in School /\ operator[job.who] = "none"
        /\ job.who \notin Proprietors(job.school)
    BY <2>2 DEF Checked, Proprietors
  <2>7. KeepsAProprietor' /\ OperatorsStandApart'
    BY <1>0, <2>3, <2>6, ProprietorStays, ApartStays
  <2> QED
    BY <1>0, <2>3, <2>5, <2>7 DEF Calm, OnlyNewestIsLive
<1>3. ASSUME NEW dead \in SUBSET links, UNCHANGED <<account, member, operator>>, AloneInv',
             links' = {IF l \in dead THEN [l EXCEPT !.live = FALSE] ELSE l : l \in links}
      PROVE  Calm'
  <2>1. \A l \in links' : l.live => l \in links
    BY <1>3, Spends
  <2> QED
    BY <1>0, <1>3, <2>1, NewestStays DEF Calm, KeepsAProprietor, Proprietors, OperatorsStandApart
<1>4. CASE Retire(r)
  <2>1. PICK job, j, dead : /\ job = req[r] /\ j = [job EXCEPT !.at = "issue"]
                            /\ dead = {l \in links : l.who = job.who}
    OBVIOUS
  <2>2. /\ job \in [at : {"account", "upsert", "retire", "issue"}, who : Person,
                     school : School, role : Position]
        /\ job.at = "retire"
    BY <1>0, <1>4, <2>1, JobIs DEF Retire, Continue
  <2>3. /\ req' = [req EXCEPT ![r] = j] /\ UNCHANGED <<account, member, operator>>
        /\ links' = {IF l \in dead THEN [l EXCEPT !.live = FALSE] ELSE l : l \in links}
        /\ dead \in SUBSET links
    BY <1>4, <2>1 DEF Retire, Continue, Consumed
  <2>4. \A l \in links' : l.live => l \in links \ dead
    BY <2>3, Spends
  <2>5. Checked(j)'
    <3>1. j.at = "issue" /\ j.who = job.who
      BY <2>1, <2>2
    <3>2. Live(j.who)' = {}
      BY <2>1, <2>4, <3>1 DEF Live
    <3> QED
      BY <3>1, <3>2 DEF Checked
  <2> QED
    BY <1>0, <1>3, <2>3, <2>5, AloneMoves
<1>5. CASE Issue(r)
  <2>1. PICK job, new : /\ job = req[r]
                        /\ new = [id |-> Cardinality(links) + 1, who |-> job.who,
                                  school |-> job.school, live |-> TRUE]
    OBVIOUS
  <2>2. /\ req' = [req EXCEPT ![r] = Idle] /\ UNCHANGED <<account, member, operator>>
        /\ links' = links \cup {new} /\ job.at = "issue"
    BY <1>5, <2>1 DEF Issue, Finish
  <2>3. Live(new.who) = {}
    BY <1>0, <2>1, <2>2 DEF Checked
  <2>4. OnlyNewestIsLive'
    BY <1>0, <2>2, <2>3 DEF OnlyNewestIsLive, Live
  <2> QED
    BY <1>0, <2>2, <2>4, AloneEnds DEF Calm, KeepsAProprietor, Proprietors, OperatorsStandApart
<1>6. CASE AcceptConsume(r)
  <2>1. PICK job, j, dead : /\ job = req[r] /\ j = [job EXCEPT !.at = "accept"]
                            /\ dead = {l \in links : l.id = job.link.id}
    OBVIOUS
  <2>2. job \in [at : {"consume", "accept"}, link : Link]
    BY <1>0, <1>6, <2>1, JobIs DEF AcceptConsume, Continue
  <2>3. /\ req' = [req EXCEPT ![r] = j] /\ UNCHANGED <<account, member, operator>>
        /\ dead \in SUBSET links
        /\ links' = {IF l.id = job.link.id THEN [l EXCEPT !.live = FALSE] ELSE l : l \in links}
    BY <1>6, <2>1 DEF AcceptConsume, Continue
  <2>4. links' = {IF l \in dead THEN [l EXCEPT !.live = FALSE] ELSE l : l \in links}
    BY <2>1, <2>3
  <2>5. Checked(j)'
    BY <2>1, <2>2 DEF Checked
  <2> QED
    BY <1>0, <1>3, <2>3, <2>4, <2>5, AloneMoves
<1>7. ASSUME NEW p \in Person, NEW s \in School, NEW row, IsMember(p, s),
             member' = [member EXCEPT ![p][s] = row], req' = [req EXCEPT ![r] = Idle],
             UNCHANGED <<links, operator>>,
             p \notin Proprietors(s) \/ row = member[p][s] \/ Cardinality(Proprietors(s)) > 1
      PROVE  Calm'
  <2>1. AloneInv'
    BY <1>0, <1>7, AloneEnds
  <2>2. KeepsAProprietor' /\ OperatorsStandApart'
    BY <1>0, <1>7, ProprietorStays, ApartStays
  <2> QED
    BY <1>0, <1>7, <2>1, <2>2 DEF Calm, OnlyNewestIsLive
<1>8. CASE Accept(r)
  <2>1. PICK p, s, row : p = req[r].link.who /\ s = req[r].link.school
                         /\ row = [member[p][s] EXCEPT !.status = "ACTIVE"]
    OBVIOUS
  <2>2. p \in Person /\ s \in School /\ IsMember(p, s)
    BY <1>0, <1>8, <2>1, JobIs DEF Accept, Finish, Link
  <2>3. p \notin Proprietors(s) \/ row = member[p][s]
    <3>1. SUFFICES ASSUME member[p][s] = [status |-> "ACTIVE", role |-> "PROPRIETOR"]
                   PROVE  row = member[p][s]
      BY DEF Proprietors
    <3>2. row = [[status |-> "ACTIVE", role |-> "PROPRIETOR"] EXCEPT !.status = "ACTIVE"]
      BY <2>1, <3>1
    <3>3. @ = [status |-> "ACTIVE", role |-> "PROPRIETOR"]
      OBVIOUS
    <3> QED
      BY <3>1, <3>2, <3>3
  <2>4. /\ member' = [member EXCEPT ![p][s] = row] /\ UNCHANGED <<links, operator>>
        /\ req' = [req EXCEPT ![r] = Idle]
    BY <1>8, <2>1 DEF Accept, Finish
  <2> QED
    BY <1>7, <2>2, <2>3, <2>4
<1>9. CASE UpdateWrite(r)
  <2>1. PICK job, p, s, row : /\ job = req[r] /\ p = job.who /\ s = job.school
          /\ row = [status |-> IF job.status = None THEN member[p][s].status ELSE job.status,
                    role |-> IF job.role = None THEN member[p][s].role ELSE job.role]
    OBVIOUS
  <2>2. /\ job \in [at : {"update"}, who : Person, school : School, role : Position \cup {None},
                    status : {"ACTIVE", "SUSPENDED", None}]
        /\ IsMember(p, s) /\ Checked(job)
    BY <1>0, <1>9, <2>1, JobIs DEF UpdateWrite, Finish
  <2>3. p \notin Proprietors(s) \/ row = member[p][s] \/ Cardinality(Proprietors(s)) > 1
    <3>1. SUFFICES ASSUME p \in Proprietors(s), ~(Cardinality(Proprietors(s)) > 1)
                   PROVE  row = member[p][s]
      OBVIOUS
    <3>2. member[p][s] = [status |-> "ACTIVE", role |-> "PROPRIETOR"]
      BY <3>1 DEF Proprietors
    <3>3. job.role \in {None, "PROPRIETOR"} /\ job.status # "SUSPENDED"
      BY <2>1, <2>2, <3>1, <3>2 DEF Checked, NotLastProprietor
    <3> QED
      BY <2>1, <2>2, <3>2, <3>3
  <2>4. /\ member' = [member EXCEPT ![p][s] = row] /\ UNCHANGED <<links, operator>>
        /\ req' = [req EXCEPT ![r] = Idle]
    BY <1>9, <2>1 DEF UpdateWrite, Finish
  <2>5. p \in Person /\ s \in School
    BY <2>1, <2>2
  <2> QED
    BY <1>7, <2>2, <2>3, <2>4, <2>5
<1>10. CASE RevokeWrite(r)
  <2>1. PICK job, p, s, row : /\ job = req[r] /\ p = job.who /\ s = job.school
                              /\ row = [member[p][s] EXCEPT !.status = "REVOKED"]
    OBVIOUS
  <2>2. p \in Person /\ s \in School /\ IsMember(p, s) /\ NotLastProprietor(p, s)
    BY <1>0, <1>10, <2>1, JobIs DEF RevokeWrite, Finish, Checked
  <2>3. p \notin Proprietors(s) \/ Cardinality(Proprietors(s)) > 1
    BY <2>2 DEF Proprietors, NotLastProprietor
  <2>4. /\ member' = [member EXCEPT ![p][s] = row] /\ UNCHANGED <<links, operator>>
        /\ req' = [req EXCEPT ![r] = Idle]
    BY <1>10, <2>1 DEF RevokeWrite, Finish
  <2> QED
    BY <1>7, <2>2, <2>3, <2>4
<1>11. CASE GrantWrite(r) \/ Dismiss(r)
  <2>1. PICK job, p : job = req[r] /\ p = job.who
    OBVIOUS
  <2>2. /\ UNCHANGED <<member, links>> /\ req' = [req EXCEPT ![r] = Idle] /\ p \in Person
        /\ \A x \in Person : x # p => operator'[x] = operator[x]
    BY <1>0, <1>11, <2>1, JobIs DEF GrantWrite, Dismiss, Finish, TypeOK
  <2>3. \A s \in School : member[p][s].status = "none"
    <3>1. CASE GrantWrite(r)
      BY <1>0, <2>1, <3>1 DEF GrantWrite, Finish, Checked, IsMember
    <3>2. CASE Dismiss(r)
      BY <1>0, <2>1, <2>2, <3>2 DEF Dismiss, Finish, Checked, OperatorsStandApart
    <3> QED
      BY <1>11, <3>1, <3>2
  <2>4. OperatorsStandApart'
    BY <1>0, <2>2, <2>3 DEF OperatorsStandApart
  <2> QED
    BY <1>0, <2>2, <2>4, AloneEnds DEF Calm, OnlyNewestIsLive, KeepsAProprietor, Proprietors
<1> QED
  BY <1>1, <1>2, <1>4, <1>5, <1>6, <1>8, <1>9, <1>10, <1>11 DEF Proceed

LEMMA CalmFromStart ==
  ASSUME Init
  PROVE  Calm /\ AnOwnerRemains
<1>1. PICK founder \in [School -> Person], first \in Person :
        /\ \A s \in School : founder[s] # first
        /\ member = [p \in Person |-> [s \in School |->
                      IF founder[s] = p THEN [status |-> "ACTIVE", role |-> "PROPRIETOR"]
                                        ELSE Stranger]]
        /\ links = {}
        /\ operator = [p \in Person |-> IF p = first THEN "OWNER" ELSE "none"]
        /\ req = [r \in Request |-> Idle]
  BY DEF Init
<1>2. AloneInv
  <2>1. \A r \in Request : req[r] = Idle
    BY <1>1
  <2> QED
    BY <2>1 DEF AloneInv, Checked, Idle
<1>3. KeepsAProprietor
  <2>1. \A s \in School : founder[s] \in Proprietors(s)
    BY <1>1 DEF Proprietors
  <2> QED
    BY <2>1 DEF KeepsAProprietor
<1>4. OperatorsStandApart
  BY <1>1 DEF OperatorsStandApart, Stranger
<1>5. OnlyNewestIsLive /\ first \in Owners
  BY <1>1 DEF OnlyNewestIsLive, Owners
<1> QED
  BY <1>2, <1>3, <1>4, <1>5 DEF Calm, AnOwnerRemains

LEMMA NextIsCalm ==
  ASSUME MembershipsAssumption, ~MayOverlap, Typed, Calm, [Next]_vars
  PROVE  Calm'
<1>1. ASSUME NEW r \in Request, Stop(r) PROVE Calm'
  <2>1. /\ \A q \in Request \ {r} : req[q] = Idle
        /\ req' = [req EXCEPT ![r] = Idle] /\ UNCHANGED <<account, member, links, operator>>
    BY <1>1, AtWork DEF Stop
  <2>2. AloneInv'
    BY <2>1, AloneEnds
  <2> QED
    BY <2>1, <2>2 DEF Calm, OnlyNewestIsLive, KeepsAProprietor, Proprietors, OperatorsStandApart
<1>2. ASSUME NEW p \in Person, NEW role \in ScriptRoles, Script(p, role) PROVE Calm'
  <2>1. /\ \A q \in Request : req[q] = Idle
        /\ \A s \in School : member[p][s].status = "none"
        /\ operator' = [operator EXCEPT ![p] = role] /\ UNCHANGED <<member, links, req>>
    BY <1>2 DEF Script
  <2>2. AloneInv'
    BY <2>1 DEF AloneInv, Checked, Idle
  <2>3. \A x \in Person : x # p => operator'[x] = operator[x]
    BY <2>1 DEF Typed, TypeOK
  <2>4. OperatorsStandApart'
    BY <2>1, <2>3 DEF Calm, OperatorsStandApart
  <2> QED
    BY <2>1, <2>2, <2>4 DEF Calm, OnlyNewestIsLive, KeepsAProprietor, Proprietors
<1>3. CASE UNCHANGED vars
  <2>1. AloneInv'
    BY <1>3 DEF vars, Calm, AloneInv, Checked, NotLastProprietor, Proprietors, Live, IsMember,
       Owners
  <2> QED
    BY <1>3, <2>1 DEF vars, Calm, OnlyNewestIsLive, KeepsAProprietor, Proprietors,
       OperatorsStandApart
<1> QED
  BY <1>1, <1>2, <1>3, AskIsCalm, ProceedIsCalm DEF Next

LEMMA CalmInvariant ==
  ASSUME MembershipsAssumption, ~MayOverlap
  PROVE  Spec => []Calm
<1>1. Init => Calm
  BY CalmFromStart
<1>2. Typed /\ Calm /\ [Next]_vars => Calm'
  BY NextIsCalm
<1> QED
  BY <1>1, <1>2, TypedInvariant, PTL DEF Spec

(***************************************************************************)
(* "A school must always keep at least one active proprietor"              *)
(* (assertNotLastProprietor), while requests come one at a time, whoever   *)
(* revokes, suspends, demotes or invites, and wherever a process stops.    *)
(***************************************************************************)
THEOREM SchoolsKeepAProprietor ==
  ASSUME MembershipsAssumption, ~MayOverlap
  PROVE  Spec => []KeepsAProprietor
BY CalmInvariant, PTL DEF Calm

(***************************************************************************)
(* "Only the newest link works" (createInvitation): one request at a time, *)
(* of a membership one link is live at most, even when a process stops     *)
(* between spending the old ones and issuing the new one.                  *)
(***************************************************************************)
THEOREM OneLinkIsLive ==
  ASSUME MembershipsAssumption, ~MayOverlap
  PROVE  Spec => []OneLiveLink
<1>1. Calm => OneLiveLink
  BY DEF Calm, OnlyNewestIsLive, OneLiveLink
<1> QED
  BY <1>1, CalmInvariant, PTL

(***************************************************************************)
(* Nobody is an operator of the platform and a member of a school (grant,  *)
(* assertNotPlatformEmail), while requests come one at a time.             *)
(***************************************************************************)
THEOREM OperatorsAreNoMembers ==
  ASSUME MembershipsAssumption, ~MayOverlap
  PROVE  Spec => []OperatorsStandApart
BY CalmInvariant, PTL DEF Calm

(***************************************************************************)
(* Who has accepted does not become an invitee again (createInvitation),   *)
(* in any step, while requests come one at a time.                         *)
(***************************************************************************)
THEOREM AcceptanceIsKept ==
  ASSUME MembershipsAssumption, ~MayOverlap
  PROVE  Spec => [][AcceptanceStands]_vars
<1>1. ASSUME Typed, Calm, [Next]_vars PROVE [AcceptanceStands]_vars
  <2>1. SUFFICES ASSUME NEW p \in Person, NEW s \in School, member[p][s].status = "ACTIVE",
                        member' # member
                 PROVE  member'[p][s].status # "INVITED"
    BY DEF AcceptanceStands
  <2>2. PICK r \in Request : Upsert(r) \/ Accept(r) \/ UpdateWrite(r) \/ RevokeWrite(r)
    <3>1. ASSUME NEW r \in Request, Ask(r) PROVE FALSE
      BY <2>1, <3>1 DEF Ask, Invite, AcceptRead, Update, RevokeAccess, Grant,
         RevokeOperator, Begin
    <3> QED
      BY <1>1, <2>1, <3>1 DEF Next, vars, Stop, Script, Proceed, CreateUser, Retire, Issue,
         AcceptConsume, GrantWrite, Dismiss
  <2>3. JobOK(req[r]) /\ Checked(req[r]) /\ TypeOK
    BY <1>1, <2>2, AtWork DEF Proceed, Typed
  <2>4. CASE Upsert(r)
    <3>1. PICK job, row : job = req[r] /\ row = [status |-> "INVITED", role |-> job.role]
      OBVIOUS
    <3>2. /\ job.at = "upsert" /\ job.who \in Person /\ job.school \in School
          /\ member[job.who][job.school].status # "ACTIVE"
      BY <2>3, <2>4, <3>1, JobIs DEF Upsert, Continue, Checked
    <3>3. member' = [member EXCEPT ![job.who][job.school] = row]
      BY <2>4, <3>1 DEF Upsert
    <3>4. member'[p][s] = member[p][s]
      BY <2>1, <2>3, <3>2, <3>3 DEF TypeOK
    <3> QED
      BY <2>1, <3>4
  <2>5. ASSUME NEW q \in Person, NEW t \in School, NEW row, row.status # "INVITED"
                 \/ row.status = member[q][t].status,
               member' = [member EXCEPT ![q][t] = row]
        PROVE  member'[p][s].status # "INVITED"
    BY <2>1, <2>3, <2>5 DEF TypeOK
  <2>6. CASE Accept(r)
    <3>1. PICK q, t, row : /\ q = req[r].link.who /\ t = req[r].link.school
                           /\ row = [member[q][t] EXCEPT !.status = "ACTIVE"]
      OBVIOUS
    <3>2. q \in Person /\ t \in School
      BY <2>3, <2>6, <3>1, JobIs DEF Accept, Finish, Link
    <3>3. member' = [member EXCEPT ![q][t] = row]
      BY <2>6, <3>1 DEF Accept
    <3>4. member[q][t] \in [status : Status, role : Position]
      BY <2>3, <3>2 DEF TypeOK
    <3>5. row.status = "ACTIVE"
      BY <3>1, <3>4
    <3> QED
      BY <2>5, <3>2, <3>3, <3>5
  <2>7. CASE UpdateWrite(r)
    <3>1. PICK job, q, t, row : /\ job = req[r] /\ q = job.who /\ t = job.school
            /\ row = [status |-> IF job.status = None THEN member[q][t].status ELSE job.status,
                      role |-> IF job.role = None THEN member[q][t].role ELSE job.role]
      OBVIOUS
    <3>2. job \in [at : {"update"}, who : Person, school : School, role : Position \cup {None},
                   status : {"ACTIVE", "SUSPENDED", None}]
      BY <2>3, <2>7, <3>1, JobIs DEF UpdateWrite, Finish
    <3>3. member' = [member EXCEPT ![q][t] = row]
      BY <2>7, <3>1 DEF UpdateWrite
    <3>4. /\ q \in Person /\ t \in School
          /\ row.status # "INVITED" \/ row.status = member[q][t].status
      BY <3>1, <3>2
    <3> QED
      BY <2>5, <3>3, <3>4
  <2>8. CASE RevokeWrite(r)
    <3>1. PICK job, q, t, row : /\ job = req[r] /\ q = job.who /\ t = job.school
                                /\ row = [member[q][t] EXCEPT !.status = "REVOKED"]
      OBVIOUS
    <3>2. q \in Person /\ t \in School
      BY <2>3, <2>8, <3>1, JobIs DEF RevokeWrite, Finish
    <3>3. member' = [member EXCEPT ![q][t] = row]
      BY <2>8, <3>1 DEF RevokeWrite
    <3>4. member[q][t] \in [status : Status, role : Position]
      BY <2>3, <3>2 DEF TypeOK
    <3>5. row.status = "REVOKED"
      BY <3>1, <3>4
    <3> QED
      BY <2>5, <3>2, <3>3, <3>5
  <2> QED
    BY <2>2, <2>4, <2>6, <2>7, <2>8
<1> QED
  BY <1>1, CalmInvariant, TypedInvariant, PTL DEF Spec

(***************************************************************************)
(* "An owner can remove another owner but never themselves, which is what  *)
(* makes lockout impossible" (revoke): somebody may always grant access,   *)
(* while requests come one at a time and the script demotes nobody.        *)
(***************************************************************************)
THEOREM AnOwnerAlwaysRemains ==
  ASSUME MembershipsAssumption, ~MayOverlap, ScriptRoles \subseteq {"OWNER"}
  PROVE  Spec => []AnOwnerRemains
<1>1. Init => AnOwnerRemains
  BY CalmFromStart
<1>2. ASSUME Typed, Calm, AnOwnerRemains, [Next]_vars PROVE AnOwnerRemains'
  <2>1. CASE operator' = operator
    BY <1>2, <2>1 DEF AnOwnerRemains, Owners
  <2>2. ASSUME NEW p \in Person, NEW role \in ScriptRoles, Script(p, role)
        PROVE  AnOwnerRemains'
    <3>1. p \in Owners'
      BY <1>2, <2>2 DEF Script, Owners, Typed, TypeOK
    <3> QED
      BY <3>1 DEF AnOwnerRemains
  <2>3. ASSUME NEW r \in Request, GrantWrite(r) \/ Dismiss(r) PROVE AnOwnerRemains'
    <3>1. JobOK(req[r]) /\ Checked(req[r]) /\ TypeOK
      BY <1>2, <2>3, AtWork DEF Proceed, Typed
    <3>2. PICK p : p = req[r].who
      OBVIOUS
    <3>3. /\ p \in Person
          /\ GrantWrite(r) => operator' = [operator EXCEPT ![p] =
                                             IF @ = "none" THEN req[r].role ELSE @]
          /\ Dismiss(r) => /\ operator' = [operator EXCEPT ![p] = "disabled"]
                           /\ Owners \ {p} # {}
      BY <2>3, <3>1, <3>2, JobIs DEF GrantWrite, Dismiss, Finish, Checked
    <3>4. PICK q \in Owners : GrantWrite(r) \/ q # p
      BY <1>2, <2>3, <3>3 DEF AnOwnerRemains
    <3>5. q \in Owners'
      BY <2>3, <3>1, <3>3, <3>4 DEF Owners, TypeOK
    <3> QED
      BY <3>5 DEF AnOwnerRemains
  <2>4. ASSUME NEW r \in Request, Ask(r) PROVE operator' = operator
    BY <2>4 DEF Ask, Invite, AcceptRead, Update, RevokeAccess, Grant, RevokeOperator, Begin
  <2> QED
    BY <1>2, <2>1, <2>2, <2>3, <2>4 DEF Next, vars, Stop, Proceed, CreateUser, Upsert, Retire,
       Issue, AcceptConsume, Accept, UpdateWrite, RevokeWrite
<1> QED
  BY <1>1, <1>2, CalmInvariant, TypedInvariant, PTL DEF Spec

-----------------------------------------------------------------------------
(* Sessions. *)

CONSTANTS Token, Family, Member, MaxVersion
VARIABLES token, version, open, job, over, ended

Sess == INSTANCE Sessions

Tokens == [family : Family, door : Sess!Door, revoked : BOOLEAN, version : Nat \ {0}]

\* Tokens are never deleted, and say what they said.
TokensStay ==
  /\ Sess!Issued \subseteq Sess!Issued' /\ version <= version'
  /\ \A t \in Sess!Issued : /\ token'[t].family = token[t].family
                            /\ token'[t].door = token[t].door
                            /\ token'[t].version = token[t].version

LEMMA SessJobStays ==
  ASSUME Sess!Typed, NEW j, Sess!JobOK(j), TokensStay, version' \in Nat
  PROVE  Sess!JobOK(j)'
<1>1. Sess!Families \subseteq Sess!Families'
  BY DEF TokensStay, Sess!Families
<1>2. CASE j \in [at : {"rotate"}, token : Token, version : Nat \ {0}, door : Sess!Door]
  <2>1. j.token \in Sess!Issued /\ j.door = token[j.token].door /\ j.version <= version
    BY <1>2 DEF Sess!JobOK, Sess!Idle
  <2>2. j.version <= version'
    BY <1>2, <2>1 DEF TokensStay, Sess!Typed
  <2> QED
    BY <1>2, <2>1, <2>2 DEF TokensStay, Sess!JobOK
<1>3. CASE j \in [at : {"login"}, door : Sess!Door, version : Nat \ {0}]
  <2>1. j.version <= version
    BY <1>3 DEF Sess!JobOK, Sess!Idle
  <2>2. j.version <= version'
    BY <1>3, <2>1 DEF TokensStay, Sess!Typed
  <2> QED
    BY <1>3, <2>2 DEF Sess!JobOK
<1>4. CASE j \in [at : {"retire"}, token : Token]
  BY <1>4 DEF Sess!JobOK, Sess!Idle, TokensStay
<1> QED
  BY <1>1, <1>2, <1>3, <1>4 DEF Sess!JobOK

\* What a request is, by where it is.
LEMMA SessJobIs ==
  ASSUME NEW j, Sess!JobOK(j)
  PROVE  /\ j.at = "none" <=> j = Sess!Idle
         /\ j.at = "login" => /\ j.door \in Sess!Door /\ j.version \in Nat \ {0}
                              /\ j.version <= version
         /\ j.at = "reuse" => j.family \in Sess!Families
         /\ j.at = "rotate" => /\ j.token \in Sess!Issued /\ j.door = token[j.token].door
                               /\ j.version \in Nat \ {0} /\ j.version <= version
         /\ j.at = "retire" => j.token \in Sess!Issued
         /\ j.at \in {"bump", "revoke"} => j.families \subseteq Sess!Families
BY DEF Sess!JobOK, Sess!Idle

LEMMA SessTypedMoves ==
  ASSUME Sess!Typed, token' \in [Token -> {None} \cup Tokens], TokensStay,
         version' \in Nat \ {0}, open' \subseteq Sess!Door,
         ended' \subseteq over', over' \subseteq Sess!Families',
         \A t \in Sess!Issued' : token'[t].version <= version',
         Sess!SessionsKeepTheirDoor',
         job' = job \/ \E q \in Request : \E j : job' = [job EXCEPT ![q] = j] /\ Sess!JobOK(j)'
  PROVE  Sess!Typed'
<1>1. job' = [q \in Request |-> job'[q]]
  BY DEF Sess!Typed
<1>2. ASSUME NEW p \in Request PROVE Sess!JobOK(job[p])'
  <2>1. PICK k : k = job'[p]
    OBVIOUS
  <2>2. Sess!JobOK(k) \/ Sess!JobOK(k)'
    BY <2>1 DEF Sess!Typed
  <2>3. Sess!JobOK(k)'
    BY <2>2, SessJobStays
  <2> QED
    BY <2>1, <2>3 DEF Sess!JobOK, Sess!Families, Sess!Issued
<1> QED
  BY <1>1, <1>2 DEF Sess!Typed, Tokens


\* Revoking changes nothing else about a token.
LEMMA SessRevokes ==
  ASSUME Sess!SessionsAssumption, Sess!Typed, NEW T \in SUBSET Sess!Issued, Sess!Revoke(T)
  PROVE  /\ token' \in [Token -> {None} \cup Tokens]
         /\ Sess!Issued' = Sess!Issued /\ Sess!Families' = Sess!Families
         /\ Sess!Live' = Sess!Live \ T
         /\ \A t \in Sess!Issued : /\ token'[t].family = token[t].family
                                   /\ token'[t].door = token[t].door
                                   /\ token'[t].version = token[t].version
<1>0. \A rec \in Tokens : rec # None
  BY DEF Sess!SessionsAssumption, Tokens, Sess!Door
<1>1. token' = [t \in Token |-> IF t \in T THEN [token[t] EXCEPT !.revoked = TRUE] ELSE token[t]]
  BY DEF Sess!Revoke
<1>2. T \subseteq Token /\ \A t \in T : token[t] \in Tokens
  BY DEF Sess!Issued, Sess!Typed, Tokens
<1>3. ASSUME NEW t \in T
      PROVE  /\ token'[t] \in Tokens /\ token'[t].revoked
             /\ token'[t].family = token[t].family /\ token'[t].door = token[t].door
             /\ token'[t].version = token[t].version
  BY <1>1, <1>2 DEF Tokens
<1>4. ASSUME NEW t \in Token \ T PROVE token'[t] = token[t]
  BY <1>1
<1>5. token' \in [Token -> {None} \cup Tokens]
  <2>1. \A t \in Token : token'[t] \in {None} \cup Tokens
    BY <1>3, <1>4 DEF Sess!Typed, Tokens
  <2> QED
    BY <1>1, <2>1
<1>6. Sess!Issued' = Sess!Issued
  BY <1>0, <1>2, <1>3, <1>4 DEF Sess!Issued
<1>7. \A t \in Sess!Issued : /\ token'[t].family = token[t].family
                             /\ token'[t].door = token[t].door
                             /\ token'[t].version = token[t].version
  BY <1>3, <1>4 DEF Sess!Issued
<1>8. Sess!Families' = Sess!Families
  BY <1>6, <1>7 DEF Sess!Families
<1>9. Sess!Live' = Sess!Live \ T
  BY <1>3, <1>4, <1>6 DEF Sess!Live, Sess!Issued
<1> QED
  BY <1>5, <1>6, <1>7, <1>8, <1>9

\* Issuing adds one token that lives, and changes no other.
LEMMA SessIssues ==
  ASSUME Sess!SessionsAssumption, Sess!Typed, NEW t \in Token, NEW f \in Family,
         NEW d \in Sess!Door, NEW v \in Nat \ {0}, Sess!Issue(t, f, d, v)
  PROVE  /\ token' \in [Token -> {None} \cup Tokens]
         /\ t \notin Sess!Issued /\ Sess!Issued' = Sess!Issued \cup {t}
         /\ Sess!Families' = Sess!Families \cup {f}
         /\ Sess!Live' = Sess!Live \cup {t}
         /\ token'[t].family = f /\ token'[t].door = d /\ token'[t].version = v
         /\ \A u \in Sess!Issued : token'[u] = token[u]
<1>1. PICK rec : rec = [family |-> f, door |-> d, revoked |-> FALSE, version |-> v]
  OBVIOUS
<1>2. rec \in Tokens /\ rec # None
  <2>1. rec \in Tokens
    BY <1>1 DEF Tokens
  <2>2. \A x \in Tokens : x # None
    BY DEF Sess!SessionsAssumption, Tokens, Sess!Door
  <2> QED
    BY <2>1, <2>2
<1>3. token[t] = None /\ token' = [token EXCEPT ![t] = rec]
  BY <1>1 DEF Sess!Issue
<1>4. token' \in [Token -> {None} \cup Tokens]
  BY <1>2, <1>3 DEF Sess!Typed, Tokens
<1>5. token'[t] = rec /\ \A u \in Token \ {t} : token'[u] = token[u]
  BY <1>3 DEF Sess!Typed
<1>6. t \notin Sess!Issued /\ Sess!Issued' = Sess!Issued \cup {t}
  BY <1>2, <1>3, <1>5 DEF Sess!Issued
<1>7. \A u \in Sess!Issued : token'[u] = token[u]
  BY <1>5, <1>6 DEF Sess!Issued
<1>8. Sess!Families' = Sess!Families \cup {f}
  BY <1>1, <1>5, <1>6, <1>7 DEF Sess!Families
<1>9. Sess!Live' = Sess!Live \cup {t}
  BY <1>1, <1>5, <1>6, <1>7 DEF Sess!Live
<1> QED
  BY <1>1, <1>4, <1>5, <1>6, <1>7, <1>8, <1>9

\* A step that touches no token.
LEMMA SessNoToken ==
  ASSUME Sess!Typed, UNCHANGED <<token, over, ended>>, version' \in Nat, version <= version',
         open' \subseteq Sess!Door,
         job' = job \/ \E q \in Request : \E j : job' = [job EXCEPT ![q] = j] /\ Sess!JobOK(j)'
  PROVE  Sess!Typed'
<1>1. token \in [Token -> {None} \cup Tokens] /\ version \in Nat \ {0}
  BY DEF Sess!Typed, Tokens
<1>2. version' \in Nat \ {0}
  BY <1>1
<1>3. TokensStay
  BY DEF TokensStay, Sess!Issued
<1>4. Sess!SessionsKeepTheirDoor' /\ over' \subseteq Sess!Families' /\ ended' \subseteq over'
  BY DEF Sess!Typed, Sess!SessionsKeepTheirDoor, Sess!Issued, Sess!Families
<1>5. \A t \in Sess!Issued' : token'[t].version <= version'
  <2>1. SUFFICES ASSUME NEW t \in Sess!Issued PROVE token[t].version <= version'
    BY DEF Sess!Issued
  <2>2. token[t].version \in Nat /\ token[t].version <= version
    BY <1>1 DEF Sess!Typed, Sess!Issued, Tokens
  <2> QED
    BY <1>1, <2>2
<1> QED
  BY <1>1, <1>2, <1>3, <1>4, <1>5, SessTypedMoves

\* A step that revokes.
LEMMA SessRevoking ==
  ASSUME Sess!SessionsAssumption, Sess!Typed, NEW T \in SUBSET Sess!Issued, Sess!Revoke(T),
         UNCHANGED <<version, open>>, ended' \subseteq over', over' \subseteq Sess!Families,
         job' = job \/ \E q \in Request : \E j : job' = [job EXCEPT ![q] = j] /\ Sess!JobOK(j)'
  PROVE  Sess!Typed'
<1>1. /\ token' \in [Token -> {None} \cup Tokens]
      /\ Sess!Issued' = Sess!Issued /\ Sess!Families' = Sess!Families
      /\ \A t \in Sess!Issued : /\ token'[t].family = token[t].family
                                /\ token'[t].door = token[t].door
                                /\ token'[t].version = token[t].version
  BY SessRevokes
<1>2. TokensStay
  BY <1>1 DEF TokensStay, Sess!Typed
<1>3. Sess!SessionsKeepTheirDoor'
  BY <1>1 DEF Sess!Typed, Sess!SessionsKeepTheirDoor
<1>4. version' \in Nat \ {0} /\ open' \subseteq Sess!Door
      /\ \A t \in Sess!Issued' : token'[t].version <= version'
  BY <1>1 DEF Sess!Typed
<1> QED
  BY <1>1, <1>2, <1>3, <1>4, SessTypedMoves

\* A step that issues, into a new family or behind the door of its own.
LEMMA SessIssuing ==
  ASSUME Sess!SessionsAssumption, Sess!Typed, NEW t \in Token, NEW f \in Family,
         NEW d \in Sess!Door, NEW v \in Nat \ {0}, v <= version, Sess!Issue(t, f, d, v),
         f \notin Sess!Families \/ \E u \in Sess!Issued : token[u].family = f /\ token[u].door = d,
         UNCHANGED <<version, open, over, ended>>,
         \E q \in Request : \E j : job' = [job EXCEPT ![q] = j] /\ Sess!JobOK(j)'
  PROVE  Sess!Typed'
<1>1. /\ token' \in [Token -> {None} \cup Tokens]
      /\ t \notin Sess!Issued /\ Sess!Issued' = Sess!Issued \cup {t}
      /\ Sess!Families' = Sess!Families \cup {f}
      /\ token'[t].family = f /\ token'[t].door = d /\ token'[t].version = v
      /\ \A u \in Sess!Issued : token'[u] = token[u]
  BY SessIssues
<1>2. TokensStay
  BY <1>1 DEF TokensStay, Sess!Typed
<1>3. \A u \in Sess!Issued : token[u].family = f => token[u].door = d
  BY DEF Sess!Typed, Sess!SessionsKeepTheirDoor, Sess!Families
<1>4. Sess!SessionsKeepTheirDoor'
  BY <1>1, <1>3 DEF Sess!Typed, Sess!SessionsKeepTheirDoor
<1>5. /\ version' \in Nat \ {0} /\ open' \subseteq Sess!Door
      /\ ended' \subseteq over' /\ over' \subseteq Sess!Families'
      /\ \A u \in Sess!Issued' : token'[u].version <= version'
  BY <1>1 DEF Sess!Typed
<1> QED
  BY <1>1, <1>2, <1>4, <1>5, SessTypedMoves

SessEnters(q) == \E d \in Sess!Door : Sess!Enter(q, d)

SessAsks(q) == \/ SessEnters(q) \/ Sess!NewPassword(q)
               \/ \E t \in Token : Sess!Rotate(q, t) \/ Sess!Logout(q, t) \/ Sess!LogoutAll(q, t)

LEMMA SessAskIs ==
  ASSUME NEW q \in Request, Sess!Ask(q)
  PROVE  SessAsks(q)
BY DEF Sess!Ask, Sess!Login, Sess!PlatformLogin, Sess!SwitchSchool, Sess!ResetPassword,
   Sess!ChangePassword, Sess!PlatformChangePassword, SessAsks, SessEnters, Sess!Door

LEMMA SessAskTyped ==
  ASSUME Sess!SessionsAssumption, Sess!Typed, NEW q \in Request, SessAsks(q)
  PROVE  Sess!Typed'
<1>1. version \in Nat \ {0} /\ open \subseteq Sess!Door /\ ended \subseteq over
      /\ over \subseteq Sess!Families
  BY DEF Sess!Typed
<1>2. \A t \in Sess!Issued : t \in Token /\ token[t] \in Tokens /\ token[t].family \in Sess!Families
  BY DEF Sess!Typed, Sess!Issued, Sess!Families, Tokens
<1>3. Sess!Families \subseteq Family
  BY <1>2 DEF Sess!Families, Tokens
<1>4. CASE SessEnters(q)
  <2>1. PICK d, j : /\ d \in Sess!Door /\ j = [at |-> "login", door |-> d, version |-> version]
          /\ job' = [job EXCEPT ![q] = j] /\ UNCHANGED <<token, version, open, over, ended>>
    BY <1>4 DEF SessEnters, Sess!Enter, Sess!Set, Sess!said
  <2>2. Sess!JobOK(j)'
    BY <1>1, <2>1 DEF Sess!JobOK
  <2>3. version' \in Nat /\ version <= version' /\ open' \subseteq Sess!Door
    BY <1>1, <2>1
  <2> QED
    BY <2>1, <2>2, <2>3, SessNoToken
<1>5. ASSUME NEW t \in Token, Sess!Rotate(q, t) PROVE Sess!Typed'
  <2>1. /\ t \in Sess!Issued /\ UNCHANGED <<token, version, open, over, ended>>
        /\ \/ job' = [job EXCEPT ![q] = [at |-> "reuse", family |-> token[t].family]]
           \/ job' = [job EXCEPT ![q] = [at |-> "rotate", token |-> t, version |-> version,
                                         door |-> token[t].door]]
    BY <1>5 DEF Sess!Rotate, Sess!Set, Sess!said
  <2>2. PICK j : /\ job' = [job EXCEPT ![q] = j]
                 /\ \/ j = [at |-> "reuse", family |-> token[t].family]
                    \/ j = [at |-> "rotate", token |-> t, version |-> version,
                            door |-> token[t].door]
    BY <2>1
  <2>3. Sess!JobOK(j)
    BY <1>1, <1>2, <1>3, <2>1, <2>2 DEF Sess!JobOK, Tokens
  <2>4. Sess!JobOK(j)'
    BY <2>1, <2>3 DEF Sess!JobOK, Sess!Families, Sess!Issued
  <2>5. version' \in Nat /\ version <= version' /\ open' \subseteq Sess!Door
    BY <1>1, <2>1
  <2> QED
    BY <2>1, <2>2, <2>4, <2>5, SessNoToken
<1>6. ASSUME NEW t \in Token, Sess!Logout(q, t) PROVE Sess!Typed'
  <2>1. /\ {t} \subseteq Sess!Issued /\ Sess!Revoke({t}) /\ over' = over \cup {token[t].family}
        /\ UNCHANGED <<version, open, job, ended>>
    BY <1>6 DEF Sess!Logout, Sess!Live
  <2>2. ended' \subseteq over' /\ over' \subseteq Sess!Families
    BY <1>1, <1>2, <2>1
  <2> QED
    BY <2>1, <2>2, SessRevoking
<1>7. ASSUME NEW t \in Token, Sess!LogoutAll(q, t) PROVE Sess!Typed'
  <2>1. PICK j : /\ j = [at |-> "bump", families |-> Sess!Families]
                 /\ job' = [job EXCEPT ![q] = j] /\ Sess!Revoke(Sess!Issued)
                 /\ UNCHANGED <<version, open, over, ended>>
    BY <1>7 DEF Sess!LogoutAll, Sess!Set, Sess!said
  <2>2. Sess!Families' = Sess!Families
    BY <2>1, SessRevokes
  <2>3. Sess!JobOK(j)'
    BY <1>3, <2>1, <2>2 DEF Sess!JobOK
  <2> QED
    BY <1>1, <2>1, <2>3, SessRevoking
<1>8. CASE Sess!NewPassword(q)
  <2>1. PICK j : /\ j = [at |-> "revoke", families |-> Sess!Families]
                 /\ job' = [job EXCEPT ![q] = j] /\ version' = version + 1
                 /\ UNCHANGED <<token, open, over, ended>>
    BY <1>8 DEF Sess!NewPassword, Sess!Set, Sess!said
  <2>2. Sess!Families' = Sess!Families
    BY <2>1 DEF Sess!Families, Sess!Issued
  <2>3. Sess!JobOK(j)'
    BY <1>3, <2>1, <2>2 DEF Sess!JobOK
  <2>4. version' \in Nat /\ version <= version' /\ open' \subseteq Sess!Door
    BY <1>1, <2>1
  <2> QED
    BY <2>1, <2>3, <2>4, SessNoToken
<1> QED
  BY <1>4, <1>5, <1>6, <1>7, <1>8 DEF SessAsks

LEMMA SessProceedTyped ==
  ASSUME Sess!SessionsAssumption, Sess!Typed, NEW q \in Request, Sess!Proceed(q)
  PROVE  Sess!Typed'
<1>1. /\ version \in Nat \ {0} /\ open \subseteq Sess!Door /\ ended \subseteq over
      /\ over \subseteq Sess!Families
  BY DEF Sess!Typed
<1>2. PICK j : j = job[q] /\ Sess!JobOK(j)
  BY DEF Sess!Typed
<1>3. Sess!JobOK(Sess!Idle)'
  BY DEF Sess!JobOK
<1>4. ASSUME NEW t \in Token, Sess!RotateIssue(q, t) PROVE Sess!Typed'
  <2>1. PICK k, f : /\ k = [at |-> "retire", token |-> j.token] /\ f = token[j.token].family
                    /\ Sess!Issue(t, f, j.door, j.version) /\ job' = [job EXCEPT ![q] = k]
                    /\ j.at = "rotate" /\ UNCHANGED <<version, open, over, ended>>
    BY <1>2, <1>4 DEF Sess!RotateIssue, Sess!Set, Sess!said
  <2>2. /\ j.token \in Sess!Issued /\ j.door = token[j.token].door
        /\ j.version \in Nat \ {0} /\ j.version <= version
    BY <1>2, <2>1, SessJobIs
  <2>3. f \in Family /\ j.door \in Sess!Door /\ j.token \in Token
    BY <2>1, <2>2 DEF Sess!Typed, Sess!Issued
  <2>4. Sess!Issued' = Sess!Issued \cup {t}
    BY <2>1, <2>2, <2>3, SessIssues
  <2>5. Sess!JobOK(k)'
    BY <2>1, <2>2, <2>3, <2>4 DEF Sess!JobOK
  <2> QED
    BY <2>1, <2>2, <2>3, <2>5, SessIssuing
<1>5. ASSUME NEW t \in Token, NEW f \in Family, Sess!LoginIssue(q, t, f) PROVE Sess!Typed'
  <2>1. /\ f \notin Sess!Families /\ Sess!Issue(t, f, j.door, j.version) /\ j.at = "login"
        /\ job' = [job EXCEPT ![q] = Sess!Idle] /\ UNCHANGED <<version, open, over, ended>>
    BY <1>2, <1>5 DEF Sess!LoginIssue, Sess!Set, Sess!said
  <2>2. j.door \in Sess!Door /\ j.version \in Nat \ {0} /\ j.version <= version
    BY <1>2, <2>1, SessJobIs
  <2> QED
    BY <1>3, <2>1, <2>2, SessIssuing
<1>6. ASSUME Sess!ReuseEnds(q) PROVE Sess!Typed'
  <2>1. /\ j.at = "reuse" /\ Sess!Revoke(Sess!Of(j.family)) /\ over' = over \cup {j.family}
        /\ job' = [job EXCEPT ![q] = Sess!Idle] /\ UNCHANGED <<version, open, ended>>
    BY <1>2, <1>6 DEF Sess!ReuseEnds, Sess!Set
  <2>2. j.family \in Sess!Families
    BY <1>2, <2>1, SessJobIs
  <2>3. /\ Sess!Of(j.family) \subseteq Sess!Issued
        /\ ended' \subseteq over' /\ over' \subseteq Sess!Families
    BY <1>1, <2>1, <2>2 DEF Sess!Of
  <2> QED
    BY <1>3, <2>1, <2>3, SessRevoking
<1>7. ASSUME Sess!Retire(q) PROVE Sess!Typed'
  <2>1. /\ j.at = "retire" /\ Sess!Revoke({j.token})
        /\ job' = [job EXCEPT ![q] = Sess!Idle] /\ UNCHANGED <<version, open, over, ended>>
    BY <1>2, <1>7 DEF Sess!Retire, Sess!Set, Sess!said
  <2>2. {j.token} \subseteq Sess!Issued
    BY <1>2, <2>1, SessJobIs
  <2> QED
    BY <1>1, <1>3, <2>1, <2>2, SessRevoking
<1>8. ASSUME Sess!Bump(q) \/ Sess!RevokeAll(q) PROVE Sess!Typed'
  <2>1. /\ j.at \in {"bump", "revoke"} /\ job' = [job EXCEPT ![q] = Sess!Idle]
        /\ over' = over \cup j.families /\ ended' = ended \cup j.families /\ UNCHANGED open
    BY <1>2, <1>8 DEF Sess!Bump, Sess!RevokeAll, Sess!Set
  <2>2. j.families \subseteq Sess!Families
    BY <1>2, <2>1, SessJobIs
  <2>3. ended' \subseteq over' /\ over' \subseteq Sess!Families
    BY <1>1, <2>1, <2>2
  <2>4. CASE Sess!RevokeAll(q)
    BY <1>3, <2>1, <2>3, <2>4, SessRevoking DEF Sess!RevokeAll
  <2>5. CASE Sess!Bump(q)
    <3>1. version' = version + 1 /\ UNCHANGED token
      BY <2>5 DEF Sess!Bump
    <3>2. TokensStay /\ version' \in Nat \ {0} /\ open' \subseteq Sess!Door
      BY <1>1, <2>1, <3>1 DEF TokensStay, Sess!Issued
    <3>3. Sess!SessionsKeepTheirDoor' /\ Sess!Families' = Sess!Families
      BY <3>1 DEF Sess!Typed, Sess!SessionsKeepTheirDoor, Sess!Issued, Sess!Families
    <3>4. token' \in [Token -> {None} \cup Tokens]
      BY <3>1 DEF Sess!Typed, Tokens
    <3>5. ASSUME NEW t \in Sess!Issued' PROVE token'[t].version <= version'
      <4>1. t \in Sess!Issued /\ token[t].version \in Nat /\ token[t].version <= version
        BY <3>1, <3>5 DEF Sess!Typed, Sess!Issued
      <4> QED
        BY <1>1, <3>1, <4>1
    <3> QED
      BY <1>3, <2>1, <2>3, <3>2, <3>3, <3>4, <3>5, SessTypedMoves
  <2> QED
    BY <1>8, <2>4, <2>5
<1> QED
  BY <1>4, <1>5, <1>6, <1>7, <1>8 DEF Sess!Proceed

LEMMA SessNextTyped ==
  ASSUME Sess!SessionsAssumption, Sess!Typed, [Sess!Next]_(Sess!vars)
  PROVE  Sess!Typed'
<1>1. version \in Nat \ {0} /\ open \subseteq Sess!Door /\ Sess!JobOK(Sess!Idle)'
  BY DEF Sess!Typed, Sess!JobOK
<1>2. ASSUME NEW q \in Request, Sess!Stop(q) PROVE Sess!Typed'
  <2>1. /\ job' = [job EXCEPT ![q] = Sess!Idle]
        /\ UNCHANGED <<token, version, open, over, ended>>
    BY <1>2 DEF Sess!Stop, Sess!Set, Sess!said
  <2>2. version' \in Nat /\ version <= version' /\ open' \subseteq Sess!Door
    BY <1>1, <2>1
  <2> QED
    BY <1>1, <2>1, <2>2, SessNoToken
<1>3. ASSUME NEW d, Sess!Suspend(d) \/ (d \in Member /\ Sess!Reactivate(d)) PROVE Sess!Typed'
  BY <1>1, <1>3, SessNoToken DEF Sess!Suspend, Sess!Reactivate, Sess!said, Sess!Door
<1>4. CASE UNCHANGED Sess!vars
  BY <1>1, <1>4, SessNoToken DEF Sess!vars, Sess!said
<1> QED
  BY <1>2, <1>3, <1>4, SessAskIs, SessAskTyped, SessProceedTyped DEF Sess!Next

LEMMA SessInitTyped ==
  ASSUME Sess!SessionsAssumption, Sess!Init
  PROVE  Sess!Typed /\ Sess!Issued = {} /\ version = 1 /\ over = {} /\ ended = {}
         /\ \A q \in Request : job[q] = Sess!Idle
<1>1. /\ token = [t \in Token |-> None] /\ version = 1 /\ open \subseteq Sess!Door
      /\ job = [q \in Request |-> Sess!Idle] /\ over = {} /\ ended = {}
  BY DEF Sess!Init, Sess!Door
<1>2. Sess!Issued = {}
  BY <1>1 DEF Sess!Issued
<1> QED
  BY <1>1, <1>2 DEF Sess!Typed, Sess!JobOK, Sess!Idle, Sess!SessionsKeepTheirDoor

LEMMA SessTyped ==
  ASSUME Sess!SessionsAssumption
  PROVE  Sess!Spec => []Sess!Typed
<1>1. Sess!Init => Sess!Typed
  BY SessInitTyped
<1>2. Sess!Typed /\ [Sess!Next]_(Sess!vars) => Sess!Typed'
  BY SessNextTyped
<1> QED
  BY <1>1, <1>2, PTL DEF Sess!Spec

(***************************************************************************)
(* "A rotation with no membership cannot produce a school token": a        *)
(* session stays behind the door it was begun at (rotateRefreshToken,      *)
(* issuePlatformTokens), whatever overlaps and wherever a process stops.   *)
(***************************************************************************)
THEOREM SessionsStayBehindTheirDoor ==
  ASSUME Sess!SessionsAssumption
  PROVE  Sess!Spec => []Sess!SessionsKeepTheirDoor
BY SessTyped, PTL DEF Sess!Typed

-----------------------------------------------------------------------------
(* Sessions, one request at a time. *)

\* Of the live tokens of a session there is one, or k is retiring the other.
OneLives(k) ==
  \A t, u \in Sess!Live : token[t].family = token[u].family =>
    t = u \/ (k.at = "retire" /\ k.token \in {t, u})

EndedAreOver ==
  /\ version <= MaxVersion
  /\ \A t \in Sess!Live : token[t].family \notin over
  /\ \A t \in Sess!Issued : token[t].family \in ended => token[t].version < version

LEMMA SessAloneMoves ==
  ASSUME Sess!Typed, NEW q \in Request, NEW j, job' = [job EXCEPT ![q] = j],
         \A p \in Request \ {q} : job[p] = Sess!Idle, Sess!Checked(j)', OneLives(j)', EndedAreOver'
  PROVE  Sess!AloneInv'
<1>1. job'[q] = j /\ \A p \in Request \ {q} : job'[p] = Sess!Idle
  BY DEF Sess!Typed
<1>2. ASSUME NEW p \in Request PROVE Sess!Checked(job[p])'
  <2>1. CASE p = q
    BY <1>1, <2>1 DEF Sess!Checked, Sess!Live, Sess!Issued
  <2>2. CASE p # q
    BY <1>1, <2>2 DEF Sess!Checked, Sess!Idle
  <2> QED
    BY <2>1, <2>2
<1>3. \A t, u \in Sess!Live' : token'[t].family = token'[u].family =>
        t = u \/ Sess!Retiring(t)' \/ Sess!Retiring(u)'
  BY <1>1 DEF OneLives, Sess!Retiring, Sess!Idle
<1> QED
  BY <1>1, <1>2, <1>3 DEF Sess!AloneInv, EndedAreOver

\* Whoever moves is alone.
LEMMA SessAtWork ==
  ASSUME Sess!Typed, Sess!AloneInv, ~MayOverlap, NEW q \in Request,
         Sess!Begin(q) \/ job[q].at # "none"
  PROVE  /\ \A p \in Request \ {q} : job[p] = Sess!Idle
         /\ OneLives(job[q]) /\ EndedAreOver /\ Sess!Checked(job[q]) /\ Sess!JobOK(job[q])
         /\ Sess!Begin(q) => OneLives(Sess!Idle)
<1>1. \A p \in Request \ {q} : job[p] = Sess!Idle
  BY DEF Sess!AloneInv, Sess!Begin, Sess!Idle
<1>2. OneLives(job[q])
  BY <1>1 DEF Sess!AloneInv, OneLives, Sess!Retiring, Sess!Idle
<1> QED
  BY <1>1, <1>2 DEF Sess!AloneInv, EndedAreOver, Sess!Typed, Sess!Begin

\* What Typed says of numbers and tokens.
LEMMA SessFacts ==
  ASSUME Sess!Typed
  PROVE  /\ version \in Nat \ {0} /\ ended \subseteq over /\ over \subseteq Sess!Families
         /\ Sess!Live \subseteq Sess!Issued
         /\ \A t \in Sess!Issued : /\ t \in Token /\ token[t].version \in Nat
                                   /\ token[t].version <= version
                                   /\ token[t].family \in Sess!Families
BY DEF Sess!Typed, Sess!Live, Sess!Issued, Sess!Families

\* Revoking when all that must be over is revoked.
LEMMA SessAloneRevokes ==
  ASSUME Sess!SessionsAssumption, Sess!Typed, NEW T \in SUBSET Sess!Issued, Sess!Revoke(T),
         NEW k, OneLives(k), EndedAreOver, UNCHANGED version,
         NEW F, over' = over \cup F, \A t \in Sess!Live \ T : token[t].family \notin F,
         ended' = ended \/ (ended' = ended \cup F /\
                              \A t \in Sess!Issued : token[t].family \in F => token[t].version < version),
         NEW j, j = k \/ \A t \in Sess!Live \ T : ~(k.at = "retire" /\ k.token = t)
  PROVE  OneLives(j)' /\ EndedAreOver'
<1>1. /\ Sess!Issued' = Sess!Issued /\ Sess!Live' = Sess!Live \ T
      /\ \A t \in Sess!Issued : /\ token'[t].family = token[t].family
                                /\ token'[t].door = token[t].door
                                /\ token'[t].version = token[t].version
  BY SessRevokes
<1>2. Sess!Live \subseteq Sess!Issued
  BY DEF Sess!Live
<1>3. OneLives(j)'
  <2>1. SUFFICES ASSUME NEW t \in Sess!Live \ T, NEW u \in Sess!Live \ T,
                        token[t].family = token[u].family, t # u
                 PROVE  j.at = "retire" /\ j.token \in {t, u}
    BY <1>1, <1>2 DEF OneLives
  <2> QED
    BY <2>1 DEF OneLives
<1>4. EndedAreOver'
  BY <1>1, <1>2 DEF EndedAreOver
<1> QED
  BY <1>3, <1>4

\* Issuing into a family that is not over, with no other token that lives but
\* the one to retire.
LEMMA SessAloneIssues ==
  ASSUME Sess!SessionsAssumption, Sess!Typed, NEW t \in Token, NEW f \in Family,
         NEW d \in Sess!Door, NEW v \in Nat \ {0}, Sess!Issue(t, f, d, v),
         UNCHANGED <<version, over, ended>>, EndedAreOver, f \notin over, f \notin ended,
         NEW j, OneLives(Sess!Idle),
         \A u \in Sess!Live : token[u].family = f => j.at = "retire" /\ j.token = u
  PROVE  OneLives(j)' /\ EndedAreOver'
<1>1. /\ t \notin Sess!Issued /\ Sess!Issued' = Sess!Issued \cup {t}
      /\ Sess!Live' = Sess!Live \cup {t}
      /\ token'[t].family = f /\ token'[t].door = d /\ token'[t].version = v
      /\ \A u \in Sess!Issued : token'[u] = token[u]
  BY SessIssues
<1>2. Sess!Live \subseteq Sess!Issued
  BY DEF Sess!Live
<1>3. \A u, w \in Sess!Live : token[u].family = token[w].family => u = w
  BY DEF OneLives, Sess!Idle
<1>4. OneLives(j)'
  BY <1>1, <1>2, <1>3 DEF OneLives
<1>5. EndedAreOver'
  BY <1>1, <1>2 DEF EndedAreOver
<1> QED
  BY <1>4, <1>5

LEMMA SessAloneAsks ==
  ASSUME Sess!SessionsAssumption, Sess!Typed, Sess!AloneInv, ~MayOverlap,
         NEW q \in Request, SessAsks(q)
  PROVE  Sess!AloneInv'
<1>1. Sess!Begin(q)
  BY DEF SessAsks, SessEnters, Sess!Enter, Sess!NewPassword, Sess!Rotate, Sess!Logout,
     Sess!LogoutAll
<1>2. /\ \A p \in Request \ {q} : job[p] = Sess!Idle
      /\ EndedAreOver /\ OneLives(Sess!Idle)
  BY <1>1, SessAtWork
<1>3. /\ version \in Nat \ {0} /\ Sess!Live \subseteq Sess!Issued
      /\ \A t \in Sess!Issued : /\ token[t].version \in Nat /\ token[t].version <= version
                                /\ token[t].family \in Sess!Families
  BY SessFacts
<1>4. MaxVersion \in Nat
  BY DEF Sess!SessionsAssumption
<1>5. ASSUME NEW j, job' = [job EXCEPT ![q] = j], UNCHANGED <<token, version, over, ended>>,
             j.at \in {"login", "reuse"} \/ (j.at = "rotate" /\ j.token \in Sess!Live)
      PROVE  Sess!AloneInv'
  <2>1. Sess!Checked(j)'
    BY <1>5 DEF Sess!Checked, Sess!Live, Sess!Issued
  <2>2. OneLives(j)' /\ EndedAreOver'
    BY <1>2, <1>5 DEF OneLives, EndedAreOver, Sess!Idle, Sess!Live, Sess!Issued
  <2> QED
    BY <1>2, <1>5, <2>1, <2>2, SessAloneMoves
<1>6. CASE SessEnters(q)
  <2>1. PICK d, j : /\ j = [at |-> "login", door |-> d, version |-> version]
                    /\ job' = [job EXCEPT ![q] = j] /\ UNCHANGED <<token, version, over, ended>>
    BY <1>6 DEF SessEnters, Sess!Enter, Sess!Set, Sess!said
  <2> QED
    BY <1>5, <2>1
<1>7. ASSUME NEW t \in Token, Sess!Rotate(q, t) PROVE Sess!AloneInv'
  <2>1. PICK j : /\ job' = [job EXCEPT ![q] = j] /\ UNCHANGED <<token, version, over, ended>>
                 /\ \/ j = [at |-> "reuse", family |-> token[t].family]
                    \/ /\ j = [at |-> "rotate", token |-> t, version |-> version,
                               door |-> token[t].door]
                       /\ t \in Sess!Live
    BY <1>7 DEF Sess!Rotate, Sess!Set, Sess!said, Sess!Live
  <2> QED
    BY <1>5, <2>1
<1>8. ASSUME NEW t \in Token, Sess!Logout(q, t) PROVE Sess!AloneInv'
  <2>1. /\ t \in Sess!Live /\ Sess!Revoke({t}) /\ over' = over \cup {token[t].family}
        /\ UNCHANGED <<version, job, ended>>
    BY <1>8 DEF Sess!Logout
  <2>2. \A u \in Sess!Live \ {t} : token[u].family \notin {token[t].family}
    BY <1>2, <2>1 DEF OneLives, Sess!Idle
  <2>3. {t} \in SUBSET Sess!Issued
    BY <1>3, <2>1
  <2>4. OneLives(Sess!Idle)' /\ EndedAreOver'
    BY <1>2, <2>1, <2>2, <2>3, SessAloneRevokes
  <2>5. job' = [job EXCEPT ![q] = Sess!Idle] /\ Sess!Checked(Sess!Idle)'
    BY <1>1, <2>1 DEF Sess!Begin, Sess!Typed, Sess!Checked, Sess!Idle
  <2> QED
    BY <1>2, <2>4, <2>5, SessAloneMoves DEF Sess!Idle
<1>9. ASSUME NEW t \in Token, Sess!LogoutAll(q, t) PROVE Sess!AloneInv'
  <2>1. PICK j : /\ j = [at |-> "bump", families |-> Sess!Families]
                 /\ job' = [job EXCEPT ![q] = j] /\ Sess!Revoke(Sess!Issued)
                 /\ UNCHANGED <<version, over, ended>> /\ version < MaxVersion
    BY <1>9 DEF Sess!LogoutAll, Sess!Set, Sess!said
  <2>2. Sess!Live' = {}
    BY <1>3, <2>1, SessRevokes
  <2>3. Sess!Checked(j)'
    BY <2>1, <2>2 DEF Sess!Checked
  <2>4. OneLives(j)'
    BY <2>2 DEF OneLives
  <2>5. /\ Sess!Issued' = Sess!Issued
        /\ \A u \in Sess!Issued : /\ token'[u].family = token[u].family
                                  /\ token'[u].version = token[u].version
    BY <2>1, SessRevokes
  <2>6. EndedAreOver'
    BY <1>2, <2>1, <2>2, <2>5 DEF EndedAreOver
  <2> QED
    BY <1>2, <2>1, <2>3, <2>4, <2>6, SessAloneMoves
<1>10. CASE Sess!NewPassword(q)
  <2>1. PICK j : /\ j = [at |-> "revoke", families |-> Sess!Families]
                 /\ job' = [job EXCEPT ![q] = j] /\ version' = version + 1
                 /\ UNCHANGED <<token, over, ended>> /\ version < MaxVersion
    BY <1>10 DEF Sess!NewPassword, Sess!Set, Sess!said
  <2>2. Sess!Issued' = Sess!Issued /\ Sess!Live' = Sess!Live
    BY <2>1 DEF Sess!Issued, Sess!Live
  <2>3. version' <= MaxVersion /\ \A t \in Sess!Issued : token[t].version < version'
    BY <1>3, <1>4, <2>1
  <2>4. Sess!Checked(j)'
    BY <2>1, <2>2, <2>3 DEF Sess!Checked
  <2>5. OneLives(j)' /\ EndedAreOver'
    BY <1>2, <2>1, <2>2, <2>3 DEF OneLives, EndedAreOver, Sess!Idle
  <2> QED
    BY <1>2, <2>1, <2>4, <2>5, SessAloneMoves
<1> QED
  BY <1>6, <1>7, <1>8, <1>9, <1>10 DEF SessAsks

LEMMA SessAloneProceeds ==
  ASSUME Sess!SessionsAssumption, Sess!Typed, Sess!AloneInv, ~MayOverlap,
         NEW q \in Request, Sess!Proceed(q)
  PROVE  Sess!AloneInv'
<1>1. job[q].at # "none"
  BY DEF Sess!Proceed, Sess!RotateIssue, Sess!LoginIssue, Sess!ReuseEnds, Sess!Retire,
     Sess!Bump, Sess!RevokeAll
<1>2. PICK j : j = job[q]
  OBVIOUS
<1>3. /\ \A p \in Request \ {q} : job[p] = Sess!Idle
      /\ EndedAreOver /\ OneLives(j) /\ Sess!Checked(j) /\ Sess!JobOK(j)
  BY <1>1, <1>2, SessAtWork
<1>4. /\ version \in Nat \ {0} /\ ended \subseteq over /\ over \subseteq Sess!Families
      /\ Sess!Live \subseteq Sess!Issued
      /\ \A t \in Sess!Issued : /\ t \in Token /\ token[t].version \in Nat
                                /\ token[t].version <= version
                                /\ token[t].family \in Sess!Families
  BY SessFacts
<1>5. Sess!Checked(Sess!Idle)'
  BY DEF Sess!Checked, Sess!Idle
<1>6. ASSUME NEW t \in Token, Sess!RotateIssue(q, t) PROVE Sess!AloneInv'
  <2>1. PICK k, f : /\ k = [at |-> "retire", token |-> j.token] /\ f = token[j.token].family
                    /\ Sess!Issue(t, f, j.door, j.version) /\ job' = [job EXCEPT ![q] = k]
                    /\ j.at = "rotate" /\ UNCHANGED <<version, over, ended>>
    BY <1>2, <1>6 DEF Sess!RotateIssue, Sess!Set, Sess!said
  <2>2. /\ j.token \in Sess!Live /\ j.door = token[j.token].door /\ j.version \in Nat \ {0}
    BY <1>3, <2>1, SessJobIs DEF Sess!Checked
  <2>3. f \in Family /\ j.door \in Sess!Door
    BY <1>4, <2>1, <2>2 DEF Sess!Typed, Sess!Issued
  <2>4. f \notin over /\ f \notin ended
    BY <1>3, <1>4, <2>1, <2>2 DEF EndedAreOver
  <2>5. OneLives(Sess!Idle)
    BY <1>3, <2>1 DEF OneLives, Sess!Idle
  <2>6. \A u \in Sess!Live : token[u].family = f => k.at = "retire" /\ k.token = u
    BY <2>1, <2>2, <2>5 DEF OneLives, Sess!Idle
  <2>7. OneLives(k)' /\ EndedAreOver'
    BY <1>3, <2>1, <2>2, <2>3, <2>4, <2>5, <2>6, SessAloneIssues
  <2>8. Sess!Checked(k)'
    BY <2>1 DEF Sess!Checked
  <2> QED
    BY <1>3, <2>1, <2>7, <2>8, SessAloneMoves
<1>7. ASSUME NEW t \in Token, NEW f \in Family, Sess!LoginIssue(q, t, f) PROVE Sess!AloneInv'
  <2>1. /\ f \notin Sess!Families /\ Sess!Issue(t, f, j.door, j.version) /\ j.at = "login"
        /\ job' = [job EXCEPT ![q] = Sess!Idle] /\ UNCHANGED <<version, over, ended>>
    BY <1>2, <1>7 DEF Sess!LoginIssue, Sess!Set, Sess!said
  <2>2. j.door \in Sess!Door /\ j.version \in Nat \ {0}
    BY <1>3, <2>1, SessJobIs
  <2>3. f \notin over /\ f \notin ended /\ \A u \in Sess!Live : token[u].family # f
    BY <1>4, <2>1
  <2>4. OneLives(Sess!Idle)
    BY <1>3, <2>1 DEF OneLives, Sess!Idle
  <2>5. OneLives(Sess!Idle)' /\ EndedAreOver'
    BY <1>3, <2>1, <2>2, <2>3, <2>4, SessAloneIssues
  <2> QED
    BY <1>3, <1>5, <2>1, <2>5, SessAloneMoves DEF Sess!Idle
<1>8. ASSUME Sess!ReuseEnds(q) PROVE Sess!AloneInv'
  <2>1. /\ j.at = "reuse" /\ Sess!Revoke(Sess!Of(j.family)) /\ over' = over \cup {j.family}
        /\ job' = [job EXCEPT ![q] = Sess!Idle] /\ UNCHANGED <<version, ended>>
    BY <1>2, <1>8 DEF Sess!ReuseEnds, Sess!Set
  <2>2. /\ Sess!Of(j.family) \in SUBSET Sess!Issued
        /\ \A t \in Sess!Live \ Sess!Of(j.family) : token[t].family \notin {j.family}
    BY <1>4 DEF Sess!Of
  <2>3. OneLives(Sess!Idle)
    BY <1>3, <2>1 DEF OneLives, Sess!Idle
  <2>4. OneLives(Sess!Idle)' /\ EndedAreOver'
    BY <1>3, <2>1, <2>2, <2>3, SessAloneRevokes
  <2> QED
    BY <1>3, <1>5, <2>1, <2>4, SessAloneMoves DEF Sess!Idle
<1>9. ASSUME Sess!Retire(q) PROVE Sess!AloneInv'
  <2>1. /\ j.at = "retire" /\ Sess!Revoke({j.token})
        /\ job' = [job EXCEPT ![q] = Sess!Idle] /\ UNCHANGED <<version, over, ended>>
    BY <1>2, <1>9 DEF Sess!Retire, Sess!Set, Sess!said
  <2>2. PICK T, F : T = {j.token} /\ F = {}
    OBVIOUS
  <2>3. T \in SUBSET Sess!Issued /\ Sess!Revoke(T)
    BY <1>3, <2>1, <2>2, SessJobIs
  <2>4. /\ over' = over \cup F /\ \A t \in Sess!Live \ T : token[t].family \notin F
        /\ ended' = ended /\ UNCHANGED version
        /\ \A t \in Sess!Live \ T : ~(j.at = "retire" /\ j.token = t)
    BY <2>1, <2>2
  <2>5. OneLives(Sess!Idle)' /\ EndedAreOver'
    BY <1>3, <2>3, <2>4, SessAloneRevokes
  <2> QED
    BY <1>3, <1>5, <2>1, <2>5, SessAloneMoves DEF Sess!Idle
<1>10. ASSUME Sess!RevokeAll(q) PROVE Sess!AloneInv'
  <2>1. /\ j.at = "revoke" /\ Sess!Revoke(Sess!Issued)
        /\ over' = over \cup j.families /\ ended' = ended \cup j.families
        /\ job' = [job EXCEPT ![q] = Sess!Idle] /\ UNCHANGED version
    BY <1>2, <1>10 DEF Sess!RevokeAll, Sess!Set
  <2>2. \A t \in Sess!Issued : token[t].version < version
    BY <1>3, <2>1 DEF Sess!Checked
  <2>3. Sess!Live \ Sess!Issued = {}
    BY <1>4
  <2>4. OneLives(Sess!Idle)
    BY <1>3, <2>1 DEF OneLives, Sess!Idle
  <2>5. OneLives(Sess!Idle)' /\ EndedAreOver'
    BY <1>3, <2>1, <2>2, <2>3, <2>4, SessAloneRevokes
  <2> QED
    BY <1>3, <1>5, <2>1, <2>5, SessAloneMoves DEF Sess!Idle
<1>11. ASSUME Sess!Bump(q) PROVE Sess!AloneInv'
  <2>1. /\ j.at = "bump" /\ version' = version + 1 /\ UNCHANGED token
        /\ job' = [job EXCEPT ![q] = Sess!Idle]
    BY <1>2, <1>11 DEF Sess!Bump, Sess!Set
  <2>2. Sess!Live = {} /\ version < MaxVersion
    BY <1>3, <2>1 DEF Sess!Checked
  <2>3. Sess!Live' = {} /\ Sess!Issued' = Sess!Issued
    BY <2>1, <2>2 DEF Sess!Live, Sess!Issued
  <2>4. version' <= MaxVersion /\ \A t \in Sess!Issued : token[t].version < version'
    BY <1>4, <2>1, <2>2 DEF Sess!SessionsAssumption
  <2>5. OneLives(Sess!Idle)' /\ EndedAreOver'
    BY <2>1, <2>3, <2>4 DEF OneLives, EndedAreOver
  <2> QED
    BY <1>3, <1>5, <2>1, <2>5, SessAloneMoves DEF Sess!Idle
<1> QED
  BY <1>6, <1>7, <1>8, <1>9, <1>10, <1>11 DEF Sess!Proceed

LEMMA SessAloneStays ==
  ASSUME Sess!AloneInv, UNCHANGED <<token, version, job, over, ended>>
  PROVE  Sess!AloneInv'
<1>1. Sess!Issued' = Sess!Issued /\ Sess!Live' = Sess!Live
  BY DEF Sess!Issued, Sess!Live
<1> QED
  BY <1>1 DEF Sess!AloneInv, Sess!Checked, Sess!Retiring

LEMMA SessNextAlone ==
  ASSUME Sess!SessionsAssumption, Sess!Typed, Sess!AloneInv, ~MayOverlap, ~MayStop,
         [Sess!Next]_(Sess!vars)
  PROVE  Sess!AloneInv'
<1>1. CASE UNCHANGED <<token, version, job, over, ended>>
  BY <1>1, SessAloneStays
<1>2. ASSUME NEW q \in Request, Sess!Ask(q) \/ Sess!Proceed(q) PROVE Sess!AloneInv'
  BY <1>2, SessAskIs, SessAloneAsks, SessAloneProceeds
<1> QED
  BY <1>1, <1>2 DEF Sess!Next, Sess!vars, Sess!said, Sess!Stop, Sess!Suspend, Sess!Reactivate

LEMMA SessAlone ==
  ASSUME Sess!SessionsAssumption, ~MayOverlap, ~MayStop
  PROVE  Sess!Spec => [](Sess!Typed /\ Sess!AloneInv)
<1>1. Sess!Init => Sess!Typed /\ Sess!AloneInv
  <2>1. SUFFICES ASSUME Sess!Init PROVE Sess!Typed /\ Sess!AloneInv
    OBVIOUS
  <2>2. /\ Sess!Typed /\ Sess!Issued = {} /\ version = 1 /\ over = {} /\ ended = {}
        /\ \A q \in Request : job[q] = Sess!Idle
    BY <2>1, SessInitTyped
  <2>3. Sess!Live = {} /\ version <= MaxVersion
    BY <2>2 DEF Sess!Live, Sess!SessionsAssumption
  <2> QED
    BY <2>2, <2>3 DEF Sess!AloneInv, Sess!Checked, Sess!Idle
<1>2. Sess!Typed /\ Sess!AloneInv /\ [Sess!Next]_(Sess!vars) => (Sess!Typed /\ Sess!AloneInv)'
  BY SessNextTyped, SessNextAlone
<1> QED
  BY <1>1, <1>2, PTL DEF Sess!Spec

(***************************************************************************)
(* Refresh tokens keep their shape, and whose access tokens were ended,    *)
(* their refresh tokens were (TokenService), one request at a time.        *)
(***************************************************************************)
THEOREM SessTypeCorrect ==
  ASSUME Sess!SessionsAssumption, ~MayOverlap, ~MayStop
  PROVE  Sess!Spec => []Sess!TypeOK
<1>1. Sess!Typed /\ Sess!AloneInv => Sess!TypeOK
  <2>1. SUFFICES ASSUME Sess!Typed, Sess!AloneInv PROVE Sess!TypeOK
    OBVIOUS
  <2>2. version \in Nat \ {0} /\ version <= MaxVersion /\ MaxVersion \in Nat
    BY <2>1 DEF Sess!Typed, Sess!AloneInv, Sess!SessionsAssumption
  <2>3. version \in 1..MaxVersion
    BY <2>2
  <2>4. token \in [Token -> {None} \cup [family : Family, door : Sess!Door, revoked : BOOLEAN,
                                         version : 1..MaxVersion]]
    <3>1. ASSUME NEW t \in Token, token[t] # None
          PROVE  token[t] \in [family : Family, door : Sess!Door, revoked : BOOLEAN,
                               version : 1..MaxVersion]
      <4>1. token[t] \in Tokens
        BY <2>1, <3>1 DEF Sess!Typed, Tokens
      <4>2. token[t].version \in Nat \ {0} /\ token[t].version <= version
        BY <2>1, <3>1, <4>1 DEF Sess!Typed, Sess!Issued, Tokens
      <4>3. token[t].version \in 1..MaxVersion
        BY <2>2, <4>2
      <4> QED
        BY <4>1, <4>3 DEF Tokens
    <3> QED
      BY <2>1, <3>1 DEF Sess!Typed
  <2> QED
    BY <2>1, <2>3, <2>4 DEF Sess!TypeOK, Sess!Typed
<1> QED
  BY <1>1, SessAlone, PTL

(***************************************************************************)
(* "Rotated on every use": one request at a time and none that stops, a    *)
(* session has at most one refresh token that works (rotateRefreshToken);  *)
(* of a session that was logged out, everywhere or not, or met a new       *)
(* password or a token used twice, none works any more (logout, logoutAll, *)
(* changePassword, resetPassword, revokeFamily); and where everyone was    *)
(* signed out or the password is new, the access tokens are refused        *)
(* (validate).                                                             *)
(***************************************************************************)
THEOREM EndedSessionsAreOver ==
  ASSUME Sess!SessionsAssumption, ~MayOverlap, ~MayStop
  PROVE  Sess!Spec => [](Sess!OneLiveToken /\ Sess!OverIsOver /\ Sess!AccessIsOver)
<1>1. Sess!Typed /\ Sess!AloneInv => Sess!OneLiveToken /\ Sess!OverIsOver /\ Sess!AccessIsOver
  <2>1. SUFFICES ASSUME Sess!Typed, Sess!AloneInv
                 PROVE  Sess!OneLiveToken /\ Sess!OverIsOver /\ Sess!AccessIsOver
    OBVIOUS
  <2>2. Sess!OneLiveToken /\ Sess!OverIsOver
    BY <2>1 DEF Sess!AloneInv, Sess!OneLiveToken, Sess!OverIsOver, Sess!Quiet, Sess!Retiring,
       Sess!Idle
  <2>3. Sess!AccessIsOver
    BY <2>1, SessFacts DEF Sess!AloneInv, Sess!AccessIsOver, Sess!Accepted
  <2> QED
    BY <2>2, <2>3
<1> QED
  BY <1>1, SessAlone, PTL

-----------------------------------------------------------------------------
(* Accounts. *)

CONSTANTS Letter, MaxFailed
VARIABLES attempts, locked, verified, link, failed, used

Acct == INSTANCE Accounts WITH Link <- Letter

\* Links are never deleted, keep their purpose and stay spent.
LettersStay ==
  \A l \in Letter : link[l] # None => /\ link'[l] # None /\ link'[l].purpose = link[l].purpose
                                      /\ link[l].consumed => link'[l].consumed

LEMMA AcctJobStays ==
  ASSUME NEW j, Acct!JobOK(j), LettersStay
  PROVE  Acct!JobOK(j)'
<1>1. CASE j \in [at : {"consume"}, link : Letter]
  <2>1. j.link \in Letter /\ link[j.link] # None
    BY <1>1 DEF Acct!JobOK, Acct!Idle
  <2> QED
    BY <1>1, <2>1 DEF LettersStay, Acct!JobOK
<1>2. CASE j \in [at : {"apply"}, link : Letter]
  <2>1. j.link \in Letter /\ link[j.link] # None /\ link[j.link].consumed
    BY <1>2 DEF Acct!JobOK, Acct!Idle
  <2> QED
    BY <1>2, <2>1 DEF LettersStay, Acct!JobOK
<1> QED
  BY <1>1, <1>2 DEF Acct!JobOK

\* What a request is, by where it is.
LEMMA AcctJobIs ==
  ASSUME NEW j, Acct!JobOK(j)
  PROVE  /\ j.at = "none" <=> j = Acct!Idle
         /\ j.at = "failed" => j.attempts \in 0..(MaxFailed - 1)
         /\ j.at = "spend" => j \in [at : {"spend"}, purpose : Acct!Purpose]
         /\ j.at = "send" => j.purpose \in Acct!Purpose
         /\ j.at = "consume" => /\ j \in [at : {"consume"}, link : Letter]
                                /\ j.link \in Letter /\ link[j.link] # None
         /\ j.at = "apply" => j.link \in Letter /\ link[j.link] # None /\ link[j.link].consumed
BY DEF Acct!JobOK, Acct!Idle

VerifiedByLink ==
  verified => \E l \in Letter : link[l] # None /\ link[l].purpose = "VERIFICATION" /\ used[l] > 0

LEMMA AcctTypedMoves ==
  ASSUME Acct!Typed, attempts' \in 0..(MaxFailed - 1), {operator', locked', verified'} \subseteq BOOLEAN,
         link' \in [Letter -> {None} \cup Acct!Mail], LettersStay, VerifiedByLink',
         used' \in [Letter -> Nat],
         \A l \in Letter : used'[l] > 0 => link'[l] # None /\ link'[l].consumed,
         job' = job \/ \E q \in Request : \E j : job' = [job EXCEPT ![q] = j] /\ Acct!JobOK(j)'
  PROVE  Acct!Typed'
<1>1. job' = [q \in Request |-> job'[q]]
  BY DEF Acct!Typed
<1>2. ASSUME NEW p \in Request PROVE Acct!JobOK(job[p])'
  <2>1. PICK k : k = job'[p]
    OBVIOUS
  <2>2. Acct!JobOK(k) \/ Acct!JobOK(k)'
    BY <2>1 DEF Acct!Typed
  <2>3. Acct!JobOK(k)'
    BY <2>2, AcctJobStays
  <2> QED
    BY <2>1, <2>3 DEF Acct!JobOK
<1> QED
  BY <1>1, <1>2 DEF Acct!Typed, Acct!TypeOK, VerifiedByLink

LEMMA AcctFacts ==
  ASSUME Acct!Typed
  PROVE  /\ attempts \in 0..(MaxFailed - 1) /\ {operator, locked, verified} \subseteq BOOLEAN
         /\ link \in [Letter -> {None} \cup Acct!Mail] /\ used \in [Letter -> Nat]
         /\ \A l \in Letter : link[l] = None \/ link[l] \in Acct!Mail
         /\ \A l \in Letter : used[l] > 0 => link[l] # None /\ link[l].consumed
         /\ VerifiedByLink
BY DEF Acct!Typed, Acct!TypeOK, VerifiedByLink

\* A step that touches no link.
LEMMA AcctNoLetter ==
  ASSUME Acct!Typed, attempts' \in 0..(MaxFailed - 1), locked' \in BOOLEAN,
         UNCHANGED <<operator, verified, link, used>>,
         job' = job \/ \E q \in Request : \E j : job' = [job EXCEPT ![q] = j] /\ Acct!JobOK(j)'
  PROVE  Acct!Typed'
<1>1. {operator', locked', verified'} \subseteq BOOLEAN
  BY AcctFacts
<1>2. link' \in [Letter -> {None} \cup Acct!Mail] /\ used' \in [Letter -> Nat]
  BY AcctFacts
<1>3. LettersStay
  BY DEF LettersStay
<1>4. VerifiedByLink'
  BY AcctFacts DEF VerifiedByLink
<1>5. \A l \in Letter : used'[l] > 0 => link'[l] # None /\ link'[l].consumed
  BY AcctFacts
<1> QED
  BY <1>1, <1>2, <1>3, <1>4, <1>5, AcctTypedMoves

\* What becomes of the links when a step writes some of them: they are spent,
\* expired or new.
LetterWritten(l) ==
  \/ link'[l] = link[l]
  \/ link[l] # None /\ (link'[l] = [link[l] EXCEPT !.consumed = TRUE]
                        \/ link'[l] = [link[l] EXCEPT !.expired = TRUE])
  \/ link[l] = None /\ link'[l] \in Acct!Mail

LEMMA AcctLetterWritten ==
  ASSUME Acct!AccountsAssumption, Acct!Typed, NEW l \in Letter, LetterWritten(l)
  PROVE  /\ link'[l] \in {None} \cup Acct!Mail
         /\ link[l] # None => /\ link'[l] # None /\ link'[l].purpose = link[l].purpose
                              /\ link[l].consumed => link'[l].consumed
<1>1. link[l] = None \/ link[l] \in Acct!Mail
  BY AcctFacts
<1>2. CASE link'[l] = link[l] \/ link[l] = None
  BY <1>1, <1>2 DEF LetterWritten
<1>3. CASE link[l] # None /\ link'[l] = [link[l] EXCEPT !.consumed = TRUE]
  <2>1. link'[l] \in Acct!Mail /\ link'[l].purpose = link[l].purpose /\ link'[l].consumed
    BY <1>1, <1>3 DEF Acct!Mail
  <2> QED
    BY <1>3, <2>1 DEF Acct!AccountsAssumption
<1>4. CASE link[l] # None /\ link'[l] = [link[l] EXCEPT !.expired = TRUE]
  <2>1. link'[l] \in Acct!Mail /\ link'[l].purpose = link[l].purpose
        /\ link'[l].consumed = link[l].consumed
    BY <1>1, <1>4 DEF Acct!Mail
  <2> QED
    BY <1>4, <2>1 DEF Acct!AccountsAssumption
<1> QED
  BY <1>2, <1>3, <1>4 DEF LetterWritten

LEMMA AcctWritesLetters ==
  ASSUME Acct!AccountsAssumption, Acct!Typed, link' = [l \in Letter |-> link'[l]],
         \A l \in Letter : LetterWritten(l), UNCHANGED <<operator, attempts, locked, verified, used>>,
         job' = job \/ \E q \in Request : \E j : job' = [job EXCEPT ![q] = j] /\ Acct!JobOK(j)'
  PROVE  Acct!Typed' /\ LettersStay
<1>1. LettersStay
  BY AcctLetterWritten DEF LettersStay
<1>2. link' \in [Letter -> {None} \cup Acct!Mail]
  BY AcctLetterWritten
<1>3. {operator', locked', verified'} \subseteq BOOLEAN /\ attempts' \in 0..(MaxFailed - 1)
  BY AcctFacts
<1>4. used' \in [Letter -> Nat]
  BY AcctFacts
<1>5. \A l \in Letter : used'[l] > 0 => link'[l] # None /\ link'[l].consumed
  BY <1>1, AcctFacts DEF LettersStay
<1>6. VerifiedByLink'
  BY <1>1, AcctFacts DEF LettersStay, VerifiedByLink
<1> QED
  BY <1>1, <1>2, <1>3, <1>4, <1>5, <1>6, AcctTypedMoves

\* Spending and sending, as they write.
LEMMA AcctSpends ==
  ASSUME Acct!Typed, NEW q \in Request, Acct!Spend(q)
  PROVE  \E j : /\ j = [at |-> "send", purpose |-> job[q].purpose] /\ Acct!JobOK(j)
                /\ job' = [job EXCEPT ![q] = j] /\ link' = [l \in Letter |-> link'[l]]
                /\ UNCHANGED <<operator, attempts, locked, verified, failed, used>>
                /\ \A l \in Letter : LetterWritten(l)
                /\ \A l \in Letter : link[l] # None /\ link[l].purpose = j.purpose =>
                     link'[l] = [link[l] EXCEPT !.consumed = TRUE]
                /\ \A l \in Letter : ~(link[l] # None /\ link[l].purpose = j.purpose) =>
                     link'[l] = link[l]
<1>1. PICK k : k = job[q] /\ k \in [at : {"spend"}, purpose : Acct!Purpose]
  BY AcctJobIs DEF Acct!Typed, Acct!Spend
<1>2. PICK j : j = [k EXCEPT !.at = "send"]
  OBVIOUS
<1>3. j = [at |-> "send", purpose |-> k.purpose]
  BY <1>1, <1>2
<1>4. Acct!JobOK(j)
  BY <1>1, <1>3 DEF Acct!JobOK
<1>5. /\ link' = [l \in Letter |-> IF link[l] # None /\ link[l].purpose = j.purpose
                                   THEN [link[l] EXCEPT !.consumed = TRUE] ELSE link[l]]
      /\ job' = [job EXCEPT ![q] = j]
      /\ UNCHANGED <<operator, attempts, locked, verified, failed, used>>
  BY <1>1, <1>2, <1>3 DEF Acct!Spend, Acct!Spent, Acct!Set, Acct!user, Acct!said
<1>6. link' = [l \in Letter |-> link'[l]]
  BY <1>5
<1> QED
  BY <1>1, <1>3, <1>4, <1>5, <1>6 DEF LetterWritten

LEMMA AcctSends ==
  ASSUME Acct!AccountsAssumption, Acct!Typed, NEW q \in Request, NEW l \in Letter, Acct!Send(q, l)
  PROVE  /\ link[l] = None /\ link' = [x \in Letter |-> link'[x]]
         /\ link'[l] = [purpose |-> job[q].purpose, consumed |-> FALSE, expired |-> FALSE]
         /\ link'[l] \in Acct!Mail /\ link'[l].purpose = job[q].purpose
         /\ \A k \in Letter \ {l} : link'[k] = link[k]
         /\ job[q].at = "send" /\ job' = [job EXCEPT ![q] = Acct!Idle]
         /\ UNCHANGED <<operator, attempts, locked, verified, failed, used>>
         /\ \A k \in Letter : LetterWritten(k)
<1>1. PICK rec, p : rec = [purpose |-> p, consumed |-> FALSE, expired |-> FALSE] /\ p = job[q].purpose
  OBVIOUS
<1>2. job[q].at = "send" /\ p \in Acct!Purpose
  BY <1>1, AcctJobIs DEF Acct!Send, Acct!Typed
<1>3. rec \in Acct!Mail
  BY <1>1, <1>2 DEF Acct!Mail
<1>4. /\ link[l] = None /\ link' = [link EXCEPT ![l] = rec]
      /\ job' = [job EXCEPT ![q] = Acct!Idle]
      /\ UNCHANGED <<operator, attempts, locked, verified, failed, used>>
  BY <1>1 DEF Acct!Send, Acct!Set, Acct!user, Acct!said
<1>5. link' = [x \in Letter |-> link'[x]] /\ link'[l] = rec
      /\ \A k \in Letter \ {l} : link'[k] = link[k]
  BY <1>4, AcctFacts
<1> QED
  BY <1>1, <1>2, <1>3, <1>4, <1>5 DEF LetterWritten

LEMMA AcctConsumes ==
  ASSUME Acct!Typed, NEW q \in Request, Acct!Consume(q)
  PROVE  \E l \in Letter : \E j :
           /\ l = job[q].link /\ link[l] # None /\ job[q].at = "consume"
           /\ link'[l] = [link[l] EXCEPT !.consumed = TRUE] /\ link'[l].consumed
           /\ link' = [x \in Letter |-> link'[x]]
           /\ \A k \in Letter \ {l} : link'[k] = link[k]
           /\ j = [at |-> "apply", link |-> l] /\ job' = [job EXCEPT ![q] = j]
           /\ UNCHANGED <<operator, attempts, locked, verified, failed, used>>
           /\ \A k \in Letter : LetterWritten(k)
<1>1. PICK k : /\ k = job[q] /\ k \in [at : {"consume"}, link : Letter]
               /\ k.link \in Letter /\ link[k.link] # None
  BY AcctJobIs DEF Acct!Typed, Acct!Consume
<1>2. PICK l : l = k.link
  OBVIOUS
<1>3. link[l] \in Acct!Mail
  BY <1>1, <1>2, AcctFacts
<1>4. PICK rec : rec = [link[l] EXCEPT !.consumed = TRUE]
  OBVIOUS
<1>5. rec.consumed
  BY <1>3, <1>4 DEF Acct!Mail
<1>6. PICK j : j = [k EXCEPT !.at = "apply"]
  OBVIOUS
<1>7. j = [at |-> "apply", link |-> l]
  BY <1>1, <1>2, <1>6
<1>8. /\ link' = [link EXCEPT ![l] = rec] /\ job' = [job EXCEPT ![q] = j] /\ k.at = "consume"
      /\ UNCHANGED <<operator, attempts, locked, verified, failed, used>>
  BY <1>1, <1>2, <1>4, <1>6 DEF Acct!Consume, Acct!Spent, Acct!Set, Acct!user, Acct!said
<1>9. link' = [x \in Letter |-> link'[x]] /\ link'[l] = rec
      /\ \A x \in Letter \ {l} : link'[x] = link[x]
  BY <1>1, <1>2, <1>8, AcctFacts
<1> QED
  BY <1>1, <1>2, <1>4, <1>5, <1>7, <1>8, <1>9 DEF LetterWritten

\* Having its effect, a link is used once more.
LEMMA AcctApplies ==
  ASSUME Acct!AccountsAssumption, Acct!Typed, NEW q \in Request,
         Acct!ResetPassword(q) \/ Acct!VerifyEmail(q)
  PROVE  \E l \in Letter :
           /\ l = job[q].link /\ job[q].at = "apply" /\ link[l] # None /\ link[l].consumed
           /\ used' \in [Letter -> Nat] /\ used'[l] = used[l] + 1
           /\ \A k \in Letter \ {l} : used'[k] = used[k]
           /\ job' = [job EXCEPT ![q] = Acct!Idle]
           /\ attempts' \in 0..(MaxFailed - 1) /\ locked' \in BOOLEAN
           /\ UNCHANGED <<operator, link>>
           /\ verified' = verified \/ (verified' /\ link[l].purpose = "VERIFICATION")
           /\ (attempts' = 0 /\ failed' = 0) \/ UNCHANGED <<attempts, failed>>
<1>1. PICK l : l = job[q].link
  OBVIOUS
<1>2. job[q].at = "apply" /\ l \in Letter /\ link[l] # None /\ link[l].consumed
  BY <1>1, AcctJobIs DEF Acct!Typed, Acct!ResetPassword, Acct!VerifyEmail
<1>3. /\ used' = [used EXCEPT ![l] = used[l] + 1] /\ job' = [job EXCEPT ![q] = Acct!Idle]
      /\ UNCHANGED <<operator, link>>
  BY <1>1 DEF Acct!ResetPassword, Acct!VerifyEmail, Acct!Set
<1>4. used' \in [Letter -> Nat] /\ used'[l] = used[l] + 1
      /\ \A k \in Letter \ {l} : used'[k] = used[k]
  BY <1>2, <1>3, AcctFacts
<1>5. /\ (attempts' = 0 /\ failed' = 0 /\ locked' = FALSE) \/ UNCHANGED <<attempts, locked, failed>>
      /\ verified' = verified \/ (verified' /\ link[l].purpose = "VERIFICATION")
  <2>1. CASE Acct!ResetPassword(q)
    BY <2>1 DEF Acct!ResetPassword, Acct!Cleared
  <2>2. CASE Acct!VerifyEmail(q)
    BY <1>1, <2>2 DEF Acct!VerifyEmail
  <2> QED
    BY <2>1, <2>2
<1>6. 0 \in 0..(MaxFailed - 1)
  BY DEF Acct!AccountsAssumption
<1>7. attempts' \in 0..(MaxFailed - 1) /\ locked' \in BOOLEAN
  BY <1>5, <1>6, AcctFacts
<1> QED
  BY <1>1, <1>2, <1>3, <1>4, <1>5, <1>7

\* Counting a failure: back to zero at the last.
LEMMA AcctCounts ==
  ASSUME Acct!AccountsAssumption, Acct!Typed, NEW q \in Request, Acct!CountFailure(q)
  PROVE  /\ job[q].at = "failed" /\ attempts' \in 0..(MaxFailed - 1) /\ locked' \in BOOLEAN
         /\ job' = [job EXCEPT ![q] = Acct!Idle] /\ UNCHANGED <<operator, verified, link, used>>
         /\ job[q].attempts = attempts /\ attempts = failed => attempts' = failed'
<1>1. PICK c : c = job[q].attempts
  OBVIOUS
<1>2. job[q].at = "failed" /\ c \in 0..(MaxFailed - 1) /\ MaxFailed \in Nat \ {0}
  BY <1>1, AcctJobIs DEF Acct!Typed, Acct!CountFailure, Acct!AccountsAssumption
<1>3. /\ attempts' = (IF c + 1 >= MaxFailed THEN 0 ELSE c + 1) /\ locked' = (c + 1 >= MaxFailed)
      /\ failed' = (IF c + 1 >= MaxFailed THEN 0 ELSE failed + 1)
      /\ job' = [job EXCEPT ![q] = Acct!Idle] /\ UNCHANGED <<operator, verified, link, used>>
  BY <1>1 DEF Acct!CountFailure, Acct!Set
<1>4. attempts' \in 0..(MaxFailed - 1)
  BY <1>2, <1>3
<1> QED
  BY <1>1, <1>2, <1>3, <1>4

LEMMA AcctNextTyped ==
  ASSUME Acct!AccountsAssumption, Acct!Typed, [Acct!Next]_(Acct!vars)
  PROVE  Acct!Typed'
<1>1. /\ attempts \in 0..(MaxFailed - 1) /\ {operator, locked, verified} \subseteq BOOLEAN
      /\ link \in [Letter -> {None} \cup Acct!Mail] /\ used \in [Letter -> Nat]
  BY AcctFacts
<1>2. Acct!JobOK(Acct!Idle)' /\ 0 \in 0..(MaxFailed - 1)
  BY DEF Acct!JobOK, Acct!AccountsAssumption
<1>3. ASSUME NEW q \in Request, NEW j, job' = [job EXCEPT ![q] = j], Acct!JobOK(j)',
             UNCHANGED <<operator, attempts, locked, verified, link, used>>
      PROVE  Acct!Typed'
  BY <1>1, <1>3, AcctNoLetter
<1>4. ASSUME NEW q \in Request, \/ Acct!WrongPassword(q) \/ Acct!Login(q) \/ Acct!PlatformLogin(q)
                                \/ Acct!ForgotPassword(q) \/ Acct!ResendVerification(q)
                                \/ \E l \in Letter : Acct!Open(q, l)
      PROVE  Acct!Typed'
  <2>1. PICK j : /\ job' = [job EXCEPT ![q] = j]
                 /\ UNCHANGED <<operator, attempts, locked, verified, link, used>>
                 /\ \/ j = [at |-> "failed", attempts |-> attempts]
                    \/ j = [at |-> "entered"]
                    \/ j = [at |-> "spend", purpose |-> "RESET"]
                    \/ j = [at |-> "spend", purpose |-> "VERIFICATION"]
                    \/ \E l \in Letter : link[l] # None /\ j = [at |-> "consume", link |-> l]
    BY <1>4 DEF Acct!WrongPassword, Acct!Login, Acct!PlatformLogin, Acct!Enter,
       Acct!ForgotPassword, Acct!ResendVerification, Acct!Ask, Acct!Open, Acct!Works, Acct!Set,
       Acct!user, Acct!said
  <2>2. Acct!JobOK(j)
    BY <1>1, <2>1 DEF Acct!JobOK, Acct!Purpose
  <2>3. Acct!JobOK(j)'
    BY <2>1, <2>2 DEF Acct!JobOK
  <2> QED
    BY <1>3, <2>1, <2>3
<1>5. ASSUME NEW q \in Request, Acct!CountFailure(q) PROVE Acct!Typed'
  BY <1>2, <1>5, AcctCounts, AcctNoLetter
<1>6. ASSUME NEW q \in Request, Acct!LoginWrite(q) PROVE Acct!Typed'
  BY <1>2, <1>6, AcctNoLetter DEF Acct!LoginWrite, Acct!Cleared, Acct!Set
<1>7. ASSUME NEW q \in Request, Acct!Spend(q) PROVE Acct!Typed'
  <2>1. PICK j : /\ j = [at |-> "send", purpose |-> job[q].purpose] /\ Acct!JobOK(j)
                 /\ job' = [job EXCEPT ![q] = j] /\ link' = [l \in Letter |-> link'[l]]
                 /\ UNCHANGED <<operator, attempts, locked, verified, failed, used>>
                 /\ \A l \in Letter : LetterWritten(l)
    BY <1>7, AcctSpends
  <2>2. LettersStay
    BY <2>1, AcctLetterWritten DEF LettersStay
  <2>3. Acct!JobOK(j)'
    BY <2>1, <2>2, AcctJobStays
  <2> QED
    BY <2>1, <2>3, AcctWritesLetters
<1>8. ASSUME NEW q \in Request, NEW l \in Letter, Acct!Send(q, l) PROVE Acct!Typed'
  BY <1>2, <1>8, AcctSends, AcctWritesLetters
<1>9. ASSUME NEW q \in Request, Acct!Consume(q) PROVE Acct!Typed'
  <2>1. PICK l, j :
           /\ l \in Letter /\ l = job[q].link /\ link[l] # None
           /\ link'[l] = [link[l] EXCEPT !.consumed = TRUE] /\ link'[l].consumed
           /\ link' = [x \in Letter |-> link'[x]]
           /\ j = [at |-> "apply", link |-> l] /\ job' = [job EXCEPT ![q] = j]
           /\ UNCHANGED <<operator, attempts, locked, verified, failed, used>>
           /\ \A k \in Letter : LetterWritten(k)
    BY <1>9, AcctConsumes
  <2>2. link'[l] # None
    BY <2>1, AcctLetterWritten
  <2>3. Acct!JobOK(j)'
    BY <2>1, <2>2 DEF Acct!JobOK
  <2> QED
    BY <2>1, <2>3, AcctWritesLetters
<1>10. ASSUME NEW q \in Request, Acct!ResetPassword(q) \/ Acct!VerifyEmail(q) PROVE Acct!Typed'
  <2>1. PICK l \in Letter :
           /\ link[l] # None /\ link[l].consumed
           /\ used' \in [Letter -> Nat] /\ used'[l] = used[l] + 1
           /\ \A k \in Letter \ {l} : used'[k] = used[k]
           /\ job' = [job EXCEPT ![q] = Acct!Idle]
           /\ attempts' \in 0..(MaxFailed - 1) /\ locked' \in BOOLEAN
           /\ UNCHANGED <<operator, link>>
           /\ verified' = verified \/ (verified' /\ link[l].purpose = "VERIFICATION")
    BY <1>10, AcctApplies
  <2>2. verified' \in BOOLEAN
    BY <1>1, <1>10 DEF Acct!ResetPassword, Acct!VerifyEmail
  <2>3. {operator', locked', verified'} \subseteq BOOLEAN
    BY <1>1, <2>1, <2>2
  <2>4. link' \in [Letter -> {None} \cup Acct!Mail] /\ LettersStay
    BY <1>1, <2>1 DEF LettersStay
  <2>5. used[l] \in Nat
    BY <1>1
  <2>6. \A k \in Letter : used'[k] > 0 => link'[k] # None /\ link'[k].consumed
    BY <2>1, AcctFacts
  <2>7. \A k \in Letter : used[k] > 0 => used'[k] > 0
    BY <2>1, <2>5
  <2>8. used'[l] > 0
    BY <2>1, <2>5
  <2>9. VerifiedByLink'
    BY <2>1, <2>7, <2>8, AcctFacts DEF VerifiedByLink
  <2> QED
    BY <1>2, <2>1, <2>3, <2>4, <2>6, <2>9, AcctTypedMoves
<1>11. ASSUME NEW q \in Request, Acct!Stop(q) PROVE Acct!Typed'
  BY <1>2, <1>3, <1>11 DEF Acct!Stop, Acct!Set, Acct!user, Acct!said
<1>12. CASE Acct!Unlock \/ UNCHANGED Acct!vars
  BY <1>1, <1>12, AcctNoLetter DEF Acct!Unlock, Acct!vars, Acct!user, Acct!said
<1>13. ASSUME NEW l \in Letter, Acct!Expire(l) PROVE Acct!Typed'
  <2>1. PICK rec : rec = [link[l] EXCEPT !.expired = TRUE]
    OBVIOUS
  <2>2. /\ link[l] # None /\ link' = [link EXCEPT ![l] = rec]
        /\ UNCHANGED <<operator, attempts, locked, verified, job, used>>
    BY <1>13, <2>1 DEF Acct!Expire, Acct!user, Acct!said
  <2>3. link' = [x \in Letter |-> link'[x]] /\ \A k \in Letter : LetterWritten(k)
    BY <1>1, <2>1, <2>2 DEF LetterWritten
  <2> QED
    BY <2>2, <2>3, AcctWritesLetters
<1> QED
  BY <1>4, <1>5, <1>6, <1>7, <1>8, <1>9, <1>10, <1>11, <1>12, <1>13 DEF Acct!Next

LEMMA AcctInitTyped ==
  ASSUME Acct!AccountsAssumption, Acct!Init
  PROVE  Acct!Typed
<1>1. /\ attempts = 0 /\ {operator, locked, verified} \subseteq BOOLEAN /\ verified = FALSE
      /\ link = [l \in Letter |-> None] /\ job = [q \in Request |-> Acct!Idle]
      /\ used = [l \in Letter |-> 0]
  BY DEF Acct!Init
<1>2. 0 \in 0..(MaxFailed - 1)
  BY DEF Acct!AccountsAssumption
<1>3. Acct!TypeOK
  BY <1>1, <1>2 DEF Acct!TypeOK
<1>4. \A q \in Request : Acct!JobOK(job[q])
  BY <1>1 DEF Acct!JobOK
<1> QED
  BY <1>1, <1>3, <1>4 DEF Acct!Typed

LEMMA AcctTyped ==
  ASSUME Acct!AccountsAssumption
  PROVE  Acct!Spec => []Acct!Typed
<1>1. Acct!Init => Acct!Typed
  BY AcctInitTyped
<1>2. Acct!Typed /\ [Acct!Next]_(Acct!vars) => Acct!Typed'
  BY AcctNextTyped
<1> QED
  BY <1>1, <1>2, PTL DEF Acct!Spec

(***************************************************************************)
(* Types: the count of failures stays below the limit, and an address is   *)
(* verified by a link that was sent for it (registerFailedAttempt,         *)
(* verifyEmail), whatever overlaps and wherever a process stops.           *)
(***************************************************************************)
THEOREM AcctTypeCorrect ==
  ASSUME Acct!AccountsAssumption
  PROVE  Acct!Spec => []Acct!TypeOK
BY AcctTyped, PTL DEF Acct!Typed

-----------------------------------------------------------------------------
(* Accounts, one request at a time. *)

OneUnspent ==
  \A l, k \in Letter :
    Acct!Unspent(l) /\ Acct!Unspent(k) /\ link[l].purpose = link[k].purpose => l = k

CountedOnce == attempts = failed /\ \A l \in Letter : used[l] <= 1

LEMMA AcctAloneMoves ==
  ASSUME Acct!Typed, NEW q \in Request, NEW j, job' = [job EXCEPT ![q] = j],
         \A p \in Request \ {q} : job[p] = Acct!Idle, Acct!Checked(j)', OneUnspent', CountedOnce'
  PROVE  Acct!AloneInv'
<1>1. job'[q] = j /\ \A p \in Request \ {q} : job'[p] = Acct!Idle
  BY DEF Acct!Typed
<1>2. ASSUME NEW p \in Request PROVE Acct!Checked(job[p])'
  <2>1. CASE p = q
    BY <1>1, <2>1 DEF Acct!Checked
  <2>2. CASE p # q
    BY <1>1, <2>2 DEF Acct!Checked, Acct!Idle
  <2> QED
    BY <2>1, <2>2
<1> QED
  BY <1>1, <1>2 DEF Acct!AloneInv, Acct!FailuresAreCounted, Acct!SingleUse, OneUnspent, CountedOnce

\* Whoever moves is alone.
LEMMA AcctAtWork ==
  ASSUME Acct!Typed, Acct!AloneInv, ~MayOverlap, NEW q \in Request,
         Acct!Begin(q) \/ job[q].at # "none"
  PROVE  /\ \A p \in Request \ {q} : job[p] = Acct!Idle
         /\ OneUnspent /\ CountedOnce /\ Acct!Checked(job[q]) /\ Acct!JobOK(job[q])
<1>1. \A p \in Request \ {q} : job[p] = Acct!Idle
  BY DEF Acct!AloneInv, Acct!Begin, Acct!Idle
<1> QED
  BY <1>1 DEF Acct!AloneInv, Acct!Typed, OneUnspent, CountedOnce, Acct!FailuresAreCounted,
     Acct!SingleUse

\* Time changes nothing of this.
LEMMA AcctAloneStays ==
  ASSUME Acct!Typed, Acct!AloneInv, UNCHANGED <<attempts, job, failed, used>>,
         \A l \in Letter : /\ link'[l] = None <=> link[l] = None
                           /\ link[l] # None => /\ link'[l].purpose = link[l].purpose
                                                /\ link'[l].consumed = link[l].consumed
  PROVE  Acct!AloneInv'
<1>1. ASSUME NEW p \in Request PROVE Acct!Checked(job[p])'
  <2>1. PICK j : j = job[p] /\ Acct!JobOK(j) /\ Acct!Checked(j)
    BY DEF Acct!Typed, Acct!AloneInv
  <2>2. j.at = "consume" => j.link \in Letter /\ link[j.link] # None
    BY <2>1, AcctJobIs
  <2>3. Acct!Checked(j)'
    BY <2>1, <2>2 DEF Acct!Checked
  <2> QED
    BY <2>1, <2>3 DEF Acct!Checked
<1>2. OneUnspent /\ CountedOnce
  BY DEF Acct!AloneInv, OneUnspent, CountedOnce, Acct!FailuresAreCounted, Acct!SingleUse
<1>3. OneUnspent' /\ CountedOnce'
  BY <1>2 DEF OneUnspent, Acct!Unspent, CountedOnce
<1> QED
  BY <1>1, <1>3 DEF Acct!AloneInv, OneUnspent, CountedOnce, Acct!FailuresAreCounted,
     Acct!SingleUse

LEMMA AcctNextAlone ==
  ASSUME Acct!AccountsAssumption, Acct!Typed, Acct!AloneInv, ~MayOverlap, [Acct!Next]_(Acct!vars)
  PROVE  Acct!AloneInv'
<1>1. /\ \A l \in Letter : link[l] = None \/ link[l] \in Acct!Mail
      /\ \A l \in Letter : used[l] \in Nat
      /\ \A l \in Letter : used[l] > 0 => link[l] # None /\ link[l].consumed
  BY AcctFacts
<1>2. Acct!Checked(Acct!Idle)'
  BY DEF Acct!Checked, Acct!Idle
<1>3. ASSUME NEW q \in Request, \/ Acct!WrongPassword(q) \/ Acct!Login(q) \/ Acct!PlatformLogin(q)
                                \/ Acct!ForgotPassword(q) \/ Acct!ResendVerification(q)
                                \/ \E l \in Letter : Acct!Open(q, l)
      PROVE  Acct!AloneInv'
  <2>1. Acct!Begin(q)
    BY <1>3 DEF Acct!WrongPassword, Acct!Login, Acct!PlatformLogin, Acct!Enter,
       Acct!ForgotPassword, Acct!ResendVerification, Acct!Ask, Acct!Open
  <2>2. \A p \in Request \ {q} : job[p] = Acct!Idle
    BY <2>1, AcctAtWork
  <2>3. OneUnspent /\ CountedOnce
    BY <2>1, AcctAtWork
  <2>4. PICK j : /\ job' = [job EXCEPT ![q] = j]
                 /\ UNCHANGED <<operator, attempts, locked, verified, link, failed, used>>
                 /\ \/ j = [at |-> "failed", attempts |-> attempts]
                    \/ j = [at |-> "entered"]
                    \/ j = [at |-> "spend", purpose |-> "RESET"]
                    \/ j = [at |-> "spend", purpose |-> "VERIFICATION"]
                    \/ \E l \in Letter : ~link[l].consumed /\ j = [at |-> "consume", link |-> l]
    BY <1>3 DEF Acct!WrongPassword, Acct!Login, Acct!PlatformLogin, Acct!Enter,
       Acct!ForgotPassword, Acct!ResendVerification, Acct!Ask, Acct!Open, Acct!Works, Acct!Set,
       Acct!user, Acct!said
  <2>5. Acct!Checked(j)'
    BY <2>4 DEF Acct!Checked
  <2>6. OneUnspent' /\ CountedOnce'
    BY <2>3, <2>4 DEF OneUnspent, Acct!Unspent, CountedOnce
  <2> QED
    BY <2>2, <2>4, <2>5, <2>6, AcctAloneMoves
<1>4. ASSUME NEW q \in Request, Acct!CountFailure(q) PROVE Acct!AloneInv'
  <2>1. /\ job[q].at = "failed" /\ job' = [job EXCEPT ![q] = Acct!Idle]
        /\ UNCHANGED <<link, used>>
        /\ job[q].attempts = attempts /\ attempts = failed => attempts' = failed'
    BY <1>4, AcctCounts
  <2>2. /\ \A p \in Request \ {q} : job[p] = Acct!Idle
        /\ OneUnspent /\ CountedOnce /\ Acct!Checked(job[q])
    BY <2>1, AcctAtWork
  <2>3. OneUnspent' /\ CountedOnce'
    BY <2>1, <2>2 DEF OneUnspent, Acct!Unspent, CountedOnce, Acct!Checked
  <2> QED
    BY <1>2, <2>1, <2>2, <2>3, AcctAloneMoves
<1>5. ASSUME NEW q \in Request, Acct!LoginWrite(q) PROVE Acct!AloneInv'
  <2>1. /\ job[q].at = "entered" /\ job' = [job EXCEPT ![q] = Acct!Idle]
        /\ UNCHANGED <<link, used>> /\ attempts' = 0 /\ failed' = 0
    BY <1>5 DEF Acct!LoginWrite, Acct!Cleared, Acct!Set
  <2>2. /\ \A p \in Request \ {q} : job[p] = Acct!Idle
        /\ OneUnspent /\ CountedOnce
    BY <2>1, AcctAtWork
  <2>3. OneUnspent' /\ CountedOnce'
    BY <2>1, <2>2 DEF OneUnspent, Acct!Unspent, CountedOnce
  <2> QED
    BY <1>2, <2>1, <2>2, <2>3, AcctAloneMoves
<1>6. ASSUME NEW q \in Request, Acct!Spend(q) PROVE Acct!AloneInv'
  <2>1. PICK j :
           /\ j = [at |-> "send", purpose |-> job[q].purpose] /\ job' = [job EXCEPT ![q] = j]
           /\ UNCHANGED <<operator, attempts, locked, verified, failed, used>>
           /\ \A l \in Letter : link[l] # None /\ link[l].purpose = j.purpose =>
                link'[l] = [link[l] EXCEPT !.consumed = TRUE]
           /\ \A l \in Letter : ~(link[l] # None /\ link[l].purpose = j.purpose) =>
                link'[l] = link[l]
    BY <1>6, AcctSpends
  <2>2. /\ \A p \in Request \ {q} : job[p] = Acct!Idle
        /\ OneUnspent /\ CountedOnce
    BY <1>6, AcctAtWork DEF Acct!Spend
  <2>3. ASSUME NEW l \in Letter, link[l] # None, link[l].purpose = j.purpose
        PROVE  link'[l].purpose = j.purpose /\ link'[l].consumed
    BY <1>1, <2>1, <2>3 DEF Acct!Mail
  <2>4. \A l \in Letter : link'[l] # None /\ link'[l].purpose = j.purpose => link'[l].consumed
    BY <2>1, <2>3
  <2>5. Acct!Checked(j)'
    BY <2>1, <2>4 DEF Acct!Checked
  <2>6. \A l \in Letter : ~link'[l].consumed /\ link'[l] # None => link'[l] = link[l]
    BY <2>1, <2>3
  <2>7. OneUnspent' /\ CountedOnce'
    BY <2>1, <2>2, <2>6 DEF OneUnspent, Acct!Unspent, CountedOnce
  <2> QED
    BY <2>1, <2>2, <2>5, <2>7, AcctAloneMoves
<1>7. ASSUME NEW q \in Request, NEW l \in Letter, Acct!Send(q, l) PROVE Acct!AloneInv'
  <2>1. /\ link[l] = None /\ link'[l].purpose = job[q].purpose
        /\ \A k \in Letter \ {l} : link'[k] = link[k]
        /\ job[q].at = "send" /\ job' = [job EXCEPT ![q] = Acct!Idle]
        /\ UNCHANGED <<attempts, failed, used>>
    BY <1>7, AcctSends
  <2>2. /\ \A p \in Request \ {q} : job[p] = Acct!Idle
        /\ OneUnspent /\ CountedOnce /\ Acct!Checked(job[q])
    BY <2>1, AcctAtWork
  <2>3. \A k \in Letter : link[k] # None /\ link[k].purpose = job[q].purpose => link[k].consumed
    BY <2>1, <2>2 DEF Acct!Checked
  <2>4. OneUnspent' /\ CountedOnce'
    BY <2>1, <2>2, <2>3 DEF OneUnspent, Acct!Unspent, CountedOnce
  <2> QED
    BY <1>2, <2>1, <2>2, <2>4, AcctAloneMoves
<1>8. ASSUME NEW q \in Request, Acct!Consume(q) PROVE Acct!AloneInv'
  <2>1. PICK l, j :
           /\ l \in Letter /\ l = job[q].link /\ link[l] # None /\ job[q].at = "consume" /\ link'[l].consumed
           /\ \A k \in Letter \ {l} : link'[k] = link[k]
           /\ j = [at |-> "apply", link |-> l] /\ job' = [job EXCEPT ![q] = j]
           /\ UNCHANGED <<operator, attempts, locked, verified, failed, used>>
    BY <1>8, AcctConsumes
  <2>2. /\ \A p \in Request \ {q} : job[p] = Acct!Idle
        /\ OneUnspent /\ CountedOnce /\ Acct!Checked(job[q])
    BY <2>1, AcctAtWork
  <2>3. ~link[l].consumed
    BY <2>1, <2>2 DEF Acct!Checked
  <2>4. used'[l] = 0
    BY <1>1, <2>1, <2>3
  <2>5. Acct!Checked(j)'
    BY <2>1, <2>4 DEF Acct!Checked
  <2>6. OneUnspent' /\ CountedOnce'
    BY <2>1, <2>2 DEF OneUnspent, Acct!Unspent, CountedOnce
  <2> QED
    BY <2>1, <2>2, <2>5, <2>6, AcctAloneMoves
<1>9. ASSUME NEW q \in Request, Acct!ResetPassword(q) \/ Acct!VerifyEmail(q) PROVE Acct!AloneInv'
  <2>1. PICK l \in Letter :
           /\ l = job[q].link /\ job[q].at = "apply" /\ used'[l] = used[l] + 1
           /\ \A k \in Letter \ {l} : used'[k] = used[k]
           /\ job' = [job EXCEPT ![q] = Acct!Idle] /\ UNCHANGED link
           /\ (attempts' = 0 /\ failed' = 0) \/ UNCHANGED <<attempts, failed>>
    BY <1>9, AcctApplies
  <2>2. /\ \A p \in Request \ {q} : job[p] = Acct!Idle
        /\ OneUnspent /\ CountedOnce /\ Acct!Checked(job[q])
    BY <2>1, AcctAtWork
  <2>3. used[l] = 0
    BY <2>1, <2>2 DEF Acct!Checked
  <2>4. \A k \in Letter : used'[k] <= 1
    BY <2>1, <2>2, <2>3 DEF CountedOnce
  <2>5. OneUnspent' /\ CountedOnce'
    BY <2>1, <2>2, <2>4 DEF OneUnspent, Acct!Unspent, CountedOnce
  <2> QED
    BY <1>2, <2>1, <2>2, <2>5, AcctAloneMoves
<1>10. ASSUME NEW q \in Request, Acct!Stop(q) PROVE Acct!AloneInv'
  <2>1. /\ job[q] # Acct!Idle /\ job' = [job EXCEPT ![q] = Acct!Idle]
        /\ UNCHANGED <<attempts, link, failed, used>>
    BY <1>10 DEF Acct!Stop, Acct!Set, Acct!user, Acct!said
  <2>2. \A p \in Request \ {q} : job[p] = Acct!Idle
    BY <2>1 DEF Acct!AloneInv
  <2>3. OneUnspent /\ CountedOnce
    BY DEF Acct!AloneInv, OneUnspent, CountedOnce, Acct!FailuresAreCounted, Acct!SingleUse
  <2>4. OneUnspent' /\ CountedOnce'
    BY <2>1, <2>3 DEF OneUnspent, Acct!Unspent, CountedOnce
  <2> QED
    BY <1>2, <2>1, <2>2, <2>4, AcctAloneMoves
<1>11. CASE Acct!Unlock \/ UNCHANGED Acct!vars
  BY <1>11, AcctAloneStays DEF Acct!Unlock, Acct!vars, Acct!user, Acct!said
<1>12. ASSUME NEW l \in Letter, Acct!Expire(l) PROVE Acct!AloneInv'
  <2>1. PICK rec : rec = [link[l] EXCEPT !.expired = TRUE]
    OBVIOUS
  <2>2. /\ link[l] # None /\ link' = [link EXCEPT ![l] = rec]
        /\ UNCHANGED <<attempts, job, failed, used>>
    BY <1>12, <2>1 DEF Acct!Expire, Acct!user, Acct!said
  <2>3. rec \in Acct!Mail /\ rec.purpose = link[l].purpose /\ rec.consumed = link[l].consumed
    BY <1>1, <2>1, <2>2 DEF Acct!Mail
  <2>4. rec # None
    BY <2>3 DEF Acct!AccountsAssumption
  <2>5. link'[l] = rec /\ \A k \in Letter \ {l} : link'[k] = link[k]
    BY <2>2, AcctFacts
  <2> QED
    BY <2>2, <2>3, <2>4, <2>5, AcctAloneStays
<1> QED
  BY <1>3, <1>4, <1>5, <1>6, <1>7, <1>8, <1>9, <1>10, <1>11, <1>12 DEF Acct!Next

LEMMA AcctAlone ==
  ASSUME Acct!AccountsAssumption, ~MayOverlap
  PROVE  Acct!Spec => [](Acct!Typed /\ Acct!AloneInv)
<1>1. Acct!Init => Acct!Typed /\ Acct!AloneInv
  <2>1. SUFFICES ASSUME Acct!Init PROVE Acct!Typed /\ Acct!AloneInv
    OBVIOUS
  <2>2. /\ attempts = 0 /\ failed = 0 /\ \A l \in Letter : link[l] = None /\ used[l] = 0
        /\ \A q \in Request : job[q] = Acct!Idle
    BY <2>1 DEF Acct!Init
  <2>3. Acct!AloneInv
    BY <2>2 DEF Acct!AloneInv, Acct!Unspent, Acct!Checked, Acct!Idle, Acct!FailuresAreCounted, Acct!SingleUse
  <2> QED
    BY <2>1, <2>3, AcctInitTyped
<1>2. Acct!Typed /\ Acct!AloneInv /\ [Acct!Next]_(Acct!vars) => (Acct!Typed /\ Acct!AloneInv)'
  BY AcctNextTyped, AcctNextAlone
<1> QED
  BY <1>1, <1>2, PTL DEF Acct!Spec

(***************************************************************************)
(* Of the links sent for one purpose at most one works, and each has its   *)
(* effect at most once (createVerificationToken, consumeVerificationToken);*)
(* and the failed logins that lock an account are counted one by one       *)
(* (registerFailedAttempt): one request at a time, wherever it stops.      *)
(***************************************************************************)
THEOREM LettersWorkOnce ==
  ASSUME Acct!AccountsAssumption, ~MayOverlap
  PROVE  Acct!Spec => [](Acct!OneLiveLink /\ Acct!SingleUse /\ Acct!FailuresAreCounted)
<1>1. Acct!AloneInv => Acct!OneLiveLink /\ Acct!SingleUse /\ Acct!FailuresAreCounted
  BY DEF Acct!AloneInv, Acct!Unspent, Acct!OneLiveLink, Acct!Works
<1> QED
  BY <1>1, AcctAlone, PTL
==============================================================================
