------------------------------ MODULE Guardians -----------------------------
(***************************************************************************)
(* GuardiansService, PortalAccessService and the gate of the portal:       *)
(* who is whose parent, which login a parent uses, and which children that *)
(* login is shown.                                                         *)
(*                                                                         *)
(* A login is named by its e-mail.  What membership and invitation go      *)
(* through elsewhere is Memberships' and Accounts'; here they are one step *)
(* each.  A request reads first and writes later.                          *)
(***************************************************************************)
EXTENDS Naturals, FiniteSets

CONSTANTS
  Guardian, Student, User, Request, None,
  Invoice, childOf,   \* invoices, payments and receipts, and whose they are
  MayOverlap          \* two requests may be under way at once

GuardiansAssumption == childOf \in [Invoice -> Student] /\ None \notin User

VARIABLES
  guardian,   \* e-mail on file and login of each
  links,      \* student, guardian and whether the school calls them first
  member,     \* role and status of each login at this school
  invited,    \* logins with an invitation that can be accepted
  enabled,    \* portalEnabled
  cut,        \* logins the school took from a parent and gave to none since
  job

vars == <<guardian, links, member, invited, enabled, cut, job>>

NoRow   == [email |-> None, user |-> None, onFile |-> FALSE]
Nobody  == [role |-> "none", status |-> "NONE"]
Idle    == [at |-> "none"]

Init ==
  /\ guardian = [g \in Guardian |-> NoRow] /\ links = {} /\ invited = {} /\ cut = {}
  /\ member \in [User -> {Nobody, [role |-> "staff", status |-> "ACTIVE"]}]
  /\ enabled = TRUE /\ job = [q \in Request |-> Idle]

OnFile(g)    == guardian[g].onFile
LinksOf(g)   == {k \in links : k.guardian = g}
Linked(s, g) == \E k \in links : k.student = s /\ k.guardian = g
HasEmail(u)  == {g \in Guardian : guardian[g].email = u}
SignsIn(u)   == {g \in Guardian : guardian[g].user = u}

Calm    == \A q \in Request : job[q] = Idle
Free(q) == job[q] = Idle /\ (~MayOverlap => Calm)
Take(q, what) == job' = [job EXCEPT ![q] = what]
Done(q) == Take(q, Idle)

-----------------------------------------------------------------------------
(* Guardians.                                                              *)

\* The unique index on e-mails stands behind assertEmailFree.
CreateGuardian(g, e) ==
  /\ ~MayOverlap => Calm
  /\ ~OnFile(g) /\ \A q \in Request : job[q] # Idle => job[q].g # g
  /\ e = None \/ HasEmail(e) = {}
  /\ guardian' = [guardian EXCEPT ![g] = [email |-> e, user |-> None, onFile |-> TRUE]]
  /\ UNCHANGED <<links, member, invited, enabled, cut, job>>

\* The login stays when the e-mail changes.
UpdateGuardian(g, e) ==
  /\ ~MayOverlap => Calm
  /\ OnFile(g) /\ e # guardian[g].email /\ (e = None \/ HasEmail(e) = {})
  /\ guardian' = [guardian EXCEPT ![g].email = e]
  /\ UNCHANGED <<links, member, invited, enabled, cut, job>>

Remove(q, g) ==
  /\ Free(q) /\ OnFile(g) /\ LinksOf(g) = {} /\ Take(q, [at |-> "remove", g |-> g])
  /\ UNCHANGED <<guardian, links, member, invited, enabled, cut>>

\* Links cascade.
Delete(q) ==
  /\ job[q].at = "remove"
  /\ guardian' = [guardian EXCEPT ![job[q].g] = NoRow] /\ links' = links \ LinksOf(job[q].g)
  /\ Done(q) /\ UNCHANGED <<member, invited, enabled, cut>>

-----------------------------------------------------------------------------
(* Links.  The transaction demotes the primaries its first statement finds. *)

demoteOtherPrimaries(s, g) == {k \in links : k.student = s /\ k.guardian # g /\ k.primary}

Link(q, s, g, op, primary) ==
  /\ Free(q) /\ OnFile(g)
  /\ op = "link" <=> ~Linked(s, g)
  /\ Take(q, [at |-> op, s |-> s, g |-> g, primary |-> primary,
              seen |-> IF primary THEN demoteOtherPrimaries(s, g) ELSE {}])
  /\ UNCHANGED <<guardian, links, member, invited, enabled, cut>>

\* Gone, or linked by another request, by now.
LinkFails(q) ==
  /\ job[q].at \in {"link", "update"}
  /\ ~OnFile(job[q].g) \/ (job[q].at = "link") = Linked(job[q].s, job[q].g)
  /\ Done(q) /\ UNCHANGED <<guardian, links, member, invited, enabled, cut>>

WriteLink(q) ==
  /\ job[q].at \in {"link", "update"} /\ OnFile(job[q].g)
  /\ job[q].at = "link" <=> ~Linked(job[q].s, job[q].g)
  /\ LET own     == {k \in links : k.student = job[q].s /\ k.guardian = job[q].g}
         demoted == {k \in links : [k EXCEPT !.primary = TRUE] \in job[q].seen} IN
     links' = ((links \ own) \ demoted) \cup {[k EXCEPT !.primary = FALSE] : k \in demoted}
                \cup {[student |-> job[q].s, guardian |-> job[q].g, primary |-> job[q].primary]}
  /\ Done(q) /\ UNCHANGED <<guardian, member, invited, enabled, cut>>

Unlink(k) ==
  /\ ~MayOverlap => Calm
  /\ links' = links \ {k} /\ UNCHANGED <<guardian, member, invited, enabled, cut, job>>

-----------------------------------------------------------------------------
(* Logins.                                                                 *)

Active(u) == member[u].status = "ACTIVE"

\* A login used by another parent cannot become this one too.
NoOther(u, g) == SignsIn(u) \subseteq {g}

\* A member of staff keeps the login there is; others are invited.
Invited(u) ==
  IF Active(u) THEN member
  ELSE [member EXCEPT ![u] = [role |-> "parent", status |-> "INVITED"]]

Invite(q, g) ==
  LET u == guardian[g].email IN
  /\ Free(q) /\ OnFile(g) /\ u # None /\ enabled /\ LinksOf(g) # {} /\ NoOther(u, g)
  /\ member' = Invited(u)
  /\ invited' = IF Active(u) THEN invited ELSE invited \cup {u}
  /\ Take(q, [at |-> "attach", g |-> g, user |-> u])
  /\ UNCHANGED <<guardian, links, enabled, cut>>

\* The last write of invite and of linkStaffLogin.
Attach(q) ==
  /\ job[q].at = "attach"
  /\ guardian' = [guardian EXCEPT ![job[q].g].user = IF OnFile(job[q].g) THEN job[q].user ELSE @]
  /\ cut' = IF OnFile(job[q].g) THEN cut \ {job[q].user} ELSE cut
  /\ Done(q) /\ UNCHANGED <<links, member, invited, enabled>>

\* acceptInvitation asks for the token alone.
Accept(u) ==
  /\ ~MayOverlap => Calm
  /\ u \in invited /\ invited' = invited \ {u}
  /\ member' = [member EXCEPT ![u].status = "ACTIVE"]
  /\ UNCHANGED <<guardian, links, enabled, cut, job>>

\* A bug: the membership of whoever it is ends.
EndsAny(u) == member[u] # Nobody

\* Revoking a parent must never touch a staff login.
Ends(u) == member[u].role = "parent"

Revoke(q, g) ==
  LET u == guardian[g].user IN
  /\ Free(q) /\ OnFile(g) /\ u # None
  /\ member' = IF Ends(u) THEN [member EXCEPT ![u].status = "REVOKED"] ELSE member
  /\ Take(q, [at |-> "detach", g |-> g, user |-> u])
  /\ UNCHANGED <<guardian, links, invited, enabled, cut>>

Detach(q) ==
  /\ job[q].at = "detach"
  /\ guardian' = [guardian EXCEPT ![job[q].g].user = None]
  /\ cut' = cut \cup {job[q].user}
  /\ Done(q) /\ UNCHANGED <<links, member, invited, enabled>>

\* Staff come and go, and the school opens and closes the portal.
Staff(u) ==
  /\ ~MayOverlap => Calm
  /\ member' = [member EXCEPT ![u] = [role |-> "staff",
                  status |-> IF @.role = "staff" /\ @.status = "ACTIVE" THEN "REVOKED" ELSE "ACTIVE"]]
  /\ UNCHANGED <<guardian, links, invited, enabled, cut, job>>

Switch == enabled' = ~enabled /\ UNCHANGED <<guardian, links, member, invited, cut, job>>

Next ==
  \/ \E g \in Guardian, e \in User \cup {None} : CreateGuardian(g, e) \/ UpdateGuardian(g, e)
  \/ \E q \in Request, g \in Guardian : Remove(q, g) \/ Invite(q, g) \/ Revoke(q, g)
  \/ \E q \in Request, g \in Guardian, s \in Student, op \in {"link", "update"}, p \in BOOLEAN :
       Link(q, s, g, op, p)
  \/ \E q \in Request : Delete(q) \/ WriteLink(q) \/ LinkFails(q) \/ Attach(q) \/ Detach(q)
  \/ \E k \in links : Unlink(k)
  \/ \E u \in User : Accept(u) \/ Staff(u)
  \/ Switch

Spec == Init /\ [][Next]_vars

-----------------------------------------------------------------------------
(* The gate: PortalGuard, then guardian and assertWard of every child      *)
(* route, then the row the route is about.                                 *)

\* PortalGuard: a parent's role, or a guardian at this school.
Admitted(u) == Active(u) /\ (member[u].role = "parent" \/ SignsIn(u) # {})

\* assertWard
Wards(u) == {k.student : k \in {l \in links : l.guardian \in SignsIn(u)}}

\* What a login is answered, of all that is on file.
Answered(u) ==
  IF Admitted(u) /\ enabled THEN {i \in Invoice : childOf[i] \in Wards(u)} ELSE {}

-----------------------------------------------------------------------------
(***************************************************************************)
(* Types; a link's guardian is on file, and a pair is linked once.         *)
(***************************************************************************)
TypeOK ==
  /\ \A g \in Guardian : guardian[g].user \in User \cup {None}
  /\ \A k \in links : k.student \in Student /\ OnFile(k.guardian)
  /\ \A k, l \in links : k.student = l.student /\ k.guardian = l.guardian => k = l
  /\ \A g, h \in Guardian : guardian[g].email = guardian[h].email => g = h \/ guardian[g].email = None

(***************************************************************************)
(* "A student has at most one primary guardian - the person the school     *)
(* calls first".  Holds where no two requests overlap.                     *)
(* (demoteOtherPrimaries.)                                                 *)
(***************************************************************************)
OnePrimary ==
  \A k, l \in links : k.student = l.student /\ k.primary /\ l.primary => k = l

(***************************************************************************)
(* "Deleting a linked guardian would quietly strip students of their       *)
(* contact": a guardian goes only without children.  Holds where no two    *)
(* requests overlap.  (remove.)                                            *)
(***************************************************************************)
\* Of every step.
NobodyIsStripped ==
  \A g \in Guardian : OnFile(g) /\ ~guardian'[g].onFile => LinksOf(g) = {}

(***************************************************************************)
(* "A login already used by another parent in this school cannot become    *)
(* this one too: it would merge two families' portals."  Holds where no    *)
(* two requests overlap.  (invite.)                                        *)
(***************************************************************************)
OneFamilyPerLogin == \A u \in User : Cardinality(SignsIn(u)) <= 1

(***************************************************************************)
(* A login taken from a parent shows nothing, whatever invitation is still *)
(* about and whoever it belongs to, until the school gives it again.       *)
(* Holds where no two requests overlap.  (revoke, invite, PortalGuard.)    *)
(***************************************************************************)
RevokedStaysOut == \A u \in cut : Answered(u) = {}

(***************************************************************************)
(* "Revoking a parent must never touch a staff login", and neither does    *)
(* inviting one.  (revoke, invite, linkStaffLogin.)                        *)
(***************************************************************************)
\* Of every step.
StaffKeepTheirLogin ==
  \A u \in User : member[u].role = "staff" /\ Active(u) /\ job' # job => member'[u] = member[u]

(***************************************************************************)
(* Why they hold.  A pair is linked once.  One request at a time, what a   *)
(* request has checked is still so when it writes: whom it deletes has no  *)
(* children, whom it demotes is all who are called first, and the login it *)
(* gives to a parent or takes from one is of no other; so nobody signs in  *)
(* with a login that was cut.                                              *)
(***************************************************************************)
LinkRow == [student : Student, guardian : Guardian, primary : BOOLEAN]

JobOK(j) ==
  \/ j = Idle
  \/ j \in [at : {"remove"}, g : Guardian]
  \/ /\ j \in [at : {"link", "update"}, s : Student, g : Guardian, primary : BOOLEAN,
               seen : SUBSET LinkRow]
     /\ \A k \in j.seen : k.student = j.s /\ k.guardian # j.g
  \/ j \in [at : {"attach", "detach"}, g : Guardian, user : User]

Typed ==
  /\ guardian \in [Guardian -> [email : User \cup {None}, user : User \cup {None},
                                onFile : BOOLEAN]]
  /\ \A g \in Guardian : ~OnFile(g) => guardian[g] = NoRow
  /\ links \subseteq LinkRow /\ cut \subseteq User
  /\ member = [u \in User |-> member[u]]
  /\ job = [q \in Request |-> job[q]] /\ \A q \in Request : JobOK(job[q])
  /\ TypeOK

Checked(j) ==
  /\ j.at = "remove" => LinksOf(j.g) = {}
  /\ j.at \in {"link", "update"} =>
       j.seen = IF j.primary THEN demoteOtherPrimaries(j.s, j.g) ELSE {}
  /\ j.at = "attach" => OnFile(j.g) /\ NoOther(j.user, j.g)
  /\ j.at = "detach" => guardian[j.g].user = j.user

OneLogin == \A g, h \in Guardian :
  guardian[g].user = guardian[h].user => g = h \/ guardian[g].user = None

CutOut == \A u \in cut : SignsIn(u) = {}

AloneInv ==
  /\ \A p, q \in Request : job[p] # Idle /\ job[q] # Idle => p = q
  /\ \A q \in Request : Checked(job[q])
  /\ OnePrimary /\ OneLogin /\ CutOut
=============================================================================
