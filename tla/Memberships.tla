----------------------------- MODULE Memberships ----------------------------
(***************************************************************************)
(* Who belongs where: UsersService (invitation, acceptance, change of role *)
(* and status, revocation) and PlatformAdminService (grant, revoke).       *)
(*                                                                         *)
(* A person has one account and at most one membership in each school.     *)
(* Nothing here runs in a transaction that locks what it has read: each    *)
(* handler checks, then writes, statement by statement.                    *)
(***************************************************************************)
EXTENDS Naturals, FiniteSets

CONSTANTS
  Person, School, Request, None,
  MaxLinks,      \* invitations sent in a behaviour
  ScriptRoles,   \* what the operators' script is run for
  MayOverlap,    \* two requests at once
  MayStop        \* the process may stop between two statements

MembershipsAssumption ==
  /\ MaxLinks \in Nat /\ ScriptRoles \subseteq {"OWNER", "SUPPORT"}
  /\ {MayOverlap, MayStop} \subseteq BOOLEAN
  /\ IsFiniteSet(Request)

VARIABLES
  account,    \* account[p]: the status of the user
  member,     \* member[p][s]: status and role of a membership
  links,      \* the invitations sent, of all schools
  operator,   \* operator[p]: the row of a platform administrator
  req         \* req[r]: a request and what it read

vars == <<account, member, links, operator, req>>

Status   == {"none", "INVITED", "ACTIVE", "SUSPENDED", "REVOKED"}
Position == {"PROPRIETOR", "TEACHER"}
Stranger == [status |-> "none", role |-> "TEACHER"]
Idle     == [at |-> "none"]
Link     == [id : 1..MaxLinks, who : Person, school : School, live : BOOLEAN]

Proprietors(s) ==
  {p \in Person : member[p][s] = [status |-> "ACTIVE", role |-> "PROPRIETOR"]}

Owners == {p \in Person : operator[p] = "OWNER"}

\* Every school was registered by its proprietor, the first owner of the
\* platform was made by a script.
Init ==
  \E founder \in [School -> Person], first \in Person :
    /\ \A s \in School : founder[s] # first
    /\ account = [p \in Person |-> IF p = first \/ \E s \in School : founder[s] = p
                                   THEN "ACTIVE" ELSE "none"]
    /\ member = [p \in Person |-> [s \in School |->
                  IF founder[s] = p THEN [status |-> "ACTIVE", role |-> "PROPRIETOR"]
                                    ELSE Stranger]]
    /\ links = {}
    /\ operator = [p \in Person |-> IF p = first THEN "OWNER" ELSE "none"]
    /\ req = [r \in Request |-> Idle]

Begin(r, job) ==
  /\ req[r] = Idle
  /\ MayOverlap \/ \A q \in Request : req[q] = Idle
  /\ req' = [req EXCEPT ![r] = job]
  /\ UNCHANGED <<account, member, links, operator>>

Continue(r, at, next) == /\ req[r].at = at
                         /\ req' = [req EXCEPT ![r].at = next]
Finish(r, at) == req[r].at = at /\ req' = [req EXCEPT ![r] = Idle]

-----------------------------------------------------------------------------
(* Invitation.                                                             *)

\* The bound: so many invitations are sent or on their way.
Inviting(r) == req[r].at \in {"account", "upsert", "retire", "issue"}
MayInvite   == Cardinality(links) + Cardinality({r \in Request : Inviting(r)}) < MaxLinks

Invitation(p, s, role) == [at |-> "account", who |-> p, school |-> s, role |-> role]

\* A bug: whoever works here is invited again.
InviteAnyone(r, p, s, role) ==
  /\ MayInvite /\ operator[p] = "none" /\ member[p][s].status # "SUSPENDED"
  /\ Begin(r, Invitation(p, s, role))

Invite(r, p, s, role) ==
  /\ MayInvite
  /\ operator[p] = "none"
  /\ member[p][s].status \notin {"ACTIVE", "SUSPENDED"}
  /\ Begin(r, Invitation(p, s, role))

CreateUser(r) ==
  /\ Continue(r, "account", "upsert")
  /\ account' = [account EXCEPT ![req[r].who] =
                   IF @ = "none" THEN "PENDING_VERIFICATION" ELSE @]
  /\ UNCHANGED <<member, links, operator>>

Upsert(r) ==
  /\ Continue(r, "upsert", "retire")
  /\ member' = [member EXCEPT ![req[r].who][req[r].school] =
                  [status |-> "INVITED", role |-> req[r].role]]
  /\ UNCHANGED <<account, links, operator>>

Consumed(spent) == {IF l \in spent THEN [l EXCEPT !.live = FALSE] ELSE l : l \in links}

\* The links of this membership; then, in createVerificationToken, every
\* invitation of the person.
Retire(r) ==
  /\ Continue(r, "retire", "issue")
  /\ links' = Consumed({l \in links : l.who = req[r].who})
  /\ UNCHANGED <<account, member, operator>>

Issue(r) ==
  /\ Finish(r, "issue")
  /\ links' = links \cup {[id |-> Cardinality(links) + 1, who |-> req[r].who,
                           school |-> req[r].school, live |-> TRUE]}
  /\ UNCHANGED <<account, member, operator>>

\* acceptInvitation: the link is read, consumed, and the rest is one transaction.
AcceptRead(r, l) ==
  /\ l.live
  /\ Begin(r, [at |-> "consume", link |-> l])

AcceptConsume(r) ==
  /\ Continue(r, "consume", "accept")
  /\ links' = {IF l.id = req[r].link.id THEN [l EXCEPT !.live = FALSE] ELSE l : l \in links}
  /\ UNCHANGED <<account, member, operator>>

Accept(r) ==
  /\ Finish(r, "accept")
  /\ LET l == req[r].link IN
     /\ account' = [account EXCEPT ![l.who] = "ACTIVE"]
     /\ member' = [member EXCEPT ![l.who][l.school].status = "ACTIVE"]
  /\ UNCHANGED <<links, operator>>

-----------------------------------------------------------------------------
(* Change of role or status, revocation.                                   *)

\* A bug: a school may be left without its last proprietor.
NotLastProprietorNever(p, s) == TRUE

\* assertNotLastProprietor
NotLastProprietor(p, s) ==
  member[p][s].role = "PROPRIETOR" => Cardinality(Proprietors(s)) > 1

\* update: nobody changes their own role; by is who asks.
Update(r, by, p, s, role, status) ==
  /\ member[by][s].status = "ACTIVE" /\ member[p][s].status # "none"
  /\ role \notin {None, member[p][s].role} => by # p /\ NotLastProprietor(p, s)
  /\ status = "SUSPENDED" => NotLastProprietor(p, s)
  /\ Begin(r, [at |-> "update", who |-> p, school |-> s, role |-> role, status |-> status])

UpdateWrite(r) ==
  /\ Finish(r, "update")
  /\ member' = [member EXCEPT ![req[r].who][req[r].school] =
                  [status |-> IF req[r].status = None THEN @.status ELSE req[r].status,
                   role |-> IF req[r].role = None THEN @.role ELSE req[r].role]]
  /\ UNCHANGED <<account, links, operator>>

RevokeAccess(r, p, s) ==
  /\ member[p][s].status # "none" /\ NotLastProprietor(p, s)
  /\ Begin(r, [at |-> "revoke", who |-> p, school |-> s])

RevokeWrite(r) ==
  /\ Finish(r, "revoke")
  /\ member' = [member EXCEPT ![req[r].who][req[r].school].status = "REVOKED"]
  /\ UNCHANGED <<account, links, operator>>

-----------------------------------------------------------------------------
(* The platform's own operators.                                           *)

Grant(r, p, role) ==
  /\ account[p] # "none" /\ operator[p] = "none"
  /\ \A s \in School : member[p][s].status = "none"
  /\ Begin(r, [at |-> "grant", who |-> p, role |-> role])

GrantWrite(r) ==
  /\ Finish(r, "grant")
  /\ operator' = [operator EXCEPT ![req[r].who] = IF @ = "none" THEN req[r].role ELSE @]
  /\ UNCHANGED <<account, member, links>>

\* The guard has read the row of by; the handler then reads that of p.
RevokeOperator(r, by, p) ==
  /\ by \in Owners /\ by # p /\ operator[p] # "none"
  /\ Begin(r, [at |-> "dismiss", who |-> p])

Dismiss(r) ==
  /\ Finish(r, "dismiss")
  /\ operator' = [operator EXCEPT ![req[r].who] = "disabled"]
  /\ UNCHANGED <<account, member, links>>

\* grant-platform-access: makes the account, promotes, demotes or re-enables.
Script(p, role) ==
  /\ MayOverlap \/ \A q \in Request : req[q] = Idle
  /\ \A s \in School : member[p][s].status = "none"
  /\ account' = [account EXCEPT ![p] = IF @ = "none" THEN "ACTIVE" ELSE @]
  /\ operator' = [operator EXCEPT ![p] = role]
  /\ UNCHANGED <<member, links, req>>

Stop(r) ==
  /\ MayStop /\ req[r] # Idle
  /\ req' = [req EXCEPT ![r] = Idle]
  /\ UNCHANGED <<account, member, links, operator>>

-----------------------------------------------------------------------------
Ask(r) ==
  \/ \E p \in Person, s \in School, role \in Position : Invite(r, p, s, role)
  \/ \E l \in links : AcceptRead(r, l)
  \/ \E by, p \in Person, s \in School, role \in Position \cup {None},
        status \in {"ACTIVE", "SUSPENDED", None} :
       Update(r, by, p, s, role, status)
  \/ \E p \in Person, s \in School : RevokeAccess(r, p, s)
  \/ \E p \in Person, role \in {"OWNER", "SUPPORT"} : Grant(r, p, role)
  \/ \E by, p \in Person : RevokeOperator(r, by, p)

Proceed(r) ==
  \/ CreateUser(r) \/ Upsert(r) \/ Retire(r) \/ Issue(r) \/ AcceptConsume(r) \/ Accept(r)
  \/ UpdateWrite(r) \/ RevokeWrite(r) \/ GrantWrite(r) \/ Dismiss(r)

Next == \/ \E r \in Request : Ask(r) \/ Proceed(r) \/ Stop(r)
        \/ \E p \in Person, role \in ScriptRoles : Script(p, role)

Spec == Init /\ [][Next]_vars

-----------------------------------------------------------------------------
(***************************************************************************)
(* Types, and what an account must be behind a membership and a role: who  *)
(* is a member or an operator has an account, and links go to members.     *)
(***************************************************************************)
TypeOK ==
  /\ account \in [Person -> {"none", "PENDING_VERIFICATION", "ACTIVE"}]
  /\ member \in [Person -> [School -> [status : Status, role : Position]]]
  /\ links \subseteq Link
  /\ operator \in [Person -> {"none", "OWNER", "SUPPORT", "disabled"}]
  /\ \A p \in Person : account[p] = "none" =>
       operator[p] = "none" /\ \A s \in School : member[p][s] = Stranger
  /\ \A l \in links : member[l.who][l.school].status # "none"

(***************************************************************************)
(* "A school must always keep at least one active proprietor."             *)
(* (assertNotLastProprietor.)  Holds one request at a time; two            *)
(* revocations at once each count two.                                     *)
(***************************************************************************)
KeepsAProprietor == \A s \in School : Proprietors(s) # {}

(***************************************************************************)
(* "Only live access blocks a new invitation": who has accepted does not   *)
(* become an invitee again.  (createInvitation.)  Holds one request at a   *)
(* time; an acceptance between its check and its upsert is undone.         *)
(***************************************************************************)
\* Of every step.
AcceptanceStands ==
  \A p \in Person, s \in School :
    member[p][s].status = "ACTIVE" => member'[p][s].status # "INVITED"

(***************************************************************************)
(* "Only the newest link works": of a membership, one link is live at      *)
(* most.  (createInvitation.)  Two invitations at once both issue.         *)
(***************************************************************************)
OneLiveLink ==
  \A k, l \in links : k.live /\ l.live /\ k.who = l.who /\ k.school = l.school => k = l

(***************************************************************************)
(* "The same person may hold a pending invitation from another school": a  *)
(* link is spent by its acceptance or by an invitation to the same         *)
(* membership.  Does not hold: issuing a token spends all of its type.     *)
(***************************************************************************)
\* Of every step.
InvitationsStandApart ==
  \A r \in Request : req[r].at = "retire" /\ req'[r].at = "issue" =>
    \A l \in links \ links' : l.school = req[r].school

(***************************************************************************)
(* "Platform access cannot be granted to a user who belongs to a school,   *)
(* and a school cannot invite an email that holds platform access."  Holds *)
(* one request at a time; a grant between the check of an invitation and   *)
(* its upsert makes one person both.  (grant, assertNotPlatformEmail.)     *)
(***************************************************************************)
OperatorsStandApart ==
  \A p \in Person, s \in School : operator[p] # "none" => member[p][s].status = "none"

(***************************************************************************)
(* "An owner can remove another owner but never themselves, which is what  *)
(* makes lockout impossible": somebody may always grant access.  Holds one *)
(* request at a time; two owners may remove each other, and the operators' *)
(* script may demote the last one.  (revoke.)                              *)
(***************************************************************************)
AnOwnerRemains == Owners # {}

(***************************************************************************)
(* Why they hold.  Of a request under way, whoever it is about has an      *)
(* account, and a membership once the invitation is written; so many       *)
(* invitations are sent or on their way.  One at a time, what a request    *)
(* has checked is still so, and an invitation about to be sent is the only *)
(* one of its person.                                                      *)
(***************************************************************************)
HasAccount(p)   == account[p] # "none"
IsMember(p, s)  == member[p][s].status # "none"
Live(p)         == {l \in links : l.live /\ l.who = p}

JobOK(j) ==
  \/ j = Idle
  \/ /\ j \in [at : {"account", "upsert", "retire", "issue"}, who : Person, school : School,
                role : Position]
     /\ j.at # "account" => HasAccount(j.who)
     /\ j.at \in {"retire", "issue"} => IsMember(j.who, j.school)
  \/ /\ j \in [at : {"consume", "accept"}, link : Link]
     /\ IsMember(j.link.who, j.link.school)
  \/ /\ j \in [at : {"update"}, who : Person, school : School, role : Position \cup {None},
                status : {"ACTIVE", "SUSPENDED", None}]
     /\ IsMember(j.who, j.school)
  \/ /\ j \in [at : {"revoke"}, who : Person, school : School]
     /\ IsMember(j.who, j.school)
  \/ j \in [at : {"grant"}, who : Person, role : {"OWNER", "SUPPORT"}] /\ HasAccount(j.who)
  \/ j \in [at : {"dismiss"}, who : Person] /\ HasAccount(j.who)

Typed ==
  /\ TypeOK
  /\ req = [r \in Request |-> req[r]] /\ \A r \in Request : JobOK(req[r])
  /\ IsFiniteSet(links)
  /\ Cardinality(links) + Cardinality({r \in Request : Inviting(r)}) <= MaxLinks

Checked(j) ==
  /\ j.at \in {"account", "upsert"} =>
       operator[j.who] = "none" /\ member[j.who][j.school].status \notin {"ACTIVE", "SUSPENDED"}
  /\ j.at = "issue" => Live(j.who) = {}
  /\ j.at = "update" =>
       /\ j.role \notin {None, member[j.who][j.school].role} => NotLastProprietor(j.who, j.school)
       /\ j.status = "SUSPENDED" => NotLastProprietor(j.who, j.school)
  /\ j.at = "revoke" => NotLastProprietor(j.who, j.school)
  /\ j.at = "grant" => \A s \in School : ~IsMember(j.who, s)
  /\ j.at = "dismiss" => operator[j.who] # "none" /\ Owners \ {j.who} # {}

AloneInv ==
  /\ \A r, q \in Request : req[r] # Idle /\ req[q] # Idle => r = q
  /\ \A r \in Request : Checked(req[r])

OnlyNewestIsLive == \A k, l \in links : k.live /\ l.live /\ k.who = l.who => k = l
=============================================================================
