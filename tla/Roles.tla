------------------------------- MODULE Roles --------------------------------
(***************************************************************************)
(* Roles of one school, the permissions they bundle and who holds them:    *)
(* RolesService, and the role change of UsersService.                      *)
(*                                                                         *)
(* A request reads and checks, then writes; between the two, others run.   *)
(* setPermissions deletes and inserts in one transaction, whose delete     *)
(* only reaches the rows committed before it began.                        *)
(***************************************************************************)
EXTENDS Naturals, FiniteSets

CONSTANTS
  Role, Member, Perm, Name, None,
  Request, Actor,      \* the members who make requests
  Proprietor,          \* the fixed role
  Admin, Manager,      \* the permissions roles.update and users.update
  Custom,              \* roles a school made or may make itself
  First,               \* what each role bundles to begin with, if it exists
  HolderOf, NameOf, SlugOf,
  MayOverlap           \* one request may begin while another is at work

RolesAssumption ==
  /\ Custom \subseteq Role \ {Proprietor} /\ Actor \subseteq Member
  /\ {Admin, Manager} \subseteq Perm /\ MayOverlap \in BOOLEAN
  /\ HolderOf \in [Member -> DOMAIN First]
  /\ DOMAIN First \subseteq Role /\ \A r \in DOMAIN First : First[r] \subseteq Perm
  /\ Proprietor \in DOMAIN First /\ First[Proprietor] = Perm
  /\ None \notin Name /\ \A r \in DOMAIN First : NameOf[r] \in Name
  /\ \A r, o \in DOMAIN First : NameOf[r] = NameOf[o] => r = o

VARIABLES
  perms,   \* role_permissions, committed
  name,    \* the name of a role, None when there is no such role
  slug,    \* the base its slug was made of, and the suffix
  roleOf,  \* memberships
  job,     \* what each request has read
  asked    \* the set last asked for, by whom that was done

vars == <<perms, name, slug, roleOf, job, asked>>

Idle    == [at |-> "none"]
Held(a) == perms[roleOf[a]]
Exists(r) == name[r] # None

Init ==
  /\ perms = [r \in Role |-> IF r \in DOMAIN First THEN First[r] ELSE {}]
  /\ name = [r \in Role |-> IF r \in DOMAIN First THEN NameOf[r] ELSE None]
  /\ slug = [r \in Role |-> IF r \in DOMAIN First THEN <<SlugOf[NameOf[r]], 1>> ELSE <<None, 0>>]
  /\ roleOf = HolderOf
  /\ job = [q \in Request |-> Idle]
  /\ asked = perms

-----------------------------------------------------------------------------
\* The reads of the handler.
Begin(q, record) ==
  /\ job[q] = Idle
  /\ MayOverlap \/ \A p \in Request : job[p] = Idle
  /\ job' = [job EXCEPT ![q] = record]
  /\ UNCHANGED <<perms, name, slug, roleOf, asked>>

\* The write, or the error of a constraint that no longer holds.
Finish(q) == job' = [job EXCEPT ![q] = Idle]
Refused(q) == Finish(q) /\ UNCHANGED <<perms, name, slug, roleOf, asked>>

\* A bug: what is copied is not compared with what the caller holds.
MayGrantAny(a, keys) == keys \subseteq Perm

MayGrant(a, keys) == keys \subseteq Held(a)

NameFree(n) == \A r \in Role : name[r] # n

\* The first candidate nobody has.
FreeSlug(n) ==
  LET taken == {slug[r][2] : r \in {o \in Role : slug[o][1] = SlugOf[n]}} IN
  <<SlugOf[n], CHOOSE k \in 1..(Cardinality(Role) + 1) : k \notin taken /\ 1..(k - 1) \subseteq taken>>

-----------------------------------------------------------------------------
Create(q, a, r, n, keys) ==
  /\ r \in Custom /\ ~Exists(r) /\ NameFree(n)
  /\ MayGrant(a, keys)
  /\ Begin(q, [at |-> "create", role |-> r, name |-> n, slug |-> FreeSlug(n), keys |-> keys])

\* copyFromRoleId
Copy(q, a, r, n, c) == Exists(c) /\ Create(q, a, r, n, perms[c])

CreateWrite(q) ==
  /\ job[q].at = "create"
  /\ LET r == job[q].role
         Clash == Exists(r) \/ \E o \in Role : slug[o] = job[q].slug IN
     \/ Clash /\ Refused(q)
     \/ /\ ~Clash
        /\ perms' = [perms EXCEPT ![r] = job[q].keys]
        /\ asked' = [asked EXCEPT ![r] = job[q].keys]
        /\ name' = [name EXCEPT ![r] = job[q].name]
        /\ slug' = [slug EXCEPT ![r] = job[q].slug]
        /\ Finish(q) /\ UNCHANGED roleOf

Rename(q, r, n) ==
  /\ Exists(r) /\ r \in Custom /\ n # name[r] /\ NameFree(n)
  /\ Begin(q, [at |-> "rename", role |-> r, name |-> n])

RenameWrite(q) ==
  /\ job[q].at = "rename"
  /\ IF Exists(job[q].role)
     THEN /\ name' = [name EXCEPT ![job[q].role] = job[q].name]
          /\ Finish(q) /\ UNCHANGED <<perms, slug, roleOf, asked>>
     ELSE Refused(q)

-----------------------------------------------------------------------------
SetPermissions(q, a, r, keys) ==
  /\ Exists(r) /\ r # Proprietor /\ MayGrant(a, keys)
  /\ Begin(q, [at |-> "set", actor |-> a, role |-> r, keys |-> keys, spared |-> {}])

\* deleteMany begins: it sees what is committed now, and nothing later.
Clear(q) ==
  /\ job[q].at = "set"
  /\ job' = [job EXCEPT ![q].at = "clear"]
  /\ UNCHANGED <<perms, name, slug, roleOf, asked>>

\* Transactions that have begun to delete will not see the rows added now.
Spare(q, r, keys) ==
  [p \in Request |->
     IF p = q THEN Idle
     ELSE IF job[p].at = "clear" /\ job[p].role = r
          THEN [job[p] EXCEPT !.spared = @ \cup keys] ELSE job[p]]

\* createMany and the commit; the primary key refuses a row that is there.
Replace(q) ==
  /\ job[q].at = "clear"
  /\ LET r == job[q].role
         left == perms[r] \cap job[q].spared IN
     IF Exists(r) /\ left \cap job[q].keys = {}
     THEN /\ perms' = [perms EXCEPT ![r] = left \cup job[q].keys]
          /\ asked' = [asked EXCEPT ![r] = job[q].keys]
          /\ job' = Spare(q, r, job[q].keys)
          /\ UNCHANGED <<name, slug, roleOf>>
     ELSE Refused(q)

Remove(q, r) ==
  /\ Exists(r) /\ r \in Custom
  /\ \A m \in Member : roleOf[m] # r
  /\ Begin(q, [at |-> "remove", role |-> r])

\* A bug: the permissions of a role outlive it.
RemoveKeepsRows(q) ==
  /\ job[q].at = "remove"
  /\ name' = [name EXCEPT ![job[q].role] = None] /\ slug' = [slug EXCEPT ![job[q].role] = <<None, 0>>]
  /\ Finish(q) /\ UNCHANGED <<perms, roleOf, asked>>

RemoveWrite(q) ==
  /\ job[q].at = "remove"
  /\ LET r == job[q].role IN
     IF Exists(r) /\ \A m \in Member : roleOf[m] # r
     THEN /\ perms' = [perms EXCEPT ![r] = {}] /\ asked' = [asked EXCEPT ![r] = {}]
          /\ name' = [name EXCEPT ![r] = None] /\ slug' = [slug EXCEPT ![r] = <<None, 0>>]
          /\ Finish(q) /\ UNCHANGED roleOf
     ELSE Refused(q)

-----------------------------------------------------------------------------
\* Everyone the query finds, none of whom may be the caller.
Reassign(q, a, from, to) ==
  /\ Exists(from) /\ Exists(to) /\ from # to /\ from # Proprietor
  /\ roleOf[a] # from /\ MayGrant(a, perms[to])
  /\ Begin(q, [at |-> "move", actor |-> a, from |-> from, to |-> to])

\* UsersService.update, of a role.
Assign(q, a, m, to) ==
  /\ Exists(to) /\ m # a /\ MayGrant(a, perms[to])
  /\ roleOf[m] = Proprietor => \E o \in Member \ {m} : roleOf[o] = Proprietor
  /\ Begin(q, [at |-> "assign", member |-> m, to |-> to])

Moved(q) ==
  IF job[q].at = "move" THEN {m \in Member : roleOf[m] = job[q].from} ELSE {job[q].member}

\* updateMany moves whoever is there by now.
MoveWrite(q) ==
  /\ job[q].at \in {"move", "assign"}
  /\ IF Exists(job[q].to)
     THEN /\ roleOf' = [m \in Member |-> IF m \in Moved(q) THEN job[q].to ELSE roleOf[m]]
          /\ Finish(q) /\ UNCHANGED <<perms, name, slug, asked>>
     ELSE Refused(q)

\* RequirePermissions, of RolesController and of UsersController.
Ask(q, a) ==
  \/ /\ Admin \in Held(a)
     /\ \/ \E r \in Role, n \in Name : \/ \E keys \in SUBSET Perm : Create(q, a, r, n, keys)
                                       \/ \E c \in Role : Copy(q, a, r, n, c)
                                       \/ Rename(q, r, n)
        \/ \E r \in Role, keys \in SUBSET Perm : SetPermissions(q, a, r, keys)
        \/ \E r \in Role : Remove(q, r)
        \/ \E from, to \in Role : Reassign(q, a, from, to)
  \/ Manager \in Held(a) /\ \E m \in Member, to \in Role : Assign(q, a, m, to)

Proceed(q) ==
  CreateWrite(q) \/ RenameWrite(q) \/ Clear(q) \/ Replace(q) \/ RemoveWrite(q) \/ MoveWrite(q)

Next == \E q \in Request : Proceed(q) \/ \E a \in Actor : Ask(q, a)

Spec == Init /\ [][Next]_vars

-----------------------------------------------------------------------------
(***************************************************************************)
(* Types, and the references of the schema: whoever has a role has one     *)
(* that exists, though both sides check before they write.  (remove,       *)
(* reassignMembers.)                                                       *)
(***************************************************************************)
TypeOK ==
  /\ perms \in [Role -> SUBSET Perm] /\ asked \in [Role -> SUBSET Perm]
  /\ name \in [Role -> Name \cup {None}]
  /\ roleOf \in [Member -> Role]
  /\ \A m \in Member : Exists(roleOf[m])
  /\ \A r \in Role : ~Exists(r) => perms[r] = {}

(***************************************************************************)
(* "You cannot grant a permission you do not hold - not to a new role, not *)
(* to an existing one, and not by assigning a role to somebody": whatever  *)
(* a group of administrators does, together and over many requests, it     *)
(* ends with nothing that none of them had.  (assertMayGrant,              *)
(* assertMayAssign.)                                                       *)
(***************************************************************************)
Pool == UNION {First[HolderOf[a]] : a \in Actor}

NoEscalation == \A a \in Actor : Held(a) \subseteq Pool

(***************************************************************************)
(* The same rule at the moment of the write: what a replacement adds to a  *)
(* role is held by whoever asked for it.  Holds one request at a time.     *)
(***************************************************************************)
\* Of every step.
GrantsOnlyHeld ==
  \A q \in Request : job[q].at = "clear" /\ job'[q] = Idle =>
    perms'[job[q].role] \ perms[job[q].role] \subseteq Held(job[q].actor)

(***************************************************************************)
(* "Replaces a role's permissions wholesale": a role bundles exactly what  *)
(* the last request that was carried out asked for.  (setPermissions.)     *)
(***************************************************************************)
Wholesale == perms = asked

(***************************************************************************)
(* No two roles share a name.  (assertNameFree; only the slug, which a     *)
(* rename leaves alone, has a unique index.)                               *)
(***************************************************************************)
NamesApart ==
  \A r, o \in Role : Exists(r) /\ name[r] = name[o] => r = o

(***************************************************************************)
(* "Nobody changes their own role", by moving everyone who has it.         *)
(* (reassignMembers.)                                                      *)
(***************************************************************************)
\* Of every step.
NobodyMovesThemselves ==
  \A q \in Request : job[q].at = "move" /\ job'[q] = Idle =>
    roleOf'[job[q].actor] = roleOf[job[q].actor]

(***************************************************************************)
(* Why they hold.  What a request may give is bounded when it is checked   *)
(* by what its caller holds, and no role that is within the bound ever     *)
(* leaves it.  One at a time, what was checked still holds at the write.   *)
(***************************************************************************)
JobOK(j) ==
  \/ j = Idle
  \/ /\ j.at = "create" /\ j.role \in Custom /\ j.name \in Name /\ j.keys \subseteq Perm
  \/ j \in [at : {"rename"}, role : Role, name : Name]
  \/ j \in [at : {"set", "clear"}, actor : Actor, role : Role,
            keys : SUBSET Perm, spared : SUBSET Perm]
  \/ j \in [at : {"remove"}, role : Role]
  \/ j \in [at : {"move"}, actor : Actor, from : Role, to : Role]
  \/ j \in [at : {"assign"}, member : Member, to : Role]

Typed ==
  /\ TypeOK
  /\ job = [q \in Request |-> job[q]] /\ \A q \in Request : JobOK(job[q])

\* What a request is about to give is in the pool.
Within(j) ==
  /\ j.at \in {"create", "set", "clear"} => j.keys \subseteq Pool
  /\ j.at \in {"move", "assign"} => perms[j.to] \subseteq Pool

Contained == NoEscalation /\ \A q \in Request : Within(job[q])

\* What a request has checked is still so.
Current(j) ==
  /\ j.at \in {"set", "clear"} => j.keys \subseteq Held(j.actor) /\ j.spared = {}
  /\ j.at = "move" => roleOf[j.actor] # j.from
  /\ j.at \in {"create", "rename"} => NameFree(j.name)

AloneInv ==
  /\ \A q, p \in Request : job[q] # Idle /\ job[p] # Idle => q = p
  /\ \A q \in Request : Current(job[q])
=============================================================================
