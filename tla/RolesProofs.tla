----------------------------- MODULE RolesProofs -----------------------------
(***************************************************************************)
(* Proofs about roles, for any number of roles, members, permissions and   *)
(* requests.  First what is never given, however requests overlap; then    *)
(* what holds besides while they come one at a time.                       *)
(***************************************************************************)
EXTENDS Roles, TLAPS

\* What a request is, by where it is.
LEMMA JobIs ==
  ASSUME NEW j, JobOK(j), RolesAssumption
  PROVE  /\ j.at \in {"none", "create", "rename", "set", "clear", "remove", "move", "assign"}
         /\ j.at = "none" <=> j = Idle
         /\ j.at \in {"create", "rename", "set", "clear", "remove"} => j.role \in Role
         /\ j.at \in {"create", "rename"} => j.name \in Name
         /\ j.at \in {"create", "set", "clear"} => j.keys \subseteq Perm
         /\ j.at \in {"set", "clear", "move"} => j.actor \in Actor
         /\ j.at \in {"set", "clear"} =>
              j \in [at : {"set", "clear"}, actor : Actor, role : Role,
                     keys : SUBSET Perm, spared : SUBSET Perm]
         /\ j.at = "move" => j.from \in Role
         /\ j.at = "assign" => j.member \in Member
         /\ j.at \in {"move", "assign"} => j.to \in Role
BY DEF JobOK, Idle, RolesAssumption

\* One request moves on, the others stay where they are.
LEMMA OneMoves ==
  ASSUME Typed, NEW q \in Request, NEW j, job' = [job EXCEPT ![q] = j]
  PROVE  job'[q] = j /\ \A p \in Request \ {q} : job'[p] = job[p]
BY DEF Typed

\* A role's row is inserted, or all of it goes.
LEMMA TablesStay ==
  ASSUME RolesAssumption, TypeOK, NEW r \in Role, NEW keys \in SUBSET Perm,
         NEW n \in Name \cup {None}, n = None => keys = {} /\ \A m \in Member : roleOf[m] # r,
         perms' = [perms EXCEPT ![r] = keys], asked' = [asked EXCEPT ![r] = keys],
         name' = [name EXCEPT ![r] = n], roleOf' = roleOf
  PROVE  TypeOK'
<1>1. name'[r] = n /\ \A o \in Role \ {r} : name'[o] = name[o] /\ perms'[o] = perms[o]
  BY DEF TypeOK
<1>2. perms'[r] = keys
  BY DEF TypeOK
<1>3. /\ perms' \in [Role -> SUBSET Perm] /\ asked' \in [Role -> SUBSET Perm]
      /\ name' \in [Role -> Name \cup {None}] /\ roleOf' \in [Member -> Role]
  BY DEF TypeOK
<1>4. \A m \in Member : name'[roleOf[m]] # None
  BY <1>1 DEF TypeOK, Exists, RolesAssumption
<1>5. \A o \in Role : name'[o] = None => perms'[o] = {}
  BY <1>1, <1>2 DEF TypeOK, Exists
<1> QED
  BY <1>3, <1>4, <1>5 DEF TypeOK, Exists

\* Nothing that is in the pool leaves it, and nobody is given a role outside.
LEMMA PoolHolds ==
  ASSUME Typed, Contained, RolesAssumption, Typed',
         \A r \in Role : perms[r] \subseteq Pool => perms'[r] \subseteq Pool,
         \A a \in Actor : roleOf'[a] = roleOf[a] \/ perms[roleOf'[a]] \subseteq Pool,
         \A p \in Request : Within(job'[p])
  PROVE  Contained'
<1>1. ASSUME NEW a \in Actor PROVE perms'[roleOf'[a]] \subseteq Pool
  <2>1. roleOf'[a] \in Role
    BY DEF Typed, TypeOK, RolesAssumption
  <2>2. perms[roleOf'[a]] \subseteq Pool
    BY DEF Contained, NoEscalation, Held
  <2> QED
    BY <2>1, <2>2
<1>2. ASSUME NEW p \in Request
      PROVE  /\ job'[p].at \in {"create", "set", "clear"} => job'[p].keys \subseteq Pool
             /\ job'[p].at \in {"move", "assign"} => perms'[job'[p].to] \subseteq Pool
  <2>1. JobOK(job'[p])
    BY DEF Typed, JobOK
  <2>2. job'[p].at \in {"move", "assign"} => job'[p].to \in Role
    BY <2>1, JobIs
  <2> QED
    BY <2>2 DEF Within
<1>3. Pool' = Pool
  BY DEF Pool
<1> QED
  BY <1>1, <1>2, <1>3 DEF Contained, NoEscalation, Held, Within

-----------------------------------------------------------------------------
(* What a request that begins has checked. *)

\* MayGrant and the look-ups of the handlers (assertMayGrant, assertNameFree).
LEMMA AskBegins ==
  ASSUME RolesAssumption, Typed, Contained, NEW q \in Request, NEW a \in Actor, Ask(q, a)
  PROVE  \E j : /\ Begin(q, j) /\ j.at \notin {"none", "clear"}
                /\ JobOK(j) /\ Within(j) /\ Current(j)
<1> DEFINE Goal == \E j : /\ Begin(q, j) /\ j.at \notin {"none", "clear"}
                          /\ JobOK(j) /\ Within(j) /\ Current(j)
<1>1. /\ Held(a) \subseteq Pool /\ Held(a) \subseteq Perm /\ a \in Member /\ roleOf[a] \in Role
      /\ Custom \subseteq Role /\ \A r \in Role : perms[r] \subseteq Perm
  BY DEF Contained, NoEscalation, Typed, TypeOK, Held, RolesAssumption
<1>2. ASSUME NEW r \in Role, NEW n \in Name, NEW keys, Create(q, a, r, n, keys) PROVE Goal
  <2> DEFINE j == [at |-> "create", role |-> r, name |-> n, slug |-> FreeSlug(n), keys |-> keys]
  <2>1. Begin(q, j) /\ r \in Custom /\ NameFree(n) /\ keys \subseteq Held(a)
    BY <1>2 DEF Create, MayGrant
  <2>2. j.at = "create" /\ j.role = r /\ j.name = n /\ j.keys = keys
    OBVIOUS
  <2> HIDE DEF j
  <2>3. JobOK(j) /\ Within(j) /\ Current(j)
    BY <1>1, <2>1, <2>2 DEF JobOK, Within, Current
  <2> QED
    BY <2>1, <2>2, <2>3
<1>3. ASSUME NEW r \in Role, NEW n \in Name, NEW c \in Role, Copy(q, a, r, n, c) PROVE Goal
  BY <1>2, <1>3 DEF Copy
<1>4. ASSUME NEW r \in Role, NEW n \in Name, Rename(q, r, n) PROVE Goal
  <2> DEFINE j == [at |-> "rename", role |-> r, name |-> n]
  <2>1. Begin(q, j) /\ NameFree(n)
    BY <1>4 DEF Rename
  <2>2. JobOK(j) /\ j.at = "rename" /\ j.name = n
    BY DEF JobOK
  <2> HIDE DEF j
  <2>3. Within(j) /\ Current(j)
    BY <2>1, <2>2 DEF Within, Current
  <2> QED
    BY <2>1, <2>2, <2>3
<1>5. ASSUME NEW r \in Role, NEW keys \in SUBSET Perm, SetPermissions(q, a, r, keys) PROVE Goal
  <2> DEFINE j == [at |-> "set", actor |-> a, role |-> r, keys |-> keys, spared |-> {}]
  <2>1. Begin(q, j) /\ keys \subseteq Held(a)
    BY <1>5 DEF SetPermissions, MayGrant
  <2>2. JobOK(j) /\ j.at = "set" /\ j.actor = a /\ j.keys = keys /\ j.spared = {}
    BY DEF JobOK
  <2> HIDE DEF j
  <2>3. Within(j) /\ Current(j)
    BY <1>1, <2>1, <2>2 DEF Within, Current
  <2> QED
    BY <2>1, <2>2, <2>3
<1>6. ASSUME NEW r \in Role, Remove(q, r) PROVE Goal
  <2> DEFINE j == [at |-> "remove", role |-> r]
  <2>1. Begin(q, j) /\ JobOK(j) /\ j.at = "remove"
    BY <1>6 DEF Remove, JobOK
  <2> HIDE DEF j
  <2>2. Within(j) /\ Current(j)
    BY <2>1 DEF Within, Current
  <2> QED
    BY <2>1, <2>2
<1>7. ASSUME NEW from \in Role, NEW to \in Role, Reassign(q, a, from, to) PROVE Goal
  <2> DEFINE j == [at |-> "move", actor |-> a, from |-> from, to |-> to]
  <2>1. Begin(q, j) /\ roleOf[a] # from /\ perms[to] \subseteq Held(a)
    BY <1>7 DEF Reassign, MayGrant
  <2>2. JobOK(j) /\ j.at = "move" /\ j.actor = a /\ j.from = from /\ j.to = to
    BY DEF JobOK
  <2> HIDE DEF j
  <2>3. Within(j) /\ Current(j)
    BY <1>1, <2>1, <2>2 DEF Within, Current
  <2> QED
    BY <2>1, <2>2, <2>3
<1>8. ASSUME NEW m \in Member, NEW to \in Role, Assign(q, a, m, to) PROVE Goal
  <2> DEFINE j == [at |-> "assign", member |-> m, to |-> to]
  <2>1. Begin(q, j) /\ perms[to] \subseteq Held(a)
    BY <1>8 DEF Assign, MayGrant
  <2>2. JobOK(j) /\ j.at = "assign" /\ j.to = to
    BY DEF JobOK
  <2> HIDE DEF j
  <2>3. Within(j) /\ Current(j)
    BY <1>1, <2>1, <2>2 DEF Within, Current
  <2> QED
    BY <2>1, <2>2, <2>3
<1> QED
  BY <1>2, <1>3, <1>4, <1>5, <1>6, <1>7, <1>8 DEF Ask

-----------------------------------------------------------------------------
(* What every write keeps, however requests overlap. *)

Kept == Typed /\ Contained

\* Of a step after which one request is elsewhere, and which changes no row.
LEMMA NothingWritten ==
  ASSUME RolesAssumption, Kept, NEW q \in Request, NEW j, JobOK(j), Within(j),
         job' = [job EXCEPT ![q] = j], UNCHANGED <<perms, name, roleOf, asked>>
  PROVE  Kept'
<1>1. job'[q] = j /\ \A p \in Request \ {q} : job'[p] = job[p]
  BY OneMoves DEF Kept
<1>2. TypeOK'
  BY DEF Kept, Typed, TypeOK, Exists
<1>3. Typed'
  BY <1>1, <1>2 DEF Kept, Typed, JobOK
<1>4. Contained'
  BY <1>1, <1>3, PoolHolds DEF Kept, Contained
<1> QED
  BY <1>3, <1>4 DEF Kept

LEMMA IdleIsKept ==
  JobOK(Idle) /\ Within(Idle) /\ Current(Idle)
BY DEF JobOK, Within, Current, Idle

LEMMA RefusedKeeps ==
  ASSUME RolesAssumption, Kept, NEW q \in Request, Refused(q)
  PROVE  Kept'
BY NothingWritten, IdleIsKept DEF Refused, Finish

\* A role is created, or removed (the writes of create and remove).
LEMMA RowKeeps ==
  ASSUME RolesAssumption, Kept, NEW q \in Request, NEW r \in Role, NEW keys \in SUBSET Perm,
         NEW n \in Name \cup {None}, n = None => keys = {} /\ \A m \in Member : roleOf[m] # r,
         keys \subseteq Pool,
         perms' = [perms EXCEPT ![r] = keys], asked' = [asked EXCEPT ![r] = keys],
         name' = [name EXCEPT ![r] = n], roleOf' = roleOf, Finish(q)
  PROVE  Kept'
<1>1. TypeOK'
  BY TablesStay DEF Kept, Typed
<1>2. job'[q] = Idle /\ \A p \in Request \ {q} : job'[p] = job[p]
  BY OneMoves DEF Kept, Finish
<1>3. Typed'
  BY <1>1, <1>2, IdleIsKept DEF Kept, Typed, JobOK, Finish
<1>4. \A o \in Role : perms'[o] = perms[o] \/ perms'[o] = keys
  BY DEF Kept, Typed, TypeOK
<1>5. Contained'
  BY <1>2, <1>3, <1>4, PoolHolds, IdleIsKept DEF Kept, Contained
<1> QED
  BY <1>3, <1>5 DEF Kept

\* What a replacement leaves of a role is what it had, and what it is given.
LEMMA ReplaceKeeps ==
  ASSUME RolesAssumption, Kept, NEW q \in Request, Replace(q)
  PROVE  Kept'
<1>1. PICK r, keys : r = job[q].role /\ keys = job[q].keys
  OBVIOUS
<1>2. /\ r \in Role /\ keys \subseteq Perm /\ keys \subseteq Pool
      /\ TypeOK /\ \A p \in Request : JobOK(job[p]) /\ Within(job[p])
  BY <1>1, JobIs DEF Replace, Kept, Typed, Contained, Within
<1>3. CASE Refused(q)
  BY <1>3, RefusedKeeps
<1>4. CASE /\ Exists(r) /\ asked' = [asked EXCEPT ![r] = keys]
           /\ perms' = [perms EXCEPT ![r] = (perms[r] \cap job[q].spared) \cup keys]
           /\ job' = Spare(q, r, keys) /\ UNCHANGED <<name, slug, roleOf>>
  <2>1. /\ \A o \in Role \ {r} : perms'[o] = perms[o]
        /\ perms'[r] \subseteq perms[r] \cup keys
    BY <1>2, <1>4 DEF TypeOK
  <2>2. perms' \in [Role -> SUBSET Perm] /\ asked' \in [Role -> SUBSET Perm]
    BY <1>2, <1>4 DEF TypeOK
  <2>3. \A o \in Role : name[o] = None => perms'[o] = {}
    BY <1>2, <1>4, <2>1 DEF TypeOK, Exists
  <2>4. TypeOK'
    BY <1>2, <1>4, <2>2, <2>3 DEF TypeOK, Exists
  <2>5. ASSUME NEW p \in Request PROVE JobOK(job'[p]) /\ Within(job'[p])
    <3>1. CASE p = q
      <4>1. job'[p] = Idle
        BY <1>4, <3>1 DEF Spare
      <4> QED
        BY <4>1, IdleIsKept DEF JobOK, Within
    <3>2. CASE p # q /\ job[p].at = "clear" /\ job[p].role = r
      <4>1. job'[p] = [job[p] EXCEPT !.spared = @ \cup keys]
        BY <1>4, <3>2 DEF Spare
      <4>2. job[p] \in [at : {"set", "clear"}, actor : Actor, role : Role,
                        keys : SUBSET Perm, spared : SUBSET Perm]
        BY <1>2, <3>2, JobIs
      <4>3. /\ job'[p] \in [at : {"set", "clear"}, actor : Actor, role : Role,
                            keys : SUBSET Perm, spared : SUBSET Perm]
            /\ job'[p].at = "clear" /\ job'[p].keys = job[p].keys
        BY <1>2, <3>2, <4>1, <4>2
      <4> QED
        BY <1>2, <3>2, <4>3 DEF JobOK, Within
    <3>3. CASE p # q /\ ~(job[p].at = "clear" /\ job[p].role = r)
      <4>1. job'[p] = job[p]
        BY <1>4, <3>3 DEF Spare
      <4> QED
        BY <1>2, <4>1 DEF JobOK, Within
    <3> QED
      BY <3>1, <3>2, <3>3
  <2>6. Typed'
    BY <1>4, <2>4, <2>5 DEF Typed, JobOK, Spare
  <2>7. Contained'
    BY <1>2, <1>4, <2>1, <2>5, <2>6, PoolHolds DEF Kept
  <2> QED
    BY <2>6, <2>7 DEF Kept
<1> QED
  BY <1>1, <1>3, <1>4 DEF Replace

\* Members are moved to a role that is in the pool (reassignMembers, UsersService.update).
LEMMA MoveKeeps ==
  ASSUME RolesAssumption, Kept, NEW q \in Request, MoveWrite(q)
  PROVE  Kept'
<1>1. PICK to : to = job[q].to
  OBVIOUS
<1>2. to \in Role /\ perms[to] \subseteq Pool /\ TypeOK
  BY <1>1, JobIs DEF MoveWrite, Kept, Typed, Contained, Within
<1>3. CASE Refused(q)
  BY <1>3, RefusedKeeps
<1>4. CASE /\ Exists(to) /\ Finish(q) /\ UNCHANGED <<perms, name, slug, asked>>
           /\ roleOf' = [m \in Member |-> IF m \in Moved(q) THEN to ELSE roleOf[m]]
  <2>1. \A m \in Member : roleOf'[m] = roleOf[m] \/ roleOf'[m] = to
    BY <1>4
  <2>2. TypeOK'
    BY <1>2, <1>4, <2>1 DEF TypeOK, Exists
  <2>3. job'[q] = Idle /\ \A p \in Request \ {q} : job'[p] = job[p]
    BY <1>4, OneMoves DEF Kept, Finish
  <2>4. Typed'
    BY <1>4, <2>2, <2>3, IdleIsKept DEF Kept, Typed, JobOK, Finish
  <2>5. Actor \subseteq Member
    BY DEF RolesAssumption
  <2>6. Contained'
    BY <1>2, <1>4, <2>1, <2>3, <2>4, <2>5, PoolHolds, IdleIsKept DEF Kept, Contained
  <2> QED
    BY <2>4, <2>6 DEF Kept
<1> QED
  BY <1>1, <1>3, <1>4 DEF MoveWrite

LEMMA ProceedKeeps ==
  ASSUME RolesAssumption, Kept, NEW q \in Request, Proceed(q)
  PROVE  Kept'
<1>0. TypeOK /\ JobOK(job[q]) /\ Within(job[q])
  BY DEF Kept, Typed, Contained
<1>1. CASE CreateWrite(q)
  <2>1. PICK r, n, keys : r = job[q].role /\ n = job[q].name /\ keys = job[q].keys
    OBVIOUS
  <2>2. /\ r \in Role /\ n \in Name \cup {None} /\ n # None
        /\ keys \in SUBSET Perm /\ keys \subseteq Pool
    BY <1>0, <1>1, <2>1, JobIs DEF CreateWrite, Within, RolesAssumption
  <2>3. \/ Refused(q)
        \/ /\ perms' = [perms EXCEPT ![r] = keys] /\ asked' = [asked EXCEPT ![r] = keys]
           /\ name' = [name EXCEPT ![r] = n] /\ roleOf' = roleOf /\ Finish(q)
    BY <1>1, <2>1 DEF CreateWrite
  <2> QED
    BY <2>2, <2>3, RowKeeps, RefusedKeeps
<1>2. CASE RenameWrite(q)
  <2>1. PICK r, n : r = job[q].role /\ n = job[q].name
    OBVIOUS
  <2>2. r \in Role /\ n \in Name
    BY <1>0, <1>2, <2>1, JobIs DEF RenameWrite
  <2>3. CASE Refused(q)
    BY <2>3, RefusedKeeps
  <2>4. CASE /\ Exists(r) /\ name' = [name EXCEPT ![r] = n]
             /\ Finish(q) /\ UNCHANGED <<perms, slug, roleOf, asked>>
    <3>1. \A o \in Role : name'[o] = None <=> name[o] = None
      BY <1>0, <2>2, <2>4 DEF TypeOK, Exists, RolesAssumption
    <3>2. TypeOK'
      BY <1>0, <2>2, <2>4, <3>1 DEF TypeOK, Exists, RolesAssumption
    <3>3. job'[q] = Idle /\ \A p \in Request \ {q} : job'[p] = job[p]
      BY <2>4, OneMoves DEF Kept, Finish
    <3>4. Typed'
      BY <2>4, <3>2, <3>3, IdleIsKept DEF Kept, Typed, JobOK, Finish
    <3>5. Contained'
      BY <2>4, <3>3, <3>4, PoolHolds, IdleIsKept DEF Kept, Contained
    <3> QED
      BY <3>4, <3>5 DEF Kept
  <2> QED
    BY <1>2, <2>1, <2>3, <2>4 DEF RenameWrite
<1>3. CASE Clear(q)
  <2>1. PICK j : j = [job[q] EXCEPT !.at = "clear"] /\ job' = [job EXCEPT ![q] = j]
    BY <1>3 DEF Clear
  <2>2. job[q] \in [at : {"set", "clear"}, actor : Actor, role : Role,
                    keys : SUBSET Perm, spared : SUBSET Perm]
    BY <1>0, <1>3, JobIs DEF Clear
  <2>3. /\ j \in [at : {"set", "clear"}, actor : Actor, role : Role,
                   keys : SUBSET Perm, spared : SUBSET Perm]
        /\ j.at = "clear" /\ j.keys = job[q].keys
    BY <2>1, <2>2
  <2>4. JobOK(j) /\ Within(j)
    BY <1>0, <1>3, <2>3 DEF JobOK, Within, Clear
  <2> QED
    BY <1>3, <2>1, <2>4, NothingWritten DEF Clear
<1>4. CASE Replace(q)
  BY <1>4, ReplaceKeeps
<1>5. CASE RemoveWrite(q)
  <2>1. PICK r : r = job[q].role
    OBVIOUS
  <2>2. r \in Role
    BY <1>0, <1>5, <2>1, JobIs DEF RemoveWrite
  <2>3. \/ Refused(q)
        \/ /\ perms' = [perms EXCEPT ![r] = {}] /\ asked' = [asked EXCEPT ![r] = {}]
           /\ name' = [name EXCEPT ![r] = None] /\ roleOf' = roleOf /\ Finish(q)
           /\ \A m \in Member : roleOf[m] # r
    BY <1>5, <2>1 DEF RemoveWrite
  <2> QED
    BY <2>2, <2>3, RowKeeps, RefusedKeeps
<1>6. CASE MoveWrite(q)
  BY <1>6, MoveKeeps
<1> QED
  BY <1>1, <1>2, <1>3, <1>4, <1>5, <1>6 DEF Proceed

LEMMA KeptInvariant ==
  ASSUME RolesAssumption
  PROVE  Spec => []Kept
<1>1. ASSUME Init PROVE Kept
  <2>1. /\ perms \in [Role -> SUBSET Perm] /\ asked \in [Role -> SUBSET Perm]
        /\ name \in [Role -> Name \cup {None}] /\ roleOf \in [Member -> Role]
    BY <1>1 DEF Init, RolesAssumption
  <2>2. /\ \A m \in Member : name[roleOf[m]] # None
        /\ \A r \in Role : name[r] = None => perms[r] = {}
    BY <1>1 DEF Init, RolesAssumption
  <2>3. Typed
    BY <1>1, <2>1, <2>2, IdleIsKept DEF Init, Typed, TypeOK, Exists
  <2>4. \A a \in Actor : perms[roleOf[a]] = First[HolderOf[a]]
    BY <1>1 DEF Init, RolesAssumption
  <2>5. Contained
    BY <1>1, <2>4, IdleIsKept DEF Init, Contained, NoEscalation, Held, Pool
  <2> QED
    BY <2>3, <2>5 DEF Kept
<1>2. ASSUME Kept, [Next]_vars PROVE Kept'
  <2>1. ASSUME NEW q \in Request, NEW a \in Actor, Ask(q, a) PROVE Kept'
    <3>1. PICK j : Begin(q, j) /\ JobOK(j) /\ Within(j)
      BY <1>2, <2>1, AskBegins DEF Kept
    <3> QED
      BY <1>2, <3>1, NothingWritten DEF Begin
  <2>2. ASSUME NEW q \in Request, Proceed(q) PROVE Kept'
    BY <1>2, <2>2, ProceedKeeps
  <2>3. CASE UNCHANGED vars
    BY <1>2, <2>3 DEF vars, Kept, Typed, TypeOK, Exists, JobOK, Contained, NoEscalation, Held,
                      Pool, Within
  <2> QED
    BY <1>2, <2>1, <2>2, <2>3 DEF Next
<1> QED
  BY <1>1, <1>2, PTL DEF Spec

-----------------------------------------------------------------------------
(* One request at a time. *)

Calm == AloneInv /\ Wholesale /\ NamesApart

\* Whoever goes on is the only one, and what it checked is still so.
LEMMA OneIsAtWork ==
  ASSUME RolesAssumption, Kept, Calm, NEW q \in Request, Proceed(q)
  PROVE  /\ \A p \in Request \ {q} : job[p] = Idle
         /\ JobOK(job[q]) /\ Current(job[q])
<1>1. job[q] # Idle
  BY DEF Proceed, CreateWrite, RenameWrite, Clear, Replace, RemoveWrite, MoveWrite, Idle
<1> QED
  BY <1>1 DEF Calm, AloneInv, Kept, Typed

\* When it is done nobody is at work.
LEMMA Rest ==
  ASSUME \A p \in Request : job'[p] = Idle
  PROVE  AloneInv'
BY DEF AloneInv, Current, Idle

LEMMA FinishRests ==
  ASSUME Kept, NEW q \in Request, Finish(q), \A p \in Request \ {q} : job[p] = Idle
  PROVE  AloneInv'
BY Rest, OneMoves DEF Kept, Finish

\* While roles and names stay, so does their agreement.
LEMMA NamesStay ==
  ASSUME Calm, UNCHANGED <<perms, name, asked>>
  PROVE  Wholesale' /\ NamesApart'
BY DEF Calm, Wholesale, NamesApart, Exists

\* A name nobody has may be given to one role.
LEMMA NewName ==
  ASSUME NamesApart, TypeOK, NEW r \in Role, NEW n, n = None \/ NameFree(n),
         name' = [name EXCEPT ![r] = n]
  PROVE  NamesApart'
<1>1. SUFFICES ASSUME NEW x \in Role, NEW o \in Role, name'[x] # None, name'[x] = name'[o]
               PROVE  x = o
  BY DEF NamesApart, Exists
<1>2. name'[r] = n /\ \A y \in Role \ {r} : name'[y] = name[y]
  BY DEF TypeOK
<1>3. n # None => \A y \in Role : name[y] # n
  BY DEF NameFree
<1> QED
  BY <1>1, <1>2, <1>3 DEF NamesApart, Exists

LEMMA ProceedStaysCalm ==
  ASSUME RolesAssumption, Kept, Calm, NEW q \in Request, Proceed(q)
  PROVE  Calm'
<1>0. /\ \A p \in Request \ {q} : job[p] = Idle
      /\ JobOK(job[q]) /\ Current(job[q]) /\ TypeOK /\ Wholesale /\ NamesApart
  BY OneIsAtWork DEF Kept, Typed, Calm
<1>1. CASE Refused(q)
  BY <1>0, <1>1, FinishRests, NamesStay DEF Refused, Calm
<1>2. CASE CreateWrite(q) /\ ~Refused(q)
  <2>1. PICK r, n, keys : r = job[q].role /\ n = job[q].name /\ keys = job[q].keys
    OBVIOUS
  <2>2. r \in Role /\ NameFree(n)
    BY <1>0, <1>2, <2>1, JobIs DEF CreateWrite, Current
  <2>3. /\ perms' = [perms EXCEPT ![r] = keys] /\ asked' = [asked EXCEPT ![r] = keys]
        /\ name' = [name EXCEPT ![r] = n] /\ Finish(q)
    BY <1>2, <2>1 DEF CreateWrite
  <2>4. Wholesale' /\ NamesApart' /\ AloneInv'
    BY <1>0, <2>2, <2>3, NewName, FinishRests DEF Wholesale
  <2> QED
    BY <2>4 DEF Calm
<1>3. CASE RenameWrite(q) /\ ~Refused(q)
  <2>1. PICK r, n : r = job[q].role /\ n = job[q].name
    OBVIOUS
  <2>2. r \in Role /\ NameFree(n)
    BY <1>0, <1>3, <2>1, JobIs DEF RenameWrite, Current
  <2>3. name' = [name EXCEPT ![r] = n] /\ Finish(q) /\ UNCHANGED <<perms, asked>>
    BY <1>3, <2>1 DEF RenameWrite
  <2>4. Wholesale' /\ NamesApart' /\ AloneInv'
    BY <1>0, <2>2, <2>3, NewName, FinishRests DEF Wholesale
  <2> QED
    BY <2>4 DEF Calm
<1>4. CASE Clear(q)
  <2>1. PICK j : j = [job[q] EXCEPT !.at = "clear"] /\ job' = [job EXCEPT ![q] = j]
    BY <1>4 DEF Clear
  <2>2. job[q] \in [at : {"set", "clear"}, actor : Actor, role : Role,
                    keys : SUBSET Perm, spared : SUBSET Perm]
    BY <1>0, <1>4, JobIs DEF Clear
  <2>3. /\ j.at = "clear" /\ j.keys = job[q].keys /\ j.actor = job[q].actor
        /\ j.spared = job[q].spared
    BY <2>1, <2>2
  <2>4. j.keys \subseteq Held(j.actor) /\ j.spared = {}
    BY <1>0, <1>4, <2>3 DEF Current, Clear
  <2>5. Current(j)'
    BY <1>4, <2>3, <2>4 DEF Current, Held, Clear
  <2>6. job'[q] = j /\ \A p \in Request \ {q} : job'[p] = Idle
    BY <1>0, <2>1, OneMoves DEF Kept
  <2>7. AloneInv'
    BY <2>5, <2>6, IdleIsKept DEF AloneInv, Current, Idle
  <2> QED
    BY <1>4, <2>7, NamesStay DEF Clear, Calm
<1>5. CASE Replace(q) /\ ~Refused(q)
  <2>1. PICK r, keys : r = job[q].role /\ keys = job[q].keys
    OBVIOUS
  <2>2. job[q].spared = {} /\ r \in Role
    BY <1>0, <1>5, <2>1, JobIs DEF Replace, Current
  <2>3. /\ perms' = [perms EXCEPT ![r] = (perms[r] \cap {}) \cup keys]
        /\ asked' = [asked EXCEPT ![r] = keys]
        /\ job' = Spare(q, r, keys) /\ UNCHANGED name
    BY <1>5, <2>1, <2>2 DEF Replace
  <2>4. Wholesale' /\ NamesApart'
    BY <1>0, <2>3 DEF Wholesale, NamesApart, Exists
  <2>5. \A p \in Request : job'[p] = Idle
    BY <1>0, <2>3 DEF Spare, Idle
  <2> QED
    BY <2>4, <2>5, Rest DEF Calm
<1>6. CASE RemoveWrite(q) /\ ~Refused(q)
  <2>1. PICK r : r = job[q].role
    OBVIOUS
  <2>2. r \in Role
    BY <1>0, <1>6, <2>1, JobIs DEF RemoveWrite
  <2>3. /\ perms' = [perms EXCEPT ![r] = {}] /\ asked' = [asked EXCEPT ![r] = {}]
        /\ name' = [name EXCEPT ![r] = None] /\ Finish(q)
    BY <1>6, <2>1 DEF RemoveWrite
  <2>4. Wholesale' /\ NamesApart' /\ AloneInv'
    BY <1>0, <2>2, <2>3, NewName, FinishRests DEF Wholesale
  <2> QED
    BY <2>4 DEF Calm
<1>7. CASE MoveWrite(q) /\ ~Refused(q)
  BY <1>0, <1>7, FinishRests, NamesStay DEF MoveWrite, Calm
<1> QED
  BY <1>1, <1>2, <1>3, <1>4, <1>5, <1>6, <1>7 DEF Proceed

LEMMA CalmInvariant ==
  ASSUME RolesAssumption, ~MayOverlap
  PROVE  Spec => [](Kept /\ Calm)
<1>1. ASSUME Init PROVE Calm
  <2>1. AloneInv /\ Wholesale
    BY <1>1, IdleIsKept DEF Init, AloneInv, Wholesale
  <2>2. NamesApart
    BY <1>1 DEF Init, NamesApart, Exists, RolesAssumption
  <2> QED
    BY <2>1, <2>2 DEF Calm
<1>2. ASSUME Kept, Calm, [Next]_vars PROVE Calm'
  <2>1. ASSUME NEW q \in Request, NEW a \in Actor, Ask(q, a) PROVE Calm'
    <3>1. PICK j : Begin(q, j) /\ Current(j)
      BY <1>2, <2>1, AskBegins DEF Kept
    <3>2. /\ job'[q] = j /\ \A p \in Request \ {q} : job'[p] = Idle
          /\ UNCHANGED <<perms, name, roleOf, asked>>
      BY <1>2, <3>1, OneMoves DEF Begin, Kept
    <3>3. Current(j)' /\ Current(Idle)'
      BY <3>1, <3>2, IdleIsKept DEF Current, Held, NameFree, Idle
    <3>4. AloneInv'
      BY <3>2, <3>3 DEF AloneInv, Current, Idle
    <3> QED
      BY <1>2, <3>2, <3>4, NamesStay DEF Calm
  <2>2. ASSUME NEW q \in Request, Proceed(q) PROVE Calm'
    BY <1>2, <2>2, ProceedStaysCalm
  <2>3. CASE UNCHANGED vars
    BY <1>2, <2>3 DEF vars, Calm, AloneInv, Current, Held, NameFree, Wholesale, NamesApart, Exists
  <2> QED
    BY <1>2, <2>1, <2>2, <2>3 DEF Next
<1> QED
  BY <1>1, <1>2, KeptInvariant, PTL DEF Spec

-----------------------------------------------------------------------------
(* The theorems. *)

\* The types, and that whoever has a role has one that exists (remove,
\* reassignMembers).
THEOREM RolesTypeCorrect ==
  ASSUME RolesAssumption
  PROVE  Spec => []TypeOK
<1>1. Kept => TypeOK
  BY DEF Kept, Typed
<1> QED
  BY <1>1, KeptInvariant, PTL

\* However their requests overlap, a group of administrators ends with nothing
\* that none of them had (assertMayGrant, assertMayAssign).
THEOREM NobodyEscalates ==
  ASSUME RolesAssumption
  PROVE  Spec => []NoEscalation
<1>1. Kept => NoEscalation
  BY DEF Kept, Contained
<1> QED
  BY <1>1, KeptInvariant, PTL

\* One at a time, a role bundles what was last asked for (setPermissions).
THEOREM ReplacementsAreWholesale ==
  ASSUME RolesAssumption, ~MayOverlap
  PROVE  Spec => []Wholesale
<1>1. Calm => Wholesale
  BY DEF Calm
<1> QED
  BY <1>1, CalmInvariant, PTL

\* One at a time, no two roles come to share a name (assertNameFree).
THEOREM NamesStayApart ==
  ASSUME RolesAssumption, ~MayOverlap
  PROVE  Spec => []NamesApart
<1>1. Calm => NamesApart
  BY DEF Calm
<1> QED
  BY <1>1, CalmInvariant, PTL

\* One at a time, a replacement adds only what its caller holds at the write
\* (assertMayGrant).
THEOREM GrantsAreHeld ==
  ASSUME RolesAssumption, ~MayOverlap
  PROVE  Spec => [][GrantsOnlyHeld]_vars
<1>1. ASSUME Kept, Calm, [Next]_vars PROVE GrantsOnlyHeld
  <2>1. SUFFICES ASSUME NEW q \in Request, job[q].at = "clear", job'[q] = Idle
                 PROVE  perms'[job[q].role] \ perms[job[q].role] \subseteq Held(job[q].actor)
    BY DEF GrantsOnlyHeld
  <2>2. job[q] # Idle /\ job'[q] # job[q]
    BY <2>1 DEF Idle
  <2>3. CASE perms' = perms
    BY <2>3
  <2>4. CASE Replace(q)
    <3>1. /\ job[q].role \in Role /\ job[q].keys \subseteq Held(job[q].actor)
          /\ job[q].spared = {} /\ TypeOK
      BY <1>1, <2>1, JobIs DEF Calm, AloneInv, Current, Kept, Typed
    <3>2. \/ perms' = perms
          \/ perms' = [perms EXCEPT ![job[q].role] =
                          (perms[job[q].role] \cap job[q].spared) \cup job[q].keys]
      BY <2>4 DEF Replace, Refused
    <3> QED
      BY <3>1, <3>2 DEF TypeOK
  <2>5. \A p \in Request, a \in Actor : Ask(p, a) => perms' = perms
    BY <1>1, AskBegins DEF Begin, Kept
  <2>6. \A p \in Request \ {q} : ~Proceed(p)
    BY <1>1, <2>2, OneIsAtWork
  <2>7. Proceed(q) => Replace(q) \/ perms' = perms
    BY <2>1 DEF Proceed, CreateWrite, RenameWrite, Clear, RemoveWrite, MoveWrite
  <2> QED
    BY <1>1, <2>2, <2>3, <2>4, <2>5, <2>6, <2>7 DEF Next, vars
<1> QED
  BY <1>1, CalmInvariant, PTL DEF Spec

\* One at a time, nobody moves themselves by moving everyone of a role
\* (reassignMembers).
THEOREM NobodyPromotesThemselves ==
  ASSUME RolesAssumption, ~MayOverlap
  PROVE  Spec => [][NobodyMovesThemselves]_vars
<1>1. ASSUME Kept, Calm, [Next]_vars PROVE NobodyMovesThemselves
  <2>1. SUFFICES ASSUME NEW q \in Request, job[q].at = "move", job'[q] = Idle
                 PROVE  roleOf'[job[q].actor] = roleOf[job[q].actor]
    BY DEF NobodyMovesThemselves
  <2>2. job[q] # Idle /\ job'[q] # job[q]
    BY <2>1 DEF Idle
  <2>3. CASE roleOf' = roleOf
    BY <2>3
  <2>4. CASE MoveWrite(q)
    <3>1. /\ job[q].actor \in Member /\ roleOf[job[q].actor] # job[q].from
      BY <1>1, <2>1, JobIs DEF Calm, AloneInv, Current, Kept, Typed, RolesAssumption
    <3>2. job[q].actor \notin Moved(q)
      BY <2>1, <3>1 DEF Moved
    <3> QED
      BY <2>4, <3>1, <3>2 DEF MoveWrite, Refused
  <2>5. \A p \in Request, a \in Actor : Ask(p, a) => roleOf' = roleOf
    BY <1>1, AskBegins DEF Begin, Kept
  <2>6. \A p \in Request \ {q} : ~Proceed(p)
    BY <1>1, <2>2, OneIsAtWork
  <2>7. Proceed(q) => MoveWrite(q) \/ roleOf' = roleOf
    BY <2>1 DEF Proceed, CreateWrite, RenameWrite, Clear, Replace, RemoveWrite, Refused
  <2> QED
    BY <1>1, <2>2, <2>3, <2>4, <2>5, <2>6, <2>7 DEF Next, vars
<1> QED
  BY <1>1, CalmInvariant, PTL DEF Spec
=============================================================================
