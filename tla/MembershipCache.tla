--------------------------- MODULE MembershipCache --------------------------
(***************************************************************************)
(* The snapshots of memberships kept in Redis between requests:            *)
(* MembershipCacheService under AccessControlService, read by JwtStrategy  *)
(* on every authenticated request.                                         *)
(*                                                                         *)
(* A reader that misses reads the database, then stores what it read.      *)
(* A writer changes the database, then drops the snapshots it made stale:  *)
(* by membership, or by the index of a role or of a user.  Every call of   *)
(* Redis may fail; reads then miss and writes are only logged.             *)
(***************************************************************************)
EXTENDS Naturals, Sequences

CONSTANTS
  Member, Role, User, School, None,
  Reader, Writer,
  UserOf, SchoolOf,  \* the user and the school of a membership
  TTL,           \* TTL_SECONDS
  IndexTTL,      \* INDEX_TTL_SECONDS
  Delay,         \* the longest a reader takes from its read to its write
  MaxTime, MaxChanges,
  MayOverlap,    \* readers between their read and their write, beside writers
  MayFail        \* calls of Redis fail

CacheAssumption ==
  /\ {TTL, IndexTTL, Delay, MaxTime, MaxChanges} \subseteq Nat
  /\ 0 < TTL /\ TTL <= IndexTTL
  /\ UserOf \in [Member -> User] /\ SchoolOf \in [Member -> School]
  /\ None \notin [has : SUBSET Member, expires : Nat]
  /\ {MayOverlap, MayFail} \subseteq BOOLEAN

VARIABLES
  now, ended, answer,   \* as in BoundedStaleness
  role,     \* role[m]: of a membership, in the database
  cache,    \* cache[m]: a snapshot and when it expires
  index,    \* index[k]: the memberships known of a role or a user
  reader,   \* reader[r]: what a request has read of the database
  writer    \* writer[w]: a change on its way to the cache

vars == <<now, ended, answer, role, cache, index, reader, writer>>
db   == <<now, ended, role>>

Idle == [at |-> "none"]
Key  == Role \cup User

Current(m)   == Len(ended[m]) + 1
KeysOf(m, k) == {k, UserOf[m]}

Init ==
  /\ now = 0 /\ ended = [m \in Member |-> <<>>]
  /\ \E m \in Member : answer = [member |-> m, version |-> 1]
  /\ role \in [Member -> Role]
  /\ cache = [m \in Member |-> None] /\ index = [k \in Key |-> None]
  /\ reader = [r \in Reader |-> Idle] /\ writer = [w \in Writer |-> Idle]

-----------------------------------------------------------------------------
(* A request: getMembershipSnapshot.                                       *)

Hit(m) ==
  /\ cache[m] # None
  /\ answer' = [member |-> m, version |-> cache[m].version]
  /\ UNCHANGED <<db, cache, index, reader, writer>>

\* A miss, or a read of Redis that fails.
Fetch(r, m) ==
  /\ reader[r] = Idle
  /\ cache[m] = None \/ MayFail
  /\ MayOverlap \/ \A w \in Writer : writer[w] = Idle
  /\ reader' = [reader EXCEPT ![r] = [at |-> "read", member |-> m, version |-> Current(m),
                                      role |-> role[m], time |-> now]]
  /\ UNCHANGED <<db, cache, index, writer, answer>>

\* A bug: a snapshot outlives what the cache says of it.
SnapshotOfLong(version) == [version |-> version, expires |-> now + TTL + IndexTTL]

\* A bug: the version that comes next.
SnapshotOfNext(version) == [version |-> version + 1, expires |-> now + TTL]

Snapshot(version) == [version |-> version, expires |-> now + TTL]

Indexed(m, k) ==
  [key \in Key |-> IF key \notin KeysOf(m, k) THEN index[key]
                   ELSE [has |-> {m} \cup (IF index[key] = None THEN {} ELSE index[key].has),
                         expires |-> now + IndexTTL]]

\* set: one MULTI, which takes effect as a whole or not at all.
Store(r) ==
  /\ reader[r].at = "read"
  /\ LET got == reader[r] IN
     /\ \/ /\ cache' = [cache EXCEPT ![got.member] = Snapshot(got.version)]
           /\ index' = Indexed(got.member, got.role)
        \/ MayFail /\ UNCHANGED <<cache, index>>
     /\ answer' = [member |-> got.member, version |-> got.version]
  /\ reader' = [reader EXCEPT ![r] = Idle]
  /\ UNCHANGED <<db, writer>>

-----------------------------------------------------------------------------
(* A change, and the invalidation its handler awaits.                      *)

Change(w, members, moved, job) ==
  /\ writer[w] = Idle
  /\ MayOverlap \/ \A r \in Reader : reader[r] = Idle
  /\ \A m \in members : Len(ended[m]) < MaxChanges
  /\ ended' = [m \in Member |-> IF m \in members THEN Append(ended[m], now) ELSE ended[m]]
  /\ role' = moved
  /\ writer' = [writer EXCEPT ![w] = job]
  /\ UNCHANGED <<now, cache, index, reader, answer>>

\* Users: role or status of a membership.  Then invalidateMembership.
ChangeMembership(w, m, k) ==
  Change(w, {m}, [role EXCEPT ![m] = k], [at |-> "drop", members |-> {m}, spent |-> {}])

\* Roles: the permissions of a role.  Auth: the token version of a user.
ChangeRole(w, k) ==
  Change(w, {m \in Member : role[m] = k}, role, [at |-> "find", key |-> k])
ChangeUser(w, u) ==
  Change(w, {m \in Member : UserOf[m] = u}, role, [at |-> "find", key |-> u])

\* Platform: the status of a school.  Each of its memberships is dropped.
ChangeSchool(w, s) ==
  LET members == {m \in Member : SchoolOf[m] = s} IN
  Change(w, members, role, [at |-> "drop", members |-> members, spent |-> {}])

\* smembers
Find(w) ==
  /\ writer[w].at = "find"
  /\ LET k == writer[w].key IN
     writer' = [writer EXCEPT ![w] =
       [at |-> "drop", members |-> IF index[k] = None THEN {} ELSE index[k].has, spent |-> {k}]]
  /\ UNCHANGED <<db, cache, index, reader, answer>>

\* del, of the snapshots and of the index that named them.
Drop(w) ==
  /\ writer[w].at = "drop"
  /\ cache' = [m \in Member |-> IF m \in writer[w].members THEN None ELSE cache[m]]
  /\ index' = [k \in Key |-> IF k \in writer[w].spent THEN None ELSE index[k]]
  /\ writer' = [writer EXCEPT ![w] = Idle]
  /\ UNCHANGED <<db, reader, answer>>

\* A failed invalidation is logged, and the handler goes on.
Fail(w) ==
  /\ MayFail /\ writer[w] # Idle
  /\ writer' = [writer EXCEPT ![w] = Idle]
  /\ UNCHANGED <<db, cache, index, reader, answer>>

-----------------------------------------------------------------------------
Living(e) == IF e # None /\ e.expires <= now + 1 THEN None ELSE e

\* Time passes: Redis drops what has expired, and no reader takes too long.
Tick ==
  /\ now < MaxTime
  /\ \A r \in Reader : reader[r] # Idle => now - reader[r].time < Delay
  /\ now' = now + 1
  /\ cache' = [m \in Member |-> Living(cache[m])]
  /\ index' = [k \in Key |-> Living(index[k])]
  /\ UNCHANGED <<ended, role, reader, writer, answer>>

Next ==
  \/ \E m \in Member : Hit(m) \/ \E r \in Reader : Fetch(r, m)
  \/ \E r \in Reader : Store(r)
  \/ \E w \in Writer : \/ \E m \in Member, k \in Role : ChangeMembership(w, m, k)
                       \/ \E k \in Role : ChangeRole(w, k)
                       \/ \E u \in User : ChangeUser(w, u)
                       \/ \E s \in School : ChangeSchool(w, s)
                       \/ Find(w) \/ Drop(w) \/ Fail(w)
  \/ Tick

Spec == Init /\ [][Next]_vars

-----------------------------------------------------------------------------
(***************************************************************************)
(* Types, and what makes an invalidation by index reach a snapshot: with   *)
(* no overlap and no failure, what is cached is in the indexes of its      *)
(* user.  (set, INDEX_TTL_SECONDS.)                                        *)
(***************************************************************************)
Snapshots == [version : 1..(MaxChanges + 1), expires : Nat]

TypeOK ==
  /\ now \in 0..MaxTime
  /\ role \in [Member -> Role]
  /\ \A m \in Member : cache[m] = None \/ cache[m] \in Snapshots
  /\ \A k \in Key : index[k] = None \/ index[k].has \subseteq Member
  /\ ~MayOverlap /\ ~MayFail =>
       \A m \in Member : cache[m] # None =>
         index[UserOf[m]] # None /\ m \in index[UserOf[m]].has

(***************************************************************************)
(* Whatever fails and however requests overlap, nobody is answered with    *)
(* what stopped to hold more than TTL and the time of one request ago.     *)
(***************************************************************************)
Staleness == INSTANCE BoundedStaleness WITH Bound <- TTL + Delay

StalenessIsBounded == Staleness!StaleSpec

(***************************************************************************)
(* "Await it: the next request must not be served a stale snapshot."  When *)
(* every change has been awaited, nothing stale is left.                   *)
(* (invalidateMembership, invalidateRole, invalidateUser.)  Holds when no  *)
(* reader is between its read and its write meanwhile; else it does not.   *)
(***************************************************************************)
NextRequestSeesChange ==
  (\A w \in Writer : writer[w] = Idle) =>
    \A m \in Member : cache[m] # None => cache[m].version = Current(m)

(***************************************************************************)
(* Why they hold.  A snapshot that stopped to hold was read before, and    *)
(* stored within Delay of the read.  Without overlap or failure, a stale   *)
(* one has a writer that will reach it, directly or through an index that  *)
(* outlives it.                                                            *)
(***************************************************************************)
CacheInv(m) ==
  \/ cache[m] = None
  \/ /\ cache[m] \in [version : 1..Current(m), expires : (now + 1)..(now + TTL)]
     /\ cache[m].version # Current(m)
          => cache[m].expires <= ended[m][cache[m].version] + TTL + Delay

ReaderInv(r) ==
  \/ reader[r] = Idle
  \/ /\ reader[r] \in [at : {"read"}, member : Member, version : Nat, role : Role, time : 0..now]
     /\ now <= reader[r].time + Delay
     /\ reader[r].version \in 1..Current(reader[r].member)
     /\ reader[r].version # Current(reader[r].member)
          => reader[r].time <= ended[reader[r].member][reader[r].version]

Jobs == {Idle} \cup [at : {"find"}, key : Key]
               \cup [at : {"drop"}, members : SUBSET Member, spent : SUBSET Key]

TablesOK ==
  /\ now \in 0..MaxTime
  /\ ended \in [Member -> Seq(Nat)] /\ \A m \in Member : Len(ended[m]) <= MaxChanges
  /\ role \in [Member -> Role]
  /\ index \in [Key -> {None} \cup [has : SUBSET Member, expires : Nat]]
  /\ cache = [m \in Member |-> cache[m]] /\ reader = [r \in Reader |-> reader[r]]
  /\ writer \in [Writer -> Jobs]

Bounded ==
  TablesOK /\ (\A m \in Member : CacheInv(m)) /\ \A r \in Reader : ReaderInv(r)

\* An index names a snapshot, and outlives it.
Reached(m, k) ==
  index[k] # None /\ m \in index[k].has /\ cache[m].expires <= index[k].expires

\* A writer is about to drop it.
Pursued(m) == \E w \in Writer : \/ writer[w].at = "drop" /\ m \in writer[w].members
                                \/ writer[w].at = "find" /\ Reached(m, writer[w].key)

ReachInv ==
  \A m \in Member : cache[m] # None =>
    /\ Reached(m, UserOf[m])
    /\ Pursued(m) \/ (cache[m].version = Current(m) /\ Reached(m, role[m]))

\* Whom an index names when it is dropped, is dropped with it.
SpentInv ==
  \A w \in Writer : writer[w].at = "drop" =>
    \A k \in writer[w].spent : index[k] = None \/ index[k].has \subseteq writer[w].members

\* Nobody reads while somebody writes.
AloneInv ==
  \A r \in Reader : reader[r] # Idle =>
    /\ \A w \in Writer : writer[w] = Idle
    /\ reader[r].version = Current(reader[r].member)
    /\ reader[r].role = role[reader[r].member]

Calm == ReachInv /\ SpentInv /\ AloneInv
=============================================================================
