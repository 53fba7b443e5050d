------------------------ MODULE MembershipCacheProofs ------------------------
(***************************************************************************)
(* Proofs about the snapshots of memberships, for any number of members,   *)
(* requests and changes and any lifetimes.  First how old a snapshot can   *)
(* be, whatever overlaps and whatever fails; then that nothing stale is    *)
(* left by an awaited change when neither happens.                         *)
(***************************************************************************)
EXTENDS MembershipCache, TLAPS

-----------------------------------------------------------------------------
(* How old a snapshot can be. *)

LEMMA Starts ==
  ASSUME CacheAssumption, Init
  PROVE  Bounded
<1>1. TablesOK
  BY DEF Init, TablesOK, CacheAssumption, Idle, Jobs
<1>2. (\A m \in Member : CacheInv(m)) /\ \A r \in Reader : ReaderInv(r)
  BY DEF Init, CacheInv, ReaderInv
<1> QED
  BY <1>1, <1>2 DEF Bounded

\* A request reads the present (the read of the database in getMembershipSnapshot).
LEMMA Fetches ==
  ASSUME CacheAssumption, Bounded, NEW r \in Reader, NEW m \in Member, Fetch(r, m)
  PROVE  Bounded'
<1> DEFINE got == [at |-> "read", member |-> m, version |-> Current(m), role |-> role[m],
                   time |-> now]
<1>1. reader' = [reader EXCEPT ![r] = got] /\ UNCHANGED <<db, cache, index, writer, answer>>
  BY DEF Fetch
<1>2. TablesOK /\ \A q \in Member : CacheInv(q)
  BY DEF Bounded
<1>3. Current(m) \in Nat /\ Current(m) >= 1 /\ now \in Nat /\ Delay \in Nat
  BY <1>2 DEF TablesOK, Current, CacheAssumption
<1>4. got \in [at : {"read"}, member : Member, version : Nat, role : Role, time : 0..now]
  BY <1>2, <1>3 DEF TablesOK
<1>5. reader'[r] = got /\ \A q \in Reader \ {r} : reader'[q] = reader[q]
  BY <1>1, <1>2 DEF TablesOK
<1>6. ReaderInv(r)'
  BY <1>1, <1>3, <1>4, <1>5 DEF ReaderInv, Current, db
<1>7. \A q \in Reader \ {r} : ReaderInv(q)'
  BY <1>1, <1>5 DEF Bounded, ReaderInv, Current, db
<1>8. \A q \in Member : CacheInv(q)'
  BY <1>1, <1>2 DEF CacheInv, Current, db
<1> HIDE DEF got
<1>9. TablesOK'
  BY <1>1, <1>2 DEF TablesOK, db
<1> QED
  BY <1>6, <1>7, <1>8, <1>9 DEF Bounded

\* What it stores was true when it read it, no longer than Delay ago (set).
LEMMA Stores ==
  ASSUME CacheAssumption, Bounded, NEW r \in Reader, Store(r)
  PROVE  Bounded'
<1> DEFINE got == reader[r]
<1>1. /\ got # Idle /\ reader' = [reader EXCEPT ![r] = Idle] /\ UNCHANGED <<db, writer>>
      /\ \/ /\ cache' = [cache EXCEPT ![got.member] = Snapshot(got.version)]
            /\ index' = Indexed(got.member, got.role)
         \/ UNCHANGED <<cache, index>>
  BY DEF Store, Idle
<1>2. TablesOK /\ (\A m \in Member : CacheInv(m)) /\ \A q \in Reader : ReaderInv(q)
  BY DEF Bounded
<1>3. /\ got \in [at : {"read"}, member : Member, version : Nat, role : Role, time : 0..now]
      /\ now <= got.time + Delay /\ got.version \in 1..Current(got.member)
      /\ got.version # Current(got.member) => got.time <= ended[got.member][got.version]
  BY <1>1, <1>2 DEF ReaderInv
<1>4. /\ now \in Nat /\ TTL \in Nat /\ IndexTTL \in Nat /\ Delay \in Nat /\ TTL > 0
      /\ ended \in [Member -> Seq(Nat)]
  BY <1>2 DEF TablesOK, CacheAssumption
<1>5. reader'[r] = Idle /\ \A q \in Reader \ {r} : reader'[q] = reader[q]
  BY <1>1, <1>2 DEF TablesOK
<1>6. \A q \in Reader : ReaderInv(q)'
  BY <1>1, <1>2, <1>5 DEF ReaderInv, Current, db
<1>7. CASE UNCHANGED <<cache, index>>
  <2>1. \A m \in Member : CacheInv(m)'
    BY <1>1, <1>2, <1>7 DEF CacheInv, Current, db
  <2>2. TablesOK'
    BY <1>1, <1>2, <1>7 DEF TablesOK, db
  <2> QED
    BY <1>6, <2>1, <2>2 DEF Bounded
<1>8. CASE /\ cache' = [cache EXCEPT ![got.member] = Snapshot(got.version)]
           /\ index' = Indexed(got.member, got.role)
  <2>0. PICK g, v : g = got.member /\ v = got.version
    OBVIOUS
  <2>1. g \in Member /\ v \in 1..Current(g) /\ v \in Nat /\ got.role \in Role
    BY <1>3, <2>0
  <2>2. cache'[g] = [version |-> v, expires |-> now + TTL]
    BY <1>2, <1>8, <2>0, <2>1 DEF TablesOK, Snapshot
  <2>3. \A m \in Member \ {g} : cache'[m] = cache[m]
    BY <1>2, <1>8, <2>0 DEF TablesOK
  <2>4. v # Current(g) => now + TTL <= ended[g][v] + TTL + Delay
    <3>1. SUFFICES ASSUME v # Current(g) PROVE now + TTL <= ended[g][v] + TTL + Delay
      OBVIOUS
    <3>2. ended[g] \in Seq(Nat) /\ v \in 1..Len(ended[g])
      BY <1>4, <2>1, <3>1 DEF Current
    <3>3. ended[g][v] \in Nat
      BY <3>2
    <3>4. got.time <= ended[g][v] /\ now <= got.time + Delay /\ got.time \in Nat
      BY <1>3, <1>4, <2>0, <3>1
    <3> HIDE DEF got
    <3> QED
      BY <1>4, <3>3, <3>4
  <2>5. CacheInv(g)'
    <3>1. now + TTL \in (now + 1)..(now + TTL)
      BY <1>4
    <3> QED
      BY <1>1, <2>1, <2>2, <2>4, <3>1 DEF CacheInv, Current, db
  <2>6. \A m \in Member \ {g} : CacheInv(m)'
    BY <1>1, <1>2, <2>3 DEF CacheInv, Current, db
  <2>7. Indexed(got.member, got.role) \in [Key -> {None} \cup [has : SUBSET Member, expires : Nat]]
    <3>1. ASSUME NEW k \in Key
          PROVE  [has |-> {got.member} \cup (IF index[k] = None THEN {} ELSE index[k].has),
                  expires |-> now + IndexTTL] \in [has : SUBSET Member, expires : Nat]
      <4>1. {got.member} \cup (IF index[k] = None THEN {} ELSE index[k].has) \in SUBSET Member
        BY <1>2, <1>3 DEF TablesOK
      <4> QED
        BY <1>4, <4>1
    <3> QED
      BY <1>2, <3>1 DEF Indexed, TablesOK
  <2>8. TablesOK'
    BY <1>1, <1>2, <1>8, <2>7 DEF TablesOK, db
  <2> QED
    BY <1>6, <2>5, <2>6, <2>8 DEF Bounded
<1> QED
  BY <1>1, <1>7, <1>8

\* A change ends what held until now, of snapshots and of reads alike.
LEMMA Changes ==
  ASSUME CacheAssumption, Bounded, NEW w \in Writer, NEW members \in SUBSET Member,
         NEW moved \in [Member -> Role], NEW job \in Jobs, Change(w, members, moved, job)
  PROVE  Bounded'
<1>1. /\ ended' = [m \in Member |-> IF m \in members THEN Append(ended[m], now) ELSE ended[m]]
      /\ role' = moved /\ writer' = [writer EXCEPT ![w] = job]
      /\ \A m \in members : Len(ended[m]) < MaxChanges
      /\ UNCHANGED <<now, cache, index, reader, answer>>
  BY DEF Change
<1>2. TablesOK /\ (\A m \in Member : CacheInv(m)) /\ \A q \in Reader : ReaderInv(q)
  BY DEF Bounded
<1>3. now \in Nat /\ TTL \in Nat /\ Delay \in Nat /\ MaxChanges \in Nat
  BY <1>2 DEF TablesOK, CacheAssumption
\* The versions of a membership before the change, and the last of them.
<1>4. ASSUME NEW m \in Member
      PROVE  /\ ended'[m] \in Seq(Nat) /\ Len(ended'[m]) \in Nat /\ Len(ended'[m]) <= MaxChanges
             /\ Current(m) \in Nat /\ Current(m)' \in Nat /\ Current(m) <= Current(m)'
             /\ \A v \in 1..Current(m) : v # Current(m)' =>
                  IF v = Current(m) THEN ended'[m][v] = now
                                    ELSE ended'[m][v] = ended[m][v] /\ ended[m][v] \in Nat
  <2>1. ended[m] \in Seq(Nat) /\ Len(ended[m]) \in Nat /\ Len(ended[m]) <= MaxChanges
    BY <1>2 DEF TablesOK
  <2>2. CASE m \in members
    <3>1. ended'[m] = Append(ended[m], now)
      BY <1>1, <2>2
    <3>2. ended'[m] \in Seq(Nat) /\ Len(ended'[m]) = Len(ended[m]) + 1
      BY <1>3, <2>1, <3>1
    <3>3. \A v \in 1..Len(ended[m]) : ended'[m][v] = ended[m][v] /\ ended[m][v] \in Nat
      BY <1>3, <2>1, <3>1
    <3>4. ended'[m][Len(ended[m]) + 1] = now
      BY <1>3, <2>1, <3>1
    <3>5. Len(ended[m]) < MaxChanges
      BY <1>1, <2>2
    <3> QED
      BY <1>3, <2>1, <3>2, <3>3, <3>4, <3>5 DEF Current
  <2>3. CASE m \notin members
    <3>1. ended'[m] = ended[m]
      BY <1>1, <2>3
    <3> QED
      BY <2>1, <3>1 DEF Current
  <2> QED
    BY <2>2, <2>3
<1>5. ASSUME NEW m \in Member PROVE CacheInv(m)'
  <2>1. CASE cache[m] = None
    BY <1>1, <2>1 DEF CacheInv
  <2>2. CASE cache[m] # None
    <3> DEFINE v == cache[m].version
    <3>1. /\ cache[m] \in [version : 1..Current(m), expires : (now + 1)..(now + TTL)]
          /\ v # Current(m) => cache[m].expires <= ended[m][v] + TTL + Delay
      BY <1>2, <2>2 DEF CacheInv
    <3>2. v \in 1..Current(m) /\ cache[m].expires \in Nat /\ cache[m].expires <= now + TTL
      BY <1>3, <3>1
    <3>3. v # Current(m)' => cache[m].expires <= ended'[m][v] + TTL + Delay
      <4>1. CASE v = Current(m)
        BY <1>3, <1>4, <3>2, <4>1
      <4>2. CASE v # Current(m)
        BY <1>4, <3>1, <3>2, <4>2
      <4> QED
        BY <4>1, <4>2
    <3>4. cache[m] \in [version : 1..Current(m)', expires : (now + 1)..(now + TTL)]
      BY <1>4, <3>1
    <3> QED
      BY <1>1, <3>3, <3>4 DEF CacheInv
  <2> QED
    BY <2>1, <2>2
<1>6. ASSUME NEW q \in Reader PROVE ReaderInv(q)'
  <2>1. CASE reader[q] = Idle
    BY <1>1, <2>1 DEF ReaderInv
  <2>2. CASE reader[q] # Idle
    <3>0. PICK m, v : m = reader[q].member /\ v = reader[q].version
      OBVIOUS
    <3>1. /\ reader[q] \in [at : {"read"}, member : Member, version : Nat, role : Role,
                            time : 0..now]
          /\ now <= reader[q].time + Delay /\ v \in 1..Current(m) /\ m \in Member
          /\ v # Current(m) => reader[q].time <= ended[m][v]
      BY <1>2, <2>2, <3>0 DEF ReaderInv
    <3>2. reader[q].time \in Nat /\ reader[q].time <= now
      BY <1>3, <3>1
    <3>3. v # Current(m)' => reader[q].time <= ended'[m][v]
      <4>1. CASE v = Current(m)
        BY <1>4, <3>1, <3>2, <4>1
      <4>2. CASE v # Current(m)
        BY <1>4, <3>1, <4>2
      <4> QED
        BY <4>1, <4>2
    <3>4. v \in 1..(Current(m)')
      BY <1>4, <3>1
    <3> QED
      BY <1>1, <3>0, <3>1, <3>3, <3>4 DEF ReaderInv, Current
  <2> QED
    BY <2>1, <2>2
<1>7. TablesOK'
  <2>1. ended' \in [Member -> Seq(Nat)]
    BY <1>1, <1>4
  <2>2. writer' \in [Writer -> Jobs]
    BY <1>1, <1>2 DEF TablesOK
  <2> QED
    BY <1>1, <1>2, <1>4, <2>1, <2>2 DEF TablesOK
<1> QED
  BY <1>5, <1>6, <1>7 DEF Bounded

\* The four changes, each with the memberships it makes stale.
LEMMA ChangeIs ==
  ASSUME CacheAssumption, Bounded, NEW w \in Writer,
         \/ \E m \in Member, k \in Role : ChangeMembership(w, m, k)
         \/ \E k \in Role : ChangeRole(w, k)
         \/ \E u \in User : ChangeUser(w, u)
         \/ \E s \in School : ChangeSchool(w, s)
  PROVE  \E members \in SUBSET Member, moved \in [Member -> Role], job \in Jobs :
           Change(w, members, moved, job)
<1>1. role \in [Member -> Role]
  BY DEF Bounded, TablesOK
<1>2. ASSUME NEW m \in Member, NEW k \in Role, ChangeMembership(w, m, k)
      PROVE  Change(w, {m}, [role EXCEPT ![m] = k],
                    [at |-> "drop", members |-> {m}, spent |-> {}])
  BY <1>2 DEF ChangeMembership
<1>3. ASSUME NEW m \in Member, NEW k \in Role
      PROVE  /\ [role EXCEPT ![m] = k] \in [Member -> Role]
             /\ [at |-> "drop", members |-> {m}, spent |-> {}] \in Jobs
  BY <1>1 DEF Jobs
<1>4. \A k \in Key : [at |-> "find", key |-> k] \in Jobs
  BY DEF Jobs
<1>5. \A members \in SUBSET Member :
        [at |-> "drop", members |-> members, spent |-> {}] \in Jobs
  BY DEF Jobs
<1>6. ASSUME NEW m \in Member, NEW k \in Role, ChangeMembership(w, m, k)
      PROVE  \E members \in SUBSET Member, moved \in [Member -> Role], job \in Jobs :
               Change(w, members, moved, job)
  <2>1. {m} \in SUBSET Member
    OBVIOUS
  <2> QED
    BY <1>2, <1>3, <1>6, <2>1
<1>7. ASSUME NEW k \in Role, ChangeRole(w, k)
      PROVE  \E members \in SUBSET Member, moved \in [Member -> Role], job \in Jobs :
               Change(w, members, moved, job)
  <2>1. {m \in Member : role[m] = k} \in SUBSET Member /\ k \in Key
    BY DEF Key
  <2> QED
    BY <1>1, <1>4, <1>7, <2>1 DEF ChangeRole
<1>8. ASSUME NEW u \in User, ChangeUser(w, u)
      PROVE  \E members \in SUBSET Member, moved \in [Member -> Role], job \in Jobs :
               Change(w, members, moved, job)
  <2>1. {m \in Member : UserOf[m] = u} \in SUBSET Member /\ u \in Key
    BY DEF Key
  <2> QED
    BY <1>1, <1>4, <1>8, <2>1 DEF ChangeUser
<1>9. ASSUME NEW s \in School, ChangeSchool(w, s)
      PROVE  \E members \in SUBSET Member, moved \in [Member -> Role], job \in Jobs :
               Change(w, members, moved, job)
  <2>1. {m \in Member : SchoolOf[m] = s} \in SUBSET Member
    OBVIOUS
  <2> QED
    BY <1>1, <1>5, <1>9, <2>1 DEF ChangeSchool
<1> QED
  BY <1>6, <1>7, <1>8, <1>9

\* What has expired is not there any more.
LEMMA Ticks ==
  ASSUME CacheAssumption, Bounded, Tick
  PROVE  Bounded'
<1>1. /\ now < MaxTime /\ now' = now + 1
      /\ \A r \in Reader : reader[r] # Idle => now - reader[r].time < Delay
      /\ cache' = [m \in Member |-> Living(cache[m])]
      /\ index' = [k \in Key |-> Living(index[k])]
      /\ UNCHANGED <<ended, role, reader, writer, answer>>
  BY DEF Tick
<1>2. TablesOK /\ (\A m \in Member : CacheInv(m)) /\ \A q \in Reader : ReaderInv(q)
  BY DEF Bounded
<1>3. now \in Nat /\ TTL \in Nat /\ Delay \in Nat /\ MaxTime \in Nat
  BY <1>2 DEF TablesOK, CacheAssumption
<1>4. ASSUME NEW m \in Member PROVE CacheInv(m)'
  <2>1. CASE cache'[m] = None
    BY <2>1 DEF CacheInv
  <2>2. CASE cache'[m] # None
    <3>1. cache[m] # None /\ cache'[m] = cache[m] /\ ~(cache[m].expires <= now + 1)
      BY <1>1, <2>2 DEF Living
    <3>2. cache[m] \in [version : 1..Current(m), expires : (now + 1)..(now + TTL)]
      BY <1>2, <3>1 DEF CacheInv
    <3>3. cache[m].expires \in (now' + 1)..(now' + TTL)
      BY <1>1, <1>3, <3>1, <3>2
    <3> QED
      BY <1>1, <1>2, <3>1, <3>2, <3>3 DEF CacheInv, Current
  <2> QED
    BY <2>1, <2>2
<1>5. ASSUME NEW q \in Reader PROVE ReaderInv(q)'
  <2>1. CASE reader[q] = Idle
    BY <1>1, <2>1 DEF ReaderInv
  <2>2. CASE reader[q] # Idle
    <3>1. /\ reader[q] \in [at : {"read"}, member : Member, version : Nat, role : Role,
                            time : 0..now]
          /\ now - reader[q].time < Delay
      BY <1>1, <1>2, <2>2 DEF ReaderInv
    <3>2. reader[q].time \in 0..now' /\ now' <= reader[q].time + Delay
      BY <1>1, <1>3, <3>1
    <3> QED
      BY <1>1, <1>2, <3>1, <3>2 DEF ReaderInv, Current
  <2> QED
    BY <2>1, <2>2
<1>6. TablesOK'
  <2>1. now' \in 0..MaxTime
    BY <1>1, <1>3
  <2>2. \A k \in Key : index'[k] \in {None, index[k]}
    BY <1>1 DEF Living
  <2> QED
    BY <1>1, <1>2, <2>1, <2>2 DEF TablesOK
<1> QED
  BY <1>4, <1>5, <1>6 DEF Bounded

\* An invalidation takes snapshots and indexes away.
LEMMA Invalidates ==
  ASSUME CacheAssumption, Bounded, NEW w \in Writer, Find(w) \/ Drop(w) \/ Fail(w)
  PROVE  Bounded'
<1>1. TablesOK /\ (\A m \in Member : CacheInv(m)) /\ \A q \in Reader : ReaderInv(q)
  BY DEF Bounded
<1>2. UNCHANGED <<now, ended, role, reader>>
  BY DEF Find, Drop, Fail, db
<1>3. /\ \A m \in Member : cache'[m] \in {None, cache[m]}
      /\ \A k \in Key : index'[k] \in {None, index[k]}
      /\ cache' = [m \in Member |-> cache'[m]] /\ index' = [k \in Key |-> index'[k]]
  BY <1>1 DEF Find, Drop, Fail, TablesOK
<1>4. writer' \in [Writer -> Jobs]
  <2>1. CASE Find(w)
    <3> DEFINE k == writer[w].key
    <3>1. k \in Key
      BY <1>1, <2>1 DEF Find, TablesOK, Jobs, Idle
    <3>2. (IF index[k] = None THEN {} ELSE index[k].has) \in SUBSET Member
      BY <1>1, <3>1 DEF TablesOK
    <3>3. [at |-> "drop", members |-> IF index[k] = None THEN {} ELSE index[k].has,
           spent |-> {k}] \in Jobs
      BY <3>1, <3>2 DEF Jobs
    <3> QED
      BY <1>1, <2>1, <3>3 DEF Find, TablesOK
  <2>2. CASE Drop(w) \/ Fail(w)
    BY <1>1, <2>2 DEF Drop, Fail, TablesOK, Jobs
  <2> QED
    BY <2>1, <2>2
<1>5. TablesOK'
  BY <1>1, <1>2, <1>3, <1>4 DEF TablesOK
<1>6. \A m \in Member : CacheInv(m)'
  BY <1>1, <1>2, <1>3 DEF CacheInv, Current
<1>7. \A q \in Reader : ReaderInv(q)'
  BY <1>1, <1>2 DEF ReaderInv, Current
<1> QED
  BY <1>5, <1>6, <1>7 DEF Bounded

LEMMA StaysBounded ==
  ASSUME CacheAssumption, Bounded, [Next]_vars
  PROVE  Bounded'
<1>1. CASE \/ UNCHANGED vars
           \/ \E m \in Member : Hit(m)
  <2>1. UNCHANGED <<db, cache, index, reader, writer>>
    BY <1>1 DEF Hit, vars, db
  <2> QED
    BY <2>1 DEF Bounded, TablesOK, CacheInv, ReaderInv, Current, db
<1>2. CASE \E m \in Member, r \in Reader : Fetch(r, m)
  BY <1>2, Fetches
<1>3. CASE \E r \in Reader : Store(r)
  BY <1>3, Stores
<1>4. ASSUME NEW w \in Writer,
             \/ \E m \in Member, k \in Role : ChangeMembership(w, m, k)
             \/ \E k \in Role : ChangeRole(w, k)
             \/ \E u \in User : ChangeUser(w, u)
             \/ \E s \in School : ChangeSchool(w, s)
      PROVE  Bounded'
  BY <1>4, ChangeIs, Changes
<1>5. CASE \E w \in Writer : Find(w) \/ Drop(w) \/ Fail(w)
  BY <1>5, Invalidates
<1> QED
  BY <1>1, <1>2, <1>3, <1>4, <1>5, Ticks DEF Next

LEMMA BoundedInvariant ==
  ASSUME CacheAssumption
  PROVE  Spec => []Bounded
BY Starts, StaysBounded, PTL DEF Spec

\* Every answer is one that BoundedStaleness allows, every change and every
\* tick are the ones it knows, and nothing else is seen of the cache.
LEMMA StepIsBounded ==
  ASSUME CacheAssumption, Bounded, [Next]_vars
  PROVE  [Staleness!StaleNext]_(Staleness!svars)
<1>1. TablesOK /\ (\A m \in Member : CacheInv(m)) /\ \A q \in Reader : ReaderInv(q)
  BY DEF Bounded
<1>2. now \in Nat /\ TTL \in Nat /\ Delay \in Nat /\ ended \in [Member -> Seq(Nat)]
  BY <1>1 DEF TablesOK, CacheAssumption
\* An answer that is no older than it may be.
<1>3. ASSUME NEW m \in Member, NEW v \in 1..Current(m), NEW t \in Nat,
             now <= t + TTL + Delay, v # Current(m) => t <= ended[m][v],
             answer' = [member |-> m, version |-> v], UNCHANGED <<now, ended>>
      PROVE  Staleness!StaleNext
  <2>1. v # Current(m) => now - ended[m][v] <= TTL + Delay
    <3>1. SUFFICES ASSUME v # Current(m) PROVE now - ended[m][v] <= TTL + Delay
      OBVIOUS
    <3>2. ended[m] \in Seq(Nat) /\ v \in 1..Len(ended[m])
      BY <1>2, <3>1 DEF Current
    <3>3. ended[m][v] \in Nat
      BY <3>2
    <3> QED
      BY <1>2, <1>3, <3>1, <3>3
  <2>2. Staleness!Answer(m, v) /\ v \in 1..Staleness!Current(m)
    BY <1>3, <2>1 DEF Staleness!Answer, Staleness!Current, Current
  <2> QED
    BY <2>2 DEF Staleness!StaleNext
<1>4. ASSUME NEW m \in Member, Hit(m) PROVE Staleness!StaleNext
  <2>1. PICK v, e : v = cache[m].version /\ e = cache[m].expires
    OBVIOUS
  <2>2. /\ v \in 1..Current(m) /\ e \in Nat /\ e > now
        /\ v # Current(m) => e <= ended[m][v] + TTL + Delay
    <3>1. /\ cache[m] \in [version : 1..Current(m), expires : (now + 1)..(now + TTL)]
          /\ v # Current(m) => e <= ended[m][v] + TTL + Delay
      BY <1>1, <1>4, <2>1 DEF Hit, CacheInv
    <3> QED
      BY <1>2, <2>1, <3>1
  <2>3. answer' = [member |-> m, version |-> v] /\ UNCHANGED <<now, ended>>
    BY <1>4, <2>1 DEF Hit, db
  <2>4. CASE v = Current(m)
    <3>1. now <= now + TTL + Delay
      BY <1>2
    <3> QED
      BY <1>2, <1>3, <2>2, <2>3, <2>4, <3>1
  <2>5. CASE v # Current(m)
    <3>1. ended[m] \in Seq(Nat) /\ v \in 1..Len(ended[m])
      BY <1>2, <2>2, <2>5 DEF Current
    <3>2. ended[m][v] \in Nat
      BY <3>1
    <3>3. now <= ended[m][v] + TTL + Delay
      BY <1>2, <2>2, <2>5, <3>2
    <3> QED
      BY <1>2, <1>3, <2>2, <2>3, <3>2, <3>3
  <2> QED
    BY <2>4, <2>5
<1>5. ASSUME NEW r \in Reader, Store(r) PROVE Staleness!StaleNext
  <2>1. PICK m, v, t : m = reader[r].member /\ v = reader[r].version /\ t = reader[r].time
    OBVIOUS
  <2>2. /\ m \in Member /\ v \in 1..Current(m) /\ t \in Nat /\ now <= t + Delay
        /\ v # Current(m) => t <= ended[m][v]
    <3>1. reader[r] # Idle
      BY <1>5 DEF Store, Idle
    <3>2. reader[r] \in [at : {"read"}, member : Member, version : Nat, role : Role,
                         time : 0..now]
      BY <1>1, <3>1 DEF ReaderInv
    <3>3. t \in Nat
      BY <1>2, <2>1, <3>2
    <3> QED
      BY <1>1, <2>1, <3>1, <3>2, <3>3 DEF ReaderInv
  <2>3. answer' = [member |-> m, version |-> v] /\ UNCHANGED <<now, ended>>
    BY <1>5, <2>1 DEF Store, db
  <2>4. now <= t + TTL + Delay
    BY <1>2, <2>2
  <2> QED
    BY <1>3, <2>2, <2>3, <2>4
<1>6. ASSUME NEW w \in Writer, NEW members \in SUBSET Member, NEW moved, NEW job,
             Change(w, members, moved, job)
      PROVE  Staleness!StaleNext
  BY <1>6 DEF Change, Staleness!StaleNext, Staleness!Changed
<1>7. ASSUME NEW w \in Writer,
             \/ \E m \in Member, k \in Role : ChangeMembership(w, m, k)
             \/ \E k \in Role : ChangeRole(w, k)
             \/ \E u \in User : ChangeUser(w, u)
             \/ \E s \in School : ChangeSchool(w, s)
      PROVE  Staleness!StaleNext
  BY <1>6, <1>7, ChangeIs
<1>8. ASSUME Tick PROVE Staleness!StaleNext
  BY <1>8 DEF Tick, Staleness!StaleNext, Staleness!Advance
<1>9. CASE \/ UNCHANGED vars
           \/ \E m \in Member, r \in Reader : Fetch(r, m)
           \/ \E w \in Writer : Find(w) \/ Drop(w) \/ Fail(w)
  BY <1>9 DEF vars, db, Fetch, Find, Drop, Fail, Staleness!svars
<1> QED
  BY <1>4, <1>5, <1>7, <1>8, <1>9 DEF Next

\* Nobody is answered with what stopped to hold more than TTL and the time of
\* one request ago, whatever overlaps and whatever fails (getMembershipSnapshot).
THEOREM CacheIsBoundedlyStale ==
  ASSUME CacheAssumption
  PROVE  Spec => StalenessIsBounded
<1>1. Init => Staleness!StaleInit
  BY DEF Init, Staleness!StaleInit
<1> QED
  BY <1>1, StepIsBounded, BoundedInvariant, PTL
     DEF Spec, StalenessIsBounded, Staleness!StaleSpec

-----------------------------------------------------------------------------
(* Nothing stale is left, when no request overlaps a change and no call of *)
(* Redis fails.                                                            *)

\* What an index reaches, it reaches as long as both are there.
LEMMA StillReached ==
  ASSUME NEW m, NEW k, Reached(m, k), cache'[m] = cache[m], index'[k] = index[k]
  PROVE  index'[k] # None /\ m \in index'[k].has /\ cache'[m].expires <= index'[k].expires
BY DEF Reached

LEMMA StoreStaysCalm ==
  ASSUME CacheAssumption, Bounded, Calm, ~MayFail, NEW r \in Reader, Store(r)
  PROVE  Calm'
<1>0. /\ TablesOK /\ (\A m \in Member : CacheInv(m)) /\ ReaderInv(r)
      /\ now \in Nat /\ TTL \in Nat /\ IndexTTL \in Nat /\ TTL <= IndexTTL
      /\ UserOf \in [Member -> User] /\ role \in [Member -> Role]
  BY DEF Bounded, TablesOK, CacheAssumption
<1>1. PICK g, v, k0 : g = reader[r].member /\ v = reader[r].version /\ k0 = reader[r].role
  OBVIOUS
<1>2. reader[r] # Idle
  BY DEF Store, Idle
<1>3. /\ g \in Member /\ v = Current(g) /\ k0 = role[g]
      /\ \A w \in Writer : writer[w] = Idle
  BY <1>0, <1>1, <1>2 DEF ReaderInv, Calm, AloneInv
<1>4. /\ cache' = [cache EXCEPT ![g] = Snapshot(v)] /\ index' = Indexed(g, k0)
      /\ reader' = [reader EXCEPT ![r] = Idle] /\ UNCHANGED <<now, ended, role, writer>>
  BY <1>1 DEF Store, db
<1>5. cache'[g].version = v /\ cache'[g].expires = now + TTL
  BY <1>0, <1>3, <1>4 DEF TablesOK, Snapshot
<1>6. \A m \in Member \ {g} : cache'[m] = cache[m]
  BY <1>0, <1>4 DEF TablesOK
<1>7. ASSUME NEW k \in Key
      PROVE  /\ k \notin {k0, UserOf[g]} => index'[k] = index[k]
             /\ k \in {k0, UserOf[g]} =>
                  /\ index'[k] # None /\ g \in index'[k].has /\ index'[k].expires = now + IndexTTL
                  /\ index[k] # None => index[k].has \subseteq index'[k].has
  <2>1. index'[k] = IF k \notin {k0, UserOf[g]} THEN index[k]
                    ELSE [has |-> {g} \cup (IF index[k] = None THEN {} ELSE index[k].has),
                          expires |-> now + IndexTTL]
    BY <1>4 DEF Indexed, KeysOf
  <2>2. index'[k] \in {None} \cup [has : SUBSET Member, expires : Nat]
    BY Stores DEF Bounded, TablesOK
  <2>3. [has |-> {g} \cup (IF index[k] = None THEN {} ELSE index[k].has),
         expires |-> now + IndexTTL] \in [has : SUBSET Member, expires : Nat]
    <3>1. {g} \cup (IF index[k] = None THEN {} ELSE index[k].has) \in SUBSET Member
      BY <1>0, <1>3 DEF TablesOK
    <3> QED
      BY <1>0, <3>1
  <2>4. k \in {k0, UserOf[g]} => index'[k] # None
    BY <2>1, <2>3 DEF CacheAssumption
  <2> QED
    BY <2>1, <2>4
<1>8. ASSUME NEW m \in Member, cache'[m] # None
      PROVE  /\ Reached(m, UserOf[m])' /\ Reached(m, role[m])' /\ cache'[m].version = Current(m)'
  <2>1. UserOf[m] \in Key /\ role[m] \in Key
    BY <1>0 DEF Key
  <2>2. CASE m = g
    <3>1. now + TTL <= now + IndexTTL
      BY <1>0
    <3> QED
      BY <1>3, <1>4, <1>5, <1>7, <2>1, <2>2, <3>1 DEF Reached, Current
  <2>3. CASE m # g
    <3>1. /\ cache'[m] = cache[m] /\ cache[m] # None
      BY <1>6, <1>8, <2>3
    <3>2. ~Pursued(m)
      BY <1>3 DEF Pursued, Idle
    <3>3. Reached(m, UserOf[m]) /\ Reached(m, role[m]) /\ cache[m].version = Current(m)
      BY <3>1, <3>2 DEF Calm, ReachInv
    <3>4. cache[m].expires \in Nat /\ cache[m].expires <= now + IndexTTL
      <4>1. cache[m].expires \in (now + 1)..(now + TTL)
        BY <1>0, <3>1 DEF CacheInv
      <4> QED
        BY <1>0, <4>1
    <3>5. ASSUME NEW k \in Key, Reached(m, k)
          PROVE  index'[k] # None /\ m \in index'[k].has /\ cache'[m].expires <= index'[k].expires
      BY <1>7, <3>1, <3>4, <3>5 DEF Reached
    <3> QED
      BY <1>4, <2>1, <3>1, <3>3, <3>5 DEF Reached, Current
  <2> QED
    BY <2>2, <2>3
<1>9. ReachInv'
  BY <1>4, <1>8 DEF ReachInv
<1>10. SpentInv'
  BY <1>3, <1>4 DEF SpentInv, Idle
<1>11. AloneInv'
  <2>1. reader'[r] = Idle /\ \A q \in Reader \ {r} : reader'[q] = reader[q]
    BY <1>0, <1>4 DEF TablesOK
  <2> QED
    BY <1>4, <2>1 DEF Calm, AloneInv, Current
<1> QED
  BY <1>9, <1>10, <1>11 DEF Calm

\* A change that knows whom it made stale, or the index that knows.
LEMMA ChangeStaysCalm ==
  ASSUME CacheAssumption, Bounded, Calm, ~MayOverlap,
         NEW w \in Writer, NEW members \in SUBSET Member, NEW moved, NEW job,
         Change(w, members, moved, job),
         \A m \in Member \ members : moved[m] = role[m],
         job.at = "drop" => job.spent = {},
         \A m \in members : cache[m] # None =>
           \/ Pursued(m)
           \/ job.at = "drop" /\ m \in job.members
           \/ job.at = "find" /\ Reached(m, job.key)
  PROVE  Calm'
<1>0. TablesOK
  BY DEF Bounded
<1>1. /\ writer[w] = Idle /\ \A r \in Reader : reader[r] = Idle
      /\ ended' = [m \in Member |-> IF m \in members THEN Append(ended[m], now) ELSE ended[m]]
      /\ role' = moved /\ writer' = [writer EXCEPT ![w] = job]
      /\ UNCHANGED <<cache, index, reader>>
  BY DEF Change
<1>2. writer'[w] = job /\ \A q \in Writer \ {w} : writer'[q] = writer[q]
  BY <1>0, <1>1 DEF TablesOK
<1>3. \A m \in Member : \A k : Reached(m, k) =>
        index'[k] # None /\ m \in index'[k].has /\ cache'[m].expires <= index'[k].expires
  BY <1>1 DEF Reached
<1>4. ASSUME NEW m \in Member, Pursued(m) PROVE Pursued(m)'
  <2>1. PICK q \in Writer : \/ writer[q].at = "drop" /\ m \in writer[q].members
                            \/ writer[q].at = "find" /\ Reached(m, writer[q].key)
    BY <1>4 DEF Pursued
  <2>2. writer'[q] = writer[q]
    BY <1>1, <1>2, <2>1 DEF Idle
  <2> QED
    BY <1>1, <2>1, <2>2 DEF Pursued, Reached
<1>5. ReachInv'
  <2>1. SUFFICES ASSUME NEW m \in Member, cache'[m] # None
                 PROVE  /\ Reached(m, UserOf[m])'
                        /\ Pursued(m)' \/ (cache'[m].version = Current(m)' /\ Reached(m, role[m])')
    BY DEF ReachInv
  <2>2. /\ cache[m] # None /\ cache'[m] = cache[m] /\ Reached(m, UserOf[m])
        /\ Pursued(m) \/ (cache[m].version = Current(m) /\ Reached(m, role[m]))
    BY <1>1, <2>1 DEF Calm, ReachInv
  <2>3. Reached(m, UserOf[m])'
    BY <1>1, <2>2 DEF Reached
  <2>4. CASE m \in members
    <3>1. \/ job.at = "drop" /\ m \in job.members
          \/ job.at = "find" /\ Reached(m, job.key)
          => Pursued(m)'
      BY <1>1, <1>2 DEF Pursued, Reached
    <3> QED
      BY <1>4, <2>2, <2>3, <2>4, <3>1
  <2>5. CASE m \notin members
    <3>1. role'[m] = role[m] /\ ended'[m] = ended[m]
      BY <1>1, <2>5
    <3> QED
      BY <1>1, <1>4, <2>2, <2>3, <3>1 DEF Current, Reached
  <2> QED
    BY <2>4, <2>5
<1>6. SpentInv'
  BY <1>1, <1>2 DEF Calm, SpentInv
<1>7. AloneInv'
  BY <1>1 DEF AloneInv
<1> QED
  BY <1>5, <1>6, <1>7 DEF Calm

\* What a writer is about to do.
LEMMA JobIs ==
  ASSUME TablesOK, NEW w \in Writer
  PROVE  /\ writer[w].at = "drop" =>
              writer[w].members \subseteq Member /\ writer[w].spent \subseteq Key
         /\ writer[w].at = "find" => writer[w].key \in Key
<1>1. \/ writer[w] = [at |-> "none"]
      \/ writer[w] \in [at : {"find"}, key : Key]
      \/ writer[w] \in [at : {"drop"}, members : SUBSET Member, spent : SUBSET Key]
  BY DEF TablesOK, Jobs, Idle
<1>2. CASE writer[w] = [at |-> "none"]
  BY <1>2
<1>3. CASE writer[w] \in [at : {"find"}, key : Key]
  BY <1>3
<1>4. CASE writer[w] \in [at : {"drop"}, members : SUBSET Member, spent : SUBSET Key]
  BY <1>4
<1> QED
  BY <1>1, <1>2, <1>3, <1>4

\* An index is read, and what it named is dropped together with it.
LEMMA InvalidationStaysCalm ==
  ASSUME CacheAssumption, Bounded, Calm, NEW w \in Writer, Find(w) \/ Drop(w)
  PROVE  Calm'
<1>0. TablesOK
  BY DEF Bounded
<1>1. /\ writer[w] # Idle /\ \A r \in Reader : reader[r] = Idle
      /\ UNCHANGED <<ended, role, reader>>
      /\ \A q \in Writer \ {w} : writer'[q] = writer[q]
  BY <1>0 DEF Find, Drop, Idle, Calm, AloneInv, db, TablesOK
<1>2. AloneInv'
  BY <1>1 DEF AloneInv
<1>3. CASE Find(w)
  <2>1. PICK k : k = writer[w].key
    OBVIOUS
  <2>2. /\ UNCHANGED <<cache, index>> /\ writer[w].at = "find"
        /\ writer'[w] = [at |-> "drop",
                         members |-> IF index[k] = None THEN {} ELSE index[k].has, spent |-> {k}]
    BY <1>0, <1>3, <2>1 DEF Find, TablesOK
  <2>3. ASSUME NEW m \in Member, Pursued(m) PROVE Pursued(m)'
    <3>1. PICK q \in Writer : \/ writer[q].at = "drop" /\ m \in writer[q].members
                              \/ writer[q].at = "find" /\ Reached(m, writer[q].key)
      BY <2>3 DEF Pursued
    <3>2. CASE q = w
      BY <2>1, <2>2, <3>1, <3>2 DEF Pursued, Reached
    <3>3. CASE q # w
      BY <1>1, <2>2, <3>1, <3>3 DEF Pursued, Reached
    <3> QED
      BY <3>2, <3>3
  <2>4. ReachInv'
    BY <1>1, <2>2, <2>3 DEF Calm, ReachInv, Reached, Current
  <2>5. SpentInv'
    BY <1>1, <2>2 DEF Calm, SpentInv
  <2> QED
    BY <1>2, <2>4, <2>5 DEF Calm
<1>4. CASE Drop(w)
  <2>1. /\ cache' = [m \in Member |-> IF m \in writer[w].members THEN None ELSE cache[m]]
        /\ index' = [k \in Key |-> IF k \in writer[w].spent THEN None ELSE index[k]]
        /\ writer[w].at = "drop" /\ writer'[w] = Idle
    BY <1>0, <1>4 DEF Drop, TablesOK
  <2>2. writer[w].spent \subseteq Key
    BY <1>0, <2>1, JobIs
  <2>3. ASSUME NEW m \in Member, cache'[m] # None, NEW k \in Key, Reached(m, k)
        PROVE  cache'[m] = cache[m] /\ index'[k] = index[k]
    BY <2>1, <2>3 DEF Reached, Calm, SpentInv
  <2>4. ASSUME NEW m \in Member, cache'[m] # None, Pursued(m) PROVE Pursued(m)'
    <3>1. PICK q \in Writer : \/ writer[q].at = "drop" /\ m \in writer[q].members
                              \/ writer[q].at = "find" /\ Reached(m, writer[q].key)
      BY <2>4 DEF Pursued
    <3>2. q # w /\ writer'[q] = writer[q]
      BY <1>1, <2>1, <2>4, <3>1
    <3>3. writer[q].at = "find" => writer[q].key \in Key
      BY <1>0, <3>1, JobIs
    <3> QED
      BY <2>3, <2>4, <3>1, <3>2, <3>3 DEF Pursued, Reached
  <2>5. ReachInv'
    <3>1. SUFFICES ASSUME NEW m \in Member, cache'[m] # None
                   PROVE  /\ Reached(m, UserOf[m])'
                          /\ Pursued(m)' \/ (cache'[m].version = Current(m)' /\ Reached(m, role[m])')
      BY DEF ReachInv
    <3>2. UserOf[m] \in Key /\ role[m] \in Key /\ cache'[m] = cache[m]
      BY <1>0, <2>1, <3>1 DEF TablesOK, CacheAssumption, Key
    <3>3. /\ Reached(m, UserOf[m])
          /\ Pursued(m) \/ (cache[m].version = Current(m) /\ Reached(m, role[m]))
      BY <3>1, <3>2 DEF Calm, ReachInv
    <3> QED
      BY <1>1, <2>3, <2>4, <3>1, <3>2, <3>3 DEF Reached, Current
  <2>6. SpentInv'
    <3>1. \A q \in Writer \ {w} : writer'[q].at = "drop" => writer[q].spent \subseteq Key
      BY <1>0, <1>1, JobIs
    <3> QED
      BY <1>1, <2>1, <3>1 DEF Calm, SpentInv, Idle
  <2> QED
    BY <1>2, <2>5, <2>6 DEF Calm
<1> QED
  BY <1>3, <1>4

\* What expires is not reached by its index any more, but neither is it there.
LEMMA TickStaysCalm ==
  ASSUME CacheAssumption, Bounded, Calm, Tick
  PROVE  Calm'
<1>0. TablesOK /\ (\A m \in Member : CacheInv(m)) /\ now \in Nat /\ TTL \in Nat
  BY DEF Bounded, TablesOK, CacheAssumption
<1>1. /\ cache' = [m \in Member |-> Living(cache[m])]
      /\ index' = [k \in Key |-> Living(index[k])]
      /\ UNCHANGED <<ended, role, reader, writer>>
  BY DEF Tick
<1>2. ASSUME NEW m \in Member, cache'[m] # None
      PROVE  /\ cache'[m] = cache[m] /\ cache[m] # None
             /\ ~(cache[m].expires <= now + 1) /\ cache[m].expires \in Nat
  <2>1. cache'[m] = cache[m] /\ cache[m] # None /\ ~(cache[m].expires <= now + 1)
    BY <1>1, <1>2 DEF Living
  <2>2. cache[m].expires \in (now + 1)..(now + TTL)
    BY <1>0, <2>1 DEF CacheInv
  <2> QED
    BY <1>0, <2>1, <2>2
<1>3. ASSUME NEW m \in Member, cache'[m] # None, NEW k \in Key, Reached(m, k)
      PROVE  index'[k] = index[k]
  <2>1. index[k].expires \in Nat /\ cache[m].expires <= index[k].expires
    BY <1>0, <1>3 DEF Reached, TablesOK
  <2>2. ~(index[k].expires <= now + 1)
    BY <1>0, <1>2, <1>3, <2>1
  <2> QED
    BY <1>1, <2>2 DEF Living
<1>4. ASSUME NEW m \in Member, cache'[m] # None, Pursued(m) PROVE Pursued(m)'
  <2>1. PICK q \in Writer : \/ writer[q].at = "drop" /\ m \in writer[q].members
                            \/ writer[q].at = "find" /\ Reached(m, writer[q].key)
    BY <1>4 DEF Pursued
  <2>2. writer[q].at = "find" => writer[q].key \in Key
    BY <1>0, JobIs
  <2> QED
    BY <1>1, <1>2, <1>3, <1>4, <2>1, <2>2 DEF Pursued, Reached
<1>5. ReachInv'
  <2>1. SUFFICES ASSUME NEW m \in Member, cache'[m] # None
                 PROVE  /\ Reached(m, UserOf[m])'
                        /\ Pursued(m)' \/ (cache'[m].version = Current(m)' /\ Reached(m, role[m])')
    BY DEF ReachInv
  <2>2. UserOf[m] \in Key /\ role[m] \in Key
    BY <1>0 DEF TablesOK, CacheAssumption, Key
  <2>3. /\ Reached(m, UserOf[m])
        /\ Pursued(m) \/ (cache[m].version = Current(m) /\ Reached(m, role[m]))
    BY <1>2, <2>1 DEF Calm, ReachInv
  <2> QED
    BY <1>1, <1>2, <1>3, <1>4, <2>1, <2>2, <2>3 DEF Reached, Current
<1>6. SpentInv'
  <2>1. \A q \in Writer : writer[q].at = "drop" =>
          \A k \in writer[q].spent : index'[k] = None \/ index'[k] = index[k]
    BY <1>0, <1>1, JobIs DEF Living
  <2> QED
    BY <1>1, <2>1 DEF Calm, SpentInv
<1>7. AloneInv'
  BY <1>1 DEF Calm, AloneInv, Current
<1> QED
  BY <1>5, <1>6, <1>7 DEF Calm

LEMMA CalmInvariant ==
  ASSUME CacheAssumption, ~MayOverlap, ~MayFail
  PROVE  Spec => []Calm
<1>1. ASSUME Init PROVE Calm
  BY <1>1 DEF Init, Calm, ReachInv, SpentInv, AloneInv, Idle
<1>2. ASSUME Bounded, Calm, [Next]_vars PROVE Calm'
  <2>0. TablesOK
    BY <1>2 DEF Bounded
  <2>1. CASE UNCHANGED vars \/ \E m \in Member : Hit(m)
    <3>1. UNCHANGED <<db, cache, index, reader, writer>>
      BY <2>1 DEF Hit, vars, db
    <3> QED
      BY <1>2, <3>1 DEF Calm, ReachInv, Pursued, Reached, SpentInv, AloneInv, Current, db
  <2>2. ASSUME NEW r \in Reader, NEW m \in Member, Fetch(r, m) PROVE Calm'
    <3>1. /\ reader' = [reader EXCEPT ![r] = [at |-> "read", member |-> m,
                          version |-> Current(m), role |-> role[m], time |-> now]]
          /\ UNCHANGED <<ended, role, cache, index, writer>>
          /\ \A w \in Writer : writer[w] = Idle
      BY <2>2 DEF Fetch, db
    <3>2. /\ reader'[r].version = Current(m) /\ reader'[r].role = role[m]
          /\ reader'[r].member = m
          /\ \A q \in Reader \ {r} : reader'[q] = reader[q]
      BY <2>0, <3>1 DEF TablesOK
    <3>3. AloneInv'
      BY <1>2, <3>1, <3>2 DEF Calm, AloneInv, Current
    <3>4. ReachInv' /\ SpentInv'
      BY <1>2, <3>1 DEF Calm, ReachInv, Pursued, Reached, SpentInv, Current
    <3> QED
      BY <3>3, <3>4 DEF Calm
  <2>3. ASSUME NEW r \in Reader, Store(r) PROVE Calm'
    BY <1>2, <2>3, StoreStaysCalm
  <2>4. ASSUME NEW w \in Writer, NEW m \in Member, NEW k \in Role, ChangeMembership(w, m, k)
        PROVE  Calm'
    <3> DEFINE moved == [role EXCEPT ![m] = k]
               job == [at |-> "drop", members |-> {m}, spent |-> {}]
    <3>1. Change(w, {m}, moved, job)
      BY <2>4 DEF ChangeMembership
    <3>2. /\ \A q \in Member \ {m} : moved[q] = role[q]
          /\ job.at = "drop" /\ job.spent = {} /\ job.members = {m}
      BY <2>0 DEF TablesOK
    <3> HIDE DEF moved, job
    <3> QED
      BY <1>2, <3>1, <3>2, ChangeStaysCalm
  <2>5. ASSUME NEW w \in Writer, NEW k \in Role, ChangeRole(w, k) PROVE Calm'
    <3> DEFINE members == {m \in Member : role[m] = k}
               job == [at |-> "find", key |-> k]
    <3>1. Change(w, members, role, job)
      BY <2>5 DEF ChangeRole
    <3>2. \A m \in members : cache[m] # None => Pursued(m) \/ Reached(m, k)
      BY <1>2 DEF Calm, ReachInv
    <3>3. job.at = "find" /\ job.key = k /\ members \in SUBSET Member
      OBVIOUS
    <3> HIDE DEF members, job
    <3> QED
      BY <1>2, <3>1, <3>2, <3>3, ChangeStaysCalm
  <2>6. ASSUME NEW w \in Writer, NEW u \in User, ChangeUser(w, u) PROVE Calm'
    <3> DEFINE members == {m \in Member : UserOf[m] = u}
               job == [at |-> "find", key |-> u]
    <3>1. Change(w, members, role, job)
      BY <2>6 DEF ChangeUser
    <3>2. \A m \in members : cache[m] # None => Reached(m, u)
      BY <1>2 DEF Calm, ReachInv
    <3>3. job.at = "find" /\ job.key = u /\ members \in SUBSET Member
      OBVIOUS
    <3> HIDE DEF members, job
    <3> QED
      BY <1>2, <3>1, <3>2, <3>3, ChangeStaysCalm
  <2>7. ASSUME NEW w \in Writer, NEW s \in School, ChangeSchool(w, s) PROVE Calm'
    <3> DEFINE members == {m \in Member : SchoolOf[m] = s}
               job == [at |-> "drop", members |-> members, spent |-> {}]
    <3>1. Change(w, members, role, job)
      BY <2>7 DEF ChangeSchool
    <3>2. /\ job.at = "drop" /\ job.spent = {} /\ job.members = members
          /\ members \in SUBSET Member
      OBVIOUS
    <3> HIDE DEF members, job
    <3> QED
      BY <1>2, <3>1, <3>2, ChangeStaysCalm
  <2>8. ASSUME NEW w \in Writer, Find(w) \/ Drop(w) PROVE Calm'
    BY <1>2, <2>8, InvalidationStaysCalm
  <2>9. CASE Tick
    BY <1>2, <2>9, TickStaysCalm
  <2> QED
    BY <1>2, <2>1, <2>2, <2>3, <2>4, <2>5, <2>6, <2>7, <2>8, <2>9 DEF Next, Fail
<1> QED
  BY <1>1, <1>2, BoundedInvariant, PTL DEF Spec

-----------------------------------------------------------------------------
(* The theorems on what is cached. *)

\* The types, and that an invalidation by index reaches what is cached.
THEOREM CacheTypeCorrect ==
  ASSUME CacheAssumption
  PROVE  Spec => []TypeOK
<1>1. ASSUME Bounded, ~MayOverlap /\ ~MayFail => Calm PROVE TypeOK
  <2>1. /\ TablesOK /\ (\A m \in Member : CacheInv(m)) /\ MaxChanges \in Nat
        /\ now \in Nat /\ TTL \in Nat
    BY <1>1 DEF Bounded, TablesOK, CacheAssumption
  <2>2. ASSUME NEW m \in Member, cache[m] # None PROVE cache[m] \in Snapshots
    <3>1. cache[m] \in [version : 1..Current(m), expires : (now + 1)..(now + TTL)]
      BY <2>1, <2>2 DEF CacheInv
    <3>2. Len(ended[m]) \in Nat /\ Len(ended[m]) <= MaxChanges
      BY <2>1 DEF TablesOK
    <3>3. cache[m].version \in 1..(MaxChanges + 1) /\ cache[m].expires \in Nat
      BY <2>1, <3>1, <3>2 DEF Current
    <3> QED
      BY <3>1, <3>3 DEF Snapshots
  <2>3. \A k \in Key : index[k] = None \/ index[k].has \subseteq Member
    BY <2>1 DEF TablesOK
  <2>4. ~MayOverlap /\ ~MayFail =>
          \A m \in Member : cache[m] # None =>
            index[UserOf[m]] # None /\ m \in index[UserOf[m]].has
    BY <1>1 DEF Calm, ReachInv, Reached
  <2> QED
    BY <2>1, <2>2, <2>3, <2>4 DEF TypeOK, TablesOK
<1>2. CASE ~MayOverlap /\ ~MayFail
  BY <1>1, <1>2, BoundedInvariant, CalmInvariant, PTL
<1>3. CASE ~(~MayOverlap /\ ~MayFail)
  BY <1>1, <1>3, BoundedInvariant, PTL
<1> QED
  BY <1>2, <1>3

\* Once every change has been awaited, the next request is answered with what
\* holds, unless one was between its read and its write meanwhile
\* (invalidateMembership, invalidateRole, invalidateUser).
THEOREM AwaitedChangesAreSeen ==
  ASSUME CacheAssumption, ~MayOverlap, ~MayFail
  PROVE  Spec => []NextRequestSeesChange
<1>1. Calm => NextRequestSeesChange
  BY DEF Calm, ReachInv, Pursued, NextRequestSeesChange, Idle
<1> QED
  BY <1>1, CalmInvariant, PTL
=============================================================================
