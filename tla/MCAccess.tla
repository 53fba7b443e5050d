------------------------------ MODULE MCAccess ------------------------------
(***************************************************************************)
(* Instances for TLC of who may do what: memberships and operators, the    *)
(* cache of memberships, roles, sessions, and accounts.  These share no    *)
(* row the checks depend on, so a behaviour is of one of them, and `on`    *)
(* says which and under which constants.  (MCMembershipCache has the cache *)
(* under failures and readers that overlap with writers.)                  *)
(***************************************************************************)
EXTENDS Roles, Sequences, TLC

CONSTANTS x1, x2, x3, y1, y2, q1, q2

VARIABLES
  on,
  account, member, links, operator,                          \* memberships
  now, ended, answer, role, cache, index, reader, writer,    \* the cache
  token, version, open, over, closed,                        \* sessions
  staff, attempts, locked, verified, link, failed, used,     \* accounts
  bundle, holds,                                             \* roles, one at a time
  req                \* of whoever is on, with job; the others are those of Roles

memberVars  == <<account, member, links, operator>>
cacheVars   == <<now, ended, answer, role, cache, index, reader, writer>>
roleVars    == <<perms, name, slug, roleOf, asked, bundle, holds>>
sessionVars == <<token, version, open, over, closed>>
accountVars == <<staff, attempts, locked, verified, link, failed, used>>
allVars == <<on, memberVars, cacheVars, roleVars, sessionVars, accountVars, req, job>>

Trio     == {x1, x2, x3}
Two      == {y1, y2}
One      == {"q"}
Both     == {q1, q2}
Symmetry == Permutations(Trio) \cup Permutations(Two) \cup Permutations(Both)

-----------------------------------------------------------------------------
(* Memberships: three persons in two schools, or invitations of one school. *)
Members == INSTANCE Memberships WITH
  Person <- Trio, School <- Two, Request <- One, MaxLinks <- 1, ScriptRoles <- {"OWNER"},
  MayOverlap <- FALSE, MayStop <- TRUE

Invitations == INSTANCE Memberships WITH
  Person <- Trio, School <- {y1}, Request <- One, MaxLinks <- 3, ScriptRoles <- {"OWNER"},
  MayOverlap <- FALSE, MayStop <- TRUE

(* The cache: one user in two schools, with two roles; no reader is at     *)
(* work beside a writer, and no call fails.                                *)
Seats      == {"m1", "m2"}
OneUser    == [m \in Seats |-> "u1"]
TwoSchools == [m \in Seats |-> IF m = "m1" THEN "s1" ELSE "s2"]

CacheCalm == INSTANCE MembershipCache WITH
  Member <- Seats, Role <- Two, User <- {"u1"}, School <- {"s1", "s2"}, Reader <- {"r1"},
  Writer <- {"w1"}, UserOf <- OneUser, SchoolOf <- TwoSchools, TTL <- 1, IndexTTL <- 3,
  Delay <- 1, MaxTime <- 3, MaxChanges <- 1, MayOverlap <- FALSE, MayFail <- FALSE

(* Roles: an administrator keeps the staff, a deputy in a custom role the   *)
(* roles as well, and these two act at once (the constants of this module). *)
(* Or proprietor and administrator, one at a time, with room for another    *)
(* role.                                                                   *)
FirstPerms == (Proprietor :> Perm) @@ ("standard" :> {Manager}) @@ ("c1" :> {Admin, Manager})
CalmPerms  == (Proprietor :> {Admin, Manager}) @@ ("standard" :> {Admin}) @@ ("c1" :> {Admin})
Holders    == ("boss" :> Proprietor) @@ ("admin" :> "standard") @@ ("deputy" :> "c1")
TwoHolders == [m \in {"boss", "admin"} |-> Holders[m]]
Names      == (Proprietor :> "n1") @@ ("standard" :> "n2") @@ ("c1" :> "n3")
OneSlug    == [n \in {"n1", "n2", "n3", "n4"} |-> IF n = "n4" THEN "n3" ELSE n]

RolesCalm == INSTANCE Roles WITH
  Role <- {Proprietor, "standard", "c1", "c2"}, Perm <- {Admin, Manager}, First <- CalmPerms, Name <- {"n1", "n2", "n3", "n4"},
  Member <- {"boss", "admin"}, Actor <- {"boss", "admin"}, HolderOf <- TwoHolders,
  Request <- One, Custom <- {"c1", "c2"}, MayOverlap <- FALSE,
  perms <- bundle, roleOf <- holds

(* Sessions: two doors to schools, or the platform. *)
Logins == INSTANCE Sessions WITH
  Token <- Trio, Family <- Two, Member <- {"m1", "m2"}, Request <- One, MaxVersion <- 3,
  MayOverlap <- FALSE, MayStop <- FALSE, ended <- closed

LoginsOverlap == INSTANCE Sessions WITH
  Token <- Trio, Family <- Two, Member <- {"m1"}, Request <- Both, MaxVersion <- 2,
  MayOverlap <- TRUE, MayStop <- TRUE, ended <- closed

(* Accounts: three links. *)
Account == INSTANCE Accounts WITH
  Link <- Trio, Request <- One, MaxFailed <- 3, MayOverlap <- FALSE, MayStop <- TRUE,
  operator <- staff

ASSUME /\ Members!MembershipsAssumption /\ Invitations!MembershipsAssumption
       /\ CacheCalm!CacheAssumption
       /\ RolesCalm!RolesAssumption /\ RolesAssumption
       /\ Logins!SessionsAssumption /\ LoginsOverlap!SessionsAssumption
       /\ Account!AccountsAssumption

-----------------------------------------------------------------------------
NoMembers  == account = None /\ member = None /\ links = None /\ operator = None
NoCache    == /\ now = None /\ ended = None /\ answer = None /\ role = None
              /\ cache = None /\ index = None /\ reader = None /\ writer = None
NoTeam     == perms = [r \in Role |-> {}] /\ roleOf = HolderOf
NoRoles    == /\ NoTeam /\ bundle = None /\ holds = None
              /\ name = None /\ slug = None /\ asked = None
NoSessions == token = None /\ version = None /\ open = None /\ over = None /\ closed = None
NoAccounts == /\ staff = None /\ attempts = None /\ locked = None /\ verified = None
              /\ link = None /\ failed = None /\ used = None

AnyInit ==
  \/ /\ \/ on = "members" /\ Members!Init
        \/ on = "invitations" /\ Invitations!Init
     /\ NoCache /\ NoRoles /\ NoSessions /\ NoAccounts /\ job = None
  \/ /\ on = "cacheCalm" /\ CacheCalm!Init
     /\ NoMembers /\ NoRoles /\ NoSessions /\ NoAccounts /\ req = None /\ job = None
  \/ /\ \/ on = "roles" /\ RolesCalm!Init /\ NoTeam
        \/ on = "rolesOverlap" /\ Init /\ bundle = None /\ holds = None
     /\ NoMembers /\ NoCache /\ NoSessions /\ NoAccounts /\ req = None
  \/ /\ \/ on = "logins" /\ Logins!Init
        \/ on = "loginsOverlap" /\ LoginsOverlap!Init
     /\ NoMembers /\ NoCache /\ NoRoles /\ NoAccounts /\ req = None
  \/ /\ on = "account" /\ Account!Init
     /\ NoMembers /\ NoCache /\ NoRoles /\ NoSessions /\ req = None

InMembers ==
  /\ \/ on = "members" /\ Members!Next
     \/ on = "invitations" /\ Invitations!Next
  /\ UNCHANGED <<on, cacheVars, roleVars, sessionVars, accountVars, job>>

InCache ==
  /\ on = "cacheCalm" /\ CacheCalm!Next
  /\ UNCHANGED <<on, memberVars, roleVars, sessionVars, accountVars, req, job>>

InRoles ==
  /\ \/ on = "roles" /\ RolesCalm!Next /\ UNCHANGED <<perms, roleOf>>
     \/ on = "rolesOverlap" /\ Next /\ UNCHANGED <<bundle, holds>>
  /\ UNCHANGED <<on, memberVars, cacheVars, sessionVars, accountVars, req>>

InSessions ==
  /\ \/ on = "logins" /\ Logins!Next
     \/ on = "loginsOverlap" /\ LoginsOverlap!Next
  /\ UNCHANGED <<on, memberVars, cacheVars, roleVars, accountVars, req>>

InAccounts ==
  /\ on = "account" /\ Account!Next
  /\ UNCHANGED <<on, memberVars, cacheVars, roleVars, sessionVars, req>>

AnyNext == InMembers \/ InCache \/ InRoles \/ InSessions \/ InAccounts

AnySpec == AnyInit /\ [][AnyNext]_allVars

-----------------------------------------------------------------------------
(***************************************************************************)
(* Types of every component, each while it is on.  (Of sessions, with one   *)
(* request at a time: an access token's end is written down apart from its *)
(* refresh token's.)                                                       *)
(***************************************************************************)
TypesOK ==
  /\ on = "members" => Members!TypeOK
  /\ on = "invitations" => Invitations!TypeOK
  /\ on = "cacheCalm" => CacheCalm!TypeOK
  /\ on = "roles" => RolesCalm!TypeOK
  /\ on = "rolesOverlap" => TypeOK
  /\ on = "logins" => Logins!TypeOK
  /\ on = "account" => Account!TypeOK

(***************************************************************************)
(* Nobody locks a school or the platform out: a school keeps an active     *)
(* proprietor and the platform an owner, of whom none belongs to a school, *)
(* wherever a request stops.  (assertNotLastProprietor, grant, revoke,     *)
(* assertNotPlatformEmail.)                                                *)
(***************************************************************************)
SomebodyIsInCharge ==
  on = "members" => /\ Members!KeepsAProprietor
                    /\ Members!AnOwnerRemains
                    /\ Members!OperatorsStandApart

(***************************************************************************)
(* Of the links that were mailed for one thing only the newest works, and  *)
(* it works once; and failed logins are counted as they come.              *)
(* (createInvitation, createVerificationToken, consumeVerificationToken,   *)
(* registerFailedAttempt.)                                                 *)
(***************************************************************************)
LinksWorkOnce ==
  /\ on = "invitations" => Invitations!OneLiveLink
  /\ on = "account" => /\ Account!OneLiveLink
                       /\ Account!SingleUse
                       /\ Account!FailuresAreCounted

(***************************************************************************)
(* What was taken away is gone: the next request after a change sees it    *)
(* (with no reader at work meanwhile); and a session that was ended, or    *)
(* rotated, leaves no token that works, behind the door it was begun at;   *)
(* and roles hold what was last asked, no more, under names of their own.  *)
(* (invalidateMembership, rotateRefreshToken, revokeAllForUser,            *)
(* setPermissions, assertNameFree.)                                        *)
(***************************************************************************)
AccessIsCurrent ==
  /\ on = "cacheCalm" => CacheCalm!NextRequestSeesChange
  /\ on = "logins" => /\ Logins!OneLiveToken
                      /\ Logins!OverIsOver
                      /\ Logins!AccessIsOver
  /\ on \in {"logins", "loginsOverlap"} => Logins!SessionsKeepTheirDoor
  /\ on = "roles" => RolesCalm!Wholesale /\ RolesCalm!NamesApart

(***************************************************************************)
(* No step gives what its caller does not hold, nobody moves themselves to *)
(* another role, and who has accepted an invitation is not made an invitee *)
(* again.  (setPermissions, reassignMembers, createInvitation.)            *)
(***************************************************************************)
OnlyHeldIsGiven ==
  [][/\ on = "roles" => RolesCalm!GrantsOnlyHeld /\ RolesCalm!NobodyMovesThemselves
     /\ on = "invitations" => Invitations!AcceptanceStands]_allVars
=============================================================================
