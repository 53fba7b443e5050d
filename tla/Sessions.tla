------------------------------ MODULE Sessions ------------------------------
(***************************************************************************)
(* The sessions of one user: TokenService under AuthService and            *)
(* PlatformAuthService.                                                    *)
(*                                                                         *)
(* A session is a family of refresh tokens, each with the access token it  *)
(* was issued with.  Using a refresh token issues a successor and revokes  *)
(* it, in two statements and no transaction; a token that was revoked      *)
(* before ends its family.  Access tokens carry the token version of the   *)
(* user, and are refused once it has moved on.                             *)
(***************************************************************************)
EXTENDS Naturals, FiniteSets

CONSTANTS
  Token, Family, Member, None,
  Request,
  MaxVersion,   \* bound on the changes of version
  MayOverlap,   \* requests overlap
  MayStop       \* the process stops between two statements

SessionsAssumption ==
  /\ MaxVersion \in Nat \ {0} /\ {MayOverlap, MayStop} \subseteq BOOLEAN
  /\ None \notin [family : Family, door : Member \cup {None}, revoked : BOOLEAN, version : Nat]

VARIABLES
  token,     \* refresh_tokens, each with what its access token says
  version,   \* tokenVersion of the user
  open,      \* the doors: active memberships, and None for the platform
  job,       \* what each request has read
  over,      \* the families that a finished request was to end
  ended      \* those of them whose access tokens it was to end as well

vars == <<token, version, open, job, over, ended>>
said == <<over, ended>>

Idle == [at |-> "none"]
Door == Member \cup {None}

Issued   == {t \in Token : token[t] # None}
Live     == {t \in Issued : ~token[t].revoked}
Families == {token[t].family : t \in Issued}

\* validate, validatePlatform: an access token is good for a request.
Accepted(t) == t \in Issued /\ token[t].version = version /\ token[t].door \in open

Init ==
  /\ token = [t \in Token |-> None] /\ version = 1
  /\ open \in {Member, {None}}    \* staff of schools, or of the platform
  /\ job = [q \in Request |-> Idle] /\ over = {} /\ ended = {}

-----------------------------------------------------------------------------
Begin(q) == job[q] = Idle /\ (MayOverlap \/ \A p \in Request : job[p] = Idle)

Set(q, record) == job' = [job EXCEPT ![q] = record]

\* issueTokens, issuePlatformTokens
Issue(t, f, d, v) ==
  /\ token[t] = None
  /\ token' = [token EXCEPT ![t] = [family |-> f, door |-> d, revoked |-> FALSE, version |-> v]]

Revoke(tokens) ==
  token' = [t \in Token |-> IF t \in tokens THEN [token[t] EXCEPT !.revoked = TRUE] ELSE token[t]]

Of(f) == {t \in Issued : token[t].family = f}

-----------------------------------------------------------------------------
(* login on either door, and switchSchool, which begins a family as well.  *)

Enter(q, d) ==
  /\ Begin(q) /\ d \in open
  /\ Set(q, [at |-> "login", door |-> d, version |-> version])
  /\ UNCHANGED <<token, version, open, said>>

\* resolveMembership picks among the active memberships.
Login(q, m)      == m \in Member /\ Enter(q, m)
PlatformLogin(q) == Enter(q, None)

AtSchool(t)        == Accepted(t) /\ token[t].door # None
SwitchSchool(q, t, m) == AtSchool(t) /\ m \in Member /\ Enter(q, m)

LoginIssue(q, t, f) ==
  /\ job[q].at = "login" /\ f \notin Families
  /\ Issue(t, f, job[q].door, job[q].version)
  /\ Set(q, Idle) /\ UNCHANGED <<version, open, said>>

-----------------------------------------------------------------------------
(* refresh: rotateRefreshToken, without an override of the membership.     *)

Rotate(q, t) ==
  /\ Begin(q) /\ t \in Issued
  /\ \/ /\ token[t].revoked
        /\ Set(q, [at |-> "reuse", family |-> token[t].family])
     \/ /\ ~token[t].revoked /\ token[t].door # None
        /\ Set(q, [at |-> "rotate", token |-> t, version |-> version, door |-> token[t].door])
  /\ UNCHANGED <<token, version, open, said>>

\* revokeFamily
ReuseEnds(q) ==
  /\ job[q].at = "reuse"
  /\ Revoke(Of(job[q].family)) /\ over' = over \cup {job[q].family}
  /\ Set(q, Idle) /\ UNCHANGED <<version, open, ended>>

RotateIssue(q, t) ==
  /\ job[q].at = "rotate"
  /\ Issue(t, token[job[q].token].family, job[q].door, job[q].version)
  /\ Set(q, [at |-> "retire", token |-> job[q].token]) /\ UNCHANGED <<version, open, said>>

\* A bug: the old token is left as it was.
RetireNothing(q) ==
  /\ job[q].at = "retire"
  /\ Set(q, Idle) /\ UNCHANGED <<token, version, open, said>>

Retire(q) ==
  /\ job[q].at = "retire"
  /\ Revoke({job[q].token})
  /\ Set(q, Idle) /\ UNCHANGED <<version, open, said>>

-----------------------------------------------------------------------------
\* logout: revokeRefreshToken.
Logout(q, t) ==
  /\ Begin(q) /\ t \in Live
  /\ Revoke({t}) /\ over' = over \cup {token[t].family}
  /\ UNCHANGED <<version, open, job, ended>>

\* logoutAll revokes, then moves the version on.
LogoutAll(q, t) ==
  /\ Begin(q) /\ AtSchool(t) /\ version < MaxVersion
  /\ Revoke(Issued)
  /\ Set(q, [at |-> "bump", families |-> Families]) /\ UNCHANGED <<version, open, said>>

Bump(q) ==
  /\ job[q].at = "bump"
  /\ version' = version + 1 /\ over' = over \cup job[q].families /\ ended' = ended \cup job[q].families
  /\ Set(q, Idle) /\ UNCHANGED <<token, open>>

\* A new password is the other way round.
NewPassword(q) ==
  /\ Begin(q) /\ version < MaxVersion
  /\ version' = version + 1
  /\ Set(q, [at |-> "revoke", families |-> Families]) /\ UNCHANGED <<token, open, said>>

ChangePassword(q, t)         == AtSchool(t) /\ NewPassword(q)
PlatformChangePassword(q, t) == Accepted(t) /\ token[t].door = None /\ NewPassword(q)
ResetPassword(q)             == NewPassword(q)   \* with a link from an e-mail

RevokeAll(q) ==
  /\ job[q].at = "revoke"
  /\ Revoke(Issued) /\ over' = over \cup job[q].families /\ ended' = ended \cup job[q].families
  /\ Set(q, Idle) /\ UNCHANGED <<version, open>>

\* A membership, a school or an operator is suspended, or let in again.
Suspend(d)    == d \in open /\ open' = open \ {d} /\ UNCHANGED <<token, version, job, said>>
Reactivate(m) == m \in Member \ open /\ (open = {} \/ None \notin open)
                 /\ open' = open \cup {m} /\ UNCHANGED <<token, version, job, said>>

Stop(q) == MayStop /\ job[q] # Idle /\ Set(q, Idle) /\ UNCHANGED <<token, version, open, said>>

Ask(q) ==
  \/ \E m \in Member : Login(q, m)
  \/ PlatformLogin(q) \/ ResetPassword(q)
  \/ \E t \in Token : \/ Rotate(q, t) \/ Logout(q, t) \/ LogoutAll(q, t)
                      \/ ChangePassword(q, t) \/ PlatformChangePassword(q, t)
                      \/ \E m \in Member : SwitchSchool(q, t, m)

Proceed(q) ==
  \/ \E t \in Token : \/ RotateIssue(q, t)
                      \/ \E f \in Family : LoginIssue(q, t, f)
  \/ ReuseEnds(q) \/ Retire(q) \/ Bump(q) \/ RevokeAll(q)

Next ==
  \/ \E q \in Request : Ask(q) \/ Proceed(q) \/ Stop(q)
  \/ \E d \in Door : Suspend(d)
  \/ \E m \in Member : Reactivate(m)

Spec == Init /\ [][Next]_vars

-----------------------------------------------------------------------------
Quiet == \A q \in Request : job[q] = Idle

(***************************************************************************)
(* Types; and whose access tokens were ended, their refresh tokens were.   *)
(* (refresh_tokens.)                                                       *)
(***************************************************************************)
TypeOK ==
  /\ token \in [Token -> {None} \cup [family : Family, door : Door, revoked : BOOLEAN,
                                      version : 1..MaxVersion]]
  /\ version \in 1..MaxVersion /\ open \subseteq Door /\ ended \subseteq over

(***************************************************************************)
(* "Rotated on every use": between requests, a session has at most one     *)
(* refresh token that works.  (rotateRefreshToken.)                        *)
(***************************************************************************)
OneLiveToken ==
  Quiet => \A t, u \in Live : token[t].family = token[u].family => t = u

(***************************************************************************)
(* Logging out, everywhere or not, a new password, and a token used twice  *)
(* end the sessions they are about for good: none of their refresh tokens  *)
(* works any more.  (logout, logoutAll, changePassword, resetPassword,     *)
(* revokeFamily.)                                                          *)
(***************************************************************************)
OverIsOver ==
  Quiet => \A t \in Live : token[t].family \notin over

(***************************************************************************)
(* "A rotation with no membership cannot produce a school token": a        *)
(* session stays behind the door it was begun at, whatever overlaps and    *)
(* wherever the process stops.  (rotateRefreshToken, issuePlatformTokens.) *)
(***************************************************************************)
SessionsKeepTheirDoor ==
  \A t, u \in Issued : token[t].family = token[u].family => token[t].door = token[u].door

(***************************************************************************)
(* "Bumping the version kills every outstanding access token too": once    *)
(* everyone was signed out or the password is new, the access tokens of    *)
(* those sessions are refused.  (logoutAll, changePassword.)               *)
(***************************************************************************)
AccessIsOver ==
  Quiet => \A t \in Issued : token[t].family \in ended => ~Accepted(t)

(***************************************************************************)
(* Why they hold.  Tokens are never deleted, and none is newer than the    *)
(* version of the user.  One request at a time and none that stops, a      *)
(* session has one live token, or the one that is being retired and its    *)
(* successor; of a session that is over none lives; and whose access was   *)
(* ended, the version has left behind.                                     *)
(***************************************************************************)
JobOK(j) ==
  \/ j = Idle
  \/ j \in [at : {"login"}, door : Door, version : Nat \ {0}] /\ j.version <= version
  \/ j \in [at : {"reuse"}, family : Family] /\ j.family \in Families
  \/ /\ j \in [at : {"rotate"}, token : Token, version : Nat \ {0}, door : Door]
     /\ j.token \in Issued /\ j.door = token[j.token].door /\ j.version <= version
  \/ j \in [at : {"retire"}, token : Token] /\ j.token \in Issued
  \/ j \in [at : {"bump", "revoke"}, families : SUBSET Family] /\ j.families \subseteq Families

Typed ==
  /\ token \in [Token -> {None} \cup [family : Family, door : Door, revoked : BOOLEAN,
                                      version : Nat \ {0}]]
  /\ version \in Nat \ {0} /\ open \subseteq Door
  /\ ended \subseteq over /\ over \subseteq Families
  /\ \A t \in Issued : token[t].version <= version
  /\ job = [q \in Request |-> job[q]] /\ \A q \in Request : JobOK(job[q])
  /\ SessionsKeepTheirDoor

Checked(j) ==
  /\ j.at = "rotate" => j.token \in Live
  /\ j.at = "bump"   => Live = {} /\ version < MaxVersion
  /\ j.at = "revoke" => \A t \in Issued : token[t].version < version

Retiring(t) == \E q \in Request : job[q].at = "retire" /\ job[q].token = t

AloneInv ==
  /\ version <= MaxVersion
  /\ \A p, q \in Request : job[p] # Idle /\ job[q] # Idle => p = q
  /\ \A q \in Request : Checked(job[q])
  /\ \A t, u \in Live : token[t].family = token[u].family => t = u \/ Retiring(t) \/ Retiring(u)
  /\ \A t \in Live : token[t].family \notin over
  /\ \A t \in Issued : token[t].family \in ended => token[t].version < version
=============================================================================
