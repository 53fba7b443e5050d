------------------------- MODULE MCMembershipCache --------------------------
(***************************************************************************)
(* Instances of MembershipCache for TLC: one user in two schools.          *)
(***************************************************************************)
EXTENDS MembershipCache, TLC

CONSTANTS m1, m2, u1, s1, s2

OneUser    == (m1 :> u1) @@ (m2 :> u1)
TwoSchools == (m1 :> s1) @@ (m2 :> s2)

ASSUME CacheAssumption

Symmetry == Permutations(Role)
=============================================================================
