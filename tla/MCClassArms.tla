---------------------------- MODULE MCClassArms -----------------------------
(***************************************************************************)
(* Instances of ClassArms for TLC.                                         *)
(***************************************************************************)
EXTENDS ClassArms, TLC

ASSUME ArmsAssumption

Symmetry == Permutations(Student) \cup Permutations(Request)
=============================================================================
