------------------------- MODULE MCAdmissionNumbers -------------------------
(***************************************************************************)
(* Instances of AdmissionNumbers for TLC.                                  *)
(***************************************************************************)
EXTENDS AdmissionNumbers, TLC

Symmetry == Permutations(Admission) \cup Permutations(Batch)
=============================================================================
