----------------------------- MODULE MCPaystack -----------------------------
(***************************************************************************)
(* Instances of Paystack for TLC.                                          *)
(***************************************************************************)
EXTENDS Paystack, TLC

Symmetry == Permutations(Worker) \cup Permutations(Payment)
=============================================================================
