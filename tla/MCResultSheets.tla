--------------------------- MODULE MCResultSheets ---------------------------
(***************************************************************************)
(* Instances of ResultSheets for TLC: the arms of one class.               *)
(***************************************************************************)
EXTENDS ResultSheets, TLC

CONSTANT c1

ASSUME SheetsAssumption

OneClass == [a \in Arm |-> c1]
Symmetry == Permutations(Student) \cup Permutations(Request)
=============================================================================
