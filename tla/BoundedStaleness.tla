-------------------------- MODULE BoundedStaleness --------------------------
(***************************************************************************)
(* What a cache of memberships promises: whoever asks is answered with     *)
(* what holds now, or with what held no longer than Bound ago.             *)
(*                                                                         *)
(* "Entries expire after 30s regardless, bounding any missed               *)
(* invalidation."  (AccessControlService.)                                 *)
(***************************************************************************)
EXTENDS Naturals, Sequences

CONSTANTS Member, Bound

BoundAssumption == Bound \in Nat

VARIABLES
  now,
  ended,    \* ended[m][v]: when the version v of a membership was changed
  answer    \* the last answer: a membership and the version it was given

svars == <<now, ended, answer>>

Current(m) == Len(ended[m]) + 1

StaleInit ==
  /\ now = 0
  /\ ended = [m \in Member |-> <<>>]
  /\ \E m \in Member : answer = [member |-> m, version |-> 1]

Advance == now' = now + 1 /\ UNCHANGED <<ended, answer>>

Changed(members) ==
  /\ ended' = [m \in Member |-> IF m \in members THEN Append(ended[m], now) ELSE ended[m]]
  /\ UNCHANGED <<now, answer>>

Answer(m, v) ==
  /\ v \in 1..Current(m)
  /\ v # Current(m) => now - ended[m][v] <= Bound
  /\ answer' = [member |-> m, version |-> v]
  /\ UNCHANGED <<now, ended>>

StaleNext ==
  \/ Advance
  \/ \E members \in SUBSET Member : Changed(members)
  \/ \E m \in Member : \E v \in 1..Current(m) : Answer(m, v)

StaleSpec == StaleInit /\ [][StaleNext]_svars
=============================================================================
