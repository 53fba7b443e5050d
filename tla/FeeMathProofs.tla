---------------------------- MODULE FeeMathProofs ----------------------------
(***************************************************************************)
(* Lemmas about the arithmetic of FeeMath: what a sum of payments is worth *)
(* when the set of payments or the rows change, and which number a receipt *)
(* sequence without gaps gives next.                                       *)
(***************************************************************************)
EXTENDS FeeMath, FiniteSetTheorems, TLAPS

Rows == [Payment -> PaymentRow]

(* The units counted for a set of payments are finitely many (Units). *)
LEMMA UnitsFinite ==
  ASSUME NEW rows, NEW P \in SUBSET Payment
  PROVE  IsFiniteSet(Units(rows, P))
<1>1. IsFiniteSet(P)
  BY FeeMathAssumption, FS_Subset
<1>2. IsFiniteSet(1 .. MaxAmount)
  BY FeeMathAssumption, FS_Interval
<1>3. IsFiniteSet(P \X (1 .. MaxAmount))
  BY <1>1, <1>2, FS_Product
<1>4. Units(rows, P) \in SUBSET (P \X (1 .. MaxAmount))
  BY DEF Units
<1> QED
  BY <1>3, <1>4, FS_Subset

(* A sum of payments is a natural number (sum). *)
LEMMA SumType ==
  ASSUME NEW rows, NEW P \in SUBSET Payment
  PROVE  Sum(rows, P) \in Nat
BY UnitsFinite, FS_CardinalityType DEF Sum

(* No payments sum to nothing (sum, from ZERO). *)
LEMMA SumEmpty == ASSUME NEW rows PROVE Sum(rows, {}) = 0
<1>1. Units(rows, {}) = {}
  BY DEF Units
<1> QED
  BY <1>1, FS_EmptySet DEF Sum

(* A sum depends on the amounts of the payments summed and on nothing else. *)
LEMMA SumSame ==
  ASSUME NEW rows, NEW other, NEW P \in SUBSET Payment,
         \A p \in P : rows[p].amount = other[p].amount
  PROVE  Sum(rows, P) = Sum(other, P)
<1>1. Units(rows, P) = Units(other, P)
  BY DEF Units
<1> QED
  BY <1>1 DEF Sum

(* One payment sums to its amount. *)
LEMMA SumOne ==
  ASSUME NEW rows, NEW p \in Payment, rows[p].amount \in Amount
  PROVE  Sum(rows, {p}) = rows[p].amount
<1> SUFFICES ASSUME NEW a \in Nat, a = rows[p].amount, a <= MaxAmount
             PROVE  Sum(rows, {p}) = a
  BY FeeMathAssumption DEF Amount
<1>1. Units(rows, {p}) = {p} \X (1 .. a)
  <2>1. ASSUME NEW u \in Units(rows, {p}) PROVE u \in {p} \X (1 .. a)
    BY <2>1 DEF Units
  <2>2. ASSUME NEW u \in {p} \X (1 .. a) PROVE u \in Units(rows, {p})
    BY <2>2, FeeMathAssumption DEF Units
  <2> QED
    BY <2>1, <2>2
<1>2. IsFiniteSet({p}) /\ Cardinality({p}) = 1
  BY FS_Singleton
<1>3. IsFiniteSet(1 .. a)
  <2>1. 1 \in Int /\ a \in Int
    OBVIOUS
  <2> QED
    BY <2>1, FS_Interval, Zenon
<1>4. Cardinality(1 .. a) = a
  <2>1. 1 \in Int /\ a \in Int
    OBVIOUS
  <2>2. Cardinality(1 .. a) = IF 1 > a THEN 0 ELSE a - 1 + 1
    BY <2>1, FS_Interval, Zenon
  <2> QED
    BY <2>2
<1>5. Cardinality({p} \X (1 .. a)) = Cardinality({p}) * Cardinality(1 .. a)
  BY <1>2, <1>3, FS_Product
<1>6. Cardinality({p} \X (1 .. a)) = a
  BY <1>2, <1>4, <1>5
<1> QED
  BY <1>1, <1>6 DEF Sum

(* Sums of disjoint sets of payments add up. *)
LEMMA SumDisjoint ==
  ASSUME NEW rows, NEW P \in SUBSET Payment, NEW Q \in SUBSET Payment,
         P \cap Q = {}
  PROVE  Sum(rows, P \cup Q) = Sum(rows, P) + Sum(rows, Q)
<1>1. Units(rows, P \cup Q) = Units(rows, P) \cup Units(rows, Q)
  BY DEF Units
<1>2. Units(rows, P) \cap Units(rows, Q) = {}
  BY DEF Units
<1>3. IsFiniteSet(Units(rows, P)) /\ IsFiniteSet(Units(rows, Q))
  BY UnitsFinite
<1>4. Cardinality(Units(rows, P)) \in Nat /\ Cardinality(Units(rows, Q)) \in Nat
  BY <1>3, FS_CardinalityType
<1>5. Cardinality({}) = 0
  BY FS_EmptySet
<1>6. Cardinality(Units(rows, P) \cup Units(rows, Q)) =
        Cardinality(Units(rows, P)) + Cardinality(Units(rows, Q))
          - Cardinality(Units(rows, P) \cap Units(rows, Q))
  BY <1>3, FS_Union, Zenon
<1>7. Cardinality(Units(rows, P) \cap Units(rows, Q)) = 0
  BY <1>2, <1>5, Zenon
<1>8. Cardinality(Units(rows, P) \cup Units(rows, Q)) =
        Cardinality(Units(rows, P)) + Cardinality(Units(rows, Q))
  BY <1>4, <1>6, <1>7
<1> QED
  BY <1>1, <1>8, Zenon DEF Sum

(* One more payment adds its amount. *)
LEMMA SumAdd ==
  ASSUME NEW rows, NEW P \in SUBSET Payment, NEW p \in Payment \ P,
         rows[p].amount \in Amount
  PROVE  Sum(rows, P \cup {p}) = Sum(rows, P) + rows[p].amount
<1>1. {p} \in SUBSET Payment /\ P \cap {p} = {}
  OBVIOUS
<1>2. Sum(rows, P \cup {p}) = Sum(rows, P) + Sum(rows, {p})
  BY <1>1, SumDisjoint
<1> QED
  BY <1>2, SumOne

(* Fewer payments sum to no more. *)
LEMMA SumMonotone ==
  ASSUME NEW rows, NEW Q \in SUBSET Payment, NEW P \in SUBSET Q
  PROVE  Sum(rows, P) <= Sum(rows, Q)
<1>1. Units(rows, P) \in SUBSET Units(rows, Q)
  BY DEF Units
<1> QED
  BY <1>1, UnitsFinite, FS_Subset DEF Sum

-----------------------------------------------------------------------------
(* The status an invoice derives is a status (deriveStatus). *)
LEMMA StatusType ==
  ASSUME NEW row, NEW current \in InvoiceStatus
  PROVE  /\ DerivedStatus(row) \in InvoiceStatus \ DecidedStatus
         /\ DeriveStatus(row, current) \in InvoiceStatus
BY DEF DerivedStatus, DeriveStatus, InvoiceStatus, DecidedStatus

(* The highest number of a sequence 1 .. n is n (nextReceiptSequence). *)
LEMMA HighestOfGapless ==
  ASSUME NEW rows, NEW n \in Nat, IssuedSeqs(rows) = 1 .. n
  PROVE  HighestSeq(rows) = n
<1> DEFINE S == (1 .. n) \cup {0}
<1>1. n \in S /\ \A m \in 1 .. n : m <= n
  OBVIOUS
<1>2. \A k \in S : (\A m \in 1 .. n : m <= k) => k = n
  OBVIOUS
<1>3. HighestSeq(rows) = CHOOSE k \in S : \A m \in 1 .. n : m <= k
  BY DEF HighestSeq
<1> QED
  BY <1>1, <1>2, <1>3
=============================================================================
