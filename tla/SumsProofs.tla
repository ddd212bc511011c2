------------------------------ MODULE SumsProofs ------------------------------
(***************************************************************************)
(* What the sum of a set of rows is: a number, larger for more rows, and   *)
(* raised by the amount of a row that is added.                            *)
(***************************************************************************)
EXTENDS Sums, FiniteSetTheorems, TLAPS

\* A row of any table, as far as its amount goes.
HasAmounts(R) == IsFiniteSet(R) /\ \A r \in R : r.amount \in Amount

-----------------------------------------------------------------------------
\* The paise of finitely many rows are finitely many.
LEMMA UnitsFinite ==
    ASSUME NEW R, HasAmounts(R)
    PROVE  /\ IsFiniteSet(Units(R))
           /\ Total(R) \in Nat
<1>1. IsFiniteSet(Amount)
  BY AmountAssumption, FS_Interval DEF Amount
<1>2. IsFiniteSet(R \X Amount)
  BY <1>1, FS_Product DEF HasAmounts
<1>3. Units(R) \in SUBSET (R \X Amount)
  BY DEF Units
<1>4. IsFiniteSet(Units(R))
  BY <1>2, <1>3, FS_Subset
<1> QED
  BY <1>4, FS_CardinalityType DEF Total

\* More rows, no smaller a sum.
LEMMA TotalMonotonic ==
    ASSUME NEW R, NEW S, HasAmounts(S), R \subseteq S
    PROVE  /\ HasAmounts(R)
           /\ Total(R) <= Total(S)
<1>1. HasAmounts(R)
  BY FS_Subset DEF HasAmounts
<1>2. Units(R) \in SUBSET Units(S)
  BY DEF Units
<1>3. IsFiniteSet(Units(S))
  BY UnitsFinite
<1> QED
  BY <1>1, <1>2, <1>3, FS_Subset DEF Total

\* A new row adds its amount to the sum.
LEMMA TotalAdd ==
    ASSUME NEW R, HasAmounts(R), NEW row, row \notin R, row.amount \in Amount
    PROVE  /\ HasAmounts(R \cup {row})
           /\ Total(R \cup {row}) = Total(R) + row.amount
<1> DEFINE new == {row} \X (1 .. row.amount)
<1>1. HasAmounts(R \cup {row})
  BY FS_AddElement DEF HasAmounts
<1>2. row.amount \in Nat
  BY AmountAssumption DEF Amount
<1>3. IsFiniteSet({row}) /\ Cardinality({row}) = 1
  BY FS_Singleton
<1>4. IsFiniteSet(1 .. row.amount) /\ Cardinality(1 .. row.amount) = row.amount
  BY <1>2, FS_Interval, SMTT(40)
<1>5. IsFiniteSet(new) /\ Cardinality(new) = row.amount
  <2>1. IsFiniteSet(new) /\ Cardinality(new) = Cardinality({row}) * Cardinality(1 .. row.amount)
    BY <1>3, <1>4, FS_Product
  <2>2. Cardinality({row}) * Cardinality(1 .. row.amount) = 1 * row.amount
    BY <1>3, <1>4
  <2>3. 1 * row.amount = row.amount
    BY <1>2
  <2> QED
    BY <2>1, <2>2, <2>3
<1>6. Units(R \cup {row}) = Units(R) \cup new
  BY AmountAssumption DEF Units, Amount
<1>7. Units(R) \cap new = {}
  BY DEF Units
<1>8. Cardinality({}) = 0
  BY FS_EmptySet
<1>9. IsFiniteSet(Units(R)) /\ Total(R) \in Nat
  BY UnitsFinite
<1>10. Cardinality(Units(R) \cup new) = Cardinality(Units(R)) + Cardinality(new) - Cardinality({})
  BY <1>5, <1>7, <1>9, FS_Union
<1>11. Total(R \cup {row}) = Cardinality(Units(R) \cup new)
  BY <1>6 DEF Total
<1>12. Total(R) = Cardinality(Units(R))
  BY DEF Total
<1>13. Total(R \cup {row}) = Total(R) + row.amount
  <2> HIDE DEF new
  <2> QED BY <1>2, <1>5, <1>8, <1>9, <1>10, <1>11, <1>12
<1> QED
  BY <1>1, <1>13

\* An empty table can be summed up.
LEMMA EmptyRows == HasAmounts({})
BY FS_EmptySet DEF HasAmounts

\* A row that is inserted leaves finitely many rows, and more of them.
LEMMA InsertFinite ==
    ASSUME NEW R, HasAmounts(R), NEW new, IsFiniteSet(new), \A row \in new : row.amount \in Amount
    PROVE  HasAmounts(R \cup new)
BY FS_Union DEF HasAmounts
=============================================================================
