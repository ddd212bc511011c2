--------------------------------- MODULE Sums ---------------------------------
(***************************************************************************)
(* Sums over the rows of a table.  A row is a record with an identifier    *)
(* and an amount; the sum of the amounts of a set of rows is the number of *)
(* units in them, which makes it a cardinality instead of a recursion.     *)
(***************************************************************************)
EXTENDS Integers, FiniteSets

CONSTANT MaxAmount  \* the largest amount the column holds, in its smallest unit

ASSUME AmountAssumption == MaxAmount \in Nat

Amount == 1 .. MaxAmount

Units(R) == {u \in R \X Amount : u[2] <= u[1].amount}
Total(R) == Cardinality(Units(R))
=============================================================================
