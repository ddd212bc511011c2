---------------------------- MODULE AbstractLedger ----------------------------
(***************************************************************************)
(* What the fee ledger of one assignment promises: charges, waivers and    *)
(* collections are three sums, and a collection is one indivisible step    *)
(* that checks the sum due and posts an amount within it.                  *)
(***************************************************************************)
EXTENDS Integers

VARIABLES charged, waived, collected

ledger == <<charged, waived, collected>>

Payable == IF charged > waived THEN charged - waived ELSE 0

Init == charged \in Nat /\ waived = 0 /\ collected = 0

\* A fee item is added.
Charge == charged' \in Nat /\ charged' > charged /\ UNCHANGED <<waived, collected>>

\* A discount is added or removed.
Waive == waived' \in Nat /\ UNCHANGED <<charged, collected>>

\* Money is posted: never beyond what is payable at that very moment.
Collect ==
    /\ collected' \in Nat
    /\ collected < collected'
    /\ collected' <= Payable
    /\ UNCHANGED <<charged, waived>>

\* The assignment is soft-deleted together with its items and discounts.
Close ==
    /\ charged' \in Nat /\ charged' <= charged
    /\ waived'  \in Nat /\ waived'  <= waived
    /\ UNCHANGED collected

Next == Charge \/ Waive \/ Collect \/ Close

Spec == Init /\ [][Next]_ledger
=============================================================================
