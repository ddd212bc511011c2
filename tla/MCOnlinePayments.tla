--------------------------- MODULE MCOnlinePayments ---------------------------
(* Instances of OnlinePayments for TLC. *)
EXTENDS OnlinePayments, TLC

CONSTANTS i1, o1, p1, p2

Charge == {[id |-> i1, amount |-> 2]}

\* Two attempts at one order: one may fail before the other succeeds.
TwoAttempts == (p1 :> o1) @@ (p2 :> o1)

AnyReceipt == Permutations(Receipt)
=============================================================================
