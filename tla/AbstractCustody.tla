---------------------------- MODULE AbstractCustody ----------------------------
(***************************************************************************)
(* What the custody of an asset promises: at most one assignment at a time *)
(* holds it, and an assignment that has ended never holds it again.        *)
(***************************************************************************)
CONSTANT Assignment

VARIABLES custody, ended

Init == custody = {} /\ ended = {}

\* A new assignment: not one that has held the asset before.
New(a) == a \notin custody \cup ended

Give(a) == custody = {} /\ New(a) /\ custody' = {a} /\ ended' = ended

TakeBack(a) == custody = {a} /\ custody' = {} /\ ended' = ended \cup {a}

HandOver(a, b) ==
    custody = {a} /\ New(b) /\ custody' = {b} /\ ended' = ended \cup {a}

Next == \E a, b \in Assignment : Give(a) \/ TakeBack(a) \/ HandOver(a, b)

Spec == Init /\ [][Next]_<<custody, ended>>
=============================================================================
