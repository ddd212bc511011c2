----------------------------- MODULE AbstractStock -----------------------------
(***************************************************************************)
(* What the stock of an item promises: every location holds a quantity,    *)
(* and goods come in, go out or move between two locations in one          *)
(* indivisible step that never takes what is not there.                    *)
(***************************************************************************)
EXTENDS Integers

CONSTANT Location

VARIABLE held

Init == held = [l \in Location |-> 0]

\* Only the locations in L may change.
Only(L) == \A l \in Location \ L : held'[l] = held[l]

\* Goods arrive: a receipt, a return, an adjustment upwards.
In(l) == Only({l}) /\ held[l] < held'[l]

\* Goods leave: an issue, an adjustment downwards.
Out(l) == Only({l}) /\ held'[l] < held[l]

\* Goods move: what one location loses the other gains, at once.
Move(l, k) ==
    /\ Only({l, k})
    /\ held'[l] < held[l]
    /\ held'[l] + held'[k] = held[l] + held[k]

Next ==
    /\ held' \in [Location -> Nat]
    /\ \E l, k \in Location : In(l) \/ Out(l) \/ Move(l, k)

Spec == Init /\ [][Next]_held
=============================================================================
