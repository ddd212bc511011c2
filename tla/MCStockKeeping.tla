---------------------------- MODULE MCStockKeeping ----------------------------
(***************************************************************************)
(* Instances of StockKeeping for TLC: two locations, one item; with a      *)
(* history of staleness: what a request read is outdated when another one  *)
(* has committed since.                                                    *)
(***************************************************************************)
EXTENDS StockKeeping, Staleness, TLC

CONSTANTS a, b, n1, n2

Ask(kind, from, to, amount, reference) ==
    [kind |-> kind, from |-> from, to |-> to, amount |-> amount, reference |-> reference]

Receipt(l, ref)  == Ask("PURCHASE_RECEIPT", Nowhere, l, 1, ref)
Return(l, ref)   == Ask("RETURN", Nowhere, l, 1, ref)
Issue(l, ref)    == Ask("ISSUE", l, Nowhere, 1, ref)
Transfer(l, k)   == Ask("TRANSFER", l, k, 1, NoReference)
Found(l, amount) == Ask("ADJUSTMENT", Nowhere, l, amount, NoReference)
Lost(l)          == Ask("ADJUSTMENT", l, Nowhere, 1, NoReference)

\* Goods come to either location and go round between them.  A receipt and an
\* issue share a reference number, as they may: it is one per kind.
Round == {Receipt(a, n1), Found(b, 2), Return(b, n2), Issue(a, n1), Lost(b),
          Transfer(a, b), Transfer(b, a)}

Under == {s \in Session : pc[s] # "idle"}

FreshInit == Init /\ NothingStale

FreshNext == Next /\ Observe(stock' # stock, Under')

FreshSpec == FreshInit /\ [][FreshNext]_<<vars, outdated, stale>>

\* Identifiers are interchangeable: of those that are free, the least is used.
Used    == {m.id : m \in movements} \cup {pending[s].id : s \in {t \in Session : pending[t] # NoMovement}}
InOrder == \A id \in Used', free \in MovementId \ Used' : id \in Used \/ id < free

MCNext == FreshNext /\ InOrder

MCSpec == FreshInit /\ [][MCNext]_<<vars, outdated, stale>> /\ Fairness

-----------------------------------------------------------------------------
(***************************************************************************)
(* The checks made before any row is locked keep what they are meant to    *)
(* keep as long as none of them acts on rows that changed since: receive_, *)
(* issue_ and return_stock record a reference number once for each kind    *)
(* and location, delete_location and delete_item leave no goods behind.    *)
(***************************************************************************)
FreshStockKept == stale \/ (RecordedOnce /\ DeletedIsEmpty)
=============================================================================
