----------------------------- MODULE MCFeeLedger -----------------------------
(***************************************************************************)
(* Instances of FeeLedger for TLC, with a history of staleness: what a     *)
(* request read is outdated when another one has committed since.          *)
(***************************************************************************)
EXTENDS FeeLedger, Staleness, TLC

CONSTANT FirstItem

\* The assignment starts with one item of 1 paisa: less than a discount may
\* be, and paid in instalments once an item is added.
OneItem == {[id |-> FirstItem, amount |-> 1]}
Symmetric == Permutations(Session) \cup Permutations(DiscountId) \cup Permutations(Receipt)

Under == {s \in Session : pc[s] # "idle"}

FreshInit == LedgerInit /\ NothingStale

FreshNext == LedgerNext /\ Observe(rows' # rows, Under')

FreshSpec == FreshInit /\ [][FreshNext]_<<ledgerVars, outdated, stale>>

-----------------------------------------------------------------------------
(***************************************************************************)
(* The checks of the unlocked handlers keep what they are meant to keep as *)
(* long as none of them acts on rows that changed after it read them:      *)
(* cancel_assignment and delete_assignment leave no payment behind,        *)
(* add_discount keeps the discounts within the gross amount and one of     *)
(* each type, update_assignment_status leaves, with every change of the    *)
(* rows, the status they call for, and never reopens what was cancelled.   *)
(***************************************************************************)
FreshLedgerKept ==
    [][\/ stale'
       \/ /\ (CancelledUnpaid /\ DeletedUnpaid)'
          /\ (DiscountsWithinGross /\ OneDiscountPerType)'
          /\ rows' # rows => StatusCurrent'
          /\ status = "CANCELLED" => status' = "CANCELLED"
      ]_<<ledgerVars, outdated, stale>>
=============================================================================
