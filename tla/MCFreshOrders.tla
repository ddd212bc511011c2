----------------------------- MODULE MCFreshOrders -----------------------------
(***************************************************************************)
(* OnlinePayments for TLC with a history of staleness: what a call has     *)
(* read of the orders is outdated when another one has committed a change  *)
(* of them since.                                                          *)
(***************************************************************************)
EXTENDS MCOnlinePayments, Staleness

\* The calls that have read the orders and not yet written them.
Reading == {h \in Online : step[h] \in {"create", "verify", "webhook"}}

FreshOrdersInit == Init /\ NothingStale

FreshOrdersNext == Next /\ Observe(orders' # orders, Reading')

FreshOrdersSpec == FreshOrdersInit /\ [][FreshOrdersNext]_<<vars, outdated, stale>>

-----------------------------------------------------------------------------
(***************************************************************************)
(* The checks on the orders keep what they are meant to keep as long as no *)
(* call acts on orders that changed after it read them.  At most one order *)
(* of an assignment is active: create_payment_order reuses or supersedes   *)
(* it.  An order that is PAID stays so: create_payment_order cancels only  *)
(* active orders, and a payment.failed event of an earlier attempt that    *)
(* comes late leaves a PAID order alone.                                   *)
(***************************************************************************)
FreshOrdersKept ==
    [][\/ stale'
       \/ /\ OneActiveOrder'
          /\ \A o \in Order : orders[o].status = "PAID" => orders'[o].status = "PAID"
      ]_<<vars, outdated, stale>>
=============================================================================
