------------------------------ MODULE CashDrawer ------------------------------
(***************************************************************************)
(* The cash drawer of a fee counter: opened by a clerk, closed by whoever  *)
(* counts it against the payments of its day                               *)
(* (services/cash_session_service.py).  The payments are those of the fee  *)
(* ledger, each of one unit; here they are only received.                  *)
(***************************************************************************)
EXTENDS UnitOfWork

CONSTANTS
    Clerk,
    Day,
    MaxCounted  \* bound: what is counted

FeePayment  == [day : Day, cash : BOOLEAN]
CashSession == [by : Clerk, day : Day, status : {"OPEN", "CLOSED"}, collected : Nat,
                counted : 0..MaxCounted, variance : Int]

TypeOK == Table("drawers", CashSession) /\ Table("payments", FeePayment)

Init == Start([drawers |-> <<>>, payments |-> <<>>])

\* The open drawers of a clerk.
OpenOf(c) == {d \in DOMAIN rows.drawers : rows.drawers[d].by = c /\ rows.drawers[d].status = "OPEN"}

\* _calculate_payment_totals, in cash: of the whole school, not of the clerk.
Collected(day) == Cardinality({p \in DOMAIN rows.payments :
                                  rows.payments[p].day = day /\ rows.payments[p].cash})

-----------------------------------------------------------------------------
open_session(s) == \E c \in Clerk, day \in Day :
    /\ OpenOf(c) = {}
    /\ Request(s, <<Insert("drawers", [by |-> c, day |-> day, status |-> "OPEN", collected |-> 0,
                                       counted |-> 0, variance |-> 0])>>)

close_session(s) == \E d \in DOMAIN rows.drawers, counted \in 0..MaxCounted :
    LET cash == Collected(rows.drawers[d].day) IN
    /\ rows.drawers[d].status = "OPEN"
    /\ Request(s, <<Update("drawers", d, [status |-> "CLOSED", collected |-> cash,
                                          counted |-> counted, variance |-> counted - cash])>>)

\* At the counter, for any day; a payment is not taken back.
Receive(s) == \E day \in Day, cash \in BOOLEAN :
    Request(s, <<Insert("payments", [day |-> day, cash |-> cash])>>)

Next == \E s \in Session :
    \/ open_session(s) \/ close_session(s) \/ Receive(s)
    \/ Commit(s) \/ Abort(s)

Spec == Init /\ [][Next]_<<rows, work, served>>

-----------------------------------------------------------------------------
(***************************************************************************)
(* When requests do not overlap: a clerk has one drawer open, and what was *)
(* counted at its closing is not counted again.                            *)
(***************************************************************************)
OneOpenDrawer == \A c \in Clerk : Cardinality(OpenOf(c)) <= 1

ClosingStands == \A d \in DOMAIN rows.drawers :
    rows.drawers[d].status = "CLOSED" => rows'.drawers[d] = rows.drawers[d]
=============================================================================
