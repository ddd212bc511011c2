------------------------------ MODULE FeeLedger ------------------------------
(***************************************************************************)
(* One student fee assignment and the concurrent requests of FeeService    *)
(* that change it (backend/app/services/fee_service.py).                   *)
(*                                                                         *)
(* The committed database is the assignment row (status, deleted) and its  *)
(* child rows: the applicable fee items, the discounts, the payments.  A   *)
(* request runs in a database session of its own.  Every operation except  *)
(* record_payment reads the rows without a lock, validates what it read    *)
(* and writes them back when it commits: its action is split in Load and   *)
(* a commit step, and any other session may commit in between.             *)
(* record_payment takes the assignment row FOR UPDATE first: PayLock, then *)
(* PayCommit.                                                              *)
(*                                                                         *)
(* A row that is soft-deleted is a row that is gone: every metric and      *)
(* every check of the code skips it.  Amounts are the whole paise of a     *)
(* Numeric(12, 2) column.                                                  *)
(***************************************************************************)
EXTENDS Sums

CONSTANTS
    Session,        \* database sessions, one per request in flight
    Offered,        \* the unlocked operations that requests perform
    NoOne,          \* the holder of a row lock nobody holds
    Price,          \* the amounts that requests carry
    ItemId,         \* identifiers of student fee items
    StructureItems, \* the items assign_fee_structure copied into the assignment
    DiscountId,     \* identifiers of discount rows
    DiscountType,   \* DiscountType, at most one active row of each is meant to exist
    Receipt,        \* receipt numbers, unique among a school's active payments
    Ref,            \* gateway transaction ids used as reference_number
    NoRef           \* reference_number of a payment taken at the counter

ItemRow     == [id : ItemId, amount : Price]
DiscountRow == [id : DiscountId, type : DiscountType, amount : Price]
PaymentRow  == [receipt : Receipt, amount : Amount, ref : Ref \cup {NoRef}]
Status      == {"PENDING", "PARTIALLY_PAID", "PAID", "CANCELLED"}

\* The operations of FeeService that take no row lock.
Unlocked == {"add_student_fee_item", "add_discount", "remove_discount",
             "cancel_assignment", "delete_assignment"}

ASSUME LedgerAssumption ==
    /\ NoOne \notin Session
    /\ Offered \subseteq Unlocked
    /\ NoRef \notin Ref
    /\ Price \subseteq Amount
    /\ StructureItems \subseteq ItemRow
    /\ IsFiniteSet(StructureItems)

VARIABLES
    status,     \* student_fee_assignments.status
    deleted,    \* student_fee_assignments.is_deleted
    items,      \* active, applicable rows of student_fee_items
    discounts,  \* active rows of fee_discounts
    payments,   \* rows of fee_payments
    lock,       \* the session holding the assignment row FOR UPDATE
    pc,         \* the operation a session is in the middle of
    view        \* the rows a session has loaded

rows       == <<status, deleted, items, discounts, payments>>
ledgerVars == <<rows, lock, pc, view>>

View == [status    : Status,
         items     : SUBSET ItemRow,
         discounts : SUBSET DiscountRow,
         payments  : SUBSET PaymentRow]

\* What an idle session has loaded: nothing.
NoView == [status |-> "PENDING", items |-> {}, discounts |-> {}, payments |-> {}]

LedgerTypeOK ==
    /\ status \in Status
    /\ deleted \in BOOLEAN
    /\ items \subseteq ItemRow
    /\ discounts \subseteq DiscountRow
    /\ payments \subseteq PaymentRow
    /\ lock \in Session \cup {NoOne}
    /\ pc \in [Session -> Offered \cup {"idle", "record_payment"}]
    /\ view \in [Session -> View]

-----------------------------------------------------------------------------
\* calculate_metrics.
NetPayable(v)  == LET net == Total(v.items) - Total(v.discounts)
                  IN  IF net > 0 THEN net ELSE 0

Outstanding(v) == LET due == NetPayable(v) - Total(v.payments)
                  IN  IF due > 0 THEN due ELSE 0

\* update_assignment_status: the status the metrics of v call for.
StatusFor(v) ==
    IF v.status = "CANCELLED" THEN "CANCELLED"
    ELSE IF Total(v.payments) >= NetPayable(v) THEN "PAID"
    ELSE IF Total(v.payments) > 0 THEN "PARTIALLY_PAID"
    ELSE "PENDING"

\* The rows as they are committed now.
Current == [status |-> status, items |-> items,
            discounts |-> discounts, payments |-> payments]

(***************************************************************************)
(* The ORM writes the status column only if the session changed the value  *)
(* it had loaded; the write then overwrites whatever is committed.         *)
(***************************************************************************)
WriteStatus(s, new) == status' = IF new = view[s].status THEN status ELSE new

Free == lock = NoOne

Finish(s) ==
    /\ pc' = [pc EXCEPT ![s] = "idle"]
    /\ view' = [view EXCEPT ![s] = NoView]

-----------------------------------------------------------------------------
\* assign_fee_structure: the row starts PENDING with the structure's items.
LedgerInit ==
    /\ status = "PENDING"
    /\ deleted = FALSE
    /\ items = StructureItems
    /\ discounts = {}
    /\ payments = {}
    /\ lock = NoOne
    /\ pc = [s \in Session |-> "idle"]
    /\ view = [s \in Session |-> NoView]

\* An operation without a lock reads the assignment and its children.
Load(s, op) ==
    /\ pc[s] = "idle"
    /\ ~deleted
    /\ pc' = [pc EXCEPT ![s] = op]
    /\ view' = [view EXCEPT ![s] = Current]
    /\ UNCHANGED <<rows, lock>>

(***************************************************************************)
(* The request ends without effect: a validation fails, the client goes    *)
(* away, the process dies.  The transaction is rolled back and its lock,   *)
(* if it had one, is released.                                             *)
(***************************************************************************)
Abort(s) ==
    /\ pc[s] # "idle"
    /\ Finish(s)
    /\ lock' = IF lock = s THEN NoOne ELSE lock
    /\ UNCHANGED rows

\* Inserting a child row needs a key-share lock on the assignment row, which
\* waits for the holder of a FOR UPDATE lock.  An item that is not applicable
\* adds no amount (added = {}), but the status is recomputed all the same.
AddStudentFeeItem(s) ==
    /\ pc[s] = "add_student_fee_item"
    /\ Free
    /\ \E added \in {{}} \cup {{row} : row \in ItemRow} :
          /\ \A row \in added, i \in items \cup view[s].items : i.id # row.id
          /\ items' = items \cup added
          /\ WriteStatus(s, StatusFor([view[s] EXCEPT !.items = @ \cup added]))
    /\ Finish(s)
    /\ UNCHANGED <<deleted, discounts, payments, lock>>

\* Mutant: the insert does not wait for the row lock.
AddDiscountNoWait(s) ==
    /\ pc[s] = "add_discount"
    /\ \E row \in DiscountRow :
          /\ \A d \in discounts \cup view[s].discounts : d.id # row.id
          /\ \A d \in view[s].discounts : d.type # row.type
          /\ Total(view[s].discounts) + row.amount <= Total(view[s].items)
          /\ discounts' = discounts \cup {row}
          /\ WriteStatus(s, StatusFor([view[s] EXCEPT !.discounts = @ \cup {row}]))
    /\ Finish(s)
    /\ UNCHANGED <<deleted, items, payments, lock>>

AddDiscount(s) ==
    /\ pc[s] = "add_discount"
    /\ Free
    /\ \E row \in DiscountRow :
          /\ \A d \in discounts \cup view[s].discounts : d.id # row.id
          /\ \A d \in view[s].discounts : d.type # row.type
          /\ Total(view[s].discounts) + row.amount <= Total(view[s].items)
          /\ discounts' = discounts \cup {row}
          /\ WriteStatus(s, StatusFor([view[s] EXCEPT !.discounts = @ \cup {row}]))
    /\ Finish(s)
    /\ UNCHANGED <<deleted, items, payments, lock>>

\* Soft-deleting a discount touches the assignment row, and so waits for its
\* lock, only if the status changes.
RemoveDiscount(s) ==
    /\ pc[s] = "remove_discount"
    /\ \E row \in view[s].discounts :
          LET new == StatusFor([view[s] EXCEPT !.discounts = @ \ {row}]) IN
          /\ new # view[s].status => Free
          /\ discounts' = discounts \ {row}
          /\ WriteStatus(s, new)
    /\ Finish(s)
    /\ UNCHANGED <<deleted, items, payments, lock>>

\* Mutant: the active payments are not looked at.
CancelPaid(s) ==
    /\ pc[s] = "cancel_assignment"
    /\ Free
    /\ view[s].status # "CANCELLED"
    /\ status' = "CANCELLED"
    /\ Finish(s)
    /\ UNCHANGED <<deleted, items, discounts, payments, lock>>

CancelAssignment(s) ==
    /\ pc[s] = "cancel_assignment"
    /\ Free
    /\ view[s].status # "CANCELLED"
    /\ view[s].payments = {}
    /\ status' = "CANCELLED"
    /\ Finish(s)
    /\ UNCHANGED <<deleted, items, discounts, payments, lock>>

DeleteAssignment(s) ==
    /\ pc[s] = "delete_assignment"
    /\ Free
    /\ view[s].payments = {}
    /\ deleted' = TRUE
    /\ items' = items \ view[s].items
    /\ discounts' = discounts \ view[s].discounts
    /\ Finish(s)
    /\ UNCHANGED <<status, payments, lock>>

\* Mutant: the row is read without FOR UPDATE.
PayLockUnlocked(s, seen) ==
    /\ pc[s] = "idle"
    /\ ~deleted
    /\ lock' = s
    /\ pc' = [pc EXCEPT ![s] = "record_payment"]
    /\ view' = [view EXCEPT ![s] = [Current EXCEPT !.status = seen]]
    /\ UNCHANGED rows

(***************************************************************************)
(* record_payment, up to its validation: the row is locked, then the       *)
(* children are read.  seen is the status the session works with: the      *)
(* locked row's, unless the session had loaded the row before it asked     *)
(* for the lock.                                                           *)
(***************************************************************************)
PayLock(s, seen) ==
    /\ pc[s] = "idle"
    /\ Free
    /\ ~deleted
    /\ lock' = s
    /\ pc' = [pc EXCEPT ![s] = "record_payment"]
    /\ view' = [view EXCEPT ![s] = [Current EXCEPT !.status = seen]]
    /\ UNCHANGED rows

\* record_payment, from its validation to its commit.
PayCommit(s, amount, ref) ==
    /\ pc[s] = "record_payment"
    /\ view[s].status # "CANCELLED"
    /\ amount <= Outstanding(view[s])
    /\ \E receipt \in Receipt :
          LET row == [receipt |-> receipt, amount |-> amount, ref |-> ref] IN
          /\ \A p \in payments : p.receipt # receipt
          /\ payments' = payments \cup {row}
          /\ WriteStatus(s, StatusFor([view[s] EXCEPT !.payments = @ \cup {row}]))
    /\ lock' = NoOne
    /\ Finish(s)
    /\ UNCHANGED <<deleted, items, discounts>>

\* One step of a request of the fees API.
StaffStep(s) ==
    \/ \E op \in Offered : Load(s, op)
    \/ AddStudentFeeItem(s)
    \/ AddDiscount(s)
    \/ RemoveDiscount(s)
    \/ CancelAssignment(s)
    \/ DeleteAssignment(s)
    \/ PayLock(s, status)
    \/ \E amount \in Price : PayCommit(s, amount, NoRef)
    \/ Abort(s)

LedgerNext == \E s \in Session : StaffStep(s)

LedgerSpec == LedgerInit /\ [][LedgerNext]_ledgerVars

-----------------------------------------------------------------------------
(***************************************************************************)
(* What must hold whatever the requests in flight do to each other.        *)
(***************************************************************************)

\* record_payment checks the outstanding amount and inserts the payment in two
\* statements; the row lock makes them one: as the payment commits, all that
\* is paid still fits in what the committed items and discounts leave payable,
\* whatever other requests committed since the check.
CollectWithinDue ==
    [][payments' # payments => Total(payments') <= NetPayable(Current)]_ledgerVars

\* As long as the assignment exists, no sequence of requests collects more
\* than the items add up to.
CollectedWithinCharged == ~deleted => Total(payments) <= Total(items)

\* The three sums move as those of the abstract ledger do: in particular the
\* lock, the read, the check and the insert of record_payment amount to one
\* indivisible collection.
Abstract == INSTANCE AbstractLedger WITH
                charged   <- Total(items),
                waived    <- Total(discounts),
                collected <- Total(payments)
ImplementsLedger == Abstract!Spec

(***************************************************************************)
(* What each operation checks before it writes.  It holds of requests that *)
(* follow one another; two requests in flight can break it, because the    *)
(* check reads rows that are not locked.                                   *)
(***************************************************************************)
\* cancel_assignment refuses an assignment with payments, and record_payment
\* a cancelled one: no cancelled assignment has collected money.
CancelledUnpaid == status = "CANCELLED" => payments = {}

\* delete_assignment refuses an assignment with payments, and record_payment
\* does not find a deleted one.
DeletedUnpaid == deleted => payments = {}

\* add_discount keeps the sum of the discounts within the gross amount.
DiscountsWithinGross == ~deleted => Total(discounts) <= Total(items)

\* add_discount refuses a second active discount of one type.
OneDiscountPerType ==
    \A d, e \in discounts : d.type = e.type => d = e

\* The stored status is the one the metrics call for.  A new assignment of a
\* structure without items is stored as PENDING, where they call for PAID.
StatusCurrent == ~deleted => status = StatusFor(Current)

=============================================================================
