---------------------------- MODULE PaymentsProofs ----------------------------
(***************************************************************************)
(* Proofs about FeeLedger, for every set of sessions and every amount, and *)
(* about OnlinePayments, for every set of sessions, orders and payments.   *)
(***************************************************************************)
EXTENDS MCFreshOrders, MCFeeLedger, SumsProofs, TLAPS

-----------------------------------------------------------------------------
\* The sets of rows of v are finite.
Finite(v) == HasAmounts(v.items) /\ HasAmounts(v.discounts) /\ HasAmounts(v.payments)

\* The sums of a view are numbers, and what is payable is within the charges.
LEMMA MetricsBounds ==
    ASSUME NEW v, Finite(v)
    PROVE  /\ Total(v.items) \in Nat /\ Total(v.discounts) \in Nat /\ Total(v.payments) \in Nat
           /\ NetPayable(v) \in Nat
           /\ NetPayable(v) <= Total(v.items)
           /\ Outstanding(v) \in Nat
           /\ \A n \in Nat : 0 < n /\ n <= Outstanding(v) => Total(v.payments) + n <= NetPayable(v)
<1>1. Total(v.items) \in Nat /\ Total(v.discounts) \in Nat /\ Total(v.payments) \in Nat
  BY UnitsFinite DEF Finite
<1>2. NetPayable(v) \in Nat /\ NetPayable(v) <= Total(v.items)
  BY <1>1 DEF NetPayable
<1> QED
  BY <1>1, <1>2 DEF Outstanding

(***************************************************************************)
(* The inductive invariant.  What record_payment has read under the row    *)
(* lock is still so: nobody else can add a payment, an item or a discount. *)
(* A discount can be removed, which only leaves more to be paid.           *)
(***************************************************************************)
LockProtects ==
    /\ lock # NoOne => pc[lock] = "record_payment"
    /\ \A s \in Session : pc[s] = "record_payment" =>
          /\ lock = s
          /\ ~deleted
          /\ view[s].items = items
          /\ view[s].payments = payments
          /\ discounts \subseteq view[s].discounts

RowsFinite ==
    /\ Finite(Current)
    /\ \A s \in Session : Finite(view[s])

LedgerInv ==
    /\ LedgerTypeOK
    /\ RowsFinite
    /\ LockProtects
    /\ CollectedWithinCharged

\* Every step of a session on the ledger, a settlement's included.
LedgerAction(s) ==
    \/ StaffStep(s)
    \/ \E seen \in Status : PayLock(s, seen)
    \/ \E amount \in Amount, ref \in Ref \cup {NoRef} : PayCommit(s, amount, ref)

\* The status the metrics call for is one of the enumeration.
LEMMA StatusForType == ASSUME NEW v, v.status \in Status PROVE StatusFor(v) \in Status
BY DEF StatusFor, Status

\* A status is written only if it is one.
LEMMA WriteStatusType ==
    ASSUME LedgerTypeOK, NEW s \in Session, NEW new \in Status, WriteStatus(s, new)
    PROVE  status' \in Status
BY DEF LedgerTypeOK, WriteStatus

\* The end of a request leaves what the others have read.
LEMMA FinishFacts ==
    ASSUME LedgerInv, NEW s \in Session, Finish(s)
    PROVE  /\ pc' \in [Session -> Offered \cup {"idle", "record_payment"}]
           /\ view' \in [Session -> View]
           /\ pc'[s] = "idle"
           /\ \A r \in Session : Finite(view'[r])
           /\ \A r \in Session : r # s => pc'[r] = pc[r] /\ view'[r] = view[r]
<1>1. NoView \in View
  BY DEF NoView, View, Status
<1>2. Finite(NoView)
  BY EmptyRows DEF Finite, NoView
<1> QED
  BY <1>1, <1>2 DEF Finish, LedgerInv, LedgerTypeOK, RowsFinite

\* While nobody holds the row lock, no session is in record_payment.
LEMMA FreeFacts ==
    ASSUME LedgerInv, Free
    PROVE  \A r \in Session : pc[r] # "record_payment"
BY LedgerAssumption DEF LedgerInv, LockProtects, Free

-----------------------------------------------------------------------------
\* An unlocked read keeps the invariant: it takes no lock and changes no row.
LEMMA LoadInv ==
    ASSUME LedgerInv, NEW s \in Session, NEW op \in Offered, Load(s, op)
    PROVE  LedgerInv'
<1> USE DEF Load, LedgerInv
<1>1. Current \in View
  BY DEF Current, View, LedgerTypeOK
<1>2. LedgerTypeOK'
  BY <1>1 DEF LedgerTypeOK, rows
<1>3. RowsFinite'
  BY DEF RowsFinite, LedgerTypeOK, Current, Finite, rows
<1>4. LockProtects'
  BY LedgerAssumption DEF LockProtects, LedgerTypeOK, Unlocked, rows
<1>5. CollectedWithinCharged'
  BY DEF CollectedWithinCharged, rows
<1> QED
  BY <1>2, <1>3, <1>4, <1>5

\* A request that is rolled back keeps the invariant.
LEMMA AbortInv ==
    ASSUME LedgerInv, NEW s \in Session, Abort(s)
    PROVE  LedgerInv'
<1> USE DEF Abort, LedgerInv
<1>1. /\ pc' \in [Session -> Offered \cup {"idle", "record_payment"}]
      /\ view' \in [Session -> View]
      /\ pc'[s] = "idle"
      /\ \A r \in Session : Finite(view'[r])
      /\ \A r \in Session : r # s => pc'[r] = pc[r] /\ view'[r] = view[r]
  BY FinishFacts
<1>2. LedgerTypeOK'
  BY <1>1 DEF LedgerTypeOK, rows
<1>3. RowsFinite'
  BY <1>1 DEF RowsFinite, Current, Finite, rows
<1>4. LockProtects'
  BY <1>1, LedgerAssumption DEF LockProtects, LedgerTypeOK, rows
<1>5. CollectedWithinCharged'
  BY DEF CollectedWithinCharged, rows
<1> QED
  BY <1>2, <1>3, <1>4, <1>5

\* add_student_fee_item waits for the lock, so the holder's reading stays current.
LEMMA AddStudentFeeItemInv ==
    ASSUME LedgerInv, NEW s \in Session, AddStudentFeeItem(s)
    PROVE  LedgerInv'
<1>1. PICK added \in {{}} \cup {{row} : row \in ItemRow} :
          /\ items' = items \cup added
          /\ WriteStatus(s, StatusFor([view[s] EXCEPT !.items = @ \cup added]))
  BY DEF AddStudentFeeItem
<1>2. added \subseteq ItemRow /\ IsFiniteSet(added)
  BY FS_EmptySet, FS_Singleton
<1>3. \A row \in ItemRow : row.amount \in Amount
  BY LedgerAssumption DEF ItemRow
<1>4. HasAmounts(items) /\ HasAmounts(items')
  BY <1>1, <1>2, <1>3, InsertFinite DEF LedgerInv, RowsFinite, Finite, Current
<1>5. Finish(s) /\ UNCHANGED <<deleted, discounts, payments, lock>>
  BY DEF AddStudentFeeItem
<1>6. /\ pc' \in [Session -> Offered \cup {"idle", "record_payment"}]
      /\ view' \in [Session -> View]
      /\ pc'[s] = "idle"
      /\ \A r \in Session : Finite(view'[r])
      /\ \A r \in Session : r # s => pc'[r] = pc[r] /\ view'[r] = view[r]
  BY <1>5, FinishFacts
<1>7. StatusFor([view[s] EXCEPT !.items = @ \cup added]) \in Status
  BY StatusForType DEF LedgerInv, LedgerTypeOK, View
<1>8. LedgerTypeOK'
  <2>1. status' \in Status
    BY <1>1, <1>7, WriteStatusType DEF LedgerInv
  <2> QED
    BY <1>1, <1>2, <1>5, <1>6, <2>1 DEF LedgerInv, LedgerTypeOK
<1>9. RowsFinite'
  BY <1>4, <1>5, <1>6 DEF LedgerInv, RowsFinite, Current, Finite
<1>10. LockProtects'
  <2>1. \A r \in Session : pc[r] # "record_payment"
    BY FreeFacts DEF AddStudentFeeItem
  <2> QED
    BY <1>5, <1>6, <2>1 DEF LockProtects, AddStudentFeeItem, Free
<1>11. CollectedWithinCharged'
  <2>1. Total(items) <= Total(items')
    BY <1>1, <1>4, TotalMonotonic
  <2>2. Total(items) \in Nat /\ Total(items') \in Nat /\ Total(payments) \in Nat
    BY <1>4, UnitsFinite DEF LedgerInv, RowsFinite, Finite, Current
  <2>3. Total(payments') = Total(payments)
    BY <1>5
  <2> QED
    BY <1>5, <2>1, <2>2, <2>3 DEF LedgerInv, CollectedWithinCharged
<1> QED
  BY <1>8, <1>9, <1>10, <1>11 DEF LedgerInv

\* add_discount inserts a row with a foreign key to the assignment, and waits.
LEMMA AddDiscountInv ==
    ASSUME LedgerInv, NEW s \in Session, AddDiscount(s)
    PROVE  LedgerInv'
<1>1. PICK row \in DiscountRow :
          /\ discounts' = discounts \cup {row}
          /\ WriteStatus(s, StatusFor([view[s] EXCEPT !.discounts = @ \cup {row}]))
  BY DEF AddDiscount
<1>2. row.amount \in Amount
  BY LedgerAssumption DEF DiscountRow
<1>3. HasAmounts(discounts')
  <2>1. IsFiniteSet({row})
    BY FS_Singleton
  <2> QED
    BY <1>1, <1>2, <2>1, InsertFinite DEF LedgerInv, RowsFinite, Finite, Current
<1>4. Finish(s) /\ UNCHANGED <<deleted, items, payments, lock>>
  BY DEF AddDiscount
<1>5. /\ pc' \in [Session -> Offered \cup {"idle", "record_payment"}]
      /\ view' \in [Session -> View]
      /\ pc'[s] = "idle"
      /\ \A r \in Session : Finite(view'[r])
      /\ \A r \in Session : r # s => pc'[r] = pc[r] /\ view'[r] = view[r]
  BY <1>4, FinishFacts
<1>6. StatusFor([view[s] EXCEPT !.discounts = @ \cup {row}]) \in Status
  BY StatusForType DEF LedgerInv, LedgerTypeOK, View
<1>7. LedgerTypeOK'
  <2>1. status' \in Status
    BY <1>1, <1>6, WriteStatusType DEF LedgerInv
  <2> QED
    BY <1>1, <1>4, <1>5, <2>1 DEF LedgerInv, LedgerTypeOK
<1>8. RowsFinite'
  BY <1>3, <1>4, <1>5 DEF LedgerInv, RowsFinite, Current, Finite
<1>9. LockProtects'
  <2>1. \A r \in Session : pc[r] # "record_payment"
    BY FreeFacts DEF AddDiscount
  <2> QED
    BY <1>4, <1>5, <2>1 DEF LockProtects, AddDiscount, Free
<1>10. CollectedWithinCharged'
  BY <1>4 DEF LedgerInv, CollectedWithinCharged
<1> QED
  BY <1>7, <1>8, <1>9, <1>10 DEF LedgerInv

\* Removing a discount does not wait for the row lock unless the status
\* changes: it may happen inside record_payment, whose session has then seen
\* one discount more than there is.
LEMMA RemoveDiscountInv ==
    ASSUME LedgerInv, NEW s \in Session, RemoveDiscount(s)
    PROVE  LedgerInv'
<1>1. PICK row \in view[s].discounts :
          /\ discounts' = discounts \ {row}
          /\ WriteStatus(s, StatusFor([view[s] EXCEPT !.discounts = @ \ {row}]))
  BY DEF RemoveDiscount
<1>2. HasAmounts(discounts')
  BY <1>1, TotalMonotonic DEF LedgerInv, RowsFinite, Finite, Current
<1>3. Finish(s) /\ UNCHANGED <<deleted, items, payments, lock>>
  BY DEF RemoveDiscount
<1>4. /\ pc' \in [Session -> Offered \cup {"idle", "record_payment"}]
      /\ view' \in [Session -> View]
      /\ pc'[s] = "idle"
      /\ \A r \in Session : Finite(view'[r])
      /\ \A r \in Session : r # s => pc'[r] = pc[r] /\ view'[r] = view[r]
  BY <1>3, FinishFacts
<1>5. StatusFor([view[s] EXCEPT !.discounts = @ \ {row}]) \in Status
  BY StatusForType DEF LedgerInv, LedgerTypeOK, View
<1>6. LedgerTypeOK'
  <2>1. status' \in Status
    BY <1>1, <1>5, WriteStatusType DEF LedgerInv
  <2> QED
    BY <1>1, <1>3, <1>4, <2>1 DEF LedgerInv, LedgerTypeOK
<1>7. RowsFinite'
  BY <1>2, <1>3, <1>4 DEF LedgerInv, RowsFinite, Current, Finite
<1>8. LockProtects'
  <2>1. pc[s] = "remove_discount" /\ discounts' \subseteq discounts
    BY <1>1 DEF RemoveDiscount
  <2> QED
    BY <1>3, <1>4, <2>1, LedgerAssumption DEF LedgerInv, LedgerTypeOK, LockProtects
<1>9. CollectedWithinCharged'
  BY <1>3 DEF LedgerInv, CollectedWithinCharged
<1> QED
  BY <1>6, <1>7, <1>8, <1>9 DEF LedgerInv

\* cancel_assignment writes the locked row, and waits.
LEMMA CancelAssignmentInv ==
    ASSUME LedgerInv, NEW s \in Session, CancelAssignment(s)
    PROVE  LedgerInv'
<1>1. Finish(s) /\ UNCHANGED <<deleted, items, discounts, payments, lock>>
  BY DEF CancelAssignment
<1>2. /\ pc' \in [Session -> Offered \cup {"idle", "record_payment"}]
      /\ view' \in [Session -> View]
      /\ pc'[s] = "idle"
      /\ \A r \in Session : Finite(view'[r])
      /\ \A r \in Session : r # s => pc'[r] = pc[r] /\ view'[r] = view[r]
  BY <1>1, FinishFacts
<1>3. LedgerTypeOK'
  BY <1>1, <1>2 DEF LedgerInv, LedgerTypeOK, CancelAssignment, Status
<1>4. RowsFinite'
  BY <1>1, <1>2 DEF LedgerInv, RowsFinite, Current, Finite
<1>5. LockProtects'
  BY <1>1, <1>2, FreeFacts DEF LockProtects, CancelAssignment, Free
<1>6. CollectedWithinCharged'
  BY <1>1 DEF LedgerInv, CollectedWithinCharged
<1> QED
  BY <1>3, <1>4, <1>5, <1>6 DEF LedgerInv

\* delete_assignment writes the locked row, and waits.
LEMMA DeleteAssignmentInv ==
    ASSUME LedgerInv, NEW s \in Session, DeleteAssignment(s)
    PROVE  LedgerInv'
<1>1. /\ Finish(s)
      /\ deleted' = TRUE
      /\ items' \subseteq items
      /\ discounts' \subseteq discounts
      /\ UNCHANGED <<status, payments, lock>>
  BY DEF DeleteAssignment
<1>2. /\ pc' \in [Session -> Offered \cup {"idle", "record_payment"}]
      /\ view' \in [Session -> View]
      /\ pc'[s] = "idle"
      /\ \A r \in Session : Finite(view'[r])
      /\ \A r \in Session : r # s => pc'[r] = pc[r] /\ view'[r] = view[r]
  BY <1>1, FinishFacts
<1>3. LedgerTypeOK'
  BY <1>1, <1>2 DEF LedgerInv, LedgerTypeOK
<1>4. RowsFinite'
  BY <1>1, <1>2, TotalMonotonic DEF LedgerInv, RowsFinite, Current, Finite
<1>5. LockProtects'
  BY <1>1, <1>2, FreeFacts DEF LockProtects, DeleteAssignment, Free
<1>6. CollectedWithinCharged'
  BY <1>1 DEF CollectedWithinCharged
<1> QED
  BY <1>3, <1>4, <1>5, <1>6 DEF LedgerInv

\* record_payment reads under the lock it has just taken: what it sees is current.
LEMMA PayLockInv ==
    ASSUME LedgerInv, NEW s \in Session, NEW seen \in Status, PayLock(s, seen)
    PROVE  LedgerInv'
<1>1. [Current EXCEPT !.status = seen] \in View
  BY DEF Current, View, LedgerInv, LedgerTypeOK
<1>2. Finite([Current EXCEPT !.status = seen])
  BY DEF LedgerInv, RowsFinite, Finite, Current
<1>3. LedgerTypeOK'
  BY <1>1 DEF PayLock, LedgerInv, LedgerTypeOK, rows
<1>4. RowsFinite'
  BY <1>2 DEF PayLock, LedgerInv, LedgerTypeOK, RowsFinite, Current, Finite, rows
<1>5. LockProtects'
  <2>1. \A r \in Session : pc[r] # "record_payment"
    BY FreeFacts DEF PayLock
  <2>2. ~deleted' /\ lock' = s /\ s # NoOne
    BY LedgerAssumption DEF PayLock, rows
  <2>3. pc'[s] = "record_payment" /\ \A r \in Session : r # s => pc'[r] = pc[r]
    BY DEF PayLock, LedgerInv, LedgerTypeOK
  <2>4. /\ view'[s].items = items'
        /\ view'[s].payments = payments'
        /\ view'[s].discounts = discounts'
    BY DEF PayLock, LedgerInv, LedgerTypeOK, Current, rows
  <2> QED
    BY <2>1, <2>2, <2>3, <2>4 DEF LockProtects
<1>6. CollectedWithinCharged'
  BY DEF PayLock, LedgerInv, CollectedWithinCharged, rows
<1> QED
  BY <1>3, <1>4, <1>5, <1>6 DEF LedgerInv

(***************************************************************************)
(* The step that matters: what PayCommit adds to the payments it has read  *)
(* fits in what it has read to be payable.  The lock protects both.        *)
(***************************************************************************)
LEMMA PayCommitFits ==
    ASSUME LedgerInv, NEW s \in Session,
           NEW amount \in Amount, NEW ref \in Ref \cup {NoRef}, PayCommit(s, amount, ref)
    PROVE  /\ ~deleted
           /\ HasAmounts(payments')
           /\ payments' \subseteq PaymentRow
           /\ Total(payments') = Total(payments) + amount
           /\ Total(payments') <= NetPayable(Current)
           /\ NetPayable(Current) <= Total(items)
<1>1. PICK receipt \in Receipt :
          /\ \A p \in payments : p.receipt # receipt
          /\ payments' = payments \cup {[receipt |-> receipt, amount |-> amount, ref |-> ref]}
  BY DEF PayCommit
<1> DEFINE row == [receipt |-> receipt, amount |-> amount, ref |-> ref]
<1>2. row \notin payments /\ row.amount = amount /\ row \in PaymentRow
  BY <1>1 DEF PaymentRow
<1>3. HasAmounts(payments)
  BY DEF LedgerInv, RowsFinite, Finite, Current
<1>4. HasAmounts(payments') /\ Total(payments') = Total(payments) + amount
  BY <1>1, <1>2, <1>3, TotalAdd
<1>5. /\ pc[s] = "record_payment"
      /\ ~deleted
      /\ view[s].items = items
      /\ view[s].payments = payments
      /\ discounts \subseteq view[s].discounts
  BY DEF PayCommit, LedgerInv, LockProtects
<1>6. Finite(view[s]) /\ Finite(Current)
  BY DEF LedgerInv, RowsFinite
<1>7. Total(payments) + amount <= NetPayable(view[s])
  <2>1. amount \in Nat /\ 0 < amount /\ amount <= Outstanding(view[s])
    BY AmountAssumption DEF PayCommit, Amount
  <2> QED
    BY <1>5, <1>6, <2>1, MetricsBounds
<1>8. NetPayable(view[s]) <= NetPayable(Current)
  <2>1. Total(discounts) <= Total(view[s].discounts)
    BY <1>5, <1>6, TotalMonotonic DEF Finite
  <2>2. Total(view[s].items) \in Nat /\ Total(view[s].discounts) \in Nat /\ Total(discounts) \in Nat
    BY <1>6, UnitsFinite DEF Finite, Current
  <2> QED
    BY <1>5, <2>1, <2>2 DEF NetPayable, Current
<1>9. NetPayable(Current) \in Nat /\ NetPayable(Current) <= Total(items)
  BY <1>6, MetricsBounds DEF Current
<1>10. NetPayable(view[s]) \in Nat /\ Total(payments) \in Nat /\ amount \in Nat
  BY <1>3, <1>6, MetricsBounds, UnitsFinite, AmountAssumption DEF Amount
<1>11. payments' \subseteq PaymentRow
  BY <1>1, <1>2 DEF LedgerInv, LedgerTypeOK
<1> HIDE DEF row
<1> QED
  BY <1>4, <1>5, <1>7, <1>8, <1>9, <1>10, <1>11

\* record_payment inserts what it checked against rows that are still current.
LEMMA PayCommitInv ==
    ASSUME LedgerInv, NEW s \in Session,
           NEW amount \in Amount, NEW ref \in Ref \cup {NoRef}, PayCommit(s, amount, ref)
    PROVE  LedgerInv'
<1>1. Finish(s) /\ lock' = NoOne /\ UNCHANGED <<deleted, items, discounts>>
  BY DEF PayCommit
<1>2. /\ pc' \in [Session -> Offered \cup {"idle", "record_payment"}]
      /\ view' \in [Session -> View]
      /\ pc'[s] = "idle"
      /\ \A r \in Session : Finite(view'[r])
      /\ \A r \in Session : r # s => pc'[r] = pc[r] /\ view'[r] = view[r]
  BY <1>1, FinishFacts
<1>3. /\ HasAmounts(payments')
      /\ payments' \subseteq PaymentRow
      /\ Total(payments') <= NetPayable(Current)
      /\ NetPayable(Current) <= Total(items)
  BY PayCommitFits
<1>4. LedgerTypeOK'
  <2>1. PICK receipt \in Receipt :
          WriteStatus(s, StatusFor([view[s] EXCEPT !.payments = @ \cup
                            {[receipt |-> receipt, amount |-> amount, ref |-> ref]}]))
    BY DEF PayCommit
  <2>2. StatusFor([view[s] EXCEPT !.payments = @ \cup
                            {[receipt |-> receipt, amount |-> amount, ref |-> ref]}]) \in Status
    BY StatusForType DEF LedgerInv, LedgerTypeOK, View
  <2>3. status' \in Status
    BY <2>1, <2>2, WriteStatusType DEF LedgerInv
  <2> QED
    BY <1>1, <1>2, <1>3, <2>3 DEF LedgerInv, LedgerTypeOK
<1>5. RowsFinite'
  BY <1>1, <1>2, <1>3 DEF LedgerInv, RowsFinite, Current, Finite
<1>6. LockProtects'
  <2>1. \A r \in Session : r # s => pc[r] # "record_payment"
    BY DEF PayCommit, LedgerInv, LockProtects
  <2> QED
    BY <1>1, <1>2, <2>1 DEF LockProtects
<1>7. CollectedWithinCharged'
  <2>1. Total(payments') \in Nat /\ NetPayable(Current) \in Nat /\ Total(items) \in Nat
    BY <1>3, MetricsBounds, UnitsFinite DEF LedgerInv, RowsFinite, Finite, Current
  <2>2. Total(payments') <= Total(items)
    BY <1>3, <2>1
  <2> QED
    BY <1>1, <2>2 DEF CollectedWithinCharged
<1> QED
  BY <1>4, <1>5, <1>6, <1>7 DEF LedgerInv

-----------------------------------------------------------------------------
\* The invariant is inductive, for the requests of the fees API and for the
\* settlements of online payments alike.
LEMMA LedgerStep ==
    ASSUME LedgerInv, NEW s \in Session, LedgerAction(s)
    PROVE  LedgerInv'
<1>1. CASE \E op \in Offered : Load(s, op)
  BY <1>1, LoadInv
<1>2. CASE AddStudentFeeItem(s)
  BY <1>2, AddStudentFeeItemInv
<1>3. CASE AddDiscount(s)
  BY <1>3, AddDiscountInv
<1>4. CASE RemoveDiscount(s)
  BY <1>4, RemoveDiscountInv
<1>5. CASE CancelAssignment(s)
  BY <1>5, CancelAssignmentInv
<1>6. CASE DeleteAssignment(s)
  BY <1>6, DeleteAssignmentInv
<1>7. CASE PayLock(s, status)
  BY <1>7, PayLockInv DEF LedgerInv, LedgerTypeOK
<1>8. CASE \E seen \in Status : PayLock(s, seen)
  BY <1>8, PayLockInv
<1>9. CASE \E amount \in Price : PayCommit(s, amount, NoRef)
  BY <1>9, PayCommitInv, LedgerAssumption
<1>10. CASE \E amount \in Amount, ref \in Ref \cup {NoRef} : PayCommit(s, amount, ref)
  BY <1>10, PayCommitInv
<1>11. CASE Abort(s)
  BY <1>11, AbortInv
<1> QED
  BY <1>1, <1>2, <1>3, <1>4, <1>5, <1>6, <1>7, <1>8, <1>9, <1>10, <1>11
  DEF LedgerAction, StaffStep

\* Steps outside the ledger keep its invariant.
LEMMA LedgerStutter == LedgerInv /\ UNCHANGED ledgerVars => LedgerInv'
BY DEF LedgerInv, LedgerTypeOK, RowsFinite, LockProtects, CollectedWithinCharged,
       Current, Finite, ledgerVars, rows

\* A new assignment satisfies the invariant.
LEMMA LedgerInitInv == LedgerInit => LedgerInv
<1> SUFFICES ASSUME LedgerInit PROVE LedgerInv
  OBVIOUS
<1> USE DEF LedgerInit
<1>1. NoView \in View /\ Finite(NoView)
  BY EmptyRows DEF NoView, View, Status, Finite
<1>2. HasAmounts(StructureItems)
  BY LedgerAssumption DEF HasAmounts, ItemRow
<1>3. LedgerTypeOK
  BY <1>1, LedgerAssumption DEF LedgerTypeOK, Status
<1>4. RowsFinite
  BY <1>1, <1>2, EmptyRows DEF RowsFinite, Finite, Current
<1>5. LockProtects
  BY DEF LockProtects
<1>6. CollectedWithinCharged
  <2>1. Cardinality(Units({})) = 0
    BY FS_EmptySet DEF Units
  <2>2. Total(payments) = 0 /\ Total(items) \in Nat
    BY <1>2, <2>1, UnitsFinite DEF Total
  <2> QED
    BY <2>2 DEF CollectedWithinCharged
<1> QED
  BY <1>3, <1>4, <1>5, <1>6 DEF LedgerInv

\* Every reachable state of the fees API satisfies the invariant.
LEMMA LedgerInvariance == LedgerSpec => []LedgerInv
<1>1. LedgerInv /\ [LedgerNext]_ledgerVars => LedgerInv'
  BY LedgerStep, LedgerStutter DEF LedgerNext, LedgerAction
<1> QED
  BY <1>1, LedgerInitInv, PTL DEF LedgerSpec

\* Every reachable state of the ledger is well typed, whatever the number of
\* sessions, rows and paise.
THEOREM LedgerTypeCorrect == LedgerSpec => []LedgerTypeOK
BY LedgerInvariance, PTL DEF LedgerInv

\* However many requests overlap, an assignment that exists never collects
\* more than its items add up to.
THEOREM LedgerNeverOvercollects == LedgerSpec => []CollectedWithinCharged
BY LedgerInvariance, PTL DEF LedgerInv

-----------------------------------------------------------------------------
\* Only record_payment changes the payments.
LEMMA CollectStep ==
    ASSUME LedgerInv, NEW s \in Session, LedgerAction(s), payments' # payments
    PROVE  Total(payments') <= NetPayable(Current)
<1>1. PICK amount \in Amount, ref \in Ref \cup {NoRef} : PayCommit(s, amount, ref)
  BY LedgerAssumption
  DEF LedgerAction, StaffStep, Load, AddStudentFeeItem, AddDiscount, RemoveDiscount,
      CancelAssignment, DeleteAssignment, PayLock, Abort, rows
<1> QED
  BY <1>1, PayCommitFits

\* The check and the insert of record_payment are one: no payment is committed
\* beyond what the committed items and discounts leave payable.
THEOREM LedgerCollectsWithinDue == LedgerSpec => CollectWithinDue
<1>1. LedgerInv /\ [LedgerNext]_ledgerVars
        => [payments' # payments => Total(payments') <= NetPayable(Current)]_ledgerVars
  BY CollectStep DEF LedgerNext, LedgerAction
<1> QED
  BY <1>1, LedgerInvariance, PTL DEF LedgerSpec, CollectWithinDue

-----------------------------------------------------------------------------
(***************************************************************************)
(* Refinement: every step of a session is a step of the abstract ledger.   *)
(***************************************************************************)
LEMMA SumsAreNat ==
    ASSUME LedgerInv
    PROVE  Total(items) \in Nat /\ Total(discounts) \in Nat /\ Total(payments) \in Nat
BY UnitsFinite DEF LedgerInv, RowsFinite, Finite, Current

\* An item that is added has a new identifier, so the sum grows by its amount.
LEMMA ChargeStep ==
    ASSUME LedgerInv, NEW s \in Session, AddStudentFeeItem(s)
    PROVE  [Abstract!Charge]_Abstract!ledger
<1>1. UNCHANGED <<discounts, payments>>
  BY DEF AddStudentFeeItem
<1>2. HasAmounts(items)
  BY DEF LedgerInv, RowsFinite, Finite, Current
<1>3. CASE items' = items
  BY <1>1, <1>3 DEF Abstract!ledger
<1>4. CASE \E row \in ItemRow : items' = items \cup {row} /\ \A i \in items : i.id # row.id
  <2>1. PICK row \in ItemRow : items' = items \cup {row} /\ \A i \in items : i.id # row.id
    BY <1>4
  <2>2. row \notin items /\ row.amount \in Amount
    BY <2>1, LedgerAssumption DEF ItemRow
  <2>3. Total(items') = Total(items) + row.amount
    BY <1>2, <2>1, <2>2, TotalAdd
  <2>4. row.amount \in Nat /\ row.amount > 0
    BY <2>2, AmountAssumption DEF Amount
  <2>5. Total(items') \in Nat /\ Total(items') > Total(items)
    BY <2>3, <2>4, SumsAreNat
  <2> QED
    BY <1>1, <2>5 DEF Abstract!Charge
<1> QED
  BY <1>3, <1>4 DEF AddStudentFeeItem

\* Every operation is a charge, a relief, a collection or a stutter.
LEMMA AbstractStep ==
    ASSUME LedgerInv, LedgerInv', NEW s \in Session, LedgerAction(s)
    PROVE  [Abstract!Next]_Abstract!ledger
<1>1. /\ Total(items) \in Nat /\ Total(discounts) \in Nat /\ Total(payments) \in Nat
      /\ Total(items') \in Nat /\ Total(discounts') \in Nat /\ Total(payments') \in Nat
  BY UnitsFinite DEF LedgerInv, RowsFinite, Finite, Current
<1>2. CASE AddStudentFeeItem(s)
  BY <1>2, ChargeStep DEF Abstract!Next
<1>3. CASE AddDiscount(s) \/ RemoveDiscount(s)
  BY <1>1, <1>3 DEF AddDiscount, RemoveDiscount, Abstract!Next, Abstract!Waive
<1>4. CASE DeleteAssignment(s)
  <2>1. items' \subseteq items /\ discounts' \subseteq discounts /\ payments' = payments
    BY <1>4 DEF DeleteAssignment
  <2>2. Total(items') <= Total(items) /\ Total(discounts') <= Total(discounts)
    BY <2>1, TotalMonotonic DEF LedgerInv, RowsFinite, Finite, Current
  <2> QED
    BY <1>1, <2>1, <2>2 DEF Abstract!Next, Abstract!Close
<1>5. CASE \E amount \in Amount, ref \in Ref \cup {NoRef} : PayCommit(s, amount, ref)
  <2>1. PICK amount \in Amount, ref \in Ref \cup {NoRef} : PayCommit(s, amount, ref)
    BY <1>5
  <2>2. UNCHANGED <<items, discounts>>
    BY <2>1 DEF PayCommit
  <2>3. Total(payments') = Total(payments) + amount /\ Total(payments') <= NetPayable(Current)
    BY <2>1, PayCommitFits
  <2>4. Total(payments) < Total(payments')
    BY <1>1, <2>3, AmountAssumption DEF Amount
  <2>5. NetPayable(Current) = Abstract!Payable
    BY <1>1 DEF NetPayable, Current, Abstract!Payable
  <2> QED
    BY <1>1, <2>2, <2>3, <2>4, <2>5 DEF Abstract!Next, Abstract!Collect
<1>6. CASE \/ \E op \in Offered : Load(s, op)
           \/ CancelAssignment(s)
           \/ \E seen \in Status : PayLock(s, seen)
           \/ Abort(s)
  BY <1>6 DEF Load, CancelAssignment, PayLock, Abort, rows, Abstract!ledger
<1> QED
  BY <1>2, <1>3, <1>4, <1>5, <1>6, LedgerAssumption
  DEF LedgerAction, StaffStep, LedgerInv, LedgerTypeOK

\* The ledger with its sessions, locks and stale reads implements the abstract
\* one, in which a collection checks and posts in one step.
THEOREM LedgerImplementsAbstract == LedgerSpec => ImplementsLedger
<1>1. LedgerInit => Abstract!Init
  <2> SUFFICES ASSUME LedgerInit PROVE Abstract!Init
    OBVIOUS
  <2>1. Cardinality(Units({})) = 0
    BY FS_EmptySet DEF Units
  <2> QED
    BY <2>1, SumsAreNat, LedgerInitInv DEF LedgerInit, Abstract!Init, Total
<1>2. LedgerInv /\ LedgerInv' /\ [LedgerNext]_ledgerVars => [Abstract!Next]_Abstract!ledger
  <2>1. ASSUME LedgerInv, UNCHANGED ledgerVars PROVE UNCHANGED Abstract!ledger
    BY <2>1 DEF ledgerVars, rows, Abstract!ledger
  <2> QED
    BY <2>1, AbstractStep DEF LedgerNext, LedgerAction
<1> QED
  BY <1>1, <1>2, LedgerInvariance, PTL DEF LedgerSpec, ImplementsLedger, Abstract!Spec

-----------------------------------------------------------------------------
(***************************************************************************)
(* The checks of the unlocked handlers, in a history in which no request   *)
(* has committed on outdated rows.  A request that is not outdated has     *)
(* before it the rows as they are, and all others have when it commits.    *)
(***************************************************************************)
Checked == CancelledUnpaid /\ DeletedUnpaid /\ DiscountsWithinGross /\ OneDiscountPerType

Fresh(s) == view[s] = Current /\ ~deleted

FreshInv ==
    /\ LedgerInv
    /\ \/ stale
       \/ Checked /\ \A s \in Session \ outdated : pc[s] # "idle" => Fresh(s)

\* What a commit on current rows leaves.
Kept == Checked' /\ StatusCurrent' /\ (status = "CANCELLED" => status' = "CANCELLED")

\* On current rows the status is written as it was computed, and is the status
\* that the metrics of the new rows call for.
LEMMA StatusWritten ==
    ASSUME NEW s \in Session, Fresh(s), NEW v, v.status = status,
           WriteStatus(s, StatusFor(v)),
           v.items = items', v.discounts = discounts', v.payments = payments'
    PROVE  /\ StatusCurrent'
           /\ status' = "CANCELLED" <=> status = "CANCELLED"
<1>1. status' = StatusFor(v)
  BY DEF WriteStatus, Fresh, Current
<1>2. NetPayable(v) = NetPayable(Current')
  BY DEF NetPayable, Current
<1>3. CASE status = "CANCELLED"
  BY <1>1, <1>3 DEF StatusFor, StatusCurrent, Current
<1>4. CASE status # "CANCELLED"
  <2>1. status' # "CANCELLED"
    BY <1>1, <1>4 DEF StatusFor
  <2>2. StatusFor(Current') = StatusFor(v)
    BY <1>2, <1>4, <2>1 DEF StatusFor, Current
  <2> QED
    BY <1>1, <1>4, <2>1, <2>2 DEF StatusCurrent
<1> QED
  BY <1>3, <1>4

\* An item leaves more room for the discounts there are.
LEMMA AddStudentFeeItemKeeps ==
    ASSUME LedgerInv, Checked, NEW s \in Session, Fresh(s), AddStudentFeeItem(s)
    PROVE  Kept
<1>1. PICK added \in {{}} \cup {{row} : row \in ItemRow} :
          /\ items' = items \cup added
          /\ WriteStatus(s, StatusFor([view[s] EXCEPT !.items = @ \cup added]))
  BY DEF AddStudentFeeItem
<1>2. UNCHANGED <<deleted, discounts, payments>>
  BY DEF AddStudentFeeItem
<1> DEFINE v == [view[s] EXCEPT !.items = @ \cup added]
<1>3. /\ v.status = status
      /\ v.items = items' /\ v.discounts = discounts' /\ v.payments = payments'
  BY <1>1, <1>2 DEF Fresh, Current
<1> HIDE DEF v
<1>4. StatusCurrent' /\ (status' = "CANCELLED" <=> status = "CANCELLED")
  BY <1>1, <1>3, StatusWritten DEF v
<1>5. DiscountsWithinGross'
  <2>1. Total(items) <= Total(items')
    <3>1. HasAmounts(items')
      BY AddStudentFeeItemInv DEF LedgerInv, RowsFinite, Finite, Current
    <3> QED
      BY <1>1, <3>1, TotalMonotonic
  <2>2. Total(items) \in Nat /\ Total(discounts) \in Nat /\ Total(items') \in Nat
    BY SumsAreNat, AddStudentFeeItemInv, UnitsFinite DEF LedgerInv, RowsFinite, Finite, Current
  <2> QED
    BY <1>2, <2>1, <2>2 DEF Checked, DiscountsWithinGross
<1> QED
  BY <1>2, <1>4, <1>5
  DEF Kept, Checked, CancelledUnpaid, DeletedUnpaid, OneDiscountPerType

\* A discount is checked against the rows it is added to.
LEMMA AddDiscountKeeps ==
    ASSUME LedgerInv, Checked, NEW s \in Session, Fresh(s), AddDiscount(s)
    PROVE  Kept
<1>1. PICK row \in DiscountRow :
          /\ \A d \in view[s].discounts : d.id # row.id
          /\ \A d \in view[s].discounts : d.type # row.type
          /\ Total(view[s].discounts) + row.amount <= Total(view[s].items)
          /\ discounts' = discounts \cup {row}
          /\ WriteStatus(s, StatusFor([view[s] EXCEPT !.discounts = @ \cup {row}]))
  BY DEF AddDiscount
<1>2. UNCHANGED <<deleted, items, payments>>
  BY DEF AddDiscount
<1>3. view[s].discounts = discounts /\ view[s].items = items
  BY DEF Fresh, Current
<1> DEFINE v == [view[s] EXCEPT !.discounts = @ \cup {row}]
<1>4. /\ v.status = status
      /\ v.items = items' /\ v.discounts = discounts' /\ v.payments = payments'
  BY <1>1, <1>2 DEF Fresh, Current
<1> HIDE DEF v
<1>5. StatusCurrent' /\ (status' = "CANCELLED" <=> status = "CANCELLED")
  BY <1>1, <1>4, StatusWritten DEF v
<1>6. DiscountsWithinGross'
  <2>1. row \notin discounts /\ row.amount \in Amount
    BY <1>1, <1>3, LedgerAssumption DEF DiscountRow
  <2>2. HasAmounts(discounts)
    BY DEF LedgerInv, RowsFinite, Finite, Current
  <2>3. Total(discounts') = Total(discounts) + row.amount
    BY <1>1, <2>1, <2>2, TotalAdd
  <2> QED
    BY <1>1, <1>2, <1>3, <2>3 DEF DiscountsWithinGross
<1>7. OneDiscountPerType'
  BY <1>1, <1>3 DEF Checked, OneDiscountPerType
<1> QED
  BY <1>2, <1>5, <1>6, <1>7 DEF Kept, Checked, CancelledUnpaid, DeletedUnpaid

\* Fewer discounts stay within the gross amount.
LEMMA RemoveDiscountKeeps ==
    ASSUME LedgerInv, Checked, NEW s \in Session, Fresh(s), RemoveDiscount(s)
    PROVE  Kept
<1>1. PICK row \in view[s].discounts :
          /\ discounts' = discounts \ {row}
          /\ WriteStatus(s, StatusFor([view[s] EXCEPT !.discounts = @ \ {row}]))
  BY DEF RemoveDiscount
<1>2. UNCHANGED <<deleted, items, payments>>
  BY DEF RemoveDiscount
<1> DEFINE v == [view[s] EXCEPT !.discounts = @ \ {row}]
<1>3. /\ v.status = status
      /\ v.items = items' /\ v.discounts = discounts' /\ v.payments = payments'
  BY <1>1, <1>2 DEF Fresh, Current
<1> HIDE DEF v
<1>4. StatusCurrent' /\ (status' = "CANCELLED" <=> status = "CANCELLED")
  BY <1>1, <1>3, StatusWritten DEF v
<1>5. DiscountsWithinGross'
  <2>1. HasAmounts(discounts) /\ discounts' \subseteq discounts
    BY <1>1 DEF LedgerInv, RowsFinite, Finite, Current
  <2>2. Total(discounts') <= Total(discounts) /\ HasAmounts(discounts')
    BY <2>1, TotalMonotonic
  <2>3. Total(items) \in Nat /\ Total(discounts) \in Nat /\ Total(discounts') \in Nat
    BY <2>2, SumsAreNat, UnitsFinite
  <2> QED
    BY <1>2, <2>2, <2>3 DEF Checked, DiscountsWithinGross
<1> QED
  BY <1>1, <1>2, <1>4, <1>5
  DEF Kept, Checked, CancelledUnpaid, DeletedUnpaid, OneDiscountPerType

\* An assignment that is cancelled has no payment.
LEMMA CancelAssignmentKeeps ==
    ASSUME LedgerInv, Checked, NEW s \in Session, Fresh(s), CancelAssignment(s)
    PROVE  Kept
<1>1. /\ UNCHANGED <<deleted, items, discounts, payments>>
      /\ status' = "CANCELLED" /\ payments = {}
  BY DEF CancelAssignment, Fresh, Current
<1>2. StatusCurrent'
  BY <1>1 DEF StatusCurrent, StatusFor, Current
<1> QED
  BY <1>1, <1>2
  DEF Kept, Checked, CancelledUnpaid, DeletedUnpaid, DiscountsWithinGross, OneDiscountPerType

\* Nor has one that is deleted.
LEMMA DeleteAssignmentKeeps ==
    ASSUME LedgerInv, Checked, NEW s \in Session, Fresh(s), DeleteAssignment(s)
    PROVE  Kept
<1>1. /\ UNCHANGED <<status, payments>> /\ deleted' /\ payments = {}
      /\ discounts' \subseteq discounts
  BY DEF DeleteAssignment, Fresh, Current
<1> QED
  BY <1>1
  DEF Kept, Checked, CancelledUnpaid, DeletedUnpaid, DiscountsWithinGross, OneDiscountPerType,
      StatusCurrent

\* A payment is recorded on an assignment that is neither cancelled nor deleted.
LEMMA PayCommitKeeps ==
    ASSUME LedgerInv, Checked, NEW s \in Session, Fresh(s),
           NEW amount \in Price, PayCommit(s, amount, NoRef)
    PROVE  Kept
<1>1. PICK row :
          /\ payments' = payments \cup {row}
          /\ WriteStatus(s, StatusFor([view[s] EXCEPT !.payments = @ \cup {row}]))
  BY DEF PayCommit
<1>2. UNCHANGED <<deleted, items, discounts>> /\ ~deleted /\ status # "CANCELLED"
  BY DEF PayCommit, Fresh, Current
<1> DEFINE v == [view[s] EXCEPT !.payments = @ \cup {row}]
<1>3. /\ v.status = status
      /\ v.items = items' /\ v.discounts = discounts' /\ v.payments = payments'
  BY <1>1, <1>2 DEF Fresh, Current
<1> HIDE DEF v
<1>4. StatusCurrent' /\ (status' = "CANCELLED" <=> status = "CANCELLED")
  BY <1>1, <1>3, StatusWritten DEF v
<1> QED
  BY <1>2, <1>4
  DEF Kept, Checked, CancelledUnpaid, DeletedUnpaid, DiscountsWithinGross, OneDiscountPerType

\* A commit that changes rows acts on current ones, or makes the history stale.
LEMMA FreshCommit ==
    ASSUME LedgerInv, Checked, NEW s \in Session, Fresh(s), StaffStep(s), rows' # rows
    PROVE  Kept /\ pc'[s] = "idle"
<1>1. Kept
  BY AddStudentFeeItemKeeps, AddDiscountKeeps, RemoveDiscountKeeps, CancelAssignmentKeeps,
     DeleteAssignmentKeeps, PayCommitKeeps
  DEF StaffStep, Load, PayLock, Abort
<1>2. Finish(s)
  BY DEF StaffStep, Load, PayLock, Abort, AddStudentFeeItem, AddDiscount, RemoveDiscount,
         CancelAssignment, DeleteAssignment, PayCommit
<1>3. pc'[s] = "idle"
  BY <1>2 DEF Finish, LedgerInv, LedgerTypeOK
<1> QED
  BY <1>1, <1>3

\* A step that changes no row ends a request, or begins one on the rows as they are.
LEMMA FreshRead ==
    ASSUME LedgerInv, NEW s \in Session, StaffStep(s), rows' = rows,
           NEW r \in Session, pc'[r] # "idle"
    PROVE  \/ pc[r] # "idle" /\ view'[r] = view[r]
           \/ Fresh(r)'
<1>1. Current' = Current /\ deleted' = deleted
  BY DEF rows, Current
<1>2. CASE \E op \in Offered : Load(s, op)
  BY <1>1, <1>2 DEF Load, Fresh, LedgerInv, LedgerTypeOK
<1>3. CASE PayLock(s, status)
  <2>1. [Current EXCEPT !.status = status] = Current
    BY DEF Current
  <2> QED
    BY <1>1, <1>3, <2>1 DEF PayLock, Fresh, LedgerInv, LedgerTypeOK
<1>4. CASE Finish(s)
  BY <1>4 DEF Finish, LedgerInv, LedgerTypeOK
<1> QED
  BY <1>2, <1>3, <1>4
  DEF StaffStep, Abort, AddStudentFeeItem, AddDiscount, RemoveDiscount, CancelAssignment,
      DeleteAssignment, PayCommit

\* Every step keeps the invariant, and what it says of a step.
LEMMA FreshStep ==
    ASSUME FreshInv, FreshNext
    PROVE  /\ FreshInv'
           /\ \/ stale'
              \/ Checked' /\ (rows' # rows => Kept) /\ (rows' = rows => status' = status)
<1>1. PICK s \in Session : StaffStep(s)
  BY DEF FreshNext, Observe, LedgerNext
<1>2. LedgerInv /\ LedgerInv'
  BY <1>1, LedgerStep DEF FreshInv, LedgerAction
<1>3. CASE stale'
  <2>1. FreshInv'
    BY <1>2, <1>3, Zenon DEF FreshInv
  <2> QED
    BY <1>3, <2>1, Zenon
<1>4. CASE ~stale' /\ rows' # rows
  <2>1. ~stale /\ outdated \subseteq Under' /\ outdated' = Under'
    BY <1>4 DEF FreshNext, Observe
  <2>2. pc'[s] = "idle"
    <3>1. Finish(s)
      BY <1>1, <1>4
      DEF StaffStep, Load, PayLock, Abort, AddStudentFeeItem, AddDiscount, RemoveDiscount,
          CancelAssignment, DeleteAssignment, PayCommit
    <3> QED
      BY <1>2, <3>1 DEF Finish, LedgerInv, LedgerTypeOK
  <2>3. s \notin outdated /\ pc[s] # "idle"
    <3>1. pc[s] # "idle"
      BY <1>1, <1>4
      DEF StaffStep, Load, PayLock, Abort, AddStudentFeeItem, AddDiscount, RemoveDiscount,
          CancelAssignment, DeleteAssignment, PayCommit
    <3> QED
      BY <2>1, <2>2, <3>1 DEF Under
  <2>4. Checked /\ Fresh(s)
    BY <2>1, <2>3 DEF FreshInv
  <2>5. Kept
    BY <1>1, <1>2, <1>4, <2>4, FreshCommit
  <2>6. \A r \in Session \ outdated' : pc'[r] = "idle"
    BY <2>1 DEF Under
  <2> QED
    BY <1>2, <1>4, <2>5, <2>6 DEF FreshInv, Kept
<1>5. CASE ~stale' /\ rows' = rows
  <2>1. ~stale /\ outdated' = outdated \cap Under'
    BY <1>5 DEF FreshNext, Observe
  <2>2. Checked'
    BY <1>5, <2>1
    DEF FreshInv, Checked, CancelledUnpaid, DeletedUnpaid, DiscountsWithinGross,
        OneDiscountPerType, rows
  <2>3. ASSUME NEW r \in Session \ outdated', pc'[r] # "idle"
        PROVE  Fresh(r)'
    <3>1. r \notin outdated
      BY <2>1, <2>3 DEF Under
    <3>2. CASE pc[r] # "idle" /\ view'[r] = view[r]
      BY <1>5, <2>1, <3>1, <3>2 DEF FreshInv, Fresh, Current, rows
    <3> QED
      BY <1>1, <1>2, <1>5, <2>3, <3>2, FreshRead
  <2> QED
    BY <1>2, <1>5, <2>2, <2>3 DEF FreshInv, rows
<1> QED
  BY <1>3, <1>4, <1>5 DEF FreshNext, Observe

(***************************************************************************)
(* In a history in which no request commits on rows that changed since it  *)
(* read them, and for any number of requests, rows and amounts:            *)
(* cancel_assignment and delete_assignment leave no payment behind, the    *)
(* discounts stay within the gross amount and one of each type, a change   *)
(* leaves the status the metrics call for, and what was cancelled stays.   *)
(***************************************************************************)
THEOREM ChecksHoldWhenFresh == FreshSpec => FreshLedgerKept
<1>1. FreshInit => FreshInv
  <2> SUFFICES ASSUME FreshInit PROVE FreshInv
    OBVIOUS
  <2>1. LedgerInv
    BY LedgerInitInv DEF FreshInit, NothingStale
  <2>2. Checked
    <3>1. Total(discounts) = 0 /\ Total(items) \in Nat
      <4>1. Cardinality(Units({})) = 0
        BY FS_EmptySet DEF Units
      <4> QED
        BY <2>1, <4>1, SumsAreNat DEF FreshInit, NothingStale, LedgerInit, Total
    <3> QED
      BY <3>1
      DEF FreshInit, NothingStale, LedgerInit, Checked, CancelledUnpaid, DeletedUnpaid, DiscountsWithinGross,
          OneDiscountPerType
  <2> QED
    BY <2>1, <2>2 DEF FreshInit, NothingStale, LedgerInit, FreshInv
<1>2. FreshInv /\ [FreshNext]_<<ledgerVars, outdated, stale>> => FreshInv'
  <2>1. ASSUME FreshInv, UNCHANGED <<ledgerVars, outdated, stale>> PROVE FreshInv'
    BY <2>1, LedgerStutter
    DEF FreshInv, Checked, CancelledUnpaid, DeletedUnpaid, DiscountsWithinGross,
        OneDiscountPerType, Fresh, Current, ledgerVars, rows
  <2> QED
    BY <2>1, FreshStep
<1>3. FreshInv /\ [FreshNext]_<<ledgerVars, outdated, stale>> =>
        [\/ stale'
         \/ /\ (CancelledUnpaid /\ DeletedUnpaid)'
            /\ (DiscountsWithinGross /\ OneDiscountPerType)'
            /\ rows' # rows => StatusCurrent'
            /\ status = "CANCELLED" => status' = "CANCELLED"
        ]_<<ledgerVars, outdated, stale>>
  BY FreshStep DEF Checked, Kept
<1> QED
  BY <1>1, <1>2, <1>3, PTL DEF FreshSpec, FreshLedgerKept

-----------------------------------------------------------------------------
(***************************************************************************)
(* OnlinePayments.  The ledger keeps its invariant because each step of    *)
(* the composition is a LedgerAction or leaves the ledger alone.           *)
(***************************************************************************)

\* The gateway holds the customer's money.
Taken(p) == gateway[p] \in {"authorized", "captured"}

\* An order that exists has an amount, and only such an order is paid for.
OrdersOpen ==
    /\ \A o \in Order : orders[o].status # "ABSENT" => orders[o].amount \in Amount
    /\ \A p \in Payment : gateway[p] # "none" => orders[OrderOf[p]].status # "ABSENT"

TxnsTaken == \A p \in Payment : txns[p].status = "SUCCESS" => Taken(p)

(***************************************************************************)
(* What a call relies on between its steps.  A settlement that holds the   *)
(* row lock has found the payment missing from the ledger and its          *)
(* transaction successful; both are still so when it commits.              *)
(***************************************************************************)
Creating(h) ==
    step[h] = "create" =>
        /\ job[h].amount \in Amount
        /\ \A o \in job[h].supersede : orders[o].status # "ABSENT"

Paying(h) ==
    step[h] \in {"verify", "webhook", "settle"} =>
        /\ job[h].payment \in Payment
        /\ gateway[job[h].payment] # "none"

Reporting(h) ==
    /\ step[h] = "verify" => Taken(job[h].payment)
    /\ step[h] = "webhook" \/ (step[h] = "settle" /\ job[h].insert) =>
          /\ job[h].event \in Event
          /\ job[h].event.payment = job[h].payment
          /\ StatusOf(job[h].event) = "SUCCESS" => Taken(job[h].payment)
    /\ step[h] = "settle" /\ job[h].insert =>
          /\ StatusOf(job[h].event) = "SUCCESS"
          /\ txns[job[h].payment].status = "ABSENT"

Crediting(h) ==
    /\ step[h] \in {"create", "verify", "webhook"} => pc[h] = "idle"
    /\ step[h] = "settle" => pc[h] \in {"idle", "record_payment"}
    /\ step[h] = "settle" /\ pc[h] = "record_payment" =>
          /\ job[h].payment \notin Credited
          /\ Target(h) = "SUCCESS"

CallSound(h) == Creating(h) /\ Paying(h) /\ Reporting(h) /\ Crediting(h)

\* At most one session holds a payment's transaction inserted and not yet
\* committed.
InsertingOnce ==
    \A g, h \in Online, p \in Payment : Inserting(g, p) /\ Inserting(h, p) => g = h

OnlineInv ==
    /\ OnlineTypeOK
    /\ LedgerInv
    /\ OrdersOpen
    /\ TxnsTaken
    /\ \A h \in Online : CallSound(h)
    /\ InsertingOnce
    /\ SettledOnce
    /\ CreditBacked

-----------------------------------------------------------------------------
(***************************************************************************)
(* The ledger's part of a step.                                            *)
(***************************************************************************)
LEMMA SettleOnLedger ==
    ASSUME OnlineInv, NEW h \in Online, SettleLock(h) \/ SettleCommit(h)
    PROVE  LedgerAction(h)
<1>1. job[h] \in Job
  BY DEF OnlineInv, OnlineTypeOK
<1>2. CASE SettleLock(h)
  <2>1. status \in Status /\ job[h].loaded \in Status \cup {"NOT_LOADED"}
    BY <1>1 DEF OnlineInv, LedgerInv, LedgerTypeOK, Job
  <2> QED
    BY <1>2, <2>1 DEF SettleLock, LedgerAction
<1>3. CASE SettleCommit(h)
  <2>1. job[h].payment \in Payment /\ gateway[job[h].payment] # "none"
    BY <1>3 DEF SettleCommit, OnlineInv, CallSound, Paying
  <2>2. orders[OrderOf[job[h].payment]].amount \in Amount
    BY <2>1, OnlineAssumption DEF OnlineInv, OrdersOpen
  <2> QED
    BY <1>3, <2>1, <2>2 DEF SettleCommit, LedgerAction, Payment
<1> QED
  BY <1>2, <1>3

\* What an online step does to the ledger is an operation of the ledger.
LEMMA LedgerPart ==
    ASSUME OnlineInv, Next
    PROVE  UNCHANGED ledgerVars \/ \E s \in Session : LedgerAction(s)
<1>1. Clerk \subseteq Session /\ Online \subseteq Session
  BY OnlineAssumption DEF Online
<1>2. CASE \E s \in Clerk : Staff(s)
  BY <1>1, <1>2 DEF Staff, LedgerAction
<1>3. CASE \E h \in Online : SettleLock(h) \/ SettleCommit(h)
  BY <1>1, <1>3, SettleOnLedger
<1>4. CASE \E h \in Online : SettleCancelled(h) \/ Crash(h)
  BY <1>1, <1>4 DEF SettleCancelled, Crash, LedgerAction, StaffStep
<1>5. CASE \E h \in Online : SettleKnown(h) \/ SettleReject(h)
  BY <1>5 DEF SettleKnown, SettleReject
<1>6. CASE \E c \in Client : \/ OrderLoad(c) \/ OrderCommit(c)
                             \/ \E o \in Order, p \in Payment : VerifyLoad(c, o, p)
                             \/ VerifyCommit(c) \/ VerifyReject(c)
  BY <1>6, Zenon DEF OrderLoad, OrderCommit, VerifyLoad, VerifyCommit, VerifyReject
<1>7. CASE \E w \in Hook : (\E e \in Event : WebhookLoad(w, e)) \/ (\E raced \in BOOLEAN : WebhookApply(w, raced))
  BY <1>7, Zenon DEF WebhookLoad, WebhookApply
<1>8. CASE \E p \in Payment : (\E outcome \in {"authorized", "failed"} : Attempt(p, outcome))
                             \/ Capture(p)
  BY <1>8 DEF Attempt, Capture
<1> QED
  BY <1>2, <1>3, <1>4, <1>5, <1>6, <1>7, <1>8 DEF Next, Settle

\* Every online step keeps the invariant of the ledger.
LEMMA LedgerPartInv ==
    ASSUME OnlineInv, Next
    PROVE  LedgerInv'
BY LedgerPart, LedgerStep, LedgerStutter DEF OnlineInv

-----------------------------------------------------------------------------
(***************************************************************************)
(* Types of the parts of a step.                                           *)
(***************************************************************************)
LEMMA NoJobType == NoJob \in Job
BY DEF NoJob, Job, OrderStatus

\* A call that goes on is well typed and leaves the others alone.
LEMMA GotoFacts ==
    ASSUME OnlineTypeOK, NEW h \in Online,
           NEW s \in {"idle", "create", "verify", "webhook", "settle"}, NEW j \in Job, Goto(h, s, j)
    PROVE  /\ step' \in [Online -> {"idle", "create", "verify", "webhook", "settle"}]
           /\ job' \in [Online -> Job]
           /\ step'[h] = s
           /\ job'[h] = j
           /\ \A g \in Online : g # h => step'[g] = step[g] /\ job'[g] = job[g]
BY DEF OnlineTypeOK, Goto

\* A call that ends is well typed and leaves the others alone.
LEMMA DoneFacts ==
    ASSUME OnlineTypeOK, NEW h \in Online, Done(h)
    PROVE  /\ step' \in [Online -> {"idle", "create", "verify", "webhook", "settle"}]
           /\ job' \in [Online -> Job]
           /\ step'[h] = "idle"
           /\ \A g \in Online : g # h => step'[g] = step[g] /\ job'[g] = job[g]
BY GotoFacts, NoJobType DEF Done

\* Answers are given to events and for orders there are.
LEMMA AnswerType ==
    ASSUME OnlineTypeOK, NEW h \in Online, NEW e, Answer(h, e)
    PROVE  acked' \subseteq Event /\ told' \subseteq Order
BY DEF OnlineTypeOK, Answer, Job

\* A session that is in no online call owes nothing.
LEMMA IdleCall ==
    ASSUME NEW h \in Online, step'[h] = "idle"
    PROVE  CallSound(h)'
BY DEF CallSound, Creating, Paying, Reporting, Crediting

(***************************************************************************)
(* A step of one session disturbs no other call, as long as orders and     *)
(* successful transactions stay, payments at the gateway only progress,    *)
(* and the ledger and the inserted transaction a settlement relies on are  *)
(* left alone.                                                             *)
(***************************************************************************)
Progress ==
    /\ \A o \in Order : orders[o].status # "ABSENT" => orders'[o].status # "ABSENT"
    /\ \A p \in Payment : gateway[p] # "none" => gateway'[p] # "none"
    /\ \A p \in Payment : Taken(p) => Taken(p)'
    /\ \A p \in Payment : txns[p].status = "SUCCESS" => txns'[p].status = "SUCCESS"

\* A call in flight is not disturbed by the progress others make.
LEMMA OtherCall ==
    ASSUME OnlineInv, Progress, NEW g \in Online,
           step'[g] = step[g], job'[g] = job[g], pc'[g] = pc[g],
           step[g] = "settle" /\ job[g].insert =>
               txns'[job[g].payment].status = txns[job[g].payment].status,
           step[g] = "settle" /\ pc[g] = "record_payment" => job[g].payment \notin Credited'
    PROVE  CallSound(g)'
<1>1. CallSound(g) /\ job[g] \in Job
  BY DEF OnlineInv, OnlineTypeOK
<1>2. Creating(g)'
  BY <1>1 DEF CallSound, Creating, Progress, Job
<1>3. Paying(g)'
  BY <1>1 DEF CallSound, Paying, Progress
<1>4. Reporting(g)'
  <2>1. step[g] \in {"verify", "webhook", "settle"} => job[g].payment \in Payment
    BY <1>1 DEF CallSound, Paying
  <2> QED
    BY <1>1, <2>1 DEF CallSound, Reporting, Progress, StatusOf
<1>5. Crediting(g)'
  <2>1. step[g] = "settle" => job[g].payment \in Payment
    BY <1>1 DEF CallSound, Paying
  <2>2. step[g] = "settle" /\ Target(g) = "SUCCESS" => Target(g)' = "SUCCESS"
    BY <1>1, <2>1 DEF Target, Progress, StatusOf
  <2> QED
    BY <1>1, <2>2 DEF CallSound, Crediting
<1> QED
  BY <1>2, <1>3, <1>4, <1>5 DEF CallSound

(***************************************************************************)
(* The steps that leave orders, transactions, gateway and payments alone.  *)
(***************************************************************************)
LEMMA LocalStep ==
    ASSUME OnlineInv, LedgerInv', OnlineTypeOK', NEW h,
           UNCHANGED <<payments, orders, txns, gateway>>,
           \A g \in Online : g # h => step'[g] = step[g] /\ job'[g] = job[g] /\ pc'[g] = pc[g],
           h \in Online => CallSound(h)',
           \A q \in Payment : h \in Online /\ Inserting(h, q)' => Inserting(h, q)
    PROVE  OnlineInv'
<1>1. Progress
  BY DEF Progress, Taken
<1>2. Credited' = Credited
  BY DEF Credited
<1>3. \A g \in Online : CallSound(g)'
  <2> SUFFICES ASSUME NEW g \in Online, g # h PROVE CallSound(g)'
    OBVIOUS
  <2>1. step[g] = "settle" /\ pc[g] = "record_payment" => job[g].payment \notin Credited'
    BY <1>2 DEF OnlineInv, CallSound, Crediting
  <2> QED
    BY <1>1, <2>1, OtherCall
<1>4. OrdersOpen' /\ TxnsTaken'
  BY DEF OnlineInv, OrdersOpen, TxnsTaken, Taken
<1>5. InsertingOnce'
  <2>1. \A g \in Online, q \in Payment : Inserting(g, q)' => Inserting(g, q)
    BY DEF Inserting
  <2> QED
    BY <2>1 DEF OnlineInv, InsertingOnce
<1>6. SettledOnce' /\ CreditBacked'
  BY DEF OnlineInv, SettledOnce, CreditBacked
<1> QED
  BY <1>3, <1>4, <1>5, <1>6 DEF OnlineInv

\* A call that only loads, decides or ends: the ledger does not move either.
LEMMA CallStep ==
    ASSUME OnlineInv, LedgerInv', NEW h \in Online,
           UNCHANGED <<ledgerVars, orders, txns, gateway>>,
           acked' \subseteq Event, told' \subseteq Order,
           NEW s \in {"idle", "create", "verify", "webhook", "settle"}, NEW j \in Job, Goto(h, s, j),
           CallSound(h)',
           s = "settle" => ~j.insert
    PROVE  OnlineInv'
<1>1. /\ step' \in [Online -> {"idle", "create", "verify", "webhook", "settle"}]
      /\ job' \in [Online -> Job]
      /\ step'[h] = s /\ job'[h] = j
      /\ \A g \in Online : g # h => step'[g] = step[g] /\ job'[g] = job[g]
  BY GotoFacts DEF OnlineInv
<1>2. OnlineTypeOK'
  BY <1>1 DEF OnlineInv, OnlineTypeOK, LedgerInv
<1>3. \A q \in Payment : Inserting(h, q)' => Inserting(h, q)
  BY <1>1 DEF Inserting
<1>4. pc' = pc /\ payments' = payments
  BY DEF ledgerVars, rows
<1> QED
  BY <1>1, <1>2, <1>3, <1>4, LocalStep

\* create_payment_order begins.
LEMMA OrderLoadInv ==
    ASSUME OnlineInv, LedgerInv', NEW c \in Online, OrderLoad(c)
    PROVE  OnlineInv'
<1> DEFINE j == [NoJob EXCEPT !.amount = Outstanding(Current), !.supersede = Active]
<1>1. Outstanding(Current) \in Amount /\ Outstanding(Current) \in Nat
  BY AmountAssumption DEF OrderLoad, Amount
<1>2. j \in Job
  BY <1>1, NoJobType DEF NoJob, Job, Active
<1>3. Goto(c, "create", j) /\ UNCHANGED <<ledgerVars, orders, txns, gateway, acked, told>>
  BY DEF OrderLoad
<1>4. step'[c] = "create" /\ job'[c] = j /\ pc'[c] = "idle"
  BY <1>2, <1>3, GotoFacts DEF OnlineInv, OrderLoad, Ready, ledgerVars
<1>5. CallSound(c)'
  BY <1>1, <1>3, <1>4 DEF CallSound, Creating, Paying, Reporting, Crediting, Active, NoJob
<1> HIDE DEF j
<1> QED
  BY <1>2, <1>3, <1>5, CallStep DEF OnlineInv, OnlineTypeOK

\* verify_payment begins: only a payment whose signature was verified, or whose
\* transaction is successful, is carried further.
LEMMA VerifyLoadInv ==
    ASSUME OnlineInv, LedgerInv', NEW c \in Online, NEW o \in Order, NEW p \in Payment,
           VerifyLoad(c, o, p)
    PROVE  OnlineInv'
<1>1. UNCHANGED <<ledgerVars, orders, txns, gateway, acked>>
  BY DEF VerifyLoad
<1>2. pc[c] = "idle" /\ status \in Status
  BY DEF VerifyLoad, Ready, OnlineInv, LedgerInv, LedgerTypeOK
<1>3. txns[p].status = "SUCCESS" => Taken(p)
  BY DEF OnlineInv, TxnsTaken
<1>4. ASSUME NEW s \in {"verify", "settle"}, NEW j \in Job, Goto(c, s, j), told' = told,
             Taken(p), j.payment = p, ~j.insert
      PROVE  OnlineInv'
  <2>1. step'[c] = s /\ job'[c] = j /\ pc'[c] = "idle" /\ gateway[p] # "none"
    BY <1>1, <1>2, <1>4, GotoFacts DEF OnlineInv, ledgerVars, Taken
  <2>2. CallSound(c)'
    BY <1>1, <1>2, <1>4, <2>1 DEF CallSound, Creating, Paying, Reporting, Crediting, Taken
  <2> QED
    BY <1>1, <1>4, <2>2, CallStep DEF OnlineInv, OnlineTypeOK
<1> DEFINE jv == [NoJob EXCEPT !.payment = p, !.known = txns[p].status # "ABSENT"]
<1> DEFINE js == [NoJob EXCEPT !.payment = p, !.asked = {o}, !.loaded = status]
<1>5. CASE Goto(c, "verify", jv) /\ told' = told /\ Taken(p)
  <2>1. jv \in Job /\ jv.payment = p /\ ~jv.insert
    BY NoJobType DEF NoJob, Job
  <2> HIDE DEF jv
  <2> QED
    BY <1>4, <1>5, <2>1
<1>6. CASE Goto(c, "settle", js) /\ told' = told /\ Taken(p)
  <2>1. js \in Job /\ js.payment = p /\ ~js.insert
    BY <1>2, NoJobType DEF NoJob, Job
  <2> HIDE DEF js
  <2> QED
    BY <1>4, <1>6, <2>1
<1>7. CASE told' = told \cup {o} /\ UNCHANGED <<step, job>>
  <2>1. step'[c] = "idle" /\ pc' = pc /\ payments' = payments
    BY <1>1, <1>7 DEF VerifyLoad, Ready, ledgerVars, rows
  <2>2. CallSound(c)'
    BY <2>1, IdleCall
  <2>3. OnlineTypeOK'
    BY <1>1, <1>7 DEF OnlineInv, OnlineTypeOK, LedgerInv
  <2>4. \A q \in Payment : Inserting(c, q)' => Inserting(c, q)
    BY <2>1 DEF Inserting
  <2> QED
    BY <1>1, <1>7, <2>1, <2>2, <2>3, <2>4, LocalStep
<1> QED
  BY <1>3, <1>5, <1>6, <1>7 DEF VerifyLoad, Taken

\* process_webhook begins.
LEMMA WebhookLoadInv ==
    ASSUME OnlineInv, LedgerInv', NEW w \in Online, NEW e \in Event, WebhookLoad(w, e)
    PROVE  OnlineInv'
<1>1. UNCHANGED <<ledgerVars, orders, txns, gateway, told>>
  BY DEF WebhookLoad
<1>2. e.payment \in Payment
  BY DEF Event
<1>3. gateway[e.payment] # "none" /\ (StatusOf(e) = "SUCCESS" => Taken(e.payment)) /\ pc[w] = "idle"
  BY OnlineAssumption DEF WebhookLoad, Emitted, StatusOf, Taken, Ready, Event
<1>4. CASE acked' = acked \cup {e} /\ UNCHANGED <<step, job>>
  <2>1. step'[w] = "idle" /\ pc' = pc /\ payments' = payments
    BY <1>1, <1>4 DEF WebhookLoad, Ready, ledgerVars, rows
  <2>2. CallSound(w)'
    BY <2>1, IdleCall
  <2>3. OnlineTypeOK'
    BY <1>1, <1>4 DEF OnlineInv, OnlineTypeOK, LedgerInv
  <2>4. \A q \in Payment : Inserting(w, q)' => Inserting(w, q)
    BY <2>1 DEF Inserting
  <2> QED
    BY <1>1, <1>4, <2>1, <2>2, <2>3, <2>4, LocalStep
<1> DEFINE j == [NoJob EXCEPT !.payment = e.payment, !.event = e,
                              !.order = orders[OrderOf[e.payment]].status,
                              !.known = txns[e.payment].status # "ABSENT"]
<1>5. CASE Goto(w, "webhook", j) /\ acked' = acked
  <2>1. orders[OrderOf[e.payment]].status \in OrderStatus
    BY <1>2, OnlineAssumption DEF OnlineInv, OnlineTypeOK
  <2>2. j \in Job
    BY <1>2, <2>1, NoJobType DEF NoJob, Job
  <2>3. j.payment = e.payment /\ j.event = e
    BY DEF NoJob
  <2> HIDE DEF j
  <2>4. step'[w] = "webhook" /\ job'[w] = j /\ pc'[w] = "idle"
    BY <1>1, <1>3, <1>5, <2>2, GotoFacts DEF OnlineInv, ledgerVars
  <2>5. CallSound(w)'
    BY <1>1, <1>2, <1>3, <2>3, <2>4 DEF CallSound, Creating, Paying, Reporting, Crediting, Taken
  <2> QED
    BY <1>1, <1>5, <2>2, <2>5, CallStep DEF OnlineInv, OnlineTypeOK
<1> QED
  BY <1>4, <1>5 DEF WebhookLoad

\* A call that ends, with or without success, and leaves the tables alone.
LEMMA EndInv ==
    ASSUME OnlineInv, LedgerInv', NEW h \in Online, Done(h),
           UNCHANGED <<payments, orders, txns, gateway>>,
           acked' \subseteq Event, told' \subseteq Order,
           \A g \in Online : g # h => pc'[g] = pc[g]
    PROVE  OnlineInv'
<1>1. /\ step' \in [Online -> {"idle", "create", "verify", "webhook", "settle"}]
      /\ job' \in [Online -> Job]
      /\ step'[h] = "idle"
      /\ \A g \in Online : g # h => step'[g] = step[g] /\ job'[g] = job[g]
  BY DoneFacts DEF OnlineInv
<1>2. OnlineTypeOK'
  BY <1>1 DEF OnlineInv, OnlineTypeOK, LedgerInv
<1>3. CallSound(h)'
  BY <1>1, IdleCall
<1>4. \A q \in Payment : Inserting(h, q)' => Inserting(h, q)
  BY <1>1 DEF Inserting
<1> QED
  BY <1>1, <1>2, <1>3, <1>4, LocalStep

\* A call that ends without writing keeps the invariant.
LEMMA RejectInv ==
    ASSUME OnlineInv, LedgerInv', NEW h \in Online,
           VerifyReject(h) \/ SettleKnown(h) \/ SettleReject(h)
    PROVE  OnlineInv'
<1>1. Done(h) /\ UNCHANGED <<ledgerVars, orders, txns, gateway>>
  BY DEF VerifyReject, SettleKnown, SettleReject
<1>2. acked' \subseteq Event /\ told' \subseteq Order
  <2>1. CASE SettleKnown(h)
    <3>1. job[h].payment \in Payment
      BY <2>1 DEF SettleKnown, CanLock, OnlineInv, CallSound, Paying
    <3> QED
      BY <2>1, <3>1, AnswerType DEF SettleKnown, OnlineInv
  <2>2. CASE VerifyReject(h) \/ SettleReject(h)
    BY <2>2 DEF VerifyReject, SettleReject, OnlineInv, OnlineTypeOK
  <2> QED
    BY <2>1, <2>2
<1> QED
  BY <1>1, <1>2, EndInv DEF ledgerVars, rows

\* A call that is rolled back or dies keeps the invariant.
LEMMA BreakOffInv ==
    ASSUME OnlineInv, LedgerInv', NEW h \in Online, SettleCancelled(h) \/ Crash(h)
    PROVE  OnlineInv'
<1>1. Done(h) /\ UNCHANGED <<orders, txns, gateway, acked, told>>
  BY DEF SettleCancelled, Crash
<1>2. Abort(h) \/ UNCHANGED ledgerVars
  BY DEF SettleCancelled, Crash
<1>3. payments' = payments /\ \A g \in Online : g # h => pc'[g] = pc[g]
  BY <1>2, OnlineAssumption
  DEF Abort, Finish, ledgerVars, rows, OnlineInv, LedgerInv, LedgerTypeOK, Online
<1> QED
  BY <1>1, <1>3, EndInv DEF OnlineInv, OnlineTypeOK

\* The settlement looks the payment up under the row lock.
LEMMA SettleLockInv ==
    ASSUME OnlineInv, LedgerInv', NEW h \in Online, SettleLock(h)
    PROVE  OnlineInv'
<1>1. UNCHANGED onlineVars /\ payments' = payments
  BY DEF SettleLock, PayLock, rows
<1>2. pc'[h] = "record_payment" /\ \A g \in Online : g # h => pc'[g] = pc[g]
  BY OnlineAssumption DEF SettleLock, PayLock, OnlineInv, LedgerInv, LedgerTypeOK, Online
<1>3. step[h] = "settle" /\ job[h].payment \notin Credited /\ Target(h) = "SUCCESS"
  BY DEF SettleLock, CanLock
<1>4. CallSound(h)'
  <2>1. Credited' = Credited /\ Target(h)' = Target(h)
    BY <1>1 DEF Credited, Target, onlineVars
  <2>2. Creating(h)' /\ Paying(h)' /\ Reporting(h)'
    BY <1>1 DEF OnlineInv, CallSound, Creating, Paying, Reporting, onlineVars, Taken
  <2>3. Crediting(h)'
    BY <1>1, <1>2, <1>3, <2>1 DEF Crediting, onlineVars
  <2> QED
    BY <2>2, <2>3 DEF CallSound
<1>5. OnlineTypeOK'
  BY <1>1 DEF OnlineInv, OnlineTypeOK, LedgerInv, onlineVars
<1>6. \A q \in Payment : Inserting(h, q)' => Inserting(h, q)
  BY <1>1 DEF Inserting, onlineVars
<1> QED
  BY <1>1, <1>2, <1>4, <1>5, <1>6, LocalStep DEF onlineVars

-----------------------------------------------------------------------------
(***************************************************************************)
(* The steps that write orders, transactions or the gateway's state.       *)
(***************************************************************************)
LEMMA GatewayInv ==
    ASSUME OnlineInv, LedgerInv', NEW p \in Payment,
           (\E outcome \in {"authorized", "failed"} : Attempt(p, outcome)) \/ Capture(p)
    PROVE  OnlineInv'
<1>1. UNCHANGED <<ledgerVars, orders, txns, acked, told, step, job>>
  BY DEF Attempt, Capture
<1>2. PICK outcome \in {"authorized", "captured", "failed"} :
          /\ gateway' = [gateway EXCEPT ![p] = outcome]
          /\ gateway[p] = "none" \/ (gateway[p] = "authorized" /\ outcome = "captured")
          /\ orders[OrderOf[p]].status # "ABSENT"
  BY DEF Attempt, Capture, OnlineInv, OrdersOpen
<1>3. gateway' \in [Payment -> {"none", "authorized", "captured", "failed"}]
      /\ \A q \in Payment : gateway'[q] = IF q = p THEN outcome ELSE gateway[q]
  BY <1>2 DEF OnlineInv, OnlineTypeOK
<1>4. OnlineTypeOK'
  BY <1>1, <1>3 DEF OnlineInv, OnlineTypeOK, LedgerInv
<1>5. Progress
  BY <1>1, <1>2, <1>3 DEF Progress, Taken
<1>6. Credited' = Credited /\ pc' = pc /\ payments' = payments
  BY <1>1 DEF Credited, ledgerVars, rows
<1>7. \A g \in Online : CallSound(g)'
  <2> SUFFICES ASSUME NEW g \in Online PROVE CallSound(g)'
    OBVIOUS
  <2>1. step[g] = "settle" /\ pc[g] = "record_payment" => job[g].payment \notin Credited'
    BY <1>6 DEF OnlineInv, CallSound, Crediting
  <2> QED
    BY <1>1, <1>5, <1>6, <2>1, OtherCall
<1>8. OrdersOpen' /\ TxnsTaken'
  BY <1>1, <1>2, <1>3, <1>5 DEF OnlineInv, OrdersOpen, TxnsTaken, Progress
<1>9. InsertingOnce'
  BY <1>1 DEF OnlineInv, InsertingOnce, Inserting
<1>10. SettledOnce' /\ CreditBacked'
  <2>1. \A row \in payments : row.ref # NoRef => row.ref \in Payment
    BY DEF OnlineInv, LedgerInv, LedgerTypeOK, PaymentRow, Payment
  <2> QED
    BY <1>1, <1>5, <1>6, <2>1 DEF OnlineInv, SettledOnce, CreditBacked, Progress, Taken
<1> QED
  BY <1>4, <1>7, <1>8, <1>9, <1>10 DEF OnlineInv

\* create_payment_order commits the new order and cancels the old ones.
LEMMA OrderCommitInv ==
    ASSUME OnlineInv, LedgerInv', NEW c \in Online, OrderCommit(c)
    PROVE  OnlineInv'
<1>1. Done(c) /\ UNCHANGED <<ledgerVars, txns, gateway, acked, told>> /\ step[c] = "create"
  BY DEF OrderCommit
<1>2. /\ job[c].amount \in Amount /\ job[c].amount \in Nat
      /\ \A o \in job[c].supersede : orders[o].status # "ABSENT"
  BY <1>1, AmountAssumption DEF OnlineInv, CallSound, Creating, Amount
<1>3. /\ orders' \in [Order -> [status : OrderStatus, amount : Nat]]
      /\ \A o \in Order : orders[o].status # "ABSENT" =>
            orders'[o].status # "ABSENT" /\ orders'[o].amount = orders[o].amount
      /\ \A o \in Order : orders'[o].status # "ABSENT" => orders'[o].amount \in Amount
  <2>1. PICK new \in Order :
          /\ orders[new].status = "ABSENT"
          /\ orders' = [o \in Order |->
                IF o = new THEN [status |-> "CREATED", amount |-> job[c].amount]
                ELSE IF o \in job[c].supersede THEN [orders[o] EXCEPT !.status = "CANCELLED"]
                ELSE orders[o]]
    BY DEF OrderCommit
  <2>2. orders \in [Order -> [status : OrderStatus, amount : Nat]]
        /\ \A o \in Order : orders[o].status # "ABSENT" => orders[o].amount \in Amount
    BY DEF OnlineInv, OnlineTypeOK, OrdersOpen
  <2> QED
    BY <1>2, <2>1, <2>2 DEF OrderStatus
<1>4. /\ step' \in [Online -> {"idle", "create", "verify", "webhook", "settle"}]
      /\ job' \in [Online -> Job]
      /\ step'[c] = "idle"
      /\ \A g \in Online : g # c => step'[g] = step[g] /\ job'[g] = job[g]
  BY <1>1, DoneFacts DEF OnlineInv
<1>5. OnlineTypeOK'
  BY <1>1, <1>3, <1>4 DEF OnlineInv, OnlineTypeOK, LedgerInv
<1>6. Progress
  BY <1>1, <1>3 DEF Progress, Taken
<1>7. Credited' = Credited /\ pc' = pc /\ payments' = payments
  BY <1>1 DEF Credited, ledgerVars, rows
<1>8. \A g \in Online : CallSound(g)'
  <2> SUFFICES ASSUME NEW g \in Online PROVE CallSound(g)'
    OBVIOUS
  <2>1. CASE g = c
    BY <1>4, <2>1, IdleCall
  <2>2. CASE g # c
    <3>1. step[g] = "settle" /\ pc[g] = "record_payment" => job[g].payment \notin Credited'
      BY <1>7 DEF OnlineInv, CallSound, Crediting
    <3> QED
      BY <1>1, <1>4, <1>6, <1>7, <2>2, <3>1, OtherCall
  <2> QED
    BY <2>1, <2>2
<1>9. OrdersOpen' /\ TxnsTaken'
  BY <1>1, <1>3, OnlineAssumption DEF OnlineInv, OrdersOpen, TxnsTaken, Taken
<1>10. InsertingOnce'
  <2>1. \A g \in Online, q \in Payment : Inserting(g, q)' => Inserting(g, q)
    BY <1>4 DEF Inserting
  <2> QED
    BY <2>1 DEF OnlineInv, InsertingOnce
<1>11. SettledOnce' /\ CreditBacked'
  <2>1. \A row \in payments : row.ref # NoRef =>
          row.ref \in Payment /\ orders[OrderOf[row.ref]].status # "ABSENT"
    BY DEF OnlineInv, OrdersOpen, CreditBacked, LedgerInv, LedgerTypeOK, PaymentRow, Payment
  <2>2. \A p \in Payment : OrderOf[p] \in Order
    BY OnlineAssumption
  <2> QED
    BY <1>1, <1>3, <1>7, <2>1, <2>2 DEF OnlineInv, SettledOnce, CreditBacked
<1> QED
  BY <1>5, <1>8, <1>9, <1>10, <1>11 DEF OnlineInv

(***************************************************************************)
(* What verify_payment and process_webhook write: at most the transaction  *)
(* of one payment, which did not exist, and the status of its order.  The  *)
(* unique index has kept anybody else from inserting that transaction.     *)
(***************************************************************************)
LEMMA RecordStep ==
    ASSUME OnlineInv, LedgerInv', NEW h \in Online, NEW p \in Payment,
           UNCHANGED <<ledgerVars, gateway>>,
           pc[h] = "idle", gateway[p] # "none",
           \A g \in Online : ~Inserting(g, p),
           NEW r \in [status : TxnStatus, event : Event \cup {NoEvent}],
           r.status = "SUCCESS" => Taken(p),
           txns' = txns \/ (txns[p].status = "ABSENT" /\ txns' = [txns EXCEPT ![p] = r]),
           NEW new \in OrderStatus \ {"ABSENT"},
           orders' = orders \/ orders' = [orders EXCEPT ![OrderOf[p]].status = new],
           acked' \subseteq Event, told' \subseteq Order,
           NEW s \in {"idle", "settle"}, NEW j \in Job, Goto(h, s, j),
           s = "settle" => j.payment = p,
           s = "settle" /\ j.insert =>
              /\ j.event \in Event /\ j.event.payment = p /\ StatusOf(j.event) = "SUCCESS"
              /\ txns'[p].status = "ABSENT" /\ Taken(p)
    PROVE  OnlineInv'
<1>1. OrderOf[p] \in Order /\ orders[OrderOf[p]].status # "ABSENT"
  BY OnlineAssumption DEF OnlineInv, OrdersOpen
<1>2. /\ orders' \in [Order -> [status : OrderStatus, amount : Nat]]
      /\ \A o \in Order : orders'[o].amount = orders[o].amount
      /\ \A o \in Order : orders'[o].status = "ABSENT" <=> orders[o].status = "ABSENT"
  <2>1. orders \in [Order -> [status : OrderStatus, amount : Nat]]
    BY DEF OnlineInv, OnlineTypeOK
  <2>2. CASE orders' = orders
    BY <2>1, <2>2
  <2>3. CASE orders' = [orders EXCEPT ![OrderOf[p]].status = new]
    <3> DEFINE rec == [orders[OrderOf[p]] EXCEPT !.status = new]
    <3>1. rec \in [status : OrderStatus, amount : Nat]
          /\ rec.status = new /\ rec.amount = orders[OrderOf[p]].amount /\ new # "ABSENT"
      BY <1>1, <2>1
    <3>2. orders' = [orders EXCEPT ![OrderOf[p]] = rec]
      BY <2>3
    <3> HIDE DEF rec
    <3> QED
      BY <1>1, <2>1, <3>1, <3>2
  <2> QED
    BY <2>2, <2>3
<1>3. /\ txns' \in [Payment -> [status : TxnStatus, event : Event \cup {NoEvent}]]
      /\ \A q \in Payment : txns'[q] = txns[q] \/ (q = p /\ txns[q].status = "ABSENT" /\ txns'[q] = r)
  BY DEF OnlineInv, OnlineTypeOK
<1>4. /\ step' \in [Online -> {"idle", "create", "verify", "webhook", "settle"}]
      /\ job' \in [Online -> Job]
      /\ step'[h] = s /\ job'[h] = j
      /\ \A g \in Online : g # h => step'[g] = step[g] /\ job'[g] = job[g]
  BY GotoFacts DEF OnlineInv
<1>5. OnlineTypeOK'
  BY <1>2, <1>3, <1>4 DEF OnlineInv, OnlineTypeOK, LedgerInv
<1>6. Progress
  BY <1>2, <1>3 DEF Progress, Taken
<1>7. Credited' = Credited /\ pc' = pc /\ payments' = payments
  BY DEF Credited, ledgerVars, rows
<1>8. \A g \in Online : CallSound(g)'
  <2> SUFFICES ASSUME NEW g \in Online PROVE CallSound(g)'
    OBVIOUS
  <2>1. CASE g = h
    BY <1>4, <1>7, <2>1 DEF CallSound, Creating, Paying, Reporting, Crediting, Taken
  <2>2. CASE g # h
    <3>1. step[g] = "settle" /\ pc[g] = "record_payment" => job[g].payment \notin Credited'
      BY <1>7 DEF OnlineInv, CallSound, Crediting
    <3>2. step[g] = "settle" /\ job[g].insert =>
              txns'[job[g].payment].status = txns[job[g].payment].status
      <4>1. step[g] = "settle" /\ job[g].insert =>
                job[g].payment \in Payment /\ job[g].payment # p
        BY DEF OnlineInv, CallSound, Paying, Inserting
      <4> QED
        BY <1>3, <4>1
    <3> QED
      BY <1>4, <1>6, <1>7, <2>2, <3>1, <3>2, OtherCall
  <2> QED
    BY <2>1, <2>2
<1>9. OrdersOpen' /\ TxnsTaken'
  <2>1. OrdersOpen'
    BY <1>2, OnlineAssumption DEF OnlineInv, OrdersOpen
  <2>2. \A q \in Payment : txns'[q].status = "SUCCESS" => Taken(q)
    BY <1>3 DEF OnlineInv, TxnsTaken
  <2> QED
    BY <1>6, <2>1, <2>2 DEF TxnsTaken, Progress
<1>10. InsertingOnce'
  <2>1. \A g \in Online, q \in Payment : g # h /\ Inserting(g, q)' => Inserting(g, q)
    BY <1>4 DEF Inserting
  <2>2. \A q \in Payment : Inserting(h, q)' => q = p
    BY <1>4 DEF Inserting
  <2> QED
    BY <2>1, <2>2 DEF OnlineInv, InsertingOnce
<1>11. SettledOnce' /\ CreditBacked'
  <2>1. \A row \in payments : row.ref # NoRef => row.ref \in Payment
    BY DEF OnlineInv, LedgerInv, LedgerTypeOK, PaymentRow, Payment
  <2>2. \A q \in Payment : OrderOf[q] \in Order
    BY OnlineAssumption
  <2> QED
    BY <1>2, <1>6, <1>7, <2>1, <2>2 DEF OnlineInv, SettledOnce, CreditBacked, Progress
<1> QED
  BY <1>5, <1>8, <1>9, <1>10, <1>11 DEF OnlineInv

\* verify_payment commits the transaction and the order.
LEMMA VerifyCommitInv ==
    ASSUME OnlineInv, LedgerInv', NEW c \in Online, VerifyCommit(c)
    PROVE  OnlineInv'
<1> DEFINE p == job[c].payment
           r == [status |-> "SUCCESS", event |-> NoEvent]
           j == [NoJob EXCEPT !.payment = p, !.asked = {OrderOf[p]}]
<1>1. p \in Payment /\ gateway[p] # "none" /\ Taken(p) /\ pc[c] = "idle"
  BY DEF VerifyCommit, OnlineInv, CallSound, Paying, Reporting, Crediting
<1>2. j \in Job /\ j.payment = p /\ ~j.insert
  <2>1. {OrderOf[p]} \in SUBSET Order /\ p \in Payment \cup {NoRef}
    BY <1>1, OnlineAssumption
  <2> HIDE DEF p
  <2> QED
    BY <2>1, NoJobType DEF NoJob, Job
<1>3. r \in [status : TxnStatus, event : Event \cup {NoEvent}]
  BY DEF TxnStatus
<1>4. "PAID" \in OrderStatus \ {"ABSENT"}
  BY DEF OrderStatus
<1>5. /\ \A g \in Online : ~Inserting(g, p)
      /\ txns' = txns \/ (txns[p].status = "ABSENT" /\ txns' = [txns EXCEPT ![p] = r])
      /\ orders' = [orders EXCEPT ![OrderOf[p]].status = "PAID"]
      /\ Goto(c, "settle", j)
      /\ UNCHANGED <<ledgerVars, gateway, acked, told>>
  BY DEF VerifyCommit
<1>6. acked' \subseteq Event /\ told' \subseteq Order
  BY <1>5 DEF OnlineInv, OnlineTypeOK
<1> HIDE DEF p, r, j
<1> QED
  BY <1>1, <1>2, <1>3, <1>4, <1>5, <1>6, RecordStep

\* process_webhook commits what the event says of the transaction and the order.
LEMMA WebhookApplyInv ==
    ASSUME OnlineInv, LedgerInv', NEW w \in Online, NEW raced \in BOOLEAN,
           WebhookApply(w, raced)
    PROVE  OnlineInv'
<1> DEFINE p == job[w].payment
           e == job[w].event
           r == [status |-> StatusOf(e), event |-> e]
           insert == txns[p].status = "ABSENT"
           read   == IF raced THEN orders[OrderOf[p]].status ELSE job[w].order
           target == IF insert THEN StatusOf(e) ELSE txns[p].status
           next   == NextOrderStatus(e, read)
           new    == IF next = read THEN "PAID" ELSE next
           j      == [NoJob EXCEPT !.payment = p, !.event = e, !.insert = insert /\ read = "PAID"]
<1>1. /\ p \in Payment /\ gateway[p] # "none" /\ pc[w] = "idle"
      /\ e \in Event /\ e.payment = p
      /\ StatusOf(e) = "SUCCESS" => Taken(p)
  BY SMTT(30) DEF WebhookApply, OnlineInv, CallSound, Paying, Reporting, Crediting
<1>2. StatusOf(e) \in {"SUCCESS", "PENDING", "FAILED"}
  BY <1>1, OnlineAssumption DEF StatusOf, Event
<1>3. r \in [status : TxnStatus, event : Event \cup {NoEvent}] /\ r.status = StatusOf(e)
  BY <1>1, <1>2 DEF TxnStatus
<1>4. new \in OrderStatus \ {"ABSENT"}
  BY <1>2 DEF NextOrderStatus, OrderStatus
<1>5. /\ \A g \in Online : ~Inserting(g, p)
      /\ UNCHANGED <<ledgerVars, gateway>>
  BY SMTT(30) DEF WebhookApply
<1>6. /\ txns' = txns \/ (insert /\ txns' = [txns EXCEPT ![p] = r])
      /\ read = "PAID" => txns' = txns
      /\ orders' = orders \/ orders' = [orders EXCEPT ![OrderOf[p]].status = new]
  <2>1. CASE read # "PAID"
    BY <2>1, Zenon DEF WebhookApply
  <2>2. CASE read = "PAID"
    BY <2>2, Zenon DEF WebhookApply
  <2> QED
    BY <2>1, <2>2, Zenon
<1>7. j \in Job /\ j.payment = p /\ j.event = e /\ (j.insert <=> insert /\ read = "PAID")
  BY <1>1, NoJobType DEF NoJob, Job
<1>8. \/ target = "SUCCESS" /\ Goto(w, "settle", j) /\ UNCHANGED <<acked, told>>
      \/ Done(w) /\ Answer(w, e)
  BY SMTT(30) DEF WebhookApply
<1>9. insert => txns[p].status = "ABSENT" /\ target = StatusOf(e)
  OBVIOUS
<1>10. CASE target = "SUCCESS" /\ Goto(w, "settle", j) /\ UNCHANGED <<acked, told>>
  <2>1. acked' \subseteq Event /\ told' \subseteq Order
    BY <1>10 DEF OnlineInv, OnlineTypeOK
  <2>2. j.insert =>
              /\ j.event \in Event /\ j.event.payment = p /\ StatusOf(j.event) = "SUCCESS"
              /\ txns'[p].status = "ABSENT" /\ Taken(p)
    BY <1>1, <1>6, <1>7, <1>9, <1>10, Zenon
  <2> HIDE DEF p, e, r, insert, read, target, next, new, j
  <2> QED
    BY <1>1, <1>3, <1>4, <1>5, <1>6, <1>7, <1>9, <1>10, <2>1, <2>2, RecordStep
<1>11. CASE Done(w) /\ Answer(w, e)
  <2>1. acked' \subseteq Event /\ told' \subseteq Order
    BY <1>1, <1>11, AnswerType DEF OnlineInv
  <2>2. Goto(w, "idle", NoJob) /\ NoJob \in Job
    BY <1>11, NoJobType DEF Done
  <2> HIDE DEF p, e, r, insert, read, target, next, new, j
  <2> QED
    BY <1>1, <1>3, <1>4, <1>5, <1>6, <1>9, <2>1, <2>2, RecordStep
<1> QED
  BY <1>8, <1>10, <1>11, SMTT(30)

-----------------------------------------------------------------------------
(***************************************************************************)
(* The steps that add a payment.                                           *)
(***************************************************************************)

\* Whoever commits a payment holds the row lock: nobody else is in
\* record_payment.
LEMMA PayCommitOnline ==
    ASSUME OnlineInv, NEW s \in Session, NEW amount, NEW ref, PayCommit(s, amount, ref)
    PROVE  /\ pc[s] = "record_payment" /\ pc'[s] = "idle"
           /\ \A g \in Session : g # s => pc'[g] = pc[g] /\ pc[g] # "record_payment"
           /\ \E receipt \in Receipt :
                  payments' = payments \cup {[receipt |-> receipt, amount |-> amount, ref |-> ref]}
BY DEF PayCommit, Finish, OnlineInv, LedgerInv, LockProtects, LedgerTypeOK

\* The payment that settles p is the first with p as its reference, and what
\* was inserted for it is committed with it.
LEMMA SettleCommitInv ==
    ASSUME OnlineInv, LedgerInv', NEW h \in Online, SettleCommit(h)
    PROVE  OnlineInv'
<1> DEFINE p == job[h].payment
           amount == orders[OrderOf[p]].amount
           r == [status |-> StatusOf(job[h].event), event |-> job[h].event]
<1>1. /\ step[h] = "settle"
      /\ PayCommit(h, amount, p)
      /\ txns' = IF job[h].insert THEN [txns EXCEPT ![p] = r] ELSE txns
      /\ Done(h)
      /\ Answer(h, job[h].event)
      /\ UNCHANGED <<orders, gateway>>
  BY DEF SettleCommit
<1>2. /\ pc[h] = "record_payment" /\ pc'[h] = "idle"
      /\ \A g \in Online : g # h => pc'[g] = pc[g] /\ pc[g] # "record_payment"
  BY <1>1, PayCommitOnline, OnlineAssumption DEF Online
<1>3. PICK receipt \in Receipt :
        payments' = payments \cup {[receipt |-> receipt, amount |-> amount, ref |-> p]}
  BY <1>1, PayCommitOnline, OnlineAssumption DEF Online
<1>4. /\ p \in Payment /\ gateway[p] # "none"
      /\ p \notin Credited /\ Target(h) = "SUCCESS"
  BY <1>1, <1>2 DEF OnlineInv, CallSound, Paying, Crediting
<1>5. job[h].insert =>
        /\ job[h].event \in Event
        /\ r.status = "SUCCESS" /\ txns[p].status = "ABSENT" /\ Taken(p)
  BY <1>1 DEF OnlineInv, CallSound, Reporting
<1>6. /\ txns' \in [Payment -> [status : TxnStatus, event : Event \cup {NoEvent}]]
      /\ txns'[p].status = "SUCCESS" /\ Taken(p)
      /\ \A q \in Payment : q # p => txns'[q] = txns[q]
  <2>1. txns \in [Payment -> [status : TxnStatus, event : Event \cup {NoEvent}]]
    BY DEF OnlineInv, OnlineTypeOK
  <2>2. CASE job[h].insert
    <3>1. r \in [status : TxnStatus, event : Event \cup {NoEvent}]
      BY <1>5, <2>2 DEF TxnStatus
    <3> QED
      BY <1>1, <1>4, <1>5, <2>1, <2>2, <3>1
  <2>3. CASE ~job[h].insert
    <3>1. txns[p].status = "SUCCESS"
      BY <1>4, <2>3 DEF Target
    <3> QED
      BY <1>1, <1>4, <2>1, <2>3, <3>1 DEF OnlineInv, TxnsTaken
  <2> QED
    BY <2>2, <2>3
<1> HIDE DEF amount, r
<1>7. /\ step' \in [Online -> {"idle", "create", "verify", "webhook", "settle"}]
      /\ job' \in [Online -> Job]
      /\ step'[h] = "idle"
      /\ \A g \in Online : g # h => step'[g] = step[g] /\ job'[g] = job[g]
  BY <1>1, DoneFacts DEF OnlineInv
<1>8. OnlineTypeOK'
  <2>1. acked' \subseteq Event /\ told' \subseteq Order
    BY <1>1, <1>4, AnswerType DEF OnlineInv
  <2> QED
    BY <1>1, <1>6, <1>7, <2>1 DEF OnlineInv, OnlineTypeOK, LedgerInv
<1>9. Progress
  <2>1. \A q \in Payment : txns[q].status = "SUCCESS" => txns'[q].status = "SUCCESS"
    BY <1>6
  <2> QED
    BY <1>1, <2>1 DEF Progress, Taken
<1>10. \A g \in Online : CallSound(g)'
  <2> SUFFICES ASSUME NEW g \in Online PROVE CallSound(g)'
    OBVIOUS
  <2>1. CASE g = h
    BY <1>7, <2>1, IdleCall
  <2>2. CASE g # h
    <3>1. step[g] = "settle" /\ job[g].insert =>
              txns'[job[g].payment].status = txns[job[g].payment].status
      <4> SUFFICES ASSUME step[g] = "settle", job[g].insert
                   PROVE  txns'[job[g].payment].status = txns[job[g].payment].status
        OBVIOUS
      <4>1. job[g].payment \in Payment
        BY DEF OnlineInv, CallSound, Paying
      <4>2. CASE job[g].payment # p
        BY <1>6, <4>1, <4>2
      <4>3. CASE job[g].payment = p
        <5>1. job[h].insert => FALSE
          <6> SUFFICES ASSUME job[h].insert PROVE FALSE
            OBVIOUS
          <6>1. Inserting(g, p) /\ Inserting(h, p)
            BY <1>1, <4>3 DEF Inserting
          <6> QED
            BY <1>4, <2>2, <6>1 DEF OnlineInv, InsertingOnce
        <5> QED
          BY <1>1, <5>1
      <4> QED
        BY <4>2, <4>3
    <3> QED
      BY <1>2, <1>7, <1>9, <2>2, <3>1, OtherCall
  <2> QED
    BY <2>1, <2>2
<1>11. OrdersOpen' /\ TxnsTaken'
  <2>1. \A q \in Payment : txns'[q].status = "SUCCESS" => Taken(q)
    BY <1>6 DEF OnlineInv, TxnsTaken
  <2> QED
    BY <1>1, <1>9, <2>1 DEF OnlineInv, OrdersOpen, TxnsTaken, Progress
<1>12. InsertingOnce'
  <2>1. \A g \in Online, q \in Payment : Inserting(g, q)' => Inserting(g, q)
    BY <1>7 DEF Inserting
  <2> QED
    BY <2>1 DEF OnlineInv, InsertingOnce
<1>13. SettledOnce'
  BY <1>3, <1>4 DEF OnlineInv, SettledOnce, Credited
<1>14. CreditBacked'
  <2>1. \A row \in payments : row.ref # NoRef => row.ref \in Payment
    BY DEF OnlineInv, LedgerInv, LedgerTypeOK, PaymentRow, Payment
  <2>2. \A row \in payments : row.ref # NoRef =>
          /\ txns'[row.ref].status = "SUCCESS"
          /\ orders[OrderOf[row.ref]].amount = row.amount
          /\ Taken(row.ref)
    BY <1>9, <2>1 DEF OnlineInv, CreditBacked, Progress, Taken
  <2> QED
    BY <1>1, <1>3, <1>6, <2>2 DEF CreditBacked, Taken, amount
<1> QED
  BY <1>8, <1>10, <1>11, <1>12, <1>13, <1>14 DEF OnlineInv

\* Requests of the fees API: their payments carry no gateway reference.
LEMMA StaffInv ==
    ASSUME OnlineInv, LedgerInv', NEW s \in Session, Staff(s)
    PROVE  OnlineInv'
<1>1. UNCHANGED onlineVars /\ StaffStep(s) /\ (s \in Online => step[s] = "idle")
  BY DEF Staff
<1>2. Online \subseteq Session
  BY OnlineAssumption DEF Online
<1>3. OnlineTypeOK'
  BY <1>1 DEF OnlineInv, OnlineTypeOK, LedgerInv, onlineVars
<1>4. \A g \in Online : step'[g] = step[g] /\ job'[g] = job[g]
  BY <1>1 DEF onlineVars
<1>5. \A g \in Session : g # s => pc'[g] = pc[g]
  BY <1>1 DEF StaffStep, Load, AddStudentFeeItem, AddDiscount, RemoveDiscount, CancelAssignment,
              DeleteAssignment, PayLock, PayCommit, Abort, Finish, OnlineInv, LedgerInv, LedgerTypeOK
<1>6. s \in Online => CallSound(s)'
  BY <1>1, <1>4, IdleCall
<1>7. CASE payments' = payments
  <2>1. UNCHANGED <<payments, orders, txns, gateway>>
    BY <1>1, <1>7 DEF onlineVars
  <2>2. \A q \in Payment : s \in Online /\ Inserting(s, q)' => Inserting(s, q)
    BY <1>4 DEF Inserting
  <2> QED
    BY <1>2, <1>3, <1>4, <1>5, <1>6, <2>1, <2>2, LocalStep
<1>8. CASE \E amount \in Price : PayCommit(s, amount, NoRef)
  <2>1. PICK receipt \in Receipt, amount \in Price :
          payments' = payments \cup {[receipt |-> receipt, amount |-> amount, ref |-> NoRef]}
    BY <1>8, PayCommitOnline
  <2>2. Credited' = Credited
    BY <2>1, LedgerAssumption DEF Credited, Payment
  <2>3. Progress
    BY <1>1 DEF Progress, Taken, onlineVars
  <2>4. \A g \in Online : CallSound(g)'
    <3> SUFFICES ASSUME NEW g \in Online, g # s PROVE CallSound(g)'
      BY <1>6
    <3>1. step[g] = "settle" /\ pc[g] = "record_payment" => job[g].payment \notin Credited'
      BY <2>2 DEF OnlineInv, CallSound, Crediting
    <3>2. txns' = txns
      BY <1>1 DEF onlineVars
    <3> QED
      BY <1>2, <1>4, <1>5, <2>3, <3>1, <3>2, OtherCall
  <2>5. OrdersOpen' /\ TxnsTaken' /\ InsertingOnce'
    BY <1>1 DEF OnlineInv, OrdersOpen, TxnsTaken, InsertingOnce, Inserting, Taken, onlineVars
  <2>6. SettledOnce' /\ CreditBacked'
    BY <1>1, <2>1 DEF OnlineInv, SettledOnce, CreditBacked, onlineVars
  <2> QED
    BY <1>3, <2>4, <2>5, <2>6 DEF OnlineInv
<1>9. payments' = payments \/ \E amount \in Price : PayCommit(s, amount, NoRef)
  BY <1>1 DEF StaffStep, Load, AddStudentFeeItem, AddDiscount, RemoveDiscount,
              CancelAssignment, DeleteAssignment, PayLock, Abort, rows
<1> QED
  BY <1>7, <1>8, <1>9

-----------------------------------------------------------------------------
\* Every step keeps the invariant.
LEMMA OnlineStep ==
    ASSUME OnlineInv, Next
    PROVE  OnlineInv'
<1> LedgerInv'
  BY LedgerPartInv
<1>1. Client \subseteq Online /\ Hook \subseteq Online /\ Clerk \subseteq Session
  BY OnlineAssumption DEF Online
<1>2. CASE \E s \in Clerk : Staff(s)
  BY <1>1, <1>2, StaffInv
<1>3. CASE \E c \in Client : OrderLoad(c) \/ OrderCommit(c)
  BY <1>1, <1>3, OrderLoadInv, OrderCommitInv
<1>4. CASE \E c \in Client : \/ \E o \in Order, p \in Payment : VerifyLoad(c, o, p)
                             \/ VerifyCommit(c)
  BY <1>1, <1>4, VerifyLoadInv, VerifyCommitInv
<1>5. CASE \E w \in Hook : (\E e \in Event : WebhookLoad(w, e)) \/ (\E raced \in BOOLEAN : WebhookApply(w, raced))
  BY <1>1, <1>5, WebhookLoadInv, WebhookApplyInv
<1>6. CASE \E h \in Online : SettleLock(h) \/ SettleCommit(h)
  BY <1>6, SettleLockInv, SettleCommitInv
<1>7. CASE \E h \in Online : VerifyReject(h) \/ SettleKnown(h) \/ SettleReject(h)
  BY <1>7, RejectInv
<1>8. CASE \E h \in Online : SettleCancelled(h) \/ Crash(h)
  BY <1>8, BreakOffInv
<1>9. CASE \E p \in Payment : (\E outcome \in {"authorized", "failed"} : Attempt(p, outcome))
                             \/ Capture(p)
  BY <1>9, GatewayInv
<1> QED
  BY <1>1, <1>2, <1>3, <1>4, <1>5, <1>6, <1>7, <1>8, <1>9 DEF Next, Settle

\* So does a step that changes nothing.
LEMMA OnlineStutter == OnlineInv /\ UNCHANGED vars => OnlineInv'
<1> SUFFICES ASSUME OnlineInv, UNCHANGED vars PROVE OnlineInv'
  OBVIOUS
<1>1. UNCHANGED ledgerVars /\ UNCHANGED onlineVars
  BY DEF vars
<1>2. LedgerInv'
  BY <1>1, LedgerStutter DEF OnlineInv
<1>3. OnlineTypeOK'
  BY <1>1, <1>2 DEF OnlineInv, OnlineTypeOK, LedgerInv, onlineVars
<1>4. payments' = payments /\ pc' = pc
  BY <1>1 DEF ledgerVars, rows
<1>5. \A g \in Online : CallSound(g)'
  <2> SUFFICES ASSUME NEW g \in Online PROVE CallSound(g)'
    OBVIOUS
  <2>1. Progress
    BY <1>1 DEF Progress, Taken, onlineVars
  <2>2. step[g] = "settle" /\ pc[g] = "record_payment" => job[g].payment \notin Credited'
    BY <1>4 DEF OnlineInv, CallSound, Crediting, Credited
  <2> QED
    BY <1>1, <1>4, <2>1, <2>2, OtherCall DEF onlineVars
<1> QED
  BY <1>1, <1>2, <1>3, <1>4, <1>5
  DEF OnlineInv, OrdersOpen, TxnsTaken, Taken, InsertingOnce, Inserting,
      SettledOnce, CreditBacked, onlineVars

\* A gateway without payments and a table without orders satisfy it.
LEMMA OnlineInitInv == Init => OnlineInv
<1> SUFFICES ASSUME Init PROVE OnlineInv
  OBVIOUS
<1> USE DEF Init
<1>1. LedgerInv /\ payments = {}
  BY LedgerInitInv DEF LedgerInit
<1>2. OnlineTypeOK
  BY <1>1, NoJobType DEF OnlineTypeOK, LedgerInv, OrderStatus, TxnStatus
<1>3. OrdersOpen /\ TxnsTaken
  BY DEF OrdersOpen, TxnsTaken
<1>4. \A h \in Online : CallSound(h)
  BY DEF CallSound, Creating, Paying, Reporting, Crediting
<1>5. InsertingOnce
  BY DEF InsertingOnce, Inserting
<1>6. SettledOnce /\ CreditBacked
  BY <1>1 DEF SettledOnce, CreditBacked
<1> QED
  BY <1>1, <1>2, <1>3, <1>4, <1>5, <1>6 DEF OnlineInv

\* Every reachable state satisfies the invariant.
LEMMA OnlineInvariance == Spec => []OnlineInv
<1>1. OnlineInv /\ [Next]_vars => OnlineInv'
  BY OnlineStep, OnlineStutter
<1> QED
  BY <1>1, OnlineInitInv, PTL DEF Spec

-----------------------------------------------------------------------------
\* Every reachable state is well typed, whatever the numbers of sessions,
\* orders, payments and events.
THEOREM OnlineTypeCorrect == Spec => []OnlineTypeOK
BY OnlineInvariance, PTL DEF OnlineInv

\* However often verification, webhook and redelivered webhook settle a
\* payment, and whoever dies in the middle, it is credited at most once.
THEOREM PaymentsSettledOnce == Spec => []SettledOnce
BY OnlineInvariance, PTL DEF OnlineInv

\* Every online credit is backed by a successful transaction, an order of its
\* amount and money the gateway took.
THEOREM CreditsAreBacked == Spec => []CreditBacked
BY OnlineInvariance, PTL DEF OnlineInv

\* Settlements and the requests of the fees API together never collect more
\* than the items of the assignment add up to.
THEOREM OnlineNeverOvercollects == Spec => []CollectedWithinCharged
BY OnlineInvariance, PTL DEF OnlineInv, LedgerInv

\* Settlements, too, check and post in one: no payment is committed beyond
\* what the committed items and discounts leave payable.
THEOREM OnlineCollectsWithinDue == Spec => CollectWithinDue
<1>1. OnlineInv /\ [Next]_vars
        => [payments' # payments => Total(payments') <= NetPayable(Current)]_ledgerVars
  BY LedgerPart, CollectStep DEF OnlineInv, vars
<1> QED
  BY <1>1, OnlineInvariance, PTL DEF Spec, CollectWithinDue

\* The ledger under online settlements still implements the abstract ledger.
THEOREM OnlineImplementsLedger == Spec => ImplementsLedger
<1>1. Init => Abstract!Init
  <2> SUFFICES ASSUME Init PROVE Abstract!Init
    OBVIOUS
  <2>1. Cardinality(Units({})) = 0
    BY FS_EmptySet DEF Units
  <2> QED
    BY <2>1, SumsAreNat, LedgerInitInv DEF Init, LedgerInit, Abstract!Init, Total
<1>2. OnlineInv /\ OnlineInv' /\ [Next]_vars => [Abstract!Next]_Abstract!ledger
  <2>1. ASSUME UNCHANGED ledgerVars PROVE UNCHANGED Abstract!ledger
    BY <2>1 DEF ledgerVars, rows, Abstract!ledger
  <2> QED
    BY <2>1, LedgerPart, AbstractStep DEF OnlineInv, vars
<1> QED
  BY <1>1, <1>2, OnlineInvariance, PTL DEF Spec, ImplementsLedger, Abstract!Spec

\* What any step may do to the records: a successful transaction is never
\* rewritten, and an order that exists keeps its amount.
LEMMA RecordsStep ==
    ASSUME OnlineInv, Next
    PROVE  /\ \A p \in Payment : txns[p].status = "SUCCESS" => txns'[p] = txns[p]
           /\ \A o \in Order : orders[o].status # "ABSENT" =>
                 orders'[o].status # "ABSENT" /\ orders'[o].amount = orders[o].amount
<1>1. orders \in [Order -> [status : OrderStatus, amount : Nat]]
      /\ txns \in [Payment -> [status : TxnStatus, event : Event \cup {NoEvent}]]
  BY DEF OnlineInv, OnlineTypeOK
<1>2. CASE \E c \in Online : OrderCommit(c)
  <2>1. PICK c \in Online : OrderCommit(c)
    BY <1>2
  <2> QED
    BY <1>1, <2>1 DEF OrderCommit
<1>3. CASE \E c \in Online : VerifyCommit(c)
  <2>1. PICK c \in Online : VerifyCommit(c)
    BY <1>3
  <2>2. orders' = [orders EXCEPT ![OrderOf[job[c].payment]].status = "PAID"]
    BY <2>1 DEF VerifyCommit
  <2>3. \A p \in Payment : txns[p].status = "SUCCESS" => txns'[p] = txns[p]
    BY <1>1, <2>1 DEF VerifyCommit, OnlineInv, CallSound, Reporting
  <2> QED
    BY <1>1, <2>2, <2>3
<1>4. CASE \E w \in Online, raced \in BOOLEAN : WebhookApply(w, raced)
  <2>1. PICK w \in Online, raced \in BOOLEAN : WebhookApply(w, raced)
    BY <1>4, SMTT(30)
  <2>2. StatusOf(job[w].event) \in {"SUCCESS", "PENDING", "FAILED"}
    BY <2>1, OnlineAssumption
    DEF WebhookApply, OnlineInv, CallSound, Reporting, StatusOf, Event
  <2>3. \/ orders' = orders
        \/ orders' = [orders EXCEPT ![OrderOf[job[w].payment]].status = "PAID"]
        \/ orders' = [orders EXCEPT ![OrderOf[job[w].payment]].status = "FAILED"]
    BY <2>1, <2>2, ZenonT(40) DEF WebhookApply, NextOrderStatus
  <2>4. \A p \in Payment : txns[p].status = "SUCCESS" => txns'[p] = txns[p]
    BY <1>1, <2>1, SMTT(30) DEF WebhookApply
  <2> QED
    BY <1>1, <2>3, <2>4
<1>5. CASE \E h \in Online : SettleCommit(h)
  <2>1. PICK h \in Online : SettleCommit(h)
    BY <1>5
  <2>2. job[h].insert => txns[job[h].payment].status = "ABSENT"
    BY <2>1 DEF SettleCommit, OnlineInv, CallSound, Reporting
  <2> QED
    BY <1>1, <2>1, <2>2 DEF SettleCommit
<1>6. CASE UNCHANGED <<orders, txns>>
  BY <1>6
<1>7. \/ \E h \in Online : OrderCommit(h) \/ VerifyCommit(h) \/ (\E raced \in BOOLEAN : WebhookApply(h, raced)) \/ SettleCommit(h)
      \/ UNCHANGED <<orders, txns>>
  BY Zenon DEF Next, Settle, Staff, OrderLoad, VerifyLoad, VerifyReject, WebhookLoad, SettleLock,
         SettleKnown, SettleReject, SettleCancelled, Crash, Attempt, Capture, onlineVars, Online
<1> QED
  BY <1>2, <1>3, <1>4, <1>5, <1>6, <1>7

\* Neither a redelivered event nor a second verification rewrites what was
\* recorded of a successful payment or of an order's amount.
THEOREM RecordsAreKept == Spec => RecordsStay
<1>1. OnlineInv /\ [Next]_vars =>
        [/\ \A p \in Payment : txns[p].status = "SUCCESS" => txns'[p] = txns[p]
         /\ \A o \in Order : orders[o].status # "ABSENT" =>
               orders'[o].status # "ABSENT" /\ orders'[o].amount = orders[o].amount]_vars
  BY RecordsStep
<1> QED
  BY <1>1, OnlineInvariance, PTL DEF Spec, RecordsStay

-----------------------------------------------------------------------------
(***************************************************************************)
(* What verify_payment answers, whichever payment the client names.        *)
(***************************************************************************)

\* A payment the gateway took for o is recorded, and not as failed.
Backed(o) ==
    \E p \in Payment :
        /\ OrderOf[p] = o
        /\ gateway[p] \in {"authorized", "captured"}
        /\ txns[p].status \in {"SUCCESS", "PENDING"}

\* What an event says of its payment, and a transaction recorded as failed, is
\* so at the gateway.
EventTrue(e) ==
    IF StatusOf(e) = "FAILED" THEN gateway[e.payment] = "failed" ELSE Taken(e.payment)

(***************************************************************************)
(* A PAID order has a payment behind it, and so has an order that was      *)
(* answered for or will be.                                                *)
(***************************************************************************)
AnswersBacked ==
    /\ \A p \in Payment : txns[p].status = "FAILED" => gateway[p] = "failed"
    /\ \A h \in Online : step[h] = "webhook" => EventTrue(job[h].event)
    /\ \A o \in Order : orders[o].status = "PAID" => Backed(o)
    /\ \A o \in told : Backed(o)
    /\ \A h \in Online : \A o \in job[h].asked : Backed(o)

\* A transaction that is inserted says what is so at the gateway; the others
\* stay, and payments that were taken or failed do.
Recording ==
    /\ \A p \in Payment : Taken(p) => Taken(p)'
    /\ \A p \in Payment : gateway[p] = "failed" => gateway'[p] = "failed"
    /\ \A p \in Payment :
          \/ txns'[p].status = txns[p].status
          \/ txns[p].status = "ABSENT" /\ (txns'[p].status = "FAILED" => gateway'[p] = "failed")

\* A payment behind an order stays behind it.
LEMMA BackedStays ==
    ASSUME Recording, NEW o, Backed(o)
    PROVE  Backed(o)'
BY DEF Recording, Backed, Taken

\* The events there are carry one of the payments.
LEMMA EventsTrue ==
    ASSUME Recording, NEW e \in Event, EventTrue(e)
    PROVE  EventTrue(e)'
BY DEF Recording, EventTrue, Event, StatusOf

\* What is behind the answers stays as long as orders become PAID, and calls
\* come to answer for them, only where there is a payment behind them.
LEMMA AnswersKept ==
    ASSUME OnlineInv, AnswersBacked, Recording,
           \A o \in Order : orders'[o].status = "PAID" => orders[o].status = "PAID" \/ Backed(o)',
           \A o \in told' : \/ o \in told
                            \/ o \in Order /\ orders[o].status = "PAID"
                            \/ \E h \in Online : o \in job[h].asked,
           NEW h,
           \A g \in Online : g # h => step'[g] = step[g] /\ job'[g] = job[g],
           h \in Online => \A o \in job'[h].asked : o \in job[h].asked \/ Backed(o)',
           h \in Online /\ step'[h] = "webhook" =>
               \/ step[h] = "webhook" /\ job'[h] = job[h]
               \/ EventTrue(job[h].event)'
    PROVE  AnswersBacked'
<1>1. \A o \in Order : orders'[o].status = "PAID" => Backed(o)'
  BY BackedStays DEF AnswersBacked
<1>2. \A o \in told' : Backed(o)'
  BY BackedStays DEF AnswersBacked
<1>3. \A g \in Online : \A o \in job'[g].asked : Backed(o)'
  BY BackedStays DEF AnswersBacked
<1>4. ASSUME NEW g \in Online, step'[g] = "webhook" PROVE EventTrue(job[g].event)'
  <2>1. CASE step[g] = "webhook" /\ job'[g] = job[g]
    <3>1. PICK e \in Event : e = job[g].event
      BY <2>1 DEF OnlineInv, CallSound, Reporting
    <3>2. EventTrue(e)
      BY <2>1, <3>1 DEF AnswersBacked
    <3>3. EventTrue(e)'
      BY <3>2, EventsTrue
    <3> QED
      BY <2>1, <3>1, <3>3 DEF EventTrue
  <2> QED
    BY <1>4, <2>1
<1>5. \A p \in Payment : txns'[p].status = "FAILED" => gateway'[p] = "failed"
  BY DEF AnswersBacked, Recording
<1> QED
  BY <1>1, <1>2, <1>3, <1>4, <1>5 DEF AnswersBacked

\* A call that goes on without touching what is recorded: what it is to answer
\* for has a payment behind it.
LEMMA AnswersGoto ==
    ASSUME OnlineInv, AnswersBacked, UNCHANGED <<orders, txns, gateway>>,
           \A o \in told' : \/ o \in told
                            \/ o \in Order /\ orders[o].status = "PAID"
                            \/ \E h \in Online : o \in job[h].asked,
           NEW h \in Online, NEW s, NEW j, Goto(h, s, j),
           \A o \in j.asked : o \in Order /\ orders[o].status = "PAID",
           s = "webhook" => EventTrue(j.event)
    PROVE  AnswersBacked'
<1>1. /\ step'[h] = s /\ job'[h] = j
      /\ \A g \in Online : g # h => step'[g] = step[g] /\ job'[g] = job[g]
  BY DEF Goto, OnlineInv, OnlineTypeOK
<1>2. Recording
  BY DEF Recording, Taken
<1>3. \A o \in job'[h].asked : Backed(o)'
  BY <1>1, <1>2, BackedStays DEF AnswersBacked
<1>4. step'[h] = "webhook" => EventTrue(job[h].event)'
  BY <1>1 DEF EventTrue, Taken
<1> QED
  BY <1>1, <1>2, <1>3, <1>4, AnswersKept

\* A call that ends, with what it answers, without touching what is recorded.
LEMMA AnswersDone ==
    ASSUME OnlineInv, AnswersBacked, UNCHANGED <<orders, txns, gateway>>,
           NEW h \in Online, Done(h),
           told' = told \/ \E e : Answer(h, e)
    PROVE  AnswersBacked'
<1>1. Goto(h, "idle", NoJob) /\ NoJob.asked = {}
  BY DEF Done, NoJob
<1>2. \A o \in told' : o \in told \/ \E g \in Online : o \in job[g].asked
  BY DEF Answer
<1> QED
  BY <1>1, <1>2, AnswersGoto, "webhook" # "idle"

\* verify_payment begins: what is answered at once, or after a settlement, is
\* answered for an order that is PAID.
LEMMA VerifyLoadAnswers ==
    ASSUME OnlineInv, AnswersBacked, NEW c \in Online, NEW o \in Order, NEW p \in Payment,
           VerifyLoad(c, o, p)
    PROVE  AnswersBacked'
<1> DEFINE jv == [NoJob EXCEPT !.payment = p, !.known = txns[p].status # "ABSENT"]
           js == [NoJob EXCEPT !.payment = p, !.asked = {o}, !.loaded = status]
<1>1. UNCHANGED <<orders, txns, gateway>>
  BY DEF VerifyLoad
<1>2. jv.asked = {} /\ js.asked = {o}
  BY DEF NoJob
<1>3. \/ told' = told /\ Goto(c, "verify", jv)
      \/ told' = told /\ Goto(c, "settle", js) /\ orders[o].status = "PAID"
      \/ told' = told \cup {o} /\ orders[o].status = "PAID" /\ UNCHANGED <<step, job>>
  BY DEF VerifyLoad
<1> HIDE DEF jv, js
<1>4. CASE told' = told /\ Goto(c, "verify", jv)
  BY <1>1, <1>2, <1>4, AnswersGoto, "webhook" # "verify"
<1>5. CASE told' = told /\ Goto(c, "settle", js) /\ orders[o].status = "PAID"
  BY <1>1, <1>2, <1>5, AnswersGoto, "webhook" # "settle"
<1>6. CASE told' = told \cup {o} /\ orders[o].status = "PAID" /\ UNCHANGED <<step, job>>
  <2>1. Recording
    BY <1>1 DEF Recording, Taken
  <2>2. \A g \in Online : step'[g] = "webhook" => step[g] = "webhook" /\ job'[g] = job[g]
    BY <1>6
  <2> QED
    BY <1>1, <1>6, <2>1, <2>2, AnswersKept
<1> QED
  BY <1>3, <1>4, <1>5, <1>6

\* verify_payment marks an order PAID with a payment whose signature it checked.
LEMMA VerifyCommitAnswers ==
    ASSUME OnlineInv, AnswersBacked, NEW c \in Online, VerifyCommit(c)
    PROVE  AnswersBacked'
<1> DEFINE p == job[c].payment
           j == [NoJob EXCEPT !.payment = p, !.asked = {OrderOf[p]}]
<1>1. /\ txns' = IF txns[p].status # "ABSENT" THEN txns
                 ELSE [txns EXCEPT ![p] = [status |-> "SUCCESS", event |-> NoEvent]]
      /\ orders' = [orders EXCEPT ![OrderOf[p]].status = "PAID"]
      /\ Goto(c, "settle", j)
      /\ UNCHANGED <<gateway, told>>
  BY DEF VerifyCommit
<1>2. p \in Payment /\ Taken(p) /\ OrderOf[p] \in Order
  BY OnlineAssumption DEF VerifyCommit, OnlineInv, CallSound, Paying, Reporting
<1>3. /\ orders \in [Order -> [status : OrderStatus, amount : Nat]]
      /\ txns \in [Payment -> [status : TxnStatus, event : Event \cup {NoEvent}]]
      /\ step \in [Online -> {"idle", "create", "verify", "webhook", "settle"}]
      /\ job \in [Online -> Job]
  BY DEF OnlineInv, OnlineTypeOK
<1>4. txns[p].status # "FAILED"
  BY <1>2 DEF AnswersBacked, Taken
<1>5. txns[p].status \in {"ABSENT", "SUCCESS", "PENDING"}
  BY <1>2, <1>3, <1>4 DEF TxnStatus
<1>6. txns'[p].status \in {"SUCCESS", "PENDING"} /\ Recording
  BY <1>1, <1>2, <1>3, <1>5 DEF Recording, Taken
<1>7. /\ \A o \in Order : o # OrderOf[p] => orders'[o] = orders[o]
      /\ step'[c] = "settle" /\ job'[c].asked = {OrderOf[p]}
      /\ \A g \in Online : g # c => step'[g] = step[g] /\ job'[g] = job[g]
  BY <1>1, <1>3 DEF Goto, NoJob
<1> HIDE DEF p
<1>8. \A o \in {OrderOf[p]} : Backed(o)'
  BY <1>1, <1>2, <1>6 DEF Backed, Taken
<1> QED
  BY <1>1, <1>6, <1>7, <1>8, AnswersKept

\* process_webhook begins with an event of what is so at the gateway.
LEMMA WebhookLoadAnswers ==
    ASSUME OnlineInv, AnswersBacked, NEW w \in Online, NEW e \in Event, WebhookLoad(w, e)
    PROVE  AnswersBacked'
<1> DEFINE j == [NoJob EXCEPT !.payment = e.payment, !.event = e,
                              !.order = orders[OrderOf[e.payment]].status,
                              !.known = txns[e.payment].status # "ABSENT"]
<1>1. UNCHANGED <<orders, txns, gateway, told>> /\ EventTrue(e)
  BY OnlineAssumption DEF WebhookLoad, EventTrue, Emitted, StatusOf, Taken, Event
<1>2. j.asked = {} /\ j.event = e
  BY DEF NoJob
<1>3. UNCHANGED <<step, job>> \/ Goto(w, "webhook", j)
  BY DEF WebhookLoad
<1> HIDE DEF j
<1>4. CASE UNCHANGED <<step, job>>
  <2>1. Recording
    BY <1>1 DEF Recording, Taken
  <2> QED
    BY <1>1, <1>4, <2>1, AnswersKept
<1>5. CASE Goto(w, "webhook", j)
  BY <1>1, <1>2, <1>5, AnswersGoto
<1> QED
  BY <1>3, <1>4, <1>5

\* process_webhook marks an order PAID only for a captured payment, whose
\* transaction is there.
LEMMA WebhookApplyAnswers ==
    ASSUME OnlineInv, AnswersBacked,
           NEW w \in Online, NEW raced \in BOOLEAN, WebhookApply(w, raced)
    PROVE  AnswersBacked'
<1> DEFINE p == job[w].payment
           e == job[w].event
           insert == txns[p].status = "ABSENT"
           read == IF raced THEN orders[OrderOf[p]].status ELSE job[w].order
<1>1. /\ p \in Payment /\ OrderOf[p] \in Order
      /\ e \in Event /\ e.payment = p
      /\ StatusOf(e) = "FAILED" => gateway[p] = "failed"
      /\ StatusOf(e) # "FAILED" => Taken(p)
  BY OnlineAssumption
  DEF WebhookApply, OnlineInv, CallSound, Paying, Reporting, AnswersBacked, EventTrue
<1>2. StatusOf(e) \in {"SUCCESS", "PENDING", "FAILED"}
  BY <1>1, OnlineAssumption DEF StatusOf, Event
<1>3. /\ orders \in [Order -> [status : OrderStatus, amount : Nat]]
      /\ txns \in [Payment -> [status : TxnStatus, event : Event \cup {NoEvent}]]
      /\ step \in [Online -> {"idle", "create", "verify", "webhook", "settle"}]
      /\ job \in [Online -> Job]
  BY DEF OnlineInv, OnlineTypeOK
<1>4. /\ gateway' = gateway
      /\ \/ txns' = txns /\ orders' = orders
         \/ /\ txns' = IF insert THEN [txns EXCEPT ![p] = [status |-> StatusOf(e), event |-> e]]
                       ELSE txns
            /\ \/ orders' = orders
               \/ orders' = [orders EXCEPT ![OrderOf[p]].status = NextOrderStatus(e, read)]
      /\ \E s \in {"idle", "settle"} : step' = [step EXCEPT ![w] = s]
      /\ \A g \in Online : g # w => job'[g] = job[g]
  BY <1>3, Zenon DEF WebhookApply, Goto, Done
<1>5. /\ told' = told \/ told' = told \cup job[w].asked
      /\ job'[w].asked = {}
  <2> DEFINE js == [NoJob EXCEPT !.payment = p, !.event = e, !.insert = insert /\ read = "PAID"]
  <2>1. js.asked = {} /\ NoJob.asked = {}
    BY DEF NoJob
  <2>2. job' = [job EXCEPT ![w] = js] \/ job' = [job EXCEPT ![w] = NoJob]
    BY Zenon DEF WebhookApply, Goto, Done
  <2>3. told' = told \/ told' = told \cup job[w].asked
    BY Zenon DEF WebhookApply, Answer
  <2> HIDE DEF js
  <2> QED
    BY <1>3, <2>1, <2>2, <2>3
<1>6. step'[w] # "webhook" /\ \A g \in Online : g # w => step'[g] = step[g]
  BY <1>3, <1>4
<1> HIDE DEF p, e, read
<1>7. /\ \A q \in Payment : q # p => txns'[q] = txns[q]
      /\ txns'[p].status \in {txns[p].status, StatusOf(e)}
      /\ txns'[p].status # txns[p].status => insert
  BY <1>1, <1>3, <1>4
<1>8. Recording
  BY <1>1, <1>4, <1>7 DEF Recording, Taken
<1>9. ASSUME NEW o \in Order, orders'[o].status = "PAID", orders[o].status # "PAID"
      PROVE  Backed(o)'
  <2>1. /\ orders' = [orders EXCEPT ![OrderOf[p]].status = NextOrderStatus(e, read)]
        /\ txns' = IF insert THEN [txns EXCEPT ![p] = [status |-> StatusOf(e), event |-> e]]
                   ELSE txns
    BY <1>4, <1>9
  <2>2. o = OrderOf[p] /\ NextOrderStatus(e, read) = "PAID"
    BY <1>1, <1>3, <1>9, <2>1
  <2>3. CASE StatusOf(e) = "SUCCESS"
    <3>1. Taken(p) /\ txns[p].status # "FAILED"
      BY <1>1, <2>3 DEF AnswersBacked, Taken
    <3>2. txns'[p].status \in {"SUCCESS", "PENDING"}
      BY <1>1, <1>3, <2>1, <2>3, <3>1 DEF TxnStatus
    <3> QED
      BY <1>1, <1>4, <2>2, <3>1, <3>2 DEF Backed, Taken
  <2>4. CASE StatusOf(e) # "SUCCESS"
    <3>1. StatusOf(e) = "PENDING" /\ read = "PAID"
      BY <1>2, <2>2, <2>4 DEF NextOrderStatus
    <3>2. orders' = orders
      BY <2>2, <3>1, Zenon DEF WebhookApply, read, p
    <3> QED
      BY <1>9, <3>2
  <2> QED
    BY <2>3, <2>4
<1>10. \A o \in told' : o \in told \/ o \in job[w].asked
  BY <1>5
<1> HIDE DEF insert
<1> QED
  BY <1>4, <1>5, <1>6, <1>8, <1>9, <1>10, AnswersKept

\* A settlement records a transaction only as successful.
LEMMA SettleCommitAnswers ==
    ASSUME OnlineInv, AnswersBacked, NEW h \in Online, SettleCommit(h)
    PROVE  AnswersBacked'
<1> DEFINE p == job[h].payment
           r == [status |-> StatusOf(job[h].event), event |-> job[h].event]
<1>1. /\ step[h] = "settle"
      /\ txns' = IF job[h].insert THEN [txns EXCEPT ![p] = r] ELSE txns
      /\ Done(h) /\ UNCHANGED <<orders, gateway>>
      /\ Answer(h, job[h].event)
  BY DEF SettleCommit
<1>2. /\ p \in Payment
      /\ job[h].insert => r.status = "SUCCESS" /\ txns[p].status = "ABSENT"
  BY <1>1 DEF OnlineInv, CallSound, Paying, Reporting
<1>3. txns \in [Payment -> [status : TxnStatus, event : Event \cup {NoEvent}]]
  BY DEF OnlineInv, OnlineTypeOK
<1>4. Recording
  BY <1>1, <1>2, <1>3 DEF Recording, Taken
<1>5. /\ step'[h] = "idle" /\ job'[h].asked = {}
      /\ \A g \in Online : g # h => step'[g] = step[g] /\ job'[g] = job[g]
  BY <1>1 DEF Done, Goto, NoJob, OnlineInv, OnlineTypeOK
<1>6. \A o \in told' : o \in told \/ o \in job[h].asked
  BY <1>1 DEF Answer
<1> HIDE DEF p, r
<1> QED
  BY <1>1, <1>4, <1>5, <1>6, AnswersKept

\* The gateway never gives a payment back.
LEMMA GatewayAnswers ==
    ASSUME OnlineInv, AnswersBacked, NEW p \in Payment,
           (\E outcome \in {"authorized", "failed"} : Attempt(p, outcome)) \/ Capture(p)
    PROVE  AnswersBacked'
<1>1. /\ UNCHANGED <<orders, txns, told, step, job>>
      /\ \A q \in Payment : q # p => gateway'[q] = gateway[q]
      /\ gateway[p] = "none" \/ (gateway[p] = "authorized" /\ gateway'[p] = "captured")
  BY DEF Attempt, Capture, OnlineInv, OnlineTypeOK
<1>2. Recording
  BY <1>1 DEF Recording, Taken
<1> QED
  BY <1>1, <1>2, AnswersKept

\* Every step keeps what is behind the answers.
LEMMA AnswersStep ==
    ASSUME OnlineInv, AnswersBacked, Next
    PROVE  AnswersBacked'
<1>1. Client \subseteq Online /\ Hook \subseteq Online
  BY DEF Online
<1>2. ASSUME UNCHANGED <<orders, txns, gateway, told, step, job>> PROVE AnswersBacked'
  <2>1. Recording
    BY <1>2 DEF Recording, Taken
  <2> QED
    BY <1>2, <2>1, AnswersKept
<1>3. CASE (\E s \in Clerk : Staff(s)) \/ \E h \in Online : SettleLock(h)
  BY <1>2, <1>3 DEF Staff, SettleLock, onlineVars
<1>4. ASSUME NEW c \in Client, OrderLoad(c) PROVE AnswersBacked'
  <2> DEFINE j == [NoJob EXCEPT !.amount = Outstanding(Current), !.supersede = Active]
  <2>1. /\ UNCHANGED <<orders, txns, gateway, told>>
        /\ Goto(c, "create", j) /\ j.asked = {}
    BY <1>4 DEF OrderLoad, NoJob
  <2> HIDE DEF j
  <2> QED
    BY <1>1, <2>1, AnswersGoto, "webhook" # "create"
<1>5. ASSUME NEW c \in Client, OrderCommit(c) PROVE AnswersBacked'
  <2>1. UNCHANGED <<txns, gateway, told>> /\ Done(c)
    BY <1>5 DEF OrderCommit
  <2>2. \A o \in Order : orders'[o].status = "PAID" => orders[o].status = "PAID"
    BY <1>5 DEF OrderCommit, OnlineInv, OnlineTypeOK
  <2>3. /\ step'[c] = "idle" /\ job'[c].asked = {}
        /\ \A g \in Online : g # c => step'[g] = step[g] /\ job'[g] = job[g]
    BY <1>1, <2>1 DEF Done, Goto, NoJob, OnlineInv, OnlineTypeOK
  <2>4. Recording
    BY <2>1 DEF Recording, Taken
  <2> QED
    BY <2>1, <2>2, <2>3, <2>4, AnswersKept
<1>6. ASSUME NEW h \in Online, \/ VerifyReject(h) \/ SettleKnown(h) \/ SettleReject(h)
                               \/ SettleCancelled(h) \/ Crash(h)
      PROVE  AnswersBacked'
  <2>1. /\ UNCHANGED <<orders, txns, gateway>> /\ Done(h)
        /\ told' = told \/ Answer(h, job[h].event)
    BY <1>6 DEF VerifyReject, SettleKnown, SettleReject, SettleCancelled, Crash
  <2> QED
    BY <2>1, AnswersDone
<1> QED
  BY <1>1, <1>3, <1>4, <1>5, <1>6, VerifyLoadAnswers, VerifyCommitAnswers, WebhookLoadAnswers,
     WebhookApplyAnswers, SettleCommitAnswers, GatewayAnswers
  DEF Next, Settle

(***************************************************************************)
(* Whatever overlaps, whoever dies and whichever payment the client names: *)
(* an order that verify_payment reports as verified has a payment that the *)
(* gateway took and a transaction that records it.  Nothing is assumed of  *)
(* the events the school subscribed to.                                    *)
(***************************************************************************)
THEOREM VerifiedAreTaken == Spec => []VerifiedIsTaken
<1> DEFINE IInv == OnlineInv /\ AnswersBacked
<1>1. Init => IInv
  <2> SUFFICES ASSUME Init PROVE IInv
    OBVIOUS
  <2>1. OnlineInv
    BY OnlineInitInv
  <2>2. AnswersBacked
    BY DEF Init, AnswersBacked, NoJob
  <2> QED
    BY <2>1, <2>2
<1>2. IInv /\ [Next]_vars => IInv'
  <2> SUFFICES ASSUME IInv, [Next]_vars PROVE IInv'
    OBVIOUS
  <2>1. CASE Next
    BY <2>1, OnlineStep, AnswersStep
  <2>2. CASE UNCHANGED vars
    <3>1. OnlineInv'
      BY <2>2, OnlineStutter
    <3>2. UNCHANGED <<orders, txns, gateway, told, step, job>>
      BY <2>2 DEF vars, onlineVars
    <3>3. AnswersBacked'
      BY <3>2 DEF AnswersBacked, EventTrue, Taken, Backed
    <3> QED
      BY <3>1, <3>3
  <2> QED
    BY <2>1, <2>2
<1>3. IInv => VerifiedIsTaken
  BY DEF AnswersBacked, Backed, VerifiedIsTaken
<1> QED
  BY <1>1, <1>2, <1>3, PTL DEF Spec

-----------------------------------------------------------------------------
(***************************************************************************)
(* Histories in which no call commits a change of the orders after another *)
(* one has changed them under it.                                          *)
(***************************************************************************)

\* What a call has read of the orders is still so.
OrdersRead(h) ==
    /\ step[h] = "create" => job[h].supersede = Active
    /\ step[h] = "webhook" => job[h].order = orders[JobOrder(h)].status

OrdersInv ==
    /\ OnlineInv
    /\ ~stale => OneActiveOrder /\ \A h \in Online \ outdated : OrdersRead(h)

\* What the property says of a step that changes the orders.
OrdersKept ==
    /\ OneActiveOrder'
    /\ \A o \in Order : orders[o].status = "PAID" => orders'[o].status = "PAID"

\* The new order is the only active one: those that were have been superseded.
LEMMA OrderCommitKeeps ==
    ASSUME OnlineInv, NEW c \in Online, OrdersRead(c), OrderCommit(c)
    PROVE  OrdersKept
<1>1. PICK new \in Order :
        /\ orders[new].status = "ABSENT"
        /\ orders' = [o \in Order |->
              IF o = new THEN [status |-> "CREATED", amount |-> job[c].amount]
              ELSE IF o \in Active THEN [orders[o] EXCEPT !.status = "CANCELLED"]
              ELSE orders[o]]
  BY DEF OrderCommit, OrdersRead
<1>2. orders \in [Order -> [status : OrderStatus, amount : Nat]]
  BY DEF OnlineInv, OnlineTypeOK
<1>3. \A o \in Order : o # new =>
        orders'[o].status = IF o \in Active THEN "CANCELLED" ELSE orders[o].status
  BY <1>1, <1>2
<1>4. Active' \subseteq {new}
  BY <1>3 DEF Active
<1> QED
  BY <1>1, <1>3, <1>4 DEF OrdersKept, OneActiveOrder, Active

\* Orders that become PAID, or FAILED without having been PAID, are no longer active.
LEMMA OrderMoves ==
    ASSUME OnlineInv, OneActiveOrder, NEW o \in Order, NEW new \in {"PAID", "FAILED"},
           orders' = [orders EXCEPT ![o].status = new],
           new = "PAID" \/ orders[o].status # "PAID"
    PROVE  OrdersKept
<1>1. orders \in [Order -> [status : OrderStatus, amount : Nat]]
  BY DEF OnlineInv, OnlineTypeOK
<1>2. \A q \in Order : orders'[q].status = IF q = o THEN new ELSE orders[q].status
  BY <1>1
<1>3. Active' \subseteq Active
  BY <1>2 DEF Active
<1> QED
  BY <1>2, <1>3 DEF OrdersKept, OneActiveOrder

\* process_webhook follows the status the order has.
LEMMA WebhookKeeps ==
    ASSUME OnlineInv, OneActiveOrder, NEW w \in Online, NEW raced \in BOOLEAN,
           OrdersRead(w), WebhookApply(w, raced), orders' # orders
    PROVE  OrdersKept
<1> DEFINE o == OrderOf[job[w].payment]
           e == job[w].event
<1>1. /\ o \in Order /\ step[w] = "webhook" /\ e \in Event
  BY OnlineAssumption DEF WebhookApply, OnlineInv, CallSound, Paying, Reporting
<1>2. job[w].order = orders[o].status
  BY <1>1 DEF OrdersRead, JobOrder
<1>3. /\ orders[o].status # "PAID"
      /\ NextOrderStatus(e, orders[o].status) # orders[o].status
      /\ orders' = [orders EXCEPT ![o].status = NextOrderStatus(e, orders[o].status)]
  BY <1>2, Zenon DEF WebhookApply
<1>4. StatusOf(e) \in {"SUCCESS", "PENDING", "FAILED"}
  BY <1>1, OnlineAssumption DEF StatusOf, Event
<1>5. NextOrderStatus(e, orders[o].status) \in {"PAID", "FAILED"}
  BY <1>3, <1>4 DEF NextOrderStatus
<1> HIDE DEF o, e
<1> QED
  BY <1>1, <1>3, <1>5, OrderMoves

\* Three calls change the orders, and write what they have read just then.
LEMMA OrdersChange ==
    ASSUME OnlineInv, Next, orders' # orders
    PROVE  \E h \in Online :
              /\ \/ OrderCommit(h) \/ VerifyCommit(h)
                 \/ \E raced \in BOOLEAN : WebhookApply(h, raced)
              /\ h \in Reading /\ h \notin Reading'
<1>1. PICK h \in Online : \/ OrderCommit(h) \/ VerifyCommit(h)
                          \/ \E raced \in BOOLEAN : WebhookApply(h, raced)
  BY ZenonT(60) DEF Next, Settle, Staff, OrderLoad, VerifyLoad, VerifyReject, WebhookLoad, SettleLock,
         SettleKnown, SettleReject, SettleCommit, SettleCancelled, Crash, Attempt, Capture,
         onlineVars, Online
<1>2. step[h] \in {"create", "verify", "webhook"}
  BY <1>1, Zenon DEF OrderCommit, VerifyCommit, WebhookApply
<1>3. step' = [step EXCEPT ![h] = "idle"] \/ step' = [step EXCEPT ![h] = "settle"]
  BY <1>1, Zenon DEF OrderCommit, VerifyCommit, WebhookApply, Goto, Done
<1>4. step'[h] \in {"idle", "settle"}
  BY <1>3 DEF OnlineInv, OnlineTypeOK
<1> QED
  BY <1>1, <1>2, <1>4 DEF Reading

\* A call that begins has read the orders as they are.
LEMMA OrdersWait ==
    ASSUME OnlineInv, Next, orders' = orders, NEW g \in Online, OrdersRead(g)
    PROVE  OrdersRead(g)'
<1>1. /\ step \in [Online -> {"idle", "create", "verify", "webhook", "settle"}]
      /\ job \in [Online -> Job]
      /\ Active' = Active
  BY DEF OnlineInv, OnlineTypeOK, Active
<1>2. Client \subseteq Online /\ Hook \subseteq Online
  BY DEF Online
<1>3. ASSUME step'[g] = step[g], job'[g] = job[g] PROVE OrdersRead(g)'
  BY <1>1, <1>3 DEF OrdersRead, JobOrder
<1>4. ASSUME NEW h \in Online, NEW s, NEW j, Goto(h, s, j),
             s = "create" => j.supersede = Active,
             s = "webhook" => j.order = orders[OrderOf[j.payment]].status
      PROVE  OrdersRead(g)'
  <2>1. CASE g # h
    BY <1>1, <1>3, <1>4, <2>1 DEF Goto
  <2>2. CASE g = h
    <3>1. step'[g] = s /\ job'[g] = j
      BY <1>1, <1>4, <2>2 DEF Goto
    <3> QED
      BY <1>1, <1>4, <3>1 DEF OrdersRead, JobOrder
  <2> QED
    BY <2>1, <2>2
<1>5. ASSUME NEW h \in Online, NEW s \in {"idle", "verify", "settle"}, NEW j, Goto(h, s, j)
      PROVE  OrdersRead(g)'
  BY <1>4, <1>5
<1>6. ASSUME NEW c \in Client, OrderLoad(c) PROVE OrdersRead(g)'
  <2> DEFINE j == [NoJob EXCEPT !.amount = Outstanding(Current), !.supersede = Active]
  <2>1. Goto(c, "create", j) /\ j.supersede = Active
    BY <1>6 DEF OrderLoad, NoJob
  <2> HIDE DEF j
  <2> QED
    BY <1>2, <1>4, <2>1
<1>7. ASSUME NEW w \in Hook, NEW e \in Event, WebhookLoad(w, e) PROVE OrdersRead(g)'
  <2> DEFINE j == [NoJob EXCEPT !.payment = e.payment, !.event = e,
                                !.order = orders[OrderOf[e.payment]].status,
                                !.known = txns[e.payment].status # "ABSENT"]
  <2>1. j.payment = e.payment /\ j.order = orders[OrderOf[e.payment]].status
    BY DEF NoJob
  <2>2. UNCHANGED <<step, job>> \/ Goto(w, "webhook", j)
    BY <1>7 DEF WebhookLoad
  <2> HIDE DEF j
  <2> QED
    BY <1>2, <1>3, <1>4, <2>1, <2>2
<1>8. ASSUME NEW h \in Online, SettleLock(h) \/ Staff(h) PROVE OrdersRead(g)'
  BY <1>3, <1>8 DEF SettleLock, Staff, onlineVars
<1>9. ASSUME NEW s, Staff(s) PROVE OrdersRead(g)'
  BY <1>3, <1>9 DEF Staff, onlineVars
<1>10. ASSUME NEW p, (\E outcome \in {"authorized", "failed"} : Attempt(p, outcome)) \/ Capture(p)
       PROVE  OrdersRead(g)'
  BY <1>3, <1>10 DEF Attempt, Capture
<1>11. ASSUME NEW c \in Client, NEW o, NEW p, VerifyLoad(c, o, p) PROVE OrdersRead(g)'
  BY <1>2, <1>3, <1>5, <1>11 DEF VerifyLoad
<1>12. ASSUME NEW h \in Online, \/ OrderCommit(h) \/ VerifyReject(h)
                                \/ SettleKnown(h) \/ SettleReject(h)
                                \/ SettleCommit(h) \/ SettleCancelled(h) \/ Crash(h)
       PROVE  OrdersRead(g)'
  <2>1. Goto(h, "idle", NoJob)
    BY <1>12
    DEF OrderCommit, VerifyReject, SettleKnown, SettleReject, SettleCommit,
        SettleCancelled, Crash, Done
  <2> QED
    BY <1>5, <2>1
<1>13. ASSUME NEW h \in Online, \/ VerifyCommit(h)
                                \/ \E raced \in BOOLEAN : WebhookApply(h, raced)
       PROVE  OrdersRead(g)'
  <2>1. \E s \in {"idle", "settle"} : \E j : Goto(h, s, j)
    BY <1>13, Zenon DEF VerifyCommit, WebhookApply, Done
  <2> QED
    BY <1>5, <2>1
<1> QED
  BY <1>2, <1>6, <1>7, <1>8, <1>9, <1>10, <1>11, <1>12, <1>13 DEF Next, Settle

\* Every step keeps the invariant, and what it says of a step.
LEMMA OrdersStep ==
    ASSUME OrdersInv, FreshOrdersNext
    PROVE  OrdersInv' /\ (stale' \/ OrdersKept)
<1>1. OnlineInv /\ OnlineInv' /\ Next
  BY OnlineStep DEF OrdersInv, FreshOrdersNext
<1>2. CASE stale'
  <2>1. OrdersInv'
    BY <1>1, <1>2, Zenon DEF OrdersInv
  <2> QED
    BY <1>2, <2>1, Zenon
<1>3. CASE ~stale' /\ orders' # orders
  <2>1. ~stale /\ outdated \subseteq Reading' /\ outdated' = Reading'
    BY <1>3 DEF FreshOrdersNext, Observe
  <2>2. PICK h \in Online :
          /\ \/ OrderCommit(h) \/ VerifyCommit(h)
             \/ \E raced \in BOOLEAN : WebhookApply(h, raced)
          /\ h \in Reading /\ h \notin Reading'
    BY <1>1, <1>3, OrdersChange
  <2>3. OneActiveOrder /\ OrdersRead(h)
    BY <2>1, <2>2 DEF OrdersInv
  <2>4. ASSUME OrderCommit(h) PROVE OrdersKept
    BY <1>1, <2>3, <2>4, OrderCommitKeeps
  <2>5. ASSUME VerifyCommit(h) PROVE OrdersKept
    <3>1. /\ orders' = [orders EXCEPT ![OrderOf[job[h].payment]].status = "PAID"]
          /\ OrderOf[job[h].payment] \in Order
      BY <1>1, <2>5, OnlineAssumption DEF VerifyCommit, OnlineInv, CallSound, Paying
    <3> QED
      BY <1>1, <2>3, <3>1, OrderMoves
  <2>6. ASSUME NEW raced \in BOOLEAN, WebhookApply(h, raced) PROVE OrdersKept
    BY <1>1, <1>3, <2>3, <2>6, WebhookKeeps
  <2>7. OrdersKept
    BY <2>2, <2>4, <2>5, <2>6
  <2>8. \A g \in Online \ outdated' : OrdersRead(g)'
    BY <2>1 DEF Reading, OrdersRead
  <2> QED
    BY <1>1, <2>7, <2>8 DEF OrdersInv, OrdersKept
<1>4. CASE ~stale' /\ orders' = orders
  <2>1. ~stale /\ outdated' = outdated \cap Reading'
    BY <1>4 DEF FreshOrdersNext, Observe
  <2>2. OrdersKept
    BY <1>4, <2>1 DEF OrdersInv, OrdersKept, OneActiveOrder, Active
  <2>3. ASSUME NEW g \in Online \ outdated' PROVE OrdersRead(g)'
    <3>1. CASE g \notin Reading'
      BY <3>1 DEF Reading, OrdersRead
    <3>2. CASE g \in Reading'
      <4>1. OrdersRead(g)
        BY <2>1, <3>2 DEF OrdersInv
      <4> QED
        BY <1>1, <1>4, <4>1, OrdersWait
    <3> QED
      BY <3>1, <3>2
  <2> QED
    BY <1>1, <2>2, <2>3 DEF OrdersInv, OrdersKept
<1> QED
  BY <1>2, <1>3, <1>4 DEF FreshOrdersNext, Observe

(***************************************************************************)
(* In a history in which no call changes orders that changed since it read *)
(* them, whatever overlaps and for any number of sessions, orders and      *)
(* payments: an assignment has one active order at most, and a PAID order  *)
(* stays PAID.                                                             *)
(***************************************************************************)
THEOREM OrderChecksHoldWhenFresh == FreshOrdersSpec => FreshOrdersKept
<1>1. FreshOrdersInit => OrdersInv
  <2> SUFFICES ASSUME FreshOrdersInit PROVE OrdersInv
    OBVIOUS
  <2>1. OnlineInv
    BY OnlineInitInv DEF FreshOrdersInit
  <2> QED
    BY <2>1 DEF FreshOrdersInit, Init, OrdersInv, OneActiveOrder, OrdersRead, Active
<1>2. OrdersInv /\ [FreshOrdersNext]_<<vars, outdated, stale>> => OrdersInv'
  <2>1. ASSUME OrdersInv, UNCHANGED <<vars, outdated, stale>> PROVE OrdersInv'
    <3>1. OnlineInv'
      BY <2>1, OnlineStutter DEF OrdersInv
    <3>2. UNCHANGED <<orders, step, job, outdated, stale>>
      BY <2>1 DEF vars, onlineVars
    <3> QED
      BY <2>1, <3>1, <3>2 DEF OrdersInv, OneActiveOrder, OrdersRead, JobOrder, Active
  <2> QED
    BY <2>1, OrdersStep
<1>3. OrdersInv /\ [FreshOrdersNext]_<<vars, outdated, stale>> =>
        [\/ stale'
         \/ /\ OneActiveOrder'
            /\ \A o \in Order : orders[o].status = "PAID" => orders'[o].status = "PAID"
        ]_<<vars, outdated, stale>>
  BY OrdersStep DEF OrdersKept
<1> QED
  BY <1>1, <1>2, <1>3, PTL DEF FreshOrdersSpec, FreshOrdersKept
=============================================================================
