------------------------------ MODULE HostelFees ------------------------------
(***************************************************************************)
(* What one student owes for the hostel (backend/app/services/             *)
(* hostel_fee_service.py).  The charge is entered twice: as an item of the *)
(* student's fee assignment, which fee_service keeps, and as a hostel fee  *)
(* allocation with a paid amount of its own.  A payment is recorded with   *)
(* fee_service first, which locks the assignment and commits, and then     *)
(* added to the hostel allocation in a second transaction.                 *)
(***************************************************************************)
EXTENDS UnitOfWork

CONSTANTS
    Amounts     \* of a hostel fee, of a payment, of the student's other fees

\* The assignment's items and payments are rows of their own; its status is
\* CANCELLED or not, and cancelled stands for deleted too.
HostelFeeStructure  == [amount : Amounts]
HostelFeeAllocation == [structure : DOMAIN rows.structures, due : Amounts, paid : Nat,
                        status : {"UNPAID", "PARTIAL", "PAID"}]

TypeOK ==
    /\ Table("structures", HostelFeeStructure) /\ Table("assignments", [cancelled : BOOLEAN])
    /\ Table("items", [amount : Amounts])
    /\ Table("payments", [amount : Amounts, hostel : BOOLEAN])
    /\ Table("allocations", HostelFeeAllocation)

\* The student may have an assignment for other fees, and a hostel fee in it.
Init == \E other, own \in {<<>>} \cup {<<[amount |-> n]>> : n \in Amounts} :
    Start([structures  |-> own,
           assignments |-> IF other \o own = <<>> THEN <<>> ELSE <<[cancelled |-> FALSE]>>,
           items |-> other \o own, payments |-> <<>>,
           allocations |-> [k \in DOMAIN own |-> [structure |-> 1, due |-> own[k].amount,
                                                  paid |-> 0, status |-> "UNPAID"]]])

Assigned == rows.assignments # <<>>

\* A sum is counted, as in Sums.
Units(amounts) == UNION {{k} \X (1..amounts[k]) : k \in DOMAIN amounts}
Total(amounts) == Cardinality(Units(amounts))

Charged    == Total([i \in DOMAIN rows.items |-> rows.items[i].amount])
Collected  == Total([p \in DOMAIN rows.payments |-> rows.payments[p].amount])
ForHostel  == Total([p \in DOMAIN rows.payments |->
                        IF rows.payments[p].hostel THEN rows.payments[p].amount ELSE 0])
HostelPaid == Total([h \in DOMAIN rows.allocations |-> rows.allocations[h].paid])

Owed == Charged - Collected

-----------------------------------------------------------------------------
CreateFeeStructure(s) == \E n \in Amounts :
    Request(s, <<Insert("structures", [amount |-> n])>>)

\* An item is added to the student's assignment, or an assignment is created
\* for it; structures have names of their own, so the item is not there yet.
AllocateFeeToStudent(s) == \E f \in DOMAIN rows.structures :
    LET n == rows.structures[f].amount IN
    /\ \A h \in DOMAIN rows.allocations : rows.allocations[h].structure # f
    /\ Request(s,
          (IF Assigned THEN <<>> ELSE <<Insert("assignments", [cancelled |-> FALSE])>>)
          \o <<Insert("items", [amount |-> n]),
               Insert("allocations", [structure |-> f, due |-> n, paid |-> 0,
                                      status |-> "UNPAID"])>>)

StatusFor(paid, due) == IF paid >= due THEN "PAID" ELSE "PARTIAL"

\* What the columns become.
Paying(h, p) ==
    LET paid == rows.allocations[h].paid + p
    IN [paid |-> paid, status |-> StatusFor(paid, rows.allocations[h].due)]

\* An expired column is sent without regard to what it was, unless it is read
\* anew before it is assigned, as the status is.
Credit(h, p) ==
    <<[table |-> "allocations", id |-> h, columns |-> Paying(h, p), anew |-> "status"]>>

Collect(p) ==
    <<Insert("payments", [amount |-> p, hostel |-> TRUE])>>

Affordable(h, p) == p <= rows.allocations[h].due - rows.allocations[h].paid

\* Without an assignment, or with a cancelled one, fee_service is not called.
RecordUnbacked(s) == \E h \in DOMAIN rows.allocations, p \in Amounts :
    /\ Affordable(h, p)
    /\ Assigned => rows.assignments[1].cancelled
    /\ Request(s, <<Update("allocations", h, Paying(h, p))>>)

\* Mutant: the hostel allocation first.
RecordReversed(s) == \E h \in DOMAIN rows.allocations, p \in Amounts :
    /\ Affordable(h, p)
    /\ Assigned /\ ~rows.assignments[1].cancelled
    /\ p <= Owed
    /\ RequestAll(s, {<<"assignments", 1>>}, <<Credit(h, p), Collect(p)>>)

\* fee_service.record_payment holds the assignment and takes no more than owed.
RecordFeePayment(s) == \E h \in DOMAIN rows.allocations, p \in Amounts :
    /\ Affordable(h, p)
    /\ Assigned /\ ~rows.assignments[1].cancelled
    /\ p <= Owed
    /\ RequestAll(s, {<<"assignments", 1>>}, <<Collect(p), Credit(h, p)>>)

\* The first commit has expired the allocation.  If the status that is read then
\* is the one to come, only the paid amount is sent, whatever the status is by
\* the time of the commit.
Reread(s) ==
    /\ work[s].todo # <<>>
    /\ \E k \in DOMAIN Sent(s) : LET st == Sent(s)[k] IN
          /\ "anew" \in DOMAIN st
          /\ rows.allocations[st.id].status = st.columns.status
          /\ work' = [work EXCEPT ![s].todo =
                         <<<<[table |-> "allocations", id |-> st.id,
                              columns |-> [paid |-> st.columns.paid]]>>>>]
    /\ UNCHANGED <<rows, served>>

\* The clerk takes a payment on the assignment itself, or cancels it while
\* nothing has been collected.
PayAssignment(s) == \E p \in Amounts :
    /\ Assigned /\ ~rows.assignments[1].cancelled /\ p <= Owed
    /\ RequestLocked(s, {<<"assignments", 1>>},
          <<Insert("payments", [amount |-> p, hostel |-> FALSE])>>)

CancelAssignment(s) ==
    /\ Assigned /\ Collected = 0
    /\ Request(s, <<Update("assignments", 1, [cancelled |-> TRUE])>>)

Next == \E s \in Session :
    \/ CreateFeeStructure(s) \/ AllocateFeeToStudent(s)
    \/ RecordUnbacked(s) \/ RecordFeePayment(s) \/ Reread(s)
    \/ PayAssignment(s) \/ CancelAssignment(s)
    \/ Commit(s)
    \/ Abort(s)

Spec == Init /\ [][Next]_<<rows, work, served>>

-----------------------------------------------------------------------------
\* Whatever overlaps and wherever a payment breaks off, what the hostel shows
\* as paid was collected on the assignment, unless that was cancelled: a lost
\* update or a failure between the two commits loses a credit, and makes none.
HostelPaidBacked ==
    Assigned /\ ~rows.assignments[1].cancelled => HostelPaid <= ForHostel

\* Whatever payments overlap, what is shown as unpaid is what nothing was paid of.
UnpaidIsUnpaid == \A h \in DOMAIN rows.allocations :
    rows.allocations[h].status = "UNPAID" <=> rows.allocations[h].paid = 0
=============================================================================
