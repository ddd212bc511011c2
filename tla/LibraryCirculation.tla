-------------------------- MODULE LibraryCirculation --------------------------
(***************************************************************************)
(* The school library: catalogue, members, loans, reservations and fines,  *)
(* as the requests of LibraryService change them                           *)
(* (backend/app/services/library_service.py).  No handler takes a lock.    *)
(* Titles are in Live("books"); dates are left out, so that a due date can  *)
(* always be moved further.                                                *)
(***************************************************************************)
EXTENDS UnitOfWork

CONSTANTS
    Reader,          \* the students, teachers and staff who may be members
    Accession,       \* accession numbers
    Limits,          \* values of max_books_allowed
    MaxRenewals      \* BookLoan.max_renewals

\* WITHDRAWN stands for RESERVED, MAINTENANCE, LOST, DAMAGED and WRITTEN_OFF.
CopyStatus   == {"AVAILABLE", "ISSUED", "WITHDRAWN"}
\* BLOCKED stands for SUSPENDED, EXPIRED, CANCELLED and a passed expiry date.
MemberStatus == {"ACTIVE", "BLOCKED"}
Open         == {"ISSUED", "OVERDUE"}
LoanStatus   == Open \cup {"RETURNED", "LOST", "DAMAGED"}

LibraryBook == [deleted : BOOLEAN]
BookCopy    == [book : DOMAIN rows.books, number : Accession, status : CopyStatus,
                active : BOOLEAN, deleted : BOOLEAN]
LibraryMember   == [reader : Reader, status : MemberStatus, limit : Limits, deleted : BOOLEAN]
BookLoan        == [member : DOMAIN rows.members, copy : DOMAIN rows.copies,
                    status : LoanStatus, renewals : 0..MaxRenewals]
BookReservation == [member : DOMAIN rows.members, book : DOMAIN rows.books,
                    status : {"PENDING", "FULFILLED", "CANCELLED"}]
LibraryFine     == [member : DOMAIN rows.members, status : {"PENDING", "PAID", "WAIVED"}]

\* Every table holds its rows; no loan is renewed more often than allowed.
TypeOK ==
    /\ Table("books", LibraryBook) /\ Table("copies", BookCopy)
    /\ Table("members", LibraryMember) /\ Table("loans", BookLoan)
    /\ Table("reservations", BookReservation) /\ Table("fines", LibraryFine)

\* One title with two copies, as create_book_copy makes them, and one member.
Init == \E k \in Limits, p \in Reader :
    Start([books |-> <<[deleted |-> FALSE]>>,
           copies |-> [n \in 1..2 |-> [book |-> 1, number |-> n, status |-> "AVAILABLE",
                                       active |-> TRUE, deleted |-> FALSE]],
           members |-> <<[reader |-> p, status |-> "ACTIVE", limit |-> k, deleted |-> FALSE]>>,
           loans |-> <<>>, reservations |-> <<>>, fines |-> <<>>])

OpenLoans(m)  == {l \in DOMAIN rows.loans : rows.loans[l].member = m /\ rows.loans[l].status \in Open}
LoansOf(c)    == {l \in DOMAIN rows.loans : rows.loans[l].copy = c /\ rows.loans[l].status \in Open}
Pending(m, b) == {r \in DOMAIN rows.reservations :
                     rows.reservations[r] = [member |-> m, book |-> b, status |-> "PENDING"]}

-----------------------------------------------------------------------------
\* The unique indexes: live accession numbers, live members' readers, open
\* loans of a copy, pending reservations of a title by a member.
LiveNumbers  == Unique("copies", LAMBDA r : ~r.deleted, LAMBDA r : r.number)
LiveReaders  == Unique("members", LAMBDA r : ~r.deleted, LAMBDA r : r.reader)
OneOpenLoan  == Unique("loans", LAMBDA r : r.status \in Open, LAMBDA r : r.copy)
OnePending   == Unique("reservations", LAMBDA r : r.status = "PENDING",
                                       LAMBDA r : <<r.member, r.book>>)
Integrity    == LiveNumbers /\ LiveReaders /\ OneOpenLoan /\ OnePending

-----------------------------------------------------------------------------
DeleteBook(s) == \E b \in Live("books") :
    Request(s, <<Update("books", b, [deleted |-> TRUE])>>)

CreateBookCopy(s) == \E b \in Live("books"), n \in Accession, st \in CopyStatus, a \in BOOLEAN :
    /\ \A c \in Live("copies") : rows.copies[c].number # n
    /\ Request(s, <<Insert("copies", [book |-> b, number |-> n, status |-> st,
                                      active |-> a, deleted |-> FALSE])>>)

\* Any column may be set to any value, the status of a lent copy too.
UpdateBookCopy(s) == \E c \in Live("copies"), n \in Accession, st \in CopyStatus, a \in BOOLEAN :
    /\ \A d \in Live("copies") \ {c} : rows.copies[d].number # n
    /\ Request(s, <<Update("copies", c, [number |-> n, status |-> st, active |-> a])>>)

DeleteBookCopy(s) == \E c \in Live("copies") :
    /\ LoansOf(c) = {}
    /\ Request(s, <<Update("copies", c, [deleted |-> TRUE])>>)

CreateMember(s) == \E p \in Reader, st \in MemberStatus, k \in Limits :
    /\ \A m \in Live("members") : rows.members[m].reader # p
    /\ Request(s, <<Insert("members", [reader |-> p, status |-> st, limit |-> k,
                                       deleted |-> FALSE])>>)

UpdateMember(s) == \E m \in Live("members"), st \in MemberStatus, k \in Limits :
    Request(s, <<Update("members", m, [status |-> st, limit |-> k])>>)

DeleteMember(s) == \E m \in Live("members") :
    /\ OpenLoans(m) = {}
    /\ Request(s, <<Update("members", m, [deleted |-> TRUE])>>)

Lendable(c) == rows.copies[c].active /\ rows.copies[c].status = "AVAILABLE" /\ LoansOf(c) = {}

Lend(s, c, m) ==
    /\ LET held == Pending(m, rows.copies[c].book) IN
       Request(s, <<Insert("loans", [member |-> m, copy |-> c, status |-> "ISSUED", renewals |-> 0]),
                    Update("copies", c, [status |-> "ISSUED"])>>
                  \o (IF held = {} THEN <<>>
                      ELSE <<Update("reservations", CHOOSE r \in held : TRUE,
                                    [status |-> "FULFILLED"])>>))

\* Mutant: one loan more than allowed.
CheckoutBeyond(s) == \E c \in Live("copies"), m \in Live("members") :
    /\ Lendable(c)
    /\ rows.members[m].status = "ACTIVE"
    /\ Cardinality(OpenLoans(m)) <= rows.members[m].limit
    /\ Lend(s, c, m)

CheckoutBook(s) == \E c \in Live("copies"), m \in Live("members") :
    /\ Lendable(c)
    /\ rows.members[m].status = "ACTIVE"
    /\ Cardinality(OpenLoans(m)) < rows.members[m].limit
    /\ Lend(s, c, m)

ReturnBook(s) == \E l \in DOMAIN rows.loans :
    /\ rows.loans[l].status \in Open
    /\ Request(s, <<Update("loans", l, [status |-> "RETURNED"]),
                    Update("copies", rows.loans[l].copy, [status |-> "AVAILABLE"])>>)

\* Mutant: the status is sent although it did not change.
RenewWritingStatus(s) == \E l \in DOMAIN rows.loans :
    /\ rows.loans[l].status \in Open
    /\ rows.loans[l].renewals < MaxRenewals
    /\ Request(s, <<[table |-> "loans", id |-> l, columns |->
                        [status |-> "ISSUED", renewals |-> rows.loans[l].renewals + 1]]>>)

RenewLoan(s) == \E l \in DOMAIN rows.loans :
    /\ rows.loans[l].status \in Open
    /\ rows.loans[l].renewals < MaxRenewals
    /\ Request(s, <<Update("loans", l, [status |-> "ISSUED",
                                        renewals |-> rows.loans[l].renewals + 1])>>)

CreateReservation(s) == \E m \in Live("members"), b \in Live("books") :
    /\ rows.members[m].status = "ACTIVE"
    /\ Pending(m, b) = {}
    /\ Request(s, <<Insert("reservations", [member |-> m, book |-> b, status |-> "PENDING"])>>)

CancelReservation(s) == \E r \in DOMAIN rows.reservations :
    /\ rows.reservations[r].status = "PENDING"
    /\ Request(s, <<Update("reservations", r, [status |-> "CANCELLED"])>>)

CreateFine(s) == \E m \in Live("members"), st \in {"PENDING", "PAID", "WAIVED"} :
    /\ Request(s, <<Insert("fines", [member |-> m, status |-> st])>>)

WaiveFine(s) == \E f \in DOMAIN rows.fines :
    /\ rows.fines[f].status \notin {"PAID", "WAIVED"}
    /\ Request(s, <<Update("fines", f, [status |-> "WAIVED"])>>)

Next == \E s \in Session :
    \/ DeleteBook(s) \/ CreateBookCopy(s) \/ UpdateBookCopy(s) \/ DeleteBookCopy(s)
    \/ CreateMember(s) \/ UpdateMember(s) \/ DeleteMember(s)
    \/ CheckoutBook(s) \/ ReturnBook(s) \/ RenewLoan(s)
    \/ CreateReservation(s) \/ CancelReservation(s)
    \/ CreateFine(s) \/ WaiveFine(s)
    \/ Commit(s) /\ Integrity'
    \/ Abort(s)

Spec == Init /\ [][Next]_<<rows, work, served>>

-----------------------------------------------------------------------------
\* Whatever requests overlap, a copy is out on one loan at most.
OneLoanPerCopy == \A c \in DOMAIN rows.copies : Cardinality(LoansOf(c)) <= 1

\* renew_loan of a loan that is returned meanwhile sends no status: a returned
\* loan is not opened again.
ReturnedIsFinal ==
    \A l \in DOMAIN rows.loans :
        rows.loans[l].status \notin Open => rows'.loans[l].status = rows.loans[l].status

\* One request after the other, checkout_book gives no member more books than
\* max_books_allowed.
BorrowingLimit ==
    \A l \in DOMAIN rows'.loans \ DOMAIN rows.loans :
        LET m == rows'.loans[l].member
        IN Cardinality(OpenLoans(m)) < rows.members[m].limit

\* One request after the other, what is lent is still there, and so is who has it.
LoansOutstanding == \A l \in DOMAIN rows.loans : rows.loans[l].status \in Open =>
    ~rows.copies[rows.loans[l].copy].deleted /\ ~rows.members[rows.loans[l].member].deleted
=============================================================================
