------------------------------ MODULE StaffLeave ------------------------------
(***************************************************************************)
(* A teacher's leave: the types of leave, the yearly balance of each, the  *)
(* requests and their approval, and the teacher's daily attendance, which  *)
(* an approval writes too (backend/app/services/staff_leave_service.py,    *)
(* teacher_attendance_service.py).  One teacher, one academic year; a half *)
(* day counts and is marked like a day.  No handler takes a lock.          *)
(***************************************************************************)
EXTENDS UnitOfWork

CONSTANTS
    Kind,       \* codes of leave types
    Day,        \* dates
    Allowance   \* values of max_days_per_year and allocated_days

RequestStatus == {"PENDING", "APPROVED", "REJECTED", "CANCELLED"}
Active        == {"PENDING", "APPROVED"}
\* EXCUSED stands for HALF_DAY, PRESENT for LATE.
Mark          == {"PRESENT", "ABSENT", "EXCUSED"}

StaffLeaveType    == [kind : Kind, days : Allowance, paid : BOOLEAN]
StaffLeaveBalance == [type : DOMAIN rows.types, allocated : Allowance, used : Nat, pending : Nat]
StaffLeaveRequest == [type : DOMAIN rows.types, from : Day, to : Day, status : RequestStatus]
TeacherAttendance == [day : Day, mark : Mark, deleted : BOOLEAN]

TypeOK ==
    /\ Table("types", StaffLeaveType) /\ Table("balances", StaffLeaveBalance)
    /\ Table("requests", StaffLeaveRequest) /\ Table("attendance", TeacherAttendance)

Init == \E k \in Kind, n \in Allowance, p \in BOOLEAN :
    Start([types |-> <<[kind |-> k, days |-> n, paid |-> p]>>,
           balances |-> <<>>, requests |-> <<>>, attendance |-> <<>>])

Days(q)      == q.from..q.to
Length(q)    == Cardinality(Days(q))
BalanceOf(t) == {b \in DOMAIN rows.balances : rows.balances[b].type = t}
MarksOn(D)   == {a \in Live("attendance") : rows.attendance[a].day \in D}

-----------------------------------------------------------------------------
\* The unique constraints and the unique index of attendance.
OneKind    == Unique("types", LAMBDA r : TRUE, LAMBDA r : r.kind)
OneBalance == Unique("balances", LAMBDA r : TRUE, LAMBDA r : r.type)
OneMark    == Unique("attendance", LAMBDA r : ~r.deleted, LAMBDA r : r.day)
Integrity  == OneKind /\ OneBalance /\ OneMark

-----------------------------------------------------------------------------
CreateLeaveType(s) == \E k \in Kind, n \in Allowance, p \in BOOLEAN :
    /\ \A t \in DOMAIN rows.types : rows.types[t].kind # k
    /\ Request(s, <<Insert("types", [kind |-> k, days |-> n, paid |-> p])>>)

\* What has been allocated stays as it is.
UpdateLeaveType(s) == \E t \in DOMAIN rows.types, n \in Allowance, p \in BOOLEAN :
    Request(s, <<Update("types", t, [days |-> n, paid |-> p])>>)

\* Reading the balances, and asking for leave, creates those that are missing.
InitializeBalances(s) ==
    Request(s, InsertEach("balances",
        {[type |-> t, allocated |-> rows.types[t].days, used |-> 0, pending |-> 0] :
             t \in {u \in DOMAIN rows.types : BalanceOf(u) = {}}}))

AllocateLeaveBalance(s) == \E t \in DOMAIN rows.types, n \in Allowance :
    Request(s, IF BalanceOf(t) = {}
               THEN <<Insert("balances", [type |-> t, allocated |-> n, used |-> 0, pending |-> 0])>>
               ELSE UpdateEach("balances", BalanceOf(t), [allocated |-> n]))

\* The condition on the dates of two requests.
Overlap(q, r) ==
    \/ r.from <= q.from /\ r.to >= q.from
    \/ r.from <= q.to /\ r.to >= q.to
    \/ r.from >= q.from /\ r.to <= q.to

Submit(s, q, b) ==
    Request(s, <<Insert("requests", q),
                 Update("balances", b, [pending |-> rows.balances[b].pending + Length(q)])>>)

Remaining(b) == rows.balances[b].allocated - rows.balances[b].used - rows.balances[b].pending

Wanted(t, i, j) == [type |-> t, from |-> i, to |-> j, status |-> "PENDING"]

\* The balances are there: the handler has initialised them with a commit of its
\* own, which is the action above, and read them again.
CreateLeaveRequest(s) == \E t \in DOMAIN rows.types, i, j \in Day :
    /\ i <= j
    /\ \A r \in DOMAIN rows.requests : rows.requests[r].status \in Active =>
           ~Overlap(Wanted(t, i, j), rows.requests[r])
    /\ \E b \in BalanceOf(t) :
          /\ rows.types[t].paid => Length(Wanted(t, i, j)) <= Remaining(b)
          /\ Submit(s, Wanted(t, i, j), b)

Less(n, m) == IF m < n THEN n - m ELSE 0

Release(r, column) ==
    LET b == CHOOSE b \in BalanceOf(rows.requests[r].type) : TRUE
    IN Update("balances", b, [c \in {column} |->
           Less(rows.balances[b][c], Length(rows.requests[r]))])

\* Every day of the leave is marked as excused.
Excuse(r) ==
    LET marked == {rows.attendance[a].day : a \in MarksOn(Days(rows.requests[r]))}
    IN UpdateEach("attendance", MarksOn(Days(rows.requests[r])), [mark |-> "EXCUSED"])
       \o InsertEach("attendance", {[day |-> d, mark |-> "EXCUSED", deleted |-> FALSE] :
                                       d \in Days(rows.requests[r]) \ marked})

ApproveLeaveRequest(s) == \E r \in DOMAIN rows.requests :
    LET b == CHOOSE b \in BalanceOf(rows.requests[r].type) : TRUE
    IN /\ rows.requests[r].status = "PENDING"
       /\ Request(s, <<Update("requests", r, [status |-> "APPROVED"]),
                       Update("balances", b,
                          [pending |-> Less(rows.balances[b].pending, Length(rows.requests[r])),
                           used    |-> rows.balances[b].used + Length(rows.requests[r])])>>
                     \o Excuse(r))

RejectLeaveRequest(s) == \E r \in DOMAIN rows.requests :
    /\ rows.requests[r].status = "PENDING"
    /\ Request(s, <<Update("requests", r, [status |-> "REJECTED"]), Release(r, "pending")>>)

\* Excused days are deleted, also those that had a mark before the approval.
Unexcuse(r) == UpdateEach("attendance",
    {a \in MarksOn(Days(rows.requests[r])) : rows.attendance[a].mark = "EXCUSED"}, [deleted |-> TRUE])

\* Mutant: the days of an approved request are released as pending ones.
CancelReleasingPending(s) == \E r \in DOMAIN rows.requests :
    /\ rows.requests[r].status \in Active
    /\ Request(s, <<Update("requests", r, [status |-> "CANCELLED"]), Release(r, "pending")>>
                  \o (IF rows.requests[r].status = "APPROVED" THEN Unexcuse(r) ELSE <<>>))

CancelLeaveRequest(s) == \E r \in DOMAIN rows.requests :
    /\ rows.requests[r].status \in Active
    /\ Request(s, <<Update("requests", r, [status |-> "CANCELLED"])>>
                  \o (IF rows.requests[r].status = "APPROVED"
                      THEN <<Release(r, "used")>> \o Unexcuse(r)
                      ELSE <<Release(r, "pending")>>))

MarkDay(s, d, k) ==
    Request(s, IF MarksOn({d}) = {}
               THEN <<Insert("attendance", [day |-> d, mark |-> k, deleted |-> FALSE])>>
               ELSE UpdateEach("attendance", MarksOn({d}), [mark |-> k]))

\* The office marks a day; update_attendance of an existing record does the same.
MarkAttendance(s) == \E d \in Day, k \in Mark : MarkDay(s, d, k)

\* The teacher checks in or out: a day without a mark is PRESENT; checking in
\* corrects ABSENT and leaves the rest.
CheckIn(s) == \E d \in Day :
    /\ \A a \in MarksOn({d}) : rows.attendance[a].mark = "ABSENT"
    /\ MarkDay(s, d, "PRESENT")

CheckOut(s) == \E d \in Day :
    /\ MarksOn({d}) = {}
    /\ MarkDay(s, d, "PRESENT")

Next == \E s \in Session :
    \/ CreateLeaveType(s) \/ UpdateLeaveType(s)
    \/ InitializeBalances(s) \/ AllocateLeaveBalance(s)
    \/ CreateLeaveRequest(s) \/ ApproveLeaveRequest(s) \/ RejectLeaveRequest(s)
    \/ CancelLeaveRequest(s)
    \/ MarkAttendance(s) \/ CheckIn(s) \/ CheckOut(s)
    \/ Commit(s) /\ Integrity'
    \/ Abort(s)

Spec == Init /\ [][Next]_<<rows, work, served>>

-----------------------------------------------------------------------------
Booked(t, st) ==
    LET of == {r \in DOMAIN rows.requests : rows.requests[r].type = t /\ rows.requests[r].status = st}
    IN Cardinality({p \in of \X Day : p[2] \in Days(rows.requests[p[1]])})

\* One request after the other, a balance is what the requests in force make
\* of it: submitting, approving, rejecting and cancelling move days between
\* the columns of the balance, and no day is lost or counted twice.
BalancesAddUp == \A b \in DOMAIN rows.balances :
    /\ rows.balances[b].pending = Booked(rows.balances[b].type, "PENDING")
    /\ rows.balances[b].used = Booked(rows.balances[b].type, "APPROVED")

\* One request after the other, no day is asked for twice.
LeavesApart == \A q, r \in DOMAIN rows.requests :
    q # r /\ {rows.requests[q].status, rows.requests[r].status} \subseteq Active
        => Days(rows.requests[q]) \cap Days(rows.requests[r]) = {}

\* One request after the other, a request for paid leave leaves what is used and
\* pending within what is allocated.
LeaveWithinAllowance ==
    \A r \in DOMAIN rows'.requests \ DOMAIN rows.requests :
        LET t == rows'.requests[r].type
        IN rows.types[t].paid => \A b \in BalanceOf(t) :
               rows'.balances[b].used + rows'.balances[b].pending <= rows.balances[b].allocated
=============================================================================
