------------------------------- MODULE MCCampus -------------------------------
(***************************************************************************)
(* The components that keep their rows with UnitOfWork, each a desk of the *)
(* school.  No handler of one desk reads the rows of another here, so a    *)
(* behaviour is that of one desk, chosen at the start.  MaxRequests bounds *)
(* a history; where the tables are many it is one less.  The desks of      *)
(* access and of examinations are opened to one session only.              *)
(***************************************************************************)
EXTENDS UnitOfWork, TLC

CONSTANTS None, Person, Limit, Amounts, Mocked

\* The people of a school are finitely many.
ASSUME PersonAssumption == IsFiniteSet(Person)

\* The days, the numbers and the recipients up to a limit.
ASSUME LimitAssumption == Limit \in Nat

\* Every fee and every payment is larger than nothing.
ASSUME AmountsAssumption == Amounts \subseteq Nat \ {0}

VARIABLE desk

Symmetry == Permutations(Session) \cup Permutations(Person)

vars == <<rows, work, served, desk>>

Fewer == MaxRequests - 1

\* What is shown by the rows alone is looked at between the requests: a request under
\* way has changed no row.
BetweenRequests == \A s \in Session : work[s] = Untouched

Library    == INSTANCE LibraryCirculation WITH MaxRequests <- Fewer, Reader <- Person,
                  Accession <- {1, 2}, Limits <- {1, 2}, MaxRenewals <- 1
Transport  == INSTANCE Transport WITH MaxRequests <- Fewer, Student <- Person,
                  Code <- 1..Limit, Seats <- 1..Limit
Hostel     == INSTANCE Hostel WITH MaxRequests <- Fewer, Boarder <- Person,
                  Number <- 1..Limit, Capacity <- 1..Limit, Night <- {1}
HostelFees == INSTANCE HostelFees WITH MaxRequests <- Fewer
StaffLeave == INSTANCE StaffLeave WITH Kind <- {1}, Day <- 1..Limit, Allowance <- {1, 2}
Timetable  == INSTANCE Timetabling WITH MaxRequests <- Fewer,
                  Section <- 1..Limit, Slot <- {1}, Teacher <- 1..(Limit + 1)
Admissions == INSTANCE Admissions WITH MaxRequests <- Fewer, Code <- {1, 2}
Access     == INSTANCE AccessControl WITH MaxRequests <- 2,
                  Moved <- {<<"library", "*">>}
Identity   == INSTANCE Identity WITH MaxRequests <- Fewer, Email <- Person,
                  Password <- {1, 2}
Reception  == INSTANCE Reception WITH MaxRequests <- Fewer, MaxRetries <- 1,
                  Number <- {1, 2}
Progression == INSTANCE Progression WITH MaxRequests <- 2, Key <- {1, 2}
Examinations == INSTANCE Examinations WITH MaxRequests <- 2, Pupil <- Person,
                  Highest <- 2, Whole <- 4
Homework   == INSTANCE Homework WITH Pupil <- Person, MaxContent <- 2
Attendance == INSTANCE Attendance WITH Pupil <- Person,
                  Section <- 1..Limit, Day <- {1}
Jobs       == INSTANCE BackgroundJobs WITH MaxRequests <- Cardinality(Session),
                  Key <- {1}, MaxRecipients <- Limit, MaxRetries <- 1
Drawer     == INSTANCE CashDrawer WITH MaxRequests <- Fewer, Clerk <- Person,
                  Day <- 1..Limit, MaxCounted <- 1
Quota      == INSTANCE AIQuota WITH MaxRequests <- Fewer, Quota <- Amounts,
                  MostTokens <- 2

Init ==
    \/ desk = "library"     /\ Library!Init
    \/ desk = "transport"   /\ Transport!Init
    \/ desk = "hostel"      /\ Hostel!Init
    \/ desk = "hostel fees" /\ HostelFees!Init
    \/ desk = "staff leave" /\ StaffLeave!Init
    \/ desk = "timetable"   /\ Timetable!Init
    \/ desk = "admissions"  /\ Admissions!Init
    \/ desk = "identity"    /\ Identity!Init
    \/ desk = "reception"   /\ Reception!Init
    \/ desk = "progression" /\ Progression!Init
    \/ desk = "examinations" /\ Examinations!Init /\ Cardinality(Session) = 1
    \/ desk = "homework"    /\ Homework!Init
    \/ desk = "attendance"  /\ Attendance!Init
    \/ desk = "jobs"        /\ Jobs!Init
    \/ desk = "drawer"      /\ Drawer!Init
    \/ desk = "quota"       /\ Quota!Init
    \/ desk = "access"      /\ Access!Init /\ Cardinality(Session) = 1

Next ==
    /\ UNCHANGED desk
    /\ \/ desk = "library"     /\ Library!Next
       \/ desk = "transport"   /\ Transport!Next
       \/ desk = "hostel"      /\ Hostel!Next
       \/ desk = "hostel fees" /\ HostelFees!Next
       \/ desk = "staff leave" /\ StaffLeave!Next
       \/ desk = "timetable"   /\ Timetable!Next
       \/ desk = "admissions"  /\ Admissions!Next
       \/ desk = "identity"    /\ Identity!Next
       \/ desk = "reception"   /\ Reception!Next
       \/ desk = "progression" /\ Progression!Next
       \/ desk = "examinations" /\ Examinations!Next
       \/ desk = "homework"    /\ Homework!Next
       \/ desk = "attendance"  /\ Attendance!Next
       \/ desk = "jobs"        /\ Jobs!Next
       \/ desk = "drawer"      /\ Drawer!Next
       \/ desk = "quota"       /\ Quota!Next
       \/ desk = "access"      /\ Access!Next

Spec == Init /\ [][Next]_vars

-----------------------------------------------------------------------------
\* Every table holds rows of its type, whatever the requests.
CampusTypeOK ==
    /\ desk = "library"     => Library!TypeOK
    /\ desk = "transport"   => Transport!TypeOK
    /\ desk = "hostel"      => Hostel!TypeOK
    /\ desk = "hostel fees" => HostelFees!TypeOK
    /\ desk = "staff leave" => StaffLeave!TypeOK
    /\ desk = "timetable"   => Timetable!TypeOK
    /\ desk = "admissions"  => Admissions!TypeOK
    /\ desk = "identity"    => Identity!TypeOK
    /\ desk = "reception"   => Reception!TypeOK
    /\ desk = "progression" => Progression!TypeOK
    /\ desk = "examinations" => Examinations!TypeOK
    /\ desk = "homework"    => Homework!TypeOK
    /\ desk = "attendance"  => Attendance!TypeOK
    /\ desk = "jobs"        => Jobs!TypeOK
    /\ desk = "drawer"      => Drawer!TypeOK
    /\ desk = "quota"       => Quota!TypeOK
    /\ desk = "access"      => Access!TypeOK

(***************************************************************************)
(* What a desk keeps when requests overlap (campus_concurrent).            *)
(***************************************************************************)

\* LibraryCirculation: a copy is out on one loan, and a loan that has ended is
\* not opened again by a renewal that overlaps with the return.
LoansEndOnce ==
    [][desk = "library" => Library!ReturnedIsFinal /\ Library!OneLoanPerCopy']_vars

\* HostelFees: what the hostel shows as paid was collected, in spite of lost
\* updates and of failures between two commits, and unpaid is what was not paid.
HostelFeesShown ==
    desk = "hostel fees" => HostelFees!HostelPaidBacked /\ HostelFees!UnpaidIsUnpaid

\* Admissions: the history leads to the status without a gap, an applicant has
\* one application in force in a cycle, and a decision stands.
AdmissionsOnRecord ==
    desk = "admissions" =>
        Admissions!HistoryUnbroken /\ Admissions!OneApplicationInForce /\ Admissions!DecisionStands

\* Identity: a refresh token is rotated once and a reset token changes one
\* password, however many requests present them.
TokensSpentOnce ==
    [][desk = "identity" => Identity!RotatedOnce' /\ Identity!ResetSpendsToken]_vars

\* Notifications, BackgroundJobs: what is shown as sent or delivered through a real
\* provider was handed over, and a job did what is shown as processed or completed.
ShownIsDone ==
    /\ desk = "reception" => Reception!ShownAsSentArrived
    /\ desk = "jobs"      => Jobs!ProgressIsTrue

\* Progression: whoever comes to another year has a history of it.
MovedIsRecorded == [][desk = "progression" => Progression!MovedIsRecorded]_vars

(***************************************************************************)
(* What a desk keeps as long as requests do not overlap (campus_serial).   *)
(***************************************************************************)

\* LibraryCirculation: no member borrows beyond max_books_allowed, and neither a
\* copy on loan nor its reader is deleted.
LendingKept ==
    [][desk = "library" => Library!BorrowingLimit /\ Library!LoansOutstanding']_vars

\* Transport: no vehicle gets more students than it seats, on whatever routes;
\* no route outlives its vehicle or driver, no stop its route.
TransportKept ==
    [][desk = "transport" => Transport!SeatsSuffice /\ Transport!RoutesComplete']_vars

\* Hostel, CashDrawer, AIQuota: one student in a bed, one bed for a student, shown
\* as occupied, no more of them in a room than its capacity; one open drawer of a
\* clerk, counted once; no charge far beyond the quota.
LimitsKept ==
    [][/\ desk = "hostel" => Hostel!BedsHeld' /\ Hostel!RoomsWithinCapacity'
       /\ desk = "drawer" => Drawer!OneOpenDrawer' /\ Drawer!ClosingStands
       /\ desk = "quota"  => Quota!QuotaKept]_vars

\* StaffLeave: the balances are what the requests in force make of them, within
\* the allowance when leave is asked for, and no day is asked for twice.
LeaveKept ==
    [][desk = "staff leave" =>
         /\ StaffLeave!LeaveWithinAllowance
         /\ StaffLeave!BalancesAddUp' /\ StaffLeave!LeavesApart']_vars

\* Timetabling: the editor gives no teacher two lessons at once, and no teacher
\* replaces two others at once.  A lesson and a substitution may meet: the editor
\* does not look at substitutions.
NoTeacherTwice ==
    [][desk = "timetable" => Timetable!EditorMakesNoClash /\ Timetable!SubstitutesApart']_vars

\* Identity: a session does not outlive the password it was begun with.
ResetEndsSessions == desk = "identity" => Identity!ResetEndsSessions

\* Reception: the host is told of arrivals and departures that happened, once.
AlertsTellTruth == desk = "reception" => Reception!AlertsTellTruth

\* Progression: a rollover that is completed moved all whom the rules move, no
\* one who has left, and a school has one current year.
RolloverKept ==
    [][desk = "progression" =>
         /\ Progression!CompletedMovedAll /\ Progression!LeaversStay
         /\ Progression!OneCurrentYear']_vars

\* Examinations: a card that is final keeps its content and its grade.
FinalIsFinal == [][desk = "examinations" => Examinations!FinalIsFinal]_vars

\* Grading: a result never lowers a percentage, and full marks are the whole
\* percentage, for every configuration the school saved that does not round down
\* (99.99 % comes of some weights then).
CalculationFair ==
    desk = "examinations" /\ BetweenRequests =>
        Examinations!MarksNeverHurt /\ Examinations!FullMarksFullPercent

\* Homework: no one is told twice of one homework, and what is shown as graded was
\* graded for what it contains.
HomeworkKept == desk = "homework" => Homework!ToldOnce /\ Homework!GradeFitsContent

\* AccessControl: as seeded, families change only what is theirs, below the principal
\* only an accountant changes the money and only who teaches the marks, the admin can
\* serve the school; a suspended school rests, however permissions are moved.
RolesFit ==
    desk = "access" /\ BetweenRequests =>
        /\ Access!FamiliesChangeOnly /\ Access!SuspendedSchoolRests
        /\ Access!AdminServes /\ Access!DutiesApart

(***************************************************************************)
(* What the code or the documents promise and the code does not keep.      *)
(***************************************************************************)

\* Progression: a rollover that failed moved no one.
RolloverAllOrNothing == desk = "progression" => Progression!RolloverAllOrNothing

\* Attendance: an absence that is on record has its notice.
AbsencesTold == desk = "attendance" => Attendance!AbsencesTold
=============================================================================
