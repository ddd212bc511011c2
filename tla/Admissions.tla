------------------------------ MODULE Admissions ------------------------------
(***************************************************************************)
(* Admission cycles, applicants, and the way of an application from draft  *)
(* to decision (backend/app/services/admissions_service.py).  The handlers *)
(* that move an application lock its row and write a row of history in the *)
(* same transaction; those that edit do not lock.                          *)
(***************************************************************************)
EXTENDS UnitOfWork

CONSTANTS
    Code,       \* cycle codes and names, applicant and application numbers
    None        \* no previous status, no cycle

\* ENROLLED is set by no handler of this service but may be given at creation.
Status    == {"DRAFT", "SUBMITTED", "UNDER_REVIEW", "WAITLISTED", "ACCEPTED", "REJECTED",
              "WITHDRAWN", "ENROLLED"}
Closed    == {"REJECTED", "WITHDRAWN"}
Decisions == {"ACCEPTED", "REJECTED", "WAITLISTED", "WITHDRAWN"}   \* and CONDITIONAL_ACCEPT

AdmissionCycle       == [code : Code, deleted : BOOLEAN]
Applicant            == [code : Code, cycle : DOMAIN rows.cycles \cup {None}, deleted : BOOLEAN]
AdmissionApplication == [applicant : DOMAIN rows.applicants, cycle : DOMAIN rows.cycles,
                         code : Code, status : Status]
ApplicationStatusHistory == [application : DOMAIN rows.applications, old : Status \cup {None},
                             new : Status]
AdmissionDecision    == [application : DOMAIN rows.applications, decision : Decisions]

TypeOK ==
    /\ Table("cycles", AdmissionCycle) /\ Table("applicants", Applicant)
    /\ Table("applications", AdmissionApplication)
    /\ Table("history", ApplicationStatusHistory) /\ Table("decisions", AdmissionDecision)

\* A cycle and an applicant, and perhaps an application that has been looked at.
Init == \E c \in Code, some \in {<<>>, <<"DRAFT">>, <<"UNDER_REVIEW">>, <<"WAITLISTED">>} :
    Start([cycles |-> <<[code |-> c, deleted |-> FALSE]>>,
           applicants |-> <<[code |-> c, cycle |-> None, deleted |-> FALSE]>>,
           applications |-> [k \in DOMAIN some |->
               [applicant |-> 1, cycle |-> 1, code |-> c, status |-> some[k]]],
           history |-> [k \in DOMAIN some |-> [application |-> 1, old |-> None, new |-> some[k]]],
           decisions |-> <<>>])

Coded(t, i, c) == \E j \in Live(t) \ {i} : rows[t][j].code = c

-----------------------------------------------------------------------------
\* The unique indexes: codes, and one application in force for an applicant and
\* cycle.  An application is never deleted.
Codes     == /\ \A t \in {"cycles", "applicants"} : Unique(t, LAMBDA r : ~r.deleted, LAMBDA r : r.code)
             /\ Unique("applications", LAMBDA r : TRUE, LAMBDA r : r.code)
OneActive == Unique("applications", LAMBDA r : r.status \notin Closed,
                                    LAMBDA r : <<r.applicant, r.cycle>>)
Integrity == Codes /\ OneActive

-----------------------------------------------------------------------------
CreateCycle(s) == \E c \in Code :
    /\ ~Coded("cycles", 0, c)
    /\ Request(s, <<Insert("cycles", [code |-> c, deleted |-> FALSE])>>)

UpdateCycle(s) == \E y \in Live("cycles"), c \in Code :
    /\ ~Coded("cycles", y, c)
    /\ Request(s, <<Update("cycles", y, [code |-> c])>>)

\* Neither the applicants nor the applications of the cycle are looked at.
DeleteCycle(s) == \E y \in Live("cycles") :
    Request(s, <<Update("cycles", y, [deleted |-> TRUE])>>)

CreateApplicant(s) == \E c \in Code, y \in Live("cycles") \cup {None} :
    /\ ~Coded("applicants", 0, c)
    /\ Request(s, <<Insert("applicants", [code |-> c, cycle |-> y, deleted |-> FALSE])>>)

UpdateApplicant(s) == \E a \in Live("applicants"), c \in Code :
    \E y \in Live("cycles") \cup {rows.applicants[a].cycle} :
        /\ ~Coded("applicants", a, c)
        /\ Request(s, <<Update("applicants", a, [code |-> c, cycle |-> y])>>)

DeleteApplicant(s) == \E a \in Live("applicants") :
    Request(s, <<Update("applicants", a, [deleted |-> TRUE])>>)

CreateApplication(s) ==
    \E a \in Live("applicants"), y \in Live("cycles"), c \in Code, st \in Status :
        LET new == [applicant |-> a, cycle |-> y, code |-> c, status |-> st] IN
        /\ \A p \in DOMAIN rows.applications : rows.applications[p].status \notin Closed =>
               <<rows.applications[p].applicant, rows.applications[p].cycle>> # <<a, y>>
        /\ \A p \in DOMAIN rows.applications : rows.applications[p].code # c
        /\ Request(s, <<Insert("applications", new),
                        InsertFor("history", [application |-> 0, old |-> None, new |-> st],
                                  "application", "applications")>>)

-----------------------------------------------------------------------------
Unlocked(p) == {}    \* mutant: without with_for_update
LockOn(p)   == {<<"applications", p>>}

Move(s, p, to, more) ==
    RequestLocked(s, LockOn(p),
        <<Update("applications", p, [status |-> to]),
          Insert("history", [application |-> p, old |-> rows.applications[p].status,
                             new |-> to])>> \o more)

\* What is SUBMITTED, UNDER_REVIEW or WITHDRAWN already is answered unchanged.
SubmitApplication(s) == \E p \in DOMAIN rows.applications :
    /\ rows.applications[p].status = "DRAFT"
    /\ Move(s, p, "SUBMITTED", <<>>)

StartReviewApplication(s) == \E p \in DOMAIN rows.applications :
    /\ rows.applications[p].status \in {"SUBMITTED", "WAITLISTED"}
    /\ Move(s, p, "UNDER_REVIEW", <<>>)

RecordDecision(s) == \E p \in DOMAIN rows.applications, d \in Decisions :
    /\ rows.applications[p].status \in {"UNDER_REVIEW", "WAITLISTED"}
    /\ Move(s, p, d, <<Insert("decisions", [application |-> p, decision |-> d])>>)

WithdrawApplication(s) == \E p \in DOMAIN rows.applications :
    /\ rows.applications[p].status \notin Closed \cup {"ENROLLED"}
    /\ Move(s, p, "WITHDRAWN", <<>>)

Next == \E s \in Session :
    \/ CreateCycle(s) \/ UpdateCycle(s) \/ DeleteCycle(s)
    \/ CreateApplicant(s) \/ UpdateApplicant(s) \/ DeleteApplicant(s)
    \/ CreateApplication(s)
    \/ SubmitApplication(s) \/ StartReviewApplication(s) \/ RecordDecision(s)
    \/ WithdrawApplication(s)
    \/ Commit(s) /\ Integrity'
    \/ Abort(s)

Spec == Init /\ [][Next]_<<rows, work, served>>

-----------------------------------------------------------------------------
\* The rows of a table about an application, and those that came after one of them.
About(t, p)    == {k \in DOMAIN rows[t] : rows[t][k].application = p}
After(t, p, k) == {j \in About(t, p) : j > k}

\* Whatever requests overlap, the history of an application is its way: every
\* row begins where the one before it ended, and the last ends at its status.
HistoryUnbroken == \A p \in DOMAIN rows.applications :
    /\ About("history", p) # {}
    /\ \A h \in About("history", p) :
          IF After("history", p, h) = {}
          THEN rows.history[h].new = rows.applications[p].status
          ELSE \E g \in After("history", p, h) :
                  /\ \A f \in After("history", p, h) : g <= f
                  /\ rows.history[g].old = rows.history[h].new

\* Whatever requests overlap, an applicant has one application in force in a cycle.
OneApplicationInForce == \A p, q \in DOMAIN rows.applications :
    p # q /\ {rows.applications[p].status, rows.applications[q].status} \cap Closed = {}
        => \/ rows.applications[p].applicant # rows.applications[q].applicant
           \/ rows.applications[p].cycle # rows.applications[q].cycle

\* Whatever requests overlap, the last decision stands until a review is opened
\* again or the application is withdrawn.
DecisionStands == \A p \in DOMAIN rows.applications : \A d \in About("decisions", p) :
    After("decisions", p, d) = {} /\ rows.applications[p].status \notin {"UNDER_REVIEW", "WITHDRAWN"}
        => rows.applications[p].status = rows.decisions[d].decision
=============================================================================
