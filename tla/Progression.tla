------------------------------ MODULE Progression ------------------------------
(***************************************************************************)
(* Academic years, the students in them, the rules by which classes follow *)
(* each other, and the ways a student goes from one year to the next: the  *)
(* rollover of a whole year, promotion and retention, the transfer         *)
(* certificate (services/student/, academic_year_service.py,               *)
(* class_progression_rule_service.py).  The repositories commit on every   *)
(* create and update, except those of an execution, which is flushed; so a *)
(* handler is a series of transactions, and the first ends its locks.      *)
(*                                                                         *)
(* Every class has sections, and roll numbers are left out: a collision is *)
(* one more way to fail.  So are the items of an execution, its log.       *)
(***************************************************************************)
EXTENDS UnitOfWork

CONSTANTS
    Key,        \* idempotency keys
    None        \* no year, no class, no target class

Class      == {1, 2}
YearStatus == {"UPCOMING", "ACTIVE", "ARCHIVED"}
StudentStatus    == {"ACTIVE", "INACTIVE", "TRANSFERRED", "GRADUATED"}  \* DROPPED, WITHDRAWN and
                                                                        \* PASSED_OUT are like INACTIVE
EnrollmentStatus == {"ENROLLED", "PROMOTED", "RETAINED", "GRADUATED", "TRANSFERRED"}
ExecutionStatus  == {"PENDING", "RUNNING", "COMPLETED", "FAILED"}

\* A student who has not been admitted yet is a row that is deleted, in no year.
AcademicYear == [status : YearStatus, current : BOOLEAN, deleted : BOOLEAN]
ClassProgressionRule == [source : Class, target : Class \cup {None}, deleted : BOOLEAN]
Student == [year : DOMAIN rows.years \cup {None}, class : Class \cup {None},
            status : StudentStatus, deleted : BOOLEAN]
StudentEnrollmentHistory == [student : DOMAIN rows.students, year : DOMAIN rows.years,
                             class : Class, status : EnrollmentStatus]
ProgressionExecution == [key : Key, source : DOMAIN rows.years, target : DOMAIN rows.years,
                         status : ExecutionStatus]

TypeOK ==
    /\ Table("years", AcademicYear) /\ Table("rules", ClassProgressionRule)
    /\ Table("students", Student) /\ Table("histories", StudentEnrollmentHistory)
    /\ Table("executions", ProgressionExecution)
    /\ Table("certificates", [student : DOMAIN rows.students])

\* One year goes on and another is prepared; class 1 leads to class 2, the last.
Init == \E second \in {None} \cup Class :
    Start([years |-> <<[status |-> "ACTIVE", current |-> TRUE, deleted |-> FALSE],
                       [status |-> "UPCOMING", current |-> FALSE, deleted |-> FALSE]>>,
           rules |-> <<[source |-> 1, target |-> 2, deleted |-> FALSE],
                       [source |-> 2, target |-> None, deleted |-> FALSE]>>,
           students |-> <<[year |-> 1, class |-> 1, status |-> "ACTIVE", deleted |-> FALSE],
                          [year |-> IF second = None THEN None ELSE 1, class |-> second,
                           status |-> "ACTIVE", deleted |-> second = None]>>,
           histories |-> <<[student |-> 1, year |-> 1, class |-> 1, status |-> "ENROLLED"]>>,
           executions |-> <<>>, certificates |-> <<>>])

\* An object that was expired by a commit is written whatever it held.
Put(t, i, columns) == [table |-> t, id |-> i, columns |-> columns]

-----------------------------------------------------------------------------
\* The unique indexes.
OneHistoryPerYear == Unique("histories", LAMBDA h : TRUE, LAMBDA h : <<h.student, h.year>>)
OneActiveRun == Unique("executions", LAMBDA e : e.status \in {"PENDING", "RUNNING"}, LAMBDA e : TRUE)
Integrity ==
    /\ OneHistoryPerYear /\ OneActiveRun
    /\ Unique("executions", LAMBDA e : TRUE, LAMBDA e : e.key)
    /\ Unique("rules", LAMBDA r : ~r.deleted, LAMBDA r : r.source)

-----------------------------------------------------------------------------
Current == {y \in Live("years") : rows.years[y].current}

PutAside(y) == LET old == Current \ {y} IN
    IF old = {} THEN <<>> ELSE <<UpdateEach("years", old, [current |-> FALSE])>>

CreateAcademicYear(s) == \E cur \in BOOLEAN :
    RequestAll(s, {}, (IF cur THEN PutAside(0) ELSE <<>>)
        \o <<<<Insert("years", [status |-> "UPCOMING", current |-> cur, deleted |-> FALSE])>>>>)

UpdateAcademicYear(s) == \E y \in Live("years"), st \in YearStatus, cur \in BOOLEAN :
    RequestAll(s, {}, (IF cur THEN PutAside(y) ELSE <<>>)
        \o <<<<Update("years", y, [status |-> st, current |-> cur])>>>>)

DeleteAcademicYear(s) == \E y \in Live("years") :
    Request(s, <<Update("years", y, [deleted |-> TRUE])>>)

RuleOf(c) == {r \in Live("rules") : rows.rules[r].source = c}

CreateRule(s) == \E c \in Class, t \in Class \cup {None} :
    /\ t # c /\ RuleOf(c) = {}
    /\ Request(s, <<Insert("rules", [source |-> c, target |-> t, deleted |-> FALSE])>>)

UpdateRule(s) == \E r \in Live("rules"), t \in Class \cup {None} :
    /\ t # rows.rules[r].source
    /\ Request(s, <<Update("rules", r, [target |-> t])>>)

DeleteRule(s) == \E r \in Live("rules") :
    Request(s, <<Update("rules", r, [deleted |-> TRUE])>>)

-----------------------------------------------------------------------------
HistoryIn(i, y) == {h \in DOMAIN rows.histories :
                       rows.histories[h].student = i /\ rows.histories[h].year = y}

Record(i, y, c, st) == Insert("histories", [student |-> i, year |-> y, class |-> c, status |-> st])

\* What becomes of the student's history of the year it is in.
Conclude(i, st) ==
    LET r == rows.students[i] IN
    IF HistoryIn(i, r.year) = {} THEN <<Record(i, r.year, r.class, st)>>
    ELSE UpdateEach("histories", HistoryIn(i, r.year), [status |-> st])

\* The student is inserted first: no one sees the row before.
CreateStudent(s) == \E i \in DOMAIN rows.students, y \in Live("years"), c \in Class :
    /\ rows.students[i].year = None
    /\ RequestAll(s, {<<"students", i>>},
          <<<<Update("students", i, [year |-> y, class |-> c, deleted |-> FALSE])>>,
            <<Record(i, y, c, "ENROLLED")>>>>)

\* The first history of a student cannot be written: the student is taken back.
UndoCreateStudent(s) == \E i \in DOMAIN rows.students :
    /\ \E y \in DOMAIN rows.years, c \in Class :
           work[s].todo = <<<<Record(i, y, c, "ENROLLED")>>>>
    /\ rows' = [rows EXCEPT !.students[i] = [year |-> None, class |-> None,
                                             status |-> "ACTIVE", deleted |-> TRUE]]
    /\ work' = [work EXCEPT ![s] = Untouched]
    /\ UNCHANGED served

\* Year, class and section are refused here.
UpdateStudent(s) == \E i \in Live("students"), st \in StudentStatus :
    Request(s, <<Update("students", i, [status |-> st])>>)

DeleteStudent(s) == \E i \in Live("students") :
    Request(s, <<Update("students", i, [deleted |-> TRUE])>>)

Place(i, y, c) == <<Put("students", i, [year |-> y, class |-> c, status |-> "ACTIVE"])>>

\* Mutant: the student is moved before it is recorded.
MovedFirst(i, y, c, st) ==
    <<Conclude(i, st), Place(i, y, c), <<Record(i, y, c, "ENROLLED")>>>>

\* Three commits.
Move(i, y, c, st) ==
    <<Conclude(i, st), <<Record(i, y, c, "ENROLLED")>>, Place(i, y, c)>>

Enrolled(i) == rows.students[i].status = "ACTIVE"

MayMove(i, y) == Enrolled(i) /\ rows.students[i].year # y /\ HistoryIn(i, y) = {}

\* In bulk, one student after the other.
PromoteStudent(s) == \E i \in Live("students"), y \in Live("years"), c \in Class :
    /\ MayMove(i, y)
    /\ \A r \in RuleOf(rows.students[i].class) : rows.rules[r].target = c
    /\ RequestAll(s, {}, Move(i, y, c, "PROMOTED"))

\* In its own class or another, whatever the rules.
RetainStudent(s) == \E i \in Live("students"), y \in Live("years"), c \in Class :
    /\ MayMove(i, y)
    /\ RequestAll(s, {}, Move(i, y, c, "RETAINED"))

IssueTransferCertificate(s) == \E i \in Live("students") :
    /\ Live("years") # {}
    /\ \A k \in DOMAIN rows.certificates : rows.certificates[k].student # i
    /\ RequestAll(s, {}, <<<<Insert("certificates", [student |-> i])>>,
                           Conclude(i, "TRANSFERRED"),
                           <<Put("students", i, [status |-> "TRANSFERRED"])>>>>)

InYear(y) == {i \in Live("students") : rows.students[i].year = y}

\* Each in a transaction of its own.
Singly(statements) == [k \in DOMAIN statements |-> <<statements[k]>>]

\* The source year is as it was: only the flag goes from year to year.
TransitionAcademicYear(s) == \E y, t \in Live("years") :
    /\ y # t
    /\ LET unrecorded == {i \in InYear(y) : Enrolled(i) /\ HistoryIn(i, y) = {}} IN
       RequestAll(s, {},
           Singly(InsertEach("histories", {[student |-> i, year |-> y, status |-> "ENROLLED",
                                           class |-> rows.students[i].class] : i \in unrecorded}))
           \o Singly(UpdateEach("years", Current, [current |-> FALSE]))
           \o <<<<Put("years", t, [current |-> TRUE])>>>>)

-----------------------------------------------------------------------------
\* calculate_plan: those to be moved and those to graduate; the others stay.
Promoted(y) == {i \in InYear(y) : Enrolled(i) /\
    \E r \in RuleOf(rows.students[i].class) : rows.rules[r].target # None}

NoLastClass(y) == {}    \* mutant: a terminal class is passed over
Graduates(y) == {i \in InYear(y) : Enrolled(i) /\
    \E r \in RuleOf(rows.students[i].class) : rows.rules[r].target = None}

NextClass(i) == rows.rules[CHOOSE r \in RuleOf(rows.students[i].class) : TRUE].target

Graduate(i) == <<Conclude(i, "GRADUATED"), <<Put("students", i, [status |-> "GRADUATED"])>>>>

\* The students of a sequence in turn, n transactions for each.
InTurn(q, n, transactions) ==
    [k \in 1..(n * Len(q)) |-> transactions[q[1 + ((k - 1) \div n)]][1 + ((k - 1) % n)]]

\* The rule is the same for all of a class.
MovesOf(c, y, t) ==
    LET Those(set) == Listed({i \in set : rows.students[i].class = c}) IN
    InTurn(Those(Promoted(y)), 3, [i \in Promoted(y) |-> Move(i, t, NextClass(i), "PROMOTED")])
    \o InTurn(Those(Graduates(y)), 2, [i \in Graduates(y) |-> Graduate(i)])

\* In the order of the classes; in a class, by name.
MovesTo(y, t) == MovesOf(1, y, t) \o MovesOf(2, y, t)

TurnYears(y, t) ==
    <<[k \in DOMAIN rows.years |->
          Put("years", k, IF k = y THEN [current |-> FALSE, status |-> "ARCHIVED"]
                                   ELSE [current |-> FALSE])],
      <<Put("years", t, [current |-> TRUE, status |-> "ACTIVE"])>>>>

\* The execution is flushed, and goes with the first commit of a repository.
Within(execution, transactions) ==
    [k \in DOMAIN transactions |->
        IF k = 1 THEN <<Insert("executions", execution)>> \o transactions[1]
                 ELSE transactions[k]]

NextExecution == Len(rows.executions) + 1

\* The plan agrees with the preview, and is made and the students of the year locked
\* in one step; a second execution of the school waits for the first to be inserted.
ExecuteProgression(s) == \E y, t \in Live("years"), k \in Key :
    /\ \A e \in DOMAIN rows.executions : rows.executions[e].key # k
    /\ y # t
    /\ ~(rows.years[t].status = "ACTIVE" /\ rows.years[t].current)
    /\ \A e \in DOMAIN rows.executions : rows.executions[e].status \notin {"PENDING", "RUNNING"}
    /\ RequestAll(s, {<<"students", i>> : i \in InYear(y)} \cup {<<"executions", NextExecution>>},
          Within([key |-> k, source |-> y, target |-> t, status |-> "RUNNING"],
                 MovesTo(y, t) \o TurnYears(y, t))
          \o <<<<Put("executions", NextExecution, [status |-> "COMPLETED"])>>>>)

\* The execution a session is in the middle of.
Running(s) == {e \in DOMAIN rows.executions : \E k \in DOMAIN work[s].todo :
    \E j \in DOMAIN work[s].todo[k] :
        work[s].todo[k][j].table = "executions" /\ work[s].todo[k][j].id = e}

\* An error rolls the transaction back, and another session records the failure.
RecordFailedExecution(s) == \E e \in Running(s) :
    /\ rows' = [rows EXCEPT !.executions[e].status = "FAILED"]
    /\ work' = [work EXCEPT ![s] = Untouched]
    /\ UNCHANGED served

Next == \E s \in Session :
    \/ CreateAcademicYear(s) \/ UpdateAcademicYear(s) \/ DeleteAcademicYear(s)
    \/ CreateRule(s) \/ UpdateRule(s) \/ DeleteRule(s)
    \/ CreateStudent(s) \/ UndoCreateStudent(s) \/ UpdateStudent(s) \/ DeleteStudent(s)
    \/ PromoteStudent(s) \/ RetainStudent(s) \/ IssueTransferCertificate(s)
    \/ TransitionAcademicYear(s)
    \/ ExecuteProgression(s) \/ RecordFailedExecution(s)
    \/ Commit(s) /\ Integrity'
    \/ Abort(s)

Spec == Init /\ [][Next]_<<rows, work, served>>

-----------------------------------------------------------------------------
\* Whatever requests overlap and wherever they break off, a student who comes to
\* another year has a history of that year, and of the class it comes to.
MovedIsRecorded == \A i \in DOMAIN rows.students :
    LET r == rows.students[i] IN r.year # None /\ rows'.students[i].year \notin {r.year, None} =>
        \E h \in HistoryIn(i, rows'.students[i].year) :
            rows.histories[h].class = rows'.students[i].class

\* One request after the other, wherever one breaks off, a student who has left
\* the school or graduated goes to no other year.
LeaversStay == \A i \in DOMAIN rows.students :
    rows.students[i].year # None /\ rows.students[i].status # "ACTIVE" =>
        rows'.students[i].year = rows.students[i].year

\* One request after the other, an execution that is completed has left no student
\* in its source year whom the rules move or graduate.
CompletedMovedAll == \A e \in DOMAIN rows.executions :
    rows.executions[e].status = "RUNNING" /\ rows'.executions[e].status = "COMPLETED" =>
        \A i \in InYear(rows.executions[e].source) :
            Enrolled(i) => RuleOf(rows.students[i].class) = {}

\* One request after the other, wherever one breaks off, a school has at most one
\* current year.
OneCurrentYear == Cardinality(Current) <= 1

\* What the execution service says of itself, and FR-PRG-04: when an update of a
\* student fails, the whole rollover is rolled back.  After one that failed and is
\* the only request there has been, no one is in the target year.
RolloverAllOrNothing == served = 1 =>
    \A e \in DOMAIN rows.executions :
        rows.executions[e].status = "FAILED" => InYear(rows.executions[e].target) = {}
=============================================================================
