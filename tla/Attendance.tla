------------------------------ MODULE Attendance ------------------------------
(***************************************************************************)
(* The daily roll call and its notices of absence                          *)
(* (services/attendance_service.py), while students come to other years    *)
(* and sections (student_promotion_service.py).  The students stay active. *)
(***************************************************************************)
EXTENDS UnitOfWork

CONSTANTS
    Pupil,   \* the students
    Section, \* the sections of the school; they stay from year to year
    Day      \* the days of the period

Year == {1, 2}

\* Told apart by what a notice depends on: LATE, HALF_DAY and EXCUSED are as PRESENT.
AttendanceStatus == {"PRESENT", "ABSENT"}

\* years: those of the enrollment history, and the present one.
Student == [name : Pupil, section : Section, year : Year, years : SUBSET Year]

AttendanceRow == [student : DOMAIN rows.students, section : Section, year : Year, day : Day,
                  status : AttendanceStatus, deleted : BOOLEAN]
Notice == [student : DOMAIN rows.students, day : Day]

TypeOK ==
    /\ Table("students", Student)
    /\ Table("attendances", AttendanceRow) /\ Table("notices", Notice)

Init == \E students \in [1..Cardinality(Pupil) ->
                            [name : Pupil, section : Section, year : {1}, years : {{1}}]] :
    /\ {students[i].name : i \in DOMAIN students} = Pupil
    /\ Start([students |-> students, attendances |-> <<>>, notices |-> <<>>])

\* uq_student_daily_attendance_active.
Integrity == Unique("attendances", LAMBDA a : ~a.deleted,
                    LAMBDA a : <<a.section, a.year, a.student, a.day>>)

-----------------------------------------------------------------------------
RecordOf(i, d) == {a \in Live("attendances") :
    rows.attendances[a].student = i /\ rows.attendances[a].day = d}

\* The repository commits the roll call, and only then are the notices staged, in the
\* transaction that begins after it.
StagedAfter(statements, absent) ==
    <<statements>> \o (IF absent = {} THEN <<>> ELSE <<InsertEach("notices", absent)>>)

Called(i, d, st) ==
    [student |-> i, section |-> rows.students[i].section, year |-> rows.students[i].year,
     day |-> d, status |-> st, deleted |-> FALSE]

\* Looked up in the student's section and year.
create_attendance(s) == \E i \in DOMAIN rows.students, d \in Day, st \in AttendanceStatus :
    /\ \A a \in RecordOf(i, d) :
          <<rows.attendances[a].section, rows.attendances[a].year>>
              # <<rows.students[i].section, rows.students[i].year>>
    /\ RequestAll(s, {}, StagedAfter(<<Insert("attendances", Called(i, d, st))>>,
           IF st = "ABSENT" THEN [student : {i}, day : {d}] ELSE {}))

\* All of them or none; looked up in the section, of whatever year.
create_bulk_attendance(s) == \E d \in Day, c \in Section :
    \E group \in SUBSET {i \in DOMAIN rows.students : rows.students[i].section = c} :
        \E status \in [group -> AttendanceStatus] :
            /\ group # {}
            /\ \A i \in group : \A a \in RecordOf(i, d) : rows.attendances[a].section # c
            /\ RequestAll(s, {}, StagedAfter(
                   InsertEach("attendances", {Called(i, d, status[i]) : i \in group}),
                   [student : {i \in group : status[i] = "ABSENT"}, day : {d}]))

update_attendance(s) == \E a \in Live("attendances"), st \in AttendanceStatus :
    LET r == rows.attendances[a] IN
    RequestAll(s, {}, StagedAfter(
        <<Update("attendances", a, [status |-> st])>>,
        IF st = "ABSENT" /\ r.status # "ABSENT" THEN [student : {r.student}, day : {r.day}] ELSE {}))

delete_attendance(s) == \E a \in Live("attendances") :
    Request(s, <<Update("attendances", a, [deleted |-> TRUE])>>)

\* promote_student, retain_student: to a year in which the student has not been.
promote_student(s) == \E i \in DOMAIN rows.students, y \in Year, c \in Section :
    LET r == rows.students[i] IN
    /\ y \notin r.years
    /\ Request(s, <<Update("students", i, [section |-> c, year |-> y, years |-> r.years \cup {y}])>>)

\* No one commits what is staged: the handler returns, get_db closes the session, and
\* that undoes it like an abort.
CommitRecords(s) ==
    /\ Commit(s) /\ Integrity'
    /\ \A k \in DOMAIN Sent(s) : Sent(s)[k].table # "notices"

Next == \E s \in Session :
    \/ create_attendance(s) \/ create_bulk_attendance(s)
    \/ update_attendance(s) \/ delete_attendance(s) \/ promote_student(s)
    \/ CommitRecords(s)
    \/ Abort(s)

-----------------------------------------------------------------------------
(***************************************************************************)
(* Between the requests, every absence that is on record has its notice.   *)
(* The code says it "stages student absence notification prior to DB       *)
(* commit"; it does so after it, and the notices are lost.                 *)
(***************************************************************************)
AbsencesTold == \A a \in Live("attendances") :
    (\A s \in Session : Idle(s)) /\ rows.attendances[a].status = "ABSENT" =>
        \E k \in DOMAIN rows.notices :
            rows.notices[k] = [student |-> rows.attendances[a].student,
                               day |-> rows.attendances[a].day]
=============================================================================
