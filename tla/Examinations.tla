----------------------------- MODULE Examinations -----------------------------
(***************************************************************************)
(* Exams of a year, their schedules for one section, the marks of its      *)
(* students, and the report cards made from them (services/exam_service.py, *)
(* exam_schedule_service.py, student_exam_result_service.py,               *)
(* grading_scale_service.py, evaluation_config_service.py,                 *)
(* report_card_service.py).  The students stay active members of the       *)
(* section; names, dates, remarks and attendance are left out.             *)
(***************************************************************************)
EXTENDS UnitOfWork, Grading

CONSTANTS
    Pupil,      \* the students of the section
    Highest     \* bound: the maximum marks of a paper

AssessmentType == {"UNIT_TEST", "FINAL"}    \* the others are like these
Subject == {1, 2}
ReportCardStatus == {"DRAFT", "FINALIZED", "PUBLISHED"}

Exam == [type : AssessmentType, deleted : BOOLEAN]
ExamSchedule == [exam : DOMAIN rows.exams, subject : Subject, max : 1..Highest, deleted : BOOLEAN]
StudentExamResult == [schedule : DOMAIN rows.schedules, student : Pupil, marks : 0..Highest,
                      deleted : BOOLEAN]

\* Two bands, the lower one failing; they may overlap, or leave a gap.
Bands == {<<[code |-> "F", min |-> 0, max |-> top, pass |-> FALSE],
            [code |-> "P", min |-> bottom, max |-> Whole, pass |-> TRUE]>> :
              top \in 1..2, bottom \in 2..3}
GradeScale == [entries : Bands, default : BOOLEAN, deleted : BOOLEAN]

Simple == [mode |-> "SIMPLE_TOTAL", rounding |-> "ROUND_HALF_UP", weights |-> <<>>]
Weighted(rounding, weights) ==
    [mode |-> "WEIGHTED_ASSESSMENT_TYPE", rounding |-> rounding, weights |-> weights]
Method == {Simple} \cup {Weighted(r, [FINAL |-> Whole - 1, UNIT_TEST |-> 1]) :
                         r \in {"ROUND_FLOOR", "ROUND_CEIL"}}
          \cup {Weighted("ROUND_HALF_UP", [FINAL |-> Whole - 1])}
EvaluationConfig == [method : Method, default : BOOLEAN, automatic : BOOLEAN]

ReportCard == [student : Pupil, status : ReportCardStatus,
               content : [max : Nat, obtained : Nat, percentage : Nat,
                          grade : {"F", "P"}, passed : BOOLEAN]]

TypeOK ==
    /\ Table("exams", Exam) /\ Table("schedules", ExamSchedule)
    /\ Table("results", StudentExamResult) /\ Table("scales", GradeScale)
    /\ Table("configs", EvaluationConfig) /\ Table("cards", ReportCard)

-----------------------------------------------------------------------------
\* The papers of a student: exams and schedules that are not deleted.
Papers(i) ==
    LET set == {c \in Live("schedules") : ~rows.exams[rows.schedules[c].exam].deleted}
        Of(c) == {r \in Live("results") : rows.results[r].schedule = c
                                          /\ rows.results[r].student = i}
    IN {[id |-> c, subject |-> rows.schedules[c].subject, max |-> rows.schedules[c].max,
         type |-> rows.exams[rows.schedules[c].exam].type,
         marks |-> IF Of(c) = {} THEN None ELSE rows.results[CHOOSE r \in Of(c) : TRUE].marks] :
            c \in set}

\* A final exam in one subject, and maybe a test; someone's card is made already.
Init ==
    \E how \in Method, second \in Subject, st \in {None, "PUBLISHED"}, who \in Pupil :
    Start([exams |-> <<[type |-> "FINAL", deleted |-> FALSE],
                       [type |-> "UNIT_TEST", deleted |-> FALSE]>>,
           schedules |-> <<[exam |-> 1, subject |-> 1, max |-> Highest, deleted |-> FALSE],
                           [exam |-> 2, subject |-> second, max |-> 1, deleted |-> FALSE]>>,
           results |-> <<[schedule |-> 1, student |-> who, marks |-> 1, deleted |-> FALSE]>>,
           scales |-> <<[entries |-> CHOOSE b \in Bands : validate_entries(b),
                         default |-> TRUE, deleted |-> FALSE]>>,
           configs |-> <<[method |-> how, default |-> TRUE, automatic |-> FALSE]>>,
           cards |-> IF st = None THEN <<>>
                     ELSE <<[student |-> who, status |-> st,
                             content |-> [max |-> Highest, obtained |-> 0, percentage |-> 0,
                                          grade |-> "F", passed |-> FALSE]]>>])

\* The unique indexes.
OneResultPerPaper == Unique("results", LAMBDA r : ~r.deleted, LAMBDA r : <<r.schedule, r.student>>)
OneCard == Unique("cards", LAMBDA c : TRUE, LAMBDA c : c.student)
Integrity ==
    /\ OneResultPerPaper /\ OneCard
    /\ Unique("scales", LAMBDA q : q.default /\ ~q.deleted, LAMBDA q : TRUE)
    /\ Unique("configs", LAMBDA c : c.default, LAMBDA c : TRUE)
    /\ Unique("configs", LAMBDA c : c.automatic, LAMBDA c : TRUE)    \* it has one name

-----------------------------------------------------------------------------
create_exam(s) == \E a \in AssessmentType :
    Request(s, <<Insert("exams", [type |-> a, deleted |-> FALSE])>>)

update_exam(s) == \E x \in Live("exams"), a \in AssessmentType :
    Request(s, <<Update("exams", x, [type |-> a])>>)

\* The schedules of a deleted exam stay, and no report card counts them.
delete_exam(s) == \E x \in Live("exams") :
    Request(s, <<Update("exams", x, [deleted |-> TRUE])>>)

\* A deleted exam is not refused.
create_exam_schedule(s) == \E x \in DOMAIN rows.exams, u \in Subject, max \in 1..Highest :
    Request(s, <<Insert("schedules", [exam |-> x, subject |-> u, max |-> max,
                                      deleted |-> FALSE])>>)

\* The marks that were given already may exceed the new maximum.
update_exam_schedule(s) == \E c \in Live("schedules"), max \in 1..Highest :
    Request(s, <<Update("schedules", c, [max |-> max])>>)

delete_exam_schedule(s) == \E c \in Live("schedules") :
    Request(s, <<Update("schedules", c, [deleted |-> TRUE])>>)

create_student_exam_result(s) == \E c \in Live("schedules"), i \in Pupil :
    \E marks \in 0..rows.schedules[c].max :
        /\ \A r \in Live("results") : rows.results[r].schedule # c \/ rows.results[r].student # i
        /\ Request(s, <<Insert("results", [schedule |-> c, student |-> i, marks |-> marks,
                                           deleted |-> FALSE])>>)

update_student_exam_result(s) == \E r \in Live("results") :
    \E marks \in 0..rows.schedules[rows.results[r].schedule].max :
        Request(s, <<Update("results", r, [marks |-> marks])>>)

delete_student_exam_result(s) == \E r \in Live("results") :
    Request(s, <<Update("results", r, [deleted |-> TRUE])>>)

-----------------------------------------------------------------------------
unset_default_for_school(but) ==
    UpdateEach("scales", {q \in Live("scales") \ {but} : rows.scales[q].default},
               [default |-> FALSE])

create_grade_scale(s) == \E entries \in Bands, default \in BOOLEAN :
    /\ validate_entries(entries)
    /\ Request(s, (IF default THEN unset_default_for_school(0) ELSE <<>>)
                  \o <<Insert("scales", [entries |-> entries, default |-> default,
                                         deleted |-> FALSE])>>)

\* New entries are refused, whatever they are: validate_entries fails on their dicts.
update_grade_scale(s) == \E q \in Live("scales"), default \in BOOLEAN :
    Request(s, (IF default /\ ~rows.scales[q].default
                THEN unset_default_for_school(q) ELSE <<>>)
               \o <<Update("scales", q, [default |-> default])>>)

delete_grade_scale(s) == \E q \in Live("scales") :
    Request(s, <<Update("scales", q, [deleted |-> TRUE])>>)

Defaults == {c \in DOMAIN rows.configs : rows.configs[c].default}

Config(how, default, auto) == [method |-> how, default |-> default, automatic |-> auto]

\* The old default is put aside in a transaction of its own.
create_evaluation_config(s) == \E how \in Method, default \in BOOLEAN :
    RequestAll(s, {},
        (IF default /\ Defaults # {}
         THEN <<UpdateEach("configs", Defaults, [default |-> FALSE])>> ELSE <<>>)
        \o <<<<Insert("configs", Config(how, default, FALSE))>>>>)

-----------------------------------------------------------------------------
CardOf(i) == {c \in DOMAIN rows.cards : rows.cards[c].student = i}

\* Mutant: a card that was published without being finalized is open.
Finalized(c) == rows.cards[c].status = "FINALIZED"
Closed(c) == rows.cards[c].status \in {"FINALIZED", "PUBLISHED"}

\* A card is made or made again.
Card(i, content) ==
    IF CardOf(i) = {} THEN <<Insert("cards", [student |-> i, status |-> "DRAFT",
                                              content |-> content])>>
    ELSE UpdateEach("cards", CardOf(i), [content |-> content])

\* Without a method to follow, one is made, and comes with the first card.
WithConfig(cards) ==
    <<<<Insert("configs", Config(Simple, TRUE, TRUE))>> \o Head(cards)>> \o Tail(cards)

\* Of one student or of the section; each card is committed for itself.  A card is
\* calculated here from what is read when the generation begins.
generate_report_cards(s) == \E group \in {Pupil} \cup {{i} : i \in Pupil}, q \in Live("scales") :
    /\ \A i \in group : \A c \in CardOf(i) : ~Closed(c)
    /\ LET order == Listed(group)
           Contents(how) == Picks([k \in DOMAIN order |->
               calculate_student_evaluation(Papers(order[k]), how, rows.scales[q].entries)])
           Cards(contents) == [k \in DOMAIN order |-> Card(order[k], contents[k])]
           all == UNION {Papers(i) : i \in group}
       IN \/ \E c \in DOMAIN rows.configs : LET how == rows.configs[c].method IN
                /\ Calculable(all, how)
                /\ \E contents \in Contents(how) : RequestAll(s, {}, Cards(contents))
          \/ /\ Defaults = {}
             /\ \E contents \in Contents(Simple) :
                    RequestAll(s, {}, WithConfig(Cards(contents)))

\* In batch, one card after the other, each read anew.
finalize_report_card(s) == \E c \in DOMAIN rows.cards :
    /\ rows.cards[c].status = "DRAFT"
    /\ Request(s, <<Update("cards", c, [status |-> "FINALIZED"])>>)

\* It need not be finalized first.
publish_report_card(s) == \E c \in DOMAIN rows.cards :
    /\ rows.cards[c].status # "PUBLISHED"
    /\ Request(s, <<Update("cards", c, [status |-> "PUBLISHED"])>>)

Handle(s) ==
    \/ create_exam(s) \/ update_exam(s) \/ delete_exam(s)
    \/ create_exam_schedule(s) \/ update_exam_schedule(s) \/ delete_exam_schedule(s)
    \/ create_student_exam_result(s) \/ update_student_exam_result(s)
    \/ delete_student_exam_result(s)
    \/ create_grade_scale(s) \/ update_grade_scale(s) \/ delete_grade_scale(s)
    \/ create_evaluation_config(s)
    \/ generate_report_cards(s) \/ finalize_report_card(s) \/ publish_report_card(s)

Next == \E s \in Session :
    \/ Idle(s) /\ served < MaxRequests /\ Handle(s)
    \/ Commit(s) /\ Integrity'
    \/ Abort(s)

-----------------------------------------------------------------------------
(***************************************************************************)
(* A card that is finalized or published keeps its marks and its grade,    *)
(* whatever becomes of the results, and is no draft again.  One request at *)
(* a time: a generation that has read the card as a draft writes it.       *)
(***************************************************************************)
FinalIsFinal == \A c \in DOMAIN rows.cards :
    rows.cards[c].status \in {"FINALIZED", "PUBLISHED"} =>
        /\ rows'.cards[c].content = rows.cards[c].content
        /\ rows'.cards[c].status # "DRAFT"

Used == {rows.configs[c].method : c \in DOMAIN rows.configs}

(***************************************************************************)
(* Marks never hurt: the result of a paper that a student missed does not  *)
(* lower the percentage on the card, however it is calculated and rounded, *)
(* though the quotients are cut off at 28 digits and then rounded.         *)
(***************************************************************************)
MarksNeverHurt == \A i \in Pupil, how \in Used :
    LET papers == Papers(i) IN
    Calculable(papers, how) =>
        \A p \in papers : p.marks = None => \A marks \in 1..p.max :
            LET more == (papers \ {p}) \cup {[p EXCEPT !.marks = marks]}
            IN \A before \in Percentages(papers, how), after \in Percentages(more, how) :
                   (\A u \in Subjects(papers) \ {p.subject} : before[u] = after[u])
                       => Overall(papers, how, before) <= Overall(more, how, after)

(***************************************************************************)
(* Whoever has full marks in every paper has the whole percentage, though  *)
(* only some of the weighted types were examined - unless the school       *)
(* rounds down, and the weight used does not divide the whole.             *)
(***************************************************************************)
FullMarksFullPercent == \A i \in Pupil, how \in Used :
    LET full == {[p EXCEPT !.marks = p.max] : p \in Papers(i)} IN
    Calculable(full, how) /\ full # {} /\ how.rounding # "ROUND_FLOOR"
        => \A pcts \in Percentages(full, how) : Overall(full, how, pcts) = Whole
=============================================================================
