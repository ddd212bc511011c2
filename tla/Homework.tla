------------------------------- MODULE Homework -------------------------------
(***************************************************************************)
(* Homework of one class: drafts, publication with its notices to the      *)
(* students, what they hand in, and its grades                             *)
(* (services/homework_service.py).  A row is deleted for good, and its     *)
(* submissions with it: here it stays, marked.  The day of the deadline is *)
(* left open, and so are the notice of a grade and the channels; parents   *)
(* are told as the students are.                                           *)
(***************************************************************************)
EXTENDS UnitOfWork

CONSTANTS
    Pupil,      \* the active students of the class
    MaxContent  \* bound: the versions of what a student hands in

HomeworkStatus   == {"DRAFT", "PUBLISHED", "CLOSED"}
SubmissionStatus == {"SUBMITTED", "LATE", "RESUBMITTED", "GRADED"}

\* graded: the version that was there when the grade was given, 0 without a grade.
HomeworkRow == [status : HomeworkStatus, deleted : BOOLEAN]
HomeworkSubmission == [homework : DOMAIN rows.homeworks, student : Pupil, content : 1..MaxContent,
                       status : SubmissionStatus, graded : 0..MaxContent, deleted : BOOLEAN]
Notice == [homework : DOMAIN rows.homeworks, student : Pupil]

TypeOK ==
    /\ Table("homeworks", HomeworkRow) /\ Table("submissions", HomeworkSubmission)
    /\ Table("notices", Notice)

Init == Start([homeworks |-> <<[status |-> "DRAFT", deleted |-> FALSE]>>,
               submissions |-> <<>>, notices |-> <<>>])

\* The unique constraint of the submissions; the index of the notices' keys is not unique.
OneSubmission == Unique("submissions", LAMBDA b : ~b.deleted, LAMBDA b : <<b.homework, b.student>>)

\* homework_id is a foreign key of the submissions.
Integrity == /\ OneSubmission
             /\ \A b \in Live("submissions") : rows.submissions[b].homework \in Live("homeworks")

-----------------------------------------------------------------------------
create_homework(s) ==
    Request(s, <<Insert("homeworks", [status |-> "DRAFT", deleted |-> FALSE])>>)

Opened(previous) == previous # "PUBLISHED"

\* Mutant: the keys are not looked at.
StagedAgain(h, reached) == InsertEach("notices", [homework : {h}, student : reached])

\* A key that has been used is skipped.
trigger_homework_published(h, reached) ==
    InsertEach("notices", [homework : {h}, student : reached]
                          \ {rows.notices[k] : k \in DOMAIN rows.notices})

\* publish_homework, and update_homework with a status, which may be any.  The notices
\* reach whoever has a phone or an e-mail, up to the first error, which is swallowed.
update_homework(s) == \E h \in Live("homeworks"), st \in HomeworkStatus, reached \in SUBSET Pupil :
    LET told == st = "PUBLISHED" /\ Opened(rows.homeworks[h].status) IN
    /\ ~told => reached = {}
    /\ Request(s, <<Update("homeworks", h, [status |-> st])>>
                  \o (IF told THEN trigger_homework_published(h, reached) ELSE <<>>))

close_homework(s) == \E h \in Live("homeworks") :
    Request(s, <<Update("homeworks", h, [status |-> "CLOSED"])>>)

delete_homework(s) == \E h \in Live("homeworks") :
    Request(s, <<Update("homeworks", h, [deleted |-> TRUE])>> \o
               UpdateEach("submissions", {b \in Live("submissions") :
                                             rows.submissions[b].homework = h}, [deleted |-> TRUE]))

-----------------------------------------------------------------------------
SubmissionOf(h, i) == {b \in Live("submissions") :
    rows.submissions[b].homework = h /\ rows.submissions[b].student = i}

\* Mutant: a submission that was made again in time keeps its status.
Unchanging(b, late) == IF late THEN "LATE" ELSE rows.submissions[b].status
Again(b, late) == IF late THEN "LATE" ELSE "RESUBMITTED"

\* The grade of the earlier version is not taken off.
submit_homework(s) == \E h \in Live("homeworks"), i \in Pupil, late \in BOOLEAN :
    /\ rows.homeworks[h].status = "PUBLISHED"
    /\ IF SubmissionOf(h, i) = {}
       THEN Request(s, <<Insert("submissions",
                [homework |-> h, student |-> i, content |-> 1, graded |-> 0, deleted |-> FALSE,
                 status |-> IF late THEN "LATE" ELSE "SUBMITTED"])>>)
       ELSE \E b \in SubmissionOf(h, i) :
                /\ rows.submissions[b].content < MaxContent
                /\ Request(s, <<Update("submissions", b,
                       [content |-> rows.submissions[b].content + 1, status |-> Again(b, late)])>>)

grade_submission(s) == \E b \in Live("submissions") :
    Request(s, <<Update("submissions", b,
                        [status |-> "GRADED", graded |-> rows.submissions[b].content])>>)

\* A row that has gone in the meantime cannot be updated.
NothingGone(s) == \A k \in DOMAIN Sent(s) :
    LET st == Sent(s)[k] IN st.id # 0 => ~rows[st.table][st.id].deleted

Next == \E s \in Session :
    \/ create_homework(s) \/ update_homework(s) \/ close_homework(s) \/ delete_homework(s)
    \/ submit_homework(s) \/ grade_submission(s)
    \/ Commit(s) /\ NothingGone(s) /\ Integrity'
    \/ Abort(s)

-----------------------------------------------------------------------------
(***************************************************************************)
(* No student is told twice of one homework, though it is closed or taken  *)
(* back and published again.  It holds as long as requests do not overlap. *)
(* The documents say that the keys "guarantee" that "duplicate API calls   *)
(* ... produce zero duplicate notifications"; of two requests that publish *)
(* at once, each finds the key of the first notice unused before either    *)
(* has written anything.                                                   *)
(***************************************************************************)
ToldOnce == \A j, k \in DOMAIN rows.notices : rows.notices[j] = rows.notices[k] => j = k

(***************************************************************************)
(* When requests do not overlap, a submission that is shown as GRADED was  *)
(* graded for what it now contains.  (A grade that overlaps with a new     *)
(* version is shown with that version.)                                    *)
(***************************************************************************)
GradeFitsContent == \A b \in Live("submissions") :
    rows.submissions[b].status = "GRADED" =>
        rows.submissions[b].graded = rows.submissions[b].content
=============================================================================
