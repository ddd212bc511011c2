----------------------------- MODULE Timetabling -----------------------------
(***************************************************************************)
(* The weekly timetable of each section, its publication, the solver's     *)
(* drafts that replace it, and the substitution of absent teachers         *)
(* (backend/app/services/timetable_service.py, timetable_entry_service.py, *)
(* timetable_conflict_service.py, teacher_substitution_service.py,         *)
(* backend/app/ai/services/ai_timetable_service.py).  One academic year    *)
(* without terms.  A slot is a day and a period, with one date; a          *)
(* classroom is checked like a teacher and left out.                       *)
(***************************************************************************)
EXTENDS UnitOfWork

CONSTANTS Section, Slot, Teacher

TimetableStatus == {"DRAFT", "PUBLISHED", "ARCHIVED"}

Timetable      == [section : Section, status : TimetableStatus, active : BOOLEAN]
TimetableEntry == [timetable : DOMAIN rows.timetables, slot : Slot, teacher : Teacher,
                   deleted : BOOLEAN]
TeacherSubstitution == [entry : DOMAIN rows.entries, substitute : Teacher, deleted : BOOLEAN]
\* What the solver plans: no teacher and no section twice in a slot.
Lesson   == [section : Section, slot : Slot, teacher : Teacher]
Solution == {L \in SUBSET Lesson : L # {} /\ \A a, b \in L : a # b /\ a.slot = b.slot =>
                 a.teacher # b.teacher /\ a.section # b.section}
AITimetableDraft == [status : {"SOLVING", "SOLVED", "FAILED", "APPROVED", "PUBLISHED"},
                     lessons : Solution \cup {{}}]

TypeOK ==
    /\ Table("timetables", Timetable) /\ Table("entries", TimetableEntry)
    /\ Table("substitutions", TeacherSubstitution) /\ Table("drafts", AITimetableDraft)
    /\ Table("absences", [teacher : Teacher])

\* Some sections have a published timetable, each with one lesson in the same slot;
\* the first of the teachers is absent (StaffLeave keeps the attendance).
Init == \E n \in 1..2, p \in Slot : \E Q \in [1..n -> Section], T \in [1..n -> Teacher] :
    /\ \A i, j \in 1..n : i # j => Q[i] # Q[j] /\ T[i] # T[j]
    /\ Start([timetables |-> [k \in 1..n |-> [section |-> Q[k], status |-> "PUBLISHED",
                                             active |-> TRUE]],
              entries |-> [k \in 1..n |-> [timetable |-> k, slot |-> p, teacher |-> T[k],
                                          deleted |-> FALSE]],
              substitutions |-> <<>>, drafts |-> <<>>,
              absences |-> <<[teacher |-> T[1]]>>])

TimetableOf(e) == rows.timetables[rows.entries[e].timetable]

\* find_teacher_conflict: the live entries of active timetables.
Teaching(t, p) == {e \in Live("entries") : TimetableOf(e).active
                      /\ rows.entries[e].teacher = t /\ rows.entries[e].slot = p}

\* find_substitute_conflict.
Replacing(t, p) == {u \in Live("substitutions") :
    LET e == rows.substitutions[u].entry
    IN rows.substitutions[u].substitute = t /\ ~rows.entries[e].deleted /\ rows.entries[e].slot = p}

SubstitutionsOf(e) == {u \in Live("substitutions") : rows.substitutions[u].entry = e}

EntriesOf(m) == {e \in Live("entries") : rows.entries[e].timetable = m}

-----------------------------------------------------------------------------
\* The unique indexes: a timetable's slot, and a lesson's substitution.
OneLesson  == Unique("entries", LAMBDA r : ~r.deleted, LAMBDA r : <<r.timetable, r.slot>>)
OneSub     == Unique("substitutions", LAMBDA r : ~r.deleted, LAMBDA r : r.entry)
Integrity  == OneLesson /\ OneSub

-----------------------------------------------------------------------------
CreateTimetable(s) == \E n \in Section :
    /\ \A m \in DOMAIN rows.timetables : rows.timetables[m].section # n
    /\ Request(s, <<Insert("timetables", [section |-> n, status |-> "DRAFT", active |-> TRUE])>>)

\* A timetable may be set aside and taken up again.
UpdateTimetable(s) == \E m \in DOMAIN rows.timetables, a \in BOOLEAN :
    Request(s, <<Update("timetables", m, [active |-> a])>>)

\* There is one timetable for a section, so no other can be published already.
PublishTimetable(s) == \E m \in DOMAIN rows.timetables :
    /\ rows.timetables[m].status = "DRAFT"
    /\ EntriesOf(m) # {}
    /\ Request(s, <<Update("timetables", m, [status |-> "PUBLISHED"])>>)

ArchiveTimetable(s) == \E m \in DOMAIN rows.timetables :
    /\ rows.timetables[m].status = "PUBLISHED"
    /\ Request(s, <<Update("timetables", m, [status |-> "ARCHIVED", active |-> FALSE])>>)

\* Mutant: the other timetables are not looked at.
FreeHere(m, p, t, e) == \A f \in EntriesOf(m) \ {e} : rows.entries[f].slot # p

\* validate_entry: the slot is free in this timetable, the teacher in all.
Free(m, p, t, e) ==
    /\ \A f \in EntriesOf(m) \ {e} : rows.entries[f].slot # p
    /\ Teaching(t, p) \ {e} = {}

CreateEntry(s) == \E m \in DOMAIN rows.timetables, p \in Slot, t \in Teacher :
    /\ rows.timetables[m].status = "DRAFT"
    /\ Free(m, p, t, 0)
    /\ Request(s, <<Insert("entries", [timetable |-> m, slot |-> p, teacher |-> t,
                                       deleted |-> FALSE])>>)

UpdateEntry(s) == \E e \in Live("entries"), p \in Slot, t \in Teacher :
    /\ TimetableOf(e).status = "DRAFT"
    /\ Free(rows.entries[e].timetable, p, t, e)
    /\ Request(s, <<Update("entries", e, [slot |-> p, teacher |-> t])>>)

DeleteEntry(s) == \E e \in Live("entries") :
    /\ TimetableOf(e).status = "DRAFT"
    /\ Request(s, <<Update("entries", e, [deleted |-> TRUE])>>)

-----------------------------------------------------------------------------

\* A substitute is not the teacher, has no lesson and replaces no one else then.
Available(t, e, u) ==
    LET p == rows.entries[e].slot IN
    /\ t # rows.entries[e].teacher
    /\ Teaching(t, p) = {}
    /\ Replacing(t, p) \ {u} = {}

CreateSubstitution(s) == \E e \in Live("entries"), t \in Teacher :
    /\ TimetableOf(e).status = "PUBLISHED"
    /\ SubstitutionsOf(e) = {}
    /\ Available(t, e, 0)
    /\ Request(s, <<Insert("substitutions", [entry |-> e, substitute |-> t, deleted |-> FALSE])>>)

UpdateSubstitution(s) == \E u \in Live("substitutions"), t \in Teacher :
    LET e == rows.substitutions[u].entry IN
    /\ TimetableOf(e).status = "PUBLISHED"
    /\ Available(t, e, u)
    /\ Request(s, <<Update("substitutions", u, [substitute |-> t])>>)

DeleteSubstitution(s) == \E u \in Live("substitutions") :
    Request(s, <<Update("substitutions", u, [deleted |-> TRUE])>>)

Absent == {rows.absences[a].teacher : a \in DOMAIN rows.absences}

\* get_affected_slots: the published lessons of absent teachers.
Affected == {e \in Live("entries") : TimetableOf(e).status = "PUBLISHED"
                                     /\ rows.entries[e].teacher \in Absent}

\* get_recommendations; which of these teachers scores best is left open.
Recommended(t, e) == t \notin Absent /\ Available(t, e, 0)

\* auto_assign_substitutions, for one affected lesson, then the next; with
\* override_existing the substitution there is deleted by a commit of its own.
AutoAssign(s) == \E e \in Affected, t \in Teacher :
    LET new == <<Insert("substitutions", [entry |-> e, substitute |-> t, deleted |-> FALSE])>> IN
    /\ Recommended(t, e)
    /\ RequestAll(s, {}, IF SubstitutionsOf(e) = {} THEN <<new>>
          ELSE <<UpdateEach("substitutions", SubstitutionsOf(e), [deleted |-> TRUE]), new>>)

-----------------------------------------------------------------------------
\* The draft is committed as SOLVING, and after the solver's answer or failure
\* as what that was; if the process dies in between, it stays as it is.
GenerateDraft(s) ==
    Request(s, <<Insert("drafts", [status |-> "SOLVING", lessons |-> {}])>>)

SolveDraft(s) == \E d \in DOMAIN rows.drafts :
    /\ rows.drafts[d].status = "SOLVING"
    /\ \/ \E L \in Solution : Request(s, <<Update("drafts", d, [status |-> "SOLVED", lessons |-> L])>>)
       \/ Request(s, <<Update("drafts", d, [status |-> "FAILED"])>>)

ApproveDraft(s) == \E d \in DOMAIN rows.drafts :
    /\ rows.drafts[d].status = "SOLVED"
    /\ Request(s, <<Update("drafts", d, [status |-> "APPROVED"])>>)

\* For each section of the draft its timetable is published, whatever its
\* status, the entries it had are deleted, with their substitutions, and the
\* lessons entered.  The teachers' lessons in other sections are not looked at.
PublishDraft(s) == \E d \in DOMAIN rows.drafts :
    LET lessons  == rows.drafts[d].lessons
        sections == {l.section : l \in lessons}
        new      == {n \in sections : \A m \in DOMAIN rows.timetables : rows.timetables[m].section # n}
        old      == {m \in DOMAIN rows.timetables : rows.timetables[m].section \in sections}
        gone     == UNION {EntriesOf(m) : m \in old}
        TimetableFor(n) == IF n \in new
                           THEN Len(rows.timetables) + 1
                           ELSE CHOOSE m \in old : rows.timetables[m].section = n
    IN /\ rows.drafts[d].status = "APPROVED"
       /\ Cardinality(new) <= 1    \* bound: one timetable is created at a time
       /\ Request(s,
             UpdateEach("timetables", old, [status |-> "PUBLISHED"])
             \o InsertEach("timetables", {[section |-> n, status |-> "PUBLISHED",
                                           active |-> TRUE] : n \in new})
             \o UpdateEach("entries", gone, [deleted |-> TRUE])
             \o UpdateEach("substitutions", UNION {SubstitutionsOf(e) : e \in gone},
                           [deleted |-> TRUE])
             \o InsertEach("entries", {[timetable |-> TimetableFor(l.section), slot |-> l.slot,
                                        teacher |-> l.teacher, deleted |-> FALSE] : l \in lessons})
             \o <<Update("drafts", d, [status |-> "PUBLISHED"])>>)

Next == \E s \in Session :
    \/ CreateTimetable(s) \/ UpdateTimetable(s) \/ PublishTimetable(s) \/ ArchiveTimetable(s)
    \/ CreateEntry(s) \/ UpdateEntry(s) \/ DeleteEntry(s)
    \/ CreateSubstitution(s) \/ UpdateSubstitution(s) \/ DeleteSubstitution(s) \/ AutoAssign(s)
    \/ GenerateDraft(s) \/ SolveDraft(s) \/ ApproveDraft(s) \/ PublishDraft(s)
    \/ Commit(s) /\ Integrity'
    \/ Abort(s)

Spec == Init /\ [][Next]_<<rows, work, served>>

-----------------------------------------------------------------------------
Clash(e, f) == e < f /\ TimetableOf(e).active /\ TimetableOf(f).active
               /\ rows.entries[e].teacher = rows.entries[f].teacher
               /\ rows.entries[e].slot = rows.entries[f].slot

Clashes == {p \in Live("entries") \X Live("entries") : Clash(p[1], p[2])}

\* One request after the other, a teacher is given two lessons at once only by
\* taking up a timetable that was set aside or by publishing a solver's draft:
\* the editor of entries never does it.  (It does not look at substitutions: a
\* teacher who replaces another in a slot may be given a lesson in it.)
EditorMakesNoClash ==
    Clashes' \subseteq Clashes \/ rows'.timetables # rows.timetables \/ rows'.drafts # rows.drafts

\* One request after the other, no teacher replaces two others in the same slot,
\* by whatever updates and automatic assignments.
SubstitutesApart == \A u, v \in Live("substitutions") :
    LET e == rows.substitutions[u].entry    f == rows.substitutions[v].entry IN
    u # v /\ rows.entries[e].slot = rows.entries[f].slot
        => rows.substitutions[u].substitute # rows.substitutions[v].substitute
=============================================================================
