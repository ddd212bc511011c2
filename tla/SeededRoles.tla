------------------------------ MODULE SeededRoles ------------------------------
(***************************************************************************)
(* The permissions and the roles the platform is seeded with               *)
(* (identity/seeders/).  A permission is its module and its action; a role *)
(* is listed with patterns, of which <<m, "*">> is every permission of a   *)
(* module that was seeded.                                                 *)
(***************************************************************************)

Of(module, actions) == {<<module, a>> : a \in actions}
Whole(modules)      == {<<m, "*">> : m \in modules}

\* DEFAULT_PERMISSIONS.
SchoolPermissions ==
    UNION {Of(m, {"create", "view", "update", "delete"}) : m \in {"school", "academic_year",
        "academic_term", "class", "section", "subject"}}
    \cup Of("student", {"create", "view", "update", "delete", "export", "promote", "retain",
             "transition", "tc.create", "tc.view", "certificate.create", "certificate.view"})
    \cup Of("teacher_attendance", {"view", "create", "update", "manage"})
    \cup Of("progression_matrix", {"view", "manage"})
    \cup Of("progression", {"preview", "execute"})
    \cup UNION {Of(m, {"create", "view", "update", "delete", "export"}) : m \in {"teacher",
             "parent", "attendance", "fees"}}

TeachingPermissions ==
    UNION {Of(m, {"create", "view", "update", "delete"}) : m \in {"exam", "evaluation_config",
        "marks", "substitution", "user", "role", "permission"}}
    \cup Of("grading", {"manage", "view"})
    \cup Of("report_card", {"generate", "view", "edit_remarks", "finalize", "publish", "reopen"})
    \cup Of("timetable", {"create", "view", "update", "delete", "publish", "archive"})
    \cup Of("reports", {"create", "view", "update", "delete", "export"})
    \cup UNION {Of(m, {"assign", "remove", "view"}) : m \in {"user_role", "role_permission"}}
    \cup Of("homework", {"create", "view", "update", "delete", "publish", "submit", "grade",
             "manage"})

CampusPermissions ==
    Of("documents", {"create", "view", "upload", "download", "update", "delete", "verify",
        "manage"})
    \cup Of("notification", {"view", "send", "manage", "template.manage", "preferences.manage",
             "delivery.view"})
    \cup Of("hostel", {"view", "create", "update", "delete", "allocate", "attendance",
             "outpass.view", "outpass.create", "outpass.approve", "fees.manage"})
    \cup Of("events", {"view", "create", "update", "delete", "publish"})
    \cup Of("staff_leave", {"view", "create", "update", "cancel", "approve", "reject", "manage",
             "balance.view", "report.view"})
    \cup Of("ai", {"assistant", "timetable.generate", "risk.view", "communication.draft"})
    \cup Of("transport", {"view", "create", "update", "delete", "allocate", "manage"})
    \cup Of("library", {"view", "create", "update", "delete", "circulate", "manage"})
    \cup Of("admissions", {"view", "create", "update", "delete", "review", "manage"})
    \cup Of("inventory", {"view", "create", "update", "delete", "issue", "transfer", "manage"})
    \cup Of("teacher_cockpit", {"view"})

Seeded == SchoolPermissions \cup TeachingPermissions \cup CampusPermissions

-----------------------------------------------------------------------------
\* ROLE_PERMISSIONS_MATRIX.
SuperAdmin == {<<"*">>}

SchoolAdmin ==
    Whole({"school", "academic_year", "academic_term", "class", "section", "student",
        "teacher", "parent", "subject", "attendance", "fees", "user", "role", "permission",
        "exam", "marks", "grading", "evaluation_config", "report_card", "timetable", "reports",
        "user_role", "role_permission", "progression_matrix", "progression", "teacher_attendance",
        "homework", "documents", "notification", "substitution", "hostel", "events",
        "staff_leave", "ai", "transport", "library", "admissions", "inventory",
        "teacher_cockpit"})

Principal ==
    Whole({"student", "teacher", "parent", "attendance", "subject", "class", "section",
        "fees", "exam", "exam_schedule", "student_exam_result", "report_card", "reports",
        "homework", "documents", "notification", "timetable", "period_slot", "classroom",
        "substitution", "hostel", "events", "staff_leave", "ai", "transport", "library",
        "admissions", "inventory"})
    \cup UNION {Of(m, {"view"}) : m \in {"academic_term", "grading", "evaluation_config",
             "teacher_cockpit"}}

VicePrincipal ==
    Whole({"student", "teacher", "attendance", "subject", "class", "section", "reports",
        "staff_leave", "substitution", "ai", "transport", "library", "admissions", "inventory"})
    \cup UNION {Of(m, {"view"}) : m \in {"academic_term", "grading", "evaluation_config",
             "teacher_cockpit"}}
    \cup Of("report_card", {"view", "generate", "finalize"})
    \cup Of("homework", {"view", "create", "update", "publish", "grade"})
    \cup Of("documents", {"view", "upload", "download", "update", "verify"})

Teacher ==
    UNION {Of(m, {"view"}) : m \in {"teacher_cockpit", "student", "subject", "class",
        "section", "grading", "transport", "inventory"}}
    \cup Of("attendance", {"create", "view", "update"})
    \cup Of("marks", {"create", "update", "view"})
    \cup Of("homework", {"view", "create", "update", "publish", "grade"})
    \cup Of("documents", {"view", "upload", "download", "update"})
    \cup Of("staff_leave", {"view", "create", "cancel", "balance.view"})
    \cup Of("ai", {"assistant", "risk.view", "communication.draft"})
    \cup Of("library", {"view", "circulate"})

ClassTeacher ==
    UNION {Of(m, {"view"}) : m \in {"teacher_cockpit", "student", "subject", "class",
        "section", "grading", "transport", "inventory"}}
    \cup Of("attendance", {"create", "view", "update"})
    \cup Of("marks", {"create", "update", "view"})
    \cup Of("homework", {"view", "create", "update", "publish", "grade"})
    \cup Of("documents", {"view", "upload", "download", "update"})
    \cup Of("staff_leave", {"view", "create", "cancel", "balance.view"})
    \cup Of("ai", {"assistant", "risk.view", "communication.draft"})
    \cup Of("library", {"view", "circulate"})

Receptionist ==
    UNION {Of(m, {"create", "view"}) : m \in {"student", "parent"}}
    \cup Of("documents", {"view", "upload", "download"})
    \cup Of("staff_leave", {"view", "create", "cancel", "balance.view"})
    \cup UNION {Of(m, {"view"}) : m \in {"transport", "library", "inventory"}}
    \cup Of("admissions", {"view", "create", "update"})

Accountant ==
    Whole({"fees"})
    \cup UNION {Of(m, {"view"}) : m \in {"student", "transport", "library", "inventory"}}
    \cup Of("staff_leave", {"view", "create", "cancel", "balance.view"})

Parent ==
    UNION {Of(m, {"view"}) : m \in {"student", "attendance", "fees", "marks", "homework",
        "timetable", "report_card", "notification", "transport", "library"}}
    \cup Of("documents", {"view", "upload", "download"})
    \cup Of("ai", {"risk.view"})

Student ==
    UNION {Of(m, {"view"}) : m \in {"attendance", "fees", "marks", "timetable", "report_card",
        "notification", "transport", "library"}}
    \cup Of("homework", {"view", "submit"})
    \cup Of("documents", {"view", "upload", "download"})
    \cup Of("ai", {"risk.view"})

Matrix == [Super_Admin |-> SuperAdmin, School_Admin |-> SchoolAdmin, Principal |-> Principal,
           Vice_Principal |-> VicePrincipal, Teacher |-> Teacher, Class_Teacher |-> ClassTeacher,
           Receptionist |-> Receptionist, Accountant |-> Accountant, Parent |-> Parent,
           Student |-> Student]

\* DEFAULT_ROLES: the last three are in no row of the matrix.
DefaultRoles == <<"Super_Admin", "School_Admin", "Principal", "Vice_Principal", "Teacher",
    "Class_Teacher", "Receptionist", "Accountant", "Parent", "Student", "Warden", "Chairman",
    "ATP">>

SystemRole == {DefaultRoles[k] : k \in DOMAIN DefaultRoles}

\* Mutant: a permission is worth its module.
GrantedByModule == [role \in SystemRole |->
    LET patterns == IF role \in DOMAIN Matrix THEN Matrix[role] ELSE {}
    IN {p \in Seeded : \E q \in patterns : q[1] = p[1]}]

\* _resolve_permissions_for_patterns: a pattern is worth what has been seeded.
Granted == [role \in SystemRole |->
    LET patterns == IF role \in DOMAIN Matrix THEN Matrix[role] ELSE {}
    IN {p \in Seeded : <<"*">> \in patterns \/ p \in patterns \/ <<p[1], "*">> \in patterns}]
=============================================================================
