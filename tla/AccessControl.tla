----------------------------- MODULE AccessControl -----------------------------
(***************************************************************************)
(* Who may do what: a user's roles, what has been assigned to and removed  *)
(* from them, the status of user and school, and the check every guarded   *)
(* endpoint makes (backend/app/identity/).  One user of one school; the    *)
(* administrators who change roles are not followed.                       *)
(***************************************************************************)
EXTENDS UnitOfWork, Endpoints, SeededRoles

CONSTANTS
    Moved       \* the permissions that are assigned and removed in a history

Reach == {e.reach : e \in Endpoint}

SchoolStatus == {"ACTIVE", "PAYMENT_DUE", "SUSPENDED", "BLOCKED"}   \* TRIAL, GRACE_PERIOD and
                                                                    \* MAINTENANCE are like ACTIVE,
                                                                    \* CANCELLED, INACTIVE like BLOCKED
IdentityUser == [active : BOOLEAN]
IdentityRole == [seed : SystemRole \cup {"custom"}, deleted : BOOLEAN]

\* An assignment is deleted as a row; here it is marked.  Of the permissions of a
\* role only what differs from the seeded ones has a row.
IdentityUserRole       == [role : DOMAIN rows.roles, deleted : BOOLEAN]
IdentityRolePermission == [role : DOMAIN rows.roles, permission : Moved, given : BOOLEAN]

TypeOK ==
    /\ Table("schools", [status : SchoolStatus]) /\ Table("users", IdentityUser)
    /\ Table("roles", IdentityRole) /\ Table("memberships", IdentityUserRole)
    /\ Table("assignments", IdentityRolePermission) /\ Table("dropped", [permission : Moved])
    /\ Table("done", [reach : Reach])

\* The user has one of the system roles, and may be given others.
Init == \E r \in DOMAIN DefaultRoles :
    Start([schools |-> <<[status |-> "ACTIVE"]>>, users |-> <<[active |-> TRUE]>>,
           roles |-> [k \in DOMAIN DefaultRoles |->
                        [seed |-> DefaultRoles[k], deleted |-> FALSE]],
           memberships |-> <<[role |-> r, deleted |-> FALSE]>>,
           assignments |-> <<>>, dropped |-> <<>>, done |-> <<>>])

-----------------------------------------------------------------------------
RolesHeld == {rows.memberships[m].role : m \in Live("memberships")} \cap Live("roles")

NamesHeld == {rows.roles[r].seed : r \in RolesHeld}

is_super_admin == "Super_Admin" \in NamesHeld

Assigned(r, given) == {rows.assignments[a].permission : a \in
    {b \in DOMAIN rows.assignments : rows.assignments[b].role = r /\ rows.assignments[b].given = given}}

PermissionsOf(r) ==
    ((IF rows.roles[r].seed = "custom" THEN {} ELSE Granted[rows.roles[r].seed])
        \cup Assigned(r, TRUE)) \ Assigned(r, FALSE)

Dropped == {rows.dropped[d].permission : d \in DOMAIN rows.dropped}

UserPermissions == UNION {PermissionsOf(r) : r \in RolesHeld} \ Dropped

Refused == {"SUSPENDED", "BLOCKED"}

SchoolRefused == rows.schools[1].status \in Refused

\* OPERATIONAL_STAFF_ROLES that are seeded; a custom role's name is not among them.
OperationalStaff == {"Super_Admin", "School_Admin", "Principal", "Vice_Principal", "Teacher",
                     "Class_Teacher", "Accountant", "Receptionist"}

\* enforce_relationship_access: a parent is refused other people's children and a
\* student others, each has a record here; no one else but staff is let in.
Related == OperationalStaff \cup {"Parent", "Student"}

\* require_permission, of a user with these roles and permissions.
Permitted(p, names, permissions) ==
    \/ "Super_Admin" \in names
    \/ /\ ~SchoolRefused
       /\ {p, <<"*">>, <<p[1], "*">>} \cap permissions # {}

Authorized(e, names, permissions) ==
    \/ e.needs = <<"anyone">>
    \/ /\ rows.users[1].active
       /\ e.needs # <<"signed in">> => Permitted(e.needs, names, permissions)
       /\ e.reach = "own" => names \cap Related # {}
       /\ e.reach = "platform" => "Super_Admin" \in names

Open ==
    LET names == NamesHeld  permissions == UserPermissions
    IN {e \in Endpoint : Authorized(e, names, permissions)}

-----------------------------------------------------------------------------
UpdateSchoolStatus(s) == \E st \in SchoolStatus :
    Request(s, <<Update("schools", 1, [status |-> st])>>)

UpdateUserStatus(s) == \E a \in BOOLEAN :
    Request(s, <<Update("users", 1, [active |-> a])>>)

CreateRole(s) ==
    /\ \A r \in Live("roles") : rows.roles[r].seed # "custom"
    /\ Request(s, <<Insert("roles", [seed |-> "custom", deleted |-> FALSE])>>)

\* A system role is not deleted.
DeleteRole(s) == \E r \in Live("roles") :
    /\ rows.roles[r].seed = "custom"
    /\ Request(s, <<Update("roles", r, [deleted |-> TRUE])>>)

AssignRole(s) == \E r \in Live("roles") :
    /\ \A m \in Live("memberships") : rows.memberships[m].role # r
    /\ Request(s, <<Insert("memberships", [role |-> r, deleted |-> FALSE])>>)

RemoveRole(s) == \E m \in Live("memberships") :
    Request(s, <<Update("memberships", m, [deleted |-> TRUE])>>)

Give(s, r, p, given) ==
    LET old == {a \in DOMAIN rows.assignments : rows.assignments[a].role = r
                                                 /\ rows.assignments[a].permission = p}
    IN /\ (p \in PermissionsOf(r)) # given
       /\ Request(s, IF old = {}
                     THEN <<Insert("assignments", [role |-> r, permission |-> p, given |-> given])>>
                     ELSE UpdateEach("assignments", old, [given |-> given]))

AssignPermission(s) == \E r \in Live("roles"), p \in Moved \ Dropped : Give(s, r, p, TRUE)
RemovePermission(s) == \E r \in Live("roles"), p \in Moved : Give(s, r, p, FALSE)

DeletePermission(s) == \E p \in Moved \ Dropped :
    Request(s, <<Insert("dropped", [permission |-> p])>>)

\* The user calls an endpoint that changes something, of which is kept how far it
\* reaches.  A history ends with the call, which changes no one's permissions here.
Perform(s) == \E reach \in {e.reach : e \in {o \in Open : o.changes}} :
    Request(s, <<Insert("done", [reach |-> reach])>>)

Administer(s) ==
    \/ UpdateSchoolStatus(s) \/ UpdateUserStatus(s)
    \/ CreateRole(s) \/ DeleteRole(s) \/ AssignRole(s) \/ RemoveRole(s)
    \/ AssignPermission(s) \/ RemovePermission(s) \/ DeletePermission(s)

Next == \E s \in Session :
    \/ Idle(s) /\ served < MaxRequests /\ rows.done = <<>> /\ (Administer(s) \/ Perform(s))
    \/ Commit(s)
    \/ Abort(s)

Spec == Init /\ [][Next]_<<rows, work, served>>

-----------------------------------------------------------------------------
AsSeeded(names) == NamesHeld \subseteq names /\ rows.assignments = <<>>

Unguarded == {<<"signed in">>, <<"anyone">>}

\* What the user may change for having a permission.
MayChange == {e \in Open : e.changes /\ e.needs \notin Unguarded}

\* As the platform is seeded, parents and students change nothing but what is theirs:
\* they hand in homework and documents, read their messages, ask for a risk report.
\* A permission added to a role, or asked by an endpoint, may undo this.
FamiliesChangeOnly == AsSeeded({"Parent", "Student"}) =>
    {e.op : e \in MayChange} \subseteq
        {"submit_homework", "upload_document", "replace_document", "mark_notification_read",
         "mark_all_notifications_read", "get_user_preferences", "update_user_preferences",
         "get_school_communication_config", "assess_student_risk", "assess_section_risk"}

\* Whatever permissions are moved, in a school that is suspended or blocked only a
\* super admin changes what asks for a permission.
SuspendedSchoolRests ==
    rows.schools[1].status \in {"SUSPENDED", "BLOCKED"} /\ ~is_super_admin => MayChange = {}

\* As the platform is seeded, the school admin can do all that the endpoints
\* offer a school, except at the reception and in the settings of the AI.
AdminServes ==
    "School_Admin" \in NamesHeld /\ rows.assignments = <<>> /\ rows.dropped = <<>>
    /\ rows.users[1].active /\ ~SchoolRefused
        => \A e \in Endpoint \ Open :
               e.reach = "platform" \/ e.needs[1] \in {"reception", "visitors", "system"}

\* As the platform is seeded and whatever roles are given together, below the
\* principal the money is changed by an accountant only, the marks and the homework
\* by who teaches, and leave is granted by the vice principal only.
DutiesApart == AsSeeded(SystemRole \ {"Super_Admin", "School_Admin", "Principal"}) =>
    LET may == {e.needs : e \in MayChange} IN
    /\ (\E p \in may : p[1] = "fees") => "Accountant" \in NamesHeld
    /\ (\E p \in may : p[1] \in {"exam", "marks", "grading", "report_card", "homework"})
           => {"Vice_Principal", "Teacher", "Class_Teacher", "Student"} \cap NamesHeld # {}
    /\ <<"staff_leave", "approve">> \in may => "Vice_Principal" \in NamesHeld
=============================================================================
