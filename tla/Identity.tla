------------------------------- MODULE Identity -------------------------------
(***************************************************************************)
(* The accounts of a school and how they sign in: the first user of a new  *)
(* platform, login, rotation of refresh tokens, logout, and the reset of a *)
(* forgotten password (backend/app/identity/services/user_service.py and   *)
(* authentication_service.py).  An account keeps its e-mail here, and the  *)
(* role School Admin is seeded.                                            *)
(***************************************************************************)
EXTENDS UnitOfWork

CONSTANTS
    Email,      \* the users' e-mails
    Password,   \* what a user may choose
    None        \* a session that began with a login

\* active: is_active, with a status that is not one of the blocked ones.
IdentityUser == [email : Email, password : Password, active : BOOLEAN, deleted : BOOLEAN]

\* signed is history: the password of the login that the session goes back to;
\* parent too: the session it was rotated from.
IdentityRefreshToken == [user : DOMAIN rows.users, revoked : BOOLEAN, expired : BOOLEAN,
                         signed : Password, parent : DOMAIN rows.sessions \cup {None}]
IdentityPasswordResetToken == [user : DOMAIN rows.users, used : BOOLEAN, expired : BOOLEAN]
IdentityBootstrapState == [completed : BOOLEAN]

TypeOK ==
    /\ Table("users", IdentityUser) /\ Table("admins", [email : Email])
    /\ Table("sessions", IdentityRefreshToken) /\ Table("resets", IdentityPasswordResetToken)
    /\ Table("bootstrap", IdentityBootstrapState)

Account(e, p)       == [email |-> e, password |-> p, active |-> TRUE, deleted |-> FALSE]
SignedIn(u, p, old) == [user |-> u, revoked |-> FALSE, expired |-> FALSE, signed |-> p, parent |-> old]

\* A new platform; or one user, who has signed in and has asked for a new password.
Init == \E e \in Email, p \in Password, n \in 0..1 :
    Start([users     |-> [k \in 1..n |-> Account(e, p)],
           admins    |-> [k \in 1..n |-> [email |-> e]],
           sessions  |-> [k \in 1..n |-> SignedIn(1, p, None)],
           resets    |-> [k \in 1..n |-> [user |-> 1, used |-> FALSE, expired |-> FALSE]],
           bootstrap |-> <<[completed |-> n = 1]>>])

\* uq (school_id, email), the deleted ones included.
Integrity == Unique("users", LAMBDA r : TRUE, LAMBDA r : r.email)

Usable(u) == rows.users[u].active /\ ~rows.users[u].deleted

exists_by_email(e) == \E u \in Live("users") : rows.users[u].email = e

is_platform_bootstrapped == rows.bootstrap[1].completed

MarkCompleted == Update("bootstrap", 1, [completed |-> TRUE])

-----------------------------------------------------------------------------
\* create_user before the platform is set up, by no one, with the state's row locked.
\* assign_role commits, and with it the user; completed is marked after that.
Bootstrap(s) == \E e \in Email, p \in Password :
    /\ ~is_platform_bootstrapped
    /\ ~exists_by_email(e)
    /\ RequestAll(s, {<<"bootstrap", 1>>},
           <<<<Insert("users", Account(e, p)), Insert("admins", [email |-> e])>>, <<MarkCompleted>>>>)

\* create_user by a user who may: the insert, the role if the school had no user,
\* and the platform's state are committed one after the other.
CreateUser(s) == \E e \in Email, p \in Password :
    /\ ~exists_by_email(e)
    /\ RequestAll(s, {},
           <<<<Insert("users", Account(e, p))>>>>
           \o (IF Live("users") = {} THEN <<<<Insert("admins", [email |-> e])>>>> ELSE <<>>)
           \o (IF is_platform_bootstrapped THEN <<>> ELSE <<<<MarkCompleted>>>>))

\* update_user and update_user_status.
UpdateUser(s) == \E u \in Live("users"), a \in BOOLEAN :
    Request(s, <<Update("users", u, [active |-> a])>>)

DeleteUser(s) == \E u \in Live("users") :
    Request(s, <<Update("users", u, [deleted |-> TRUE])>>)

-----------------------------------------------------------------------------
Login(s) == \E u \in DOMAIN rows.users :
    /\ Usable(u)
    /\ Request(s, <<Insert("sessions", SignedIn(u, rows.users[u].password, None))>>)

NoRotationLock(k) == {}                 \* mutant: get_by_jti
RotationLock(k) == {<<"sessions", k>>}

\* refresh_token: the session is revoked and another takes its place.
Refresh(s) == \E k \in DOMAIN rows.sessions :
    LET old == rows.sessions[k] IN
    /\ ~old.revoked /\ ~old.expired /\ Usable(old.user)
    /\ RequestLocked(s, RotationLock(k),
           <<Update("sessions", k, [revoked |-> TRUE]),
             Insert("sessions", SignedIn(old.user, old.signed, k))>>)

\* logout does not lock the session.
Logout(s) == \E k \in DOMAIN rows.sessions :
    LET old == rows.sessions[k] IN
    /\ ~old.revoked /\ ~old.expired /\ Usable(old.user)
    /\ Request(s, <<Update("sessions", k, [revoked |-> TRUE])>>)

-----------------------------------------------------------------------------
\* forgot_password: the tokens asked for earlier stay good.
ForgotPassword(s) == \E u \in DOMAIN rows.users :
    /\ Usable(u)
    /\ Request(s, <<Insert("resets", [user |-> u, used |-> FALSE, expired |-> FALSE])>>)

TokenLock(t) == {<<"resets", t>>}

LatestSession(u) ==                     \* mutant: only the session last begun
    LET set == {k \in DOMAIN rows.sessions : rows.sessions[k].user = u /\ ~rows.sessions[k].revoked}
    IN {k \in set : \A j \in set : j <= k}
ActiveSessions(u) ==
    {k \in DOMAIN rows.sessions : rows.sessions[k].user = u /\ ~rows.sessions[k].revoked}

\* reset_password: the sessions to revoke are those found when the request reads;
\* it waits for one that another request has locked.
ResetPassword(s) == \E t \in DOMAIN rows.resets, p \in Password :
    LET u     == rows.resets[t].user
        ended == ActiveSessions(u)
    IN /\ ~rows.resets[t].used /\ ~rows.resets[t].expired /\ Usable(u)
       /\ RequestLocked(s, TokenLock(t) \cup ({<<"sessions", k>> : k \in ended} \ Held(s)),
              <<Update("users", u, [password |-> p]), Update("resets", t, [used |-> TRUE])>>
              \o UpdateEach("sessions", ended, [revoked |-> TRUE]))

\* Time passes and a token lapses.
Lapse == \E t \in {"sessions", "resets"} : \E i \in DOMAIN rows[t] :
    /\ rows' = [rows EXCEPT ![t][i].expired = TRUE]
    /\ UNCHANGED <<work, served>>

Next ==
    \/ \E s \in Session :
          \/ Bootstrap(s) \/ CreateUser(s) \/ UpdateUser(s) \/ DeleteUser(s)
          \/ Login(s) \/ Refresh(s) \/ Logout(s) \/ ForgotPassword(s) \/ ResetPassword(s)
          \/ Commit(s) /\ Integrity'
          \/ Abort(s)
    \/ Lapse

Spec == Init /\ [][Next]_<<rows, work, served>>

-----------------------------------------------------------------------------
\* A refresh token is exchanged once: however many requests present it, one new
\* session follows it.
RotatedOnce == \A j, k \in DOMAIN rows.sessions :
    j # k /\ rows.sessions[j].parent # None => rows.sessions[j].parent # rows.sessions[k].parent

\* A password changes only by a reset token that had not been used, and uses it up.
ResetSpendsToken == \A u \in DOMAIN rows.users :
    rows'.users[u].password # rows.users[u].password =>
        \E t \in DOMAIN rows.resets :
            rows.resets[t].user = u /\ ~rows.resets[t].used /\ rows'.resets[t].used

\* When requests do not overlap, no session outlives the password it was begun with,
\* by whatever chain of rotations.
ResetEndsSessions == \A k \in DOMAIN rows.sessions :
    ~rows.sessions[k].revoked => rows.sessions[k].signed = rows.users[rows.sessions[k].user].password
=============================================================================
