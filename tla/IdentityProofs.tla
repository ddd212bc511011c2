---------------------------- MODULE IdentityProofs ----------------------------
(***************************************************************************)
(* Proofs about Identity for every set of sessions, e-mails and passwords: *)
(* a refresh token is exchanged once, and a password is changed only by a  *)
(* reset token that is used up by it.                                      *)
(***************************************************************************)
EXTENDS Identity, UnitOfWorkProofs

-----------------------------------------------------------------------------
(***************************************************************************)
(* The inductive invariant.  Sessions are only ever revoked; whoever is    *)
(* about to follow a session, or to change a password, holds the lock of   *)
(* what allows it, which is still unspent and spent by the same            *)
(* transaction; and a session that has a successor is revoked.             *)
(***************************************************************************)
RowsOK ==
    /\ {"users", "sessions", "resets"} \subseteq DOMAIN rows
    /\ \A t \in DOMAIN rows : Sequence(rows[t])
    /\ \A u \in DOMAIN rows.users : "password" \in DOMAIN rows.users[u]
    /\ \A k \in DOMAIN rows.sessions :
          /\ {"revoked", "parent"} \subseteq DOMAIN rows.sessions[k]
          /\ rows.sessions[k].revoked \in BOOLEAN
    /\ \A k \in DOMAIN rows.resets :
          /\ {"user", "used"} \subseteq DOMAIN rows.resets[k]
          /\ rows.resets[k].user # 0 /\ rows.resets[k].used \in BOOLEAN

ParentsRevoked == \A k \in DOMAIN rows.sessions :
    LET p == rows.sessions[k].parent
    IN p # None => p \in DOMAIN rows.sessions /\ rows.sessions[p].revoked

\* A transaction sets the column of a row.
Sets(tr, t, i, c) == \E j \in DOMAIN tr :
    tr[j].table = t /\ tr[j].id = i /\ c \in DOMAIN tr[j].columns

\* An UPDATE of a table only marks rows.
Marks(st, c) == \A d \in DOMAIN st.columns : d = c /\ st.columns[d] = TRUE

\* What a transaction may do, sent by a session that holds locks, if the tables are db.
SessionsOK(locks, tr, db) == \A j \in DOMAIN tr : tr[j].table = "sessions" =>
    /\ tr[j].id # 0 => Marks(tr[j], "revoked")
    /\ tr[j].id = 0 =>
          /\ {"revoked", "parent"} \subseteq DOMAIN tr[j].columns
          /\ tr[j].columns.revoked = FALSE
          /\ DOMAIN tr[j].refers = {}
          /\ \A i \in DOMAIN tr : tr[i].table = "sessions" /\ tr[i].id = 0 => i = j
          /\ LET p == tr[j].columns.parent IN p # None =>
                /\ <<"sessions", p>> \in locks
                /\ p \in DOMAIN db.sessions /\ ~db.sessions[p].revoked
                /\ Sets(tr, "sessions", p, "revoked")

ResetsOK(tr) == \A j \in DOMAIN tr : tr[j].table = "resets" =>
    /\ tr[j].id # 0 => Marks(tr[j], "used")
    /\ tr[j].id = 0 =>
          /\ {"user", "used"} \subseteq DOMAIN tr[j].columns
          /\ tr[j].columns.user # 0 /\ tr[j].columns.used = FALSE
          /\ DOMAIN tr[j].refers = {}

UsersOK(locks, tr, db) == \A j \in DOMAIN tr : tr[j].table = "users" =>
    /\ tr[j].id = 0 => "password" \in DOMAIN tr[j].columns
    /\ tr[j].id # 0 /\ "password" \in DOMAIN tr[j].columns =>
          \E t \in DOMAIN db.resets :
             /\ <<"resets", t>> \in locks
             /\ db.resets[t].user = tr[j].id /\ ~db.resets[t].used
             /\ Sets(tr, "resets", t, "used")

TransactionOK(locks, tr, db) ==
    Sequence(tr) /\ SessionsOK(locks, tr, db) /\ ResetsOK(tr) /\ UsersOK(locks, tr, db)

\* The first commit releases the locks.
UnitOK(locks, todo, db) ==
    /\ Sequence(todo)
    /\ \A k \in DOMAIN todo : TransactionOK(IF k = 1 THEN locks ELSE {}, todo[k], db)

WorkOK ==
    /\ work = [s \in Session |-> work[s]]
    /\ \A s \in Session : UnitOK(work[s].locks, work[s].todo, rows)

IdentityInv == RowsOK /\ ParentsRevoked /\ RotatedOnce /\ WorkOK

-----------------------------------------------------------------------------
\* Nothing is left to do.
LEMMA UntouchedOK ==
    ASSUME NEW db
    PROVE  UnitOK({}, <<>>, db)
BY EmptySequence DEF UnitOK

\* A new platform, and one with a user, have nothing under way.
LEMMA InitOK == Init => IdentityInv
<1> SUFFICES ASSUME Init PROVE IdentityInv
  OBVIOUS
<1>1. PICK e \in Email, p \in Password, n \in 0..1 :
        /\ rows = [users     |-> [k \in 1..n |-> Account(e, p)],
                   admins    |-> [k \in 1..n |-> [email |-> e]],
                   sessions  |-> [k \in 1..n |-> SignedIn(1, p, None)],
                   resets    |-> [k \in 1..n |-> [user |-> 1, used |-> FALSE, expired |-> FALSE]],
                   bootstrap |-> <<[completed |-> n = 1]>>]
        /\ work = [s \in Session |-> Untouched]
  BY DEF Init, Start
<1>2. RowsOK
  <2>1. DOMAIN rows = {"users", "admins", "sessions", "resets", "bootstrap"}
    BY <1>1
  <2>2. \A t \in DOMAIN rows : Sequence(rows[t])
    <3>1. /\ Sequence([k \in 1..n |-> Account(e, p)])
          /\ Sequence([k \in 1..n |-> [email |-> e]])
          /\ Sequence([k \in 1..n |-> SignedIn(1, p, None)])
          /\ Sequence([k \in 1..n |-> [user |-> 1, used |-> FALSE, expired |-> FALSE]])
      BY FunctionSequence
    <3>2. Sequence(<<[completed |-> n = 1]>>)
      BY DEF Sequence
    <3>3. Sequence(rows.users) /\ Sequence(rows.admins) /\ Sequence(rows.sessions)
      BY <1>1, <3>1
    <3>4. Sequence(rows.resets) /\ Sequence(rows.bootstrap)
      BY <1>1, <3>1, <3>2
    <3> QED BY <2>1, <3>3, <3>4
  <2>3. /\ \A u \in DOMAIN rows.users : "password" \in DOMAIN rows.users[u]
        /\ \A k \in DOMAIN rows.sessions :
              /\ {"revoked", "parent"} \subseteq DOMAIN rows.sessions[k]
              /\ rows.sessions[k].revoked \in BOOLEAN
    BY <1>1 DEF Account, SignedIn
  <2>4. \A k \in DOMAIN rows.resets :
           rows.resets[k] = [user |-> 1, used |-> FALSE, expired |-> FALSE]
    BY <1>1
  <2>5. \A k \in DOMAIN rows.resets :
           /\ {"user", "used"} \subseteq DOMAIN rows.resets[k]
           /\ rows.resets[k].user # 0 /\ rows.resets[k].used \in BOOLEAN
    <3> TAKE k \in DOMAIN rows.resets
    <3> DEFINE r == [user |-> 1, used |-> FALSE, expired |-> FALSE]
    <3>1. {"user", "used"} \subseteq DOMAIN r /\ r.user # 0 /\ r.used \in BOOLEAN
      OBVIOUS
    <3>2. rows.resets[k] = r
      BY <2>4
    <3> HIDE DEF r
    <3> QED BY <3>1, <3>2
  <2> QED BY <2>1, <2>2, <2>3, <2>5 DEF RowsOK
<1>3. ParentsRevoked /\ RotatedOnce
  BY <1>1 DEF ParentsRevoked, RotatedOnce, SignedIn
<1>4. WorkOK
  BY <1>1, UntouchedOK DEF WorkOK, Untouched
<1> QED BY <1>2, <1>3, <1>4 DEF IdentityInv

-----------------------------------------------------------------------------
\* A request that may be sent keeps the invariant.
LEMMA RequestKeeps ==
    ASSUME IdentityInv, NEW s \in Session, NEW locks, NEW todo,
           RequestAll(s, locks, todo), UnitOK(locks, todo, rows)
    PROVE  IdentityInv'
<1>1. UNCHANGED rows /\ work' = [work EXCEPT ![s] = [locks |-> locks, todo |-> todo]]
  BY DEF RequestAll
<1>2. RowsOK' /\ ParentsRevoked' /\ RotatedOnce'
  BY <1>1 DEF IdentityInv, RowsOK, ParentsRevoked, RotatedOnce
<1>3. work' = [r \in Session |-> work'[r]]
  BY <1>1 DEF IdentityInv, WorkOK
<1>4. ASSUME NEW r \in Session
      PROVE  UnitOK(work'[r].locks, work'[r].todo, rows')
  BY <1>1 DEF IdentityInv, WorkOK
<1> QED BY <1>2, <1>3, <1>4 DEF IdentityInv, WorkOK

\* A request that commits once.
LEMMA SingleCommit ==
    ASSUME NEW db, NEW locks, NEW tr, TransactionOK(locks, tr, db)
    PROVE  UnitOK(locks, <<tr>>, db)
BY OneElement DEF UnitOK

\* One transaction after the others, without locks.
LEMMA OneMore ==
    ASSUME NEW db, NEW locks, NEW todo, UnitOK(locks, todo, db), todo # <<>>,
           NEW tr, TransactionOK({}, tr, db)
    PROVE  UnitOK(locks, todo \o <<tr>>, db) /\ todo \o <<tr>> # <<>>
<1>1. Sequence(todo) /\ Sequence(<<tr>>) /\ DOMAIN <<tr>> = {1} /\ <<tr>>[1] = tr
  BY OneElement DEF UnitOK
<1>2. /\ Sequence(todo \o <<tr>>)
      /\ \A k \in DOMAIN todo : k \in DOMAIN (todo \o <<tr>>) /\ (todo \o <<tr>>)[k] = todo[k]
      /\ \A k \in DOMAIN (todo \o <<tr>>) \ DOMAIN todo :
            k - Len(todo) \in DOMAIN <<tr>> /\ (todo \o <<tr>>)[k] = <<tr>>[k - Len(todo)]
  BY <1>1, ConcatFacts
<1>3. 1 \in DOMAIN todo
  BY <1>1, TailFacts
<1> DEFINE z == todo \o <<tr>>
<1>4. ASSUME NEW k \in DOMAIN z
      PROVE  TransactionOK(IF k = 1 THEN locks ELSE {}, z[k], db)
  <2>1. CASE k \in DOMAIN todo
    BY <1>2, <2>1 DEF UnitOK
  <2>2. CASE k \notin DOMAIN todo
    <3>1. z[k] = tr /\ k # 1
      BY <1>1, <1>2, <1>3, <2>2
    <3> QED BY <3>1
  <2> QED BY <2>1, <2>2
<1> QED BY <1>2, <1>3, <1>4, HasElement DEF UnitOK

\* A transaction that is about neither sessions nor resets nor accounts there are.
LEMMA InsertOK ==
    ASSUME NEW t, t \notin {"sessions", "resets", "users"}, NEW row, NEW locks, NEW db
    PROVE  TransactionOK(locks, <<Insert(t, row)>>, db)
BY OneElement, SMTT(30) DEF TransactionOK, SessionsOK, ResetsOK, UsersOK, Insert

\* A transaction that adds an account.
LEMMA AccountOK ==
    ASSUME NEW e, NEW p, NEW locks, NEW db
    PROVE  /\ TransactionOK(locks, <<Insert("users", Account(e, p))>>, db)
           /\ TransactionOK(locks, <<Insert("users", Account(e, p)), Insert("admins", [email |-> e])>>, db)
BY OneElement, TwoElements DEF TransactionOK, SessionsOK, ResetsOK, UsersOK, Insert, Account

\* And one that marks the platform as set up.
LEMMA CompletedOK ==
    ASSUME NEW locks, NEW db
    PROVE  TransactionOK(locks, <<MarkCompleted>>, db)
BY OneElement DEF TransactionOK, SessionsOK, ResetsOK, UsersOK, MarkCompleted, Update

-----------------------------------------------------------------------------
(***************************************************************************)
(* What each handler leaves to be committed.                               *)
(***************************************************************************)
LEMMA BootstrapKeeps ==
    ASSUME IdentityInv, NEW s \in Session, Bootstrap(s)
    PROVE  IdentityInv'
<1>1. PICK e \in Email, p \in Password :
        RequestAll(s, {<<"bootstrap", 1>>},
            <<<<Insert("users", Account(e, p)), Insert("admins", [email |-> e])>>, <<MarkCompleted>>>>)
  BY DEF Bootstrap
<1> DEFINE first  == <<Insert("users", Account(e, p)), Insert("admins", [email |-> e])>>
           second == <<MarkCompleted>>
           locks  == {<<"bootstrap", 1>>}
<1>2. TransactionOK(locks, first, rows) /\ TransactionOK({}, second, rows)
  BY AccountOK, CompletedOK
<1> HIDE DEF first, second, locks
<1>3. UnitOK(locks, <<first, second>>, rows)
  BY <1>2, TwoElements DEF UnitOK
<1>4. RequestAll(s, locks, <<first, second>>)
  BY <1>1 DEF first, second, locks
<1> QED BY <1>3, <1>4, RequestKeeps

\* Up to three transactions, and none that concerns a session or a password.
LEMMA CreateUserKeeps ==
    ASSUME IdentityInv, NEW s \in Session, CreateUser(s)
    PROVE  IdentityInv'
<1>1. PICK e \in Email, p \in Password :
        RequestAll(s, {},
            <<<<Insert("users", Account(e, p))>>>>
            \o (IF Live("users") = {} THEN <<<<Insert("admins", [email |-> e])>>>> ELSE <<>>)
            \o (IF is_platform_bootstrapped THEN <<>> ELSE <<<<MarkCompleted>>>>))
  BY DEF CreateUser
<1> DEFINE a == <<Insert("users", Account(e, p))>>
           b == <<Insert("admins", [email |-> e])>>
           c == <<MarkCompleted>>
           ab  == <<a>> \o (IF Live("users") = {} THEN <<b>> ELSE <<>>)
           abc == ab \o (IF is_platform_bootstrapped THEN <<>> ELSE <<c>>)
<1>2. /\ TransactionOK({}, a, rows) /\ TransactionOK({}, b, rows)
      /\ TransactionOK({}, c, rows)
  BY AccountOK, CompletedOK, InsertOK
<1>3. RequestAll(s, {}, abc)
  BY <1>1
<1> HIDE DEF a, b, c
<1>4. UnitOK({}, <<a>>, rows) /\ <<a>> # <<>>
  BY <1>2, SingleCommit
<1>5. UnitOK({}, ab, rows) /\ ab # <<>>
  <2>1. CASE Live("users") = {}
    <3>1. ab = <<a>> \o <<b>>
      BY <2>1
    <3> QED BY <1>2, <1>4, <3>1, OneMore
  <2>2. CASE Live("users") # {}
    <3>1. ab = <<a>> \o <<>>
      BY <2>2
    <3>2. ab = <<a>>
      BY <3>1
    <3> HIDE DEF ab
    <3> QED BY <1>4, <3>2
  <2> QED BY <2>1, <2>2
<1> HIDE DEF ab
<1>6. UnitOK({}, abc, rows)
  <2>1. CASE ~is_platform_bootstrapped
    <3>1. abc = ab \o <<c>>
      BY <2>1
    <3> QED BY <1>2, <1>5, <3>1, OneMore
  <2>2. CASE is_platform_bootstrapped
    <3>1. abc = ab \o <<>>
      BY <2>2
    <3>2. PICK S : ab \in Seq(S)
      BY <1>5 DEF UnitOK, Sequence
    <3>3. ab \o <<>> = ab
      BY <3>2
    <3> QED BY <1>5, <3>1, <3>3
  <2> QED BY <2>1, <2>2
<1> HIDE DEF abc
<1> QED BY <1>3, <1>6, RequestKeeps

\* A request of one statement.
LEMMA OneStatement ==
    ASSUME IdentityInv, NEW s \in Session, NEW st, Request(s, <<st>>),
           TransactionOK({}, <<st>>, rows)
    PROVE  IdentityInv'
BY SingleCommit, RequestKeeps DEF Request

\* The rows of a table are counted from 1.
LEMMA RowNumbers ==
    ASSUME RowsOK, NEW t \in DOMAIN rows, NEW i \in DOMAIN rows[t]
    PROVE  i \in Nat /\ i # 0
BY SequenceFacts DEF RowsOK

\* These columns of an account are not its password.
LEMMA UpdateUserKeeps ==
    ASSUME IdentityInv, NEW s \in Session, UpdateUser(s) \/ DeleteUser(s)
    PROVE  IdentityInv'
<1>1. PICK u, c, columns :
        /\ u \in DOMAIN rows.users /\ c \in {"active", "deleted"}
        /\ DOMAIN columns = {c}
        /\ Request(s, <<Update("users", u, columns)>>)
  BY DEF UpdateUser, DeleteUser, Live
<1>2. u # 0
  BY <1>1, RowNumbers DEF IdentityInv, RowsOK
<1> DEFINE st == Update("users", u, columns)
<1>3. TransactionOK({}, <<st>>, rows)
  <2>1. st.table = "users" /\ st.id = u /\ DOMAIN st.columns \subseteq {c}
    BY <1>1 DEF Update, Changed
  <2>2. c # "password"
    BY <1>1
  <2> HIDE DEF st
  <2> QED BY <1>2, <2>1, <2>2, OneElement DEF TransactionOK, SessionsOK, ResetsOK, UsersOK
<1> QED BY <1>1, <1>3, OneStatement

\* A new session follows none.
LEMMA LoginKeeps ==
    ASSUME IdentityInv, NEW s \in Session, Login(s)
    PROVE  IdentityInv'
<1>1. PICK u, p : Request(s, <<Insert("sessions", SignedIn(u, p, None))>>)
  BY DEF Login
<1>2. TransactionOK({}, <<Insert("sessions", SignedIn(u, p, None))>>, rows)
  BY OneElement DEF TransactionOK, SessionsOK, ResetsOK, UsersOK, Insert, SignedIn
<1> QED BY <1>1, <1>2, OneStatement

\* A new reset is not used.
LEMMA ForgotPasswordKeeps ==
    ASSUME IdentityInv, NEW s \in Session, ForgotPassword(s)
    PROVE  IdentityInv'
<1>1. PICK u \in DOMAIN rows.users :
        Request(s, <<Insert("resets", [user |-> u, used |-> FALSE, expired |-> FALSE])>>)
  BY DEF ForgotPassword
<1>2. u # 0
  BY RowNumbers DEF IdentityInv, RowsOK
<1>3. TransactionOK({}, <<Insert("resets", [user |-> u, used |-> FALSE, expired |-> FALSE])>>, rows)
  BY <1>2, OneElement DEF TransactionOK, SessionsOK, ResetsOK, UsersOK, Insert
<1> QED BY <1>1, <1>3, OneStatement

\* The UPDATE that revokes a session.
LEMMA Revocation ==
    ASSUME IdentityInv, NEW k \in DOMAIN rows.sessions
    PROVE  LET st == Update("sessions", k, [revoked |-> TRUE]) IN
           /\ st.table = "sessions" /\ st.id = k /\ k \in Nat /\ k # 0
           /\ Marks(st, "revoked")
           /\ ~rows.sessions[k].revoked => "revoked" \in DOMAIN st.columns
<1>1. k \in Nat /\ k # 0
  BY RowNumbers DEF IdentityInv, RowsOK
<1>2. rows.sessions[k].revoked \in BOOLEAN
  BY DEF IdentityInv, RowsOK
<1> QED BY <1>1, <1>2 DEF Update, Changed, Marks

\* A session is revoked without its lock, which does no harm.
LEMMA LogoutKeeps ==
    ASSUME IdentityInv, NEW s \in Session, Logout(s)
    PROVE  IdentityInv'
<1>1. PICK k \in DOMAIN rows.sessions : Request(s, <<Update("sessions", k, [revoked |-> TRUE])>>)
  BY DEF Logout
<1> DEFINE st == Update("sessions", k, [revoked |-> TRUE])
<1>2. st.table = "sessions" /\ st.id # 0 /\ Marks(st, "revoked")
  BY Revocation
<1>3. Request(s, <<st>>)
  BY <1>1
<1> HIDE DEF st
<1>4. TransactionOK({}, <<st>>, rows)
  BY <1>2, OneElement DEF TransactionOK, SessionsOK, ResetsOK, UsersOK
<1> QED BY <1>3, <1>4, OneStatement

\* The successor is inserted under the lock of the session that is revoked with it.
LEMMA RefreshKeeps ==
    ASSUME IdentityInv, NEW s \in Session, Refresh(s)
    PROVE  IdentityInv'
<1>1. PICK k \in DOMAIN rows.sessions :
        /\ ~rows.sessions[k].revoked
        /\ RequestLocked(s, RotationLock(k),
               <<Update("sessions", k, [revoked |-> TRUE]),
                 Insert("sessions", SignedIn(rows.sessions[k].user, rows.sessions[k].signed, k))>>)
  BY DEF Refresh
<1> DEFINE a == Update("sessions", k, [revoked |-> TRUE])
           b == Insert("sessions", SignedIn(rows.sessions[k].user, rows.sessions[k].signed, k))
           locks == RotationLock(k)
<1>2. /\ a.table = "sessions" /\ a.id = k /\ k # 0 /\ Marks(a, "revoked")
      /\ "revoked" \in DOMAIN a.columns
  BY <1>1, Revocation
<1>3. /\ b.table = "sessions" /\ b.id = 0 /\ DOMAIN b.refers = {}
      /\ {"revoked", "parent"} \subseteq DOMAIN b.columns
      /\ b.columns.revoked = FALSE /\ b.columns.parent = k
  BY DEF Insert, SignedIn
<1>4. RequestAll(s, locks, <<<<a, b>>>>)
  BY <1>1 DEF RequestLocked
<1>5. <<"sessions", k>> \in locks
  BY DEF RotationLock
<1> HIDE DEF a, b, locks
<1>6. Sets(<<a, b>>, "sessions", k, "revoked")
  BY <1>2, TwoElements DEF Sets
<1>7. SessionsOK(locks, <<a, b>>, rows)
  BY <1>1, <1>2, <1>3, <1>5, <1>6, TwoElements DEF SessionsOK
<1>8. TransactionOK(locks, <<a, b>>, rows)
  BY <1>2, <1>3, <1>7, TwoElements DEF TransactionOK, ResetsOK, UsersOK
<1> QED BY <1>4, <1>8, SingleCommit, RequestKeeps

\* The password is changed under the lock of the reset that is used with it.
LEMMA ResetPasswordKeeps ==
    ASSUME IdentityInv, NEW s \in Session, ResetPassword(s)
    PROVE  IdentityInv'
<1>1. PICK t, p, locks :
        /\ t \in DOMAIN rows.resets /\ p \in Password
        /\ ~rows.resets[t].used
        /\ <<"resets", t>> \in locks
        /\ RequestLocked(s, locks,
               <<Update("users", rows.resets[t].user, [password |-> p]),
                 Update("resets", t, [used |-> TRUE])>>
               \o UpdateEach("sessions", ActiveSessions(rows.resets[t].user), [revoked |-> TRUE]))
  BY DEF ResetPassword, TokenLock
<1> DEFINE u == rows.resets[t].user
           a == Update("users", u, [password |-> p])
           b == Update("resets", t, [used |-> TRUE])
           ended  == ActiveSessions(u)
           others == UpdateEach("sessions", ended, [revoked |-> TRUE])
           tr     == <<a, b>> \o others
<1>2. /\ a.table = "users" /\ a.id = u
      /\ b.table = "resets" /\ b.id = t /\ t # 0 /\ Marks(b, "used")
      /\ "used" \in DOMAIN b.columns
  <2>1. t \in Nat /\ t # 0
    BY <1>1, RowNumbers DEF IdentityInv, RowsOK
  <2> QED BY <1>1, <2>1 DEF Update, Changed, Marks, IdentityInv, RowsOK
<1>3. /\ Sequence(others)
      /\ \A j \in DOMAIN others :
            others[j].table = "sessions" /\ others[j].id # 0 /\ Marks(others[j], "revoked")
  <2> DEFINE q == Listed(ended)
  <2>1. ended \subseteq DOMAIN rows.sessions
    BY DEF ActiveSessions
  <2>2. IsFiniteSet(ended)
    <3>1. IsFiniteSet(DOMAIN rows.sessions)
      BY SequenceFacts, FS_Interval DEF IdentityInv, RowsOK
    <3> QED BY <2>1, <3>1, FS_Subset
  <2>3. Sequence(q) /\ \A k \in DOMAIN q : q[k] \in DOMAIN rows.sessions
    BY <2>1, <2>2, ListedFacts
  <2>4. others = [k \in DOMAIN q |-> Update("sessions", q[k], [revoked |-> TRUE])]
    BY DEF UpdateEach
  <2>5. Sequence(others)
    <3>1. Len(q) \in Nat /\ DOMAIN q = 1..Len(q)
      BY <2>3, SequenceFacts
    <3>2. others = [k \in 1..Len(q) |-> others[k]]
      BY <2>4, <3>1
    <3> HIDE DEF others, q
    <3> QED BY <3>1, <3>2, FunctionSequence
  <2>6. ASSUME NEW j \in DOMAIN others
        PROVE  others[j].table = "sessions" /\ others[j].id # 0 /\ Marks(others[j], "revoked")
    <3>1. q[j] \in DOMAIN rows.sessions /\ others[j] = Update("sessions", q[j], [revoked |-> TRUE])
      BY <2>3, <2>4
    <3> HIDE DEF others, q
    <3> QED BY <3>1, Revocation
  <2> QED BY <2>5, <2>6
<1> HIDE DEF a, b, others
<1>4. /\ Sequence(tr) /\ 1 \in DOMAIN tr /\ 2 \in DOMAIN tr /\ tr[1] = a /\ tr[2] = b
      /\ \A j \in DOMAIN tr \ {1, 2} : j - 2 \in DOMAIN others /\ tr[j] = others[j - 2]
  <2>1. /\ Sequence(<<a, b>>) /\ DOMAIN <<a, b>> = {1, 2} /\ Len(<<a, b>>) = 2
        /\ <<a, b>>[1] = a /\ <<a, b>>[2] = b
    BY TwoElements
  <2> DEFINE first == <<a, b>>
  <2> HIDE DEF first
  <2>2. Sequence(first) /\ DOMAIN first = {1, 2} /\ Len(first) = 2 /\ first[1] = a /\ first[2] = b
    BY <2>1 DEF first
  <2>3. /\ Sequence(first \o others)
        /\ \A k \in DOMAIN first : k \in DOMAIN (first \o others) /\ (first \o others)[k] = first[k]
        /\ \A k \in DOMAIN (first \o others) \ DOMAIN first :
              k - Len(first) \in DOMAIN others /\ (first \o others)[k] = others[k - Len(first)]
    <3>1. Sequence(first) /\ Sequence(others)
      BY <1>3, <2>2
    <3> QED BY ONLY <3>1, ConcatFacts
  <2>4. tr = first \o others
    BY DEF first
  <2> HIDE DEF tr
  <2> QED BY <2>2, <2>3, <2>4
<1> HIDE DEF tr
<1>5. \A j \in DOMAIN tr \ {1, 2} :
          tr[j].table = "sessions" /\ tr[j].id # 0 /\ Marks(tr[j], "revoked")
  BY <1>3, <1>4
<1>6. Sets(tr, "resets", t, "used")
  BY <1>2, <1>4 DEF Sets
<1>7. SessionsOK(locks, tr, rows) /\ ResetsOK(tr)
  BY <1>2, <1>4, <1>5 DEF SessionsOK, ResetsOK
<1>8. UsersOK(locks, tr, rows)
  <2>1. ASSUME NEW j \in DOMAIN tr, tr[j].table = "users" PROVE tr[j] = a
    BY <1>2, <1>4, <1>5, <2>1
  <2>2. a.id # 0
    BY <1>1, <1>2 DEF IdentityInv, RowsOK
  <2> QED BY <1>1, <1>2, <1>6, <2>1, <2>2 DEF UsersOK
<1>9. TransactionOK(locks, tr, rows)
  BY <1>4, <1>7, <1>8 DEF TransactionOK
<1>10. RequestAll(s, locks, <<tr>>)
  BY <1>1 DEF RequestLocked, tr, others, a, b
<1> QED BY <1>9, <1>10, SingleCommit, RequestKeeps

-----------------------------------------------------------------------------
(***************************************************************************)
(* The steps that change the tables, or end a request.                     *)
(***************************************************************************)
LEMMA AbortKeeps ==
    ASSUME IdentityInv, NEW s \in Session, Abort(s)
    PROVE  IdentityInv'
<1>1. UNCHANGED rows /\ work' = [work EXCEPT ![s] = Untouched]
  BY DEF Abort
<1>2. RowsOK' /\ ParentsRevoked' /\ RotatedOnce'
  BY <1>1 DEF IdentityInv, RowsOK, ParentsRevoked, RotatedOnce
<1>3. work' = [r \in Session |-> work'[r]]
  BY <1>1 DEF IdentityInv, WorkOK
<1>4. ASSUME NEW r \in Session
      PROVE  UnitOK(work'[r].locks, work'[r].todo, rows')
  BY <1>1, UntouchedOK DEF IdentityInv, WorkOK, Untouched
<1> QED BY <1>2, <1>3, <1>4 DEF IdentityInv, WorkOK

\* What is left to do stays allowed while the rows it holds stand.
LEMMA UnitStands ==
    ASSUME NEW db, NEW new, NEW locks, NEW todo, UnitOK(locks, todo, db),
           \A p \in DOMAIN db.sessions : <<"sessions", p>> \in locks =>
               p \in DOMAIN new.sessions /\ new.sessions[p].revoked = db.sessions[p].revoked,
           \A t \in DOMAIN db.resets : <<"resets", t>> \in locks =>
               /\ t \in DOMAIN new.resets
               /\ new.resets[t].user = db.resets[t].user /\ new.resets[t].used = db.resets[t].used
    PROVE  UnitOK(locks, todo, new)
<1>1. ASSUME NEW k \in DOMAIN todo
      PROVE  TransactionOK(IF k = 1 THEN locks ELSE {}, todo[k], new)
  <2> DEFINE held == IF k = 1 THEN locks ELSE {}
             tr   == todo[k]
  <2>1. TransactionOK(held, tr, db) /\ held \subseteq locks
    BY DEF UnitOK
  <2> HIDE DEF held, tr
  <2>2. SessionsOK(held, tr, new)
    BY <2>1 DEF TransactionOK, SessionsOK
  <2>3. UsersOK(held, tr, new)
    BY <2>1 DEF TransactionOK, UsersOK
  <2>4. TransactionOK(held, tr, new)
    BY <2>1, <2>2, <2>3 DEF TransactionOK
  <2> QED BY <2>4 DEF held, tr
<1> QED BY <1>1 DEF UnitOK

\* A lapse is in a column that nothing here depends on.
LEMMA LapseKeeps ==
    ASSUME IdentityInv, Lapse
    PROVE  IdentityInv'
<1>1. PICK t, i : rows' = [rows EXCEPT ![t][i].expired = TRUE] /\ UNCHANGED work
  BY DEF Lapse
<1>2. DOMAIN rows' = DOMAIN rows
  BY <1>1
<1>3. \A x \in DOMAIN rows : DOMAIN rows'[x] = DOMAIN rows[x]
  BY <1>1
<1>4. \A x \in DOMAIN rows : \A k \in DOMAIN rows[x] : DOMAIN rows'[x][k] = DOMAIN rows[x][k]
  BY <1>1
<1>5. \A x \in DOMAIN rows : \A k \in DOMAIN rows[x] : \A c \in DOMAIN rows[x][k] :
          c # "expired" => rows'[x][k][c] = rows[x][k][c]
  BY <1>1
<1>6. \A x \in DOMAIN rows : Sequence(rows'[x])
  <2> TAKE x \in DOMAIN rows
  <2>1. Sequence(rows[x])
    BY DEF IdentityInv, RowsOK
  <2>2. CASE x # t
    BY <1>1, <2>1, <2>2
  <2>3. CASE x = t
    <3>1. rows'[x] = [rows[x] EXCEPT ![i] = [rows[x][i] EXCEPT !.expired = TRUE]]
      BY <1>1, <2>3
    <3>2. Len(rows[x]) \in Nat /\ DOMAIN rows[x] = 1..Len(rows[x])
      BY <2>1, SequenceFacts
    <3>3. rows'[x] = [k \in 1..Len(rows[x]) |-> rows'[x][k]]
      BY <3>1, <3>2
    <3> QED BY <3>2, <3>3, FunctionSequence
  <2> QED BY <2>2, <2>3
<1>7. RowsOK'
  BY <1>2, <1>3, <1>4, <1>5, <1>6 DEF IdentityInv, RowsOK
<1>8. \A k \in DOMAIN rows.sessions :
          /\ rows'.sessions[k].revoked = rows.sessions[k].revoked
          /\ rows'.sessions[k].parent = rows.sessions[k].parent
  BY <1>5 DEF IdentityInv, RowsOK
<1>9. \A k \in DOMAIN rows.resets :
          rows'.resets[k].user = rows.resets[k].user /\ rows'.resets[k].used = rows.resets[k].used
  BY <1>5 DEF IdentityInv, RowsOK
<1>10. DOMAIN rows'.sessions = DOMAIN rows.sessions /\ DOMAIN rows'.resets = DOMAIN rows.resets
  BY <1>3 DEF IdentityInv, RowsOK
<1>11. ParentsRevoked' /\ RotatedOnce'
  BY <1>8, <1>10 DEF IdentityInv, ParentsRevoked, RotatedOnce
<1>12. ASSUME NEW r \in Session
       PROVE  UnitOK(work[r].locks, work[r].todo, rows')
  BY <1>8, <1>9, <1>10, UnitStands DEF IdentityInv, WorkOK
<1>13. WorkOK'
  BY <1>1, <1>12 DEF IdentityInv, WorkOK
<1> QED BY <1>7, <1>11, <1>13 DEF IdentityInv

-----------------------------------------------------------------------------
(***************************************************************************)
(* A commit.  What is sent is allowed, and the tables after it are those   *)
(* of RowsOK.                                                              *)
(***************************************************************************)
LEMMA SentOK ==
    ASSUME IdentityInv, NEW s \in Session, Commit(s)
    PROVE  /\ TransactionOK(work[s].locks, Sent(s), rows)
           /\ Sequence(Sent(s))
           /\ Sequence(Tail(work[s].todo))
           /\ \A k \in DOMAIN Tail(work[s].todo) :
                  TransactionOK({}, Tail(work[s].todo)[k], rows)
<1> DEFINE todo == work[s].todo
           rest == Tail(todo)
<1>1. UnitOK(work[s].locks, todo, rows) /\ todo # <<>> /\ Sequence(todo)
  BY DEF IdentityInv, WorkOK, UnitOK, Commit
<1>2. /\ Sequence(rest) /\ 1 \in DOMAIN todo /\ Head(todo) = todo[1]
      /\ \A k \in DOMAIN rest : k \in Nat /\ k + 1 \in DOMAIN todo /\ rest[k] = todo[k + 1]
  BY <1>1, TailFacts
<1>3. \A k \in DOMAIN rest : k # 0
  BY <1>2, SequenceFacts
<1>4. TransactionOK(work[s].locks, Sent(s), rows)
  BY <1>1, <1>2 DEF Sent, UnitOK
<1>5. ASSUME NEW k \in DOMAIN rest PROVE TransactionOK({}, rest[k], rows)
  <2>1. k + 1 # 1 /\ k + 1 \in DOMAIN todo /\ rest[k] = todo[k + 1]
    BY <1>2, <1>3
  <2> QED BY <1>1, <2>1 DEF UnitOK
<1> QED BY <1>2, <1>4, <1>5 DEF TransactionOK

\* What a commit makes of the sessions: one is revoked or as it was, and the
\* one that may be new follows a session that was not revoked and now is.
LEMMA SessionsCommitted ==
    ASSUME IdentityInv, NEW s \in Session, Commit(s)
    PROVE  /\ Sequence(rows'.sessions)
           /\ \A k \in DOMAIN rows.sessions :
                 /\ k \in DOMAIN rows'.sessions
                 /\ DOMAIN rows'.sessions[k] = DOMAIN rows.sessions[k]
                 /\ rows'.sessions[k].parent = rows.sessions[k].parent
                 /\ \/ rows'.sessions[k].revoked = TRUE
                    \/ rows'.sessions[k].revoked = rows.sessions[k].revoked
           /\ \A k \in DOMAIN rows'.sessions \ DOMAIN rows.sessions :
                 /\ {"revoked", "parent"} \subseteq DOMAIN rows'.sessions[k]
                 /\ rows'.sessions[k].revoked = FALSE
                 /\ LET p == rows'.sessions[k].parent IN p # None =>
                       /\ p \in DOMAIN rows.sessions
                       /\ ~rows.sessions[p].revoked /\ rows'.sessions[p].revoked
           /\ \A j, k \in DOMAIN rows'.sessions \ DOMAIN rows.sessions : j = k
<1> DEFINE tr == Sent(s)
           locks == work[s].locks
<1>1. SessionsOK(locks, tr, rows) /\ Sequence(tr)
  BY SentOK DEF TransactionOK
<1>2. "sessions" \in DOMAIN rows /\ Sequence(rows.sessions)
  BY DEF IdentityInv, RowsOK
<1>3. /\ Sequence(rows'["sessions"])
      /\ \A i \in DOMAIN rows["sessions"] :
            i \in DOMAIN rows'["sessions"] /\ rows'["sessions"][i] = Updated(s, "sessions", i)
  BY <1>1, <1>2, CommitFacts
<1>4. PICK from :
        /\ \A i \in DOMAIN rows'["sessions"] \ DOMAIN rows["sessions"] :
              from[i] \in InsertsInto(s, "sessions") /\ rows'["sessions"][i] = NewRow(s, from[i])
        /\ \A i, j \in DOMAIN rows'["sessions"] \ DOMAIN rows["sessions"] : from[i] = from[j] => i = j
  BY <1>1, <1>2, CommitFacts
<1>5. ASSUME NEW k \in DOMAIN rows.sessions
      PROVE  /\ k \in DOMAIN rows'.sessions
             /\ DOMAIN rows'.sessions[k] = DOMAIN rows.sessions[k]
             /\ rows'.sessions[k].parent = rows.sessions[k].parent
             /\ \/ rows'.sessions[k].revoked = TRUE
                \/ rows'.sessions[k].revoked = rows.sessions[k].revoked
             /\ Sets(tr, "sessions", k, "revoked") => rows'.sessions[k].revoked = TRUE
  <2>1. k # 0 /\ {"revoked", "parent"} \subseteq DOMAIN rows.sessions[k]
    BY <1>2, RowNumbers DEF IdentityInv, RowsOK
  <2>2. \A j \in DOMAIN tr : tr[j].table = "sessions" /\ tr[j].id = k => Marks(tr[j], "revoked")
    BY <1>1, <2>1 DEF SessionsOK
  <2>3. DOMAIN Updated(s, "sessions", k) = DOMAIN rows.sessions[k]
    BY UpdatedFacts
  <2>4. Updated(s, "sessions", k)["parent"] = rows.sessions[k]["parent"]
    BY <2>1, <2>2, UpdatedFacts DEF Marks
  <2>5. /\ \/ Updated(s, "sessions", k)["revoked"] = TRUE
           \/ Updated(s, "sessions", k)["revoked"] = rows.sessions[k]["revoked"]
        /\ Sets(tr, "sessions", k, "revoked") => Updated(s, "sessions", k)["revoked"] = TRUE
    BY <2>1, <2>2, UpdatedFacts DEF Marks, Sets
  <2> QED BY <1>3, <2>3, <2>4, <2>5
<1>6. ASSUME NEW k \in DOMAIN rows'.sessions \ DOMAIN rows.sessions
      PROVE  /\ {"revoked", "parent"} \subseteq DOMAIN rows'.sessions[k]
             /\ rows'.sessions[k].revoked = FALSE
             /\ LET p == rows'.sessions[k].parent IN p # None =>
                   /\ p \in DOMAIN rows.sessions
                   /\ ~rows.sessions[p].revoked /\ rows'.sessions[p].revoked
             /\ from[k] \in DOMAIN tr /\ tr[from[k]].table = "sessions" /\ tr[from[k]].id = 0
  <2> DEFINE j == from[k]
  <2>1. /\ j \in DOMAIN tr /\ tr[j].table = "sessions" /\ tr[j].id = 0
        /\ rows'.sessions[k] = NewRow(s, j)
    BY <1>4 DEF InsertsInto
  <2> HIDE DEF j
  <2>2. /\ {"revoked", "parent"} \subseteq DOMAIN tr[j].columns
        /\ tr[j].columns.revoked = FALSE
        /\ DOMAIN tr[j].refers = {}
        /\ tr[j].columns.parent # None =>
              /\ tr[j].columns.parent \in DOMAIN rows.sessions
              /\ ~rows.sessions[tr[j].columns.parent].revoked
              /\ Sets(tr, "sessions", tr[j].columns.parent, "revoked")
    BY <1>1, <2>1 DEF SessionsOK
  <2>3. /\ DOMAIN NewRow(s, j) = DOMAIN tr[j].columns
        /\ \A c \in DOMAIN tr[j].columns : NewRow(s, j)[c] = tr[j].columns[c]
    BY <2>2 DEF NewRow
  <2>4. /\ rows'.sessions[k].revoked = tr[j].columns.revoked
        /\ rows'.sessions[k].parent = tr[j].columns.parent
    BY <2>1, <2>2, <2>3
  <2> QED BY <1>5, <2>1, <2>2, <2>3, <2>4 DEF j
<1>7. ASSUME NEW j \in DOMAIN rows'.sessions \ DOMAIN rows.sessions,
             NEW k \in DOMAIN rows'.sessions \ DOMAIN rows.sessions
      PROVE  j = k
  <2>1. from[j] = from[k]
    BY <1>1, <1>6 DEF SessionsOK
  <2> QED BY <1>4, <2>1
<1> QED BY <1>3, <1>5, <1>6, <1>7

\* And of the resets: one is used or as it was, and a new one is not used.
LEMMA ResetsCommitted ==
    ASSUME IdentityInv, NEW s \in Session, Commit(s)
    PROVE  /\ Sequence(rows'.resets)
           /\ \A k \in DOMAIN rows.resets :
                 /\ k \in DOMAIN rows'.resets
                 /\ DOMAIN rows'.resets[k] = DOMAIN rows.resets[k]
                 /\ rows'.resets[k].user = rows.resets[k].user
                 /\ \/ rows'.resets[k].used = TRUE
                    \/ rows'.resets[k].used = rows.resets[k].used
                 /\ Sets(Sent(s), "resets", k, "used") => rows'.resets[k].used = TRUE
           /\ \A k \in DOMAIN rows'.resets \ DOMAIN rows.resets :
                 /\ {"user", "used"} \subseteq DOMAIN rows'.resets[k]
                 /\ rows'.resets[k].user # 0 /\ rows'.resets[k].used = FALSE
<1> DEFINE tr == Sent(s)
<1>1. ResetsOK(tr) /\ Sequence(tr)
  BY SentOK DEF TransactionOK
<1>2. "resets" \in DOMAIN rows /\ Sequence(rows.resets)
  BY DEF IdentityInv, RowsOK
<1>3. /\ Sequence(rows'["resets"])
      /\ \A i \in DOMAIN rows["resets"] :
            i \in DOMAIN rows'["resets"] /\ rows'["resets"][i] = Updated(s, "resets", i)
  BY <1>1, <1>2, CommitFacts
<1>4. PICK from : \A i \in DOMAIN rows'["resets"] \ DOMAIN rows["resets"] :
          from[i] \in InsertsInto(s, "resets") /\ rows'["resets"][i] = NewRow(s, from[i])
  BY <1>1, <1>2, CommitFacts
<1>5. ASSUME NEW k \in DOMAIN rows.resets
      PROVE  /\ k \in DOMAIN rows'.resets
             /\ DOMAIN rows'.resets[k] = DOMAIN rows.resets[k]
             /\ rows'.resets[k].user = rows.resets[k].user
             /\ \/ rows'.resets[k].used = TRUE
                \/ rows'.resets[k].used = rows.resets[k].used
             /\ Sets(tr, "resets", k, "used") => rows'.resets[k].used = TRUE
  <2>1. k # 0 /\ {"user", "used"} \subseteq DOMAIN rows.resets[k]
    BY <1>2, RowNumbers DEF IdentityInv, RowsOK
  <2>2. \A j \in DOMAIN tr : tr[j].table = "resets" /\ tr[j].id = k => Marks(tr[j], "used")
    BY <1>1, <2>1 DEF ResetsOK
  <2>3. DOMAIN Updated(s, "resets", k) = DOMAIN rows.resets[k]
    BY UpdatedFacts
  <2>4. Updated(s, "resets", k)["user"] = rows.resets[k]["user"]
    BY <2>1, <2>2, UpdatedFacts DEF Marks
  <2>5. /\ \/ Updated(s, "resets", k)["used"] = TRUE
           \/ Updated(s, "resets", k)["used"] = rows.resets[k]["used"]
        /\ Sets(tr, "resets", k, "used") => Updated(s, "resets", k)["used"] = TRUE
    BY <2>1, <2>2, UpdatedFacts DEF Marks, Sets
  <2> QED BY <1>3, <2>3, <2>4, <2>5
<1>6. ASSUME NEW k \in DOMAIN rows'.resets \ DOMAIN rows.resets
      PROVE  /\ {"user", "used"} \subseteq DOMAIN rows'.resets[k]
             /\ rows'.resets[k].user # 0 /\ rows'.resets[k].used = FALSE
  <2> DEFINE j == from[k]
  <2>1. /\ j \in DOMAIN tr /\ tr[j].table = "resets" /\ tr[j].id = 0
        /\ rows'.resets[k] = NewRow(s, j)
    BY <1>4 DEF InsertsInto
  <2> HIDE DEF j
  <2>2. /\ {"user", "used"} \subseteq DOMAIN tr[j].columns
        /\ tr[j].columns.user # 0 /\ tr[j].columns.used = FALSE
        /\ DOMAIN tr[j].refers = {}
    BY <1>1, <2>1 DEF ResetsOK
  <2>3. /\ DOMAIN NewRow(s, j) = DOMAIN tr[j].columns
        /\ \A c \in DOMAIN tr[j].columns : NewRow(s, j)[c] = tr[j].columns[c]
    BY <2>2 DEF NewRow
  <2> QED BY <2>1, <2>2, <2>3
<1> QED BY <1>3, <1>5, <1>6

\* And of the accounts: they keep a password, and one whose password changes
\* has a reset that was not used and now is.
LEMMA UsersCommitted ==
    ASSUME IdentityInv, NEW s \in Session, Commit(s)
    PROVE  /\ \A u \in DOMAIN rows'.users : "password" \in DOMAIN rows'.users[u]
           /\ \A u \in DOMAIN rows.users :
                 rows'.users[u].password # rows.users[u].password =>
                     \E t \in DOMAIN rows.resets :
                        rows.resets[t].user = u /\ ~rows.resets[t].used /\ rows'.resets[t].used
<1> DEFINE tr == Sent(s)
<1>1. UsersOK(work[s].locks, tr, rows) /\ Sequence(tr)
  BY SentOK DEF TransactionOK
<1>2. "users" \in DOMAIN rows /\ Sequence(rows.users)
  BY DEF IdentityInv, RowsOK
<1>3. \A i \in DOMAIN rows["users"] :
          i \in DOMAIN rows'["users"] /\ rows'["users"][i] = Updated(s, "users", i)
  BY <1>1, <1>2, CommitFacts
<1>4. PICK from : \A i \in DOMAIN rows'["users"] \ DOMAIN rows["users"] :
          from[i] \in InsertsInto(s, "users") /\ rows'["users"][i] = NewRow(s, from[i])
  BY <1>1, <1>2, CommitFacts
<1>5. ASSUME NEW u \in DOMAIN rows.users
      PROVE  /\ "password" \in DOMAIN rows'.users[u]
             /\ rows'.users[u].password # rows.users[u].password =>
                   \E t \in DOMAIN rows.resets :
                      rows.resets[t].user = u /\ ~rows.resets[t].used /\ rows'.resets[t].used
  <2>1. u # 0 /\ "password" \in DOMAIN rows.users[u]
    BY <1>2, RowNumbers DEF IdentityInv, RowsOK
  <2>2. rows'.users[u] = Updated(s, "users", u) /\ "password" \in DOMAIN rows'.users[u]
    BY <1>3, <2>1, UpdatedFacts
  <2>3. ASSUME rows'.users[u].password # rows.users[u].password
        PROVE  \E t \in DOMAIN rows.resets :
                  rows.resets[t].user = u /\ ~rows.resets[t].used /\ rows'.resets[t].used
    <3>1. PICK j \in DOMAIN tr :
              tr[j].table = "users" /\ tr[j].id = u /\ "password" \in DOMAIN tr[j].columns
      BY <2>1, <2>2, <2>3, UpdatedFacts
    <3>2. PICK t \in DOMAIN rows.resets :
              rows.resets[t].user = u /\ ~rows.resets[t].used /\ Sets(tr, "resets", t, "used")
      BY <1>1, <2>1, <3>1 DEF UsersOK
    <3> QED BY <3>2, ResetsCommitted
  <2> QED BY <2>2, <2>3
<1>6. ASSUME NEW u \in DOMAIN rows'.users \ DOMAIN rows.users
      PROVE  "password" \in DOMAIN rows'.users[u]
  <2> DEFINE j == from[u]
  <2>1. /\ j \in DOMAIN tr /\ tr[j].table = "users" /\ tr[j].id = 0
        /\ rows'.users[u] = NewRow(s, j)
    BY <1>4 DEF InsertsInto
  <2> HIDE DEF j
  <2> QED BY <1>1, <2>1 DEF UsersOK, NewRow
<1> QED BY <1>5, <1>6

\* What is sent is allowed, what others hold stands, and the rest holds nothing.
LEMMA CommitKeeps ==
    ASSUME IdentityInv, NEW s \in Session, Commit(s)
    PROVE  IdentityInv'
<1>1. work' = [work EXCEPT ![s] = [locks |-> {}, todo |-> Tail(work[s].todo)]]
  BY DEF Commit
<1> DEFINE old == DOMAIN rows.sessions
           new == DOMAIN rows'.sessions \ DOMAIN rows.sessions
<1>2. \A k \in old :
          /\ k \in DOMAIN rows'.sessions
          /\ DOMAIN rows'.sessions[k] = DOMAIN rows.sessions[k]
          /\ rows'.sessions[k].parent = rows.sessions[k].parent
          /\ \/ rows'.sessions[k].revoked = TRUE
             \/ rows'.sessions[k].revoked = rows.sessions[k].revoked
  BY SessionsCommitted
<1>3. \A k \in new :
          /\ {"revoked", "parent"} \subseteq DOMAIN rows'.sessions[k]
          /\ rows'.sessions[k].revoked = FALSE
          /\ rows'.sessions[k].parent # None =>
                /\ rows'.sessions[k].parent \in old
                /\ ~rows.sessions[rows'.sessions[k].parent].revoked
                /\ rows'.sessions[rows'.sessions[k].parent].revoked
  BY SessionsCommitted
<1>4. \A j, k \in new : j = k
  BY SessionsCommitted
<1>5. \A k \in old :
          /\ {"revoked", "parent"} \subseteq DOMAIN rows.sessions[k]
          /\ rows.sessions[k].revoked \in BOOLEAN
          /\ rows.sessions[k].parent # None =>
                rows.sessions[k].parent \in old /\ rows.sessions[rows.sessions[k].parent].revoked
  BY DEF IdentityInv, RowsOK, ParentsRevoked
<1>6. RowsOK'
  <2>1. DOMAIN rows' = DOMAIN rows /\ \A t \in DOMAIN rows : Sequence(rows'[t])
    BY SentOK, CommitFacts DEF IdentityInv, RowsOK
  <2>2. \A k \in DOMAIN rows'.sessions :
            /\ {"revoked", "parent"} \subseteq DOMAIN rows'.sessions[k]
            /\ rows'.sessions[k].revoked \in BOOLEAN
    <3> TAKE k \in DOMAIN rows'.sessions
    <3>1. CASE k \in old
      <4>1. {"revoked", "parent"} \subseteq DOMAIN rows'.sessions[k]
        BY <1>2, <1>5, <3>1
      <4>2. rows'.sessions[k].revoked \in BOOLEAN
        <5>1. rows.sessions[k].revoked \in BOOLEAN
          BY <1>5, <3>1
        <5>2. CASE rows'.sessions[k].revoked = TRUE
          BY <5>2
        <5>3. CASE rows'.sessions[k].revoked = rows.sessions[k].revoked
          BY <5>1, <5>3
        <5> QED BY <1>2, <3>1, <5>2, <5>3
      <4> QED BY <4>1, <4>2
    <3>2. CASE k \in new
      BY <1>3, <3>2
    <3> QED BY <3>1, <3>2
  <2>3. \A k \in DOMAIN rows'.resets :
            /\ {"user", "used"} \subseteq DOMAIN rows'.resets[k]
            /\ rows'.resets[k].user # 0 /\ rows'.resets[k].used \in BOOLEAN
    BY ResetsCommitted DEF IdentityInv, RowsOK
  <2> QED BY <2>1, <2>2, <2>3, UsersCommitted DEF IdentityInv, RowsOK
<1>7. ParentsRevoked'
  <2> SUFFICES ASSUME NEW k \in DOMAIN rows'.sessions, rows'.sessions[k].parent # None
               PROVE  /\ rows'.sessions[k].parent \in DOMAIN rows'.sessions
                      /\ rows'.sessions[rows'.sessions[k].parent].revoked
    BY DEF ParentsRevoked
  <2>1. CASE k \in old
    BY <1>2, <1>5, <2>1
  <2>2. CASE k \in new
    BY <1>2, <1>3, <2>2
  <2> QED BY <2>1, <2>2
<1>8. RotatedOnce'
  <2> SUFFICES ASSUME NEW j \in DOMAIN rows'.sessions, NEW k \in DOMAIN rows'.sessions,
                      j # k, rows'.sessions[j].parent # None,
                      rows'.sessions[j].parent = rows'.sessions[k].parent
               PROVE  FALSE
    BY DEF RotatedOnce
  <2>1. CASE j \in old /\ k \in old
    BY <1>2, <2>1 DEF IdentityInv, RotatedOnce
  <2>2. CASE j \in old /\ k \in new
    BY <1>2, <1>3, <1>5, <2>2
  <2>3. CASE j \in new /\ k \in old
    BY <1>2, <1>3, <1>5, <2>3
  <2>4. CASE j \in new /\ k \in new
    BY <1>4, <2>4
  <2> QED BY <2>1, <2>2, <2>3, <2>4
<1>9. ASSUME NEW r \in Session
      PROVE  UnitOK(work'[r].locks, work'[r].todo, rows')
  <2>1. CASE r = s
    <3>1. work'[r].locks = {} /\ work'[r].todo = Tail(work[s].todo)
      BY <1>1, <2>1 DEF IdentityInv, WorkOK
    <3>2. UnitOK({}, Tail(work[s].todo), rows)
      BY SentOK DEF UnitOK
    <3>3. UnitOK({}, Tail(work[s].todo), rows')
      BY <3>2, UnitStands
    <3> QED BY <3>1, <3>3
  <2>2. CASE r # s
    <3>1. work'[r] = work[r] /\ UnitOK(work[r].locks, work[r].todo, rows)
      BY <1>1, <2>2 DEF IdentityInv, WorkOK
    <3>2. ASSUME NEW p \in DOMAIN rows.sessions, <<"sessions", p>> \in work[r].locks
          PROVE  p \in DOMAIN rows'.sessions /\ rows'.sessions[p].revoked = rows.sessions[p].revoked
      <4>1. rows'["sessions"][p]["revoked"] = rows["sessions"][p]["revoked"]
        BY <2>2, <3>2, SentOK, LockedRowStands DEF IdentityInv, RowsOK
      <4> QED BY <4>1, SessionsCommitted
    <3>3. ASSUME NEW t \in DOMAIN rows.resets, <<"resets", t>> \in work[r].locks
          PROVE  /\ t \in DOMAIN rows'.resets
                 /\ rows'.resets[t].user = rows.resets[t].user
                 /\ rows'.resets[t].used = rows.resets[t].used
      <4>1. rows'["resets"][t]["used"] = rows["resets"][t]["used"]
        BY <2>2, <3>3, SentOK, LockedRowStands DEF IdentityInv, RowsOK
      <4> QED BY <4>1, ResetsCommitted
    <3> QED BY <3>1, <3>2, <3>3, UnitStands
  <2> QED BY <2>1, <2>2
<1>10. WorkOK'
  BY <1>1, <1>9 DEF IdentityInv, WorkOK
<1> QED BY <1>6, <1>7, <1>8, <1>10 DEF IdentityInv

-----------------------------------------------------------------------------
\* The invariant is inductive.
LEMMA NextKeeps == IdentityInv /\ [Next]_<<rows, work, served>> => IdentityInv'
<1> SUFFICES ASSUME IdentityInv, [Next]_<<rows, work, served>> PROVE IdentityInv'
  OBVIOUS
<1>1. CASE UNCHANGED <<rows, work, served>>
  BY <1>1 DEF IdentityInv, RowsOK, ParentsRevoked, RotatedOnce, WorkOK
<1>2. CASE Lapse
  BY <1>2, LapseKeeps
<1>3. ASSUME NEW s \in Session, Bootstrap(s) \/ CreateUser(s) PROVE IdentityInv'
  BY <1>3, BootstrapKeeps, CreateUserKeeps
<1>4. ASSUME NEW s \in Session, UpdateUser(s) \/ DeleteUser(s) PROVE IdentityInv'
  BY <1>4, UpdateUserKeeps
<1>5. ASSUME NEW s \in Session, Login(s) \/ Refresh(s) \/ Logout(s) PROVE IdentityInv'
  BY <1>5, LoginKeeps, RefreshKeeps, LogoutKeeps
<1>6. ASSUME NEW s \in Session, ForgotPassword(s) \/ ResetPassword(s) PROVE IdentityInv'
  BY <1>6, ForgotPasswordKeeps, ResetPasswordKeeps
<1>7. ASSUME NEW s \in Session, Commit(s) \/ Abort(s) PROVE IdentityInv'
  BY <1>7, CommitKeeps, AbortKeeps
<1> QED BY <1>1, <1>2, <1>3, <1>4, <1>5, <1>6, <1>7 DEF Next

\* Only a commit changes a password, and it is allowed by a reset that it uses up.
LEMMA NextSpends == IdentityInv /\ [Next]_<<rows, work, served>> => ResetSpendsToken
<1> SUFFICES ASSUME IdentityInv, [Next]_<<rows, work, served>> PROVE ResetSpendsToken
  OBVIOUS
<1>1. CASE UNCHANGED rows
  BY <1>1 DEF ResetSpendsToken
<1>2. CASE Lapse
  <2>1. PICK t \in {"sessions", "resets"} : \E i : rows' = [rows EXCEPT ![t][i].expired = TRUE]
    BY <1>2, Zenon DEF Lapse
  <2>2. rows'.users = rows.users
    BY <2>1
  <2> QED BY <2>2 DEF ResetSpendsToken
<1>3. ASSUME NEW s \in Session, Commit(s) PROVE ResetSpendsToken
  BY <1>3, UsersCommitted DEF ResetSpendsToken
<1>4. ASSUME NEW s \in Session,
             \/ Bootstrap(s) \/ CreateUser(s) \/ UpdateUser(s) \/ DeleteUser(s)
             \/ Login(s) \/ Refresh(s) \/ Logout(s) \/ ForgotPassword(s) \/ ResetPassword(s)
             \/ Abort(s)
      PROVE  UNCHANGED rows
  BY <1>4, Zenon DEF Bootstrap, CreateUser, UpdateUser, DeleteUser, Login, Refresh, Logout,
              ForgotPassword, ResetPassword, Abort, Request, RequestLocked, RequestAll
<1> QED BY <1>1, <1>2, <1>3, <1>4 DEF Next

-----------------------------------------------------------------------------
(***************************************************************************)
(* However many requests present one refresh token at once, and whatever   *)
(* else is going on, a single session follows it.                          *)
(***************************************************************************)
THEOREM RefreshTokensRotateOnce == Spec => []RotatedOnce
<1>1. IdentityInv => RotatedOnce
  BY DEF IdentityInv
<1> QED BY <1>1, InitOK, NextKeeps, PTL DEF Spec

(***************************************************************************)
(* A password is changed only with a reset token that had not been used,   *)
(* and the change uses it up: two requests cannot both spend it.           *)
(***************************************************************************)
THEOREM ResetTokensAreSpent == Spec => [][ResetSpendsToken]_<<rows, work, served>>
<1>1. Spec => []IdentityInv
  BY InitOK, NextKeeps, PTL DEF Spec
<1> QED BY <1>1, NextSpends, PTL DEF Spec
=============================================================================
