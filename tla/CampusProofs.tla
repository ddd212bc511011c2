------------------------------ MODULE CampusProofs ------------------------------
(***************************************************************************)
(* What the desks keep when requests overlap, for any number of them.      *)
(***************************************************************************)
EXTENDS MCCampus, UnitOfWorkProofs

\* The desk of identity, with the theorems about it.
Tokens == INSTANCE IdentityProofs WITH MaxRequests <- Fewer, Email <- Person,
              Password <- {1, 2}

-----------------------------------------------------------------------------
(***************************************************************************)
(* Refresh and reset tokens: the theorems about Identity hold at its desk. *)
(***************************************************************************)

\* The desk of identity is the component that IdentityProofs is about.
LEMMA TokensStart == Identity!Init => Tokens!Init
BY Zenon DEF Identity!Init, Tokens!Init, Identity!Start, Tokens!Start, Identity!Untouched,
       Tokens!Untouched, Identity!Account, Tokens!Account, Identity!SignedIn, Tokens!SignedIn

\* Its steps are the same.
LEMMA TokensStep == Identity!Next => Tokens!Next
BY Zenon DEF Identity!Next, Tokens!Next, Identity!Lapse, Tokens!Lapse,
       Identity!Bootstrap, Tokens!Bootstrap, Identity!CreateUser, Tokens!CreateUser,
       Identity!UpdateUser, Tokens!UpdateUser, Identity!DeleteUser, Tokens!DeleteUser,
       Identity!Login, Tokens!Login, Identity!Refresh, Tokens!Refresh,
       Identity!Logout, Tokens!Logout, Identity!ForgotPassword, Tokens!ForgotPassword,
       Identity!ResetPassword, Tokens!ResetPassword, Identity!TokenLock, Tokens!TokenLock,
       Identity!RotationLock, Tokens!RotationLock, Identity!ActiveSessions, Tokens!ActiveSessions,
       Identity!is_platform_bootstrapped, Tokens!is_platform_bootstrapped,
       Identity!exists_by_email, Tokens!exists_by_email,
       Identity!MarkCompleted, Tokens!MarkCompleted, Identity!Account, Tokens!Account,
       Identity!SignedIn, Tokens!SignedIn, Identity!Usable, Tokens!Usable,
       Identity!Integrity, Tokens!Integrity, Identity!Unique, Tokens!Unique,
       Identity!Live, Tokens!Live, Identity!Idle, Tokens!Idle,
       Identity!Untouched, Tokens!Untouched, Identity!Changed, Tokens!Changed,
       Identity!Update, Tokens!Update, Identity!UpdateEach, Tokens!UpdateEach,
       Identity!Insert, Tokens!Insert, Identity!Listed, Tokens!Listed,
       Identity!Cardinality, Tokens!Cardinality,
       Identity!Held, Tokens!Held, Identity!Sent, Tokens!Sent,
       Identity!RequestAll, Tokens!RequestAll, Identity!Request, Tokens!Request,
       Identity!RequestLocked, Tokens!RequestLocked, Identity!Updated, Tokens!Updated,
       Identity!Inserted, Tokens!Inserted, Identity!Commit, Tokens!Commit,
       Identity!Abort, Tokens!Abort
\* At the desk of identity, the invariant of IdentityProofs holds.
TokensOK == desk = "identity" => Tokens!IdentityInv

\* Every step at that desk is a step of Identity, or none.
LEMMA TokensNext == [Next]_vars /\ desk = "identity" => [Tokens!Next]_<<rows, work, served>>
BY TokensStep DEF Next, vars

(***************************************************************************)
(* However many requests present one refresh token or one reset token at   *)
(* once, a single session follows the one, and the other changes a single  *)
(* password.                                                               *)
(***************************************************************************)
THEOREM TokensAreSpentOnce == Spec => TokensSpentOnce
<1>1. Init => TokensOK
  BY TokensStart, Tokens!InitOK DEF Init, TokensOK
<1>2. TokensOK /\ [Next]_vars => TokensOK'
  <2> SUFFICES ASSUME TokensOK, [Next]_vars, desk' = "identity" PROVE Tokens!IdentityInv'
    BY DEF TokensOK
  <2>1. desk = "identity"
    BY DEF Next, vars
  <2> QED BY <2>1, TokensNext, Tokens!NextKeeps DEF TokensOK
<1>3. TokensOK /\ TokensOK' /\ [Next]_vars =>
          [desk = "identity" => Identity!RotatedOnce' /\ Identity!ResetSpendsToken]_vars
  <2> SUFFICES ASSUME TokensOK, TokensOK', [Next]_vars, desk = "identity"
               PROVE  \/ Identity!RotatedOnce' /\ Identity!ResetSpendsToken
                      \/ UNCHANGED vars
    OBVIOUS
  <2>1. CASE UNCHANGED vars
    BY <2>1
  <2>2. CASE Next
    <3>1. desk' = "identity"
      BY <2>2 DEF Next
    <3>2. Identity!RotatedOnce'
      BY <3>1 DEF TokensOK, Tokens!IdentityInv, Tokens!RotatedOnce, Identity!RotatedOnce
    <3>3. Identity!ResetSpendsToken
      BY TokensNext, Tokens!NextSpends
         DEF TokensOK, Tokens!ResetSpendsToken, Identity!ResetSpendsToken
    <3> QED BY <3>2, <3>3
  <2> QED BY <2>1, <2>2
<1> QED BY <1>1, <1>2, <1>3, PTL DEF Spec, TokensSpentOnce

-----------------------------------------------------------------------------
(***************************************************************************)
(* Applications.  A request edits something else, files an application     *)
(* with the first row of its history, or moves one whose row it has        *)
(* locked, from the status it has read.                                    *)
(***************************************************************************)
OnRecord == {"applications", "history", "decisions"}

Edits(q) == \A k \in DOMAIN q : q[k].table \notin OnRecord

Files(q) == \E new :
    /\ "status" \in DOMAIN new
    /\ q = <<Admissions!Insert("applications", new),
             Admissions!InsertFor("history",
                 [application |-> 0, old |-> None, new |-> new.status],
                 "application", "applications")>>

\* The status is sent if it changes.  What is not a decision begins at a draft,
\* opens a review or withdraws.
MovesOn(q, p, from, to) ==
    /\ {1, 2} \subseteq DOMAIN q /\ DOMAIN q \subseteq {1, 2, 3}
    /\ q[1].table = "applications" /\ q[1].id = p
    /\ DOMAIN q[1].columns = IF from = to THEN {} ELSE {"status"}
    /\ from # to => q[1].columns.status = to
    /\ q[2] = Admissions!Insert("history", [application |-> p, old |-> from, new |-> to])
    /\ IF 3 \in DOMAIN q
       THEN /\ to \in Admissions!Decisions
            /\ q[3] = Admissions!Insert("decisions", [application |-> p, decision |-> to])
       ELSE from = "DRAFT" \/ to \in {"UNDER_REVIEW", "WITHDRAWN"}

Sending(applications, locks, q) ==
    \/ Edits(q) \/ Files(q)
    \/ \E p \in DOMAIN applications :
          /\ <<"applications", p>> \in locks
          /\ \E to : MovesOn(q, p, applications[p].status, to)

RecordsOK ==
    /\ OnRecord \subseteq DOMAIN rows
    /\ \A p \in DOMAIN rows.applications : "status" \in DOMAIN rows.applications[p]
    /\ \A h \in DOMAIN rows.history :
          /\ {"application", "old", "new"} \subseteq DOMAIN rows.history[h]
          /\ rows.history[h].application \in DOMAIN rows.applications
    /\ \A d \in DOMAIN rows.decisions :
          /\ {"application", "decision"} \subseteq DOMAIN rows.decisions[d]
          /\ rows.decisions[d].application \in DOMAIN rows.applications
          /\ rows.decisions[d].decision \in Admissions!Decisions

AdmissionsInv ==
    /\ WellFormed /\ RecordsOK
    /\ Admissions!OneActive /\ Admissions!HistoryUnbroken /\ Admissions!DecisionStands
    /\ \A s \in Session :
          \/ work[s].todo = <<>>
          \/ \E q : work[s].todo = <<q>> /\ Sending(rows.applications, work[s].locks, q)
    /\ \A r, s \in Session : r # s => work[r].locks \cap work[s].locks = {}

\* What an application has gone through, at the start and as long as nothing changes.
LEMMA RecordsStand ==
    ASSUME AdmissionsInv, rows' = rows
    PROVE  /\ RecordsOK' /\ Admissions!OneActive'
           /\ Admissions!HistoryUnbroken' /\ Admissions!DecisionStands'
BY DEF AdmissionsInv, RecordsOK, Admissions!OneActive, Admissions!Unique,
       Admissions!HistoryUnbroken, Admissions!DecisionStands, Admissions!About, Admissions!After

\* A handler that leaves such statements keeps the invariant.
LEMMA AdmissionsRequest ==
    ASSUME AdmissionsInv, NEW s \in Session, NEW locks, NEW q,
           Admissions!RequestAll(s, locks, <<q>>), Sequence(q),
           Sending(rows.applications, locks, q)
    PROVE  AdmissionsInv'
<1>1. /\ rows' = rows /\ locks \cap Held(s) = {}
      /\ work' = [work EXCEPT ![s] = [locks |-> locks, todo |-> <<q>>]]
  BY DEF Admissions!RequestAll, Admissions!Held, Held
<1>2. WellFormed'
  BY <1>1, OneTransaction, RequestWellFormed DEF AdmissionsInv
<1>3. \A r \in Session : work'[r] = IF r = s THEN [locks |-> locks, todo |-> <<q>>] ELSE work[r]
  BY <1>1 DEF AdmissionsInv, WellFormed
<1>5. \A r \in Session :
          \/ work'[r].todo = <<>>
          \/ \E p : work'[r].todo = <<p>> /\ Sending(rows'.applications, work'[r].locks, p)
  BY <1>1, <1>3 DEF AdmissionsInv
<1>6. \A r, t \in Session : r # t => work'[r].locks \cap work'[t].locks = {}
  <2>1. \A r \in Session : r # s => work[r].locks \cap locks = {}
    BY <1>1 DEF Held
  <2> QED BY <1>3, <2>1 DEF AdmissionsInv
<1> QED BY <1>1, <1>2, <1>5, <1>6, RecordsStand DEF AdmissionsInv

\* Requests about cycles and applicants.
LEMMA EditsKeep ==
    ASSUME AdmissionsInv, NEW s \in Session
    PROVE  /\ Admissions!CreateCycle(s) => AdmissionsInv'
           /\ Admissions!UpdateCycle(s) => AdmissionsInv'
           /\ Admissions!DeleteCycle(s) => AdmissionsInv'
           /\ Admissions!CreateApplicant(s) => AdmissionsInv'
           /\ Admissions!UpdateApplicant(s) => AdmissionsInv'
           /\ Admissions!DeleteApplicant(s) => AdmissionsInv'
<1>1. ASSUME NEW st, st.table \in {"cycles", "applicants"}, Admissions!Request(s, <<st>>)
      PROVE  AdmissionsInv'
  <2>1. Sequence(<<st>>) /\ DOMAIN <<st>> = {1} /\ <<st>>[1] = st
    BY OneElement
  <2>2. Sending(rows.applications, {}, <<st>>)
    BY <1>1, <2>1 DEF Sending, Edits, OnRecord
  <2> QED BY <1>1, <2>1, <2>2, AdmissionsRequest DEF Admissions!Request
<1>2. /\ \A t, row : Admissions!Insert(t, row).table = t
      /\ \A t, i, columns : Admissions!Update(t, i, columns).table = t
  BY DEF Admissions!Insert, Admissions!Update
<1>3. Admissions!CreateCycle(s) => AdmissionsInv'
  BY <1>1, <1>2 DEF Admissions!CreateCycle
<1>7. Admissions!UpdateCycle(s) => AdmissionsInv'
  BY <1>1, <1>2 DEF Admissions!UpdateCycle
<1>8. Admissions!DeleteCycle(s) => AdmissionsInv'
  BY <1>1, <1>2 DEF Admissions!DeleteCycle
<1>4. Admissions!CreateApplicant(s) => AdmissionsInv'
  BY <1>1, <1>2 DEF Admissions!CreateApplicant
<1>5. Admissions!UpdateApplicant(s) => AdmissionsInv'
  BY <1>1, <1>2 DEF Admissions!UpdateApplicant
<1>6. Admissions!DeleteApplicant(s) => AdmissionsInv'
  BY <1>1, <1>2 DEF Admissions!DeleteApplicant
<1> QED BY <1>3, <1>4, <1>5, <1>6, <1>7, <1>8

\* create_application.
LEMMA FilingKeeps ==
    ASSUME AdmissionsInv, NEW s \in Session, Admissions!CreateApplication(s)
    PROVE  AdmissionsInv'
<1>1. PICK a, y, c, st :
          Admissions!Request(s,
              <<Admissions!Insert("applications",
                    [applicant |-> a, cycle |-> y, code |-> c, status |-> st]),
                Admissions!InsertFor("history", [application |-> 0, old |-> None, new |-> st],
                                     "application", "applications")>>)
  BY DEF Admissions!CreateApplication
<1> DEFINE new == [applicant |-> a, cycle |-> y, code |-> c, status |-> st]
           q   == <<Admissions!Insert("applications", new),
                    Admissions!InsertFor("history", [application |-> 0, old |-> None, new |-> st],
                                         "application", "applications")>>
<1>2. "status" \in DOMAIN new /\ new.status = st
  OBVIOUS
<1> HIDE DEF new
<1>3. Files(q)
  BY <1>2 DEF Files
<1>4. Sequence(q)
  BY TwoElements
<1> HIDE DEF q
<1>5. Sending(rows.applications, {}, q)
  BY <1>3 DEF Sending
<1> QED BY <1>1, <1>4, <1>5, AdmissionsRequest DEF Admissions!Request, q, new

\* A handler that moves an application to a status, with a decision or without.
LEMMA MoveKeeps ==
    ASSUME AdmissionsInv, NEW s \in Session, NEW p \in DOMAIN rows.applications, NEW to,
           NEW more, Admissions!Move(s, p, to, more),
           \/ more = <<>> /\ (\/ rows.applications[p].status = "DRAFT"
                              \/ to \in {"UNDER_REVIEW", "WITHDRAWN"})
           \/ /\ to \in Admissions!Decisions
              /\ more = <<Admissions!Insert("decisions", [application |-> p, decision |-> to])>>
    PROVE  AdmissionsInv'
<1> DEFINE from == rows.applications[p].status
           set  == Admissions!Update("applications", p, [status |-> to])
           row  == Admissions!Insert("history", [application |-> p, old |-> from, new |-> to])
           q    == <<set, row>> \o more
<1>1. Admissions!RequestAll(s, {<<"applications", p>>}, <<q>>)
  BY DEF Admissions!Move, Admissions!RequestLocked, Admissions!LockOn
<1>2. /\ set.table = "applications" /\ set.id = p
      /\ DOMAIN set.columns = IF from = to THEN {} ELSE {"status"}
      /\ from # to => set.columns.status = to
  BY DEF Admissions!Update, Admissions!Changed
<1> HIDE DEF set, row, from
<1>3. /\ Sequence(q) /\ {1, 2} \subseteq DOMAIN q /\ q[1] = set /\ q[2] = row
      /\ DOMAIN q = IF more = <<>> THEN {1, 2} ELSE {1, 2, 3}
      /\ more # <<>> => q[3] = Admissions!Insert("decisions", [application |-> p, decision |-> to])
  <2>1. /\ Sequence(<<set, row>>) /\ Len(<<set, row>>) = 2 /\ DOMAIN <<set, row>> = {1, 2}
        /\ <<set, row>>[1] = set /\ <<set, row>>[2] = row
    BY TwoElements
  <2>2. Sequence(more) /\ Len(more) = IF more = <<>> THEN 0 ELSE 1
    BY OneElement, NoElement
  <2> DEFINE head == <<set, row>>
  <2>3. q = head \o more
    OBVIOUS
  <2> HIDE DEF head, q
  <2>4. /\ Sequence(q) /\ DOMAIN q = 1..(2 + Len(more))
        /\ \A k \in {1, 2} : k \in DOMAIN q /\ q[k] = head[k]
        /\ \A k \in DOMAIN q \ {1, 2} : q[k] = more[k - 2]
    BY <2>1, <2>2, <2>3, ConcatFacts DEF head
  <2>5. more # <<>> => more[1] = Admissions!Insert("decisions", [application |-> p, decision |-> to])
    OBVIOUS
  <2>6. DOMAIN q = IF more = <<>> THEN {1, 2} ELSE {1, 2, 3}
    <3>1. CASE more = <<>>
      <4>1. DOMAIN q = 1..2
        BY <2>2, <2>4, <3>1
      <4> QED BY <3>1, <4>1
    <3>2. CASE more # <<>>
      <4>1. DOMAIN q = 1..3
        BY <2>2, <2>4, <3>2
      <4> QED BY <3>2, <4>1
    <3> QED BY <3>1, <3>2
  <2>7. more # <<>> => q[3] = more[1]
    BY <2>4, <2>6
  <2> QED BY <2>1, <2>4, <2>5, <2>6, <2>7 DEF head
<1> HIDE DEF q
<1>4. MovesOn(q, p, from, to)
  <2>1. 3 \in DOMAIN q <=> more # <<>>
    BY <1>3
  <2> QED BY <1>2, <1>3, <2>1, EmptySequence, HasElement, OneElement, ZenonT(40)
              DEF MovesOn, from, row
<1>5. Sending(rows.applications, {<<"applications", p>>}, q)
  BY <1>4 DEF Sending, from
<1> QED BY <1>1, <1>3, <1>5, AdmissionsRequest

\* The handlers that do.
LEMMA MovesKeep ==
    ASSUME AdmissionsInv, NEW s \in Session,
           \/ Admissions!SubmitApplication(s) \/ Admissions!StartReviewApplication(s)
           \/ Admissions!RecordDecision(s) \/ Admissions!WithdrawApplication(s)
    PROVE  AdmissionsInv'
<1>1. CASE Admissions!SubmitApplication(s)
  BY <1>1, MoveKeeps DEF Admissions!SubmitApplication
<1>2. CASE Admissions!StartReviewApplication(s)
  BY <1>2, MoveKeeps DEF Admissions!StartReviewApplication
<1>3. CASE Admissions!RecordDecision(s)
  BY <1>3, MoveKeeps DEF Admissions!RecordDecision
<1>4. CASE Admissions!WithdrawApplication(s)
  BY <1>4, MoveKeeps DEF Admissions!WithdrawApplication
<1> QED BY <1>1, <1>2, <1>3, <1>4

-----------------------------------------------------------------------------
\* What one commit adds to history and decisions comes last, and what is there stays.
LEMMA RecordsStay ==
    ASSUME AdmissionsInv, NEW s \in Session, Commit(s), NEW t \in {"history", "decisions"},
           \A k \in DOMAIN Sent(s) : Sent(s)[k].table = t => Sent(s)[k].id = 0
    PROVE  \A i \in DOMAIN rows[t] :
              /\ i \in DOMAIN rows'[t] /\ DOMAIN rows'[t][i] = DOMAIN rows[t][i]
              /\ \A c \in DOMAIN rows[t][i] : rows'[t][i][c] = rows[t][i][c]
<1>1. t \in DOMAIN rows /\ WellFormed
  BY DEF AdmissionsInv, RecordsOK, OnRecord
<1>2. Sequence(rows[t])
  BY <1>1 DEF WellFormed
<1>3. \A i \in DOMAIN rows[t] : i # 0
  BY <1>2, SequenceFacts
<1> QED BY <1>1, <1>3, ColumnKept

\* An application that is filed or moved gets the row of history that leads to where
\* it is now.
LEMMA HistoryGrows ==
    ASSUME AdmissionsInv, NEW p, NEW m,
           DOMAIN rows'.applications = DOMAIN rows.applications \cup {p},
           \A x \in DOMAIN rows.applications \ {p} :
              rows'.applications[x].status = rows.applications[x].status,
           DOMAIN rows'.history = DOMAIN rows.history \cup {m},
           m \in Nat, \A h \in DOMAIN rows.history : h \in Nat /\ h < m,
           \A h \in DOMAIN rows.history :
              /\ rows'.history[h].application = rows.history[h].application
              /\ rows'.history[h].old = rows.history[h].old
              /\ rows'.history[h].new = rows.history[h].new,
           rows'.history[m].application = p,
           rows'.history[m].new = rows'.applications[p].status,
           p \in DOMAIN rows.applications =>
              rows'.history[m].old = rows.applications[p].status
    PROVE  Admissions!HistoryUnbroken'
<1> DEFINE about(x)    == {k \in DOMAIN rows.history : rows.history[k].application = x}
           after(x, k) == {j \in about(x) : j > k}
           of(x)       == {k \in DOMAIN rows'.history : rows'.history[k].application = x}
           then(x, k)  == {j \in of(x) : j > k}
<1>1. \A x : of(x) = IF x = p THEN about(x) \cup {m} ELSE about(x)
  OBVIOUS
<1>2. ASSUME NEW x \in DOMAIN rows.applications
      PROVE  /\ about(x) # {}
             /\ \A h \in about(x) :
                   IF after(x, h) = {}
                   THEN rows.history[h].new = rows.applications[x].status
                   ELSE \E g \in after(x, h) :
                           /\ \A f \in after(x, h) : g <= f
                           /\ rows.history[g].old = rows.history[h].new
  BY DEF AdmissionsInv, Admissions!HistoryUnbroken, Admissions!About, Admissions!After
<1>3. p \notin DOMAIN rows.applications => about(p) = {}
  BY DEF AdmissionsInv, RecordsOK
<1>4. SUFFICES ASSUME NEW x \in DOMAIN rows'.applications
               PROVE  /\ of(x) # {}
                      /\ \A h \in of(x) :
                            IF then(x, h) = {}
                            THEN rows'.history[h].new = rows'.applications[x].status
                            ELSE \E g \in then(x, h) :
                                    /\ \A f \in then(x, h) : g <= f
                                    /\ rows'.history[g].old = rows'.history[h].new
  BY DEF Admissions!HistoryUnbroken, Admissions!About, Admissions!After
<1>5. CASE x # p
  <2>1. x \in DOMAIN rows.applications /\ of(x) = about(x)
    BY <1>1, <1>4, <1>5
  <2>2. \A h : then(x, h) = after(x, h)
    BY <2>1
  <2> HIDE DEF of
  <2>3. about(x) \subseteq DOMAIN rows.history
    OBVIOUS
  <2> HIDE DEF about, then
  <2> QED BY <1>2, <1>5, <2>1, <2>2, <2>3
<1>6. CASE x = p
  <2>1. of(p) = about(p) \cup {m} /\ about(p) \subseteq DOMAIN rows.history
    BY <1>1
  <2> HIDE DEF of, about
  <2>2. then(p, m) = {}
    BY <2>1
  <2>3. ASSUME NEW h \in about(p)
        PROVE  then(p, h) = after(p, h) \cup {m} /\ m \notin after(p, h)
    BY <2>1, <2>3
  <2>4. ASSUME NEW h \in about(p)
        PROVE  \E g \in then(p, h) :
                  /\ \A f \in then(p, h) : g <= f
                  /\ rows'.history[g].old = rows'.history[h].new
    <3>1. p \in DOMAIN rows.applications
      BY <1>3, <2>4
    <3>2. h \in DOMAIN rows.history /\ rows'.history[h].new = rows.history[h].new
      BY <2>1, <2>4
    <3>3. CASE after(p, h) = {}
      <4>1. then(p, h) = {m}
        BY <2>3, <2>4, <3>3
      <4>2. rows.history[h].new = rows.applications[p].status
        BY <1>2, <2>4, <3>1, <3>3
      <4> HIDE DEF then
      <4>3. m <= m
        OBVIOUS
      <4> QED BY <3>1, <3>2, <4>1, <4>2, <4>3
    <3>4. CASE after(p, h) # {}
      <4>1. PICK g \in after(p, h) :
                /\ \A f \in after(p, h) : g <= f
                /\ rows.history[g].old = rows.history[h].new
        BY <1>2, <2>4, <3>1, <3>4
      <4>2. g \in DOMAIN rows.history /\ g <= m
        BY <2>1, <4>1
      <4>3. g \in then(p, h) /\ \A f \in then(p, h) : g <= f
        BY <2>3, <2>4, <4>1, <4>2
      <4> HIDE DEF then, after
      <4> QED BY <3>2, <4>1, <4>2, <4>3
    <3> QED BY <3>3, <3>4
  <2>5. \A h \in about(p) : then(p, h) # {}
    BY <2>3
  <2> HIDE DEF then
  <2> QED BY <1>6, <2>1, <2>2, <2>4, <2>5
<1> QED BY <1>5, <1>6

\* A decision stands for what it has decided.
LEMMA DecisionsFollow ==
    ASSUME AdmissionsInv, NEW p,
           DOMAIN rows'.applications = DOMAIN rows.applications \cup {p},
           \A x \in DOMAIN rows.applications \ {p} :
              rows'.applications[x].status = rows.applications[x].status,
           \A d \in DOMAIN rows.decisions :
              /\ rows'.decisions[d].application = rows.decisions[d].application
              /\ rows'.decisions[d].decision = rows.decisions[d].decision,
           \/ /\ DOMAIN rows'.decisions = DOMAIN rows.decisions
              /\ \/ p \notin DOMAIN rows.applications \/ rows.applications[p].status = "DRAFT"
                 \/ rows'.applications[p].status \in {"UNDER_REVIEW", "WITHDRAWN"}
           \/ \E m \in Nat :
                 /\ DOMAIN rows'.decisions = DOMAIN rows.decisions \cup {m}
                 /\ \A d \in DOMAIN rows.decisions : d \in Nat /\ d < m
                 /\ rows'.decisions[m].application = p
                 /\ rows'.decisions[m].decision = rows'.applications[p].status
    PROVE  Admissions!DecisionStands'
<1> DEFINE about(x)    == {k \in DOMAIN rows.decisions : rows.decisions[k].application = x}
           of(x)       == {k \in DOMAIN rows'.decisions : rows'.decisions[k].application = x}
<1>1. ASSUME NEW x \in DOMAIN rows.applications, NEW d \in about(x),
             \A j \in about(x) : ~(j > d),
             rows.applications[x].status \notin {"UNDER_REVIEW", "WITHDRAWN"}
      PROVE  rows.applications[x].status = rows.decisions[d].decision
  BY <1>1 DEF AdmissionsInv, Admissions!DecisionStands, Admissions!About, Admissions!After
<1>2. \A d \in DOMAIN rows.decisions :
          /\ rows.decisions[d].application \in DOMAIN rows.applications
          /\ rows.decisions[d].decision \in Admissions!Decisions
  BY DEF AdmissionsInv, RecordsOK
<1>3. SUFFICES ASSUME NEW x \in DOMAIN rows'.applications, NEW d \in of(x),
                      \A j \in of(x) : ~(j > d),
                      rows'.applications[x].status \notin {"UNDER_REVIEW", "WITHDRAWN"}
               PROVE  rows'.applications[x].status = rows'.decisions[d].decision
  BY DEF Admissions!DecisionStands, Admissions!About, Admissions!After
<1>4. CASE x # p
  <2>1. x \in DOMAIN rows.applications
        /\ rows'.applications[x].status = rows.applications[x].status
    BY <1>3, <1>4
  <2>2. of(x) = about(x)
    BY <1>4
  <2>3. d \in DOMAIN rows.decisions /\ rows'.decisions[d].decision = rows.decisions[d].decision
    BY <1>3, <2>2
  <2> HIDE DEF of, about
  <2> QED BY <1>1, <1>3, <2>1, <2>2, <2>3
<1>5. CASE x = p /\ DOMAIN rows'.decisions = DOMAIN rows.decisions
                /\ \/ p \notin DOMAIN rows.applications \/ rows.applications[p].status = "DRAFT"
                   \/ rows'.applications[p].status \in {"UNDER_REVIEW", "WITHDRAWN"}
  <2>1. of(p) = about(p)
    BY <1>5
  <2>2. p \in DOMAIN rows.applications /\ rows.applications[p].status = "DRAFT"
    BY <1>2, <1>3, <1>5
  <2>3. d \in DOMAIN rows.decisions
    BY <1>3, <1>5
  <2>4. "DRAFT" \notin Admissions!Decisions
    BY DEF Admissions!Decisions
  <2> HIDE DEF of, about
  <2> QED BY <1>1, <1>2, <1>3, <1>5, <2>1, <2>2, <2>3, <2>4
<1>6. CASE x = p /\ \E m \in Nat :
                 /\ DOMAIN rows'.decisions = DOMAIN rows.decisions \cup {m}
                 /\ \A e \in DOMAIN rows.decisions : e \in Nat /\ e < m
                 /\ rows'.decisions[m].application = p
                 /\ rows'.decisions[m].decision = rows'.applications[p].status
  <2>1. PICK m \in Nat :
                 /\ DOMAIN rows'.decisions = DOMAIN rows.decisions \cup {m}
                 /\ \A e \in DOMAIN rows.decisions : e \in Nat /\ e < m
                 /\ rows'.decisions[m].application = p
                 /\ rows'.decisions[m].decision = rows'.applications[p].status
    BY <1>6
  <2>2. m \in of(p)
    BY <2>1
  <2>3. d = m
    BY <1>3, <1>6, <2>1, <2>2
  <2> QED BY <1>6, <2>1, <2>3
<1> QED BY <1>4, <1>5, <1>6

\* The statements of a request that has locked an application, as the row is now.
LEMMA StillSending ==
    ASSUME NEW a, NEW b, NEW locks, NEW q, Sending(a, locks, q),
           \A p \in DOMAIN a : <<"applications", p>> \in locks =>
               p \in DOMAIN b /\ b[p].status = a[p].status
    PROVE  Sending(b, locks, q)
BY DEF Sending

\* A commit that edits something else.
LEMMA EditsCommit ==
    ASSUME AdmissionsInv, NEW s \in Session, Commit(s), Edits(Sent(s))
    PROVE  RecordsOK' /\ Admissions!HistoryUnbroken' /\ Admissions!DecisionStands'
<1>1. ASSUME NEW t \in OnRecord
      PROVE  /\ DOMAIN rows'[t] = DOMAIN rows[t]
             /\ \A i \in DOMAIN rows[t] :
                   /\ DOMAIN rows'[t][i] = DOMAIN rows[t][i]
                   /\ \A c \in DOMAIN rows[t][i] : rows'[t][i][c] = rows[t][i][c]
  <2>1. \A k \in DOMAIN Sent(s) : Sent(s)[k].table # t
    BY DEF Edits
  <2>2. WellFormed /\ t \in DOMAIN rows
    BY DEF AdmissionsInv, RecordsOK
  <2>3. InsertsInto(s, t) = {}
    BY <2>1 DEF InsertsInto
  <2>4. DOMAIN rows'[t] = DOMAIN rows[t]
    BY <2>2, <2>3, NothingInserted
  <2>5. \A i \in DOMAIN rows[t] :
            /\ DOMAIN rows'[t][i] = DOMAIN rows[t][i]
            /\ \A c \in DOMAIN rows[t][i] : rows'[t][i][c] = rows[t][i][c]
    BY <2>1, <2>2, ColumnKept
  <2> QED BY <2>4, <2>5
<1>2. DOMAIN rows' = DOMAIN rows
  BY DEF Commit
<1>3. /\ DOMAIN rows'.applications = DOMAIN rows.applications
      /\ DOMAIN rows'.history = DOMAIN rows.history
      /\ DOMAIN rows'.decisions = DOMAIN rows.decisions
  BY <1>1 DEF OnRecord
<1>4. \A p \in DOMAIN rows.applications :
          /\ "status" \in DOMAIN rows'.applications[p]
          /\ rows'.applications[p].status = rows.applications[p].status
  BY <1>1 DEF AdmissionsInv, RecordsOK, OnRecord
<1>5. \A h \in DOMAIN rows.history :
          /\ {"application", "old", "new"} \subseteq DOMAIN rows'.history[h]
          /\ rows'.history[h].application = rows.history[h].application
          /\ rows'.history[h].old = rows.history[h].old
          /\ rows'.history[h].new = rows.history[h].new
  BY <1>1 DEF AdmissionsInv, RecordsOK, OnRecord
<1>6. \A d \in DOMAIN rows.decisions :
          /\ {"application", "decision"} \subseteq DOMAIN rows'.decisions[d]
          /\ rows'.decisions[d].application = rows.decisions[d].application
          /\ rows'.decisions[d].decision = rows.decisions[d].decision
  BY <1>1 DEF AdmissionsInv, RecordsOK, OnRecord
<1>7. RecordsOK'
  BY <1>2, <1>3, <1>4, <1>5, <1>6 DEF AdmissionsInv, RecordsOK
<1>8. /\ \A p : Admissions!About("history", p)' = Admissions!About("history", p)
      /\ \A p : Admissions!About("decisions", p)' = Admissions!About("decisions", p)
  BY <1>3, <1>5, <1>6 DEF Admissions!About
<1>9. /\ \A p, k : Admissions!After("history", p, k)' = Admissions!After("history", p, k)
      /\ \A p, k : Admissions!After("decisions", p, k)' = Admissions!After("decisions", p, k)
  BY <1>8 DEF Admissions!After
<1>10. /\ \A p : Admissions!About("history", p) \subseteq DOMAIN rows.history
       /\ \A p : Admissions!About("decisions", p) \subseteq DOMAIN rows.decisions
       /\ \A p, k : Admissions!After("history", p, k) \subseteq DOMAIN rows.history
  BY DEF Admissions!About, Admissions!After
<1>11. Admissions!HistoryUnbroken'
  BY <1>3, <1>4, <1>5, <1>8, <1>9, <1>10 DEF AdmissionsInv, Admissions!HistoryUnbroken
<1>12. Admissions!DecisionStands'
  BY <1>3, <1>4, <1>6, <1>8, <1>9, <1>10 DEF AdmissionsInv, Admissions!DecisionStands
<1> QED BY <1>7, <1>11, <1>12

\* A commit that files an application.
LEMMA FilingCommit ==
    ASSUME AdmissionsInv, NEW s \in Session, Commit(s), Files(Sent(s))
    PROVE  RecordsOK' /\ Admissions!HistoryUnbroken' /\ Admissions!DecisionStands'
<1>1. PICK new :
          /\ "status" \in DOMAIN new
          /\ Sent(s) = <<Admissions!Insert("applications", new),
                         Admissions!InsertFor("history",
                             [application |-> 0, old |-> None, new |-> new.status],
                             "application", "applications")>>
  BY DEF Files
<1>2. /\ DOMAIN Sent(s) = {1, 2}
      /\ Sent(s)[1] = Admissions!Insert("applications", new)
      /\ Sent(s)[2] = Admissions!InsertFor("history",
                          [application |-> 0, old |-> None, new |-> new.status],
                          "application", "applications")
  BY <1>1, TwoElements
<1>3. /\ Sent(s)[1].table = "applications" /\ Sent(s)[1].id = 0
      /\ Sent(s)[1].columns = new /\ Sent(s)[1].refers = <<>>
      /\ Sent(s)[2].table = "history" /\ Sent(s)[2].id = 0
      /\ Sent(s)[2].columns = [application |-> 0, old |-> None, new |-> new.status]
      /\ DOMAIN Sent(s)[2].refers = {"application"}
      /\ Sent(s)[2].refers["application"] = "applications"
  BY <1>2 DEF Admissions!Insert, Admissions!InsertFor
<1>4. WellFormed /\ OnRecord \subseteq DOMAIN rows /\ DOMAIN rows' = DOMAIN rows
  BY DEF AdmissionsInv, RecordsOK, Commit
<1>5. /\ InsertsInto(s, "applications") = {1} /\ InsertsInto(s, "history") = {2}
      /\ InsertsInto(s, "decisions") = {}
  <2>1. \A t, k : k \in InsertsInto(s, t) <=>
            \/ k = 1 /\ Sent(s)[1].table = t /\ Sent(s)[1].id = 0
            \/ k = 2 /\ Sent(s)[2].table = t /\ Sent(s)[2].id = 0
    BY <1>2 DEF InsertsInto
  <2>2. \A k : k \in InsertsInto(s, "applications") <=> k = 1
    BY <1>3, <2>1
  <2>3. \A k : k \in InsertsInto(s, "history") <=> k = 2
    BY <1>3, <2>1
  <2>4. \A k : k \notin InsertsInto(s, "decisions")
    BY <1>3, <2>1
  <2> QED BY <2>2, <2>3, <2>4
<1>6. PICK p : /\ p \notin DOMAIN rows["applications"] /\ p = Len(rows["applications"]) + 1
               /\ DOMAIN rows'["applications"] = DOMAIN rows["applications"] \cup {p}
               /\ rows'["applications"][p] = NewRow(s, 1)
  <2>1. "applications" \in DOMAIN rows /\ WellFormed
    BY <1>4 DEF OnRecord
  <2>2. InsertsInto(s, "applications") = {1}
    BY <1>5
  <2> QED BY <2>1, <2>2, OneInserted
<1>7. PICK m : /\ m \notin DOMAIN rows["history"] /\ m = Len(rows["history"]) + 1
               /\ \A i \in DOMAIN rows["history"] : i \in Nat /\ i < m
               /\ DOMAIN rows'["history"] = DOMAIN rows["history"] \cup {m}
               /\ rows'["history"][m] = NewRow(s, 2)
  <2>1. "history" \in DOMAIN rows /\ WellFormed
    BY <1>4 DEF OnRecord
  <2>2. InsertsInto(s, "history") = {2}
    BY <1>5
  <2> QED BY <2>1, <2>2, OneInserted
<1>8. DOMAIN rows'["decisions"] = DOMAIN rows["decisions"]
  BY <1>4, <1>5, NothingInserted DEF OnRecord
<1>9. m \in Nat
  BY <1>4, <1>7, SequenceFacts DEF WellFormed, OnRecord
<1>10. "status" \in DOMAIN rows'["applications"][p] /\ rows'["applications"][p].status = new.status
  BY <1>1, <1>3, <1>6, EmptySequence DEF NewRow
<1>11. /\ DOMAIN rows'["history"][m] = {"application", "old", "new"}
       /\ rows'["history"][m].application = p
       /\ rows'["history"][m].new = new.status
  BY <1>3, <1>6, <1>7 DEF NewRow
<1>12. \A x \in DOMAIN rows["applications"] :
           /\ "status" \in DOMAIN rows'["applications"][x]
           /\ rows'["applications"][x].status = rows["applications"][x].status
  <2>1. \A x \in DOMAIN rows["applications"] : x # 0
    BY <1>4, SequenceFacts DEF WellFormed, OnRecord
  <2>2. \A x \in DOMAIN rows["applications"] : "status" \in DOMAIN rows["applications"][x]
    BY DEF AdmissionsInv, RecordsOK
  <2>3. \A k \in DOMAIN Sent(s) : Sent(s)[k].id = 0
    BY <1>2, <1>3
  <2> QED BY <1>4, <2>1, <2>2, <2>3, ColumnKept DEF OnRecord
<1>13. \A t \in {"history", "decisions"} : \A i \in DOMAIN rows[t] :
           /\ DOMAIN rows'[t][i] = DOMAIN rows[t][i]
           /\ \A c \in DOMAIN rows[t][i] : rows'[t][i][c] = rows[t][i][c]
  <2>1. \A k \in DOMAIN Sent(s) : Sent(s)[k].id = 0
    BY <1>2, <1>3
  <2> QED BY <2>1, RecordsStay
<1>14. \A h \in DOMAIN rows["history"] :
           /\ {"application", "old", "new"} \subseteq DOMAIN rows'["history"][h]
           /\ rows'["history"][h].application = rows["history"][h].application
           /\ rows'["history"][h].old = rows["history"][h].old
           /\ rows'["history"][h].new = rows["history"][h].new
  BY <1>13 DEF AdmissionsInv, RecordsOK
<1>15. \A d \in DOMAIN rows["decisions"] :
           /\ {"application", "decision"} \subseteq DOMAIN rows'["decisions"][d]
           /\ rows'["decisions"][d].application = rows["decisions"][d].application
           /\ rows'["decisions"][d].decision = rows["decisions"][d].decision
  BY <1>13 DEF AdmissionsInv, RecordsOK
<1>16. RecordsOK'
  BY <1>4, <1>6, <1>7, <1>8, <1>10, <1>11, <1>12, <1>14, <1>15 DEF AdmissionsInv, RecordsOK
<1>17. Admissions!HistoryUnbroken'
  BY <1>6, <1>7, <1>9, <1>10, <1>11, <1>12, <1>14, HistoryGrows
<1>18. Admissions!DecisionStands'
  BY <1>6, <1>8, <1>12, <1>15, DecisionsFollow
<1> QED BY <1>16, <1>17, <1>18

\* A commit that moves an application.
LEMMA MoveCommit ==
    ASSUME AdmissionsInv, NEW s \in Session, Commit(s),
           NEW p \in DOMAIN rows.applications, NEW to,
           MovesOn(Sent(s), p, rows.applications[p].status, to)
    PROVE  RecordsOK' /\ Admissions!HistoryUnbroken' /\ Admissions!DecisionStands'
<1> DEFINE from == rows.applications[p].status
<1>1. /\ {1, 2} \subseteq DOMAIN Sent(s) /\ DOMAIN Sent(s) \subseteq {1, 2, 3}
      /\ Sent(s)[1].table = "applications" /\ Sent(s)[1].id = p
      /\ DOMAIN Sent(s)[1].columns = IF from = to THEN {} ELSE {"status"}
      /\ from # to => Sent(s)[1].columns.status = to
      /\ Sent(s)[2].table = "history" /\ Sent(s)[2].id = 0
      /\ Sent(s)[2].columns = [application |-> p, old |-> from, new |-> to]
      /\ Sent(s)[2].refers = <<>>
  BY DEF MovesOn, Admissions!Insert
<1>2. IF 3 \in DOMAIN Sent(s)
      THEN /\ to \in Admissions!Decisions
           /\ Sent(s)[3].table = "decisions" /\ Sent(s)[3].id = 0
           /\ Sent(s)[3].columns = [application |-> p, decision |-> to]
           /\ Sent(s)[3].refers = <<>>
      ELSE from = "DRAFT" \/ to \in {"UNDER_REVIEW", "WITHDRAWN"}
  BY DEF MovesOn, Admissions!Insert
<1>3. WellFormed /\ OnRecord \subseteq DOMAIN rows /\ DOMAIN rows' = DOMAIN rows
  BY DEF AdmissionsInv, RecordsOK, Commit
<1>4. p # 0 /\ "status" \in DOMAIN rows["applications"][p]
  BY <1>3, SequenceFacts DEF WellFormed, OnRecord, AdmissionsInv, RecordsOK
<1> HIDE DEF from
<1>5. /\ InsertsInto(s, "applications") = {} /\ InsertsInto(s, "history") = {2}
      /\ InsertsInto(s, "decisions") = IF 3 \in DOMAIN Sent(s) THEN {3} ELSE {}
  BY <1>1, <1>2, <1>4 DEF InsertsInto
<1>6. DOMAIN rows'["applications"] = DOMAIN rows["applications"]
  BY <1>3, <1>5, NothingInserted DEF OnRecord
<1>7. PICK m : /\ m \notin DOMAIN rows["history"] /\ m = Len(rows["history"]) + 1
               /\ \A i \in DOMAIN rows["history"] : i \in Nat /\ i < m
               /\ DOMAIN rows'["history"] = DOMAIN rows["history"] \cup {m}
               /\ rows'["history"][m] = NewRow(s, 2)
  BY <1>3, <1>5, OneInserted DEF OnRecord
<1>8. m \in Nat
  BY <1>3, <1>7, SequenceFacts DEF WellFormed, OnRecord
<1>9. /\ DOMAIN rows'["history"][m] = {"application", "old", "new"}
      /\ rows'["history"][m].application = p /\ rows'["history"][m].old = from
      /\ rows'["history"][m].new = to
  BY <1>1, <1>7, EmptySequence DEF NewRow
<1>10. \A x \in DOMAIN rows["applications"] :
           /\ "status" \in DOMAIN rows["applications"][x]
           /\ DOMAIN rows'["applications"][x] = DOMAIN rows["applications"][x]
  BY <1>3, ColumnKept DEF AdmissionsInv, RecordsOK, OnRecord
<1>11. ASSUME NEW x \in DOMAIN rows["applications"] \ {p}
       PROVE  rows'["applications"][x].status = rows["applications"][x].status
  <2>1. x # 0
    BY <1>3, SequenceFacts DEF WellFormed, OnRecord
  <2>2. \A k \in DOMAIN Sent(s) :
            ~(Sent(s)[k].table = "applications" /\ Sent(s)[k].id = x)
    BY <1>1, <1>2, <1>11, <2>1
  <2> QED BY <1>3, <1>10, <2>2, ColumnKept DEF OnRecord
<1>12. rows'["applications"][p].status = to
  <2>1. CASE from = to
    <3>1. \A k \in DOMAIN Sent(s) :
              Sent(s)[k].table = "applications" /\ Sent(s)[k].id = p
                  => "status" \notin DOMAIN Sent(s)[k].columns
      BY <1>1, <1>2, <1>4, <2>1
    <3>2. rows'["applications"][p].status = rows["applications"][p].status
      BY <1>3, <1>4, <3>1, ColumnKept DEF OnRecord
    <3> QED BY <2>1, <3>2 DEF from
  <2>2. CASE from # to
    <3>1. Sequence(rows["applications"]) /\ Sequence(Sent(s)) /\ "applications" \in DOMAIN rows
      BY <1>3, SentWellFormed DEF WellFormed, OnRecord, Commit
    <3>2. rows'["applications"][p] = Updated(s, "applications", p)
      BY <3>1, CommitFacts
    <3>3. Updated(s, "applications", p)["status"] = to
      <4>1. \A k \in DOMAIN Sent(s) :
                Sent(s)[k].table = "applications" /\ Sent(s)[k].id = p
                    => Sent(s)[k].columns["status"] = to
        BY <1>1, <1>2, <2>2
      <4>2. 1 \in DOMAIN Sent(s) /\ "status" \in DOMAIN Sent(s)[1].columns
        BY <1>1, <2>2
      <4> QED BY <1>1, <1>4, <4>1, <4>2, UpdatedFacts
    <3> QED BY <3>2, <3>3
  <2> QED BY <2>1, <2>2
<1>13. \A t \in {"history", "decisions"} : \A i \in DOMAIN rows[t] :
           /\ i \in DOMAIN rows'[t]
           /\ DOMAIN rows'[t][i] = DOMAIN rows[t][i]
           /\ \A c \in DOMAIN rows[t][i] : rows'[t][i][c] = rows[t][i][c]
  <2>1. \A k \in DOMAIN Sent(s) :
            Sent(s)[k].table \in {"history", "decisions"} => Sent(s)[k].id = 0
    BY <1>1, <1>2
  <2> QED BY <2>1, RecordsStay
<1>14. \A h \in DOMAIN rows["history"] :
           /\ {"application", "old", "new"} \subseteq DOMAIN rows'["history"][h]
           /\ rows'["history"][h].application = rows["history"][h].application
           /\ rows'["history"][h].old = rows["history"][h].old
           /\ rows'["history"][h].new = rows["history"][h].new
  BY <1>13 DEF AdmissionsInv, RecordsOK
<1>15. \A d \in DOMAIN rows["decisions"] :
           /\ {"application", "decision"} \subseteq DOMAIN rows'["decisions"][d]
           /\ rows'["decisions"][d].application = rows["decisions"][d].application
           /\ rows'["decisions"][d].decision = rows["decisions"][d].decision
  BY <1>13 DEF AdmissionsInv, RecordsOK
<1>16. \/ /\ DOMAIN rows'["decisions"] = DOMAIN rows["decisions"]
          /\ from = "DRAFT" \/ to \in {"UNDER_REVIEW", "WITHDRAWN"}
       \/ \E n \in Nat :
             /\ DOMAIN rows'["decisions"] = DOMAIN rows["decisions"] \cup {n}
             /\ \A d \in DOMAIN rows["decisions"] : d \in Nat /\ d < n
             /\ DOMAIN rows'["decisions"][n] = {"application", "decision"}
             /\ rows'["decisions"][n].application = p
             /\ rows'["decisions"][n].decision = to /\ to \in Admissions!Decisions
  <2>1. CASE 3 \notin DOMAIN Sent(s)
    BY <1>2, <1>3, <1>5, <2>1, NothingInserted DEF OnRecord
  <2>2. CASE 3 \in DOMAIN Sent(s)
    <3>1. PICK n : /\ n = Len(rows["decisions"]) + 1
                   /\ \A i \in DOMAIN rows["decisions"] : i \in Nat /\ i < n
                   /\ DOMAIN rows'["decisions"] = DOMAIN rows["decisions"] \cup {n}
                   /\ rows'["decisions"][n] = NewRow(s, 3)
      BY <1>3, <1>5, <2>2, OneInserted DEF OnRecord
    <3>2. n \in Nat
      BY <1>3, <3>1, SequenceFacts DEF WellFormed, OnRecord
    <3>3. /\ DOMAIN rows'["decisions"][n] = {"application", "decision"}
          /\ rows'["decisions"][n].application = p /\ rows'["decisions"][n].decision = to
      BY <1>2, <2>2, <3>1, EmptySequence DEF NewRow
    <3> QED BY <1>2, <2>2, <3>1, <3>2, <3>3
  <2> QED BY <2>1, <2>2
<1>17. RecordsOK'
  <2>1. \A x \in DOMAIN rows'.applications : "status" \in DOMAIN rows'.applications[x]
    BY <1>6, <1>10
  <2>2. \A h \in DOMAIN rows'.history :
            /\ {"application", "old", "new"} \subseteq DOMAIN rows'.history[h]
            /\ rows'.history[h].application \in DOMAIN rows'.applications
    BY <1>6, <1>7, <1>9, <1>14 DEF AdmissionsInv, RecordsOK
  <2>3. \A d \in DOMAIN rows'.decisions :
            /\ {"application", "decision"} \subseteq DOMAIN rows'.decisions[d]
            /\ rows'.decisions[d].application \in DOMAIN rows'.applications
            /\ rows'.decisions[d].decision \in Admissions!Decisions
    BY <1>6, <1>15, <1>16 DEF AdmissionsInv, RecordsOK
  <2> QED BY <1>3, <2>1, <2>2, <2>3 DEF RecordsOK, Admissions!Decisions
<1>18. Admissions!HistoryUnbroken'
  BY <1>6, <1>7, <1>8, <1>9, <1>11, <1>12, <1>14, HistoryGrows DEF from
<1>19. Admissions!DecisionStands'
  BY <1>6, <1>11, <1>12, <1>15, <1>16, DecisionsFollow DEF from
<1> QED BY <1>17, <1>18, <1>19

\* A commit, under the index of applications in force, keeps the invariant.
LEMMA AdmissionsCommit ==
    ASSUME AdmissionsInv, NEW s \in Session, Commit(s), Admissions!OneActive'
    PROVE  AdmissionsInv'
<1>1. PICK q : work[s].todo = <<q>> /\ Sending(rows.applications, work[s].locks, q)
  BY DEF AdmissionsInv, Commit
<1>2. Sent(s) = q /\ Tail(work[s].todo) = <<>>
  BY <1>1 DEF Sent
<1>3. RecordsOK' /\ Admissions!HistoryUnbroken' /\ Admissions!DecisionStands'
  BY <1>1, <1>2, EditsCommit, FilingCommit, MoveCommit DEF Sending
<1>4. WellFormed'
  BY CommitWellFormed DEF AdmissionsInv
<1>5. \A r \in Session :
          work'[r] = IF r = s THEN [locks |-> {}, todo |-> <<>>] ELSE work[r]
  BY <1>2 DEF AdmissionsInv, WellFormed, Commit
<1>6. ASSUME NEW r \in Session, r # s, NEW p \in DOMAIN rows["applications"],
             <<"applications", p>> \in work[r].locks
      PROVE  /\ p \in DOMAIN rows'["applications"]
             /\ rows'["applications"][p].status = rows["applications"][p].status
  <2>1. /\ "applications" \in DOMAIN rows /\ Sequence(rows["applications"])
        /\ Sequence(Sent(s)) /\ "status" \in DOMAIN rows["applications"][p]
    BY SentWellFormed DEF AdmissionsInv, RecordsOK, OnRecord, WellFormed, Commit
  <2>2. p \in DOMAIN rows'["applications"]
    BY <2>1, CommitFacts
  <2>3. rows'["applications"][p]["status"] = rows["applications"][p]["status"]
    BY <1>6, <2>1, LockedRowStands
  <2> QED BY <2>2, <2>3
<1>7. ASSUME NEW r \in Session
      PROVE  \/ work'[r].todo = <<>>
             \/ \E t : work'[r].todo = <<t>> /\ Sending(rows'.applications, work'[r].locks, t)
  <2>1. CASE r = s
    BY <1>5, <2>1
  <2>2. CASE r # s
    <3>1. work'[r] = work[r]
      BY <1>5, <2>2
    <3>2. CASE work[r].todo # <<>>
      <4>1. PICK t : work[r].todo = <<t>> /\ Sending(rows.applications, work[r].locks, t)
        BY <3>2 DEF AdmissionsInv
      <4>2. Sending(rows'.applications, work[r].locks, t)
        BY <1>6, <2>2, <4>1, StillSending
      <4> QED BY <3>1, <4>1, <4>2
    <3> QED BY <3>1, <3>2
  <2> QED BY <2>1, <2>2
<1>8. \A r, t \in Session : r # t => work'[r].locks \cap work'[t].locks = {}
  BY <1>5 DEF AdmissionsInv
<1> QED BY <1>3, <1>4, <1>7, <1>8 DEF AdmissionsInv

\* A request that is cut short leaves nothing and lets go of its locks.
LEMMA AdmissionsAbort ==
    ASSUME AdmissionsInv, NEW s \in Session, Abort(s)
    PROVE  AdmissionsInv'
<1>1. WellFormed' /\ rows' = rows
  BY AbortWellFormed DEF AdmissionsInv, Abort
<1>2. \A r \in Session : work'[r] = IF r = s THEN [locks |-> {}, todo |-> <<>>] ELSE work[r]
  BY DEF AdmissionsInv, WellFormed, Abort, Untouched
<1>3. \A r \in Session :
          \/ work'[r].todo = <<>>
          \/ \E q : work'[r].todo = <<q>> /\ Sending(rows'.applications, work'[r].locks, q)
  BY <1>1, <1>2 DEF AdmissionsInv
<1>4. \A r, t \in Session : r # t => work'[r].locks \cap work'[t].locks = {}
  BY <1>2, SMTT(30) DEF AdmissionsInv
<1> QED BY <1>1, <1>3, <1>4, RecordsStand DEF AdmissionsInv

\* Commits and aborts of the desk are those of UnitOfWork.
LEMMA AdmissionsSends ==
    ASSUME NEW s \in Session
    PROVE  /\ Admissions!Commit(s) => Commit(s)
           /\ Admissions!Abort(s) => Abort(s)
BY Zenon DEF Admissions!Commit, Commit, Admissions!Sent, Sent, Admissions!Held, Held,
       Admissions!Updated, Updated, Admissions!Inserted, Inserted, Admissions!Listed, Listed,
       Admissions!Cardinality, Cardinality, Admissions!Abort, Abort, Admissions!Idle, Idle,
       Admissions!Untouched, Untouched

\* Every step at the desk of admissions keeps the invariant.
LEMMA AdmissionsKeep == AdmissionsInv /\ Admissions!Next => AdmissionsInv'
<1> SUFFICES ASSUME AdmissionsInv, NEW s \in Session,
                    \/ Admissions!CreateCycle(s) \/ Admissions!UpdateCycle(s)
                    \/ Admissions!DeleteCycle(s)
                    \/ Admissions!CreateApplicant(s) \/ Admissions!UpdateApplicant(s)
                    \/ Admissions!DeleteApplicant(s)
                    \/ Admissions!CreateApplication(s)
                    \/ Admissions!SubmitApplication(s) \/ Admissions!StartReviewApplication(s)
                    \/ Admissions!RecordDecision(s) \/ Admissions!WithdrawApplication(s)
                    \/ Admissions!Commit(s) /\ Admissions!Integrity'
                    \/ Admissions!Abort(s)
             PROVE  AdmissionsInv'
  BY DEF Admissions!Next
<1>1. CASE Admissions!Commit(s) /\ Admissions!Integrity'
  BY <1>1, AdmissionsSends, AdmissionsCommit DEF Admissions!Integrity
<1>2. CASE Admissions!Abort(s)
  BY <1>2, AdmissionsSends, AdmissionsAbort
<1> QED BY <1>1, <1>2, EditsKeep, FilingKeeps, MovesKeep

\* The desk opens with at most one application, as its history shows it.
LEMMA AdmissionsStart == Admissions!Init => AdmissionsInv
<1> SUFFICES ASSUME Admissions!Init PROVE AdmissionsInv
  OBVIOUS
<1>1. PICK c \in {1, 2}, some \in {<<>>, <<"DRAFT">>, <<"UNDER_REVIEW">>, <<"WAITLISTED">>} :
          Admissions!Start([cycles |-> <<[code |-> c, deleted |-> FALSE]>>,
              applicants |-> <<[code |-> c, cycle |-> None, deleted |-> FALSE]>>,
              applications |-> [k \in DOMAIN some |->
                  [applicant |-> 1, cycle |-> 1, code |-> c, status |-> some[k]]],
              history |-> [k \in DOMAIN some |->
                  [application |-> 1, old |-> None, new |-> some[k]]],
              decisions |-> <<>>])
  BY DEF Admissions!Init
<1> DEFINE filed == [k \in DOMAIN some |->
                        [applicant |-> 1, cycle |-> 1, code |-> c, status |-> some[k]]]
           way   == [k \in DOMAIN some |-> [application |-> 1, old |-> None, new |-> some[k]]]
<1>2. work = [s \in Session |-> Untouched]
  BY <1>1 DEF Admissions!Start, Admissions!Untouched, Untouched
<1>3. /\ DOMAIN rows = {"cycles", "applicants", "applications", "history", "decisions"}
      /\ rows.cycles = <<[code |-> c, deleted |-> FALSE]>>
      /\ rows.applicants = <<[code |-> c, cycle |-> None, deleted |-> FALSE]>>
      /\ rows.applications = filed /\ rows.history = way /\ rows.decisions = <<>>
  BY <1>1 DEF Admissions!Start
<1>4. Sequence(some) /\ DOMAIN some \subseteq {1}
  <2>1. CASE some = <<>>
    BY <2>1, EmptySequence
  <2>2. CASE some # <<>>
    <3>1. PICK a : some = <<a>>
      BY <1>1, <2>2
    <3> QED BY <3>1, OneElement
  <2> QED BY <2>1, <2>2
<1>5. Len(some) \in Nat /\ DOMAIN some = 1..Len(some)
  BY <1>4, SequenceFacts
<1>6. Sequence(filed) /\ Sequence(way)
  <2>1. filed = [k \in 1..Len(some) |-> filed[k]] /\ way = [k \in 1..Len(some) |-> way[k]]
    BY <1>5
  <2> HIDE DEF filed, way
  <2> QED BY <1>5, <2>1, FunctionSequence
<1>7. WellFormed
  <2>1. \A a : Sequence(<<a>>)
    BY OneElement
  <2> HIDE DEF filed, way
  <2>2. \A t \in DOMAIN rows : Sequence(rows[t])
    BY <1>3, <1>6, <2>1, NoElement
  <2> QED BY <1>2, <2>2, StartWellFormed
<1>8. /\ DOMAIN rows.applications = DOMAIN some /\ DOMAIN rows.history = DOMAIN some
      /\ DOMAIN rows.decisions = {}
      /\ \A k \in DOMAIN some : /\ rows.history[k].application = k
                                /\ rows.history[k].new = rows.applications[k].status
  BY <1>3, <1>4, EmptySequence
<1>9. RecordsOK
  BY <1>3, <1>4, <1>8 DEF RecordsOK, OnRecord
<1>10. Admissions!OneActive
  BY <1>4, <1>8 DEF Admissions!OneActive, Admissions!Unique
<1>11. Admissions!HistoryUnbroken
  <2>1. ASSUME NEW p \in DOMAIN some
        PROVE  /\ Admissions!About("history", p) = {p}
               /\ Admissions!After("history", p, p) = {}
    BY <1>4, <1>8 DEF Admissions!About, Admissions!After
  <2> QED BY <1>8, <2>1 DEF Admissions!HistoryUnbroken
<1>12. Admissions!DecisionStands
  BY <1>8 DEF Admissions!DecisionStands, Admissions!About
<1>13. \A s \in Session : work[s].todo = <<>> /\ work[s].locks = {}
  BY <1>2 DEF Untouched
<1> QED BY <1>7, <1>9, <1>10, <1>11, <1>12, <1>13 DEF AdmissionsInv

\* At the desk of admissions, the invariant holds.
AdmissionsOK == desk = "admissions" => AdmissionsInv

(***************************************************************************)
(* Whatever requests overlap, the history of an application leads to its   *)
(* status without a gap, an applicant has one application in force in a    *)
(* cycle, and a decision stands: every handler that moves an application   *)
(* has read its status under the lock that it commits with.                *)
(***************************************************************************)
THEOREM AdmissionsOnRecordAlways == Spec => []AdmissionsOnRecord
<1>1. Init => AdmissionsOK
  <2>1. Init /\ desk = "admissions" => Admissions!Init
    BY DEF Init
  <2> QED BY <2>1, AdmissionsStart DEF AdmissionsOK
<1>2. AdmissionsOK /\ [Next]_vars => AdmissionsOK'
  <2> SUFFICES ASSUME AdmissionsOK, [Next]_vars, desk' = "admissions" PROVE AdmissionsInv'
    BY DEF AdmissionsOK
  <2>1. desk = "admissions"
    BY DEF Next, vars
  <2>2. AdmissionsInv
    BY <2>1 DEF AdmissionsOK
  <2>3. CASE UNCHANGED vars
    <3>1. rows' = rows /\ work' = work
      BY <2>3 DEF vars
    <3>2. WellFormed'
      BY <2>2, <3>1 DEF AdmissionsInv, WellFormed
    <3> QED BY <2>2, <3>1, <3>2, RecordsStand DEF AdmissionsInv
  <2>4. CASE Next
    <3>1. Admissions!Next
      BY <2>1, <2>4 DEF Next
    <3> QED BY <2>2, <3>1, AdmissionsKeep
  <2> QED BY <2>3, <2>4
<1>3. AdmissionsOK => AdmissionsOnRecord
  <2> SUFFICES ASSUME AdmissionsInv
               PROVE  /\ Admissions!HistoryUnbroken /\ Admissions!OneApplicationInForce
                      /\ Admissions!DecisionStands
    BY DEF AdmissionsOK, AdmissionsOnRecord
  <2>1. Admissions!OneApplicationInForce
    BY DEF AdmissionsInv, Admissions!OneActive, Admissions!Unique,
           Admissions!OneApplicationInForce
  <2> QED BY <2>1 DEF AdmissionsInv
<1> QED BY <1>1, <1>2, <1>3, PTL DEF Spec

-----------------------------------------------------------------------------
(***************************************************************************)
(* Academic years.  A statement that puts a student in a year comes after  *)
(* a record of that year and class: one that is there, or one that an      *)
(* earlier transaction of the same request inserts.  Only the row of a     *)
(* student who is admitted is placed first, and it is locked till then.    *)
(***************************************************************************)
RecordColumns == {"student", "year", "class"}

\* A history shows that the student came to the class of the year.
Recorded(histories, i, y, c) == \E h \in DOMAIN histories :
    histories[h].student = i /\ histories[h].year = y /\ histories[h].class = c

Records(st, i, y, c) ==
    /\ st.table = "histories" /\ st.id = 0
    /\ st.columns.student = i /\ st.columns.year = y /\ st.columns.class = c

Noted(todo, k, i, y, c) == \E j \in DOMAIN todo :
    j < k /\ \E m \in DOMAIN todo[j] : Records(todo[j][m], i, y, c)

HistoryStatement(st) == st.table = "histories" =>
    IF st.id = 0 THEN st.refers = <<>> /\ RecordColumns \subseteq DOMAIN st.columns
    ELSE DOMAIN st.columns \cap RecordColumns = {}

\* A statement places a student: it is the only one of its transaction.
Places(todo, k, m) ==
    /\ todo[k][m].table = "students"
    /\ "year" \in DOMAIN todo[k][m].columns

Placed(todo, k, m) ==
    /\ "class" \in DOMAIN todo[k][m].columns
    /\ \A n \in DOMAIN todo[k] : todo[k][n].table = "students" => n = m

Followed(histories, todo, k, m) ==
    LET st == todo[k][m] IN
    \/ Recorded(histories, st.id, st.columns.year, st.columns.class)
    \/ Noted(todo, k, st.id, st.columns.year, st.columns.class)

\* The transactions of a request that admits no one.
InOrder(histories, todo) ==
    /\ Transactions(todo)
    /\ \A k \in DOMAIN todo : \A m \in DOMAIN todo[k] :
          /\ HistoryStatement(todo[k][m])
          /\ todo[k][m].table = "students" => todo[k][m].id # 0
          /\ Places(todo, k, m) => Placed(todo, k, m) /\ Followed(histories, todo, k, m)

\* The first statement of a request that admits a student who is in no year.
Admits(s, k, m) ==
    LET i == work[s].todo[k][m].id IN
    /\ k = 1 /\ i \in DOMAIN rows.students /\ rows.students[i].year = None
    /\ <<"students", i>> \in work[s].locks

ProgressionRowsOK ==
    /\ {"students", "histories", "years", "executions"} \subseteq DOMAIN rows
    /\ \A i \in DOMAIN rows.students : {"year", "class"} \subseteq DOMAIN rows.students[i]
    /\ \A h \in DOMAIN rows.histories : RecordColumns \subseteq DOMAIN rows.histories[h]

ProgressionInv ==
    /\ WellFormed /\ ProgressionRowsOK
    /\ \A s \in Session : \A k \in DOMAIN work[s].todo : \A m \in DOMAIN work[s].todo[k] :
          /\ HistoryStatement(work[s].todo[k][m])
          /\ work[s].todo[k][m].table = "students" => work[s].todo[k][m].id # 0
          /\ Places(work[s].todo, k, m) =>
                \/ Placed(work[s].todo, k, m) /\ Followed(rows.histories, work[s].todo, k, m)
                \/ Admits(s, k, m)

\* A request that admits no one keeps the invariant.
LEMMA InOrderKeeps ==
    ASSUME ProgressionInv, NEW s \in Session, NEW locks, NEW todo, rows' = rows,
           work' = [work EXCEPT ![s] = [locks |-> locks, todo |-> todo]],
           InOrder(rows.histories, todo)
    PROVE  ProgressionInv'
<1>1. WellFormed'
  BY RequestWellFormed DEF ProgressionInv, InOrder
<1>2. \A r \in Session : /\ work'[r].todo = IF r = s THEN todo ELSE work[r].todo
                         /\ r # s => work'[r].locks = work[r].locks
  BY DEF ProgressionInv, WellFormed
<1>3. ProgressionRowsOK'
  BY DEF ProgressionInv, ProgressionRowsOK
<1>4. ASSUME NEW r \in Session, NEW k \in DOMAIN work'[r].todo, NEW m \in DOMAIN work'[r].todo[k]
      PROVE  /\ HistoryStatement(work'[r].todo[k][m])
             /\ work'[r].todo[k][m].table = "students" => work'[r].todo[k][m].id # 0
             /\ Places(work'[r].todo, k, m) =>
                   \/ Placed(work'[r].todo, k, m) /\ Followed(rows'.histories, work'[r].todo, k, m)
                   \/ Admits(r, k, m)'
  <2>1. CASE r = s
    BY <1>2, <1>4, <2>1 DEF InOrder
  <2>2. CASE r # s
    <3>1. work'[r].todo = work[r].todo /\ work'[r].locks = work[r].locks
      BY <1>2, <2>2, SMTT(30)
    <3>2. Admits(r, k, m) => Admits(r, k, m)'
      BY <3>1 DEF Admits
    <3> QED BY <1>4, <3>1, <3>2 DEF ProgressionInv
  <2> QED BY <2>1, <2>2
<1> QED BY <1>1, <1>3, <1>4 DEF ProgressionInv

\* Requests one after the other.
LEMMA InOrderBoth ==
    ASSUME NEW histories, NEW a, NEW b, InOrder(histories, a), InOrder(histories, b)
    PROVE  InOrder(histories, a \o b)
<1> DEFINE c == a \o b
<1>1. Sequence(a) /\ Sequence(b) /\ Len(a) \in Nat /\ DOMAIN a = 1..Len(a) /\ DOMAIN b = 1..Len(b)
  BY SequenceFacts DEF InOrder, Transactions
<1>2. /\ Sequence(c) /\ DOMAIN c = 1..(Len(a) + Len(b)) /\ Len(b) \in Nat
      /\ \A k \in DOMAIN a : k \in DOMAIN c /\ c[k] = a[k]
      /\ \A k \in DOMAIN c \ DOMAIN a : k - Len(a) \in DOMAIN b /\ c[k] = b[k - Len(a)]
  BY <1>1, ConcatFacts, SequenceFacts
<1> HIDE DEF c
<1>3. ASSUME NEW k \in DOMAIN c
      PROVE  \/ k \in DOMAIN a /\ c[k] = a[k]
             \/ k - Len(a) \in DOMAIN b /\ c[k] = b[k - Len(a)]
  BY <1>2
<1>4. \A j \in DOMAIN b : j + Len(a) \in DOMAIN c /\ c[j + Len(a)] = b[j]
  <2> TAKE j \in DOMAIN b
  <2>1. j \in Nat /\ 1 <= j /\ j <= Len(b)
    BY <1>1, <1>2
  <2>2. j + Len(a) \in DOMAIN c \ DOMAIN a /\ (j + Len(a)) - Len(a) = j
    BY <1>1, <1>2, <2>1
  <2> QED BY <1>2, <2>2
<1>5. ASSUME NEW k \in DOMAIN a, NEW i, NEW y, NEW d, Noted(a, k, i, y, d)
      PROVE  Noted(c, k, i, y, d)
  BY <1>2, <1>5 DEF Noted
<1>6. ASSUME NEW k \in DOMAIN c, NEW i, NEW y, NEW d, k - Len(a) \in DOMAIN b,
             Noted(b, k - Len(a), i, y, d)
      PROVE  Noted(c, k, i, y, d)
  <2>1. PICK j \in DOMAIN b : j < k - Len(a) /\ \E m \in DOMAIN b[j] : Records(b[j][m], i, y, d)
    BY <1>6 DEF Noted
  <2>2. j + Len(a) \in DOMAIN c /\ c[j + Len(a)] = b[j] /\ j + Len(a) < k
    <3>1. j \in Nat /\ k \in Nat /\ Len(a) \in Nat
      BY <1>1, <1>2
    <3> QED BY <1>4, <2>1, <3>1
  <2> QED BY <2>1, <2>2 DEF Noted
<1>7. ASSUME NEW k \in DOMAIN c
      PROVE  /\ Sequence(c[k])
             /\ \A m \in DOMAIN c[k] :
                  /\ HistoryStatement(c[k][m])
                  /\ c[k][m].table = "students" => c[k][m].id # 0
                  /\ Places(c, k, m) => Placed(c, k, m) /\ Followed(histories, c, k, m)
  <2>1. CASE k \in DOMAIN a /\ c[k] = a[k]
    BY <1>5, <2>1 DEF InOrder, Transactions, Places, Placed, Followed
  <2>2. CASE k - Len(a) \in DOMAIN b /\ c[k] = b[k - Len(a)]
    BY <1>6, <2>2 DEF InOrder, Transactions, Places, Placed, Followed
  <2> QED BY <1>3, <2>1, <2>2
<1> QED BY <1>2, <1>7 DEF InOrder, Transactions, c

\* One transaction that places no one.
PlaceNone(tr) ==
    /\ Sequence(tr)
    /\ \A m \in DOMAIN tr :
          /\ HistoryStatement(tr[m])
          /\ tr[m].table = "students" => tr[m].id # 0 /\ "year" \notin DOMAIN tr[m].columns

\* Transactions that place no one are in order.
LEMMA InOrderNone ==
    ASSUME NEW histories, NEW todo, Sequence(todo), \A k \in DOMAIN todo : PlaceNone(todo[k])
    PROVE  InOrder(histories, todo)
BY DEF InOrder, Transactions, PlaceNone, Places

\* One transaction.
LEMMA InOrderOne ==
    ASSUME NEW histories, NEW tr, PlaceNone(tr)
    PROVE  InOrder(histories, <<tr>>)
<1> DEFINE todo == <<tr>>
<1>1. Sequence(todo) /\ DOMAIN todo = {1} /\ todo[1] = tr
  BY OneElement
<1> HIDE DEF todo
<1>2. InOrder(histories, todo)
  BY <1>1, InOrderNone
<1> QED BY <1>2 DEF todo

\* None at all.
LEMMA InOrderNothing == \A histories : InOrder(histories, <<>>)
BY EmptySequence, InOrderNone

\* An execution is inserted with the first transaction.
LEMMA InOrderWithin ==
    ASSUME NEW histories, NEW todo, InOrder(histories, todo), NEW row
    PROVE  InOrder(histories, Progression!Within(row, todo))
<1> DEFINE first == <<Progression!Insert("executions", row)>>
           all   == Progression!Within(row, todo)
<1>1. Sequence(first) /\ Range(first) = {Progression!Insert("executions", row)}
      /\ DOMAIN first = {1} /\ Len(first) = 1 /\ first[1] = Progression!Insert("executions", row)
  BY OneElement
<1>2. Progression!Insert("executions", row).table = "executions"
  BY DEF Progression!Insert
<1>3. all = [k \in DOMAIN todo |-> IF k = 1 THEN first \o todo[1] ELSE todo[k]]
  BY DEF Progression!Within
<1> HIDE DEF first, all
<1>4. /\ DOMAIN all = DOMAIN todo
      /\ \A k \in DOMAIN todo : all[k] = IF k = 1 THEN first \o todo[1] ELSE todo[k]
  BY <1>3
<1>5. Sequence(all)
  <2>1. Len(todo) \in Nat /\ DOMAIN todo = 1..Len(todo)
    BY SequenceFacts DEF InOrder, Transactions
  <2>2. all = [k \in 1..Len(todo) |-> all[k]]
    BY <1>3, <2>1
  <2> QED BY <2>1, <2>2, FunctionSequence
<1>6. ASSUME NEW k \in DOMAIN todo
      PROVE  /\ Sequence(all[k])
             /\ \A m \in DOMAIN all[k] : \/ all[k][m].table = "executions"
                                         \/ \E n \in DOMAIN todo[k] : all[k][m] = todo[k][n]
             /\ \A n \in DOMAIN todo[k] : \E m \in DOMAIN all[k] : all[k][m] = todo[k][n]
             /\ \A m, l \in DOMAIN all[k] :
                   all[k][m].table = "students" /\ all[k][l].table = "students" =>
                      \E n, o \in DOMAIN todo[k] :
                         /\ all[k][m] = todo[k][n] /\ all[k][l] = todo[k][o]
                         /\ n = o => m = l
  <2>1. CASE k # 1
    BY <1>4, <2>1 DEF InOrder, Transactions
  <2>2. CASE k = 1
    <3>1. all[k] = first \o todo[k] /\ Sequence(todo[k]) /\ Len(todo[k]) \in Nat
          /\ DOMAIN todo[k] = 1..Len(todo[k])
      BY <1>4, <2>2, SequenceFacts DEF InOrder, Transactions
    <3>2. /\ Sequence(all[k]) /\ DOMAIN all[k] = 1..(1 + Len(todo[k])) /\ all[k][1] = first[1]
          /\ \A m \in DOMAIN all[k] \ {1} : m - 1 \in DOMAIN todo[k] /\ all[k][m] = todo[k][m - 1]
      <4> DEFINE a == Progression!Insert("executions", row)
                 c == <<a>> \o todo[k]
      <4>1. /\ Sequence(c) /\ Len(c) = Len(todo[k]) + 1
            /\ DOMAIN c = 1..(Len(todo[k]) + 1) /\ c[1] = a
            /\ \A n \in DOMAIN todo[k] : c[n + 1] = todo[k][n]
        BY <3>1, PrependFacts
      <4>2. all[k] = c /\ first[1] = a
        BY <1>1, <3>1 DEF first
      <4> HIDE DEF a, c
      <4>3. ASSUME NEW m \in DOMAIN c \ {1} PROVE m - 1 \in DOMAIN todo[k] /\ c[m] = todo[k][m - 1]
        <5>1. m - 1 \in DOMAIN todo[k] /\ (m - 1) + 1 = m
          BY <3>1, <4>1
        <5> QED BY <4>1, <5>1
      <4>4. 1..(Len(todo[k]) + 1) = 1..(1 + Len(todo[k]))
        BY <3>1
      <4> QED BY <4>1, <4>2, <4>3, <4>4
    <3>3. \A n \in DOMAIN todo[k] : \E m \in DOMAIN all[k] : all[k][m] = todo[k][n]
      <4> TAKE n \in DOMAIN todo[k]
      <4>1. n + 1 \in DOMAIN all[k] \ {1} /\ (n + 1) - 1 = n
        BY <3>1, <3>2
      <4> QED BY <3>2, <4>1
    <3>4. \A m, l \in DOMAIN all[k] : all[k][m].table = "students" /\ all[k][l].table = "students" =>
              \E n, o \in DOMAIN todo[k] : all[k][m] = todo[k][n] /\ all[k][l] = todo[k][o] /\ (n = o => m = l)
      <4> SUFFICES ASSUME NEW m \in DOMAIN all[k], NEW l \in DOMAIN all[k],
                          all[k][m].table = "students", all[k][l].table = "students"
                   PROVE  \E n, o \in DOMAIN todo[k] :
                             all[k][m] = todo[k][n] /\ all[k][l] = todo[k][o] /\ (n = o => m = l)
        OBVIOUS
      <4>1. m # 1 /\ l # 1
        BY <1>1, <1>2, <3>2
      <4>2. /\ m - 1 \in DOMAIN todo[k] /\ all[k][m] = todo[k][m - 1]
            /\ l - 1 \in DOMAIN todo[k] /\ all[k][l] = todo[k][l - 1]
            /\ m \in Nat /\ l \in Nat
        BY <3>1, <3>2, <4>1
      <4>3. m - 1 = l - 1 => m = l
        BY <4>2
      <4> QED BY <4>2, <4>3
    <3>5. \A m \in DOMAIN all[k] : \/ all[k][m].table = "executions"
                              \/ \E n \in DOMAIN todo[k] : all[k][m] = todo[k][n]
      BY <1>1, <1>2, <3>2
    <3> QED BY <3>2, <3>3, <3>4, <3>5
  <2> QED BY <2>1, <2>2
<1>7. \A k, i, y, d : Noted(todo, k, i, y, d) => Noted(all, k, i, y, d)
  BY <1>4, <1>6 DEF Noted
<1>8. ASSUME NEW k \in DOMAIN all, NEW m \in DOMAIN all[k]
      PROVE  /\ HistoryStatement(all[k][m])
             /\ all[k][m].table = "students" => all[k][m].id # 0
             /\ Places(all, k, m) => Placed(all, k, m) /\ Followed(histories, all, k, m)
  <2>1. CASE all[k][m].table = "executions"
    BY <2>1 DEF HistoryStatement, Places
  <2>2. ASSUME NEW n \in DOMAIN todo[k], all[k][m] = todo[k][n]
        PROVE  /\ HistoryStatement(all[k][m])
               /\ all[k][m].table = "students" => all[k][m].id # 0
               /\ Places(all, k, m) => Placed(all, k, m) /\ Followed(histories, all, k, m)
    <3>1. /\ HistoryStatement(all[k][m])
          /\ all[k][m].table = "students" => all[k][m].id # 0
          /\ Places(todo, k, n) => Placed(todo, k, n) /\ Followed(histories, todo, k, n)
          /\ Places(all, k, m) <=> Places(todo, k, n)
      BY <1>4, <2>2 DEF InOrder, Places
    <3>2. ASSUME Places(todo, k, n) PROVE Placed(all, k, m) /\ Followed(histories, all, k, m)
      <4>1. Followed(histories, all, k, m)
        BY <1>7, <2>2, <3>1, <3>2 DEF Followed
      <4>2. ASSUME NEW l \in DOMAIN all[k], all[k][l].table = "students" PROVE l = m
        <5>1. PICK o, p \in DOMAIN todo[k] :
                 all[k][m] = todo[k][o] /\ all[k][l] = todo[k][p] /\ (o = p => m = l)
          BY <1>4, <1>6, <2>2, <3>2, <4>2 DEF Places
        <5>2. o = n /\ p = n
          BY <2>2, <3>1, <3>2, <4>2, <5>1 DEF Placed, Places
        <5> QED BY <5>1, <5>2
      <4> QED BY <2>2, <3>1, <3>2, <4>1, <4>2 DEF Placed
    <3> QED BY <3>1, <3>2
  <2> QED BY <1>4, <1>6, <2>1, <2>2
<1> QED BY <1>4, <1>5, <1>6, <1>8 DEF InOrder, Transactions, all

\* The statements of the desk, and how its handlers leave their transactions.
LEMMA ProgressionStatements ==
    /\ \A t, row : Progression!Insert(t, row) = Insert(t, row)
    /\ \A t, i, columns : Progression!Update(t, i, columns) = Update(t, i, columns)
    /\ \A t, S : Progression!InsertEach(t, S) = InsertEach(t, S)
    /\ \A t, S, columns : Progression!UpdateEach(t, S, columns) = UpdateEach(t, S, columns)
    /\ \A t : Progression!Live(t) = Live(t)
    /\ \A S : Progression!Listed(S) = Listed(S)
    /\ \A t, i, columns : /\ Progression!Put(t, i, columns).table = t
                          /\ Progression!Put(t, i, columns).id = i
                          /\ Progression!Put(t, i, columns).columns = columns
BY DEF Progression!Insert, Insert, Progression!Update, Update, Progression!Changed, Changed,
       Progression!InsertEach, InsertEach, Progression!UpdateEach, UpdateEach,
       Progression!Listed, Listed, Progression!Cardinality, Cardinality, Progression!Live, Live,
       Progression!Put

\* How a handler leaves its transactions.
LEMMA ProgressionRequests ==
    /\ \A s, locks, todo : Progression!RequestAll(s, locks, todo) =>
          rows' = rows /\ work' = [work EXCEPT ![s] = [locks |-> locks, todo |-> todo]]
    /\ \A s, q : Progression!Request(s, q) => Progression!RequestAll(s, {}, <<q>>)
BY DEF Progression!Request, Progression!RequestAll

\* Transactions about other tables.
LEMMA PlaceElsewhere ==
    ASSUME NEW tr, Sequence(tr), \A m \in DOMAIN tr : tr[m].table \notin {"students", "histories"}
    PROVE  PlaceNone(tr)
BY DEF PlaceNone, HistoryStatement

\* One statement about another table.
LEMMA OneElsewhere ==
    ASSUME NEW st, st.table \notin {"students", "histories"}
    PROVE  PlaceNone(<<st>>)
<1> DEFINE tr == <<st>>
<1>1. Sequence(tr) /\ DOMAIN tr = {1} /\ tr[1] = st
  BY OneElement
<1> HIDE DEF tr
<1>2. PlaceNone(tr)
  BY <1>1, PlaceElsewhere
<1> QED BY <1>2 DEF tr

\* A column of several rows, none of which tells where a student has come.
LEMMA EachElsewhere ==
    ASSUME NEW S, IsFiniteSet(S), NEW t, NEW columns,
           \/ t \notin {"students", "histories"}
           \/ t = "histories" /\ DOMAIN columns \cap RecordColumns = {} /\ 0 \notin S
    PROVE  PlaceNone(UpdateEach(t, S, columns))
<1> DEFINE tr == UpdateEach(t, S, columns)
<1>1. Sequence(tr) /\ \A m \in DOMAIN tr : \E i \in S : tr[m] = Update(t, i, columns)
  BY EachSequence, EachOne
<1>2. \A i : /\ Update(t, i, columns).table = t /\ Update(t, i, columns).id = i
             /\ DOMAIN Update(t, i, columns).columns \subseteq DOMAIN columns
  BY StatementFacts
<1> HIDE DEF tr
<1>3. \A m \in DOMAIN tr : /\ tr[m].table = t /\ tr[m].id \in S
                           /\ DOMAIN tr[m].columns \subseteq DOMAIN columns
  BY <1>1, <1>2
<1>4. PlaceNone(tr)
  BY <1>1, <1>3 DEF PlaceNone, HistoryStatement
<1> QED BY <1>4 DEF tr

\* A statement about a student that leaves it in its year.
LEMMA OneStays ==
    ASSUME NEW st, st.table = "students", st.id # 0, "year" \notin DOMAIN st.columns
    PROVE  PlaceNone(<<st>>)
<1> DEFINE tr == <<st>>
<1>1. Sequence(tr) /\ DOMAIN tr = {1} /\ tr[1] = st
  BY OneElement
<1> HIDE DEF tr
<1>2. PlaceNone(tr)
  BY <1>1 DEF PlaceNone, HistoryStatement
<1> QED BY <1>2 DEF tr

\* A record that is inserted.
LEMMA OneRecord ==
    ASSUME NEW row, RecordColumns \subseteq DOMAIN row
    PROVE  PlaceNone(<<Insert("histories", row)>>)
<1> DEFINE st == Insert("histories", row)
           tr == <<st>>
<1>1. Sequence(tr) /\ DOMAIN tr = {1} /\ tr[1] = st
  BY OneElement
<1>2. st.table = "histories" /\ st.id = 0 /\ st.columns = row /\ st.refers = <<>>
  BY StatementFacts
<1> HIDE DEF st, tr
<1>3. PlaceNone(tr)
  BY <1>1, <1>2 DEF PlaceNone, HistoryStatement
<1> QED BY <1>3 DEF tr, st

\* A record as the desk writes it.
LEMMA RecordFacts ==
    ASSUME NEW i, NEW y, NEW c, NEW st
    PROVE  /\ PlaceNone(<<Progression!Record(i, y, c, st)>>)
           /\ Records(Progression!Record(i, y, c, st), i, y, c)
<1> DEFINE row == [student |-> i, year |-> y, class |-> c, status |-> st]
<1>1. DOMAIN row = {"student", "year", "class", "status"}
      /\ row.student = i /\ row.year = y /\ row.class = c
  OBVIOUS
<1>2. Progression!Record(i, y, c, st) = Insert("histories", row)
  BY ProgressionStatements DEF Progression!Record
<1> HIDE DEF row
<1>3. PlaceNone(<<Insert("histories", row)>>)
  BY <1>1, OneRecord DEF RecordColumns
<1>4. /\ Insert("histories", row).table = "histories" /\ Insert("histories", row).id = 0
      /\ Insert("histories", row).columns = row
  BY StatementFacts
<1> QED BY <1>1, <1>2, <1>3, <1>4 DEF Records

\* What becomes of the history of the year a student is in.
LEMMA ConcludeFacts ==
    ASSUME ProgressionInv, NEW i, NEW st
    PROVE  PlaceNone(Progression!Conclude(i, st))
<1> DEFINE y == rows.students[i].year
           S == Progression!HistoryIn(i, y)
           row == [status |-> st]
<1>1. CASE S = {}
  BY <1>1, RecordFacts DEF Progression!Conclude
<1>2. CASE S # {}
  <2>1. S \in SUBSET (DOMAIN rows["histories"])
    BY DEF Progression!HistoryIn
  <2> HIDE DEF S
  <2>2. IsFiniteSet(S) /\ 0 \notin S
    BY <2>1, FiniteRows, RowNumber DEF ProgressionInv, ProgressionRowsOK
  <2>3. DOMAIN row \cap RecordColumns = {}
    BY DEF RecordColumns
  <2> HIDE DEF row
  <2>4. PlaceNone(UpdateEach("histories", S, row))
    BY <2>2, <2>3, EachElsewhere
  <2> QED BY <1>2, <2>4, ProgressionStatements DEF Progression!Conclude, S, row
<1> QED BY <1>1, <1>2

\* The three transactions of a move.
IsMove(todo, i, y, c) ==
    /\ Sequence(todo) /\ DOMAIN todo = {1, 2, 3}
    /\ PlaceNone(todo[1]) /\ PlaceNone(todo[2])
    /\ \E m \in DOMAIN todo[2] : Records(todo[2][m], i, y, c)
    /\ Sequence(todo[3]) /\ DOMAIN todo[3] = {1}
    /\ todo[3][1].table = "students" /\ todo[3][1].id = i
    /\ {"year", "class"} \subseteq DOMAIN todo[3][1].columns
    /\ todo[3][1].columns.year = y /\ todo[3][1].columns.class = c

\* A move records the student, and then places it.
LEMMA MoveFacts ==
    ASSUME ProgressionInv, NEW i, i # 0, NEW y, NEW c, NEW st
    PROVE  IsMove(Progression!Move(i, y, c, st), i, y, c)
<1> DEFINE row    == [year |-> y, class |-> c, status |-> "ACTIVE"]
           note   == Progression!Record(i, y, c, "ENROLLED")
           put    == Progression!Put("students", i, row)
           first  == Progression!Conclude(i, st)
           second == <<note>>
           third  == <<put>>
           all    == <<first, second, third>>
<1>1. Progression!Move(i, y, c, st) = all
  BY DEF Progression!Move, Progression!Place
<1>2. PlaceNone(first) /\ PlaceNone(second) /\ Records(note, i, y, c)
  BY ConcludeFacts, RecordFacts
<1>3. DOMAIN row = {"year", "class", "status"} /\ row.year = y /\ row.class = c
  OBVIOUS
<1>4. put.table = "students" /\ put.id = i /\ put.columns = row
  BY ProgressionStatements
<1>5. /\ DOMAIN second = {1} /\ second[1] = note
      /\ Sequence(third) /\ DOMAIN third = {1} /\ third[1] = put
  BY OneElement
<1> HIDE DEF row, note, put, first, second, third
<1>6. /\ Sequence(all) /\ DOMAIN all = {1, 2, 3}
      /\ all[1] = first /\ all[2] = second /\ all[3] = third
  BY ThreeElements
<1> HIDE DEF all
<1>7. IsMove(all, i, y, c)
  BY <1>2, <1>3, <1>4, <1>5, <1>6 DEF IsMove
<1> QED BY <1>1, <1>7

\* It is in order.
LEMMA MoveInOrder ==
    ASSUME NEW histories, NEW i, i # 0, NEW y, NEW c, NEW todo, IsMove(todo, i, y, c)
    PROVE  InOrder(histories, todo)
<1>1. /\ Sequence(todo) /\ DOMAIN todo = {1, 2, 3}
      /\ PlaceNone(todo[1]) /\ PlaceNone(todo[2])
      /\ \E m \in DOMAIN todo[2] : Records(todo[2][m], i, y, c)
      /\ Sequence(todo[3]) /\ DOMAIN todo[3] = {1}
      /\ todo[3][1].table = "students" /\ todo[3][1].id = i
      /\ {"year", "class"} \subseteq DOMAIN todo[3][1].columns
      /\ todo[3][1].columns.year = y /\ todo[3][1].columns.class = c
  BY DEF IsMove
<1>2. Noted(todo, 3, i, y, c)
  BY <1>1 DEF Noted
<1>3. /\ HistoryStatement(todo[3][1]) /\ todo[3][1].id # 0
      /\ Placed(todo, 3, 1) /\ Followed(histories, todo, 3, 1)
  BY <1>1, <1>2 DEF HistoryStatement, Placed, Followed
<1> QED BY <1>1, <1>3 DEF InOrder, Transactions, PlaceNone, Places

\* Counting by threes and by twos.
LEMMA Threes ==
    ASSUME NEW n \in Nat, NEW k \in 1..(3 * n)
    PROVE  /\ 1 + ((k - 1) \div 3) \in 1..n /\ 1 + ((k - 1) % 3) \in {1, 2, 3}
           /\ 1 + ((k - 1) % 3) = 3 =>
                /\ k - 1 \in 1..(3 * n) /\ k - 1 < k
                /\ 1 + (((k - 1) - 1) \div 3) = 1 + ((k - 1) \div 3)
                /\ 1 + (((k - 1) - 1) % 3) = 2
OBVIOUS

\* By twos.
LEMMA Twos ==
    ASSUME NEW n \in Nat, NEW k \in 1..(2 * n)
    PROVE  1 + ((k - 1) \div 2) \in 1..n /\ 1 + ((k - 1) % 2) \in {1, 2}
OBVIOUS

\* Moves in turn: the record of a student comes just before it is placed.
LEMMA MovesInTurn ==
    ASSUME ProgressionInv, NEW q, Sequence(q), NEW y, NEW f,
           \A n \in DOMAIN q : q[n] # 0 /\ \E c, st : f[q[n]] = Progression!Move(q[n], y, c, st)
    PROVE  InOrder(rows.histories, Progression!InTurn(q, 3, f))
<1> DEFINE p == Progression!InTurn(q, 3, f)
           Of(k) == 1 + ((k - 1) \div 3)
           At3(k) == 1 + ((k - 1) % 3)
<1>1. Len(q) \in Nat /\ DOMAIN q = 1..Len(q)
  BY SequenceFacts
<1>2. p = [k \in 1..(3 * Len(q)) |-> f[q[Of(k)]][At3(k)]]
  BY DEF Progression!InTurn
<1> HIDE DEF p
<1>3. /\ DOMAIN p = 1..(3 * Len(q)) /\ Sequence(p)
      /\ \A k \in DOMAIN p : p[k] = f[q[Of(k)]][At3(k)]
  <2>1. p = [k \in 1..(3 * Len(q)) |-> p[k]] /\ 3 * Len(q) \in Nat
    BY <1>1, <1>2
  <2>2. Sequence(p)
    BY <2>1, FunctionSequence
  <2> QED BY <1>2, <2>2
<1>4. ASSUME NEW k \in DOMAIN p
      PROVE  /\ Of(k) \in DOMAIN q /\ At3(k) \in {1, 2, 3}
             /\ At3(k) = 3 => /\ k - 1 \in DOMAIN p /\ k - 1 < k
                              /\ Of(k - 1) = Of(k) /\ At3(k - 1) = 2
  BY <1>1, <1>3, Threes
<1> HIDE DEF Of, At3
<1>5. ASSUME NEW k \in DOMAIN p
      PROVE  /\ Sequence(p[k])
             /\ \A m \in DOMAIN p[k] :
                  /\ HistoryStatement(p[k][m])
                  /\ p[k][m].table = "students" => p[k][m].id # 0
                  /\ Places(p, k, m) => Placed(p, k, m) /\ Followed(rows.histories, p, k, m)
  <2> DEFINE i == q[Of(k)]
  <2>1. PICK c, st : f[i] = Progression!Move(i, y, c, st)
    BY <1>4
  <2>2. i # 0
    BY <1>4
  <2> DEFINE todo == f[i]
  <2>3. /\ PlaceNone(todo[1]) /\ PlaceNone(todo[2])
        /\ \E m \in DOMAIN todo[2] : Records(todo[2][m], i, y, c)
        /\ Sequence(todo[3]) /\ DOMAIN todo[3] = {1}
        /\ todo[3][1].table = "students" /\ todo[3][1].id = i
        /\ {"year", "class"} \subseteq DOMAIN todo[3][1].columns
        /\ todo[3][1].columns.year = y /\ todo[3][1].columns.class = c
    <3>1. IsMove(todo, i, y, c)
      <4> HIDE DEF i
      <4> QED BY <2>1, <2>2, MoveFacts
    <3> HIDE DEF todo, i
    <3> QED BY <3>1 DEF IsMove
  <2>4. p[k] = todo[At3(k)]
    BY <1>3
  <2>5. CASE At3(k) # 3
    <3>1. PlaceNone(p[k])
      BY <1>4, <2>3, <2>4, <2>5
    <3> QED BY <3>1 DEF PlaceNone, Places
  <2>6. CASE At3(k) = 3
    <3>1. p[k] = todo[3]
      BY <2>4, <2>6
    <3>2. k - 1 \in DOMAIN p /\ k - 1 < k /\ p[k - 1] = todo[2]
      BY <1>3, <1>4, <2>6
    <3>3. Noted(p, k, i, y, c)
      BY <2>3, <3>2 DEF Noted
    <3> HIDE DEF todo, i
    <3>4. /\ HistoryStatement(p[k][1]) /\ p[k][1].id # 0 /\ DOMAIN p[k] = {1} /\ Sequence(p[k])
          /\ Placed(p, k, 1) /\ Followed(rows.histories, p, k, 1)
      BY <2>2, <2>3, <3>1, <3>3 DEF HistoryStatement, Placed, Followed
    <3> QED BY <3>4
  <2> QED BY <2>5, <2>6
<1>6. InOrder(rows.histories, p)
  BY <1>3, <1>5 DEF InOrder, Transactions
<1> QED BY <1>6 DEF p

\* Those who graduate stay where they are.
LEMMA GraduatesInTurn ==
    ASSUME ProgressionInv, NEW q, Sequence(q), NEW f,
           \A n \in DOMAIN q : q[n] # 0 /\ f[q[n]] = Progression!Graduate(q[n])
    PROVE  InOrder(rows.histories, Progression!InTurn(q, 2, f))
<1> DEFINE p == Progression!InTurn(q, 2, f)
           Of(k) == 1 + ((k - 1) \div 2)
           At2(k) == 1 + ((k - 1) % 2)
<1>1. Len(q) \in Nat /\ DOMAIN q = 1..Len(q)
  BY SequenceFacts
<1>2. p = [k \in 1..(2 * Len(q)) |-> f[q[Of(k)]][At2(k)]]
  BY DEF Progression!InTurn
<1> HIDE DEF p
<1>3. /\ DOMAIN p = 1..(2 * Len(q)) /\ Sequence(p)
      /\ \A k \in DOMAIN p : p[k] = f[q[Of(k)]][At2(k)]
  <2>1. p = [k \in 1..(2 * Len(q)) |-> p[k]] /\ 2 * Len(q) \in Nat
    BY <1>1, <1>2
  <2>2. Sequence(p)
    BY <2>1, FunctionSequence
  <2> QED BY <1>2, <2>2
<1>4. \A k \in DOMAIN p : Of(k) \in DOMAIN q /\ At2(k) \in {1, 2}
  BY <1>1, <1>3, Twos
<1> HIDE DEF Of, At2
<1>5. ASSUME NEW i, i # 0
      PROVE  PlaceNone(Progression!Graduate(i)[1]) /\ PlaceNone(Progression!Graduate(i)[2])
  <2> DEFINE row  == [status |-> "GRADUATED"]
             put  == Progression!Put("students", i, row)
             a    == Progression!Conclude(i, "GRADUATED")
             b    == <<put>>
             todo == <<a, b>>
  <2>1. PlaceNone(a)
    BY ConcludeFacts
  <2>2. DOMAIN row = {"status"}
    OBVIOUS
  <2>3. put.table = "students" /\ put.id = i /\ put.columns = row
    BY ProgressionStatements
  <2>4. PlaceNone(b)
    <3> HIDE DEF row, put
    <3> QED BY <1>5, <2>2, <2>3, OneStays
  <2>5. Progression!Graduate(i) = todo
    BY DEF Progression!Graduate
  <2> HIDE DEF a, b
  <2>6. todo[1] = a /\ todo[2] = b
    BY TwoElements
  <2> QED BY <2>1, <2>4, <2>5, <2>6
<1>6. \A k \in DOMAIN p : PlaceNone(p[k])
  BY <1>3, <1>4, <1>5
<1>7. InOrder(rows.histories, p)
  BY <1>3, <1>6, InOrderNone
<1> QED BY <1>7 DEF p

\* One transaction, or one after the others, that places no one.
LEMMA NoneKeeps ==
    ASSUME ProgressionInv, NEW s \in Session, NEW tr, PlaceNone(tr),
           Progression!RequestAll(s, {}, <<tr>>)
    PROVE  ProgressionInv'
<1> DEFINE todo == <<tr>>
<1>1. InOrder(rows.histories, todo)
  BY InOrderOne
<1>2. rows' = rows /\ work' = [work EXCEPT ![s] = [locks |-> {}, todo |-> todo]]
  BY ProgressionRequests
<1> HIDE DEF todo
<1> QED BY <1>1, <1>2, InOrderKeeps

\* One statement about another table, or about a student who stays.
LEMMA OneKeeps ==
    ASSUME ProgressionInv, NEW s \in Session, NEW st,
           Progression!Request(s, <<st>>),
           \/ st.table \notin {"students", "histories"}
           \/ st.table = "students" /\ st.id # 0 /\ "year" \notin DOMAIN st.columns
    PROVE  ProgressionInv'
<1>1. PlaceNone(<<st>>)
  BY OneElsewhere, OneStays
<1> DEFINE tr == <<st>>
<1>2. PlaceNone(tr) /\ Progression!RequestAll(s, {}, <<tr>>)
  BY <1>1, ProgressionRequests
<1> HIDE DEF tr
<1> QED BY <1>2, NoneKeeps

\* The flag of the current year is put aside in a transaction of its own.
LEMMA AsideFacts ==
    ASSUME ProgressionInv, NEW y
    PROVE  InOrder(rows.histories, Progression!PutAside(y))
<1> DEFINE S   == Progression!Current \ {y}
           row == [current |-> FALSE]
<1>1. S \in SUBSET (DOMAIN rows["years"])
  BY ProgressionStatements DEF Progression!Current, Live
<1> HIDE DEF S
<1>2. IsFiniteSet(S)
  BY <1>1, FiniteRows DEF ProgressionInv, ProgressionRowsOK
<1> HIDE DEF row
<1>3. \A t : t = "years" => t \notin {"students", "histories"}
  OBVIOUS
<1>4. PlaceNone(UpdateEach("years", S, row))
  <2> DEFINE t == "years"
  <2>1. t \notin {"students", "histories"}
    BY <1>3
  <2> HIDE DEF t
  <2>2. PlaceNone(UpdateEach(t, S, row))
    BY <1>2, <2>1, EachElsewhere
  <2> QED BY <2>2 DEF t
<1>5. InOrder(rows.histories, <<UpdateEach("years", S, row)>>)
  BY <1>4, InOrderOne
<1> QED BY <1>5, InOrderNothing, ProgressionStatements DEF Progression!PutAside, S, row

\* The years and the rules.
LEMMA CalendarKeeps ==
    ASSUME ProgressionInv, NEW s \in Session,
           \/ Progression!CreateAcademicYear(s) \/ Progression!UpdateAcademicYear(s)
           \/ Progression!DeleteAcademicYear(s)
           \/ Progression!CreateRule(s) \/ Progression!UpdateRule(s) \/ Progression!DeleteRule(s)
    PROVE  ProgressionInv'
<1>1. \A t, row : Progression!Insert(t, row).table = t
  BY StatementFacts, ProgressionStatements
<1>2. \A t, i, columns : Progression!Update(t, i, columns).table = t
  BY StatementFacts, ProgressionStatements
<1>3. ASSUME NEW todo, InOrder(rows.histories, todo), NEW st, st.table = "years",
             Progression!RequestAll(s, {}, todo \o <<<<st>>>>)
      PROVE  ProgressionInv'
  <2>1. PlaceNone(<<st>>)
    BY <1>3, OneElsewhere
  <2> DEFINE last == <<<<st>>>>
             all  == todo \o last
  <2>2. InOrder(rows.histories, last)
    BY <2>1, InOrderOne
  <2>3. InOrder(rows.histories, all)
    <3> HIDE DEF last
    <3> QED BY <1>3, <2>2, InOrderBoth
  <2>4. Progression!RequestAll(s, {}, all)
    BY <1>3
  <2> HIDE DEF all
  <2>5. rows' = rows /\ work' = [work EXCEPT ![s] = [locks |-> {}, todo |-> all]]
    BY <2>4, ProgressionRequests
  <2> QED BY <2>3, <2>5, InOrderKeeps
<1>4. CASE Progression!CreateAcademicYear(s)
  <2>1. PICK cur \in BOOLEAN :
          Progression!RequestAll(s, {}, (IF cur THEN Progression!PutAside(0) ELSE <<>>)
            \o <<<<Progression!Insert("years", [status |-> "UPCOMING", current |-> cur,
                                                deleted |-> FALSE])>>>>)
    BY <1>4 DEF Progression!CreateAcademicYear
  <2> DEFINE todo == IF cur THEN Progression!PutAside(0) ELSE <<>>
             st == Progression!Insert("years", [status |-> "UPCOMING", current |-> cur,
                                                deleted |-> FALSE])
  <2>2. InOrder(rows.histories, todo)
    BY AsideFacts, InOrderNothing
  <2>3. st.table = "years"
    BY <1>1
  <2>4. Progression!RequestAll(s, {}, todo \o <<<<st>>>>)
    BY <2>1
  <2> HIDE DEF todo, st
  <2> QED BY <1>3, <2>2, <2>3, <2>4
<1>5. CASE Progression!UpdateAcademicYear(s)
  <2>1. PICK y \in Progression!Live("years"), to \in Progression!YearStatus, cur \in BOOLEAN :
          Progression!RequestAll(s, {}, (IF cur THEN Progression!PutAside(y) ELSE <<>>)
            \o <<<<Progression!Update("years", y, [status |-> to, current |-> cur])>>>>)
    BY <1>5 DEF Progression!UpdateAcademicYear
  <2> DEFINE todo == IF cur THEN Progression!PutAside(y) ELSE <<>>
             st == Progression!Update("years", y, [status |-> to, current |-> cur])
  <2>2. InOrder(rows.histories, todo)
    BY AsideFacts, InOrderNothing
  <2>3. st.table = "years"
    BY <1>2
  <2>4. Progression!RequestAll(s, {}, todo \o <<<<st>>>>)
    BY <2>1
  <2> HIDE DEF todo, st
  <2> QED BY <1>3, <2>2, <2>3, <2>4
<1>6. CASE Progression!DeleteAcademicYear(s)
  <2>1. PICK y : Progression!Request(s, <<Progression!Update("years", y, [deleted |-> TRUE])>>)
    BY <1>6 DEF Progression!DeleteAcademicYear
  <2> QED BY <1>2, <2>1, OneKeeps
<1>7. CASE Progression!CreateRule(s)
  <2>1. PICK c, t : Progression!Request(s, <<Progression!Insert("rules",
                        [source |-> c, target |-> t, deleted |-> FALSE])>>)
    BY <1>7 DEF Progression!CreateRule
  <2> QED BY <1>1, <2>1, OneKeeps
<1>8. CASE Progression!UpdateRule(s)
  <2>1. PICK r, t : Progression!Request(s, <<Progression!Update("rules", r, [target |-> t])>>)
    BY <1>8 DEF Progression!UpdateRule
  <2> QED BY <1>2, <2>1, OneKeeps
<1>9. CASE Progression!DeleteRule(s)
  <2>1. PICK r : Progression!Request(s, <<Progression!Update("rules", r, [deleted |-> TRUE])>>)
    BY <1>9 DEF Progression!DeleteRule
  <2> QED BY <1>2, <2>1, OneKeeps
<1> QED BY <1>4, <1>5, <1>6, <1>7, <1>8, <1>9

\* A student is a row, and not number 0.
LEMMA StudentNumber ==
    ASSUME ProgressionInv, NEW i \in Progression!Live("students")
    PROVE  i \in DOMAIN rows.students /\ i # 0
BY RowNumber, ProgressionStatements DEF Live, ProgressionInv, ProgressionRowsOK

\* What is changed of a student, its promotion or retention, its certificate.
LEMMA StudentKeeps ==
    ASSUME ProgressionInv, NEW s \in Session,
           \/ Progression!UpdateStudent(s) \/ Progression!DeleteStudent(s)
           \/ Progression!PromoteStudent(s) \/ Progression!RetainStudent(s)
           \/ Progression!IssueTransferCertificate(s)
    PROVE  ProgressionInv'
<1>1. ASSUME NEW i \in Progression!Live("students"), NEW row, "year" \notin DOMAIN row,
             Progression!Request(s, <<Progression!Update("students", i, row)>>)
      PROVE  ProgressionInv'
  <2> DEFINE st == Progression!Update("students", i, row)
  <2>1. st.table = "students" /\ st.id = i /\ "year" \notin DOMAIN st.columns /\ i # 0
    BY <1>1, StatementFacts, ProgressionStatements, StudentNumber
  <2>2. Progression!Request(s, <<st>>)
    BY <1>1
  <2> HIDE DEF st
  <2> QED BY <2>1, <2>2, OneKeeps
<1>2. CASE Progression!UpdateStudent(s)
  <2>1. PICK i \in Progression!Live("students"), to \in Progression!StudentStatus :
            Progression!Request(s, <<Progression!Update("students", i, [status |-> to])>>)
    BY <1>2 DEF Progression!UpdateStudent
  <2> DEFINE row == [status |-> to]
  <2>2. "year" \notin DOMAIN row /\ Progression!Request(s, <<Progression!Update("students", i, row)>>)
    BY <2>1
  <2> HIDE DEF row
  <2> QED BY <1>1, <2>2
<1>3. CASE Progression!DeleteStudent(s)
  <2>1. PICK i \in Progression!Live("students") :
            Progression!Request(s, <<Progression!Update("students", i, [deleted |-> TRUE])>>)
    BY <1>3 DEF Progression!DeleteStudent
  <2> DEFINE row == [deleted |-> TRUE]
  <2>2. "year" \notin DOMAIN row /\ Progression!Request(s, <<Progression!Update("students", i, row)>>)
    BY <2>1
  <2> HIDE DEF row
  <2> QED BY <1>1, <2>2
<1>4. ASSUME NEW i \in Progression!Live("students"), NEW y, NEW c, NEW to,
             Progression!RequestAll(s, {}, Progression!Move(i, y, c, to))
      PROVE  ProgressionInv'
  <2> DEFINE todo == Progression!Move(i, y, c, to)
  <2>1. i # 0
    BY StudentNumber
  <2>2. rows' = rows /\ work' = [work EXCEPT ![s] = [locks |-> {}, todo |-> todo]]
    BY <1>4, ProgressionRequests
  <2>3. InOrder(rows.histories, todo)
    <3>1. IsMove(todo, i, y, c)
      BY <2>1, MoveFacts
    <3> HIDE DEF todo
    <3> QED BY <2>1, <3>1, MoveInOrder
  <2> HIDE DEF todo
  <2> QED BY <2>2, <2>3, InOrderKeeps
<1>5. CASE Progression!PromoteStudent(s)
  <2>1. PICK i \in Progression!Live("students"), y \in Progression!Live("years"), c \in Progression!Class :
            Progression!RequestAll(s, {}, Progression!Move(i, y, c, "PROMOTED"))
    BY <1>5 DEF Progression!PromoteStudent
  <2> QED BY <1>4, <2>1
<1>6. CASE Progression!RetainStudent(s)
  <2>1. PICK i \in Progression!Live("students"), y \in Progression!Live("years"), c \in Progression!Class :
            Progression!RequestAll(s, {}, Progression!Move(i, y, c, "RETAINED"))
    BY <1>6 DEF Progression!RetainStudent
  <2> QED BY <1>4, <2>1
<1>7. CASE Progression!IssueTransferCertificate(s)
  <2>1. PICK i \in Progression!Live("students") :
            Progression!RequestAll(s, {}, <<<<Progression!Insert("certificates", [student |-> i])>>,
                Progression!Conclude(i, "TRANSFERRED"),
                <<Progression!Put("students", i, [status |-> "TRANSFERRED"])>>>>)
    BY <1>7 DEF Progression!IssueTransferCertificate
  <2> DEFINE cert == Progression!Insert("certificates", [student |-> i])
             row  == [status |-> "TRANSFERRED"]
             put  == Progression!Put("students", i, row)
             a    == <<cert>>
             b    == Progression!Conclude(i, "TRANSFERRED")
             c    == <<put>>
             todo == <<a, b, c>>
  <2>2. rows' = rows /\ work' = [work EXCEPT ![s] = [locks |-> {}, todo |-> todo]]
    BY <2>1, ProgressionRequests
  <2>3. PlaceNone(a)
    <3>1. cert.table = "certificates"
      BY StatementFacts, ProgressionStatements
    <3> HIDE DEF cert
    <3> QED BY <3>1, OneElsewhere
  <2>4. PlaceNone(b)
    BY ConcludeFacts
  <2>5. PlaceNone(c)
    <3>1. DOMAIN row = {"status"}
      OBVIOUS
    <3>2. put.table = "students" /\ put.id = i /\ put.columns = row /\ i # 0
      BY ProgressionStatements, StudentNumber
    <3> HIDE DEF row, put
    <3> QED BY <3>1, <3>2, OneStays
  <2> HIDE DEF a, b, c
  <2>6. /\ Sequence(todo) /\ DOMAIN todo = {1, 2, 3}
        /\ todo[1] = a /\ todo[2] = b /\ todo[3] = c
    BY ThreeElements
  <2> HIDE DEF todo
  <2>7. InOrder(rows.histories, todo)
    BY <2>3, <2>4, <2>5, <2>6, InOrderNone
  <2> QED BY <2>2, <2>7, InOrderKeeps
<1> QED BY <1>2, <1>3, <1>5, <1>6, <1>7

\* Statements in a transaction each.
LEMMA SinglyNone ==
    ASSUME NEW histories, NEW q, Sequence(q), \A k \in DOMAIN q : PlaceNone(<<q[k]>>)
    PROVE  InOrder(histories, Progression!Singly(q))
<1> DEFINE todo == Progression!Singly(q)
<1>1. todo = [k \in DOMAIN q |-> <<q[k]>>]
  BY DEF Progression!Singly
<1> HIDE DEF todo
<1>2. Sequence(todo)
  <2>1. Len(q) \in Nat /\ DOMAIN q = 1..Len(q)
    BY SequenceFacts
  <2>2. todo = [k \in 1..Len(q) |-> todo[k]]
    BY <1>1, <2>1
  <2> QED BY <2>1, <2>2, FunctionSequence
<1>3. \A k \in DOMAIN todo : PlaceNone(todo[k])
  BY <1>1
<1>4. InOrder(histories, todo)
  BY <1>2, <1>3, InOrderNone
<1> QED BY <1>4 DEF todo

\* The transition of a year records those who are not, and moves the flag.
LEMMA TransitionKeeps ==
    ASSUME ProgressionInv, NEW s \in Session, Progression!TransitionAcademicYear(s)
    PROVE  ProgressionInv'
<1>1. PICK y \in Progression!Live("years"), t \in Progression!Live("years") :
          LET unrecorded == {i \in Progression!InYear(y) :
                  Progression!Enrolled(i) /\ Progression!HistoryIn(i, y) = {}} IN
          Progression!RequestAll(s, {},
              Progression!Singly(Progression!InsertEach("histories",
                  {[student |-> i, year |-> y, status |-> "ENROLLED",
                    class |-> rows.students[i].class] : i \in unrecorded}))
              \o Progression!Singly(Progression!UpdateEach("years", Progression!Current,
                                                           [current |-> FALSE]))
              \o <<<<Progression!Put("years", t, [current |-> TRUE])>>>>)
  BY DEF Progression!TransitionAcademicYear
<1> DEFINE who == {i \in Progression!InYear(y) :
                      Progression!Enrolled(i) /\ Progression!HistoryIn(i, y) = {}}
           row(i) == [student |-> i, year |-> y, status |-> "ENROLLED",
                      class |-> rows.students[i].class]
           S == {row(i) : i \in who}
           current == Progression!Current
           off == [current |-> FALSE]
           put == Progression!Put("years", t, [current |-> TRUE])
           p == InsertEach("histories", S)
           q == UpdateEach("years", current, off)
           a == Progression!Singly(p)
           b == Progression!Singly(q)
           c == <<<<put>>>>
           todo == a \o b \o c
<1>2. rows' = rows /\ work' = [work EXCEPT ![s] = [locks |-> {}, todo |-> todo]]
  <2>1. /\ Progression!InsertEach("histories", S) = p
        /\ Progression!UpdateEach("years", current, off) = q
    BY ProgressionStatements
  <2> DEFINE sent == Progression!Singly(Progression!InsertEach("histories", S))
                     \o Progression!Singly(Progression!UpdateEach("years", current, off)) \o c
  <2>2. Progression!RequestAll(s, {}, sent)
    BY <1>1
  <2>3. sent = todo
    <3> HIDE DEF p, q, S, current, off, c
    <3> QED BY <2>1
  <2> HIDE DEF sent, todo
  <2> QED BY <2>2, <2>3, ProgressionRequests
<1>3. /\ who \in SUBSET (DOMAIN rows["students"])
      /\ current \in SUBSET (DOMAIN rows["years"])
  BY ProgressionStatements DEF Progression!Current, Progression!InYear, Live
<1>4. \A i : RecordColumns \subseteq DOMAIN row(i)
  BY DEF RecordColumns
<1>5. \A i : PlaceNone(<<Insert("histories", row(i))>>)
  BY <1>4, OneRecord
<1> HIDE DEF who, current
<1>6. IsFiniteSet(who) /\ IsFiniteSet(current)
  BY <1>3, FiniteRows DEF ProgressionInv, ProgressionRowsOK
<1>7. IsFiniteSet(S)
  <2> DEFINE f == [i \in who |-> row(i)]
  <2>1. f = [i \in who |-> f[i]] /\ S = {f[i] : i \in who}
    OBVIOUS
  <2> HIDE DEF f
  <2> QED BY <1>6, <2>1, FiniteImage
<1>8. Sequence(p) /\ \A k \in DOMAIN p : PlaceNone(<<p[k]>>)
  <2>1. \A x \in S : PlaceNone(<<Insert("histories", x)>>)
    BY <1>5
  <2> HIDE DEF S
  <2>2. Sequence(p) /\ \A k \in DOMAIN p : \E x \in S : p[k] = Insert("histories", x)
    BY <1>7, EachStatement
  <2> HIDE DEF p
  <2> QED BY <2>1, <2>2
<1>9. Sequence(q) /\ \A k \in DOMAIN q : PlaceNone(<<q[k]>>)
  <2>1. Sequence(q) /\ \A k \in DOMAIN q : \E x \in current : q[k] = Update("years", x, off)
    BY <1>6, EachSequence, EachOne
  <2>2. \A x : Update("years", x, off).table = "years"
    BY StatementFacts
  <2> HIDE DEF q
  <2> QED BY <2>1, <2>2, OneElsewhere
<1>10. PlaceNone(<<put>>)
  <2>1. put.table = "years"
    BY ProgressionStatements
  <2> HIDE DEF put
  <2> QED BY <2>1, OneElsewhere
<1> HIDE DEF p, q, put
<1>11. /\ InOrder(rows.histories, a) /\ InOrder(rows.histories, b) /\ InOrder(rows.histories, c)
  BY <1>8, <1>9, <1>10, SinglyNone, InOrderOne
<1> HIDE DEF a, b, c
<1>12. InOrder(rows.histories, todo)
  BY <1>11, InOrderBoth
<1> HIDE DEF todo
<1> QED BY <1>2, <1>12, InOrderKeeps

\* Students of a year are rows, and finitely many.
LEMMA InYearFacts ==
    ASSUME ProgressionInv, NEW y, NEW S \in SUBSET Progression!InYear(y), NEW c
    PROVE  LET q == Listed({i \in S : rows.students[i].class = c}) IN
           Sequence(q) /\ \A n \in DOMAIN q : q[n] \in S /\ q[n] # 0
<1> DEFINE T == {i \in S : rows.students[i].class = c}
           q == Listed(T)
<1>1. T \in SUBSET (DOMAIN rows["students"]) /\ T \subseteq S
  BY ProgressionStatements DEF Progression!InYear, Live
<1> HIDE DEF T
<1>2. IsFiniteSet(T) /\ 0 \notin T
  BY <1>1, FiniteRows, RowNumber DEF ProgressionInv, ProgressionRowsOK
<1>3. Sequence(q) /\ \A n \in DOMAIN q : q[n] \in T
  BY <1>2, ListedFacts
<1> HIDE DEF q
<1>4. Sequence(q) /\ \A n \in DOMAIN q : q[n] \in S /\ q[n] # 0
  BY <1>1, <1>2, <1>3
<1> QED BY <1>4 DEF q, T

\* The moves of an execution, class after class.
LEMMA MovesOfInOrder ==
    ASSUME ProgressionInv, NEW c, NEW y, NEW t
    PROVE  InOrder(rows.histories, Progression!MovesOf(c, y, t))
<1> DEFINE up   == {i \in Progression!Promoted(y) : rows.students[i].class = c}
           out  == {i \in Progression!Graduates(y) : rows.students[i].class = c}
           f    == [i \in Progression!Promoted(y) |->
                       Progression!Move(i, t, Progression!NextClass(i), "PROMOTED")]
           g    == [i \in Progression!Graduates(y) |-> Progression!Graduate(i)]
           p    == Listed(up)
           q    == Listed(out)
           a    == Progression!InTurn(p, 3, f)
           b    == Progression!InTurn(q, 2, g)
<1>1. Progression!MovesOf(c, y, t) = a \o b
  BY ProgressionStatements DEF Progression!MovesOf
<1>2. Progression!Promoted(y) \subseteq Progression!InYear(y)
      /\ Progression!Graduates(y) \subseteq Progression!InYear(y)
  BY DEF Progression!Promoted, Progression!Graduates
<1>3. /\ Sequence(p) /\ \A n \in DOMAIN p : p[n] \in Progression!Promoted(y) /\ p[n] # 0
      /\ Sequence(q) /\ \A n \in DOMAIN q : q[n] \in Progression!Graduates(y) /\ q[n] # 0
  BY <1>2, InYearFacts
<1>4. \A n \in DOMAIN p : \E d, st : f[p[n]] = Progression!Move(p[n], t, d, st)
  <2> TAKE n \in DOMAIN p
  <2>1. f[p[n]] = Progression!Move(p[n], t, Progression!NextClass(p[n]), "PROMOTED")
    BY <1>3
  <2> QED BY <2>1
<1>5. \A n \in DOMAIN q : g[q[n]] = Progression!Graduate(q[n])
  BY <1>3
<1> HIDE DEF p, q, f, g
<1>6. InOrder(rows.histories, a)
  BY <1>3, <1>4, MovesInTurn
<1>7. InOrder(rows.histories, b)
  BY <1>3, <1>5, GraduatesInTurn
<1> HIDE DEF a, b
<1> QED BY <1>1, <1>6, <1>7, InOrderBoth

\* The turn of the years touches no student.
LEMMA TurnInOrder ==
    ASSUME ProgressionInv, NEW y, NEW t
    PROVE  InOrder(rows.histories, Progression!TurnYears(y, t))
<1> DEFINE off(k) == IF k = y THEN [current |-> FALSE, status |-> "ARCHIVED"]
                              ELSE [current |-> FALSE]
           on == [current |-> TRUE, status |-> "ACTIVE"]
           a == [k \in DOMAIN rows.years |-> Progression!Put("years", k, off(k))]
           put == Progression!Put("years", t, on)
           b == <<put>>
           todo == <<a, b>>
<1>1. Progression!TurnYears(y, t) = todo
  BY DEF Progression!TurnYears
<1>2. PlaceNone(a)
  <2>1. Sequence(rows["years"])
    BY DEF ProgressionInv, ProgressionRowsOK, WellFormed
  <2>2. Len(rows.years) \in Nat /\ DOMAIN rows.years = 1..Len(rows.years)
    BY <2>1, SequenceFacts
  <2>3. \A k \in DOMAIN a : a[k].table = "years"
    <3> HIDE DEF off
    <3> QED BY ProgressionStatements
  <2>4. a = [k \in 1..Len(rows.years) |-> a[k]]
    BY <2>2
  <2> HIDE DEF a
  <2>5. Sequence(a)
    BY <2>2, <2>4, FunctionSequence
  <2> QED BY <2>3, <2>5, PlaceElsewhere
<1>3. PlaceNone(b)
  <2>1. put.table = "years"
    BY ProgressionStatements
  <2> HIDE DEF put
  <2> QED BY <2>1, OneElsewhere
<1> HIDE DEF a, b
<1>4. Sequence(todo) /\ DOMAIN todo = {1, 2} /\ todo[1] = a /\ todo[2] = b
  BY TwoElements
<1> HIDE DEF todo
<1> QED BY <1>1, <1>2, <1>3, <1>4, InOrderNone

\* An execution: the moves, the years, and its own end.
LEMMA ExecuteKeeps ==
    ASSUME ProgressionInv, NEW s \in Session, Progression!ExecuteProgression(s)
    PROVE  ProgressionInv'
<1>1. PICK y, t, k :
        Progression!RequestAll(s, {<<"students", i>> : i \in Progression!InYear(y)}
                                      \cup {<<"executions", Progression!NextExecution>>},
          Progression!Within([key |-> k, source |-> y, target |-> t, status |-> "RUNNING"],
                 Progression!MovesTo(y, t) \o Progression!TurnYears(y, t))
          \o <<<<Progression!Put("executions", Progression!NextExecution,
                                 [status |-> "COMPLETED"])>>>>)
  BY DEF Progression!ExecuteProgression
<1> DEFINE locks == {<<"students", i>> : i \in Progression!InYear(y)}
                       \cup {<<"executions", Progression!NextExecution>>}
           exec == [key |-> k, source |-> y, target |-> t, status |-> "RUNNING"]
           done == [status |-> "COMPLETED"]
           put == Progression!Put("executions", Progression!NextExecution, done)
           a == Progression!MovesTo(y, t)
           b == Progression!TurnYears(y, t)
           c == Progression!Within(exec, a \o b)
           d == <<<<put>>>>
           todo == c \o d
<1>2. Progression!RequestAll(s, locks, todo)
  BY <1>1
<1>3. rows' = rows /\ work' = [work EXCEPT ![s] = [locks |-> locks, todo |-> todo]]
  <2> HIDE DEF locks, todo
  <2> QED BY <1>2, ProgressionRequests
<1> HIDE DEF exec
<1>4. InOrder(rows.histories, a)
  BY MovesOfInOrder, InOrderBoth DEF Progression!MovesTo
<1>5. InOrder(rows.histories, b)
  BY TurnInOrder
<1> HIDE DEF a, b
<1>6. InOrder(rows.histories, c)
  BY <1>4, <1>5, InOrderBoth, InOrderWithin
<1>7. PlaceNone(<<put>>)
  <2>1. put.table = "executions"
    BY ProgressionStatements
  <2> HIDE DEF put
  <2> QED BY <2>1, OneElsewhere
<1> HIDE DEF put
<1>8. InOrder(rows.histories, d)
  BY <1>7, InOrderOne
<1> HIDE DEF c, d
<1>9. InOrder(rows.histories, todo)
  BY <1>6, <1>8, InOrderBoth
<1> HIDE DEF locks, todo
<1> QED BY <1>3, <1>9, InOrderKeeps

\* A student who is in no year is admitted under a lock, and recorded next.
LEMMA CreateKeeps ==
    ASSUME ProgressionInv, NEW s \in Session, Progression!CreateStudent(s)
    PROVE  ProgressionInv'
<1>1. PICK i, y, c :
        /\ i \in DOMAIN rows.students /\ rows.students[i].year = None
        /\ Progression!RequestAll(s, {<<"students", i>>},
              <<<<Progression!Update("students", i, [year |-> y, class |-> c, deleted |-> FALSE])>>,
                <<Progression!Record(i, y, c, "ENROLLED")>>>>)
  BY DEF Progression!CreateStudent
<1> DEFINE row  == [year |-> y, class |-> c, deleted |-> FALSE]
           st   == Progression!Update("students", i, row)
           a    == <<st>>
           b    == <<Progression!Record(i, y, c, "ENROLLED")>>
           todo == <<a, b>>
           locks == {<<"students", i>>}
<1>2. rows' = rows /\ work' = [work EXCEPT ![s] = [locks |-> locks, todo |-> todo]]
  <2>1. Progression!RequestAll(s, locks, todo)
    BY <1>1
  <2> HIDE DEF locks, todo
  <2> QED BY <2>1, ProgressionRequests
<1>3. st.table = "students" /\ st.id = i /\ i # 0
  <2>1. i # 0
    BY <1>1, RowNumber DEF ProgressionInv, ProgressionRowsOK
  <2> HIDE DEF row
  <2> QED BY <2>1, StatementFacts, ProgressionStatements
<1>4. PlaceNone(b)
  BY RecordFacts
<1> HIDE DEF row, st
<1>5. Sequence(a) /\ DOMAIN a = {1} /\ a[1] = st
  BY OneElement
<1> HIDE DEF a, b
<1>6. Sequence(todo) /\ DOMAIN todo = {1, 2} /\ todo[1] = a /\ todo[2] = b
  BY TwoElements
<1> HIDE DEF todo
<1>7. Transactions(todo)
  BY <1>4, <1>5, <1>6 DEF Transactions, PlaceNone
<1>8. WellFormed'
  BY <1>2, <1>7, RequestWellFormed DEF ProgressionInv
<1>9. ProgressionRowsOK'
  BY <1>2 DEF ProgressionInv, ProgressionRowsOK
<1>10. \A r \in Session : /\ work'[r].todo = IF r = s THEN todo ELSE work[r].todo
                          /\ work'[r].locks = IF r = s THEN locks ELSE work[r].locks
  BY <1>2 DEF ProgressionInv, WellFormed
<1>11. ASSUME NEW r \in Session, NEW k \in DOMAIN work'[r].todo, NEW m \in DOMAIN work'[r].todo[k]
       PROVE  /\ HistoryStatement(work'[r].todo[k][m])
              /\ work'[r].todo[k][m].table = "students" => work'[r].todo[k][m].id # 0
              /\ Places(work'[r].todo, k, m) =>
                    \/ Placed(work'[r].todo, k, m) /\ Followed(rows'.histories, work'[r].todo, k, m)
                    \/ Admits(r, k, m)'
  <2>1. CASE r = s /\ k = 1
    <3>1. m = 1 /\ work'[r].todo[k][m] = st
      BY <1>5, <1>6, <1>10, <1>11, <2>1
    <3>2. Admits(r, k, m)'
      BY <1>1, <1>2, <1>3, <1>10, <2>1, <3>1 DEF Admits
    <3> QED BY <1>3, <3>1, <3>2 DEF HistoryStatement
  <2>2. CASE r = s /\ k # 1
    <3>1. work'[r].todo[k] = b /\ PlaceNone(work'[r].todo[k])
      BY <1>4, <1>6, <1>10, <1>11, <2>2
    <3> QED BY <1>11, <3>1 DEF PlaceNone, Places
  <2>3. CASE r # s
    <3>1. work'[r].todo = work[r].todo /\ work'[r].locks = work[r].locks
      BY <1>10, <2>3, SMTT(30)
    <3>2. Admits(r, k, m) => Admits(r, k, m)'
      BY <1>2, <3>1 DEF Admits
    <3> QED BY <1>2, <1>11, <3>1, <3>2 DEF ProgressionInv
  <2> QED BY <2>1, <2>2, <2>3
<1> QED BY <1>8, <1>9, <1>11 DEF ProgressionInv

\* A request that is given up: its first student is taken back, or its failure noted.
LEMMA GivenUp ==
    ASSUME ProgressionInv, NEW s \in Session, work' = [work EXCEPT ![s] = Untouched],
           NEW t \in DOMAIN rows, t # "histories", NEW i, NEW v,
           rows' = [rows EXCEPT ![t] = [@ EXCEPT ![i] = v]],
           t = "students" => {"year", "class"} \subseteq DOMAIN v /\ v.year = None
    PROVE  ProgressionInv' /\ Progression!MovedIsRecorded
<1> DEFINE new == [rows[t] EXCEPT ![i] = v]
<1>1. DOMAIN new = DOMAIN rows[t] /\ Sequence(new)
      /\ \A j \in DOMAIN new : new[j] = IF j = i THEN v ELSE rows[t][j]
  BY ExceptSequence DEF ProgressionInv, WellFormed
<1>2. rows' = [rows EXCEPT ![t] = new]
  OBVIOUS
<1> HIDE DEF new
<1>3. DOMAIN rows' = DOMAIN rows /\ \A u \in DOMAIN rows : rows'[u] = IF u = t THEN new ELSE rows[u]
  BY <1>2
<1>4. rows'.histories = rows.histories
  BY <1>3 DEF ProgressionInv, ProgressionRowsOK
<1>5. /\ DOMAIN rows'.students = DOMAIN rows.students
      /\ \A j \in DOMAIN rows.students :
            \/ rows'.students[j] = rows.students[j]
            \/ {"year", "class"} \subseteq DOMAIN rows'.students[j] /\ rows'.students[j].year = None
  <2>1. CASE t = "students"
    BY <1>1, <1>3, <2>1
  <2>2. CASE t # "students"
    BY <1>3, <2>2 DEF ProgressionInv, ProgressionRowsOK
  <2> QED BY <2>1, <2>2
<1>6. ProgressionRowsOK'
  BY <1>3, <1>4, <1>5 DEF ProgressionInv, ProgressionRowsOK
<1>7. \A r \in Session : work'[r] = IF r = s THEN Untouched ELSE work[r]
  BY DEF ProgressionInv, WellFormed
<1>8. WellFormed'
  <2>1. \A u \in DOMAIN rows' : Sequence(rows'[u])
    BY <1>1, <1>3 DEF ProgressionInv, WellFormed
  <2>2. Untouched = [locks |-> Untouched.locks, todo |-> Untouched.todo]
        /\ Untouched.todo = <<>> /\ Transactions(<<>>)
    BY EmptySequence DEF Untouched, Transactions
  <2>3. work' = [r \in Session |-> work'[r]]
    BY DEF ProgressionInv, WellFormed
  <2>4. \A r \in Session : /\ work'[r] = [locks |-> work'[r].locks, todo |-> work'[r].todo]
                           /\ Transactions(work'[r].todo)
    BY <1>7, <2>2 DEF ProgressionInv, WellFormed
  <2> QED BY <2>1, <2>3, <2>4 DEF WellFormed
<1>9. ASSUME NEW r \in Session, NEW k \in DOMAIN work'[r].todo, NEW m \in DOMAIN work'[r].todo[k]
      PROVE  /\ HistoryStatement(work'[r].todo[k][m])
             /\ work'[r].todo[k][m].table = "students" => work'[r].todo[k][m].id # 0
             /\ Places(work'[r].todo, k, m) =>
                   \/ Placed(work'[r].todo, k, m) /\ Followed(rows'.histories, work'[r].todo, k, m)
                   \/ Admits(r, k, m)'
  <2>1. r # s
    BY <1>7, <1>9, EmptySequence DEF Untouched
  <2>2. work'[r] = work[r]
    BY <1>7, <2>1, SMTT(20)
  <2>3. Admits(r, k, m) => Admits(r, k, m)'
    BY <1>5, <2>2, Zenon DEF Admits
  <2> QED BY <1>4, <1>9, <2>2, <2>3 DEF ProgressionInv
<1>10. Progression!MovedIsRecorded
  BY <1>5 DEF Progression!MovedIsRecorded
<1> QED BY <1>6, <1>8, <1>9, <1>10 DEF ProgressionInv

\* The two ways to give up a request, and the plain one.
LEMMA SetbackKeeps ==
    ASSUME ProgressionInv, NEW s \in Session,
           Progression!UndoCreateStudent(s) \/ Progression!RecordFailedExecution(s)
    PROVE  ProgressionInv' /\ Progression!MovedIsRecorded
<1>1. /\ "students" \in DOMAIN rows /\ "executions" \in DOMAIN rows
      /\ "students" # "histories" /\ "executions" # "histories" /\ "executions" # "students"
  BY DEF ProgressionInv, ProgressionRowsOK
<1>2. Progression!Untouched = Untouched
  BY DEF Progression!Untouched, Untouched
<1>3. CASE Progression!UndoCreateStudent(s)
  <2> DEFINE v == [year |-> None, class |-> None, status |-> "ACTIVE", deleted |-> TRUE]
             t == "students"
  <2>1. PICK i : /\ rows' = [rows EXCEPT ![t] = [@ EXCEPT ![i] = v]]
                 /\ work' = [work EXCEPT ![s] = Untouched]
    BY <1>2, <1>3 DEF Progression!UndoCreateStudent
  <2>2. {"year", "class"} \subseteq DOMAIN v /\ v.year = None
    OBVIOUS
  <2>3. t \in DOMAIN rows /\ t # "histories"
    BY <1>1
  <2> HIDE DEF v, t
  <2> QED BY <2>1, <2>2, <2>3, GivenUp
<1>4. CASE Progression!RecordFailedExecution(s)
  <2> DEFINE v(e) == [rows.executions[e] EXCEPT !.status = "FAILED"]
             t == "executions"
  <2>1. PICK e : /\ e \in DOMAIN rows.executions
                 /\ rows' = [rows EXCEPT ![t] = [@ EXCEPT ![e] = v(e)]]
                 /\ work' = [work EXCEPT ![s] = Untouched]
    BY <1>2, <1>4 DEF Progression!RecordFailedExecution, Progression!Running
  <2>2. t \in DOMAIN rows /\ t # "histories" /\ t # "students"
    BY <1>1
  <2> HIDE DEF v, t
  <2> QED BY <2>1, <2>2, GivenUp
<1> QED BY <1>3, <1>4

\* A request that is cut short.
LEMMA CutShortKeeps ==
    ASSUME ProgressionInv, NEW s \in Session, Abort(s)
    PROVE  ProgressionInv'
<1>1. rows' = rows /\ work' = [work EXCEPT ![s] = [locks |-> {}, todo |-> <<>>]]
  BY DEF Abort, Untouched
<1> QED BY <1>1, InOrderNothing, InOrderKeeps

\* What the statements of a commit do to the histories and the students.
LEMMA HistoriesStay ==
    ASSUME ProgressionInv, NEW s \in Session, Commit(s)
    PROVE  /\ ProgressionRowsOK'
           /\ \A i, y, c : Recorded(rows.histories, i, y, c) => Recorded(rows'.histories, i, y, c)
           /\ \A k \in DOMAIN Sent(s) : \A i, y, c :
                 Records(Sent(s)[k], i, y, c) => Recorded(rows'.histories, i, y, c)
<1>1. /\ WellFormed /\ {"students", "histories", "years", "executions"} \subseteq DOMAIN rows
      /\ DOMAIN rows' = DOMAIN rows
  BY DEF ProgressionInv, ProgressionRowsOK, Commit
<1>2. /\ Sequence(Sent(s)) /\ Sent(s) = work[s].todo[1] /\ 1 \in DOMAIN work[s].todo
  BY SentWellFormed DEF Commit, ProgressionInv
<1>3. \A k \in DOMAIN Sent(s) : /\ HistoryStatement(Sent(s)[k])
                                /\ Sent(s)[k].table = "students" => Sent(s)[k].id # 0
  BY <1>2 DEF ProgressionInv
<1>4. \A h \in DOMAIN rows.histories :
          /\ h # 0 /\ h \in DOMAIN rows'.histories
          /\ DOMAIN rows'.histories[h] = DOMAIN rows.histories[h]
          /\ \A c \in RecordColumns : rows'.histories[h][c] = rows.histories[h][c]
  <2> TAKE h \in DOMAIN rows.histories
  <2>1. h # 0
    BY <1>1, RowNumber
  <2>2. \A k \in DOMAIN Sent(s) : Sent(s)[k].table = "histories" /\ Sent(s)[k].id = h =>
            DOMAIN Sent(s)[k].columns \cap RecordColumns = {}
    BY <1>3, <2>1 DEF HistoryStatement
  <2>3. RecordColumns \subseteq DOMAIN rows.histories[h]
    BY DEF ProgressionInv, ProgressionRowsOK
  <2>4. /\ h \in DOMAIN rows'["histories"] /\ DOMAIN rows'["histories"][h] = DOMAIN rows["histories"][h]
        /\ \A c \in DOMAIN rows["histories"][h] :
              (\A k \in DOMAIN Sent(s) : Sent(s)[k].table = "histories" /\ Sent(s)[k].id = h
                  => c \notin DOMAIN Sent(s)[k].columns)
              => rows'["histories"][h][c] = rows["histories"][h][c]
    BY <1>1, ColumnKept
  <2> QED BY <2>1, <2>2, <2>3, <2>4
<1>5. PICK from :
        /\ \A h \in DOMAIN rows'["histories"] \ DOMAIN rows["histories"] :
              from[h] \in InsertsInto(s, "histories") /\ rows'["histories"][h] = NewRow(s, from[h])
        /\ \A k \in InsertsInto(s, "histories") :
              \E h \in DOMAIN rows'["histories"] \ DOMAIN rows["histories"] : from[h] = k
  BY <1>1, <1>2, CommitFacts DEF WellFormed
<1>6. ASSUME NEW k \in InsertsInto(s, "histories")
      PROVE  /\ k \in DOMAIN Sent(s) /\ RecordColumns \subseteq DOMAIN NewRow(s, k)
             /\ \A c \in RecordColumns : NewRow(s, k)[c] = Sent(s)[k].columns[c]
  <2>1. /\ k \in DOMAIN Sent(s) /\ Sent(s)[k].refers = <<>>
        /\ RecordColumns \subseteq DOMAIN Sent(s)[k].columns
    BY <1>3, <1>6 DEF InsertsInto, HistoryStatement
  <2> QED BY <2>1, PlainRow
<1>7. \A h \in DOMAIN rows'.histories : RecordColumns \subseteq DOMAIN rows'.histories[h]
  <2> TAKE h \in DOMAIN rows'.histories
  <2>1. CASE h \in DOMAIN rows.histories
    BY <1>4, <2>1 DEF ProgressionInv, ProgressionRowsOK
  <2>2. CASE h \notin DOMAIN rows.histories
    <3>1. from[h] \in InsertsInto(s, "histories") /\ rows'["histories"][h] = NewRow(s, from[h])
      BY <1>5, <2>2
    <3> QED BY <1>6, <3>1
  <2> QED BY <2>1, <2>2
<1>8. /\ DOMAIN rows'.students = DOMAIN rows.students
      /\ \A i \in DOMAIN rows.students : DOMAIN rows'.students[i] = DOMAIN rows.students[i]
  <2>1. InsertsInto(s, "students") = {}
    BY <1>3 DEF InsertsInto
  <2>2. DOMAIN rows'["students"] = DOMAIN rows["students"]
    BY <1>1, <2>1, NothingInserted
  <2>3. \A i \in DOMAIN rows["students"] : DOMAIN rows'["students"][i] = DOMAIN rows["students"][i]
    BY <1>1, ColumnKept
  <2> QED BY <2>2, <2>3
<1>9. ProgressionRowsOK'
  BY <1>1, <1>7, <1>8 DEF ProgressionInv, ProgressionRowsOK
<1>10. ASSUME NEW i, NEW y, NEW c, Recorded(rows.histories, i, y, c)
       PROVE  Recorded(rows'.histories, i, y, c)
  BY <1>4, <1>10 DEF Recorded, RecordColumns
<1>11. ASSUME NEW k \in DOMAIN Sent(s), NEW i, NEW y, NEW c, Records(Sent(s)[k], i, y, c)
       PROVE  Recorded(rows'.histories, i, y, c)
  <2>1. k \in InsertsInto(s, "histories")
    BY <1>11 DEF Records, InsertsInto
  <2>2. PICK h \in DOMAIN rows'.histories : rows'.histories[h] = NewRow(s, k)
    BY <1>5, <2>1
  <2> QED BY <1>6, <1>11, <2>1, <2>2 DEF Records, Recorded, RecordColumns
<1> QED BY <1>9, <1>10, <1>11

\* A commit places a student whom a history already follows.
LEMMA CommitPlaces ==
    ASSUME ProgressionInv, NEW s \in Session, Commit(s)
    PROVE  Progression!MovedIsRecorded
<1> SUFFICES ASSUME NEW i \in DOMAIN rows.students, rows.students[i].year # None,
                    rows'.students[i].year \notin {rows.students[i].year, None}
             PROVE  \E h \in Progression!HistoryIn(i, rows'.students[i].year) :
                       rows.histories[h].class = rows'.students[i].class
  BY DEF Progression!MovedIsRecorded
<1>1. /\ WellFormed /\ "students" \in DOMAIN rows
      /\ {"year", "class"} \subseteq DOMAIN rows["students"][i]
  BY DEF ProgressionInv, ProgressionRowsOK
<1>2. /\ Sequence(Sent(s)) /\ Sent(s) = work[s].todo[1] /\ 1 \in DOMAIN work[s].todo
  BY SentWellFormed DEF Commit, ProgressionInv
<1>3. PICK k \in DOMAIN Sent(s) :
        /\ Sent(s)[k].table = "students" /\ Sent(s)[k].id = i
        /\ "year" \in DOMAIN Sent(s)[k].columns
  <2>1. \/ rows'["students"][i]["year"] = rows["students"][i]["year"]
        \/ \E k \in DOMAIN Sent(s) :
                 /\ Sent(s)[k].table = "students" /\ Sent(s)[k].id = i
                 /\ "year" \in DOMAIN Sent(s)[k].columns
                 /\ rows'["students"][i]["year"] = Sent(s)[k].columns["year"]
    BY <1>1, ColumnSet
  <2> QED BY <2>1
<1>4. Places(work[s].todo, 1, k)
  BY <1>2, <1>3 DEF Places
<1>5. ~Admits(s, 1, k)
  BY <1>2, <1>3 DEF Admits
<1>6. Placed(work[s].todo, 1, k) /\ Followed(rows.histories, work[s].todo, 1, k)
  BY <1>2, <1>4, <1>5 DEF ProgressionInv
<1>7. \A y, c : ~Noted(work[s].todo, 1, i, y, c)
  <2>1. DOMAIN work[s].todo = 1..Len(work[s].todo) /\ Len(work[s].todo) \in Nat
    BY <1>1, SequenceFacts DEF WellFormed, Transactions
  <2> QED BY <2>1 DEF Noted
<1>8. Recorded(rows.histories, i, Sent(s)[k].columns.year, Sent(s)[k].columns.class)
  BY <1>2, <1>3, <1>6, <1>7 DEF Followed
<1>9. \A j \in DOMAIN Sent(s) : Sent(s)[j].table = "students" /\ Sent(s)[j].id = i <=> j = k
  BY <1>2, <1>3, <1>6 DEF Placed
<1>10. \A c \in DOMAIN rows["students"][i] :
          rows'["students"][i][c] = IF c \in DOMAIN Sent(s)[k].columns THEN Sent(s)[k].columns[c]
                                    ELSE rows["students"][i][c]
  BY <1>1, <1>9, OnlyUpdate
<1>11. /\ rows'.students[i].year = Sent(s)[k].columns.year
       /\ rows'.students[i].class = Sent(s)[k].columns.class
  BY <1>1, <1>2, <1>3, <1>6, <1>10 DEF Placed
<1> QED BY <1>8, <1>11 DEF Recorded, Progression!HistoryIn

\* A commit keeps the invariant.
LEMMA PlacesCommit ==
    ASSUME ProgressionInv, NEW s \in Session, Commit(s)
    PROVE  ProgressionInv'
<1>1. WellFormed /\ WellFormed'
  BY CommitWellFormed DEF ProgressionInv
<1>2. /\ ProgressionRowsOK'
      /\ \A i, y, c : Recorded(rows.histories, i, y, c) => Recorded(rows'.histories, i, y, c)
      /\ \A k \in DOMAIN Sent(s) : \A i, y, c :
            Records(Sent(s)[k], i, y, c) => Recorded(rows'.histories, i, y, c)
  BY HistoriesStay
<1> DEFINE todo == work[s].todo
           tail == Tail(todo)
<1>3. /\ Sequence(Sent(s)) /\ Sent(s) = todo[1] /\ 1 \in DOMAIN todo
      /\ \A k \in DOMAIN tail : k + 1 \in DOMAIN todo /\ tail[k] = todo[k + 1]
      /\ Sequence(tail)
  BY <1>1, SentWellFormed DEF Commit, Transactions
<1>4. /\ DOMAIN todo = 1..Len(todo) /\ Len(todo) \in Nat
      /\ DOMAIN tail = 1..Len(tail) /\ Len(tail) \in Nat /\ Len(tail) = Len(todo) - 1
  <2>1. Sequence(todo) /\ todo # <<>>
    BY <1>1 DEF WellFormed, Transactions, Commit
  <2>2. Len(tail) = Len(todo) - 1
    <3>1. PICK S : todo \in Seq(S)
      BY <2>1 DEF Sequence
    <3> HIDE DEF todo
    <3> QED BY <2>1, <3>1, HeadTailProperties
  <2> HIDE DEF todo, tail
  <2> QED BY <1>3, <2>1, <2>2, SequenceFacts
<1>5. \A r \in Session : /\ work'[r].todo = IF r = s THEN tail ELSE work[r].todo
                         /\ r # s => work'[r].locks = work[r].locks
  BY <1>1 DEF Commit, WellFormed
<1> HIDE DEF todo, tail
<1>6. ASSUME NEW r \in Session, NEW k \in DOMAIN work'[r].todo, NEW m \in DOMAIN work'[r].todo[k]
      PROVE  /\ HistoryStatement(work'[r].todo[k][m])
             /\ work'[r].todo[k][m].table = "students" => work'[r].todo[k][m].id # 0
             /\ Places(work'[r].todo, k, m) =>
                   \/ Placed(work'[r].todo, k, m) /\ Followed(rows'.histories, work'[r].todo, k, m)
                   \/ Admits(r, k, m)'
  <2>1. CASE r # s
    <3>1. work'[r].todo = work[r].todo /\ work'[r].locks = work[r].locks
      BY <1>5, <2>1, SMTT(20)
    <3>2. Admits(r, k, m) => Admits(r, k, m)'
      <4> SUFFICES ASSUME Admits(r, k, m) PROVE Admits(r, k, m)'
        OBVIOUS
      <4> DEFINE i == work[r].todo[k][m].id
      <4>1. /\ k = 1 /\ i \in DOMAIN rows["students"] /\ rows["students"][i].year = None
            /\ <<"students", i>> \in work[r].locks
        BY DEF Admits
      <4> HIDE DEF i
      <4>2. "students" \in DOMAIN rows /\ "year" \in DOMAIN rows["students"][i]
            /\ Sequence(rows["students"])
        BY <1>1, <4>1 DEF ProgressionInv, ProgressionRowsOK, WellFormed
      <4>3. rows'["students"][i]["year"] = rows["students"][i]["year"]
        BY <1>3, <2>1, <4>1, <4>2, LockedRowStands
      <4>4. i \in DOMAIN rows'["students"]
        BY <1>1, <4>1, <4>2, ColumnKept
      <4> QED BY <3>1, <4>1, <4>3, <4>4, Zenon DEF Admits, i
    <3>3. Followed(rows.histories, work[r].todo, k, m) => Followed(rows'.histories, work[r].todo, k, m)
      BY <1>2 DEF Followed
    <3> QED BY <1>6, <3>1, <3>2, <3>3 DEF ProgressionInv
  <2>2. CASE r = s
    <3>1. work'[r].todo = tail
      BY <1>5, <2>2
    <3>2. k \in DOMAIN tail /\ k + 1 \in DOMAIN todo /\ tail[k] = todo[k + 1] /\ k \in Nat /\ k + 1 # 1
      BY <1>3, <1>4, <1>6, <3>1
    <3>3. m \in DOMAIN todo[k + 1]
      BY <1>6, <3>1, <3>2
    <3>4. /\ HistoryStatement(todo[k + 1][m])
          /\ todo[k + 1][m].table = "students" => todo[k + 1][m].id # 0
          /\ Places(todo, k + 1, m) =>
                Placed(todo, k + 1, m) /\ Followed(rows.histories, todo, k + 1, m)
      <4>1. ~Admits(s, k + 1, m)
        BY <3>2 DEF Admits
      <4> QED BY <3>2, <3>3, <4>1 DEF ProgressionInv, todo
    <3>5. ASSUME NEW i, NEW y, NEW c, Noted(todo, k + 1, i, y, c)
          PROVE  Noted(tail, k, i, y, c) \/ Recorded(rows'.histories, i, y, c)
      <4>1. PICK j \in DOMAIN todo : j < k + 1 /\ \E n \in DOMAIN todo[j] : Records(todo[j][n], i, y, c)
        BY <3>5 DEF Noted
      <4>2. CASE j = 1
        BY <1>2, <1>3, <4>1, <4>2
      <4>3. CASE j # 1
        <5>1. j - 1 \in DOMAIN tail /\ j - 1 < k /\ (j - 1) + 1 = j
          BY <1>4, <3>2, <4>1, <4>3
        <5>2. tail[j - 1] = todo[j]
          BY <1>3, <5>1
        <5> QED BY <4>1, <5>1, <5>2 DEF Noted
      <4> QED BY <4>2, <4>3
    <3>6. Places(tail, k, m) => Placed(tail, k, m) /\ Followed(rows'.histories, tail, k, m)
      BY <1>2, <3>2, <3>4, <3>5 DEF Places, Placed, Followed
    <3> QED BY <3>1, <3>2, <3>4, <3>6
  <2> QED BY <2>1, <2>2
<1> QED BY <1>1, <1>2, <1>6 DEF ProgressionInv

\* The commit of the desk is that of UnitOfWork.
LEMMA ProgressionSends ==
    ASSUME NEW s \in Session
    PROVE  /\ Progression!Commit(s) => Commit(s)
           /\ Progression!Abort(s) => Abort(s)
BY DEF Progression!Commit, Commit, Progression!Sent, Sent, Progression!Held, Held,
       Progression!Updated, Updated, Progression!Inserted, Inserted, Progression!Listed, Listed,
       Progression!Cardinality, Cardinality, Progression!Abort, Abort, Progression!Idle, Idle,
       Progression!Untouched, Untouched

\* A handler changes no row, and so moves no one.
LEMMA ReadersMoveNone ==
    /\ rows' = rows => Progression!MovedIsRecorded
    /\ \A s, locks, todo : Progression!RequestAll(s, locks, todo) => rows' = rows
    /\ \A s, q : Progression!Request(s, q) => rows' = rows
BY DEF Progression!MovedIsRecorded, Progression!RequestAll, Progression!Request

\* Every step of the desk keeps the invariant, and moves no one who is not recorded.
LEMMA ProgressionKeeps ==
    ASSUME ProgressionInv, Progression!Next
    PROVE  ProgressionInv' /\ Progression!MovedIsRecorded
<1>1. PICK s \in Session :
        \/ Progression!CreateAcademicYear(s) \/ Progression!UpdateAcademicYear(s)
        \/ Progression!DeleteAcademicYear(s)
        \/ Progression!CreateRule(s) \/ Progression!UpdateRule(s) \/ Progression!DeleteRule(s)
        \/ Progression!CreateStudent(s) \/ Progression!UndoCreateStudent(s)
        \/ Progression!UpdateStudent(s) \/ Progression!DeleteStudent(s)
        \/ Progression!PromoteStudent(s) \/ Progression!RetainStudent(s)
        \/ Progression!IssueTransferCertificate(s)
        \/ Progression!TransitionAcademicYear(s)
        \/ Progression!ExecuteProgression(s) \/ Progression!RecordFailedExecution(s)
        \/ Progression!Commit(s) \/ Progression!Abort(s)
  BY DEF Progression!Next
<1>2. ASSUME \/ Progression!CreateAcademicYear(s) \/ Progression!UpdateAcademicYear(s)
             \/ Progression!DeleteAcademicYear(s)
             \/ Progression!CreateRule(s) \/ Progression!UpdateRule(s) \/ Progression!DeleteRule(s)
      PROVE  ProgressionInv' /\ Progression!MovedIsRecorded
  <2>1. rows' = rows
    BY <1>2, ReadersMoveNone DEF Progression!CreateAcademicYear, Progression!UpdateAcademicYear,
       Progression!DeleteAcademicYear, Progression!CreateRule, Progression!UpdateRule,
       Progression!DeleteRule
  <2> QED BY <1>2, <2>1, CalendarKeeps, ReadersMoveNone
<1>3. ASSUME \/ Progression!UpdateStudent(s) \/ Progression!DeleteStudent(s)
             \/ Progression!PromoteStudent(s) \/ Progression!RetainStudent(s)
             \/ Progression!IssueTransferCertificate(s)
      PROVE  ProgressionInv' /\ Progression!MovedIsRecorded
  <2>1. rows' = rows
    BY <1>3, ReadersMoveNone DEF Progression!UpdateStudent, Progression!DeleteStudent,
       Progression!PromoteStudent, Progression!RetainStudent, Progression!IssueTransferCertificate
  <2> QED BY <1>3, <2>1, StudentKeeps, ReadersMoveNone
<1>4. ASSUME \/ Progression!CreateStudent(s) \/ Progression!TransitionAcademicYear(s)
             \/ Progression!ExecuteProgression(s)
      PROVE  ProgressionInv' /\ Progression!MovedIsRecorded
  <2>1. rows' = rows
    BY <1>4, ReadersMoveNone DEF Progression!CreateStudent, Progression!TransitionAcademicYear,
       Progression!ExecuteProgression
  <2> QED BY <1>4, <2>1, CreateKeeps, TransitionKeeps, ExecuteKeeps, ReadersMoveNone
<1>5. CASE Progression!UndoCreateStudent(s) \/ Progression!RecordFailedExecution(s)
  BY <1>5, SetbackKeeps
<1>6. CASE Progression!Commit(s)
  BY <1>6, ProgressionSends, PlacesCommit, CommitPlaces
<1>7. CASE Progression!Abort(s)
  BY <1>7, ProgressionSends, CutShortKeeps, ReadersMoveNone DEF Abort
<1> QED BY <1>1, <1>2, <1>3, <1>4, <1>5, <1>6, <1>7

\* The desk opens with nothing to be committed.
LEMMA ProgressionStart == Progression!Init => ProgressionInv
<1> SUFFICES ASSUME Progression!Init PROVE ProgressionInv
  OBVIOUS
<1>1. PICK second :
        /\ rows = [years |-> <<[status |-> "ACTIVE", current |-> TRUE, deleted |-> FALSE],
                       [status |-> "UPCOMING", current |-> FALSE, deleted |-> FALSE]>>,
           rules |-> <<[source |-> 1, target |-> 2, deleted |-> FALSE],
                       [source |-> 2, target |-> None, deleted |-> FALSE]>>,
           students |-> <<[year |-> 1, class |-> 1, status |-> "ACTIVE", deleted |-> FALSE],
                          [year |-> IF second = None THEN None ELSE 1, class |-> second,
                           status |-> "ACTIVE", deleted |-> second = None]>>,
           histories |-> <<[student |-> 1, year |-> 1, class |-> 1, status |-> "ENROLLED"]>>,
           executions |-> <<>>, certificates |-> <<>>]
        /\ work = [s \in Session |-> Untouched]
  BY DEF Progression!Init, Progression!Start, Progression!Untouched, Untouched
<1>2. /\ DOMAIN rows = {"years", "rules", "students", "histories", "executions", "certificates"}
      /\ \E a, b : rows.years = <<a, b>>
      /\ \E a, b : rows.rules = <<a, b>>
      /\ \E a, b : /\ rows.students = <<a, b>>
                   /\ {"year", "class"} \subseteq DOMAIN a /\ {"year", "class"} \subseteq DOMAIN b
      /\ \E a : rows.histories = <<a>> /\ RecordColumns \subseteq DOMAIN a
      /\ rows.executions = <<>> /\ rows.certificates = <<>>
  <2>1. /\ DOMAIN rows = {"years", "rules", "students", "histories", "executions", "certificates"}
        /\ \E a, b : rows.years = <<a, b>>
        /\ \E a, b : rows.rules = <<a, b>>
        /\ rows.executions = <<>> /\ rows.certificates = <<>>
    BY <1>1
  <2>2. \E a, b : /\ rows.students = <<a, b>>
                  /\ {"year", "class"} \subseteq DOMAIN a /\ {"year", "class"} \subseteq DOMAIN b
    <3> DEFINE a == [year |-> 1, class |-> 1, status |-> "ACTIVE", deleted |-> FALSE]
               b == [year |-> IF second = None THEN None ELSE 1, class |-> second,
                     status |-> "ACTIVE", deleted |-> second = None]
    <3>1. rows.students = <<a, b>>
      BY <1>1
    <3>2. {"year", "class"} \subseteq DOMAIN a /\ {"year", "class"} \subseteq DOMAIN b
      OBVIOUS
    <3> HIDE DEF a, b
    <3> QED BY <3>1, <3>2
  <2>3. \E a : rows.histories = <<a>> /\ RecordColumns \subseteq DOMAIN a
    <3> DEFINE a == [student |-> 1, year |-> 1, class |-> 1, status |-> "ENROLLED"]
    <3>1. rows.histories = <<a>>
      BY <1>1
    <3>2. RecordColumns \subseteq DOMAIN a
      BY DEF RecordColumns
    <3> HIDE DEF a
    <3> QED BY <3>1, <3>2
  <2> QED BY <2>1, <2>2, <2>3
<1>3. /\ Sequence(rows.years) /\ Sequence(rows.rules) /\ Sequence(rows.students)
      /\ Sequence(rows.histories) /\ Sequence(rows.executions) /\ Sequence(rows.certificates)
  BY <1>2, OneElement, TwoElements, EmptySequence
<1>4. \A t \in DOMAIN rows : Sequence(rows[t])
  BY <1>2, <1>3
<1>5. \A i \in DOMAIN rows.students : {"year", "class"} \subseteq DOMAIN rows.students[i]
  BY <1>2, TwoElements
<1>6. \A h \in DOMAIN rows.histories : RecordColumns \subseteq DOMAIN rows.histories[h]
  BY <1>2, OneElement
<1>7. WellFormed
  <2> DEFINE tables == rows
  <2>1. rows = tables /\ \A t \in DOMAIN tables : Sequence(tables[t])
    BY <1>4
  <2> HIDE DEF tables
  <2> QED BY <1>1, <2>1, StartWellFormed
<1>8. \A s \in Session : work[s].todo = <<>>
  BY <1>1 DEF Untouched
<1> QED BY <1>2, <1>5, <1>6, <1>7, <1>8, EmptySequence DEF ProgressionInv, ProgressionRowsOK

\* A step that leaves the rows and the requests.
LEMMA ProgressionStutter ==
    ASSUME ProgressionInv, rows' = rows, work' = work
    PROVE  ProgressionInv'
<1>1. WellFormed'
  <2>1. WellFormed
    BY DEF ProgressionInv
  <2> QED BY <2>1 DEF WellFormed
<1>2. ProgressionRowsOK'
  <2>1. ProgressionRowsOK
    BY SMTT(30) DEF ProgressionInv
  <2> QED BY <2>1 DEF ProgressionRowsOK
<1>3. ASSUME NEW s \in Session, NEW k \in DOMAIN work[s].todo, NEW m \in DOMAIN work[s].todo[k]
      PROVE  /\ HistoryStatement(work[s].todo[k][m])
             /\ work[s].todo[k][m].table = "students" => work[s].todo[k][m].id # 0
             /\ Places(work[s].todo, k, m) =>
                   \/ Placed(work[s].todo, k, m) /\ Followed(rows.histories, work[s].todo, k, m)
                   \/ Admits(s, k, m)'
  BY <1>3 DEF ProgressionInv, Admits
<1> QED BY <1>1, <1>2, <1>3 DEF ProgressionInv

\* At the desk of the academic years, the invariant holds.
ProgressionOK == desk = "progression" => ProgressionInv

(***************************************************************************)
(* Whatever requests overlap and wherever they break off, a student who    *)
(* comes to another year has a history of that year and class: the three   *)
(* commits of a move (and those of every student of a rollover) are in     *)
(* that order, and the only student who is placed first is locked.         *)
(***************************************************************************)
THEOREM MovedIsRecordedAlways == Spec => MovedIsRecorded
<1>1. Init => ProgressionOK
  <2>1. Init /\ desk = "progression" => Progression!Init
    BY DEF Init
  <2> QED BY <2>1, ProgressionStart DEF ProgressionOK
<1>2. ASSUME ProgressionOK, [Next]_vars
      PROVE  /\ ProgressionOK'
             /\ [desk = "progression" => Progression!MovedIsRecorded]_vars
  <2>1. desk' = desk
    BY <1>2 DEF Next, vars
  <2>2. CASE desk # "progression"
    BY <2>1, <2>2, SMTT(20) DEF ProgressionOK
  <2>3. CASE UNCHANGED vars
    <3>1. rows' = rows /\ work' = work
      BY <2>3 DEF vars
    <3> QED BY <1>2, <2>1, <2>3, <3>1, ProgressionStutter DEF ProgressionOK
  <2>4. CASE desk = "progression" /\ Next
    <3>1. Progression!Next
      BY <2>4 DEF Next
    <3>2. ProgressionInv
      BY <1>2, <2>4 DEF ProgressionOK
    <3>3. ProgressionInv' /\ Progression!MovedIsRecorded
      BY <3>1, <3>2, ProgressionKeeps
    <3> QED BY <3>3 DEF ProgressionOK
  <2> QED BY <1>2, <2>2, <2>3, <2>4
<1> QED BY <1>1, <1>2, PTL DEF Spec, MovedIsRecorded
=============================================================================
