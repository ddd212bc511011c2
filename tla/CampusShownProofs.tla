--------------------------- MODULE CampusShownProofs ---------------------------
(***************************************************************************)
(* What the desks show is so, whatever requests overlap and wherever they  *)
(* break off: what is shown as sent, as done, as paid and as lent.         *)
(***************************************************************************)
EXTENDS MCCampus, UnitOfWorkProofs

-----------------------------------------------------------------------------
(***************************************************************************)
(* Notifications.  A statement that shows a notification as sent through   *)
(* a channel with a real provider comes after the message has been handed  *)
(* over: before the request, or in an earlier transaction of it.           *)
(***************************************************************************)
Shown == {"SENT", "DELIVERED"}

Naming == {"event", "about", "channel"}

Honest(notifications, delivered, todo, i, st) ==
    /\ st.table = "delivered" => st.id = 0
    /\ st.table = "notifications" /\ st.id = 0 =>
          /\ Naming \cup {"status"} \subseteq DOMAIN st.columns
          /\ DOMAIN st.refers \subseteq {"about"}
          /\ st.columns.status \in Shown /\ st.columns.channel \notin Mocked =>
                /\ DOMAIN st.refers = {}
                /\ Promised("delivered", delivered, Reception!Message(st.columns), todo, i)
    /\ st.table = "notifications" /\ st.id # 0 =>
          /\ st.id \in DOMAIN notifications
          /\ DOMAIN st.columns \cap Naming = {}
          /\ /\ "status" \in DOMAIN st.columns /\ st.columns.status \in Shown
             /\ notifications[st.id].channel \notin Mocked
             => Promised("delivered", delivered, Reception!Message(notifications[st.id]), todo, i)

\* What most requests leave: nothing about notifications, or one that waits.
Plain(st) ==
    \/ st.table \notin {"notifications", "delivered"}
    \/ /\ st.table = "notifications" /\ st.id = 0
       /\ Naming \cup {"status"} \subseteq DOMAIN st.columns
       /\ DOMAIN st.refers \subseteq {"about"}
       /\ st.columns.status \notin Shown

ReceptionInv ==
    /\ WellFormed /\ {"notifications", "delivered"} \subseteq DOMAIN rows
    /\ \A k \in DOMAIN rows.notifications :
          Naming \cup {"status"} \subseteq DOMAIN rows.notifications[k]
    /\ Reception!ShownAsSentArrived
    /\ \A s \in Session : \A i \in DOMAIN work[s].todo : \A k \in DOMAIN work[s].todo[i] :
          Honest(rows.notifications, rows.delivered, work[s].todo, i, work[s].todo[i][k])

\* A handler that leaves such statements keeps the invariant.
LEMMA ReceptionRequest ==
    ASSUME ReceptionInv, NEW s \in Session, NEW todo, Reception!RequestAll(s, {}, todo),
           Transactions(todo),
           \A i \in DOMAIN todo : \A k \in DOMAIN todo[i] :
              Honest(rows.notifications, rows.delivered, todo, i, todo[i][k])
    PROVE  ReceptionInv'
<1>1. rows' = rows /\ work' = [work EXCEPT ![s] = [locks |-> {}, todo |-> todo]]
  BY DEF Reception!RequestAll
<1>2. WellFormed'
  BY <1>1, RequestWellFormed DEF ReceptionInv
<1>3. \A r \in Session : work'[r].todo = IF r = s THEN todo ELSE work[r].todo
  BY <1>1 DEF ReceptionInv, WellFormed
<1>4. \A r \in Session : \A i \in DOMAIN work'[r].todo : \A k \in DOMAIN work'[r].todo[i] :
          Honest(rows'.notifications, rows'.delivered, work'[r].todo, i, work'[r].todo[i][k])
  BY <1>1, <1>3 DEF ReceptionInv
<1>5. Reception!ShownAsSentArrived'
  BY <1>1 DEF ReceptionInv, Reception!ShownAsSentArrived
<1> QED BY <1>1, <1>2, <1>4, <1>5 DEF ReceptionInv

\* One that leaves plain statements.
LEMMA PlainRequest ==
    ASSUME ReceptionInv, NEW s \in Session, NEW q, Reception!Request(s, q), Sequence(q),
           \A st \in Range(q) : Plain(st)
    PROVE  ReceptionInv'
<1>1. Transactions(<<q>>) /\ DOMAIN <<q>> = {1} /\ <<q>>[1] = q
  BY OneTransaction, OneElement
<1>2. \A k \in DOMAIN q : Plain(q[k])
  BY DEF Range
<1>3. \A k \in DOMAIN q : Honest(rows.notifications, rows.delivered, <<q>>, 1, q[k])
  BY <1>2 DEF Plain, Honest
<1> QED BY <1>1, <1>3, ReceptionRequest DEF Reception!Request

\* The statements of the desk are those of UnitOfWork.
LEMMA ReceptionStatements ==
    /\ \A t, row : Reception!Insert(t, row) = Insert(t, row)
    /\ \A t, S : Reception!InsertEach(t, S) = InsertEach(t, S)
    /\ \A t, S, c, p : Reception!InsertEachFor(t, S, c, p) = InsertEachFor(t, S, c, p)
    /\ \A t, i, columns :
          /\ Reception!Update(t, i, columns).table = t /\ Reception!Update(t, i, columns).id = i
          /\ DOMAIN Reception!Update(t, i, columns).columns \subseteq DOMAIN columns
          /\ \A c \in DOMAIN Reception!Update(t, i, columns).columns :
                Reception!Update(t, i, columns).columns[c] = columns[c]
<1>1. \A t, row : Reception!Insert(t, row) = Insert(t, row)
  BY DEF Reception!Insert, Insert
<1>2. \A t, row, c, p : Reception!InsertFor(t, row, c, p) = InsertFor(t, row, c, p)
  BY DEF Reception!InsertFor, InsertFor
<1>3. \A S : Reception!Listed(S) = Listed(S)
  BY DEF Reception!Listed, Listed, Reception!Cardinality, Cardinality
<1>4. \A t, S : Reception!InsertEach(t, S) = InsertEach(t, S)
  BY <1>1, <1>3 DEF Reception!InsertEach, InsertEach
<1>5. \A t, S, c, p : Reception!InsertEachFor(t, S, c, p) = InsertEachFor(t, S, c, p)
  BY <1>2, <1>3 DEF Reception!InsertEachFor, InsertEachFor
<1>6. \A t, i, columns :
          /\ Reception!Update(t, i, columns).table = t /\ Reception!Update(t, i, columns).id = i
          /\ DOMAIN Reception!Update(t, i, columns).columns \subseteq DOMAIN columns
          /\ \A c \in DOMAIN Reception!Update(t, i, columns).columns :
                Reception!Update(t, i, columns).columns[c] = columns[c]
  BY DEF Reception!Update, Reception!Changed
<1> QED BY <1>1, <1>4, <1>5, <1>6

\* Alerts wait, or are cancelled.
StagedFor(event, about, channels) == {Reception!Staged(event, about, c) : c \in channels}

\* Neither is shown as sent.
LEMMA StagedPlain ==
    ASSUME NEW channels, IsFiniteSet(channels), NEW event, NEW about, NEW staged,
           staged = StagedFor(event, about, channels)
    PROVE  /\ Sequence(Reception!InsertEach("notifications", staged))
           /\ \A st \in Range(Reception!InsertEach("notifications", staged)) : Plain(st)
           /\ Sequence(Reception!InsertEachFor("notifications", staged, "about", "visitors"))
           /\ \A st \in Range(Reception!InsertEachFor("notifications", staged, "about", "visitors")) :
                 Plain(st)
<1> DEFINE one == Reception!InsertEach("notifications", staged)
           two == Reception!InsertEachFor("notifications", staged, "about", "visitors")
<1>1. IsFiniteSet(staged)
  <2> DEFINE f == [c \in channels |-> Reception!Staged(event, about, c)]
  <2>1. f = [c \in channels |-> f[c]] /\ staged = {f[c] : c \in channels}
    BY DEF StagedFor
  <2> HIDE DEF f
  <2> QED BY <2>1, FiniteImage
<1>2. \A x \in staged : /\ Naming \cup {"status"} \subseteq DOMAIN x
                        /\ x.status \notin Shown
  BY DEF StagedFor, Reception!Staged, Reception!New, Naming, Shown
<1>3. one = InsertEach("notifications", staged)
      /\ two = InsertEachFor("notifications", staged, "about", "visitors")
  BY ReceptionStatements
<1> HIDE DEF one, two
<1>4. /\ Sequence(one) /\ \A k \in DOMAIN one : \E x \in staged : one[k] = Insert("notifications", x)
      /\ Sequence(two)
      /\ \A k \in DOMAIN two : \E x \in staged :
            two[k] = InsertFor("notifications", x, "about", "visitors")
  BY <1>1, <1>3, EachStatement
<1>5. \A x \in staged : /\ Plain(Insert("notifications", x))
                        /\ Plain(InsertFor("notifications", x, "about", "visitors"))
  BY <1>2, EmptySequence DEF Plain, Insert, InsertFor
<1>6. (\A st \in Range(one) : Plain(st)) /\ (\A st \in Range(two) : Plain(st))
  BY <1>4, <1>5 DEF Range
<1> QED BY <1>4, <1>6 DEF one, two

\* What a handler has staged of one alert or two.
LEMMA StagePlain ==
    ASSUME NEW channels, IsFiniteSet(channels), NEW event, NEW about
    PROVE  /\ Sequence(Reception!Stage(event, about, channels))
           /\ \A st \in Range(Reception!Stage(event, about, channels)) : Plain(st)
<1> DEFINE new == {d \in channels : \A k \in DOMAIN rows.notifications :
                      Reception!Message(rows.notifications[k])
                          # [event |-> event, about |-> about, channel |-> d]}
           staged == StagedFor(event, about, new)
<1>1. IsFiniteSet(new)
  BY FS_Subset
<1>2. Reception!Stage(event, about, channels) = Reception!InsertEach("notifications", staged)
  BY DEF Reception!Stage, StagedFor
<1>3. staged = StagedFor(event, about, new)
  OBVIOUS
<1> HIDE DEF new, staged
<1> QED BY <1>1, <1>2, <1>3, StagedPlain

\* The alerts to a host go through one channel or two.
LEMMA AlertsFinite ==
    /\ \A channels \in Reception!Alerts : IsFiniteSet(channels)
    /\ IsFiniteSet({"IN_APP"})
<1>1. IsFiniteSet({"IN_APP"}) /\ IsFiniteSet({"IN_APP"} \cup {"SMS"})
  BY FS_Singleton, FS_Union
<1>2. {"IN_APP"} \cup {"SMS"} = {"IN_APP", "SMS"}
  OBVIOUS
<1> QED BY <1>1, <1>2 DEF Reception!Alerts

\* A visitor's row and the alerts.
LEMMA VisitKeeps ==
    ASSUME ReceptionInv, NEW s \in Session, NEW st, st.table \in {"visitors", "inquiries", "reads",
              "preferences"}, NEW more, Sequence(more), \A x \in Range(more) : Plain(x),
           Reception!Request(s, <<st>> \o more)
    PROVE  ReceptionInv'
<1> DEFINE q == <<st>> \o more
<1>1. Sequence(<<st>>) /\ Range(<<st>>) = {st}
  BY OneElement
<1>2. Sequence(q) /\ Range(q) = {st} \cup Range(more)
  BY <1>1, BothElements
<1>3. Plain(st)
  BY DEF Plain
<1> HIDE DEF q
<1>4. \A x \in Range(q) : Plain(x)
  BY <1>2, <1>3
<1> QED BY <1>2, <1>4, PlainRequest DEF q

\* Visits and inquiries.
LEMMA VisitsKeep ==
    ASSUME ReceptionInv, NEW s \in Session,
           \/ Reception!CheckIn(s) \/ Reception!PreRegister(s)
           \/ Reception!QuickCheckIn(s) \/ Reception!CheckOut(s)
           \/ Reception!CreateInquiry(s) \/ Reception!UpdateInquiry(s)
    PROVE  ReceptionInv'
<1>1. /\ \A t, row : Reception!Insert(t, row).table = t
      /\ \A t, i, columns : Reception!Update(t, i, columns).table = t
  BY DEF Reception!Insert, Reception!Update
<1>2. ASSUME NEW st, st.table \in {"visitors", "inquiries", "reads", "preferences"},
             Reception!Request(s, <<st>>)
      PROVE  ReceptionInv'
  <2>1. Sequence(<<st>>) /\ Range(<<st>>) = {st} /\ Plain(st)
    BY <1>2, OneElement DEF Plain
  <2> QED BY <1>2, <2>1, PlainRequest
<1>3. CASE Reception!CheckIn(s)
  <2>1. PICK p \in Person, host \in BOOLEAN, n \in {1, 2} : \E channels \in Reception!Alerts :
            Reception!Request(s,
               <<Reception!Insert("visitors",
                     [person |-> p, host |-> host, status |-> "CHECKED_IN", pass |-> n])>>
               \o (IF host
                   THEN Reception!InsertEachFor("notifications",
                            {Reception!Staged("visitor_checkin", 0, c) : c \in channels},
                            "about", "visitors")
                   ELSE <<>>))
    BY <1>3 DEF Reception!CheckIn
  <2>2. PICK channels \in Reception!Alerts :
            Reception!Request(s,
               <<Reception!Insert("visitors",
                     [person |-> p, host |-> host, status |-> "CHECKED_IN", pass |-> n])>>
               \o (IF host
                   THEN Reception!InsertEachFor("notifications",
                            {Reception!Staged("visitor_checkin", 0, c) : c \in channels},
                            "about", "visitors")
                   ELSE <<>>))
    BY <2>1
  <2> DEFINE staged == {Reception!Staged("visitor_checkin", 0, c) : c \in channels}
             alerts == Reception!InsertEachFor("notifications", staged, "about", "visitors")
             more == IF host THEN alerts ELSE <<>>
             st == Reception!Insert("visitors",
                     [person |-> p, host |-> host, status |-> "CHECKED_IN", pass |-> n])
  <2>3. Sequence(alerts) /\ \A x \in Range(alerts) : Plain(x)
    <3>1. staged = StagedFor("visitor_checkin", 0, channels)
      BY DEF StagedFor
    <3> HIDE DEF staged
    <3> QED BY <3>1, AlertsFinite, StagedPlain
  <2>4. st.table = "visitors"
    BY <1>1
  <2> HIDE DEF alerts, st
  <2>5. Sequence(more) /\ \A x \in Range(more) : Plain(x)
    BY <2>3, NoElement
  <2>6. Reception!Request(s, <<st>> \o more)
    BY <2>2 DEF alerts, st
  <2> HIDE DEF more
  <2> QED BY <2>4, <2>5, <2>6, VisitKeeps
<1>4. CASE Reception!PreRegister(s)
  BY <1>1, <1>2, <1>4 DEF Reception!PreRegister
<1>5. ASSUME NEW v, NEW st, NEW host, NEW event, NEW channels, IsFiniteSet(channels),
             Reception!Request(s, <<Reception!Update("visitors", v, [status |-> st])>>
                 \o (IF host THEN Reception!Stage(event, v, channels) ELSE <<>>))
      PROVE  ReceptionInv'
  <2> DEFINE alerts == Reception!Stage(event, v, channels)
             more   == IF host THEN alerts ELSE <<>>
             set    == Reception!Update("visitors", v, [status |-> st])
  <2>1. Sequence(alerts) /\ \A x \in Range(alerts) : Plain(x)
    BY <1>5, StagePlain
  <2>2. set.table = "visitors"
    BY <1>1
  <2> HIDE DEF alerts, set
  <2>3. Sequence(more) /\ \A x \in Range(more) : Plain(x)
    BY <2>1, NoElement
  <2>4. Reception!Request(s, <<set>> \o more)
    BY <1>5 DEF alerts, set
  <2> HIDE DEF more
  <2> QED BY <2>2, <2>3, <2>4, VisitKeeps
<1>6. CASE Reception!QuickCheckIn(s)
  BY <1>5, <1>6, AlertsFinite DEF Reception!QuickCheckIn
<1>7. CASE Reception!CheckOut(s)
  BY <1>5, <1>7, AlertsFinite DEF Reception!CheckOut
<1>8. CASE Reception!CreateInquiry(s)
  BY <1>1, <1>2, <1>8 DEF Reception!CreateInquiry
<1>9. CASE Reception!UpdateInquiry(s)
  BY <1>1, <1>2, <1>9 DEF Reception!UpdateInquiry
<1> QED BY <1>3, <1>4, <1>6, <1>7, <1>8, <1>9

\* What a handler that sends leaves: the message is handed over in a transaction
\* before the one of its row, whenever it arrives.
LEMMA SendingKeeps ==
    ASSUME ReceptionInv, NEW s \in Session, NEW n, NEW o, NEW st,
           Reception!RequestAll(s, {}, Reception!Sending(Reception!Deliver(n, o), <<st>>)),
           st.table = "notifications",
           \A todo, i : (o.status \in Shown /\ n.channel \notin Mocked =>
                             Promised("delivered", rows.delivered, Reception!Message(n), todo, i))
               => Honest(rows.notifications, rows.delivered, todo, i, st),
           o.status \in Shown /\ n.channel \notin Mocked => o.arrives
    PROVE  ReceptionInv'
<1> DEFINE hand == Insert("delivered", Reception!Message(n))
<1>1. \A x : Sequence(<<x>>) /\ DOMAIN <<x>> = {1} /\ <<x>>[1] = x
  BY OneElement
<1>2. hand.table = "delivered" /\ hand.id = 0
  BY DEF Insert
<1>3. CASE o.arrives
  <2> DEFINE todo == <<<<hand>>>> \o <<<<st>>>>
  <2>1. Reception!Sending(Reception!Deliver(n, o), <<st>>) = todo
    BY <1>3, ReceptionStatements DEF Reception!Sending, Reception!Deliver
  <2> HIDE DEF hand
  <2>2. /\ Sequence(todo) /\ DOMAIN todo = {1, 2} /\ todo[1] = <<hand>> /\ todo[2] = <<st>>
    BY OneThenOne
  <2> HIDE DEF todo
  <2>3. Transactions(todo)
    BY <1>1, <2>2 DEF Transactions
  <2>4. Promised("delivered", rows.delivered, Reception!Message(n), todo, 2)
    BY <1>1, <2>2 DEF Promised, hand
  <2>5. Honest(rows.notifications, rows.delivered, todo, 2, st)
    BY <2>4
  <2>6. Honest(rows.notifications, rows.delivered, todo, 1, hand)
    BY <1>2 DEF Honest
  <2>7. \A i \in DOMAIN todo : \A k \in DOMAIN todo[i] :
            Honest(rows.notifications, rows.delivered, todo, i, todo[i][k])
    BY <1>1, <2>2, <2>5, <2>6
  <2> QED BY <2>1, <2>3, <2>7, ReceptionRequest DEF todo
<1>4. CASE ~o.arrives
  <2> DEFINE todo == <<<<st>>>>
  <2>1. Reception!Sending(Reception!Deliver(n, o), <<st>>) = todo
    BY <1>4 DEF Reception!Sending, Reception!Deliver
  <2>2. Transactions(todo) /\ DOMAIN todo = {1} /\ todo[1] = <<st>>
    BY <1>1, OneTransaction
  <2> HIDE DEF todo
  <2>3. Honest(rows.notifications, rows.delivered, todo, 1, st)
    BY <1>4
  <2> QED BY <1>1, <2>1, <2>2, <2>3, ReceptionRequest
<1> QED BY <1>3, <1>4

\* dispatch_pending_notification, create_and_send, retry_failed_notification.
LEMMA SendersKeep ==
    ASSUME ReceptionInv, NEW s \in Session,
           Reception!Dispatch(s) \/ Reception!SendAnnouncement(s) \/ Reception!Retry(s)
    PROVE  ReceptionInv'
<1>1. \A c : \A o \in Reception!Outcomes(c) :
          o.status \in Shown /\ c \notin Mocked => o.arrives
  <2> SUFFICES ASSUME NEW c, NEW o \in Reception!Outcomes(c), o.status \in Shown, c \notin Mocked
               PROVE  o.arrives
    OBVIOUS
  <2>1. CASE c = "IN_APP"
    BY <2>1 DEF Reception!Outcomes
  <2>2. CASE c # "IN_APP"
    <3>1. CASE o \in {[status |-> "SENT", arrives |-> TRUE]}
      BY <3>1
    <3>2. CASE o \in [status : {"FAILED"}, arrives : BOOLEAN]
      BY <3>2 DEF Shown
    <3> QED BY <2>2, <3>1, <3>2 DEF Reception!Outcomes
  <2> QED BY <2>1, <2>2
<1>2. ASSUME NEW k \in DOMAIN rows.notifications, NEW columns,
             DOMAIN columns \cap Naming = {},
             NEW o, "status" \in DOMAIN columns => columns.status = o.status,
             o.status \in Shown /\ rows.notifications[k].channel \notin Mocked => o.arrives,
             Reception!RequestAll(s, {}, Reception!Sending(
                 Reception!Deliver(rows.notifications[k], o),
                 <<Reception!Update("notifications", k, columns)>>))
      PROVE  ReceptionInv'
  <2> DEFINE set == Reception!Update("notifications", k, columns)
             n   == rows.notifications[k]
  <2>1. /\ set.table = "notifications" /\ set.id = k
        /\ DOMAIN set.columns \subseteq DOMAIN columns
        /\ \A c \in DOMAIN set.columns : set.columns[c] = columns[c]
    BY ReceptionStatements
  <2>2. k # 0
    BY SequenceFacts DEF ReceptionInv, WellFormed
  <2> HIDE DEF set
  <2>3. "status" \in DOMAIN set.columns => set.columns.status = o.status
    BY <1>2, <2>1
  <2>4. \A todo, i : (o.status \in Shown /\ n.channel \notin Mocked =>
                          Promised("delivered", rows.delivered, Reception!Message(n), todo, i))
            => Honest(rows.notifications, rows.delivered, todo, i, set)
    BY <1>2, <2>1, <2>2, <2>3 DEF Honest
  <2>5. Reception!RequestAll(s, {}, Reception!Sending(Reception!Deliver(n, o), <<set>>))
    BY <1>2 DEF set
  <2>6. o.status \in Shown /\ n.channel \notin Mocked => o.arrives
    BY <1>2
  <2> HIDE DEF n
  <2> QED BY <2>1, <2>4, <2>5, <2>6, SendingKeeps
<1>3. CASE Reception!Dispatch(s)
  <2>1. PICK k \in DOMAIN rows.notifications :
            \E o \in Reception!Outcomes(rows.notifications[k].channel) :
                Reception!RequestAll(s, {}, Reception!Sending(
                    Reception!Deliver(rows.notifications[k], o),
                    <<Reception!Update("notifications", k, [status |-> o.status])>>))
    BY <1>3 DEF Reception!Dispatch
  <2>2. PICK o \in Reception!Outcomes(rows.notifications[k].channel) :
                Reception!RequestAll(s, {}, Reception!Sending(
                    Reception!Deliver(rows.notifications[k], o),
                    <<Reception!Update("notifications", k, [status |-> o.status])>>))
    BY <2>1
  <2> DEFINE columns == [status |-> o.status]
  <2>3. DOMAIN columns \cap Naming = {} /\ columns.status = o.status
    BY DEF Naming
  <2>4. Reception!RequestAll(s, {}, Reception!Sending(
            Reception!Deliver(rows.notifications[k], o),
            <<Reception!Update("notifications", k, columns)>>))
    BY <2>2
  <2> HIDE DEF columns
  <2> QED BY <1>1, <1>2, <2>2, <2>3, <2>4
<1>4. CASE Reception!Retry(s)
  <2>1. PICK k \in DOMAIN rows.notifications, hopeless \in BOOLEAN :
            \E o \in Reception!Outcomes(rows.notifications[k].channel) :
                Reception!RequestAll(s, {}, Reception!Sending(
                    Reception!Deliver(rows.notifications[k], o),
                    <<Reception!Update("notifications", k,
                          [status |-> o.status,
                           retries |-> rows.notifications[k].retries + 1,
                           limit |-> IF hopeless THEN rows.notifications[k].retries + 1
                                     ELSE rows.notifications[k].limit])>>))
    BY <1>4 DEF Reception!Retry
  <2> DEFINE columns(o) == [status |-> o.status,
                            retries |-> rows.notifications[k].retries + 1,
                            limit |-> IF hopeless THEN rows.notifications[k].retries + 1
                                      ELSE rows.notifications[k].limit]
  <2>2. PICK o \in Reception!Outcomes(rows.notifications[k].channel) :
                Reception!RequestAll(s, {}, Reception!Sending(
                    Reception!Deliver(rows.notifications[k], o),
                    <<Reception!Update("notifications", k, columns(o))>>))
    BY <2>1
  <2>3. DOMAIN columns(o) \cap Naming = {} /\ columns(o).status = o.status
    BY DEF Naming
  <2> HIDE DEF columns
  <2> QED BY <1>1, <1>2, <2>2, <2>3
<1>5. CASE Reception!SendAnnouncement(s)
  <2>1. PICK c \in Reception!Channel : \E o \in Reception!Outcomes(c) :
            Reception!RequestAll(s, {}, Reception!Sending(
                Reception!Deliver(Reception!New("announcement", served, c, o.status), o),
                <<Reception!Insert("notifications",
                      Reception!New("announcement", served, c, o.status))>>))
    BY <1>5 DEF Reception!SendAnnouncement
  <2>2. PICK o \in Reception!Outcomes(c) :
            Reception!RequestAll(s, {}, Reception!Sending(
                Reception!Deliver(Reception!New("announcement", served, c, o.status), o),
                <<Reception!Insert("notifications",
                      Reception!New("announcement", served, c, o.status))>>))
    BY <2>1
  <2> DEFINE n  == Reception!New("announcement", served, c, o.status)
             st == Reception!Insert("notifications", n)
  <2>3. Naming \cup {"status"} \subseteq DOMAIN n /\ n.status = o.status /\ n.channel = c
    BY DEF Reception!New, Naming
  <2> HIDE DEF n
  <2>4. /\ st.table = "notifications" /\ st.id = 0 /\ st.columns = n /\ DOMAIN st.refers = {}
    BY EmptySequence DEF Reception!Insert
  <2>5. Reception!RequestAll(s, {}, Reception!Sending(Reception!Deliver(n, o), <<st>>))
    BY <2>2 DEF n
  <2> HIDE DEF st
  <2>6. \A todo, i : (o.status \in Shown /\ n.channel \notin Mocked =>
                          Promised("delivered", rows.delivered, Reception!Message(n), todo, i))
            => Honest(rows.notifications, rows.delivered, todo, i, st)
    BY <2>3, <2>4 DEF Honest
  <2>7. o.status \in Shown /\ n.channel \notin Mocked => o.arrives
    BY <1>1, <2>2, <2>3
  <2> QED BY <2>4, <2>5, <2>6, <2>7, SendingKeeps
<1> QED BY <1>3, <1>4, <1>5

\* process_whatsapp_webhook: the service reports on what it was given.
LEMMA WebhookKeeps ==
    ASSUME ReceptionInv, NEW s \in Session, Reception!Webhook(s)
    PROVE  ReceptionInv'
<1>1. PICK k, st :
          /\ k \in DOMAIN rows.notifications
          /\ \E d \in DOMAIN rows.delivered :
                rows.delivered[d] = Reception!Message(rows.notifications[k])
          /\ Reception!Request(s, <<Reception!Update("notifications", k, [status |-> st])>>)
  BY DEF Reception!Webhook
<1> DEFINE set == Reception!Update("notifications", k, [status |-> st])
<1>2. set.table = "notifications" /\ set.id = k /\ DOMAIN set.columns \subseteq {"status"}
  BY ReceptionStatements
<1>3. k # 0
  BY <1>1, SequenceFacts DEF ReceptionInv, WellFormed
<1> HIDE DEF set
<1>4. Honest(rows.notifications, rows.delivered, <<<<set>>>>, 1, set)
  <2>1. Promised("delivered", rows.delivered, Reception!Message(rows.notifications[k]),
                 <<<<set>>>>, 1)
    BY <1>1 DEF Promised
  <2> QED BY <1>1, <1>2, <1>3, <2>1 DEF Honest, Naming
<1>5. /\ Transactions(<<<<set>>>>) /\ DOMAIN <<<<set>>>> = {1} /\ <<<<set>>>>[1] = <<set>>
      /\ DOMAIN <<set>> = {1} /\ <<set>>[1] = set
  BY OneTransaction, OneElement
<1>6. Reception!RequestAll(s, {}, <<<<set>>>>)
  BY <1>1 DEF Reception!Request, set
<1> QED BY <1>4, <1>5, <1>6, ReceptionRequest

\* Marks and preferences.
LEMMA MarksKeep ==
    ASSUME ReceptionInv, NEW s \in Session,
           Reception!MarkAsRead(s) \/ Reception!MarkAllAsRead(s) \/ Reception!UpdatePreferences(s)
    PROVE  ReceptionInv'
<1>1. ASSUME NEW st, st.table \in {"reads", "preferences"}, Reception!Request(s, <<st>>)
      PROVE  ReceptionInv'
  <2>1. Sequence(<<st>>) /\ Range(<<st>>) = {st} /\ Plain(st)
    BY <1>1, OneElement DEF Plain
  <2> QED BY <1>1, <2>1, PlainRequest
<1>2. /\ \A t, row : Reception!Insert(t, row).table = t
      /\ \A t, i, columns : Reception!Update(t, i, columns).table = t
  BY DEF Reception!Insert, Reception!Update
<1>3. CASE Reception!MarkAsRead(s)
  BY <1>1, <1>2, <1>3 DEF Reception!MarkAsRead
<1>4. CASE Reception!MarkAllAsRead(s)
  <2> DEFINE marks == [notification : Reception!Unread]
             q     == Reception!InsertEach("reads", marks)
  <2>1. IsFiniteSet(marks)
    <3>1. IsFiniteSet(DOMAIN rows.notifications)
      <4>1. Len(rows.notifications) \in Nat /\ DOMAIN rows.notifications = 1..Len(rows.notifications)
        BY SequenceFacts DEF ReceptionInv, WellFormed
      <4>2. \A n \in Nat : IsFiniteSet(1..n)
        BY FS_Interval
      <4> QED BY <4>1, <4>2
    <3>2. IsFiniteSet(Reception!Unread)
      BY <3>1, FS_Subset DEF Reception!Unread
    <3> DEFINE f == [k \in Reception!Unread |-> [notification |-> k]]
    <3>3. f = [k \in Reception!Unread |-> f[k]] /\ marks = {f[k] : k \in Reception!Unread}
      <4>1. \A x \in marks : x.notification \in Reception!Unread /\ x = f[x.notification]
        OBVIOUS
      <4>2. \A k \in Reception!Unread : f[k] \in marks
        OBVIOUS
      <4> QED BY <4>1, <4>2
    <3> HIDE DEF f, marks
    <3> QED BY <3>2, <3>3, FiniteImage
  <2> HIDE DEF marks
  <2>2. /\ Sequence(q) /\ \A k \in DOMAIN q : \E x \in marks : q[k] = Insert("reads", x)
    BY <2>1, EachStatement, ReceptionStatements
  <2> HIDE DEF q
  <2>3. \A st \in Range(q) : Plain(st)
    BY <2>2 DEF Range, Insert, Plain
  <2> QED BY <1>4, <2>2, <2>3, PlainRequest DEF Reception!MarkAllAsRead, q, marks
<1>5. CASE Reception!UpdatePreferences(s)
  <2>1. PICK off : IF rows.preferences = <<>>
          THEN Reception!RequestAll(s, {},
                  <<<<Reception!Insert("preferences", [off |-> {}])>>,
                    <<[table |-> "preferences", id |-> 1, columns |-> [off |-> off]]>>>>)
          ELSE Reception!Request(s, <<Reception!Update("preferences", 1, [off |-> off])>>)
    BY <1>5 DEF Reception!UpdatePreferences
  <2>2. CASE rows.preferences # <<>>
    BY <1>1, <1>2, <2>1, <2>2
  <2>3. CASE rows.preferences = <<>>
    <3> DEFINE new == Reception!Insert("preferences", [off |-> {}])
               set == [table |-> "preferences", id |-> 1, columns |-> [off |-> off]]
    <3>1. new.table = "preferences" /\ set.table = "preferences"
      BY <1>2
    <3>2. Reception!RequestAll(s, {}, <<<<new>>, <<set>>>>)
      BY <2>1, <2>3
    <3> HIDE DEF new, set
    <3> DEFINE todo == <<<<new>>, <<set>>>>
    <3>3. /\ Sequence(todo) /\ DOMAIN todo = {1, 2} /\ todo[1] = <<new>> /\ todo[2] = <<set>>
      BY TwoElements
    <3> HIDE DEF todo
    <3>4. \A x : Sequence(<<x>>) /\ DOMAIN <<x>> = {1} /\ <<x>>[1] = x
      BY OneElement
    <3>5. Transactions(todo)
      BY <3>3, <3>4 DEF Transactions
    <3>6. \A i : /\ Honest(rows.notifications, rows.delivered, todo, i, new)
                 /\ Honest(rows.notifications, rows.delivered, todo, i, set)
      BY <3>1 DEF Honest
    <3>7. \A i \in DOMAIN todo : \A k \in DOMAIN todo[i] :
              Honest(rows.notifications, rows.delivered, todo, i, todo[i][k])
      BY <3>3, <3>4, <3>6
    <3> QED BY <3>2, <3>5, <3>7, ReceptionRequest DEF todo
  <2> QED BY <2>2, <2>3
<1> QED BY <1>3, <1>4, <1>5

\* A commit.
LEMMA ReceptionCommit ==
    ASSUME ReceptionInv, NEW s \in Session, Commit(s)
    PROVE  ReceptionInv'
<1>1. WellFormed' /\ DOMAIN rows' = DOMAIN rows /\ work[s].todo # <<>>
  BY CommitWellFormed DEF ReceptionInv, Commit
<1>2. /\ WellFormed /\ "notifications" \in DOMAIN rows /\ "delivered" \in DOMAIN rows
      /\ Sequence(rows["notifications"]) /\ Sequence(rows["delivered"]) /\ Sequence(Sent(s))
      /\ Sent(s) = work[s].todo[1] /\ 1 \in DOMAIN work[s].todo
      /\ Sequence(work[s].todo)
  BY <1>1, SentWellFormed DEF ReceptionInv, WellFormed, Transactions
<1>3. \A k \in DOMAIN Sent(s) :
          Honest(rows["notifications"], rows["delivered"], work[s].todo, 1, Sent(s)[k])
  BY <1>2 DEF ReceptionInv
<1>4. \A k \in DOMAIN Sent(s) : Sent(s)[k].table = "delivered" => Sent(s)[k].id = 0
  BY <1>3 DEF Honest
<1>5. \A n : Written(Reception!Message(n))
  BY DEF Written, Reception!Message
<1>6. ASSUME NEW row, Written(row), \E d \in DOMAIN rows["delivered"] : rows["delivered"][d] = row
      PROVE  \E d \in DOMAIN rows'["delivered"] : rows'["delivered"][d] = row
  BY <1>2, <1>4, <1>6, RowStays
<1>7. ASSUME NEW k \in DOMAIN rows["notifications"]
      PROVE  /\ k \in DOMAIN rows'["notifications"] /\ k # 0
             /\ Naming \cup {"status"} \subseteq DOMAIN rows'["notifications"][k]
             /\ Reception!Message(rows'["notifications"][k])
                    = Reception!Message(rows["notifications"][k])
             /\ rows'["notifications"][k].channel = rows["notifications"][k].channel
  <2>1. k # 0
    BY <1>2, SequenceFacts
  <2>2. Naming \cup {"status"} \subseteq DOMAIN rows["notifications"][k]
    BY DEF ReceptionInv
  <2>3. /\ k \in DOMAIN rows'["notifications"]
        /\ DOMAIN rows'["notifications"][k] = DOMAIN rows["notifications"][k]
        /\ \A c \in DOMAIN rows["notifications"][k] :
              (\A j \in DOMAIN Sent(s) : Sent(s)[j].table = "notifications" /\ Sent(s)[j].id = k
                   => c \notin DOMAIN Sent(s)[j].columns)
              => rows'["notifications"][k][c] = rows["notifications"][k][c]
    BY <1>2, ColumnKept
  <2>4. \A c \in Naming : rows'["notifications"][k][c] = rows["notifications"][k][c]
    <3>1. \A c \in Naming : \A j \in DOMAIN Sent(s) :
              Sent(s)[j].table = "notifications" /\ Sent(s)[j].id = k
                  => c \notin DOMAIN Sent(s)[j].columns
      BY <1>3, <2>1 DEF Honest
    <3> QED BY <2>2, <2>3, <3>1
  <2> QED BY <2>1, <2>2, <2>3, <2>4 DEF Naming, Reception!Message
<1>8. ASSUME NEW k \in DOMAIN rows'["notifications"], k \notin DOMAIN rows["notifications"]
      PROVE  \E j \in DOMAIN Sent(s) :
                /\ Sent(s)[j].table = "notifications" /\ Sent(s)[j].id = 0
                /\ rows'["notifications"][k] = NewRow(s, j)
  BY <1>2, <1>8, CommitFacts DEF InsertsInto
<1>9. ASSUME NEW k \in DOMAIN rows'["notifications"]
      PROVE  Naming \cup {"status"} \subseteq DOMAIN rows'["notifications"][k]
  <2>1. CASE k \notin DOMAIN rows["notifications"]
    <3>1. PICK j \in DOMAIN Sent(s) :
              /\ Sent(s)[j].table = "notifications" /\ Sent(s)[j].id = 0
              /\ rows'["notifications"][k] = NewRow(s, j)
      BY <1>8, <2>1
    <3>2. Naming \cup {"status"} \subseteq DOMAIN Sent(s)[j].columns
      BY <1>3, <3>1 DEF Honest
    <3> QED BY <3>1, <3>2 DEF NewRow
  <2> QED BY <1>7, <2>1
<1>10. ASSUME NEW k \in DOMAIN rows'["notifications"],
              rows'["notifications"][k].status \in Shown,
              rows'["notifications"][k].channel \notin Mocked
       PROVE  \E d \in DOMAIN rows'["delivered"] :
                  rows'["delivered"][d] = Reception!Message(rows'["notifications"][k])
  <2>1. ASSUME NEW row, Written(row),
               Promised("delivered", rows["delivered"], row, work[s].todo, 1)
        PROVE  \E d \in DOMAIN rows'["delivered"] : rows'["delivered"][d] = row
    <3>1. \E d \in DOMAIN rows["delivered"] : rows["delivered"][d] = row
      BY <1>2, <2>1, PromiseDone
    <3> QED BY <1>6, <2>1, <3>1
  <2>2. CASE k \in DOMAIN rows["notifications"]
    <3>1. "status" \in DOMAIN rows["notifications"][k]
      BY <2>2 DEF ReceptionInv
    <3>2. \/ rows'["notifications"][k]["status"] = rows["notifications"][k]["status"]
          \/ \E j \in DOMAIN Sent(s) :
                /\ Sent(s)[j].table = "notifications" /\ Sent(s)[j].id = k
                /\ "status" \in DOMAIN Sent(s)[j].columns
                /\ rows'["notifications"][k]["status"] = Sent(s)[j].columns["status"]
      BY <1>2, <2>2, <3>1, ColumnSet
    <3>3. CASE rows'["notifications"][k]["status"] = rows["notifications"][k]["status"]
      <4>1. \E d \in DOMAIN rows["delivered"] :
                rows["delivered"][d] = Reception!Message(rows["notifications"][k])
        BY <1>7, <1>10, <2>2, <3>3 DEF ReceptionInv, Reception!ShownAsSentArrived, Shown
      <4> QED BY <1>5, <1>6, <1>7, <2>2, <4>1
    <3>4. ASSUME NEW j \in DOMAIN Sent(s),
                 Sent(s)[j].table = "notifications", Sent(s)[j].id = k,
                 "status" \in DOMAIN Sent(s)[j].columns,
                 rows'["notifications"][k]["status"] = Sent(s)[j].columns["status"]
          PROVE  \E d \in DOMAIN rows'["delivered"] :
                    rows'["delivered"][d] = Reception!Message(rows'["notifications"][k])
      <4>1. Promised("delivered", rows["delivered"], Reception!Message(rows["notifications"][k]),
                     work[s].todo, 1)
        BY <1>3, <1>7, <1>10, <2>2, <3>4 DEF Honest
      <4> QED BY <1>5, <1>7, <2>1, <2>2, <4>1
    <3> QED BY <3>2, <3>3, <3>4
  <2>3. CASE k \notin DOMAIN rows["notifications"]
    <3>1. PICK j \in DOMAIN Sent(s) :
              /\ Sent(s)[j].table = "notifications" /\ Sent(s)[j].id = 0
              /\ rows'["notifications"][k] = NewRow(s, j)
      BY <1>8, <2>3
    <3>2. /\ Naming \cup {"status"} \subseteq DOMAIN Sent(s)[j].columns
          /\ DOMAIN Sent(s)[j].refers \subseteq {"about"}
          /\ Sent(s)[j].columns.status \in Shown /\ Sent(s)[j].columns.channel \notin Mocked =>
                /\ DOMAIN Sent(s)[j].refers = {}
                /\ Promised("delivered", rows["delivered"], Reception!Message(Sent(s)[j].columns),
                            work[s].todo, 1)
      BY <1>3, <3>1 DEF Honest
    <3>3. /\ NewRow(s, j).status = Sent(s)[j].columns.status
          /\ NewRow(s, j).channel = Sent(s)[j].columns.channel
      BY <3>2 DEF NewRow, Naming
    <3>4. /\ DOMAIN Sent(s)[j].refers = {}
          /\ Promised("delivered", rows["delivered"], Reception!Message(Sent(s)[j].columns),
                      work[s].todo, 1)
      BY <1>10, <3>1, <3>2, <3>3
    <3>5. Reception!Message(NewRow(s, j)) = Reception!Message(Sent(s)[j].columns)
      BY <3>2, <3>4 DEF NewRow, Naming, Reception!Message
    <3> QED BY <1>5, <2>1, <3>1, <3>4, <3>5
  <2> QED BY <2>2, <2>3
<1>11. ASSUME NEW r \in Session, NEW i \in DOMAIN work'[r].todo, NEW k \in DOMAIN work'[r].todo[i]
       PROVE  Honest(rows'["notifications"], rows'["delivered"], work'[r].todo, i,
                     work'[r].todo[i][k])
  <2>1. work'[r].todo = IF r = s THEN Tail(work[s].todo) ELSE work[r].todo
    BY DEF Commit, ReceptionInv, WellFormed
  <2> DEFINE st == work'[r].todo[i][k]
             j  == IF r = s THEN i + 1 ELSE i
  <2>2. Honest(rows["notifications"], rows["delivered"], work[r].todo, j, st)
    <3>1. CASE r = s
      <4>1. i + 1 \in DOMAIN work[s].todo /\ work'[r].todo[i] = work[s].todo[i + 1]
        BY <1>1, <2>1, <3>1, SentWellFormed DEF ReceptionInv
      <4> QED BY <3>1, <4>1 DEF ReceptionInv
    <3>2. CASE r # s
      BY <2>1, <3>2 DEF ReceptionInv
    <3> QED BY <3>1, <3>2
  <2> HIDE DEF st
  <2>3. ASSUME NEW row, Written(row), Promised("delivered", rows["delivered"], row, work[r].todo, j)
        PROVE  Promised("delivered", rows'["delivered"], row, work'[r].todo, i)
    <3>1. CASE r = s
      <4>1. i \in DOMAIN Tail(work[s].todo)
            /\ Promised("delivered", rows["delivered"], row, work[s].todo, i + 1)
        BY <2>1, <2>3, <3>1
      <4>2. Promised("delivered", rows'["delivered"], row, Tail(work[s].todo), i)
        BY <1>2, <1>4, <2>3, <4>1, PromiseKept
      <4> QED BY <2>1, <3>1, <4>2
    <3>2. CASE r # s
      <4>1. Promised("delivered", rows["delivered"], row, work[r].todo, i)
        BY <2>3, <3>2
      <4>2. Promised("delivered", rows'["delivered"], row, work[r].todo, i)
        BY <1>2, <1>4, <2>3, <4>1, PromiseStands
      <4> QED BY <2>1, <3>2, <4>2
    <3> QED BY <3>1, <3>2
  <2> HIDE DEF j
  <2>4. \A n : Promised("delivered", rows["delivered"], Reception!Message(n), work[r].todo, j)
            => Promised("delivered", rows'["delivered"], Reception!Message(n), work'[r].todo, i)
    BY <1>5, <2>3
  <2>5. Honest(rows'["notifications"], rows'["delivered"], work'[r].todo, i, st)
    BY <1>7, <2>2, <2>4 DEF Honest
  <2> QED BY <2>5 DEF st
<1>12. Reception!ShownAsSentArrived'
  BY <1>10 DEF Reception!ShownAsSentArrived, Shown
<1> QED BY <1>1, <1>9, <1>11, <1>12 DEF ReceptionInv

\* A visitor who is given another number, and a request that is cut short.
LEMMA ReceptionOthers ==
    ASSUME ReceptionInv, NEW s \in Session, Reception!CommitRenumbered(s) \/ Reception!Abort(s)
    PROVE  ReceptionInv'
<1>1. work' = [work EXCEPT ![s] = [locks |-> {}, todo |-> <<>>]]
  BY DEF Reception!CommitRenumbered, Reception!Abort, Reception!Untouched
<1>2. /\ DOMAIN rows' = DOMAIN rows
      /\ rows'.notifications = rows.notifications /\ rows'.delivered = rows.delivered
  BY DEF Reception!CommitRenumbered, Reception!Abort, ReceptionInv
<1>3. \A r \in Session : work'[r] = IF r = s THEN [locks |-> {}, todo |-> <<>>] ELSE work[r]
  BY <1>1 DEF ReceptionInv, WellFormed
<1>4. WellFormed'
  <2>1. ASSUME NEW t \in DOMAIN rows' PROVE Sequence(rows'[t])
    <3>1. Sequence(rows[t])
      BY <1>2, <2>1 DEF ReceptionInv, WellFormed
    <3>2. CASE rows'[t] # rows[t]
      <4>1. PICK x : rows'[t] = Append(rows[t], x)
        BY <1>2, <3>2 DEF Reception!CommitRenumbered, Reception!Abort
      <4> QED BY <3>1, <4>1, AppendSequence
    <3> QED BY <3>1, <3>2
  <2>2. \A r \in Session : Transactions(work'[r].todo)
    <3>1. Transactions(<<>>)
      BY EmptySequence DEF Transactions
    <3> QED BY <1>3, <3>1 DEF ReceptionInv, WellFormed
  <2>3. work' = [r \in Session |-> [locks |-> work'[r].locks, todo |-> work'[r].todo]]
    <3>1. work' = [r \in Session |-> IF r = s THEN [locks |-> {}, todo |-> <<>>] ELSE work[r]]
      BY <1>1 DEF ReceptionInv, WellFormed
    <3>2. \A r \in Session : work'[r] = [locks |-> work'[r].locks, todo |-> work'[r].todo]
      BY <1>3 DEF ReceptionInv, WellFormed
    <3> QED BY <3>1, <3>2
  <2> QED BY <2>1, <2>2, <2>3 DEF WellFormed
<1>5. \A r \in Session : \A i \in DOMAIN work'[r].todo : \A k \in DOMAIN work'[r].todo[i] :
          Honest(rows'.notifications, rows'.delivered, work'[r].todo, i, work'[r].todo[i][k])
  BY <1>2, <1>3, EmptySequence DEF ReceptionInv
<1>6. Reception!ShownAsSentArrived'
  BY <1>2, SMTT(20) DEF ReceptionInv, Reception!ShownAsSentArrived
<1> QED BY <1>2, <1>4, <1>5, <1>6 DEF ReceptionInv

\* The commit of the desk is that of UnitOfWork.
LEMMA ReceptionSends ==
    ASSUME NEW s \in Session, Reception!Commit(s)
    PROVE  Commit(s)
BY Zenon DEF Reception!Commit, Commit, Reception!Sent, Sent, Reception!Held, Held,
       Reception!Updated, Updated, Reception!Inserted, Inserted, Reception!Listed, Listed,
       Reception!Cardinality, Cardinality

\* Every step at the desk of the reception keeps the invariant.
LEMMA ReceptionKeeps == ReceptionInv /\ Reception!Next => ReceptionInv'
<1> SUFFICES ASSUME ReceptionInv, NEW s \in Session,
                    \/ Reception!CheckIn(s) \/ Reception!PreRegister(s)
                    \/ Reception!QuickCheckIn(s) \/ Reception!CheckOut(s)
                    \/ Reception!CreateInquiry(s) \/ Reception!UpdateInquiry(s)
                    \/ Reception!Dispatch(s) \/ Reception!SendAnnouncement(s)
                    \/ Reception!Retry(s) \/ Reception!Webhook(s)
                    \/ Reception!MarkAsRead(s) \/ Reception!MarkAllAsRead(s)
                    \/ Reception!UpdatePreferences(s)
                    \/ Reception!Commit(s)
                    \/ Reception!CommitRenumbered(s) \/ Reception!Abort(s)
             PROVE  ReceptionInv'
  BY DEF Reception!Next, Reception!Notify
<1> QED BY VisitsKeep, SendersKeep, WebhookKeeps, MarksKeep, ReceptionSends, ReceptionCommit,
           ReceptionOthers

\* The desk opens with nothing.
LEMMA ReceptionStart == Reception!Init => ReceptionInv
<1> SUFFICES ASSUME Reception!Init PROVE ReceptionInv
  OBVIOUS
<1>1. /\ rows = [visitors |-> <<>>, inquiries |-> <<>>, notifications |-> <<>>,
                 delivered |-> <<>>, preferences |-> <<>>, reads |-> <<>>]
      /\ work = [s \in Session |-> Untouched]
  BY DEF Reception!Init, Reception!Start, Reception!Untouched, Untouched
<1>2. /\ {"notifications", "delivered"} \subseteq DOMAIN rows
      /\ \A t \in DOMAIN rows : rows[t] = <<>>
      /\ DOMAIN rows.notifications = {}
  BY <1>1, EmptySequence
<1>3. WellFormed
  BY <1>1, <1>2, EmptySequence, StartWellFormed
<1>4. \A s \in Session : DOMAIN work[s].todo = {}
  BY <1>1, EmptySequence DEF Untouched
<1> QED BY <1>2, <1>3, <1>4 DEF ReceptionInv, Reception!ShownAsSentArrived

-----------------------------------------------------------------------------
(***************************************************************************)
(* Background jobs.  What a worker writes about a job, it has done: in an  *)
(* earlier transaction of its own, or someone had before.                  *)
(***************************************************************************)
Notice(j, y) == [job |-> j, recipient |-> y]
Batch(j)     == [job |-> j]

\* All the work of a job.
Accomplished(notices, batches, todo, i, j, r) ==
    IF r.type = "BULK_NOTIFICATION_DISPATCH"
    THEN \A y \in 1..r.total : Promised("notices", notices, Notice(j, y), todo, i)
    ELSE Promised("batches", batches, Batch(j), todo, i)

JobColumns == {"type", "total", "processed", "status"}

Truthful(jobs, notices, batches, todo, i, st) ==
    /\ st.table \in {"notices", "batches"} => st.id = 0
    /\ st.table = "jobs" /\ st.id = 0 =>
          /\ JobColumns \subseteq DOMAIN st.columns /\ st.refers = <<>>
          /\ st.columns.type \in Jobs!JobType
          /\ st.columns.total \in Nat /\ st.columns.processed = 0
          /\ st.columns.status # "COMPLETED"
    /\ st.table = "jobs" /\ st.id # 0 =>
          /\ st.id \in DOMAIN jobs
          /\ DOMAIN st.columns \cap {"type", "total"} = {}
          /\ "processed" \in DOMAIN st.columns =>
                \A y \in 1..st.columns.processed :
                    Promised("notices", notices, Notice(st.id, y), todo, i)
          /\ "status" \in DOMAIN st.columns /\ st.columns.status = "COMPLETED" =>
                Accomplished(notices, batches, todo, i, st.id, jobs[st.id])
    /\ st.table = "tasks" /\ st.id = 0 =>
          /\ {"job", "deleted"} \subseteq DOMAIN st.columns
          /\ \/ st.refers = <<>> /\ st.columns.job \in DOMAIN jobs
             \/ /\ DOMAIN st.refers = {"job"} /\ st.refers["job"] = "jobs"
                /\ \E k \in DOMAIN todo[i] : todo[i][k].table = "jobs" /\ todo[i][k].id = 0
    /\ st.table = "tasks" /\ st.id # 0 => DOMAIN st.columns \subseteq {"deleted"}

JobRowsOK ==
    /\ {"jobs", "tasks", "notices", "batches"} \subseteq DOMAIN rows
    /\ \A j \in DOMAIN rows.jobs :
          /\ JobColumns \subseteq DOMAIN rows.jobs[j]
          /\ rows.jobs[j].type \in Jobs!JobType /\ rows.jobs[j].total \in Nat
    /\ \A t \in DOMAIN rows.tasks :
          /\ {"job", "deleted"} \subseteq DOMAIN rows.tasks[t]
          /\ rows.tasks[t].job \in DOMAIN rows.jobs

\* What the rows of the jobs say.
JobsTrue(jobs, notices, batches) ==
    \A j \in DOMAIN jobs :
        /\ \A y \in 1..jobs[j].processed : Promised("notices", notices, Notice(j, y), <<>>, 1)
        /\ jobs[j].status = "COMPLETED" => Accomplished(notices, batches, <<>>, 1, j, jobs[j])

JobsInv ==
    /\ WellFormed /\ JobRowsOK /\ JobsTrue(rows.jobs, rows.notices, rows.batches)
    /\ \A s \in Session : \A i \in DOMAIN work[s].todo : \A k \in DOMAIN work[s].todo[i] :
          Truthful(rows.jobs, rows.notices, rows.batches, work[s].todo, i, work[s].todo[i][k])

\* A handler or a worker that leaves such statements keeps the invariant.
LEMMA JobsRequest ==
    ASSUME JobsInv, NEW s \in Session, NEW locks, NEW todo, rows' = rows,
           work' = [work EXCEPT ![s] = [locks |-> locks, todo |-> todo]],
           Transactions(todo),
           \A i \in DOMAIN todo : \A k \in DOMAIN todo[i] :
              Truthful(rows.jobs, rows.notices, rows.batches, todo, i, todo[i][k])
    PROVE  JobsInv'
<1>1. WellFormed'
  BY RequestWellFormed DEF JobsInv
<1>2. \A r \in Session : work'[r].todo = IF r = s THEN todo ELSE work[r].todo
  BY DEF JobsInv, WellFormed
<1>3. \A r \in Session : \A i \in DOMAIN work'[r].todo : \A k \in DOMAIN work'[r].todo[i] :
          Truthful(rows'.jobs, rows'.notices, rows'.batches, work'[r].todo, i, work'[r].todo[i][k])
  BY <1>2 DEF JobsInv
<1>4. JobRowsOK' /\ JobsTrue(rows'.jobs, rows'.notices, rows'.batches)
  BY DEF JobsInv, JobRowsOK
<1> QED BY <1>1, <1>3, <1>4 DEF JobsInv

\* The statements of the desk.
LEMMA JobsStatements ==
    /\ \A t, row : Jobs!Insert(t, row) = Insert(t, row)
    /\ \A t, i, columns :
          /\ Jobs!Update(t, i, columns).table = t /\ Jobs!Update(t, i, columns).id = i
          /\ DOMAIN Jobs!Update(t, i, columns).columns \subseteq DOMAIN columns
          /\ \A c \in DOMAIN Jobs!Update(t, i, columns).columns :
                Jobs!Update(t, i, columns).columns[c] = columns[c]
BY DEF Jobs!Insert, Insert, Jobs!Update, Jobs!Changed

\* A task of a job that is there.
LEMMA TaskTruthful ==
    ASSUME NEW jobs, NEW j \in DOMAIN jobs
    PROVE  \A notices, batches, todo, i : Truthful(jobs, notices, batches, todo, i, Jobs!Task(j))
BY DEF Truthful, Jobs!Task, Jobs!Insert

\* A request that posts, retries or cancels a job.
LEMMA PostsKeep ==
    ASSUME JobsInv, NEW s \in Session,
           \/ Jobs!batch_send_notifications_async(s) \/ Jobs!batch_generate_report_cards_async(s)
           \/ Jobs!retry_job(s) \/ Jobs!cancel_job(s)
    PROVE  JobsInv'
<1>1. ASSUME NEW q, Jobs!Request(s, q), Sequence(q),
             \A k \in DOMAIN q : Truthful(rows.jobs, rows.notices, rows.batches, <<q>>, 1, q[k])
      PROVE  JobsInv'
  <2>1. Transactions(<<q>>) /\ DOMAIN <<q>> = {1} /\ <<q>>[1] = q
    BY <1>1, OneTransaction, OneElement
  <2>2. rows' = rows /\ work' = [work EXCEPT ![s] = [locks |-> {}, todo |-> <<q>>]]
    BY <1>1 DEF Jobs!Request, Jobs!RequestAll
  <2> DEFINE todo == <<q>>
  <2>3. \A k \in DOMAIN q : Truthful(rows.jobs, rows.notices, rows.batches, todo, 1, q[k])
    BY <1>1
  <2>4. DOMAIN todo = {1} /\ todo[1] = q /\ Transactions(todo)
    BY <2>1
  <2>5. work' = [work EXCEPT ![s] = [locks |-> {}, todo |-> todo]]
    BY <2>2
  <2> HIDE DEF todo
  <2>6. \A i \in DOMAIN todo : \A k \in DOMAIN todo[i] :
            Truthful(rows.jobs, rows.notices, rows.batches, todo, i, todo[i][k])
    BY <2>3, <2>4
  <2> QED BY <2>2, <2>4, <2>5, <2>6, JobsRequest
<1>2. \A j \in DOMAIN rows.jobs : j # 0
  BY SequenceFacts DEF JobsInv, JobRowsOK, WellFormed
<1>3. ASSUME NEW type \in Jobs!JobType, NEW key, NEW total \in Nat, Jobs!Enqueue(s, type, key, total)
      PROVE  JobsInv'
  <2>1. CASE \E j \in DOMAIN rows.jobs : Jobs!Request(s, <<Jobs!Task(j)>>)
    <3>1. PICK j \in DOMAIN rows.jobs : Jobs!Request(s, <<Jobs!Task(j)>>)
      BY <2>1
    <3> DEFINE task == Jobs!Task(j)
               q    == <<task>>
    <3>2. Sequence(q) /\ DOMAIN q = {1} /\ q[1] = task
      BY OneElement
    <3>3. Truthful(rows.jobs, rows.notices, rows.batches, <<q>>, 1, task)
      BY TaskTruthful
    <3>4. Jobs!Request(s, q)
      BY <3>1
    <3> HIDE DEF task, q
    <3> QED BY <1>1, <3>2, <3>3, <3>4
  <2>2. CASE Jobs!Request(s, <<Jobs!InsertFor("tasks", [job |-> 0, deleted |-> FALSE], "job", "jobs"),
                               Jobs!Insert("jobs", Jobs!Posted(type, key, total))>>)
    <3> DEFINE task == Jobs!InsertFor("tasks", [job |-> 0, deleted |-> FALSE], "job", "jobs")
               post == Jobs!Insert("jobs", Jobs!Posted(type, key, total))
               q    == <<task, post>>
    <3>1. /\ task.table = "tasks" /\ task.id = 0 /\ DOMAIN task.columns = {"job", "deleted"}
          /\ DOMAIN task.refers = {"job"} /\ task.refers["job"] = "jobs"
      BY DEF Jobs!InsertFor
    <3>2. /\ post.table = "jobs" /\ post.id = 0 /\ post.refers = <<>>
          /\ JobColumns \subseteq DOMAIN post.columns /\ post.columns.total = total
          /\ post.columns.type = type
          /\ post.columns.processed = 0 /\ post.columns.status # "COMPLETED"
      BY DEF Jobs!Insert, Jobs!Posted, JobColumns
    <3> HIDE DEF task, post
    <3>3. Sequence(q) /\ DOMAIN q = {1, 2} /\ q[1] = task /\ q[2] = post
      BY TwoElements
    <3>4. Jobs!Request(s, q)
      BY <2>2 DEF task, post
    <3> HIDE DEF q
    <3>5. <<q>>[1] = q
      OBVIOUS
    <3>6. Truthful(rows.jobs, rows.notices, rows.batches, <<q>>, 1, task)
      BY <3>1, <3>2, <3>3, <3>5 DEF Truthful
    <3>7. Truthful(rows.jobs, rows.notices, rows.batches, <<q>>, 1, post)
      BY <3>2 DEF Truthful
    <3> QED BY <1>1, <3>3, <3>4, <3>6, <3>7
  <2> QED BY <1>3, <2>1, <2>2 DEF Jobs!Enqueue
<1>4. CASE Jobs!batch_send_notifications_async(s)
  <2>1. 0..Limit \subseteq Nat
    BY LimitAssumption
  <2>2. "BULK_NOTIFICATION_DISPATCH" \in Jobs!JobType
    BY DEF Jobs!JobType
  <2> QED BY <1>3, <1>4, <2>1, <2>2 DEF Jobs!batch_send_notifications_async
<1>5. CASE Jobs!batch_generate_report_cards_async(s)
  <2>1. "BATCH_REPORT_CARD_GEN" \in Jobs!JobType
    BY DEF Jobs!JobType
  <2> QED BY <1>3, <1>5, <2>1 DEF Jobs!batch_generate_report_cards_async
<1>6. CASE Jobs!retry_job(s)
  <2>1. PICK j, n :
            /\ j \in DOMAIN rows.jobs
            /\ Jobs!Request(s, <<Jobs!Update("jobs", j, [status |-> "QUEUED", retries |-> n]),
                                 Jobs!Task(j)>>)
    BY <1>6 DEF Jobs!retry_job
  <2> DEFINE set == Jobs!Update("jobs", j, [status |-> "QUEUED", retries |-> n])
             q   == <<set, Jobs!Task(j)>>
  <2>2. /\ set.table = "jobs" /\ set.id = j /\ DOMAIN set.columns \subseteq {"status", "retries"}
        /\ "status" \in DOMAIN set.columns => set.columns["status"] = "QUEUED"
    BY JobsStatements
  <2> HIDE DEF set
  <2>3. Truthful(rows.jobs, rows.notices, rows.batches, <<q>>, 1, set)
    BY <1>2, <2>1, <2>2 DEF Truthful
  <2>4. Sequence(q) /\ DOMAIN q = {1, 2} /\ q[1] = set /\ q[2] = Jobs!Task(j)
    BY TwoElements
  <2>5. Jobs!Request(s, q)
    BY <2>1 DEF set
  <2> HIDE DEF q
  <2> QED BY <1>1, <2>1, <2>3, <2>4, <2>5, TaskTruthful
<1>7. CASE Jobs!cancel_job(s)
  <2>1. PICK j \in DOMAIN rows.jobs :
            Jobs!Request(s, <<Jobs!Update("jobs", j, [status |-> "CANCELLED"])>>)
    BY <1>7 DEF Jobs!cancel_job
  <2> DEFINE set == Jobs!Update("jobs", j, [status |-> "CANCELLED"])
  <2>2. /\ set.table = "jobs" /\ set.id = j /\ DOMAIN set.columns \subseteq {"status"}
        /\ "status" \in DOMAIN set.columns => set.columns["status"] = "CANCELLED"
    BY JobsStatements
  <2> HIDE DEF set
  <2>3. Truthful(rows.jobs, rows.notices, rows.batches, <<<<set>>>>, 1, set)
    BY <1>2, <2>2 DEF Truthful
  <2>4. Sequence(<<set>>) /\ DOMAIN <<set>> = {1} /\ <<set>>[1] = set
    BY OneElement
  <2>5. Jobs!Request(s, <<set>>)
    BY <2>1 DEF set
  <2> QED BY <1>1, <2>3, <2>4, <2>5
<1> QED BY <1>4, <1>5, <1>6, <1>7

\* The numbers two by two.
LEMMA Halves ==
    /\ \A y \in Nat : /\ (2 * y - 1) % 2 = 1
                      /\ (2 * y) % 2 = 0
    /\ \A y \in Nat : /\ ((2 * y - 1) + 1) \div 2 = y
                      /\ ((2 * y) + 1) \div 2 = y
    /\ \A k \in Nat \ {0} : \E y \in Nat : k = 2 * y \/ k = 2 * y - 1
<1>1. \A y \in Nat : (2 * y) % 2 = 0
  OBVIOUS
<1>2. \A y \in Nat : (2 * y - 1) % 2 = 1
  OBVIOUS
<1>3. \A y \in Nat : ((2 * y - 1) + 1) \div 2 = y
  OBVIOUS
<1>4. \A y \in Nat : ((2 * y) + 1) \div 2 = y
  OBVIOUS
<1>5. ASSUME NEW k \in Nat \ {0} PROVE \E y \in Nat : k = 2 * y \/ k = 2 * y - 1
  <2>1. (k + 1) \div 2 \in Nat /\ (k = 2 * ((k + 1) \div 2) \/ k = 2 * ((k + 1) \div 2) - 1)
    OBVIOUS
  <2> QED BY <2>1
<1> QED BY <1>1, <1>2, <1>3, <1>4, <1>5

\* The transactions of a dispatch: the first takes the task, then there are a
\* notice and its count for each recipient, and the last says how it ended.
Progress(j, n) == [k \in 1..(2 * n) |-> Jobs!Inform(j, (k + 1) \div 2)[2 - (k % 2)]]

Dispatched(todo, first, j, n, last) ==
    todo = <<first>> \o Append(<<Jobs!Write(j, [processed |-> 0])>> \o Progress(j, n), last)

Prefixed(z, a, y) == z = <<a>> \o y

\* A course after the transaction that takes the task.
LEMMA Prepended ==
    ASSUME NEW y, Sequence(y), NEW a, NEW z, Prefixed(z, a, y)
    PROVE  /\ Sequence(z) /\ DOMAIN z = 1..(Len(y) + 1)
           /\ z[1] = a
           /\ \A k \in DOMAIN y : z[k + 1] = y[k]
BY PrependFacts DEF Prefixed

\* The transactions of a dispatch, one by one.
LEMMA DispatchFacts ==
    ASSUME NEW j, NEW n \in Nat, NEW first, NEW last, NEW todo, Dispatched(todo, first, j, n, last)
    PROVE  /\ Sequence(todo) /\ DOMAIN todo = 1..(2 * n + 3)
           /\ todo[1] = first /\ todo[2] = Jobs!Write(j, [processed |-> 0])
           /\ todo[2 * n + 3] = last
           /\ \A y \in 1..n : /\ todo[2 * y + 1] = <<Insert("notices", Notice(j, y))>>
                              /\ todo[2 * y + 2] = Jobs!Write(j, [processed |-> y])
<1> DEFINE p == Progress(j, n)
           w == Jobs!Write(j, [processed |-> 0])
           b == <<w>> \o p
           c == Append(b, last)
<1>1. Sequence(p) /\ Len(p) = 2 * n /\ DOMAIN p = 1..(2 * n)
  <2>1. 2 * n \in Nat /\ p = [k \in 1..(2 * n) |-> p[k]]
    BY DEF Progress
  <2> HIDE DEF p
  <2>2. Sequence(p) /\ Len(p) = 2 * n
    BY <2>1, FunctionSequence
  <2> QED BY <2>1, <2>2, SequenceFacts
<1>2. ASSUME NEW y \in 1..n
      PROVE  /\ p[2 * y - 1] = <<Insert("notices", Notice(j, y))>>
             /\ p[2 * y] = Jobs!Write(j, [processed |-> y])
  <2>1. y \in Nat /\ 2 * y - 1 \in 1..(2 * n) /\ 2 * y \in 1..(2 * n)
    OBVIOUS
  <2>2. p[2 * y - 1] = Jobs!Inform(j, y)[1]
    <3>1. p[2 * y - 1] = Jobs!Inform(j, ((2 * y - 1) + 1) \div 2)[2 - ((2 * y - 1) % 2)]
      BY <2>1 DEF Progress
    <3>2. ((2 * y - 1) + 1) \div 2 = y /\ 2 - ((2 * y - 1) % 2) = 1
      BY <2>1, Halves
    <3> QED BY <3>1, <3>2
  <2>3. p[2 * y] = Jobs!Inform(j, y)[2]
    <3>1. p[2 * y] = Jobs!Inform(j, ((2 * y) + 1) \div 2)[2 - ((2 * y) % 2)]
      BY <2>1 DEF Progress
    <3>2. ((2 * y) + 1) \div 2 = y /\ 2 - ((2 * y) % 2) = 2
      BY <2>1, Halves
    <3> QED BY <3>1, <3>2
  <2>4. /\ Jobs!Inform(j, y)[1] = <<Insert("notices", Notice(j, y))>>
        /\ Jobs!Inform(j, y)[2] = Jobs!Write(j, [processed |-> y])
    BY JobsStatements DEF Jobs!Inform, Notice
  <2> QED BY <2>2, <2>3, <2>4
<1> HIDE DEF p, w
<1>3. /\ Sequence(b) /\ Len(b) = 2 * n + 1 /\ DOMAIN b = 1..(2 * n + 1) /\ b[1] = w
      /\ \A k \in 1..(2 * n) : b[k + 1] = p[k]
  BY <1>1, PrependFacts
<1> HIDE DEF b
<1>4. /\ Sequence(c) /\ Len(c) = 2 * n + 2 /\ DOMAIN c = 1..(2 * n + 2)
      /\ \A k \in 1..(2 * n + 1) : c[k] = b[k]
      /\ c[2 * n + 2] = last
  <2>1. (2 * n + 1) + 1 = 2 * n + 2
    OBVIOUS
  <2>2. /\ Sequence(c) /\ Len(c) = Len(b) + 1 /\ DOMAIN c = 1..(Len(b) + 1)
        /\ \A k \in DOMAIN b : c[k] = b[k]
        /\ c[Len(b) + 1] = last
    <3>1. Sequence(b) /\ Appended(c, b, last)
      BY <1>3 DEF Appended
    <3> HIDE DEF c
    <3> QED BY <3>1, AppendFacts
  <2> HIDE DEF c
  <2>3. Len(b) + 1 = 2 * n + 2
    BY <1>3, <2>1
  <2> QED BY <1>3, <2>2, <2>3
<1>5. Prefixed(todo, first, c)
  BY DEF Prefixed, Dispatched, c, b, p, w
<1> HIDE DEF c
<1>6. /\ Sequence(todo) /\ DOMAIN todo = 1..(2 * n + 3)
      /\ todo[1] = first /\ \A k \in 1..(2 * n + 2) : todo[k + 1] = c[k]
  <2>1. (2 * n + 2) + 1 = 2 * n + 3
    OBVIOUS
  <2>2. Sequence(c)
    BY <1>4
  <2>3. /\ Sequence(todo) /\ DOMAIN todo = 1..(Len(c) + 1) /\ todo[1] = first
        /\ \A k \in DOMAIN c : todo[k + 1] = c[k]
    BY <1>5, <2>2, Prepended
  <2>4. Len(c) + 1 = 2 * n + 3 /\ DOMAIN c = 1..(2 * n + 2)
    BY <1>4, <2>1
  <2> QED BY <2>3, <2>4
<1>7. todo[2] = w
  <2>1. 1 \in 1..(2 * n + 2) /\ 1 \in 1..(2 * n + 1) /\ 1 + 1 = 2
    OBVIOUS
  <2> QED BY <1>3, <1>4, <1>6, <2>1
<1>8. todo[2 * n + 3] = last
  <2>1. 2 * n + 2 \in 1..(2 * n + 2) /\ (2 * n + 2) + 1 = 2 * n + 3
    OBVIOUS
  <2> QED BY <1>4, <1>6, <2>1
<1>9. ASSUME NEW k \in 1..(2 * n) PROVE todo[k + 2] = p[k]
  <2>1. k + 1 \in 1..(2 * n + 2) /\ k + 1 \in 1..(2 * n + 1) /\ (k + 1) + 1 = k + 2
    OBVIOUS
  <2> QED BY <1>3, <1>4, <1>6, <2>1
<1>10. ASSUME NEW y \in 1..n
       PROVE  /\ todo[2 * y + 1] = <<Insert("notices", Notice(j, y))>>
              /\ todo[2 * y + 2] = Jobs!Write(j, [processed |-> y])
  <2>1. /\ 2 * y - 1 \in 1..(2 * n) /\ (2 * y - 1) + 2 = 2 * y + 1
        /\ 2 * y \in 1..(2 * n) /\ (2 * y) + 2 = 2 * y + 2
    OBVIOUS
  <2> QED BY <1>2, <1>9, <2>1
<1> QED BY <1>6, <1>7, <1>8, <1>10 DEF w

\* A transaction that can be the first of any.
Begins(first) ==
    /\ Sequence(first)
    /\ \A k \in DOMAIN first : \A todo : todo[1] = first =>
          Truthful(rows.jobs, rows.notices, rows.batches, todo, 1, first[k])

\* process_job, of a dispatch: whoever is counted has been told before.
LEMMA DispatchTruthful ==
    ASSUME JobsInv, NEW j \in DOMAIN rows.jobs, NEW n \in Nat, NEW first, NEW status,
           NEW todo, Dispatched(todo, first, j, n, Jobs!Write(j, [status |-> status])),
           Begins(first),
           status = "COMPLETED" => /\ rows.jobs[j].type = "BULK_NOTIFICATION_DISPATCH"
                                   /\ rows.jobs[j].total = n
    PROVE  /\ Transactions(todo)
           /\ \A i \in DOMAIN todo : \A k \in DOMAIN todo[i] :
                 Truthful(rows.jobs, rows.notices, rows.batches, todo, i, todo[i][k])
<1>1. /\ Sequence(todo) /\ DOMAIN todo = 1..(2 * n + 3)
      /\ todo[1] = first /\ todo[2] = Jobs!Write(j, [processed |-> 0])
      /\ todo[2 * n + 3] = Jobs!Write(j, [status |-> status])
      /\ \A y \in 1..n : /\ todo[2 * y + 1] = <<Insert("notices", Notice(j, y))>>
                         /\ todo[2 * y + 2] = Jobs!Write(j, [processed |-> y])
  BY DispatchFacts
<1>2. j # 0
  BY SequenceFacts DEF JobsInv, JobRowsOK, WellFormed
<1>3. ASSUME NEW i \in DOMAIN todo
      PROVE  i = 1 \/ i = 2 \/ i = 2 * n + 3 \/ \E y \in 1..n : i = 2 * y + 1 \/ i = 2 * y + 2
  <2>1. i \in 1..(2 * n + 3)
    BY <1>1
  <2>2. CASE i > 2 /\ i < 2 * n + 3
    <3>1. i - 2 \in Nat \ {0} /\ i - 2 < 2 * n + 1
      BY <2>1, <2>2
    <3>2. PICK y \in Nat : i - 2 = 2 * y \/ i - 2 = 2 * y - 1
      BY <3>1, Halves
    <3>3. y \in 1..n
      <4>1. CASE i - 2 = 2 * y
        BY <2>1, <3>1, <4>1
      <4>2. CASE i - 2 = 2 * y - 1
        BY <2>1, <3>1, <4>2
      <4> QED BY <3>2, <4>1, <4>2
    <3>4. i = 2 * y + 1 \/ i = 2 * y + 2
      BY <2>1, <3>2
    <3> QED BY <3>3, <3>4
  <2>3. i = 1 \/ i = 2 \/ i = 2 * n + 3 \/ (i > 2 /\ i < 2 * n + 3)
    BY <2>1
  <2> QED BY <2>2, <2>3
<1>4. \A columns : /\ Sequence(Jobs!Write(j, columns)) /\ DOMAIN Jobs!Write(j, columns) = {1}
                   /\ Jobs!Write(j, columns)[1] = [table |-> "jobs", id |-> j, columns |-> columns]
  BY OneElement DEF Jobs!Write
<1>5. \A x : Sequence(<<x>>) /\ DOMAIN <<x>> = {1} /\ <<x>>[1] = x
  BY OneElement
<1>6. ASSUME NEW i \in DOMAIN todo PROVE Sequence(todo[i])
  <2>1. Sequence(first)
    BY DEF Begins
  <2>2. CASE i = 1 \/ i = 2 \/ i = 2 * n + 3
    BY <1>1, <1>4, <2>1, <2>2
  <2>3. CASE \E y \in 1..n : i = 2 * y + 1 \/ i = 2 * y + 2
    <3>1. PICK y \in 1..n : i = 2 * y + 1 \/ i = 2 * y + 2
      BY <2>3
    <3>2. CASE i = 2 * y + 1
      BY <1>1, <1>5, <3>2
    <3>3. CASE i = 2 * y + 2
      BY <1>1, <1>4, <3>3
    <3> QED BY <3>1, <3>2, <3>3
  <2> QED BY <1>3, <2>2, <2>3
<1>7. ASSUME NEW y \in 1..n, NEW i \in Nat, i > 2 * y + 1
      PROVE  Promised("notices", rows.notices, Notice(j, y), todo, i)
  <2>1. 2 * y + 1 \in DOMAIN todo /\ 2 * y + 1 < i
    BY <1>1, <1>7
  <2>2. \E k \in DOMAIN todo[2 * y + 1] : todo[2 * y + 1][k] = Insert("notices", Notice(j, y))
    BY <1>1, <1>5
  <2> QED BY <2>1, <2>2 DEF Promised
<1>8. ASSUME NEW i \in Nat, NEW x \in 0..n,
             \A y \in 1..x : Promised("notices", rows.notices, Notice(j, y), todo, i)
      PROVE  Truthful(rows.jobs, rows.notices, rows.batches, todo, i,
                      [table |-> "jobs", id |-> j, columns |-> [processed |-> x]])
  BY <1>2, <1>8 DEF Truthful
<1>9. ASSUME NEW i \in DOMAIN todo, NEW k \in DOMAIN todo[i]
      PROVE  Truthful(rows.jobs, rows.notices, rows.batches, todo, i, todo[i][k])
  <2>1. CASE i = 1
    BY <1>1, <1>9, <2>1 DEF Begins
  <2>2. CASE i = 2
    <3>1. todo[i][k] = [table |-> "jobs", id |-> j, columns |-> [processed |-> 0]]
      <4>1. todo[i] = Jobs!Write(j, [processed |-> 0])
        BY <1>1, <2>2
      <4> QED BY <1>4, <1>9, <4>1
    <3>2. 0 \in 0..n /\ 1..0 = {}
      OBVIOUS
    <3> QED BY <1>8, <2>2, <3>1, <3>2
  <2>3. ASSUME NEW y \in 1..n, i = 2 * y + 1
        PROVE  Truthful(rows.jobs, rows.notices, rows.batches, todo, i, todo[i][k])
    <3>1. todo[i][k] = Insert("notices", Notice(j, y))
      BY <1>1, <1>5, <1>9, <2>3
    <3>2. Insert("notices", Notice(j, y)).table = "notices" /\ Insert("notices", Notice(j, y)).id = 0
      BY DEF Insert
    <3> QED BY <3>1, <3>2 DEF Truthful
  <2>4. ASSUME NEW y \in 1..n, i = 2 * y + 2
        PROVE  Truthful(rows.jobs, rows.notices, rows.batches, todo, i, todo[i][k])
    <3>1. todo[i][k] = [table |-> "jobs", id |-> j, columns |-> [processed |-> y]]
      <4>1. todo[i] = Jobs!Write(j, [processed |-> y])
        BY <1>1, <2>4
      <4> QED BY <1>4, <1>9, <4>1
    <3>2. \A x \in 1..y : x \in 1..n /\ i > 2 * x + 1
      BY <2>4
    <3>3. i \in Nat /\ y \in 0..n
      BY <2>4
    <3> QED BY <1>7, <1>8, <3>1, <3>2, <3>3
  <2>5. CASE i = 2 * n + 3
    <3>1. todo[i][k] = [table |-> "jobs", id |-> j, columns |-> [status |-> status]]
      BY <1>1, <1>4, <1>9, <2>5
    <3>2. i \in Nat /\ \A y \in 1..n : i > 2 * y + 1
      BY <2>5
    <3>3. \A y \in 1..n : Promised("notices", rows.notices, Notice(j, y), todo, i)
      BY <1>7, <3>2
    <3>4. status = "COMPLETED" =>
              Accomplished(rows.notices, rows.batches, todo, i, j, rows.jobs[j])
      BY <3>3 DEF Accomplished
    <3> QED BY <1>2, <3>1, <3>4 DEF Truthful
  <2> QED BY <1>3, <2>1, <2>2, <2>3, <2>4, <2>5
<1> QED BY <1>1, <1>6, <1>9 DEF Transactions

\* The courses of a job: to its end, or up to an exception.
LEMMA CourseOf ==
    ASSUME NEW j, NEW course \in Jobs!Courses(j)
    PROVE  \/ /\ rows.jobs[j].type = "BATCH_REPORT_CARD_GEN"
              /\ \/ course = <<<<Insert("batches", Batch(j))>>, Jobs!Write(j, [status |-> "COMPLETED"])>>
                 \/ course = <<Jobs!Write(j, [status |-> "FAILED"])>>
           \/ /\ rows.jobs[j].type # "BATCH_REPORT_CARD_GEN"
              /\ \E n \in {rows.jobs[j].total} \cup 0..(rows.jobs[j].total - 1),
                    status \in {"COMPLETED", "FAILED"} :
                    /\ status = "COMPLETED" => n = rows.jobs[j].total
                    /\ course = Append(<<Jobs!Write(j, [processed |-> 0])>> \o Progress(j, n),
                                       Jobs!Write(j, [status |-> status]))
<1>1. CASE rows.jobs[j].type = "BATCH_REPORT_CARD_GEN"
  <2>1. Jobs!Insert("batches", [job |-> j]) = Insert("batches", Batch(j))
    BY JobsStatements DEF Batch
  <2>2. course \in {<<<<Jobs!Insert("batches", [job |-> j])>>, Jobs!mark_completed(j)>>,
                    <<Jobs!mark_failed(j)>>}
    BY <1>1 DEF Jobs!Courses
  <2> QED BY <1>1, <2>1, <2>2 DEF Jobs!mark_completed, Jobs!mark_failed
<1>2. CASE rows.jobs[j].type # "BATCH_REPORT_CARD_GEN"
  <2> DEFINE total == rows.jobs[j].total
             Informed(n) == <<Jobs!Write(j, [processed |-> 0])>> \o Progress(j, n)
  <2>1. course \in {Append(Informed(total), Jobs!mark_completed(j))}
                   \cup {Append(Informed(n), Jobs!mark_failed(j)) : n \in 0..(total - 1)}
    BY <1>2 DEF Jobs!Courses, Progress
  <2> HIDE DEF Informed
  <2>2. \/ course = Append(Informed(total), Jobs!Write(j, [status |-> "COMPLETED"]))
        \/ \E n \in 0..(total - 1) :
              course = Append(Informed(n), Jobs!Write(j, [status |-> "FAILED"]))
    BY <2>1 DEF Jobs!mark_completed, Jobs!mark_failed
  <2>3. CASE course = Append(Informed(total), Jobs!Write(j, [status |-> "COMPLETED"]))
    BY <1>2, <2>3 DEF Informed
  <2>4. CASE \E n \in 0..(total - 1) :
                course = Append(Informed(n), Jobs!Write(j, [status |-> "FAILED"]))
    BY <1>2, <2>4 DEF Informed
  <2> QED BY <2>2, <2>3, <2>4
<1> QED BY <1>1, <1>2

\* process_job, of report cards: the cards are there before the job is completed.
LEMMA CardsTruthful ==
    ASSUME JobsInv, NEW j \in DOMAIN rows.jobs, NEW first, NEW course, NEW todo,
           Begins(first), Prefixed(todo, first, course),
           rows.jobs[j].type # "BULK_NOTIFICATION_DISPATCH",
           \/ course = <<<<Insert("batches", Batch(j))>>, Jobs!Write(j, [status |-> "COMPLETED"])>>
           \/ course = <<Jobs!Write(j, [status |-> "FAILED"])>>
    PROVE  /\ Transactions(todo)
           /\ \A i \in DOMAIN todo : \A k \in DOMAIN todo[i] :
                 Truthful(rows.jobs, rows.notices, rows.batches, todo, i, todo[i][k])
<1>1. j # 0
  BY SequenceFacts DEF JobsInv, JobRowsOK, WellFormed
<1>2. \A columns : /\ Sequence(Jobs!Write(j, columns)) /\ DOMAIN Jobs!Write(j, columns) = {1}
                   /\ Jobs!Write(j, columns)[1] = [table |-> "jobs", id |-> j, columns |-> columns]
  BY OneElement DEF Jobs!Write
<1>3. \A x : Sequence(<<x>>) /\ DOMAIN <<x>> = {1} /\ <<x>>[1] = x
  BY OneElement
<1>4. Sequence(first)
  BY DEF Begins
<1>5. CASE course = <<<<Insert("batches", Batch(j))>>, Jobs!Write(j, [status |-> "COMPLETED"])>>
  <2> DEFINE made == <<Insert("batches", Batch(j))>>
             done == Jobs!Write(j, [status |-> "COMPLETED"])
  <2>1. /\ Sequence(made) /\ DOMAIN made = {1} /\ made[1] = Insert("batches", Batch(j))
        /\ Sequence(done) /\ DOMAIN done = {1}
        /\ done[1] = [table |-> "jobs", id |-> j, columns |-> [status |-> "COMPLETED"]]
    BY <1>2, <1>3
  <2> HIDE DEF made, done
  <2>2. course = <<made, done>>
    BY <1>5 DEF made, done
  <2>3. /\ Sequence(course) /\ Len(course) = 2 /\ DOMAIN course = {1, 2}
        /\ course[1] = made /\ course[2] = done
    BY <2>2, TwoElements
  <2>4. /\ Sequence(todo) /\ DOMAIN todo = 1..3
        /\ todo[1] = first /\ todo[2] = made /\ todo[3] = done
    <3>1. Sequence(course)
      BY <2>3
    <3>2. /\ Sequence(todo) /\ DOMAIN todo = 1..(Len(course) + 1) /\ todo[1] = first
          /\ \A k \in DOMAIN course : todo[k + 1] = course[k]
      BY <3>1, Prepended
    <3>3. Len(course) + 1 = 3 /\ 1 + 1 = 2 /\ 2 + 1 = 3
      BY <2>3
    <3>4. todo[1 + 1] = made /\ todo[2 + 1] = done
      BY <2>3, <3>2
    <3> QED BY <3>2, <3>3, <3>4
  <2>5. Truthful(rows.jobs, rows.notices, rows.batches, todo, 2, made[1])
    <3>1. Insert("batches", Batch(j)).table = "batches" /\ Insert("batches", Batch(j)).id = 0
      BY DEF Insert
    <3> QED BY <2>1, <3>1 DEF Truthful
  <2>6. Truthful(rows.jobs, rows.notices, rows.batches, todo, 3, done[1])
    <3>1. Promised("batches", rows.batches, Batch(j), todo, 3)
      BY <2>1, <2>4 DEF Promised
    <3>2. Accomplished(rows.notices, rows.batches, todo, 3, j, rows.jobs[j])
      BY <3>1 DEF Accomplished
    <3> QED BY <1>1, <2>1, <3>2 DEF Truthful
  <2>7. \A k \in DOMAIN first :
            Truthful(rows.jobs, rows.notices, rows.batches, todo, 1, first[k])
    BY <2>4 DEF Begins
  <2>8. \A i \in DOMAIN todo : i = 1 \/ i = 2 \/ i = 3
    BY <2>4
  <2>9. \A i \in DOMAIN todo : Sequence(todo[i])
    BY <1>4, <2>1, <2>4, <2>8
  <2>10. ASSUME NEW i \in DOMAIN todo, NEW k \in DOMAIN todo[i]
         PROVE  Truthful(rows.jobs, rows.notices, rows.batches, todo, i, todo[i][k])
    <3>1. CASE i = 1
      BY <2>4, <2>7, <2>10, <3>1
    <3>2. CASE i = 2
      BY <2>1, <2>4, <2>5, <2>10, <3>2
    <3>3. CASE i = 3
      BY <2>1, <2>4, <2>6, <2>10, <3>3
    <3> QED BY <2>8, <3>1, <3>2, <3>3
  <2> QED BY <2>4, <2>9, <2>10 DEF Transactions
<1>6. CASE course = <<Jobs!Write(j, [status |-> "FAILED"])>>
  <2> DEFINE failed == Jobs!Write(j, [status |-> "FAILED"])
  <2>1. /\ Sequence(failed) /\ DOMAIN failed = {1}
        /\ failed[1] = [table |-> "jobs", id |-> j, columns |-> [status |-> "FAILED"]]
    BY <1>2
  <2> HIDE DEF failed
  <2>2. course = <<failed>>
    BY <1>6 DEF failed
  <2>3. Sequence(course) /\ Len(course) = 1 /\ DOMAIN course = {1} /\ course[1] = failed
    BY <2>2, OneElement
  <2>4. /\ Sequence(todo) /\ DOMAIN todo = 1..2 /\ todo[1] = first /\ todo[2] = failed
    <3>1. Sequence(course)
      BY <2>3
    <3>2. /\ Sequence(todo) /\ DOMAIN todo = 1..(Len(course) + 1) /\ todo[1] = first
          /\ \A k \in DOMAIN course : todo[k + 1] = course[k]
      BY <3>1, Prepended
    <3>3. Len(course) + 1 = 2 /\ 1 + 1 = 2
      BY <2>3
    <3>4. todo[1 + 1] = failed
      BY <2>3, <3>2
    <3> QED BY <3>2, <3>3, <3>4
  <2>5. Truthful(rows.jobs, rows.notices, rows.batches, todo, 2, failed[1])
    BY <1>1, <2>1 DEF Truthful
  <2>6. \A k \in DOMAIN first :
            Truthful(rows.jobs, rows.notices, rows.batches, todo, 1, first[k])
    BY <2>4 DEF Begins
  <2>7. \A i \in DOMAIN todo : i = 1 \/ i = 2
    BY <2>4
  <2>8. \A i \in DOMAIN todo : Sequence(todo[i])
    BY <1>4, <2>1, <2>4, <2>7
  <2>9. ASSUME NEW i \in DOMAIN todo, NEW k \in DOMAIN todo[i]
        PROVE  Truthful(rows.jobs, rows.notices, rows.batches, todo, i, todo[i][k])
    <3>1. CASE i = 1
      BY <2>4, <2>6, <2>9, <3>1
    <3>2. CASE i = 2
      BY <2>1, <2>4, <2>5, <2>9, <3>2
    <3> QED BY <2>7, <3>1, <3>2
  <2> QED BY <2>4, <2>8, <2>9 DEF Transactions
<1> QED BY <1>5, <1>6

\* process_job keeps the invariant.
LEMMA WorkKeeps ==
    ASSUME JobsInv, NEW s \in Session, Jobs!process_job(s)
    PROVE  JobsInv'
<1> DEFINE taken(t) == Jobs!Update("tasks", t, [deleted |-> TRUE])
           began(j) == Jobs!Update("jobs", j, [status |-> "PROCESSING"])
<1>1. PICK t, j :
          /\ t \in DOMAIN rows.tasks /\ j = rows.tasks[t].job /\ rows' = rows
          /\ \/ work' = [work EXCEPT ![s] =
                            [locks |-> {<<"tasks", t>>}, todo |-> <<<<taken(t)>>>>]]
             \/ \E course \in Jobs!Courses(j) :
                   work' = [work EXCEPT ![s] =
                               [locks |-> {<<"tasks", t>>},
                                todo  |-> <<Append(<<taken(t)>>, began(j))>> \o course]]
  BY DEF Jobs!process_job, Jobs!Live
<1>2. j \in DOMAIN rows.jobs
  BY <1>1 DEF JobsInv, JobRowsOK
<1>3. t # 0 /\ j # 0
  BY <1>1, <1>2, SequenceFacts DEF JobsInv, JobRowsOK, WellFormed
<1> DEFINE take  == taken(t)
           begin == began(j)
<1>4. /\ take.table = "tasks" /\ take.id = t /\ DOMAIN take.columns \subseteq {"deleted"}
      /\ begin.table = "jobs" /\ begin.id = j /\ DOMAIN begin.columns \subseteq {"status"}
      /\ "status" \in DOMAIN begin.columns => begin.columns["status"] = "PROCESSING"
  BY JobsStatements
<1>5. /\ \/ work' = [work EXCEPT ![s] = [locks |-> {<<"tasks", t>>}, todo |-> <<<<take>>>>]]
         \/ \E course \in Jobs!Courses(j) :
               work' = [work EXCEPT ![s] = [locks |-> {<<"tasks", t>>},
                            todo  |-> <<Append(<<take>>, begin)>> \o course]]
  BY <1>1
<1> HIDE DEF take, begin
<1>6. \A todo, i : /\ Truthful(rows.jobs, rows.notices, rows.batches, todo, i, take)
                   /\ Truthful(rows.jobs, rows.notices, rows.batches, todo, i, begin)
  BY <1>2, <1>3, <1>4 DEF Truthful
<1>7. CASE work' = [work EXCEPT ![s] = [locks |-> {<<"tasks", t>>}, todo |-> <<<<take>>>>]]
  <2> DEFINE q    == <<take>>
             todo == <<q>>
  <2>1. Sequence(q) /\ DOMAIN q = {1} /\ q[1] = take
    BY OneElement
  <2>2. DOMAIN todo = {1} /\ todo[1] = q /\ Transactions(todo)
    BY <2>1, OneTransaction, OneElement
  <2>3. work' = [work EXCEPT ![s] = [locks |-> {<<"tasks", t>>}, todo |-> todo]]
    BY <1>7
  <2> HIDE DEF q, todo
  <2>4. \A i \in DOMAIN todo : \A k \in DOMAIN todo[i] :
            Truthful(rows.jobs, rows.notices, rows.batches, todo, i, todo[i][k])
    BY <1>6, <2>1, <2>2
  <2> QED BY <1>1, <2>2, <2>3, <2>4, JobsRequest
<1>8. ASSUME NEW course \in Jobs!Courses(j),
             work' = [work EXCEPT ![s] = [locks |-> {<<"tasks", t>>},
                          todo  |-> <<Append(<<take>>, begin)>> \o course]]
      PROVE  JobsInv'
  <2> DEFINE q     == <<take>>
             first == Append(q, begin)
             todo  == <<first>> \o course
  <2>1. Sequence(q) /\ Len(q) = 1 /\ DOMAIN q = {1} /\ q[1] = take
    BY OneElement
  <2> HIDE DEF q
  <2>2. Sequence(first) /\ DOMAIN first = {1, 2} /\ first[1] = take /\ first[2] = begin
    <3>1. /\ Sequence(first) /\ DOMAIN first = 1..(Len(q) + 1)
          /\ \A k \in DOMAIN q : first[k] = q[k]
          /\ first[Len(q) + 1] = begin
      <4>1. Sequence(q) /\ Appended(first, q, begin)
        BY <2>1 DEF Appended
      <4> HIDE DEF first
      <4> QED BY <4>1, AppendFacts
    <3> HIDE DEF first
    <3>2. DOMAIN first = {1, 2} /\ Len(q) + 1 = 2
      BY <2>1, <3>1
    <3> QED BY <2>1, <3>1, <3>2
  <2>3. work' = [work EXCEPT ![s] = [locks |-> {<<"tasks", t>>}, todo |-> todo]]
    BY <1>8 DEF q
  <2> HIDE DEF first
  <2>4. Begins(first)
    BY <1>6, <2>2 DEF Begins
  <2>5. Prefixed(todo, first, course)
    BY DEF Prefixed
  <2> HIDE DEF todo
  <2>6. CASE rows.jobs[j].type = "BATCH_REPORT_CARD_GEN"
    <3>1. \/ course = <<<<Insert("batches", Batch(j))>>, Jobs!Write(j, [status |-> "COMPLETED"])>>
          \/ course = <<Jobs!Write(j, [status |-> "FAILED"])>>
      BY <2>6, CourseOf
    <3>2. rows.jobs[j].type # "BULK_NOTIFICATION_DISPATCH"
      BY <2>6
    <3>3. /\ Transactions(todo)
          /\ \A i \in DOMAIN todo : \A k \in DOMAIN todo[i] :
                Truthful(rows.jobs, rows.notices, rows.batches, todo, i, todo[i][k])
      BY <1>2, <2>4, <2>5, <3>1, <3>2, CardsTruthful
    <3> QED BY <1>1, <2>3, <3>3, JobsRequest
  <2>7. CASE rows.jobs[j].type # "BATCH_REPORT_CARD_GEN"
    <3>1. PICK n \in {rows.jobs[j].total} \cup 0..(rows.jobs[j].total - 1),
               status \in {"COMPLETED", "FAILED"} :
               /\ status = "COMPLETED" => n = rows.jobs[j].total
               /\ course = Append(<<Jobs!Write(j, [processed |-> 0])>> \o Progress(j, n),
                                  Jobs!Write(j, [status |-> status]))
      BY <2>7, CourseOf
    <3>2. rows.jobs[j].type = "BULK_NOTIFICATION_DISPATCH" /\ n \in Nat
      BY <1>2, <2>7 DEF JobsInv, JobRowsOK, Jobs!JobType
    <3>3. Dispatched(todo, first, j, n, Jobs!Write(j, [status |-> status]))
      BY <3>1 DEF todo, Dispatched
    <3>4. status = "COMPLETED" => /\ rows.jobs[j].type = "BULK_NOTIFICATION_DISPATCH"
                                  /\ rows.jobs[j].total = n
      BY <3>1, <3>2
    <3>5. /\ Transactions(todo)
          /\ \A i \in DOMAIN todo : \A k \in DOMAIN todo[i] :
                Truthful(rows.jobs, rows.notices, rows.batches, todo, i, todo[i][k])
      BY <1>2, <2>4, <3>2, <3>3, <3>4, DispatchTruthful
    <3> QED BY <1>1, <2>3, <3>5, JobsRequest
  <2> QED BY <2>6, <2>7
<1> QED BY <1>5, <1>7, <1>8

\* What is true of one moment is true of a later one, if the promises are kept.
LEMMA TruthStands ==
    ASSUME NEW jobs, NEW notices, NEW batches, NEW todo, NEW i, NEW st,
           Truthful(jobs, notices, batches, todo, i, st),
           NEW jobs2, NEW notices2, NEW batches2, NEW todo2, NEW i2,
           \A j \in DOMAIN jobs : /\ j \in DOMAIN jobs2 /\ jobs2[j].type = jobs[j].type
                                  /\ jobs2[j].total = jobs[j].total,
           \A row : Written(row) /\ Promised("notices", notices, row, todo, i)
                => Promised("notices", notices2, row, todo2, i2),
           \A row : Written(row) /\ Promised("batches", batches, row, todo, i)
                => Promised("batches", batches2, row, todo2, i2),
           todo2[i2] = todo[i]
    PROVE  Truthful(jobs2, notices2, batches2, todo2, i2, st)
<1>1. \A j, y : Written(Notice(j, y)) /\ Written(Batch(j))
  BY DEF Written, Notice, Batch
<1>2. ASSUME NEW j \in DOMAIN jobs, Accomplished(notices, batches, todo, i, j, jobs[j])
      PROVE  Accomplished(notices2, batches2, todo2, i2, j, jobs2[j])
  BY <1>1, <1>2 DEF Accomplished
<1>3. ASSUME st.table = "jobs", st.id # 0
      PROVE  /\ st.id \in DOMAIN jobs2
             /\ DOMAIN st.columns \cap {"type", "total"} = {}
             /\ "processed" \in DOMAIN st.columns =>
                   \A y \in 1..st.columns.processed :
                       Promised("notices", notices2, Notice(st.id, y), todo2, i2)
             /\ "status" \in DOMAIN st.columns /\ st.columns.status = "COMPLETED" =>
                   Accomplished(notices2, batches2, todo2, i2, st.id, jobs2[st.id])
  BY <1>1, <1>2, <1>3 DEF Truthful
<1>4. ASSUME st.table = "tasks", st.id = 0
      PROVE  /\ {"job", "deleted"} \subseteq DOMAIN st.columns
             /\ \/ st.refers = <<>> /\ st.columns.job \in DOMAIN jobs2
                \/ /\ DOMAIN st.refers = {"job"} /\ st.refers["job"] = "jobs"
                   /\ \E k \in DOMAIN todo2[i2] :
                         todo2[i2][k].table = "jobs" /\ todo2[i2][k].id = 0
  BY <1>4 DEF Truthful
<1> QED BY <1>3, <1>4 DEF Truthful

\* A commit of the desk.
LEMMA JobsCommit ==
    ASSUME JobsInv, NEW s \in Session, Commit(s)
    PROVE  JobsInv'
<1>1. WellFormed' /\ DOMAIN rows' = DOMAIN rows /\ work[s].todo # <<>>
  BY CommitWellFormed DEF JobsInv, Commit
<1>2. /\ WellFormed /\ {"jobs", "tasks", "notices", "batches"} \subseteq DOMAIN rows
      /\ \A t \in DOMAIN rows : Sequence(rows[t])
      /\ Sequence(Sent(s)) /\ Sent(s) = work[s].todo[1] /\ 1 \in DOMAIN work[s].todo
      /\ Sequence(work[s].todo)
  BY <1>1, SentWellFormed DEF JobsInv, JobRowsOK, WellFormed, Transactions
<1>3. \A k \in DOMAIN Sent(s) :
          Truthful(rows.jobs, rows.notices, rows.batches, work[s].todo, 1, Sent(s)[k])
  BY <1>2 DEF JobsInv
<1>4. \A t \in {"notices", "batches"} : \A k \in DOMAIN Sent(s) :
          Sent(s)[k].table = t => Sent(s)[k].id = 0
  BY <1>3 DEF Truthful
<1>5. \A j, y : Written(Notice(j, y)) /\ Written(Batch(j))
  BY DEF Written, Notice, Batch
<1>6. ASSUME NEW t \in {"notices", "batches"}, NEW row, Written(row),
             Promised(t, rows[t], row, <<>>, 1) \/ Promised(t, rows[t], row, work[s].todo, 1)
      PROVE  Promised(t, rows'[t], row, <<>>, 1)
  <2>1. Sequence(<<>>)
    BY EmptySequence
  <2>2. \E n \in DOMAIN rows[t] : rows[t][n] = row
    BY <1>2, <1>6, <2>1, PromiseDone
  <2>3. t \in DOMAIN rows /\ \A k \in DOMAIN Sent(s) : Sent(s)[k].table = t => Sent(s)[k].id = 0
    BY <1>2, <1>4
  <2>4. \E n \in DOMAIN rows'[t] : rows'[t][n] = row
    BY <1>2, <1>6, <2>2, <2>3, RowStays
  <2> QED BY <2>4 DEF Promised
<1>7. ASSUME NEW todo, NEW j, NEW r,
             Accomplished(rows.notices, rows.batches, todo, 1, j, r),
             todo = <<>> \/ todo = work[s].todo
      PROVE  Accomplished(rows'.notices, rows'.batches, <<>>, 1, j, r)
  <2>1. CASE r.type = "BULK_NOTIFICATION_DISPATCH"
    <3>1. \A y \in 1..r.total : Promised("notices", rows["notices"], Notice(j, y), todo, 1)
      BY <1>7, <2>1 DEF Accomplished
    <3>2. \A y \in 1..r.total : Promised("notices", rows'["notices"], Notice(j, y), <<>>, 1)
      BY <1>5, <1>6, <1>7, <3>1
    <3> QED BY <2>1, <3>2 DEF Accomplished
  <2>2. CASE r.type # "BULK_NOTIFICATION_DISPATCH"
    <3>1. Promised("batches", rows["batches"], Batch(j), todo, 1)
      BY <1>7, <2>2 DEF Accomplished
    <3>2. Promised("batches", rows'["batches"], Batch(j), <<>>, 1)
      BY <1>5, <1>6, <1>7, <3>1
    <3> QED BY <2>2, <3>2 DEF Accomplished
  <2> QED BY <2>1, <2>2
<1>8. ASSUME NEW j \in DOMAIN rows["jobs"]
      PROVE  /\ j \in DOMAIN rows'["jobs"] /\ j # 0
             /\ JobColumns \subseteq DOMAIN rows'["jobs"][j]
             /\ rows'["jobs"][j].type = rows["jobs"][j].type
             /\ rows'["jobs"][j].total = rows["jobs"][j].total
  <2>1. j # 0
    BY <1>2, SequenceFacts
  <2>2. JobColumns \subseteq DOMAIN rows["jobs"][j]
    BY DEF JobsInv, JobRowsOK
  <2>3. /\ j \in DOMAIN rows'["jobs"] /\ DOMAIN rows'["jobs"][j] = DOMAIN rows["jobs"][j]
        /\ \A c \in DOMAIN rows["jobs"][j] :
              (\A k \in DOMAIN Sent(s) : Sent(s)[k].table = "jobs" /\ Sent(s)[k].id = j
                   => c \notin DOMAIN Sent(s)[k].columns)
              => rows'["jobs"][j][c] = rows["jobs"][j][c]
    BY <1>2, ColumnKept
  <2>4. \A c \in {"type", "total"} : rows'["jobs"][j][c] = rows["jobs"][j][c]
    <3>1. \A c \in {"type", "total"} : \A k \in DOMAIN Sent(s) :
              Sent(s)[k].table = "jobs" /\ Sent(s)[k].id = j => c \notin DOMAIN Sent(s)[k].columns
      BY <1>3, <2>1 DEF Truthful
    <3>2. {"type", "total"} \subseteq DOMAIN rows["jobs"][j]
      BY <2>2 DEF JobColumns
    <3> QED BY <2>3, <3>1, <3>2
  <2> QED BY <2>1, <2>2, <2>3, <2>4
<1>9. ASSUME NEW t \in DOMAIN rows, NEW i \in DOMAIN rows'[t], i \notin DOMAIN rows[t]
      PROVE  \E k \in DOMAIN Sent(s) : /\ Sent(s)[k].table = t /\ Sent(s)[k].id = 0
                                       /\ rows'[t][i] = NewRow(s, k)
  BY <1>2, <1>9, CommitFacts DEF InsertsInto
<1>10. ASSUME NEW j \in DOMAIN rows'["jobs"], j \notin DOMAIN rows["jobs"]
       PROVE  /\ JobColumns \subseteq DOMAIN rows'["jobs"][j]
              /\ rows'["jobs"][j].type \in Jobs!JobType /\ rows'["jobs"][j].total \in Nat
              /\ rows'["jobs"][j].processed = 0 /\ rows'["jobs"][j].status # "COMPLETED"
  <2>1. PICK k \in DOMAIN Sent(s) : /\ Sent(s)[k].table = "jobs" /\ Sent(s)[k].id = 0
                                    /\ rows'["jobs"][j] = NewRow(s, k)
    BY <1>2, <1>9, <1>10
  <2>2. /\ JobColumns \subseteq DOMAIN Sent(s)[k].columns /\ Sent(s)[k].refers = <<>>
        /\ Sent(s)[k].columns.type \in Jobs!JobType
        /\ Sent(s)[k].columns.total \in Nat /\ Sent(s)[k].columns.processed = 0
        /\ Sent(s)[k].columns.status # "COMPLETED"
    BY <1>3, <2>1 DEF Truthful
  <2>3. \A c \in JobColumns : /\ c \in DOMAIN NewRow(s, k)
                              /\ NewRow(s, k)[c] = Sent(s)[k].columns[c]
    BY <2>2, EmptySequence DEF NewRow
  <2> QED BY <2>1, <2>2, <2>3 DEF JobColumns
<1>11. ASSUME NEW t \in DOMAIN rows'["tasks"]
       PROVE  /\ {"job", "deleted"} \subseteq DOMAIN rows'["tasks"][t]
              /\ rows'["tasks"][t].job \in DOMAIN rows'["jobs"]
  <2>1. CASE t \in DOMAIN rows["tasks"]
    <3>1. t # 0
      BY <1>2, <2>1, SequenceFacts
    <3>2. /\ {"job", "deleted"} \subseteq DOMAIN rows["tasks"][t]
          /\ rows["tasks"][t].job \in DOMAIN rows["jobs"]
      BY <2>1 DEF JobsInv, JobRowsOK
    <3>3. /\ DOMAIN rows'["tasks"][t] = DOMAIN rows["tasks"][t]
          /\ \A c \in DOMAIN rows["tasks"][t] :
                (\A k \in DOMAIN Sent(s) : Sent(s)[k].table = "tasks" /\ Sent(s)[k].id = t
                     => c \notin DOMAIN Sent(s)[k].columns)
                => rows'["tasks"][t][c] = rows["tasks"][t][c]
      BY <1>2, <2>1, ColumnKept
    <3>4. \A k \in DOMAIN Sent(s) : Sent(s)[k].table = "tasks" /\ Sent(s)[k].id = t
              => "job" \notin DOMAIN Sent(s)[k].columns
      BY <1>3, <3>1 DEF Truthful
    <3>5. rows'["tasks"][t]["job"] = rows["tasks"][t]["job"]
      BY <3>2, <3>3, <3>4
    <3> QED BY <1>8, <3>2, <3>3, <3>5
  <2>2. CASE t \notin DOMAIN rows["tasks"]
    <3>1. PICK k \in DOMAIN Sent(s) : /\ Sent(s)[k].table = "tasks" /\ Sent(s)[k].id = 0
                                      /\ rows'["tasks"][t] = NewRow(s, k)
      BY <1>2, <1>9, <2>2, SMTT(40)
    <3>2. /\ {"job", "deleted"} \subseteq DOMAIN Sent(s)[k].columns
          /\ \/ Sent(s)[k].refers = <<>> /\ Sent(s)[k].columns.job \in DOMAIN rows["jobs"]
             \/ /\ DOMAIN Sent(s)[k].refers = {"job"} /\ Sent(s)[k].refers["job"] = "jobs"
                /\ \E h \in DOMAIN Sent(s) : Sent(s)[h].table = "jobs" /\ Sent(s)[h].id = 0
      BY <1>2, <1>3, <3>1, ZenonT(60) DEF Truthful
    <3>3. {"job", "deleted"} \subseteq DOMAIN NewRow(s, k)
      BY <3>2 DEF NewRow
    <3>4. CASE Sent(s)[k].refers = <<>> /\ Sent(s)[k].columns.job \in DOMAIN rows["jobs"]
      <4>1. NewRow(s, k).job = Sent(s)[k].columns.job
        BY <3>2, <3>4, EmptySequence DEF NewRow
      <4> QED BY <1>8, <3>1, <3>3, <3>4, <4>1
    <3>5. CASE /\ DOMAIN Sent(s)[k].refers = {"job"} /\ Sent(s)[k].refers["job"] = "jobs"
               /\ \E h \in DOMAIN Sent(s) : Sent(s)[h].table = "jobs" /\ Sent(s)[h].id = 0
      <4>1. NewRow(s, k).job = Len(rows["jobs"]) + 1
        BY <3>2, <3>5 DEF NewRow
      <4>2. PICK h \in DOMAIN Sent(s) : Sent(s)[h].table = "jobs" /\ Sent(s)[h].id = 0
        BY <3>5
      <4>3. h \in InsertsInto(s, "jobs")
        BY <4>2 DEF InsertsInto
      <4>4. "jobs" \in DOMAIN rows /\ Sequence(rows["jobs"])
        BY <1>2
      <4>5. PICK i : i \in DOMAIN rows'["jobs"] \ DOMAIN rows["jobs"]
        BY <1>2, <4>3, <4>4, CommitFacts
      <4>6. Sequence(rows'["jobs"])
        BY <1>1, <4>4 DEF WellFormed
      <4>7. /\ Len(rows["jobs"]) \in Nat /\ DOMAIN rows["jobs"] = 1..Len(rows["jobs"])
            /\ Len(rows'["jobs"]) \in Nat /\ DOMAIN rows'["jobs"] = 1..Len(rows'["jobs"])
        BY <4>4, <4>6, SequenceFacts
      <4>8. Len(rows["jobs"]) + 1 \in DOMAIN rows'["jobs"]
        BY <4>5, <4>7
      <4> QED BY <3>1, <3>3, <4>1, <4>8
    <3> QED BY <3>2, <3>4, <3>5
  <2> QED BY <2>1, <2>2
<1>12. JobRowsOK'
  <2>1. ASSUME NEW j \in DOMAIN rows'["jobs"]
        PROVE  /\ JobColumns \subseteq DOMAIN rows'["jobs"][j]
               /\ rows'["jobs"][j].type \in Jobs!JobType /\ rows'["jobs"][j].total \in Nat
    <3>1. CASE j \in DOMAIN rows["jobs"]
      <4>1. rows["jobs"][j].type \in Jobs!JobType /\ rows["jobs"][j].total \in Nat
        BY <3>1 DEF JobsInv, JobRowsOK
      <4> QED BY <1>8, <3>1, <4>1
    <3>2. CASE j \notin DOMAIN rows["jobs"]
      BY <1>10, <3>2
    <3> QED BY <3>1, <3>2
  <2> QED BY <1>1, <1>2, <1>11, <2>1 DEF JobRowsOK, JobColumns, Jobs!JobType
<1>13. JobsTrue(rows'.jobs, rows'.notices, rows'.batches)
  <2>1. ASSUME NEW j \in DOMAIN rows["jobs"], NEW c \in {"processed", "status"}
        PROVE  \/ rows'["jobs"][j][c] = rows["jobs"][j][c]
               \/ \E k \in DOMAIN Sent(s) :
                     /\ Sent(s)[k].table = "jobs" /\ Sent(s)[k].id = j
                     /\ c \in DOMAIN Sent(s)[k].columns
                     /\ rows'["jobs"][j][c] = Sent(s)[k].columns[c]
    <3>1. c \in DOMAIN rows["jobs"][j]
      BY DEF JobsInv, JobRowsOK, JobColumns
    <3> QED BY <1>2, <3>1, ColumnSet
  <2>2. ASSUME NEW j \in DOMAIN rows["jobs"], NEW y \in 1..rows'["jobs"][j].processed
        PROVE  Promised("notices", rows'["notices"], Notice(j, y), <<>>, 1)
    <3>1. CASE rows'["jobs"][j]["processed"] = rows["jobs"][j]["processed"]
      <4>1. Promised("notices", rows["notices"], Notice(j, y), <<>>, 1)
        BY <2>2, <3>1 DEF JobsInv, JobsTrue
      <4> QED BY <1>5, <1>6, <4>1
    <3>2. ASSUME NEW k \in DOMAIN Sent(s), Sent(s)[k].table = "jobs", Sent(s)[k].id = j,
                 "processed" \in DOMAIN Sent(s)[k].columns,
                 rows'["jobs"][j]["processed"] = Sent(s)[k].columns["processed"]
          PROVE  Promised("notices", rows'["notices"], Notice(j, y), <<>>, 1)
      <4>1. Promised("notices", rows["notices"], Notice(j, y), work[s].todo, 1)
        BY <1>3, <1>8, <2>2, <3>2 DEF Truthful
      <4> QED BY <1>5, <1>6, <4>1
    <3> QED BY <2>1, <3>1, <3>2
  <2>3. ASSUME NEW j \in DOMAIN rows["jobs"], rows'["jobs"][j].status = "COMPLETED"
        PROVE  Accomplished(rows'.notices, rows'.batches, <<>>, 1, j, rows'["jobs"][j])
    <3>1. ASSUME Accomplished(rows'.notices, rows'.batches, <<>>, 1, j, rows["jobs"][j])
          PROVE  Accomplished(rows'.notices, rows'.batches, <<>>, 1, j, rows'["jobs"][j])
      BY <1>8, <3>1 DEF Accomplished
    <3>2. CASE rows'["jobs"][j]["status"] = rows["jobs"][j]["status"]
      <4>1. Accomplished(rows.notices, rows.batches, <<>>, 1, j, rows["jobs"][j])
        BY <2>3, <3>2 DEF JobsInv, JobsTrue
      <4> QED BY <1>7, <3>1, <4>1
    <3>3. ASSUME NEW k \in DOMAIN Sent(s), Sent(s)[k].table = "jobs", Sent(s)[k].id = j,
                 "status" \in DOMAIN Sent(s)[k].columns,
                 rows'["jobs"][j]["status"] = Sent(s)[k].columns["status"]
          PROVE  Accomplished(rows'.notices, rows'.batches, <<>>, 1, j, rows'["jobs"][j])
      <4>1. Accomplished(rows.notices, rows.batches, work[s].todo, 1, j, rows["jobs"][j])
        BY <1>3, <1>8, <2>3, <3>3 DEF Truthful
      <4> QED BY <1>7, <3>1, <4>1
    <3> QED BY <2>1, <3>2, <3>3
  <2>4. ASSUME NEW j \in DOMAIN rows'["jobs"]
        PROVE  /\ \A y \in 1..rows'["jobs"][j].processed :
                     Promised("notices", rows'["notices"], Notice(j, y), <<>>, 1)
               /\ rows'["jobs"][j].status = "COMPLETED" =>
                     Accomplished(rows'.notices, rows'.batches, <<>>, 1, j, rows'["jobs"][j])
    <3>1. CASE j \in DOMAIN rows["jobs"]
      BY <2>2, <2>3, <3>1
    <3>2. CASE j \notin DOMAIN rows["jobs"]
      <4>1. 1..0 = {}
        OBVIOUS
      <4> QED BY <1>10, <3>2, <4>1
    <3> QED BY <3>1, <3>2
  <2> QED BY <2>4 DEF JobsTrue
<1>14. ASSUME NEW r \in Session, NEW i \in DOMAIN work'[r].todo, NEW k \in DOMAIN work'[r].todo[i]
       PROVE  Truthful(rows'.jobs, rows'.notices, rows'.batches, work'[r].todo, i,
                       work'[r].todo[i][k])
  <2>1. work'[r].todo = IF r = s THEN Tail(work[s].todo) ELSE work[r].todo
    BY DEF Commit, JobsInv, WellFormed
  <2> DEFINE st == work'[r].todo[i][k]
             j  == IF r = s THEN i + 1 ELSE i
  <2>2. /\ Truthful(rows.jobs, rows.notices, rows.batches, work[r].todo, j, st)
        /\ work'[r].todo[i] = work[r].todo[j]
    <3>1. CASE r = s
      <4>1. i + 1 \in DOMAIN work[s].todo /\ work'[r].todo[i] = work[s].todo[i + 1]
        BY <1>1, <1>2, <2>1, <3>1, SentWellFormed
      <4> QED BY <3>1, <4>1 DEF JobsInv
    <3>2. CASE r # s
      BY <2>1, <3>2 DEF JobsInv
    <3> QED BY <3>1, <3>2
  <2> HIDE DEF st
  <2>3. ASSUME NEW t \in {"notices", "batches"}, NEW row, Written(row),
               Promised(t, rows[t], row, work[r].todo, j)
        PROVE  Promised(t, rows'[t], row, work'[r].todo, i)
    <3>1. t \in DOMAIN rows /\ \A h \in DOMAIN Sent(s) : Sent(s)[h].table = t => Sent(s)[h].id = 0
      BY <1>2, <1>4
    <3>2. CASE r = s
      <4>1. i \in DOMAIN Tail(work[s].todo)
            /\ Promised(t, rows[t], row, work[s].todo, i + 1)
        BY <2>1, <2>3, <3>2
      <4>2. Promised(t, rows'[t], row, Tail(work[s].todo), i)
        BY <1>2, <2>3, <3>1, <4>1, PromiseKept
      <4> QED BY <2>1, <3>2, <4>2
    <3>3. CASE r # s
      <4>1. Promised(t, rows[t], row, work[r].todo, i)
        BY <2>3, <3>3
      <4>2. Promised(t, rows'[t], row, work[r].todo, i)
        BY <1>2, <2>3, <3>1, <4>1, PromiseStands
      <4> QED BY <2>1, <3>3, <4>2
    <3> QED BY <3>2, <3>3
  <2> HIDE DEF j
  <2>4. /\ \A row : Written(row) /\ Promised("notices", rows.notices, row, work[r].todo, j)
               => Promised("notices", rows'.notices, row, work'[r].todo, i)
        /\ \A row : Written(row) /\ Promised("batches", rows.batches, row, work[r].todo, j)
               => Promised("batches", rows'.batches, row, work'[r].todo, i)
    BY <2>3
  <2>5. \A n \in DOMAIN rows.jobs : /\ n \in DOMAIN rows'.jobs
                                    /\ rows'.jobs[n].type = rows.jobs[n].type
                                    /\ rows'.jobs[n].total = rows.jobs[n].total
    BY <1>8
  <2>6. Truthful(rows'.jobs, rows'.notices, rows'.batches, work'[r].todo, i, st)
    BY <2>2, <2>4, <2>5, TruthStands
  <2> QED BY <2>6 DEF st
<1> QED BY <1>1, <1>12, <1>13, <1>14 DEF JobsInv

\* A request that fails, or a worker whose failure is not recorded.
LEMMA FailKeeps ==
    ASSUME JobsInv, NEW s \in Session, Abort(s)
    PROVE  JobsInv'
<1>1. rows' = rows /\ work' = [work EXCEPT ![s] = [locks |-> {}, todo |-> <<>>]]
  BY DEF Abort, Untouched
<1>2. Transactions(<<>>) /\ DOMAIN <<>> = {}
  BY EmptySequence DEF Transactions
<1> QED BY <1>1, <1>2, JobsRequest

\* The process starts again: nobody is at work, and no job has been completed by it.
LEMMA RestartKeeps ==
    ASSUME JobsInv, Jobs!Restart
    PROVE  JobsInv'
<1> DEFINE ended  == [t \in DOMAIN rows.tasks |-> [rows.tasks[t] EXCEPT !.deleted = TRUE]]
           resumed == [j \in DOMAIN rows.jobs |-> Jobs!Recovered(rows.jobs[j])]
<1>1. /\ work' = [s \in Session |-> Untouched]
      /\ rows' = [rows EXCEPT !.tasks = ended, !.jobs = resumed]
  BY DEF Jobs!Restart, Jobs!Untouched, Untouched, JobsInv, JobRowsOK
<1>2. /\ WellFormed /\ {"jobs", "tasks", "notices", "batches"} \subseteq DOMAIN rows
      /\ \A t \in DOMAIN rows : Sequence(rows[t])
  BY DEF JobsInv, JobRowsOK, WellFormed
<1>3. /\ DOMAIN rows' = DOMAIN rows /\ rows'.tasks = ended /\ rows'.jobs = resumed
      /\ \A t \in DOMAIN rows \ {"tasks", "jobs"} : rows'[t] = rows[t]
  BY <1>1, <1>2
<1>4. Sequence(ended) /\ DOMAIN ended = DOMAIN rows["tasks"]
  <2>1. Len(rows["tasks"]) \in Nat /\ DOMAIN rows["tasks"] = 1..Len(rows["tasks"])
    BY <1>2, SequenceFacts
  <2>2. ended = [t \in 1..Len(rows["tasks"]) |-> ended[t]]
    BY <2>1
  <2>3. DOMAIN ended = DOMAIN rows["tasks"]
    OBVIOUS
  <2> HIDE DEF ended
  <2> QED BY <2>1, <2>2, <2>3, FunctionSequence
<1>5. Sequence(resumed) /\ DOMAIN resumed = DOMAIN rows["jobs"]
  <2>1. Len(rows["jobs"]) \in Nat /\ DOMAIN rows["jobs"] = 1..Len(rows["jobs"])
    BY <1>2, SequenceFacts
  <2>2. resumed = [t \in 1..Len(rows["jobs"]) |-> resumed[t]]
    BY <2>1
  <2>3. DOMAIN resumed = DOMAIN rows["jobs"]
    OBVIOUS
  <2> HIDE DEF resumed
  <2> QED BY <2>1, <2>2, <2>3, FunctionSequence
<1>6. WellFormed'
  <2>1. \A t \in DOMAIN rows' : Sequence(rows'[t])
    <3>1. \A t \in DOMAIN rows' : t = "tasks" \/ t = "jobs" \/ rows'[t] = rows[t]
      BY <1>3
    <3> HIDE DEF ended, resumed
    <3> QED BY <1>2, <1>3, <1>4, <1>5, <3>1
  <2>2. Transactions(<<>>)
    BY EmptySequence DEF Transactions
  <2>3. /\ \A s \in Session : Transactions(work'[s].todo)
        /\ work' = [s \in Session |-> [locks |-> work'[s].locks, todo |-> work'[s].todo]]
    BY <1>1, <2>2 DEF Untouched
  <2> QED BY <2>1, <2>3 DEF WellFormed
<1>7. ASSUME NEW j \in DOMAIN rows["jobs"]
      PROVE  /\ DOMAIN rows'["jobs"][j] = DOMAIN rows["jobs"][j]
             /\ \A c \in {"type", "total", "processed"} :
                   rows'["jobs"][j][c] = rows["jobs"][j][c]
             /\ rows'["jobs"][j].status = "COMPLETED" => rows["jobs"][j].status = "COMPLETED"
  <2> DEFINE r == rows["jobs"][j]
  <2>1. {"type", "total", "processed", "status"} \subseteq DOMAIN r
    BY DEF JobsInv, JobRowsOK, JobColumns
  <2>2. rows'["jobs"][j] = Jobs!Recovered(r)
    BY <1>3
  <2> HIDE DEF r
  <2>3. /\ DOMAIN Jobs!Recovered(r) = DOMAIN r
        /\ \A c \in {"type", "total", "processed"} : Jobs!Recovered(r)[c] = r[c]
        /\ Jobs!Recovered(r).status = "COMPLETED" => r.status = "COMPLETED"
    BY <2>1 DEF Jobs!Recovered
  <2> QED BY <2>2, <2>3 DEF r
<1>8. ASSUME NEW t \in DOMAIN rows["tasks"]
      PROVE  /\ DOMAIN rows'["tasks"][t] = DOMAIN rows["tasks"][t]
             /\ rows'["tasks"][t].job = rows["tasks"][t].job
  <2>1. "job" \in DOMAIN rows["tasks"][t]
    BY DEF JobsInv, JobRowsOK
  <2> QED BY <1>3, <2>1
<1>9. DOMAIN rows'["jobs"] = DOMAIN rows["jobs"] /\ DOMAIN rows'["tasks"] = DOMAIN rows["tasks"]
  BY <1>3
<1>10. rows'.notices = rows.notices /\ rows'.batches = rows.batches
  BY <1>2, <1>3
<1>11. JobRowsOK'
  <2>1. ASSUME NEW j \in DOMAIN rows'["jobs"]
        PROVE  /\ JobColumns \subseteq DOMAIN rows'["jobs"][j]
               /\ rows'["jobs"][j].type \in Jobs!JobType /\ rows'["jobs"][j].total \in Nat
    BY <1>7, <1>9 DEF JobsInv, JobRowsOK
  <2>2. ASSUME NEW t \in DOMAIN rows'["tasks"]
        PROVE  /\ {"job", "deleted"} \subseteq DOMAIN rows'["tasks"][t]
               /\ rows'["tasks"][t].job \in DOMAIN rows'["jobs"]
    BY <1>8, <1>9 DEF JobsInv, JobRowsOK
  <2> QED BY <1>2, <1>3, <2>1, <2>2 DEF JobRowsOK, JobColumns, Jobs!JobType
<1>12. JobsTrue(rows'.jobs, rows'.notices, rows'.batches)
  <2>1. ASSUME NEW j \in DOMAIN rows["jobs"], rows["jobs"][j].status = "COMPLETED"
        PROVE  Accomplished(rows.notices, rows.batches, <<>>, 1, j, rows'["jobs"][j])
    <3>1. Accomplished(rows.notices, rows.batches, <<>>, 1, j, rows["jobs"][j])
      BY <2>1 DEF JobsInv, JobsTrue
    <3> QED BY <1>7, <3>1 DEF Accomplished
  <2> QED BY <1>7, <1>9, <1>10, <2>1 DEF JobsInv, JobsTrue
<1>13. \A s \in Session : DOMAIN work'[s].todo = {}
  BY <1>1, EmptySequence, SMTT(20) DEF Untouched
<1> QED BY <1>6, <1>11, <1>12, <1>13 DEF JobsInv

\* The commit of the desk is that of UnitOfWork.
LEMMA JobsSends ==
    ASSUME NEW s \in Session
    PROVE  /\ Jobs!Commit(s) => Commit(s)
           /\ Jobs!Fail(s) => Abort(s)
BY Zenon DEF Jobs!Commit, Commit, Jobs!Sent, Sent, Jobs!Held, Held,
       Jobs!Updated, Updated, Jobs!Inserted, Inserted, Jobs!Listed, Listed,
       Jobs!Cardinality, Cardinality, Jobs!Fail, Jobs!Abort, Abort, Jobs!Idle, Idle,
       Jobs!Untouched, Untouched

\* Every step at the desk of the jobs keeps the invariant.
LEMMA JobsKeep == JobsInv /\ Jobs!Next => JobsInv'
<1> SUFFICES ASSUME JobsInv,
                    \/ \E s \in Session :
                          \/ Jobs!batch_send_notifications_async(s)
                          \/ Jobs!batch_generate_report_cards_async(s)
                          \/ Jobs!retry_job(s) \/ Jobs!cancel_job(s)
                          \/ Jobs!process_job(s) \/ Jobs!Commit(s) \/ Jobs!Fail(s)
                    \/ Jobs!Restart
             PROVE  JobsInv'
  BY DEF Jobs!Next
<1> QED BY PostsKeep, WorkKeeps, JobsSends, JobsCommit, FailKeeps, RestartKeeps

\* The desk opens with a dispatch that waits.
LEMMA JobsStart == Jobs!Init => JobsInv
<1> SUFFICES ASSUME Jobs!Init PROVE JobsInv
  OBVIOUS
<1>1. PICK key \in {1}, total \in 1..Limit :
          /\ rows = [jobs |-> <<Jobs!Posted("BULK_NOTIFICATION_DISPATCH", key, total)>>,
                     tasks |-> <<[job |-> 1, deleted |-> FALSE]>>,
                     notices |-> <<>>, batches |-> <<>>]
          /\ work = [s \in Session |-> Untouched]
  BY DEF Jobs!Init, Jobs!Start, Jobs!Untouched, Untouched
<1> DEFINE post == Jobs!Posted("BULK_NOTIFICATION_DISPATCH", key, total)
           task == [job |-> 1, deleted |-> FALSE]
<1>2. /\ DOMAIN post = {"type", "key", "status", "total", "processed", "retries"}
      /\ post.type = "BULK_NOTIFICATION_DISPATCH" /\ post.total = total
      /\ post.processed = 0 /\ post.status = "QUEUED"
  BY DEF Jobs!Posted
<1>3. total \in Nat
  BY LimitAssumption
<1>4. /\ DOMAIN rows = {"jobs", "tasks", "notices", "batches"}
      /\ rows.jobs = <<post>> /\ rows.tasks = <<task>>
      /\ rows.notices = <<>> /\ rows.batches = <<>>
  BY <1>1
<1>5. DOMAIN task = {"job", "deleted"} /\ task.job = 1
  OBVIOUS
<1> HIDE DEF post, task
<1>6. \A a : Sequence(<<a>>) /\ DOMAIN <<a>> = {1} /\ <<a>>[1] = a
  BY OneElement
<1>7. WellFormed
  <2>1. \A t \in DOMAIN rows : Sequence(rows[t])
    BY <1>4, <1>6, EmptySequence
  <2> QED BY <1>1, <2>1, StartWellFormed
<1>8. DOMAIN rows.jobs = {1} /\ rows.jobs[1] = post /\ DOMAIN rows.tasks = {1} /\ rows.tasks[1] = task
  BY <1>4, <1>6
<1>9. JobRowsOK
  BY <1>2, <1>3, <1>4, <1>5, <1>8 DEF JobRowsOK, JobColumns, Jobs!JobType
<1>10. JobsTrue(rows.jobs, rows.notices, rows.batches)
  <2>1. 1..0 = {}
    OBVIOUS
  <2> QED BY <1>2, <1>8, <2>1 DEF JobsTrue
<1>11. \A s \in Session : DOMAIN work[s].todo = {}
  BY <1>1, EmptySequence DEF Untouched
<1> QED BY <1>7, <1>9, <1>10, <1>11 DEF JobsInv

\* What the invariant says of the jobs.
LEMMA JobsSay == JobsInv => Jobs!ProgressIsTrue
<1> SUFFICES ASSUME JobsInv, NEW j \in DOMAIN rows.jobs
             PROVE  LET r == rows.jobs[j]
                        informed == {rows.notices[n].recipient :
                                        n \in {m \in DOMAIN rows.notices : rows.notices[m].job = j}}
                    IN /\ 1..r.processed \subseteq informed
                       /\ r.status = "COMPLETED" =>
                             IF r.type = "BULK_NOTIFICATION_DISPATCH" THEN 1..r.total \subseteq informed
                             ELSE \E b \in DOMAIN rows.batches : rows.batches[b].job = j
  BY DEF Jobs!ProgressIsTrue
<1> DEFINE r == rows.jobs[j]
           informed == {rows.notices[n].recipient :
                           n \in {m \in DOMAIN rows.notices : rows.notices[m].job = j}}
<1>1. Sequence(<<>>)
  BY EmptySequence
<1>2. ASSUME NEW y, Promised("notices", rows.notices, Notice(j, y), <<>>, 1)
      PROVE  y \in informed
  <2>1. PICK n \in DOMAIN rows.notices : rows.notices[n] = Notice(j, y)
    BY <1>1, <1>2, PromiseDone
  <2> QED BY <2>1 DEF Notice
<1>3. ASSUME Promised("batches", rows.batches, Batch(j), <<>>, 1)
      PROVE  \E b \in DOMAIN rows.batches : rows.batches[b].job = j
  <2>1. PICK b \in DOMAIN rows.batches : rows.batches[b] = Batch(j)
    BY <1>1, <1>3, PromiseDone
  <2> QED BY <2>1 DEF Batch
<1> HIDE DEF informed
<1>4. /\ \A y \in 1..r.processed : Promised("notices", rows.notices, Notice(j, y), <<>>, 1)
      /\ r.status = "COMPLETED" => Accomplished(rows.notices, rows.batches, <<>>, 1, j, r)
  BY DEF JobsInv, JobsTrue
<1>5. 1..r.processed \subseteq informed
  BY <1>2, <1>4
<1>6. ASSUME r.status = "COMPLETED"
      PROVE  IF r.type = "BULK_NOTIFICATION_DISPATCH" THEN 1..r.total \subseteq informed
             ELSE \E b \in DOMAIN rows.batches : rows.batches[b].job = j
  BY <1>2, <1>3, <1>4, <1>6 DEF Accomplished
<1> QED BY <1>5, <1>6 DEF informed

\* At the two desks that show what they have done, the invariants hold.
ShownOK == (desk = "reception" => ReceptionInv) /\ (desk = "jobs" => JobsInv)

(***************************************************************************)
(* What is shown as done has been done, whatever requests, workers and     *)
(* callbacks overlap, fail or are repeated: a notification that is shown   *)
(* as sent through a channel with a real provider, whichever they are, has *)
(* been handed over, and a recipient who is counted or a job that is       *)
(* completed has the rows of that work.                                    *)
(***************************************************************************)
THEOREM ShownIsDoneAlways == Spec => []ShownIsDone
<1>1. Init => ShownOK
  <2>1. /\ Init /\ desk = "reception" => Reception!Init
        /\ Init /\ desk = "jobs" => Jobs!Init
    BY DEF Init
  <2> QED BY <2>1, ReceptionStart, JobsStart DEF ShownOK
<1>2. ShownOK /\ [Next]_vars => ShownOK'
  <2> SUFFICES ASSUME ShownOK, [Next]_vars PROVE ShownOK'
    OBVIOUS
  <2>1. desk' = desk
    BY DEF Next, vars
  <2>2. CASE UNCHANGED vars
    <3>1. rows' = rows /\ work' = work
      BY <2>2 DEF vars
    <3>2. ASSUME ReceptionInv PROVE ReceptionInv'
      <4>1. WellFormed' /\ Reception!ShownAsSentArrived'
        BY <3>1, <3>2 DEF ReceptionInv, WellFormed, Reception!ShownAsSentArrived
      <4> QED BY <3>1, <3>2, <4>1 DEF ReceptionInv
    <3>3. ASSUME JobsInv PROVE JobsInv'
      <4>1. WellFormed' /\ JobRowsOK'
        BY <3>1, <3>3 DEF JobsInv, WellFormed, JobRowsOK
      <4> QED BY <3>1, <3>3, <4>1 DEF JobsInv
    <3> QED BY <2>1, <3>2, <3>3 DEF ShownOK
  <2>3. CASE Next
    <3>1. /\ desk = "reception" => Reception!Next
          /\ desk = "jobs" => Jobs!Next
      BY <2>3 DEF Next
    <3> QED BY <2>1, <3>1, ReceptionKeeps, JobsKeep DEF ShownOK
  <2> QED BY <2>2, <2>3
<1>3. ShownOK => ShownIsDone
  BY JobsSay DEF ShownOK, ShownIsDone, ReceptionInv
<1> QED BY <1>1, <1>2, <1>3, PTL DEF Spec

-----------------------------------------------------------------------------
(***************************************************************************)
(* Hostel fees.  What has been paid for each allocation has a cover: the   *)
(* part of the collected money that was collected for it.                  *)
(***************************************************************************)
UnitsOf(a) == UNION {{k} \X (1..a[k]) : k \in DOMAIN a}
TotalOf(a) == Cardinality(UnitsOf(a))

\* Finitely many numbers.
Numbers(a) == IsFiniteSet(DOMAIN a) /\ \A k \in DOMAIN a : a[k] \in Nat

\* The number of one, if it has one.
At(a, k) == IF k \in DOMAIN a THEN a[k] ELSE 0

\* It is the sum of the desk.
LEMMA TotalIsTotal == \A a : HostelFees!Total(a) = TotalOf(a)
BY DEF HostelFees!Total, HostelFees!Units, HostelFees!Cardinality, TotalOf, UnitsOf, Cardinality

\* What a sum counts.
LEMMA UnitsAre ==
    ASSUME NEW a, Numbers(a)
    PROVE  /\ \A k, n : <<k, n>> \in UnitsOf(a) <=> n \in 1..At(a, k)
           /\ \A u \in UnitsOf(a) : u = <<u[1], u[2]>>
           /\ \A k : At(a, k) \in Nat
<1>1. \A k : At(a, k) \in Nat
  BY DEF At, Numbers
<1>2. \A k, n : <<k, n>> \in UnitsOf(a) <=> k \in DOMAIN a /\ n \in 1..a[k]
  BY DEF UnitsOf
<1>3. 1..0 = {}
  OBVIOUS
<1>4. \A k, n : k \in DOMAIN a /\ n \in 1..a[k] <=> n \in 1..At(a, k)
  BY <1>3 DEF At
<1>5. \A u \in UnitsOf(a) : u = <<u[1], u[2]>>
  BY DEF UnitsOf
<1> QED BY <1>1, <1>2, <1>4, <1>5

\* There are finitely many.
LEMMA UnitsCounted ==
    ASSUME NEW a, Numbers(a)
    PROVE  IsFiniteSet(UnitsOf(a)) /\ TotalOf(a) \in Nat
<1> DEFINE f == [k \in DOMAIN a |-> {k} \X (1..a[k])]
           F == {f[k] : k \in DOMAIN a}
<1>1. IsFiniteSet(DOMAIN a)
  BY DEF Numbers
<1>2. f \in Surjection(DOMAIN a, F)
  BY DEF Surjection
<1>3. IsFiniteSet(F)
  <2> HIDE DEF f, F
  <2> QED BY <1>1, <1>2, FS_Surjection
<1>4. ASSUME NEW T \in F PROVE IsFiniteSet(T)
  <2>1. PICK k \in DOMAIN a : T = {k} \X (1..a[k])
    OBVIOUS
  <2>2. IsFiniteSet({k}) /\ IsFiniteSet(1..a[k])
    <3>1. a[k] \in Int /\ 1 \in Int
      BY DEF Numbers
    <3> QED BY <3>1, FS_Singleton, FS_Interval
  <2> QED BY <2>1, <2>2, FS_Product
<1>5. UnitsOf(a) = UNION F
  BY DEF UnitsOf
<1>6. IsFiniteSet(UnitsOf(a))
  <2> HIDE DEF F
  <2> QED BY <1>3, <1>4, <1>5, FS_UNION
<1> QED BY <1>6, FS_CardinalityType DEF TotalOf

\* More of each, no smaller a sum.
LEMMA TotalGrows ==
    ASSUME NEW a, NEW b, Numbers(a), Numbers(b), \A k : At(a, k) <= At(b, k)
    PROVE  TotalOf(a) <= TotalOf(b)
<1>1. ASSUME NEW u \in UnitsOf(a) PROVE u \in UnitsOf(b)
  <2>1. u = <<u[1], u[2]>> /\ u[2] \in 1..At(a, u[1])
    BY UnitsAre
  <2>2. At(a, u[1]) \in Nat /\ At(b, u[1]) \in Nat
    BY UnitsAre
  <2>3. u[2] \in 1..At(b, u[1])
    BY <2>1, <2>2
  <2> QED BY <2>1, <2>3, UnitsAre
<1>2. IsFiniteSet(UnitsOf(b))
  BY UnitsCounted
<1> QED BY <1>1, <1>2, FS_Subset DEF TotalOf

\* One times a number.
LEMMA OneTimes == \A p \in Nat : 1 * p = p
OBVIOUS

\* More of one, so much larger a sum.
LEMMA TotalRises ==
    ASSUME NEW a, NEW b, Numbers(a), Numbers(b), NEW h, NEW p \in Nat,
           \A k : At(b, k) = IF k = h THEN At(a, h) + p ELSE At(a, k)
    PROVE  TotalOf(b) = TotalOf(a) + p
<1> DEFINE lo  == At(a, h)
           new == {h} \X (lo + 1..lo + p)
<1>1. lo \in Nat
  BY UnitsAre
<1>2. IsFiniteSet(new) /\ Cardinality(new) = p
  <2>1. IsFiniteSet(lo + 1..lo + p) /\ Cardinality(lo + 1..lo + p) = p
    <3>1. lo + 1 \in Int /\ lo + p \in Int
      BY <1>1
    <3>2. /\ IsFiniteSet(lo + 1..lo + p)
          /\ Cardinality(lo + 1..lo + p)
                = IF lo + 1 > lo + p THEN 0 ELSE (lo + p) - (lo + 1) + 1
      BY <3>1, FS_Interval
    <3>3. (IF lo + 1 > lo + p THEN 0 ELSE (lo + p) - (lo + 1) + 1) = p
      BY <1>1
    <3> QED BY <3>2, <3>3
  <2>2. IsFiniteSet({h}) /\ Cardinality({h}) = 1
    BY FS_Singleton
  <2>3. IsFiniteSet(new) /\ Cardinality(new) = 1 * p
    <3> DEFINE one   == {h}
               range == lo + 1..lo + p
    <3>1. new = one \X range
      OBVIOUS
    <3>2. /\ IsFiniteSet(one) /\ Cardinality(one) = 1
          /\ IsFiniteSet(range) /\ Cardinality(range) = p
      BY <2>1, <2>2
    <3> HIDE DEF one, range, new
    <3>3. /\ IsFiniteSet(one \X range)
          /\ Cardinality(one \X range) = Cardinality(one) * Cardinality(range)
      BY <3>2, FS_Product
    <3> QED BY <3>1, <3>2, <3>3
  <2> HIDE DEF new
  <2> QED BY <2>3, OneTimes
<1>3. UnitsOf(b) = UnitsOf(a) \cup new
  <2>1. ASSUME NEW u \in UnitsOf(b) PROVE u \in UnitsOf(a) \cup new
    <3>1. u = <<u[1], u[2]>> /\ u[2] \in 1..At(b, u[1])
      BY UnitsAre
    <3>2. CASE u[1] = h
      <4>1. u[2] \in 1..At(a, h) \/ u[2] \in lo + 1..lo + p
        BY <1>1, <3>1, <3>2
      <4> QED BY <3>1, <3>2, <4>1, UnitsAre
    <3>3. CASE u[1] # h
      BY <3>1, <3>3, UnitsAre
    <3> QED BY <3>2, <3>3
  <2>2. ASSUME NEW u \in UnitsOf(a) PROVE u \in UnitsOf(b)
    <3>1. u = <<u[1], u[2]>> /\ u[2] \in 1..At(a, u[1])
      BY UnitsAre
    <3>2. u[2] \in 1..At(b, u[1])
      BY <1>1, <3>1
    <3> QED BY <3>1, <3>2, UnitsAre
  <2>3. ASSUME NEW u \in new PROVE u \in UnitsOf(b)
    <3>1. u = <<h, u[2]>> /\ u[2] \in lo + 1..lo + p
      OBVIOUS
    <3>2. u[2] \in 1..At(b, h)
      BY <1>1, <3>1
    <3> QED BY <3>1, <3>2, UnitsAre
  <2> HIDE DEF new
  <2> QED BY <2>1, <2>2, <2>3
<1>4. UnitsOf(a) \cap new = {}
  <2> SUFFICES ASSUME NEW u \in UnitsOf(a), u \in new PROVE FALSE
    OBVIOUS
  <2>1. u = <<u[1], u[2]>> /\ u[2] \in 1..At(a, u[1])
    BY UnitsAre
  <2>2. u[1] = h /\ u[2] \in lo + 1..lo + p
    OBVIOUS
  <2> QED BY <1>1, <2>1, <2>2
<1> HIDE DEF new
<1>5. IsFiniteSet(UnitsOf(a)) /\ TotalOf(a) \in Nat
  BY UnitsCounted
<1>6. Cardinality(UnitsOf(a) \cup new)
          = Cardinality(UnitsOf(a)) + Cardinality(new) - Cardinality(UnitsOf(a) \cap new)
  BY <1>2, <1>5, FS_Union
<1>7. Cardinality({}) = 0
  BY FS_EmptySet
<1>8. Cardinality(UnitsOf(b)) = Cardinality(UnitsOf(a)) + p - 0
  BY <1>2, <1>3, <1>4, <1>6, <1>7
<1> QED BY <1>5, <1>8 DEF TotalOf

FeeColumns == {"due", "paid", "status"}

\* The student has an assignment.
Billed == 1 \in DOMAIN rows.assignments

\* There is an assignment to collect on, or nothing to collect yet.
Open == Billed => ~rows.assignments[1].cancelled

\* The rows of the desk.
FeeRowsOK ==
    /\ {"assignments", "payments", "allocations"} \subseteq DOMAIN rows
    /\ \A a \in DOMAIN rows.assignments : "cancelled" \in DOMAIN rows.assignments[a]
    /\ \A p \in DOMAIN rows.payments :
          /\ {"amount", "hostel"} \subseteq DOMAIN rows.payments[p]
          /\ rows.payments[p].amount \in Nat
    /\ \A h \in DOMAIN rows.allocations :
          FeeColumns \subseteq DOMAIN rows.allocations[h] /\ rows.allocations[h].paid \in Nat
    /\ DOMAIN rows.allocations # {} => Billed

\* A statement of a transaction: payments are only inserted, an allocation comes with
\* an assignment, and a credit is the whole of its transaction.
FeeStatement(billed, allocations, tr, st) ==
    /\ st.table = "payments" =>
          /\ st.id = 0 /\ st.refers = <<>>
          /\ {"amount", "hostel"} \subseteq DOMAIN st.columns /\ st.columns.amount \in Nat
    /\ st.table = "assignments" /\ st.id = 0 => "cancelled" \in DOMAIN st.columns
    /\ st.table = "assignments" /\ st.id # 0 /\ "cancelled" \in DOMAIN st.columns =>
          st.columns.cancelled = TRUE
    /\ st.table = "allocations" /\ st.id = 0 =>
          /\ FeeColumns \subseteq DOMAIN st.columns /\ st.refers = <<>>
          /\ st.columns.paid = 0 /\ st.columns.status = "UNPAID"
          /\ billed \/ \E k \in DOMAIN tr : tr[k].table = "assignments" /\ tr[k].id = 0
    /\ st.table = "allocations" /\ st.id # 0 =>
          /\ st.id \in DOMAIN allocations
          /\ DOMAIN tr = {1}
          /\ "paid" \in DOMAIN st.columns /\ DOMAIN st.columns \subseteq {"paid", "status"}
          /\ st.columns.paid \in Nat \ {0}
          /\ IF "status" \in DOMAIN st.columns THEN st.columns.status # "UNPAID"
             ELSE allocations[st.id].status # "UNPAID"
    /\ "anew" \in DOMAIN st =>
          st.table = "allocations" /\ st.id # 0 /\ "status" \in DOMAIN st.columns

\* What a payment collected for the hostel.
Hosted(payments) ==
    [p \in DOMAIN payments |-> IF payments[p].hostel = TRUE THEN payments[p].amount ELSE 0]

\* A request that is going to collect what it then credits.
Collecting(b, todo) ==
    /\ DOMAIN todo = {1, 2} /\ DOMAIN todo[1] = {1} /\ DOMAIN todo[2] = {1}
    /\ todo[1][1].table = "payments" /\ todo[1][1].columns.hostel = TRUE
    /\ todo[2][1].table = "allocations" /\ todo[2][1].id # 0
    /\ todo[2][1].columns.paid <= b[todo[2][1].id] + todo[1][1].columns.amount

\* What a request credits is covered, or is going to be.
Covered(b, todo) ==
    \A i \in DOMAIN todo : \A k \in DOMAIN todo[i] :
        todo[i][k].table = "allocations" /\ todo[i][k].id # 0 =>
            \/ todo[i][k].columns.paid <= b[todo[i][k].id]
            \/ i = 2 /\ Collecting(b, todo)

\* A cover of what is paid and of what is going to be.
Cover(b) ==
    /\ Numbers(b) /\ DOMAIN b = DOMAIN rows.allocations
    /\ \A h \in DOMAIN b : rows.allocations[h].paid <= b[h]
    /\ TotalOf(b) <= TotalOf(Hosted(rows.payments))
    /\ \A s \in Session : Covered(b, work[s].todo)

HostelFeesInv ==
    /\ WellFormed /\ FeeRowsOK /\ HostelFees!UnpaidIsUnpaid
    /\ \A s \in Session : \A i \in DOMAIN work[s].todo : \A k \in DOMAIN work[s].todo[i] :
          FeeStatement(Billed, rows.allocations, work[s].todo[i], work[s].todo[i][k])
    /\ Open => \E b : Cover(b)

\* A request that leaves such statements keeps the invariant.
LEMMA FeesRequest ==
    ASSUME HostelFeesInv, NEW s \in Session, NEW locks, NEW todo, rows' = rows,
           work' = [work EXCEPT ![s] = [locks |-> locks, todo |-> todo]],
           Transactions(todo),
           \A i \in DOMAIN todo : \A k \in DOMAIN todo[i] :
              FeeStatement(Billed, rows.allocations, todo[i], todo[i][k]),
           Open => \A b : Cover(b) => Covered(b, todo)
    PROVE  HostelFeesInv'
<1>1. WellFormed'
  BY RequestWellFormed DEF HostelFeesInv
<1>2. \A r \in Session : work'[r].todo = IF r = s THEN todo ELSE work[r].todo
  BY DEF HostelFeesInv, WellFormed
<1>3. /\ FeeRowsOK' /\ HostelFees!UnpaidIsUnpaid'
      /\ Billed' = Billed /\ (Open' <=> Open)
  BY DEF HostelFeesInv, FeeRowsOK, HostelFees!UnpaidIsUnpaid, Billed, Open
<1>4. \A r \in Session : \A i \in DOMAIN work'[r].todo : \A k \in DOMAIN work'[r].todo[i] :
          FeeStatement(Billed, rows'.allocations, work'[r].todo[i], work'[r].todo[i][k])
  BY <1>2 DEF HostelFeesInv
<1>5. ASSUME Open PROVE \E b : Cover(b)'
  <2>1. PICK b : Cover(b)
    BY <1>5 DEF HostelFeesInv
  <2>2. Covered(b, todo)
    BY <1>5, <2>1
  <2>3. \A r \in Session : Covered(b, work'[r].todo)
    BY <1>2, <2>1, <2>2 DEF Cover
  <2>4. Cover(b)'
    BY <2>1, <2>3 DEF Cover
  <2> QED BY <2>4
<1> QED BY <1>1, <1>3, <1>4, <1>5 DEF HostelFeesInv

\* One that credits nothing.
LEMMA FeesPlain ==
    ASSUME HostelFeesInv, NEW s \in Session, NEW locks, NEW q, rows' = rows,
           work' = [work EXCEPT ![s] = [locks |-> locks, todo |-> <<q>>]],
           Sequence(q),
           \A k \in DOMAIN q : /\ FeeStatement(Billed, rows.allocations, q, q[k])
                               /\ q[k].table = "allocations" => q[k].id = 0
    PROVE  HostelFeesInv'
<1> DEFINE todo == <<q>>
<1>1. Transactions(todo) /\ DOMAIN todo = {1} /\ todo[1] = q
  BY OneTransaction, OneElement
<1>2. work' = [work EXCEPT ![s] = [locks |-> locks, todo |-> todo]]
  OBVIOUS
<1> HIDE DEF todo
<1>3. \A b : Covered(b, todo)
  BY <1>1 DEF Covered
<1>4. \A i \in DOMAIN todo : \A k \in DOMAIN todo[i] :
          FeeStatement(Billed, rows.allocations, todo[i], todo[i][k])
  BY <1>1
<1> QED BY <1>1, <1>2, <1>3, <1>4, FeesRequest

\* The statements of the desk.
LEMMA FeeStatements ==
    /\ \A t, row : /\ HostelFees!Insert(t, row).table = t /\ HostelFees!Insert(t, row).id = 0
                   /\ HostelFees!Insert(t, row).columns = row
                   /\ HostelFees!Insert(t, row).refers = <<>>
                   /\ "anew" \notin DOMAIN HostelFees!Insert(t, row)
    /\ \A t, i, columns :
          /\ "anew" \notin DOMAIN HostelFees!Update(t, i, columns)
          /\ HostelFees!Update(t, i, columns).table = t /\ HostelFees!Update(t, i, columns).id = i
          /\ \A c \in DOMAIN HostelFees!Update(t, i, columns).columns :
                HostelFees!Update(t, i, columns).columns[c] = columns[c]
BY DEF HostelFees!Insert, HostelFees!Update, HostelFees!Changed

\* A structure, an allocation, a payment on the assignment, and its cancellation.
LEMMA EntriesKeep ==
    ASSUME HostelFeesInv, NEW s \in Session,
           \/ HostelFees!CreateFeeStructure(s) \/ HostelFees!AllocateFeeToStudent(s)
           \/ HostelFees!PayAssignment(s) \/ HostelFees!CancelAssignment(s)
    PROVE  HostelFeesInv'
<1>1. CASE HostelFees!CreateFeeStructure(s)
  <2>1. PICK n : HostelFees!Request(s, <<HostelFees!Insert("structures", [amount |-> n])>>)
    BY <1>1 DEF HostelFees!CreateFeeStructure
  <2> DEFINE st == HostelFees!Insert("structures", [amount |-> n])
             q  == <<st>>
  <2>2. st.table = "structures" /\ "anew" \notin DOMAIN st
    BY FeeStatements
  <2>3. Sequence(q) /\ DOMAIN q = {1} /\ q[1] = st
    BY OneElement
  <2>4. rows' = rows /\ work' = [work EXCEPT ![s] = [locks |-> {}, todo |-> <<q>>]]
    BY <2>1 DEF HostelFees!Request, HostelFees!RequestAll
  <2> HIDE DEF st, q
  <2> QED BY <2>2, <2>3, <2>4, FeesPlain DEF FeeStatement
<1>2. CASE HostelFees!PayAssignment(s)
  <2>1. PICK p, locks :
            /\ p \in Amounts
            /\ HostelFees!RequestLocked(s, locks,
                  <<HostelFees!Insert("payments", [amount |-> p, hostel |-> FALSE])>>)
    BY <1>2 DEF HostelFees!PayAssignment
  <2> DEFINE row == [amount |-> p, hostel |-> FALSE]
             st  == HostelFees!Insert("payments", row)
             q   == <<st>>
  <2>2. DOMAIN row = {"amount", "hostel"} /\ row.amount \in Nat
    BY <2>1, AmountsAssumption
  <2>3. /\ st.table = "payments" /\ st.id = 0 /\ st.columns = row /\ st.refers = <<>>
        /\ "anew" \notin DOMAIN st
    BY FeeStatements
  <2>4. Sequence(q) /\ DOMAIN q = {1} /\ q[1] = st
    BY OneElement
  <2>5. rows' = rows /\ work' = [work EXCEPT ![s] = [locks |-> locks, todo |-> <<q>>]]
    BY <2>1 DEF HostelFees!RequestLocked, HostelFees!RequestAll
  <2> HIDE DEF row, st, q
  <2> QED BY <2>2, <2>3, <2>4, <2>5, FeesPlain DEF FeeStatement
<1>3. CASE HostelFees!CancelAssignment(s)
  <2> DEFINE st == HostelFees!Update("assignments", 1, [cancelled |-> TRUE])
             q  == <<st>>
  <2>1. /\ st.table = "assignments" /\ st.id = 1 /\ "anew" \notin DOMAIN st
        /\ "cancelled" \in DOMAIN st.columns => st.columns["cancelled"] = TRUE
    BY FeeStatements
  <2>2. Sequence(q) /\ DOMAIN q = {1} /\ q[1] = st
    BY OneElement
  <2>3. rows' = rows /\ work' = [work EXCEPT ![s] = [locks |-> {}, todo |-> <<q>>]]
    BY <1>3 DEF HostelFees!CancelAssignment, HostelFees!Request, HostelFees!RequestAll
  <2>4. 1 # 0
    OBVIOUS
  <2> HIDE DEF st, q
  <2>5. FeeStatement(Billed, rows.allocations, q, st) /\ st.table # "allocations"
    BY <2>1, <2>4 DEF FeeStatement
  <2> QED BY <2>2, <2>3, <2>5, FeesPlain
<1>4. CASE HostelFees!AllocateFeeToStudent(s)
  <2>1. PICK f, n :
            HostelFees!Request(s,
                (IF HostelFees!Assigned THEN <<>>
                 ELSE <<HostelFees!Insert("assignments", [cancelled |-> FALSE])>>)
                \o <<HostelFees!Insert("items", [amount |-> n]),
                     HostelFees!Insert("allocations", [structure |-> f, due |-> n, paid |-> 0,
                                                       status |-> "UNPAID"])>>)
    BY <1>4 DEF HostelFees!AllocateFeeToStudent
  <2> DEFINE bill  == HostelFees!Insert("assignments", [cancelled |-> FALSE])
             item  == HostelFees!Insert("items", [amount |-> n])
             row   == [structure |-> f, due |-> n, paid |-> 0, status |-> "UNPAID"]
             share == HostelFees!Insert("allocations", row)
             new   == IF HostelFees!Assigned THEN <<>> ELSE <<bill>>
             two   == <<item, share>>
             q     == new \o two
  <2>2. /\ bill.table = "assignments" /\ bill.id = 0 /\ "cancelled" \in DOMAIN bill.columns
        /\ item.table = "items"
        /\ share.table = "allocations" /\ share.id = 0 /\ share.refers = <<>>
        /\ FeeColumns \subseteq DOMAIN share.columns
        /\ share.columns.paid = 0 /\ share.columns.status = "UNPAID"
        /\ \A st \in {bill, item, share} : "anew" \notin DOMAIN st
    BY FeeStatements DEF FeeColumns
  <2> HIDE DEF bill, item, row, share
  <2>3. Sequence(two) /\ Range(two) = {item, share}
    BY TwoElements
  <2>4. Sequence(new) /\ Range(new) \subseteq {bill} /\ (HostelFees!Assigned \/ Range(new) = {bill})
    BY NoElement, OneElement
  <2>5. HostelFees!Assigned => Billed
    <3>1. Sequence(rows.assignments)
      BY DEF HostelFeesInv, FeeRowsOK, WellFormed
    <3> QED BY <3>1, TailFacts DEF HostelFees!Assigned, Billed
  <2>6. rows' = rows /\ work' = [work EXCEPT ![s] = [locks |-> {}, todo |-> <<q>>]]
    BY <2>1 DEF HostelFees!Request, HostelFees!RequestAll, bill, item, row, share
  <2> HIDE DEF new, two
  <2>7. Sequence(q) /\ Range(q) = Range(new) \cup Range(two)
    BY <2>3, <2>4, BothElements
  <2> HIDE DEF q
  <2>8. \A k \in DOMAIN q : q[k] \in {bill, item, share}
    BY <2>3, <2>4, <2>7 DEF Range
  <2>9. Billed \/ \E k \in DOMAIN q : q[k] = bill
    BY <2>4, <2>5, <2>7 DEF Range
  <2>10. Billed \/ \E k \in DOMAIN q : q[k].table = "assignments" /\ q[k].id = 0
    BY <2>2, <2>9
  <2>11. /\ FeeStatement(Billed, rows.allocations, q, bill)
         /\ FeeStatement(Billed, rows.allocations, q, item)
         /\ FeeStatement(Billed, rows.allocations, q, share)
    BY <2>2, <2>10 DEF FeeStatement
  <2> QED BY <2>2, <2>6, <2>7, <2>8, <2>11, FeesPlain
<1> QED BY <1>1, <1>2, <1>3, <1>4

\* A payment, with what is collected for it or, on a cancelled assignment, without.
LEMMA PaymentsKeep ==
    ASSUME HostelFeesInv, NEW s \in Session,
           HostelFees!RecordUnbacked(s) \/ HostelFees!RecordFeePayment(s)
    PROVE  HostelFeesInv'
<1>1. ASSUME NEW h \in DOMAIN rows.allocations, NEW p \in Amounts
      PROVE  LET paying == HostelFees!Paying(h, p)
             IN  /\ DOMAIN paying = {"paid", "status"} /\ h # 0
                 /\ paying.paid = rows.allocations[h].paid + p /\ paying.paid \in Nat \ {0}
                 /\ paying.paid # rows.allocations[h].paid /\ paying.status # "UNPAID"
  <2>1. rows.allocations[h].paid \in Nat /\ p \in Nat \ {0}
    BY AmountsAssumption DEF HostelFeesInv, FeeRowsOK
  <2>2. rows.allocations[h].paid + p \in Nat \ {0} /\ rows.allocations[h].paid + p # rows.allocations[h].paid
    BY <2>1
  <2>3. h # 0
    BY SequenceFacts DEF HostelFeesInv, FeeRowsOK, WellFormed
  <2>4. \A n, due : HostelFees!StatusFor(n, due) # "UNPAID"
    BY DEF HostelFees!StatusFor
  <2> QED BY <2>2, <2>3, <2>4 DEF HostelFees!Paying
<1>2. CASE HostelFees!RecordUnbacked(s)
  <2>1. PICK h \in DOMAIN rows.allocations, p \in Amounts :
            /\ HostelFees!Assigned => rows.assignments[1].cancelled
            /\ HostelFees!Request(s, <<HostelFees!Update("allocations", h, HostelFees!Paying(h, p))>>)
    BY <1>2 DEF HostelFees!RecordUnbacked
  <2> DEFINE paying == HostelFees!Paying(h, p)
             st     == HostelFees!Update("allocations", h, paying)
             credit == <<st>>
             todo   == <<credit>>
  <2>2. /\ DOMAIN paying = {"paid", "status"} /\ h # 0
        /\ paying.paid \in Nat \ {0} /\ paying.paid # rows.allocations[h].paid
        /\ paying.status # "UNPAID"
    BY <1>1
  <2>3. rows' = rows /\ work' = [work EXCEPT ![s] = [locks |-> {}, todo |-> todo]]
    BY <2>1 DEF HostelFees!Request, HostelFees!RequestAll
  <2>4. Sequence(credit) /\ DOMAIN credit = {1} /\ credit[1] = st
    BY OneElement
  <2>5. /\ st.table = "allocations" /\ st.id = h /\ "anew" \notin DOMAIN st
        /\ st.columns = [c \in {d \in DOMAIN paying : paying[d] # rows["allocations"][h][d]} |-> paying[c]]
    BY DEF HostelFees!Update, HostelFees!Changed
  <2> HIDE DEF st, paying
  <2>6. FeeStatement(Billed, rows.allocations, credit, st)
    <3>1. /\ "paid" \in DOMAIN st.columns /\ DOMAIN st.columns \subseteq {"paid", "status"}
          /\ st.columns.paid = paying.paid
      BY <2>2, <2>5
    <3>2. IF "status" \in DOMAIN st.columns THEN st.columns.status # "UNPAID"
          ELSE rows.allocations[h].status # "UNPAID"
      BY <2>2, <2>5
    <3> QED BY <2>2, <2>4, <2>5, <3>1, <3>2 DEF FeeStatement
  <2> HIDE DEF credit
  <2>7. Transactions(todo) /\ DOMAIN todo = {1} /\ todo[1] = credit
    BY <2>4, OneTransaction, OneElement
  <2>8. ~Open
    <3>1. Billed
      BY DEF HostelFeesInv, FeeRowsOK
    <3>2. HostelFees!Assigned
      BY <3>1, EmptySequence DEF Billed, HostelFees!Assigned
    <3> QED BY <2>1, <3>1, <3>2 DEF Open
  <2> HIDE DEF todo
  <2>9. \A i \in DOMAIN todo : \A k \in DOMAIN todo[i] :
            FeeStatement(Billed, rows.allocations, todo[i], todo[i][k])
    BY <2>4, <2>6, <2>7
  <2> QED BY <2>3, <2>7, <2>8, <2>9, FeesRequest
<1>3. CASE HostelFees!RecordFeePayment(s)
  <2>1. PICK h, p, locks :
            /\ h \in DOMAIN rows.allocations /\ p \in Amounts
            /\ HostelFees!RequestAll(s, locks, <<HostelFees!Collect(p), HostelFees!Credit(h, p)>>)
    BY <1>3 DEF HostelFees!RecordFeePayment
  <2> DEFINE row     == [amount |-> p, hostel |-> TRUE]
             st      == HostelFees!Insert("payments", row)
             collect == <<st>>
             credit  == HostelFees!Credit(h, p)
             todo    == <<collect, credit>>
  <2>2. /\ Sequence(credit) /\ DOMAIN credit = {1}
        /\ credit[1].table = "allocations" /\ credit[1].id = h /\ h # 0
        /\ credit[1].columns.paid = rows.allocations[h].paid + p
        /\ FeeStatement(Billed, rows.allocations, credit, credit[1])
    <3> DEFINE paying == HostelFees!Paying(h, p)
               owed   == [table |-> "allocations", id |-> h, columns |-> paying, anew |-> "status"]
    <3>1. credit = <<owed>>
      BY DEF HostelFees!Credit
    <3>2. Sequence(credit) /\ DOMAIN credit = {1} /\ credit[1] = owed
      BY <3>1, OneElement
    <3>3. owed.table = "allocations" /\ owed.id = h /\ owed.columns = paying
      OBVIOUS
    <3>4. /\ DOMAIN paying = {"paid", "status"} /\ h # 0
          /\ paying.paid = rows.allocations[h].paid + p /\ paying.paid \in Nat \ {0}
          /\ paying.status # "UNPAID"
      BY <1>1, <2>1
    <3> HIDE DEF owed, paying, credit
    <3>5. FeeStatement(Billed, rows.allocations, credit, owed)
      BY <2>1, <3>2, <3>3, <3>4 DEF FeeStatement
    <3> QED BY <3>2, <3>3, <3>4, <3>5
  <2>3. rows' = rows /\ work' = [work EXCEPT ![s] = [locks |-> locks, todo |-> todo]]
    BY <2>1 DEF HostelFees!RequestAll, HostelFees!Collect
  <2>4. DOMAIN row = {"amount", "hostel"} /\ row.amount = p /\ row.hostel = TRUE /\ p \in Nat
    BY <2>1, AmountsAssumption
  <2>5. /\ st.table = "payments" /\ st.id = 0 /\ st.columns = row /\ st.refers = <<>>
        /\ "anew" \notin DOMAIN st
    BY FeeStatements
  <2>6. Sequence(collect) /\ DOMAIN collect = {1} /\ collect[1] = st
    BY OneElement
  <2> HIDE DEF row, st, collect, credit
  <2>7. Sequence(todo) /\ DOMAIN todo = {1, 2} /\ todo[1] = collect /\ todo[2] = credit
    BY TwoElements
  <2> HIDE DEF todo
  <2>8. FeeStatement(Billed, rows.allocations, collect, st)
    BY <2>4, <2>5 DEF FeeStatement
  <2>9. Transactions(todo)
    BY <2>2, <2>6, <2>7 DEF Transactions
  <2>10. \A i \in DOMAIN todo : \A k \in DOMAIN todo[i] :
             FeeStatement(Billed, rows.allocations, todo[i], todo[i][k])
    BY <2>2, <2>6, <2>7, <2>8
  <2>11. ASSUME NEW b, Cover(b)
         PROVE  Covered(b, todo)
    <3>1. b[h] \in Nat /\ rows.allocations[h].paid \in Nat /\ rows.allocations[h].paid <= b[h]
      BY <2>1, <2>11 DEF Cover, Numbers, HostelFeesInv, FeeRowsOK
    <3>2. credit[1].columns.paid <= b[h] + p
      BY <2>2, <2>4, <3>1
    <3>3. Collecting(b, todo)
      BY <2>2, <2>4, <2>5, <2>6, <2>7, <3>2 DEF Collecting
    <3> QED BY <2>5, <2>6, <2>7, <3>3 DEF Covered
  <2> QED BY <2>3, <2>9, <2>10, <2>11, FeesRequest
<1> QED BY <1>2, <1>3

\* The status is read anew: the credit without it is one as good.
LEMMA RereadKeeps ==
    ASSUME HostelFeesInv, NEW s \in Session, HostelFees!Reread(s)
    PROVE  HostelFeesInv'
<1>1. work[s].todo # <<>>
  BY DEF HostelFees!Reread
<1>2. Sent(s) = work[s].todo[1] /\ 1 \in DOMAIN work[s].todo
  BY <1>1, SentWellFormed DEF HostelFeesInv
<1>3. PICK k \in DOMAIN Sent(s) :
          /\ "anew" \in DOMAIN Sent(s)[k]
          /\ rows.allocations[Sent(s)[k].id].status = Sent(s)[k].columns.status
          /\ rows' = rows
          /\ work' = [work EXCEPT ![s].todo =
                         <<<<[table |-> "allocations", id |-> Sent(s)[k].id,
                              columns |-> [paid |-> Sent(s)[k].columns.paid]]>>>>]
  BY Zenon DEF HostelFees!Reread, HostelFees!Sent, Sent
<1> DEFINE was    == Sent(s)[k]
           paid   == [paid |-> was.columns.paid]
           st     == [table |-> "allocations", id |-> was.id, columns |-> paid]
           credit == <<st>>
           todo   == <<credit>>
<1>4. work' = [work EXCEPT ![s] = [locks |-> work[s].locks, todo |-> todo]]
  <2>1. work = [r \in Session |-> [locks |-> work[r].locks, todo |-> work[r].todo]]
    BY DEF HostelFeesInv, WellFormed
  <2> DEFINE now == [work[s] EXCEPT !.todo = todo]
  <2>2. work' = [work EXCEPT ![s] = now]
    BY <1>3
  <2>3. work[s] = [locks |-> work[s].locks, todo |-> work[s].todo]
    BY <2>1
  <2> HIDE DEF todo
  <2>4. now = [locks |-> work[s].locks, todo |-> todo]
    BY <2>3
  <2> HIDE DEF now
  <2> QED BY <2>2, <2>4
<1>5. FeeStatement(Billed, rows.allocations, Sent(s), was)
  BY <1>2, <1>3 DEF HostelFeesInv
<1>6. /\ was.table = "allocations" /\ was.id # 0 /\ was.id \in DOMAIN rows.allocations
      /\ was.columns.paid \in Nat \ {0} /\ was.columns.status # "UNPAID"
  BY <1>3, <1>5 DEF FeeStatement
<1>7. DOMAIN paid = {"paid"} /\ paid.paid = was.columns.paid
  OBVIOUS
<1>8. st.table = "allocations" /\ st.id = was.id /\ st.columns = paid /\ "anew" \notin DOMAIN st
  OBVIOUS
<1>9. rows.allocations[was.id].status = was.columns.status /\ rows' = rows
  BY <1>3
<1>10. ASSUME NEW b, Cover(b)
       PROVE  was.columns.paid <= b[was.id]
  <2>1. Covered(b, work[s].todo)
    BY <1>10 DEF Cover
  <2> QED BY <1>2, <1>6, <2>1 DEF Covered
<1>11. was.table = "allocations" /\ was.id # 0
  BY <1>6
<1> HIDE DEF was, paid, st
<1>12. Sequence(credit) /\ DOMAIN credit = {1} /\ credit[1] = st
  BY OneElement
<1> HIDE DEF credit
<1>13. Transactions(todo) /\ DOMAIN todo = {1} /\ todo[1] = credit
  BY <1>12, OneTransaction, OneElement
<1> HIDE DEF todo
<1>14. FeeStatement(Billed, rows.allocations, credit, st)
  BY <1>6, <1>7, <1>8, <1>9, <1>12 DEF FeeStatement
<1>15. \A i \in DOMAIN todo : \A n \in DOMAIN todo[i] :
           FeeStatement(Billed, rows.allocations, todo[i], todo[i][n])
  BY <1>12, <1>13, <1>14
<1>16. \A b : Cover(b) => Covered(b, todo)
  BY <1>7, <1>8, <1>10, <1>12, <1>13 DEF Covered
<1> QED BY <1>4, <1>9, <1>13, <1>15, <1>16, FeesRequest

\* A request that is cut short.
LEMMA FeesAbort ==
    ASSUME HostelFeesInv, NEW s \in Session, Abort(s)
    PROVE  HostelFeesInv'
<1>1. rows' = rows /\ work' = [work EXCEPT ![s] = [locks |-> {}, todo |-> <<>>]]
  BY DEF Abort, Untouched
<1>2. Transactions(<<>>) /\ DOMAIN <<>> = {}
  BY EmptySequence DEF Transactions
<1>3. \A b : Covered(b, <<>>)
  BY <1>2 DEF Covered
<1> QED BY <1>1, <1>2, <1>3, FeesRequest

\* What is being sent.
LEMMA FeesSent ==
    ASSUME HostelFeesInv, NEW s \in Session, Commit(s)
    PROVE  /\ WellFormed /\ FeeRowsOK /\ WellFormed' /\ DOMAIN rows' = DOMAIN rows
           /\ work[s].todo # <<>>
           /\ {"assignments", "payments", "allocations"} \subseteq DOMAIN rows
           /\ \A t \in DOMAIN rows : Sequence(rows[t])
           /\ Sequence(Sent(s)) /\ Sent(s) = work[s].todo[1] /\ 1 \in DOMAIN work[s].todo
           /\ \A k \in DOMAIN Sent(s) : FeeStatement(Billed, rows.allocations, Sent(s), Sent(s)[k])
           /\ \A t \in DOMAIN rows : \A i \in DOMAIN rows'[t] : i \notin DOMAIN rows[t] =>
                 \E k \in DOMAIN Sent(s) : /\ Sent(s)[k].table = t /\ Sent(s)[k].id = 0
                                           /\ rows'[t][i] = NewRow(s, k)
<1>1. WellFormed' /\ DOMAIN rows' = DOMAIN rows /\ work[s].todo # <<>>
  BY CommitWellFormed DEF HostelFeesInv, Commit
<1>2. /\ WellFormed /\ FeeRowsOK
      /\ {"assignments", "payments", "allocations"} \subseteq DOMAIN rows
      /\ \A t \in DOMAIN rows : Sequence(rows[t])
      /\ Sequence(Sent(s)) /\ Sent(s) = work[s].todo[1] /\ 1 \in DOMAIN work[s].todo
  BY <1>1, SentWellFormed DEF HostelFeesInv, FeeRowsOK, WellFormed
<1>3. \A k \in DOMAIN Sent(s) : FeeStatement(Billed, rows.allocations, Sent(s), Sent(s)[k])
  BY <1>2 DEF HostelFeesInv
<1>4. ASSUME NEW t \in DOMAIN rows, NEW i \in DOMAIN rows'[t], i \notin DOMAIN rows[t]
      PROVE  \E k \in DOMAIN Sent(s) : /\ Sent(s)[k].table = t /\ Sent(s)[k].id = 0
                                       /\ rows'[t][i] = NewRow(s, k)
  BY <1>2, <1>4, CommitFacts DEF InsertsInto
<1> QED BY <1>1, <1>2, <1>3, <1>4

\* A cancelled assignment stays cancelled.
LEMMA AssignmentsAfter ==
    ASSUME HostelFeesInv, NEW s \in Session, Commit(s)
    PROVE  /\ \A a \in DOMAIN rows.assignments :
                 /\ a \in DOMAIN rows'.assignments
                 /\ \/ rows'.assignments[a].cancelled = rows.assignments[a].cancelled
                    \/ rows'.assignments[a].cancelled = TRUE
           /\ \A a \in DOMAIN rows'.assignments : "cancelled" \in DOMAIN rows'.assignments[a]
           /\ Billed => Billed'
           /\ (\E k \in DOMAIN Sent(s) : Sent(s)[k].table = "assignments" /\ Sent(s)[k].id = 0)
                 => Billed'
           /\ Open' => Open
<1>1. "assignments" \in DOMAIN rows /\ WellFormed /\ FeeRowsOK
  BY FeesSent
<1>2. ASSUME NEW a \in DOMAIN rows["assignments"]
      PROVE  /\ a \in DOMAIN rows'["assignments"]
             /\ "cancelled" \in DOMAIN rows'["assignments"][a]
             /\ \/ rows'["assignments"][a].cancelled = rows["assignments"][a].cancelled
                \/ rows'["assignments"][a].cancelled = TRUE
  <2>1. "cancelled" \in DOMAIN rows["assignments"][a]
    BY <1>1 DEF FeeRowsOK
  <2>2. a # 0
    BY <1>1, SequenceFacts DEF WellFormed
  <2>3. a \in DOMAIN rows'["assignments"]
        /\ DOMAIN rows'["assignments"][a] = DOMAIN rows["assignments"][a]
    BY <1>1, ColumnKept
  <2>4. \/ rows'["assignments"][a]["cancelled"] = rows["assignments"][a]["cancelled"]
        \/ \E k \in DOMAIN Sent(s) :
              /\ Sent(s)[k].table = "assignments" /\ Sent(s)[k].id = a
              /\ "cancelled" \in DOMAIN Sent(s)[k].columns
              /\ rows'["assignments"][a]["cancelled"] = Sent(s)[k].columns["cancelled"]
    BY <1>1, <2>1, ColumnSet
  <2>5. \A k \in DOMAIN Sent(s) :
            /\ Sent(s)[k].table = "assignments" /\ Sent(s)[k].id = a
            /\ "cancelled" \in DOMAIN Sent(s)[k].columns
            => Sent(s)[k].columns["cancelled"] = TRUE
    BY <2>2, FeesSent DEF FeeStatement
  <2> QED BY <2>1, <2>3, <2>4, <2>5
<1>3. ASSUME NEW a \in DOMAIN rows'["assignments"], a \notin DOMAIN rows["assignments"]
      PROVE  "cancelled" \in DOMAIN rows'["assignments"][a]
  <2>1. PICK k \in DOMAIN Sent(s) : /\ Sent(s)[k].table = "assignments" /\ Sent(s)[k].id = 0
                                    /\ rows'["assignments"][a] = NewRow(s, k)
    BY <1>1, <1>3, FeesSent
  <2>2. "cancelled" \in DOMAIN Sent(s)[k].columns
    BY <2>1, FeesSent DEF FeeStatement
  <2> QED BY <2>1, <2>2 DEF NewRow
<1>4. Billed => Billed'
  BY <1>2 DEF Billed
<1>5. ASSUME NEW k \in DOMAIN Sent(s), Sent(s)[k].table = "assignments", Sent(s)[k].id = 0
      PROVE  Billed'
  <2>1. Sequence(rows["assignments"]) /\ Sequence(Sent(s)) /\ k \in InsertsInto(s, "assignments")
    BY <1>1, <1>5, FeesSent DEF InsertsInto
  <2>2. \E i \in DOMAIN rows'["assignments"] : TRUE
    BY <1>1, <2>1, CommitFacts
  <2>3. Sequence(rows'["assignments"])
    BY <1>1, FeesSent DEF WellFormed
  <2> QED BY <2>2, <2>3, HasElement, TailFacts DEF Billed
<1>6. ASSUME Open', Billed PROVE ~rows["assignments"][1].cancelled
  <2>1. ~rows'["assignments"][1].cancelled
    BY <1>4, <1>6 DEF Open
  <2> QED BY <1>2, <1>6, <2>1 DEF Billed
<1> QED BY <1>2, <1>3, <1>4, <1>5, <1>6 DEF Open

\* A payment is never changed.
LEMMA PaymentsAfter ==
    ASSUME HostelFeesInv, NEW s \in Session, Commit(s)
    PROVE  /\ \A p \in DOMAIN rows.payments :
                 /\ p \in DOMAIN rows'.payments
                 /\ rows'.payments[p].amount = rows.payments[p].amount
                 /\ rows'.payments[p].hostel = rows.payments[p].hostel
           /\ \A p \in DOMAIN rows'.payments :
                 /\ {"amount", "hostel"} \subseteq DOMAIN rows'.payments[p]
                 /\ rows'.payments[p].amount \in Nat
<1>1. "payments" \in DOMAIN rows /\ WellFormed /\ FeeRowsOK
  BY FeesSent
<1>2. ASSUME NEW p \in DOMAIN rows["payments"]
      PROVE  /\ p \in DOMAIN rows'["payments"]
             /\ {"amount", "hostel"} \subseteq DOMAIN rows'["payments"][p]
             /\ rows["payments"][p].amount \in Nat
             /\ rows'["payments"][p].amount = rows["payments"][p].amount
             /\ rows'["payments"][p].hostel = rows["payments"][p].hostel
  <2>1. {"amount", "hostel"} \subseteq DOMAIN rows["payments"][p] /\ rows["payments"][p].amount \in Nat
    BY <1>1 DEF FeeRowsOK
  <2>2. p # 0
    BY <1>1, SequenceFacts DEF WellFormed
  <2>3. \A k \in DOMAIN Sent(s) : ~(Sent(s)[k].table = "payments" /\ Sent(s)[k].id = p)
    BY <2>2, FeesSent DEF FeeStatement
  <2>4. /\ p \in DOMAIN rows'["payments"]
        /\ DOMAIN rows'["payments"][p] = DOMAIN rows["payments"][p]
        /\ \A c \in DOMAIN rows["payments"][p] : rows'["payments"][p][c] = rows["payments"][p][c]
    BY <1>1, <2>3, ColumnKept
  <2> QED BY <2>1, <2>4
<1>3. ASSUME NEW p \in DOMAIN rows'["payments"], p \notin DOMAIN rows["payments"]
      PROVE  /\ {"amount", "hostel"} \subseteq DOMAIN rows'["payments"][p]
             /\ rows'["payments"][p].amount \in Nat
  <2>1. PICK k \in DOMAIN Sent(s) : /\ Sent(s)[k].table = "payments" /\ Sent(s)[k].id = 0
                                    /\ rows'["payments"][p] = NewRow(s, k)
    BY <1>1, <1>3, FeesSent
  <2>2. /\ {"amount", "hostel"} \subseteq DOMAIN Sent(s)[k].columns /\ Sent(s)[k].refers = <<>>
        /\ Sent(s)[k].columns.amount \in Nat
    BY <2>1, FeesSent DEF FeeStatement
  <2> QED BY <2>1, <2>2, PlainRow
<1> QED BY <1>2, <1>3

\* An allocation keeps its due; where something is paid it is not unpaid.
LEMMA AllocationsAfter ==
    ASSUME HostelFeesInv, NEW s \in Session, Commit(s)
    PROVE  /\ \A h \in DOMAIN rows.allocations :
                 /\ h \in DOMAIN rows'.allocations
                 /\ FeeColumns \subseteq DOMAIN rows'.allocations[h]
                 /\ rows'.allocations[h].due = rows.allocations[h].due
                 /\ \/ /\ rows'.allocations[h].paid = rows.allocations[h].paid
                       /\ rows'.allocations[h].status = rows.allocations[h].status
                    \/ \E k \in DOMAIN Sent(s) :
                          /\ Sent(s)[k].table = "allocations" /\ Sent(s)[k].id = h /\ h # 0
                          /\ rows'.allocations[h].paid = Sent(s)[k].columns.paid
                          /\ Sent(s)[k].columns.paid \in Nat \ {0}
                          /\ rows'.allocations[h].status # "UNPAID"
                 /\ rows.allocations[h].status # "UNPAID" => rows'.allocations[h].status # "UNPAID"
           /\ \A h \in DOMAIN rows'.allocations : h \notin DOMAIN rows.allocations =>
                 /\ FeeColumns \subseteq DOMAIN rows'.allocations[h]
                 /\ rows'.allocations[h].paid = 0 /\ rows'.allocations[h].status = "UNPAID"
                 /\ Billed'
<1>1. "allocations" \in DOMAIN rows /\ WellFormed /\ FeeRowsOK
  BY FeesSent
<1>2. ASSUME NEW h \in DOMAIN rows["allocations"]
      PROVE  /\ h \in DOMAIN rows'["allocations"]
             /\ FeeColumns \subseteq DOMAIN rows'["allocations"][h]
             /\ rows'["allocations"][h].due = rows["allocations"][h].due
             /\ \/ /\ rows'["allocations"][h].paid = rows["allocations"][h].paid
                   /\ rows'["allocations"][h].status = rows["allocations"][h].status
                \/ \E k \in DOMAIN Sent(s) :
                      /\ Sent(s)[k].table = "allocations" /\ Sent(s)[k].id = h /\ h # 0
                      /\ rows'["allocations"][h].paid = Sent(s)[k].columns.paid
                      /\ Sent(s)[k].columns.paid \in Nat \ {0}
                      /\ rows'["allocations"][h].status # "UNPAID"
             /\ rows["allocations"][h].status # "UNPAID" => rows'["allocations"][h].status # "UNPAID"
  <2>1. FeeColumns \subseteq DOMAIN rows["allocations"][h]
    BY <1>1 DEF FeeRowsOK
  <2>2. h # 0
    BY <1>1, SequenceFacts DEF WellFormed
  <2>3. /\ h \in DOMAIN rows'["allocations"]
        /\ DOMAIN rows'["allocations"][h] = DOMAIN rows["allocations"][h]
        /\ \A c \in DOMAIN rows["allocations"][h] :
              (\A k \in DOMAIN Sent(s) : Sent(s)[k].table = "allocations" /\ Sent(s)[k].id = h
                   => c \notin DOMAIN Sent(s)[k].columns)
              => rows'["allocations"][h][c] = rows["allocations"][h][c]
    BY <1>1, ColumnKept
  <2>4. ASSUME NEW k \in DOMAIN Sent(s), Sent(s)[k].table = "allocations", Sent(s)[k].id = h
        PROVE  /\ DOMAIN Sent(s) = {1}
               /\ "paid" \in DOMAIN Sent(s)[k].columns
               /\ DOMAIN Sent(s)[k].columns \subseteq {"paid", "status"}
               /\ Sent(s)[k].columns.paid \in Nat \ {0}
               /\ IF "status" \in DOMAIN Sent(s)[k].columns
                  THEN Sent(s)[k].columns.status # "UNPAID"
                  ELSE rows["allocations"][h].status # "UNPAID"
    <3>1. FeeStatement(Billed, rows["allocations"], Sent(s), Sent(s)[k])
      BY FeesSent
    <3> DEFINE st == Sent(s)[k]
    <3>2. st.table = "allocations" /\ st.id = h
      BY <2>4
    <3> QED BY <2>2, <3>1, <3>2 DEF FeeStatement
  <2>5. rows'["allocations"][h]["due"] = rows["allocations"][h]["due"]
    BY <2>1, <2>3, <2>4 DEF FeeColumns
  <2>6. CASE \A k \in DOMAIN Sent(s) : ~(Sent(s)[k].table = "allocations" /\ Sent(s)[k].id = h)
    BY <2>1, <2>3, <2>5, <2>6 DEF FeeColumns
  <2>7. ASSUME NEW k \in DOMAIN Sent(s), Sent(s)[k].table = "allocations", Sent(s)[k].id = h,
               NEW c \in {"paid", "status"}
        PROVE  rows'["allocations"][h][c]
                   = IF c \in DOMAIN Sent(s)[k].columns THEN Sent(s)[k].columns[c]
                     ELSE rows["allocations"][h][c]
    <3>1. rows'["allocations"][h] = Updated(s, "allocations", h)
      BY <1>1, FeesSent, CommitFacts
    <3>2. c \in DOMAIN rows["allocations"][h]
      BY <2>1 DEF FeeColumns
    <3>3. \A j \in DOMAIN Sent(s) : j = k
      BY <2>4, <2>7
    <3>4. CASE c \in DOMAIN Sent(s)[k].columns
      <4>1. \E j \in DOMAIN Sent(s) : Updated(s, "allocations", h)[c] = Sent(s)[j].columns[c]
        BY <2>7, <3>2, <3>4, UpdatedFacts
      <4> QED BY <3>1, <3>3, <3>4, <4>1
    <3>5. CASE c \notin DOMAIN Sent(s)[k].columns
      BY <2>3, <3>2, <3>3, <3>5
    <3> QED BY <3>4, <3>5
  <2>8. CASE \E k \in DOMAIN Sent(s) : Sent(s)[k].table = "allocations" /\ Sent(s)[k].id = h
    <3>1. PICK k \in DOMAIN Sent(s) : Sent(s)[k].table = "allocations" /\ Sent(s)[k].id = h
      BY <2>8
    <3>2. /\ rows'["allocations"][h].paid = Sent(s)[k].columns.paid
          /\ rows'["allocations"][h].status # "UNPAID"
          /\ Sent(s)[k].columns.paid \in Nat \ {0}
      BY <2>4, <2>7, <3>1
    <3>3. \E j \in DOMAIN Sent(s) :
              /\ Sent(s)[j].table = "allocations" /\ Sent(s)[j].id = h /\ h # 0
              /\ rows'["allocations"][h].paid = Sent(s)[j].columns.paid
              /\ Sent(s)[j].columns.paid \in Nat \ {0}
              /\ rows'["allocations"][h].status # "UNPAID"
      BY <2>2, <3>1, <3>2
    <3> QED BY <2>1, <2>3, <2>5, <3>2, <3>3
  <2> QED BY <2>6, <2>8
<1>3. ASSUME NEW h \in DOMAIN rows'["allocations"], h \notin DOMAIN rows["allocations"]
      PROVE  /\ FeeColumns \subseteq DOMAIN rows'["allocations"][h]
             /\ rows'["allocations"][h].paid = 0 /\ rows'["allocations"][h].status = "UNPAID"
             /\ Billed'
  <2>1. PICK k \in DOMAIN Sent(s) : /\ Sent(s)[k].table = "allocations" /\ Sent(s)[k].id = 0
                                    /\ rows'["allocations"][h] = NewRow(s, k)
    BY <1>1, <1>3, FeesSent
  <2>2. /\ FeeColumns \subseteq DOMAIN Sent(s)[k].columns /\ Sent(s)[k].refers = <<>>
        /\ Sent(s)[k].columns.paid = 0 /\ Sent(s)[k].columns.status = "UNPAID"
        /\ \/ Billed
           \/ \E j \in DOMAIN Sent(s) : Sent(s)[j].table = "assignments" /\ Sent(s)[j].id = 0
    BY <2>1, FeesSent, ZenonT(60) DEF FeeStatement
  <2>3. Billed'
    BY <2>2, AssignmentsAfter
  <2>4. \A c \in FeeColumns : rows'["allocations"][h][c] = Sent(s)[k].columns[c]
    BY <2>1, <2>2, PlainRow
  <2>5. FeeColumns \subseteq DOMAIN rows'["allocations"][h]
    BY <2>1, <2>2, PlainRow
  <2> QED BY <2>2, <2>3, <2>4, <2>5 DEF FeeColumns
<1> QED BY <1>2, <1>3

\* A larger cover covers what a smaller one does.
LEMMA MoreCovers ==
    ASSUME NEW b, NEW c, Numbers(b), Numbers(c),
           \A h \in DOMAIN b : h \in DOMAIN c /\ b[h] <= c[h],
           NEW billed, NEW allocations, DOMAIN allocations = DOMAIN b, NEW todo,
           \A i \in DOMAIN todo : \A k \in DOMAIN todo[i] :
              FeeStatement(billed, allocations, todo[i], todo[i][k]),
           Covered(b, todo)
    PROVE  Covered(c, todo)
<1>1. \A n, x, y, p \in Nat : n <= x /\ x <= y => n <= y
  OBVIOUS
<1>2. \A n, x, y, p \in Nat : n <= x + p /\ x <= y => n <= y + p
  OBVIOUS
<1>3. ASSUME NEW i \in DOMAIN todo, NEW k \in DOMAIN todo[i],
             todo[i][k].table = "allocations", todo[i][k].id # 0
      PROVE  /\ todo[i][k].id \in DOMAIN b /\ todo[i][k].columns.paid \in Nat
             /\ b[todo[i][k].id] \in Nat /\ c[todo[i][k].id] \in Nat
             /\ b[todo[i][k].id] <= c[todo[i][k].id]
  <2> DEFINE st == todo[i][k]
  <2>1. FeeStatement(billed, allocations, todo[i], st)
    OBVIOUS
  <2>2. st.id \in DOMAIN b /\ st.columns.paid \in Nat
    BY <1>3, <2>1 DEF FeeStatement
  <2> QED BY <2>2 DEF Numbers
<1>4. Collecting(b, todo) => Collecting(c, todo)
  <2> SUFFICES ASSUME Collecting(b, todo)
               PROVE  todo[2][1].columns.paid <= c[todo[2][1].id] + todo[1][1].columns.amount
    BY DEF Collecting
  <2>1. /\ 1 \in DOMAIN todo /\ 2 \in DOMAIN todo /\ 1 \in DOMAIN todo[1] /\ 1 \in DOMAIN todo[2]
        /\ todo[1][1].table = "payments"
        /\ todo[2][1].table = "allocations" /\ todo[2][1].id # 0
        /\ todo[2][1].columns.paid <= b[todo[2][1].id] + todo[1][1].columns.amount
    BY DEF Collecting
  <2>2. FeeStatement(billed, allocations, todo[1], todo[1][1])
    BY <2>1
  <2>3. todo[1][1].columns.amount \in Nat
    BY <2>1, <2>2 DEF FeeStatement
  <2>4. /\ todo[2][1].columns.paid \in Nat
        /\ b[todo[2][1].id] \in Nat /\ c[todo[2][1].id] \in Nat
        /\ b[todo[2][1].id] <= c[todo[2][1].id]
    BY <1>3, <2>1
  <2> QED BY <1>2, <2>1, <2>3, <2>4
<1>5. ASSUME NEW i \in DOMAIN todo, NEW k \in DOMAIN todo[i],
             todo[i][k].table = "allocations", todo[i][k].id # 0
      PROVE  todo[i][k].columns.paid <= c[todo[i][k].id] \/ (i = 2 /\ Collecting(c, todo))
  <2>1. todo[i][k].columns.paid <= b[todo[i][k].id] \/ (i = 2 /\ Collecting(b, todo))
    BY <1>5 DEF Covered
  <2> QED BY <1>1, <1>3, <1>4, <1>5, <2>1
<1> QED BY <1>5 DEF Covered

\* What the payments collected for the hostel are numbers.
LEMMA HostedNumbers ==
    ASSUME NEW payments, Sequence(payments), \A p \in DOMAIN payments : payments[p].amount \in Nat
    PROVE  /\ Numbers(Hosted(payments)) /\ DOMAIN Hosted(payments) = DOMAIN payments
           /\ \A p \in DOMAIN payments :
                 At(Hosted(payments), p) = IF payments[p].hostel = TRUE THEN payments[p].amount ELSE 0
           /\ \A p : At(Hosted(payments), p) \in Nat
<1>1. DOMAIN Hosted(payments) = DOMAIN payments
  BY DEF Hosted
<1>2. IsFiniteSet(DOMAIN payments)
  <2>1. Len(payments) \in Int /\ 1 \in Int /\ DOMAIN payments = 1..Len(payments)
    BY SequenceFacts
  <2> QED BY <2>1, FS_Interval
<1>3. \A p \in DOMAIN payments : Hosted(payments)[p] \in Nat
  BY DEF Hosted
<1>4. Numbers(Hosted(payments))
  BY <1>1, <1>2, <1>3 DEF Numbers
<1> QED BY <1>1, <1>4, UnitsAre DEF At, Hosted

\* A commit takes no payment back.
LEMMA HostedAfter ==
    ASSUME HostelFeesInv, NEW s \in Session, Commit(s)
    PROVE  /\ Numbers(Hosted(rows.payments)) /\ Numbers(Hosted(rows'.payments))
           /\ \A p \in DOMAIN rows.payments :
                 At(Hosted(rows'.payments), p) = At(Hosted(rows.payments), p)
           /\ \A p : p \notin DOMAIN rows.payments => At(Hosted(rows.payments), p) = 0
           /\ \A p : At(Hosted(rows.payments), p) <= At(Hosted(rows'.payments), p)
           /\ TotalOf(Hosted(rows.payments)) <= TotalOf(Hosted(rows'.payments))
           /\ TotalOf(Hosted(rows.payments)) \in Nat /\ TotalOf(Hosted(rows'.payments)) \in Nat
<1> DEFINE was == rows["payments"]
           is  == rows'["payments"]
<1>1. /\ Sequence(was) /\ Sequence(is)
      /\ \A p \in DOMAIN was : was[p].amount \in Nat
      /\ \A p \in DOMAIN is : is[p].amount \in Nat
      /\ \A p \in DOMAIN was : /\ p \in DOMAIN is
                               /\ is[p].amount = was[p].amount /\ is[p].hostel = was[p].hostel
  BY FeesSent, PaymentsAfter DEF WellFormed, FeeRowsOK
<1> HIDE DEF was, is
<1>2. /\ Numbers(Hosted(was)) /\ DOMAIN Hosted(was) = DOMAIN was
      /\ \A p \in DOMAIN was : At(Hosted(was), p) = IF was[p].hostel = TRUE THEN was[p].amount ELSE 0
      /\ \A p : At(Hosted(was), p) \in Nat
  BY <1>1, HostedNumbers
<1>3. /\ Numbers(Hosted(is)) /\ DOMAIN Hosted(is) = DOMAIN is
      /\ \A p \in DOMAIN is : At(Hosted(is), p) = IF is[p].hostel = TRUE THEN is[p].amount ELSE 0
      /\ \A p : At(Hosted(is), p) \in Nat
  BY <1>1, HostedNumbers
<1>4. \A p \in DOMAIN was : At(Hosted(is), p) = At(Hosted(was), p)
  BY <1>1, <1>2, <1>3
<1>5. \A p : p \notin DOMAIN was => At(Hosted(was), p) = 0
  BY <1>2 DEF At
<1>6. \A p : At(Hosted(was), p) <= At(Hosted(is), p)
  BY <1>2, <1>3, <1>4, <1>5
<1>7. TotalOf(Hosted(was)) <= TotalOf(Hosted(is))
  BY <1>2, <1>3, <1>6, TotalGrows
<1> QED BY <1>2, <1>3, <1>4, <1>5, <1>6, <1>7, UnitsCounted DEF was, is

\* What is left to send, where a cover has grown enough.
LEMMA RestCovered ==
    ASSUME HostelFeesInv, NEW s \in Session, Commit(s), NEW b, Cover(b),
           NEW c, Numbers(c), \A h \in DOMAIN b : h \in DOMAIN c /\ b[h] <= c[h],
           \A i \in DOMAIN work[s].todo : \A k \in DOMAIN work[s].todo[i] :
              i # 1 /\ work[s].todo[i][k].table = "allocations" /\ work[s].todo[i][k].id # 0
                  => work[s].todo[i][k].columns.paid <= c[work[s].todo[i][k].id]
    PROVE  \A r \in Session : Covered(c, work'[r].todo)
<1>1. ASSUME NEW r \in Session, r # s PROVE Covered(c, work'[r].todo)
  <2>1. work'[r].todo = work[r].todo
    BY <1>1 DEF Commit, HostelFeesInv, WellFormed
  <2>2. \A i \in DOMAIN work[r].todo : \A k \in DOMAIN work[r].todo[i] :
            FeeStatement(Billed, rows.allocations, work[r].todo[i], work[r].todo[i][k])
    BY DEF HostelFeesInv
  <2>3. Covered(b, work[r].todo) /\ Numbers(b) /\ DOMAIN rows.allocations = DOMAIN b
    BY DEF Cover
  <2> DEFINE todo == work[r].todo
  <2> HIDE DEF todo
  <2>4. \A i \in DOMAIN todo : \A k \in DOMAIN todo[i] :
            FeeStatement(Billed, rows.allocations, todo[i], todo[i][k])
    BY <2>2 DEF todo
  <2>5. Covered(b, todo)
    BY <2>3 DEF todo
  <2>6. Covered(c, todo)
    <3> DEFINE shares == rows.allocations
    <3>1. /\ Numbers(b) /\ Numbers(c) /\ DOMAIN shares = DOMAIN b
          /\ \A h \in DOMAIN b : h \in DOMAIN c /\ b[h] <= c[h]
          /\ \A i \in DOMAIN todo : \A k \in DOMAIN todo[i] :
                FeeStatement(Billed, shares, todo[i], todo[i][k])
      BY <2>3, <2>4
    <3> HIDE DEF shares
    <3> QED BY ONLY <2>5, <3>1, MoreCovers
  <2> QED BY <2>1, <2>6 DEF todo
<1>2. Covered(c, work'[s].todo)
  <2> DEFINE todo == work[s].todo
             rest == Tail(todo)
  <2>1. work'[s].todo = rest
    BY DEF Commit, HostelFeesInv, WellFormed
  <2>2. /\ Transactions(rest)
        /\ \A k \in DOMAIN rest : k + 1 \in DOMAIN todo /\ rest[k] = todo[k + 1]
    BY FeesSent, SentWellFormed
  <2> HIDE DEF todo, rest
  <2>3. \A k \in DOMAIN rest : k \in Nat /\ k + 1 # 1
    <3>1. Len(rest) \in Nat /\ DOMAIN rest = 1..Len(rest)
      BY <2>2, SequenceFacts DEF Transactions
    <3> QED BY <3>1
  <2>4. ASSUME NEW i \in DOMAIN rest, NEW k \in DOMAIN rest[i],
               rest[i][k].table = "allocations", rest[i][k].id # 0
        PROVE  rest[i][k].columns.paid <= c[rest[i][k].id]
    <3>1. i + 1 \in DOMAIN todo /\ i + 1 # 1 /\ rest[i] = todo[i + 1]
      BY <2>2, <2>3
    <3>2. \A j \in DOMAIN todo : \A l \in DOMAIN todo[j] :
              j # 1 /\ todo[j][l].table = "allocations" /\ todo[j][l].id # 0
                  => todo[j][l].columns.paid <= c[todo[j][l].id]
      BY DEF todo
    <3> QED BY <2>4, <3>1, <3>2
  <2> QED BY <2>1, <2>4 DEF Covered
<1> QED BY <1>1, <1>2

\* The commit of a payment: the cover of what it is then credited to grows by it.
LEMMA CollectingCovers ==
    ASSUME HostelFeesInv, NEW s \in Session, Commit(s), NEW b, Cover(b),
           Collecting(b, work[s].todo)
    PROVE  \E c : Cover(c)'
<1> DEFINE todo == work[s].todo
           h    == todo[2][1].id
           p    == todo[1][1].columns.amount
           more == [b EXCEPT ![h] = b[h] + p]
<1>1. /\ DOMAIN todo = {1, 2} /\ DOMAIN todo[1] = {1} /\ DOMAIN todo[2] = {1}
      /\ todo[1][1].table = "payments" /\ todo[1][1].columns.hostel = TRUE
      /\ todo[2][1].table = "allocations" /\ h # 0
      /\ todo[2][1].columns.paid <= b[h] + p
  BY DEF Collecting
<1>2. /\ FeeStatement(Billed, rows.allocations, todo[1], todo[1][1])
      /\ FeeStatement(Billed, rows.allocations, todo[2], todo[2][1])
  BY <1>1, SMTT(20) DEF HostelFeesInv
<1>3. /\ todo[1][1].id = 0 /\ todo[1][1].refers = <<>>
      /\ {"amount", "hostel"} \subseteq DOMAIN todo[1][1].columns /\ p \in Nat
  BY <1>1, <1>2, Zenon DEF FeeStatement
<1>4. Numbers(b) /\ DOMAIN b = DOMAIN rows.allocations /\ TotalOf(b) <= TotalOf(Hosted(rows.payments))
      /\ \A k \in DOMAIN b : rows.allocations[k].paid <= b[k]
  BY DEF Cover
<1>5. h \in DOMAIN b /\ b[h] \in Nat
  <2>1. h \in DOMAIN rows.allocations
    BY <1>1, <1>2, Zenon DEF FeeStatement
  <2> QED BY <1>4, <2>1, SMTT(20) DEF Numbers
<1>6. /\ WellFormed /\ "allocations" \in DOMAIN rows /\ "payments" \in DOMAIN rows
      /\ Sent(s) = todo[1]
  BY FeesSent
<1> HIDE DEF todo, h, p
<1>7. PICK c : DOMAIN c = DOMAIN b /\ c[h] = b[h] + p /\ \A k \in DOMAIN b : k # h => c[k] = b[k]
  <2>1. DOMAIN more = DOMAIN b /\ more[h] = b[h] + p /\ \A k \in DOMAIN b : k # h => more[k] = b[k]
    BY <1>5
  <2> QED BY <2>1
<1>8. Numbers(c) /\ \A k \in DOMAIN b : k \in DOMAIN c /\ b[k] <= c[k]
  BY <1>3, <1>4, <1>5, <1>7 DEF Numbers
<1>9. /\ DOMAIN rows'.allocations = DOMAIN b
      /\ \A k \in DOMAIN b : rows'.allocations[k].paid = rows.allocations[k].paid
  <2>1. \A k \in DOMAIN Sent(s) : Sent(s)[k].table # "allocations"
    BY <1>1, <1>6
  <2>2. InsertsInto(s, "allocations") = {}
    BY <2>1 DEF InsertsInto
  <2>3. DOMAIN rows'["allocations"] = DOMAIN rows["allocations"]
    BY <1>6, <2>2, NothingInserted
  <2> QED BY <1>4, <2>1, <2>3, AllocationsAfter
<1>10. \A k \in DOMAIN c : rows'.allocations[k].paid <= c[k]
  <2>1. \A k \in DOMAIN b : rows.allocations[k].paid \in Nat /\ b[k] \in Nat /\ c[k] \in Nat
    BY <1>4, <1>8 DEF Numbers, HostelFeesInv, FeeRowsOK
  <2> QED BY <1>4, <1>7, <1>8, <1>9, <2>1
<1>11. TotalOf(c) = TotalOf(b) + p
  <2>1. \A k : At(c, k) = IF k = h THEN At(b, h) + p ELSE At(b, k)
    BY <1>5, <1>7 DEF At
  <2> QED BY <1>3, <1>4, <1>8, <2>1, TotalRises
<1>12. TotalOf(Hosted(rows'.payments)) = TotalOf(Hosted(rows.payments)) + p
  <2> DEFINE was == rows["payments"]
             is  == rows'["payments"]
  <2>1. InsertsInto(s, "payments") = {1}
    BY <1>1, <1>3, <1>6 DEF InsertsInto
  <2>2. PICK n : /\ n \notin DOMAIN was
                 /\ DOMAIN is = DOMAIN was \cup {n} /\ is[n] = NewRow(s, 1)
    BY <1>6, <2>1, OneInserted
  <2>3. is[n].amount = p /\ is[n].hostel = TRUE
    <3>1. Sent(s)[1].refers = <<>> /\ {"amount", "hostel"} \subseteq DOMAIN Sent(s)[1].columns
      BY <1>3, <1>6
    <3>2. Sent(s)[1].columns.amount = p /\ Sent(s)[1].columns.hostel = TRUE
      BY <1>1, <1>6 DEF p
    <3> QED BY <2>2, <3>1, <3>2, PlainRow
  <2>4. Sequence(is) /\ \A k \in DOMAIN is : is[k].amount \in Nat
    BY FeesSent, PaymentsAfter DEF WellFormed
  <2>5. At(Hosted(is), n) = p /\ \A k : k \notin DOMAIN is => At(Hosted(is), k) = 0
    BY <2>2, <2>3, <2>4, HostedNumbers DEF At
  <2>6. /\ Numbers(Hosted(was)) /\ Numbers(Hosted(is))
        /\ \A k \in DOMAIN was : At(Hosted(is), k) = At(Hosted(was), k)
        /\ \A k : k \notin DOMAIN was => At(Hosted(was), k) = 0
    BY HostedAfter
  <2>7. 0 + p = p
    BY <1>3
  <2> HIDE DEF was, is
  <2>8. \A k : At(Hosted(is), k) = IF k = n THEN At(Hosted(was), n) + p ELSE At(Hosted(was), k)
    BY <2>2, <2>5, <2>6, <2>7
  <2> QED BY <1>3, <2>6, <2>8, TotalRises DEF was, is
<1>13. TotalOf(c) <= TotalOf(Hosted(rows'.payments))
  <2>1. TotalOf(b) \in Nat /\ TotalOf(Hosted(rows.payments)) \in Nat
    BY <1>4, HostedAfter, UnitsCounted
  <2> QED BY <1>3, <1>4, <1>11, <1>12, <2>1
<1>14. \A r \in Session : Covered(c, work'[r].todo)
  <2>1. \A i \in DOMAIN work[s].todo : \A k \in DOMAIN work[s].todo[i] :
            i # 1 /\ work[s].todo[i][k].table = "allocations" /\ work[s].todo[i][k].id # 0
                => work[s].todo[i][k].columns.paid <= c[work[s].todo[i][k].id]
    BY <1>1, <1>7, ZenonT(40) DEF todo, h, p
  <2> QED BY <1>8, <2>1, RestCovered, SMTT(40)
<1>15. Cover(c)'
  BY <1>7, <1>8, <1>9, <1>10, <1>13, <1>14 DEF Cover
<1> QED BY <1>15

\* Any other commit: what it credits is covered, and what it bills is not paid yet.
LEMMA OthersCovered ==
    ASSUME HostelFeesInv, NEW s \in Session, Commit(s), NEW b, Cover(b),
           ~Collecting(b, work[s].todo)
    PROVE  \E c : Cover(c)'
<1> DEFINE was == rows["allocations"]
           is  == rows'["allocations"]
           new == [h \in DOMAIN is |-> IF h \in DOMAIN was THEN b[h] ELSE 0]
<1>1. Numbers(b) /\ DOMAIN b = DOMAIN was /\ TotalOf(b) <= TotalOf(Hosted(rows.payments))
      /\ \A k \in DOMAIN b : was[k].paid <= b[k]
  BY DEF Cover
<1>2. /\ Sequence(is) /\ Sent(s) = work[s].todo[1] /\ 1 \in DOMAIN work[s].todo
      /\ \A h \in DOMAIN was : h \in DOMAIN is /\ was[h].paid \in Nat
  BY FeesSent, AllocationsAfter DEF WellFormed, FeeRowsOK
<1>3. \A i \in DOMAIN work[s].todo : \A k \in DOMAIN work[s].todo[i] :
          work[s].todo[i][k].table = "allocations" /\ work[s].todo[i][k].id # 0
              => work[s].todo[i][k].columns.paid <= b[work[s].todo[i][k].id]
  BY SMTT(40) DEF Cover, Covered
<1>4. \A i \in DOMAIN work[s].todo : \A k \in DOMAIN work[s].todo[i] :
          work[s].todo[i][k].table = "allocations" /\ work[s].todo[i][k].id # 0
              => work[s].todo[i][k].id \in DOMAIN was
  <2>1. \A i \in DOMAIN work[s].todo : \A k \in DOMAIN work[s].todo[i] :
            FeeStatement(Billed, was, work[s].todo[i], work[s].todo[i][k])
    BY DEF HostelFeesInv
  <2>2. \A tr, st : FeeStatement(Billed, was, tr, st) /\ st.table = "allocations" /\ st.id # 0
            => st.id \in DOMAIN was
    BY DEF FeeStatement
  <2> QED BY <2>1, <2>2, Zenon
<1>5. PICK c : /\ DOMAIN c = DOMAIN is /\ \A h \in DOMAIN b : h \in DOMAIN c /\ c[h] = b[h]
               /\ \A h \in DOMAIN is : h \notin DOMAIN was => c[h] = 0
  <2>1. /\ DOMAIN new = DOMAIN is /\ \A h \in DOMAIN b : h \in DOMAIN new /\ new[h] = b[h]
        /\ \A h \in DOMAIN is : h \notin DOMAIN was => new[h] = 0
    BY <1>1, <1>2
  <2> QED BY <2>1
<1>6. Numbers(c)
  <2>1. IsFiniteSet(DOMAIN is)
    <3>1. Len(is) \in Int /\ 1 \in Int /\ DOMAIN is = 1..Len(is)
      BY <1>2, SequenceFacts
    <3> QED BY <3>1, FS_Interval
  <2>2. \A h \in DOMAIN c : c[h] \in Nat
    BY <1>1, <1>5 DEF Numbers
  <2> QED BY <1>5, <2>1, <2>2 DEF Numbers
<1>7. \A h \in DOMAIN b : b[h] \in Nat /\ b[h] <= c[h]
  BY <1>1, <1>5 DEF Numbers
<1>8. ASSUME NEW h \in DOMAIN c PROVE is[h].paid <= c[h]
  <2>1. CASE h \in DOMAIN was
    <3>1. c[h] = b[h] /\ was[h].paid <= b[h]
      BY <1>1, <1>5, <2>1
    <3>2. \/ is[h].paid = was[h].paid
          \/ \E k \in DOMAIN Sent(s) : /\ Sent(s)[k].table = "allocations" /\ Sent(s)[k].id = h
                                       /\ h # 0 /\ is[h].paid = Sent(s)[k].columns.paid
      BY <2>1, AllocationsAfter
    <3> QED BY <1>2, <1>3, <3>1, <3>2
  <2>2. CASE h \notin DOMAIN was
    <3>1. is[h].paid = 0 /\ c[h] = 0
      BY <1>5, <1>8, <2>2, AllocationsAfter
    <3> QED BY <3>1
  <2> QED BY <2>1, <2>2, SMTT(30)
<1>9. TotalOf(c) <= TotalOf(Hosted(rows'.payments))
  <2>1. \A k : At(c, k) <= At(b, k)
    <3>1. \A k : At(c, k) = At(b, k)
      BY <1>1, <1>5 DEF At
    <3> QED BY <1>1, <3>1, UnitsAre
  <2>2. TotalOf(c) <= TotalOf(b)
    BY <1>1, <1>6, <2>1, TotalGrows
  <2>3. TotalOf(c) \in Nat /\ TotalOf(b) \in Nat
    BY <1>1, <1>6, UnitsCounted
  <2>4. /\ TotalOf(Hosted(rows.payments)) <= TotalOf(Hosted(rows'.payments))
        /\ TotalOf(Hosted(rows.payments)) \in Nat /\ TotalOf(Hosted(rows'.payments)) \in Nat
    BY HostedAfter
  <2> QED BY <1>1, <2>2, <2>3, <2>4
<1>10. \A r \in Session : Covered(c, work'[r].todo)
  <2>1. \A i \in DOMAIN work[s].todo : \A k \in DOMAIN work[s].todo[i] :
            i # 1 /\ work[s].todo[i][k].table = "allocations" /\ work[s].todo[i][k].id # 0
                => work[s].todo[i][k].columns.paid <= c[work[s].todo[i][k].id]
    BY <1>1, <1>3, <1>4, <1>5
  <2> QED BY <1>5, <1>6, <1>7, <2>1, RestCovered
<1>11. Cover(c)'
  BY <1>5, <1>6, <1>8, <1>9, <1>10 DEF Cover
<1> QED BY <1>11

\* A statement stays what it is, with more to refer to.
LEMMA FeeStatementStays ==
    ASSUME NEW billed, NEW allocations, NEW billed1, NEW allocations1, billed => billed1,
           \A h \in DOMAIN allocations :
              /\ h \in DOMAIN allocations1
              /\ allocations[h].status # "UNPAID" => allocations1[h].status # "UNPAID",
           NEW tr, NEW st, FeeStatement(billed, allocations, tr, st)
    PROVE  FeeStatement(billed1, allocations1, tr, st)
BY DEF FeeStatement

\* Every commit keeps the invariant.
LEMMA FeesCommit ==
    ASSUME HostelFeesInv, NEW s \in Session, Commit(s)
    PROVE  HostelFeesInv'
<1>1. WellFormed' /\ DOMAIN rows' = DOMAIN rows /\ FeeRowsOK
      /\ {"assignments", "payments", "allocations"} \subseteq DOMAIN rows
  BY FeesSent
<1>2. FeeRowsOK'
  <2>1. \A a \in DOMAIN rows'.assignments : "cancelled" \in DOMAIN rows'.assignments[a]
    BY AssignmentsAfter
  <2>2. \A p \in DOMAIN rows'.payments :
            {"amount", "hostel"} \subseteq DOMAIN rows'.payments[p] /\ rows'.payments[p].amount \in Nat
    BY PaymentsAfter
  <2>3. ASSUME NEW h \in DOMAIN rows'.allocations
        PROVE  /\ FeeColumns \subseteq DOMAIN rows'.allocations[h]
               /\ rows'.allocations[h].paid \in Nat /\ Billed'
    <3>1. CASE h \in DOMAIN rows.allocations
      <4>1. rows.allocations[h].paid \in Nat /\ Billed
        BY <1>1, <3>1 DEF FeeRowsOK
      <4>2. Billed'
        BY <4>1, AssignmentsAfter
      <4>3. FeeColumns \subseteq DOMAIN rows'.allocations[h] /\ rows'.allocations[h].paid \in Nat
        BY <3>1, <4>1, AllocationsAfter
      <4> QED BY <4>2, <4>3
    <3>2. CASE h \notin DOMAIN rows.allocations
      BY <2>3, <3>2, AllocationsAfter
    <3> QED BY <3>1, <3>2
  <2>4. DOMAIN rows'.allocations # {} => Billed'
    BY <2>3
  <2> QED BY <1>1, <2>1, <2>2, <2>3, <2>4 DEF FeeRowsOK, FeeColumns
<1>3. HostelFees!UnpaidIsUnpaid'
  <2> SUFFICES ASSUME NEW h \in DOMAIN rows'.allocations
               PROVE  rows'.allocations[h].status = "UNPAID" <=> rows'.allocations[h].paid = 0
    BY DEF HostelFees!UnpaidIsUnpaid
  <2>1. CASE h \in DOMAIN rows.allocations
    BY <2>1, AllocationsAfter DEF HostelFeesInv, HostelFees!UnpaidIsUnpaid
  <2>2. CASE h \notin DOMAIN rows.allocations
    BY <2>2, AllocationsAfter
  <2> QED BY <2>1, <2>2
<1>4. ASSUME NEW r \in Session, NEW i \in DOMAIN work'[r].todo, NEW k \in DOMAIN work'[r].todo[i]
      PROVE  FeeStatement(Billed', rows'.allocations, work'[r].todo[i], work'[r].todo[i][k])
  <2> DEFINE tr == work'[r].todo[i]
  <2>1. work'[r].todo = IF r = s THEN Tail(work[s].todo) ELSE work[r].todo
    BY DEF Commit, HostelFeesInv, WellFormed
  <2>2. FeeStatement(Billed, rows.allocations, tr, tr[k])
    <3>1. CASE r = s
      <4>1. i + 1 \in DOMAIN work[s].todo /\ tr = work[s].todo[i + 1]
        BY <2>1, <3>1, FeesSent, SentWellFormed
      <4> QED BY <4>1 DEF HostelFeesInv
    <3>2. CASE r # s
      BY <2>1, <3>2 DEF HostelFeesInv
    <3> QED BY <3>1, <3>2
  <2> HIDE DEF tr
  <2>3. \A h \in DOMAIN rows.allocations :
            /\ h \in DOMAIN rows'.allocations
            /\ rows.allocations[h].status # "UNPAID" => rows'.allocations[h].status # "UNPAID"
    BY AllocationsAfter
  <2>4. Billed => Billed'
    BY AssignmentsAfter
  <2>5. FeeStatement(Billed', rows'.allocations, tr, tr[k])
    BY <2>2, <2>3, <2>4, FeeStatementStays
  <2> QED BY <2>5 DEF tr
<1>5. ASSUME Open' PROVE \E c : Cover(c)'
  <2>1. Open
    BY <1>5, AssignmentsAfter
  <2>2. PICK b : Cover(b)
    BY <2>1 DEF HostelFeesInv
  <2> QED BY <2>2, CollectingCovers, OthersCovered
<1> QED BY <1>1, <1>2, <1>3, <1>4, <1>5 DEF HostelFeesInv

\* The commit of the desk is that of UnitOfWork.
LEMMA FeesSends ==
    ASSUME NEW s \in Session
    PROVE  /\ HostelFees!Commit(s) => Commit(s)
           /\ HostelFees!Abort(s) => Abort(s)
BY Zenon DEF HostelFees!Commit, Commit, HostelFees!Sent, Sent, HostelFees!Held, Held,
       HostelFees!Updated, Updated, HostelFees!Inserted, Inserted, HostelFees!Listed, Listed,
       HostelFees!Cardinality, Cardinality, HostelFees!Abort, Abort, HostelFees!Idle, Idle,
       HostelFees!Untouched, Untouched

\* Every step at the desk of the hostel's fees keeps the invariant.
LEMMA HostelFeesKeep == HostelFeesInv /\ HostelFees!Next => HostelFeesInv'
<1> SUFFICES ASSUME HostelFeesInv, NEW s \in Session,
                    \/ HostelFees!CreateFeeStructure(s) \/ HostelFees!AllocateFeeToStudent(s)
                    \/ HostelFees!RecordUnbacked(s) \/ HostelFees!RecordFeePayment(s)
                    \/ HostelFees!Reread(s)
                    \/ HostelFees!PayAssignment(s) \/ HostelFees!CancelAssignment(s)
                    \/ HostelFees!Commit(s) \/ HostelFees!Abort(s)
             PROVE  HostelFeesInv'
  BY DEF HostelFees!Next
<1> QED BY EntriesKeep, PaymentsKeep, RereadKeeps, FeesSends, FeesCommit, FeesAbort

\* The desk opens with nothing paid.
LEMMA HostelFeesStart == HostelFees!Init => HostelFeesInv
<1> SUFFICES ASSUME HostelFees!Init PROVE HostelFeesInv
  OBVIOUS
<1> DEFINE Shares(own) == [k \in DOMAIN own |-> [structure |-> 1, due |-> own[k].amount,
                                                 paid |-> 0, status |-> "UNPAID"]]
           Bill(all)   == IF all = <<>> THEN <<>> ELSE <<[cancelled |-> FALSE]>>
<1>1. PICK other, own :
          /\ other \in {<<>>} \cup {<<[amount |-> n]>> : n \in Amounts}
          /\ own \in {<<>>} \cup {<<[amount |-> n]>> : n \in Amounts}
          /\ rows = [structures |-> own, assignments |-> Bill(other \o own),
                     items |-> other \o own, payments |-> <<>>, allocations |-> Shares(own)]
          /\ work = [s \in Session |-> Untouched]
  BY DEF HostelFees!Init, HostelFees!Start, HostelFees!Untouched, Untouched
<1>2. /\ DOMAIN rows = {"structures", "assignments", "items", "payments", "allocations"}
      /\ rows.structures = own /\ rows.assignments = Bill(other \o own)
      /\ rows.items = other \o own /\ rows.payments = <<>> /\ rows.allocations = Shares(own)
  BY <1>1
<1>3. /\ Sequence(other) /\ Sequence(own)
      /\ \A a : Sequence(<<a>>) /\ DOMAIN <<a>> = {1} /\ <<a>>[1] = a
      /\ Sequence(<<>>) /\ DOMAIN <<>> = {}
  BY <1>1, OneElement, EmptySequence
<1>4. /\ Sequence(other \o own)
      /\ \A k \in DOMAIN own : other \o own # <<>>
  <2>1. /\ Sequence(other \o own) /\ DOMAIN (other \o own) = 1..(Len(other) + Len(own))
    BY <1>3, ConcatFacts
  <2>2. ASSUME NEW k \in DOMAIN own PROVE other \o own # <<>>
    <3>1. Len(other) \in Nat /\ Len(own) \in Nat /\ k \in 1..Len(own)
      BY <1>3, SequenceFacts
    <3>2. k \in DOMAIN (other \o own)
      BY <2>1, <3>1
    <3> QED BY <3>2, HasElement
  <2> QED BY <2>1, <2>2
<1>5. /\ DOMAIN Shares(own) = DOMAIN own /\ Sequence(Shares(own))
      /\ \A h \in DOMAIN Shares(own) :
            /\ FeeColumns \subseteq DOMAIN Shares(own)[h]
            /\ Shares(own)[h].paid = 0 /\ Shares(own)[h].status = "UNPAID"
  <2>1. /\ DOMAIN Shares(own) = DOMAIN own
        /\ \A h \in DOMAIN Shares(own) :
              /\ FeeColumns \subseteq DOMAIN Shares(own)[h]
              /\ Shares(own)[h].paid = 0 /\ Shares(own)[h].status = "UNPAID"
    BY DEF FeeColumns
  <2>2. Len(own) \in Nat /\ DOMAIN own = 1..Len(own)
    BY <1>3, SequenceFacts
  <2>3. Shares(own) = [k \in 1..Len(own) |-> Shares(own)[k]]
    BY <2>2
  <2> HIDE DEF Shares
  <2> QED BY <2>1, <2>2, <2>3, FunctionSequence
<1>6. /\ Sequence(Bill(other \o own))
      /\ \A a \in DOMAIN Bill(other \o own) : "cancelled" \in DOMAIN Bill(other \o own)[a]
      /\ other \o own # <<>> => 1 \in DOMAIN Bill(other \o own)
  BY <1>3
<1> HIDE DEF Shares, Bill
<1>7. WellFormed
  <2>1. \A t \in DOMAIN rows : Sequence(rows[t])
    BY <1>2, <1>3, <1>4, <1>5, <1>6
  <2> QED BY <1>1, <2>1, StartWellFormed
<1>8. FeeRowsOK
  <2>1. \A h \in DOMAIN rows.allocations :
            /\ FeeColumns \subseteq DOMAIN rows.allocations[h] /\ rows.allocations[h].paid \in Nat
            /\ Billed
    BY <1>2, <1>4, <1>5, <1>6 DEF Billed
  <2> QED BY <1>2, <1>3, <1>6, <2>1 DEF FeeRowsOK
<1>9. HostelFees!UnpaidIsUnpaid
  BY <1>2, <1>5 DEF HostelFees!UnpaidIsUnpaid
<1>10. \A s \in Session : DOMAIN work[s].todo = {}
  BY <1>1, EmptySequence DEF Untouched
<1>11. \E b : Cover(b)
  <2>1. PICK b : b = [h \in DOMAIN rows.allocations |-> 0]
    OBVIOUS
  <2>2. DOMAIN b = DOMAIN rows.allocations /\ \A h \in DOMAIN b : b[h] = 0
    BY <2>1
  <2>3. Numbers(b)
    <3>1. Len(own) \in Int /\ 1 \in Int /\ DOMAIN own = 1..Len(own)
      BY <1>3, SequenceFacts
    <3>2. IsFiniteSet(DOMAIN b)
      BY <1>2, <1>5, <2>2, <3>1, FS_Interval
    <3> QED BY <2>2, <3>2 DEF Numbers
  <2>4. Numbers(Hosted(rows.payments)) /\ \A p : At(Hosted(rows.payments), p) \in Nat
    BY <1>2, <1>3, HostedNumbers
  <2>5. TotalOf(b) <= TotalOf(Hosted(rows.payments))
    <3>1. \A k : At(b, k) = 0
      BY <2>2 DEF At
    <3>2. \A k : At(b, k) <= At(Hosted(rows.payments), k)
      BY <2>4, <3>1
    <3> QED BY <2>3, <2>4, <3>2, TotalGrows
  <2>6. \A h \in DOMAIN b : rows.allocations[h].paid <= b[h]
    BY <1>2, <1>5, <2>2
  <2> QED BY <1>10, <2>2, <2>3, <2>5, <2>6 DEF Cover, Covered
<1> QED BY <1>7, <1>8, <1>9, <1>10, <1>11 DEF HostelFeesInv

\* What the invariant says of what the hostel shows.
LEMMA HostelFeesSay ==
    HostelFeesInv => HostelFees!HostelPaidBacked /\ HostelFees!UnpaidIsUnpaid
<1> SUFFICES ASSUME HostelFeesInv, ~rows.assignments[1].cancelled
             PROVE  HostelFees!HostelPaid <= HostelFees!ForHostel
  BY DEF HostelFees!HostelPaidBacked, HostelFeesInv
<1> DEFINE paid == [h \in DOMAIN rows.allocations |-> rows.allocations[h].paid]
<1>1. PICK b : Cover(b)
  BY DEF HostelFeesInv, Open
<1>2. /\ Numbers(b) /\ DOMAIN b = DOMAIN rows.allocations
      /\ \A h \in DOMAIN b : rows.allocations[h].paid <= b[h]
      /\ TotalOf(b) <= TotalOf(Hosted(rows.payments))
  BY <1>1 DEF Cover
<1>3. HostelFees!HostelPaid = TotalOf(paid)
  BY TotalIsTotal DEF HostelFees!HostelPaid
<1>4. HostelFees!ForHostel = TotalOf(Hosted(rows.payments))
  <2>1. Hosted(rows.payments)
            = [p \in DOMAIN rows.payments |->
                  IF rows.payments[p].hostel THEN rows.payments[p].amount ELSE 0]
    BY DEF Hosted
  <2> QED BY <2>1, TotalIsTotal DEF HostelFees!ForHostel
<1>5. Numbers(paid) /\ \A k : At(paid, k) <= At(b, k)
  <2>1. DOMAIN paid = DOMAIN b /\ \A h \in DOMAIN paid : paid[h] \in Nat /\ paid[h] <= b[h]
    BY <1>2 DEF HostelFeesInv, FeeRowsOK
  <2> HIDE DEF paid
  <2> QED BY <1>2, <2>1 DEF Numbers, At
<1>6. Numbers(Hosted(rows.payments))
  BY HostedNumbers DEF HostelFeesInv, WellFormed, FeeRowsOK
<1> HIDE DEF paid
<1>7. TotalOf(paid) <= TotalOf(b)
  BY <1>2, <1>5, TotalGrows
<1>8. /\ TotalOf(paid) \in Nat /\ TotalOf(b) \in Nat /\ TotalOf(Hosted(rows.payments)) \in Nat
  BY <1>2, <1>5, <1>6, UnitsCounted
<1> QED BY <1>2, <1>3, <1>4, <1>7, <1>8

(***************************************************************************)
(* What the hostel shows as paid was collected on the student's            *)
(* assignment, unless that was cancelled, and only what nothing was paid   *)
(* of is shown as unpaid, whatever payments overlap or break off.          *)
(***************************************************************************)
THEOREM HostelFeesShownAlways == Spec => []HostelFeesShown
<1> DEFINE OK == desk = "hostel fees" => HostelFeesInv
<1>1. Init => OK
  <2>1. Init /\ desk = "hostel fees" => HostelFees!Init
    BY DEF Init
  <2> QED BY <2>1, HostelFeesStart
<1>2. OK /\ [Next]_vars => OK'
  <2> SUFFICES ASSUME OK, [Next]_vars PROVE OK'
    OBVIOUS
  <2>1. desk' = desk
    BY DEF Next, vars
  <2>2. CASE UNCHANGED vars
    <3>1. rows' = rows /\ work' = work
      BY <2>2 DEF vars
    <3>2. ASSUME HostelFeesInv PROVE HostelFeesInv'
      <4>1. WellFormed' /\ FeeRowsOK' /\ HostelFees!UnpaidIsUnpaid' /\ Billed' = Billed
            /\ (Open' <=> Open)
        BY <3>1, <3>2 DEF HostelFeesInv, WellFormed, FeeRowsOK, HostelFees!UnpaidIsUnpaid,
                          Billed, Open
      <4>2. ASSUME NEW b, Cover(b) PROVE Cover(b)'
        BY <3>1, <4>2 DEF Cover
      <4> QED BY <3>1, <3>2, <4>1, <4>2 DEF HostelFeesInv
    <3> QED BY <2>1, <3>2
  <2>3. CASE Next
    <3>1. desk = "hostel fees" => HostelFees!Next
      BY <2>3 DEF Next
    <3> QED BY <2>1, <3>1, HostelFeesKeep
  <2> QED BY <2>2, <2>3
<1>3. OK => HostelFeesShown
  BY HostelFeesSay DEF HostelFeesShown
<1> QED BY <1>1, <1>2, <1>3, PTL DEF Spec
-----------------------------------------------------------------------------
(***************************************************************************)
(* Loans.  A statement about a loan begins it or ends it: a renewal sends  *)
(* no status, since the loan it has read is ISSUED.                        *)
(***************************************************************************)
LoanStatement(st) ==
    st.table = "loans" =>
        IF st.id = 0
        THEN /\ {"copy", "status"} \subseteq DOMAIN st.columns /\ st.columns.status = "ISSUED"
             /\ DOMAIN st.refers = {}
        ELSE "status" \in DOMAIN st.columns => st.columns.status = "RETURNED"

LendingInv ==
    /\ WellFormed /\ "loans" \in DOMAIN rows
    /\ \A l \in DOMAIN rows.loans :
          /\ {"copy", "status"} \subseteq DOMAIN rows.loans[l]
          /\ rows.loans[l].status \in {"ISSUED", "RETURNED"}
    /\ Library!OneOpenLoan
    /\ \A st \in Outstanding : LoanStatement(st)

\* The library opens with no loans.
LEMMA LendingStart == Library!Init => LendingInv
<1> SUFFICES ASSUME Library!Init PROVE LendingInv
  OBVIOUS
<1>1. PICK k \in {1, 2}, p \in Person :
          Library!Start([books |-> <<[deleted |-> FALSE]>>,
              copies |-> [n \in 1..2 |-> [book |-> 1, number |-> n, status |-> "AVAILABLE",
                                          active |-> TRUE, deleted |-> FALSE]],
              members |-> <<[reader |-> p, status |-> "ACTIVE", limit |-> k, deleted |-> FALSE]>>,
              loans |-> <<>>, reservations |-> <<>>, fines |-> <<>>])
  BY DEF Library!Init
<1>2. work = [s \in Session |-> Untouched]
  BY <1>1 DEF Library!Start, Library!Untouched, Untouched
<1> DEFINE copies == [n \in 1..2 |-> [book |-> 1, number |-> n, status |-> "AVAILABLE",
                                      active |-> TRUE, deleted |-> FALSE]]
<1>3. /\ DOMAIN rows = {"books", "copies", "members", "loans", "reservations", "fines"}
      /\ rows.loans = <<>> /\ rows.reservations = <<>> /\ rows.fines = <<>>
      /\ rows.books = <<[deleted |-> FALSE]>> /\ rows.copies = copies
      /\ rows.members = <<[reader |-> p, status |-> "ACTIVE", limit |-> k, deleted |-> FALSE]>>
  BY <1>1 DEF Library!Start
<1>4. Sequence(copies)
  BY FunctionSequence
<1>5. \A t \in DOMAIN rows : Sequence(rows[t])
  <2>1. \A a : Sequence(<<a>>)
    BY OneElement
  <2> HIDE DEF copies
  <2> QED BY <1>3, <1>4, <2>1, NoElement
<1>6. WellFormed
  BY <1>2, <1>5, StartWellFormed
<1>7. Outstanding = {}
  BY <1>2, EmptySequence DEF Outstanding, Statements, Untouched
<1>8. Library!OneOpenLoan
  BY <1>3, EmptySequence DEF Library!OneOpenLoan, Library!Unique
<1> QED BY <1>3, <1>6, <1>7, <1>8, EmptySequence DEF LendingInv

\* A handler whose statements are of that kind keeps the invariant.
LEMMA LendingRequest ==
    ASSUME LendingInv, NEW s \in Session, NEW q, Library!Request(s, q), Sequence(q),
           \A st \in Range(q) : LoanStatement(st)
    PROVE  LendingInv'
<1>1. rows' = rows /\ work' = [work EXCEPT ![s] = [locks |-> {}, todo |-> <<q>>]]
  BY DEF Library!Request, Library!RequestAll
<1>2. Transactions(<<q>>) /\ Statements(<<q>>) = Range(q)
  BY OneTransaction
<1>3. WellFormed'
  BY <1>1, <1>2, RequestWellFormed DEF LendingInv
<1>4. Outstanding' \subseteq Outstanding \cup Range(q)
  BY <1>1, <1>2, RequestOutstanding DEF LendingInv
<1>5. Library!OneOpenLoan'
  BY <1>1 DEF LendingInv, Library!OneOpenLoan, Library!Unique
<1> QED BY <1>1, <1>3, <1>4, <1>5 DEF LendingInv

\* A request that sends one statement about another table.
LEMMA OtherTable ==
    ASSUME LendingInv, NEW s \in Session
    PROVE  \A st : Library!Request(s, <<st>>) /\ st.table # "loans" => LendingInv'
BY OneElement, LendingRequest DEF LoanStatement

\* The table a statement names.
LEMMA StatementTable ==
    /\ \A t, row : Library!Insert(t, row).table = t
    /\ \A t, i, columns : Library!Update(t, i, columns).table = t
BY DEF Library!Insert, Library!Update

\* Requests about titles and copies.
LEMMA TitlesKeep ==
    ASSUME LendingInv, NEW s \in Session
    PROVE  /\ Library!DeleteBook(s) => LendingInv'
           /\ Library!CreateBookCopy(s) => LendingInv'
           /\ Library!UpdateBookCopy(s) => LendingInv'
           /\ Library!DeleteBookCopy(s) => LendingInv'
<1>1. Library!DeleteBook(s) => LendingInv'
  BY OtherTable, StatementTable DEF Library!DeleteBook
<1>2. Library!CreateBookCopy(s) => LendingInv'
  BY OtherTable, StatementTable DEF Library!CreateBookCopy
<1>3. Library!UpdateBookCopy(s) => LendingInv'
  BY OtherTable, StatementTable DEF Library!UpdateBookCopy
<1>4. Library!DeleteBookCopy(s) => LendingInv'
  BY OtherTable, StatementTable DEF Library!DeleteBookCopy
<1> QED BY <1>1, <1>2, <1>3, <1>4

\* Requests about members.
LEMMA MembersKeep ==
    ASSUME LendingInv, NEW s \in Session
    PROVE  /\ Library!CreateMember(s) => LendingInv'
           /\ Library!UpdateMember(s) => LendingInv'
           /\ Library!DeleteMember(s) => LendingInv'
<1>1. Library!CreateMember(s) => LendingInv'
  BY OtherTable, StatementTable DEF Library!CreateMember
<1>2. Library!UpdateMember(s) => LendingInv'
  BY OtherTable, StatementTable DEF Library!UpdateMember
<1>3. Library!DeleteMember(s) => LendingInv'
  BY OtherTable, StatementTable DEF Library!DeleteMember
<1> QED BY <1>1, <1>2, <1>3

\* Requests about reservations and fines.
LEMMA DeskKeeps ==
    ASSUME LendingInv, NEW s \in Session
    PROVE  /\ Library!CreateReservation(s) => LendingInv'
           /\ Library!CancelReservation(s) => LendingInv'
           /\ Library!CreateFine(s) => LendingInv'
           /\ Library!WaiveFine(s) => LendingInv'
<1>1. Library!CreateReservation(s) => LendingInv'
  BY OtherTable, StatementTable DEF Library!CreateReservation
<1>2. Library!CancelReservation(s) => LendingInv'
  BY OtherTable, StatementTable DEF Library!CancelReservation
<1>3. Library!CreateFine(s) => LendingInv'
  BY OtherTable, StatementTable DEF Library!CreateFine
<1>4. Library!WaiveFine(s) => LendingInv'
  BY OtherTable, StatementTable DEF Library!WaiveFine
<1> QED BY <1>1, <1>2, <1>3, <1>4

\* checkout_book inserts a loan that is ISSUED.
LEMMA CheckoutKeeps ==
    ASSUME LendingInv, NEW s \in Session, Library!CheckoutBook(s)
    PROVE  LendingInv'
<1>1. PICK c, m : Library!Lend(s, c, m)
  BY DEF Library!CheckoutBook
<1> DEFINE loan == Library!Insert("loans", [member |-> m, copy |-> c, status |-> "ISSUED",
                                            renewals |-> 0])
           copy == Library!Update("copies", c, [status |-> "ISSUED"])
           held == Library!Pending(m, rows.copies[c].book)
           more == IF held = {} THEN <<>>
                   ELSE <<Library!Update("reservations", CHOOSE r \in held : TRUE,
                                         [status |-> "FULFILLED"])>>
<1>2. Library!Request(s, <<loan, copy>> \o more)
  BY <1>1 DEF Library!Lend
<1>3. LoanStatement(loan) /\ LoanStatement(copy)
  BY EmptySequence DEF LoanStatement, Library!Insert, Library!Update
<1>4. Sequence(more) /\ \A st \in Range(more) : LoanStatement(st)
  BY OneElement, NoElement DEF LoanStatement, Library!Update
<1> HIDE DEF loan, copy, more
<1>5. /\ Sequence(<<loan, copy>> \o more)
      /\ Range(<<loan, copy>> \o more) = {loan, copy} \cup Range(more)
  BY <1>4, TwoElements, BothElements
<1> QED BY <1>2, <1>3, <1>4, <1>5, LendingRequest

\* return_book sets RETURNED.
LEMMA ReturnKeeps ==
    ASSUME LendingInv, NEW s \in Session, Library!ReturnBook(s)
    PROVE  LendingInv'
<1>1. PICK l \in DOMAIN rows.loans :
          Library!Request(s, <<Library!Update("loans", l, [status |-> "RETURNED"]),
                               Library!Update("copies", rows.loans[l].copy,
                                              [status |-> "AVAILABLE"])>>)
  BY DEF Library!ReturnBook
<1> DEFINE loan == Library!Update("loans", l, [status |-> "RETURNED"])
           copy == Library!Update("copies", rows.loans[l].copy, [status |-> "AVAILABLE"])
<1>2. l # 0
  <2>1. Sequence(rows["loans"])
    BY DEF LendingInv, WellFormed
  <2> QED BY <2>1, SequenceFacts
<1>3. LoanStatement(loan) /\ LoanStatement(copy)
  BY <1>2 DEF LoanStatement, Library!Update, Library!Changed
<1> HIDE DEF loan, copy
<1> QED BY <1>1, <1>3, TwoElements, LendingRequest DEF loan, copy

\* renew_loan has read a loan that is open, so ISSUED, and does not write that.
LEMMA RenewKeeps ==
    ASSUME LendingInv, NEW s \in Session, Library!RenewLoan(s)
    PROVE  LendingInv'
<1>1. PICK l \in DOMAIN rows.loans :
          /\ rows.loans[l].status \in Library!Open
          /\ Library!Request(s, <<Library!Update("loans", l,
                 [status |-> "ISSUED", renewals |-> rows.loans[l].renewals + 1])>>)
  BY DEF Library!RenewLoan
<1> DEFINE loan == Library!Update("loans", l,
                       [status |-> "ISSUED", renewals |-> rows.loans[l].renewals + 1])
<1>2. l # 0
  <2>1. Sequence(rows["loans"])
    BY DEF LendingInv, WellFormed
  <2> QED BY <2>1, SequenceFacts
<1>3. rows.loans[l].status = "ISSUED"
  BY <1>1 DEF LendingInv, Library!Open
<1>4. LoanStatement(loan)
  BY <1>2, <1>3, SMTT(20) DEF LoanStatement, Library!Update, Library!Changed
<1> HIDE DEF loan
<1> QED BY <1>1, <1>4, OneElement, LendingRequest DEF loan

\* A commit at the desk of the library is one of UnitOfWork.
LEMMA LendingSends ==
    ASSUME NEW s \in Session
    PROVE  /\ Library!Commit(s) => Commit(s)
           /\ Library!Abort(s) => Abort(s)
BY Zenon DEF Library!Commit, Commit, Library!Sent, Sent, Library!Held, Held, Library!Updated, Updated,
       Library!Inserted, Inserted, Library!Listed, Listed,
       Library!Cardinality, Cardinality, Library!Abort, Abort, Library!Idle, Idle,
       Library!Untouched, Untouched

(***************************************************************************)
(* A commit opens loans only by adding them, as the index allows, and what *)
(* it does to a loan that is there is at most to end it.                   *)
(***************************************************************************)
LEMMA LendingCommit ==
    ASSUME LendingInv, NEW s \in Session, Commit(s), Library!OneOpenLoan'
    PROVE  LendingInv' /\ Library!ReturnedIsFinal
<1>1. WellFormed'
  BY CommitWellFormed DEF LendingInv
<1>2. Outstanding' \subseteq Outstanding /\ Range(Sent(s)) \subseteq Outstanding
  BY CommitOutstanding DEF LendingInv
<1>3. \A k \in DOMAIN Sent(s) : LoanStatement(Sent(s)[k])
  BY <1>2 DEF LendingInv, Range
<1>4. Sequence(rows["loans"]) /\ Sequence(Sent(s))
  BY SentWellFormed DEF LendingInv, WellFormed, Commit
<1>5. PICK from :
          /\ DOMAIN rows' = DOMAIN rows
          /\ \A l \in DOMAIN rows["loans"] :
                l \in DOMAIN rows'["loans"] /\ rows'["loans"][l] = Updated(s, "loans", l)
          /\ \A l \in DOMAIN rows'["loans"] \ DOMAIN rows["loans"] :
                from[l] \in InsertsInto(s, "loans") /\ rows'["loans"][l] = NewRow(s, from[l])
  BY <1>4, CommitFacts DEF LendingInv
<1>6. ASSUME NEW l \in DOMAIN rows.loans
      PROVE  /\ DOMAIN rows'.loans[l] = DOMAIN rows.loans[l]
             /\ rows'.loans[l].status \in {rows.loans[l].status, "RETURNED"}
  <2>1. rows'["loans"][l] = Updated(s, "loans", l)
    BY <1>5
  <2>2. l # 0
    BY <1>4, SequenceFacts
  <2>3. "status" \in DOMAIN rows.loans[l]
    BY DEF LendingInv
  <2>4. /\ DOMAIN Updated(s, "loans", l) = DOMAIN rows["loans"][l]
        /\ \/ \E k \in DOMAIN Sent(s) :
                 /\ Sent(s)[k].table = "loans" /\ Sent(s)[k].id = l
                 /\ "status" \in DOMAIN Sent(s)[k].columns
                 /\ Updated(s, "loans", l)["status"] = Sent(s)[k].columns["status"]
           \/ Updated(s, "loans", l)["status"] = rows["loans"][l]["status"]
    BY <2>3, UpdatedFacts
  <2> QED BY <1>3, <2>1, <2>2, <2>4 DEF LoanStatement
<1>7. ASSUME NEW l \in DOMAIN rows'.loans \ DOMAIN rows.loans
      PROVE  /\ {"copy", "status"} \subseteq DOMAIN rows'.loans[l]
             /\ rows'.loans[l].status = "ISSUED"
  <2> DEFINE k == from[l]
  <2>1. k \in InsertsInto(s, "loans") /\ rows'["loans"][l] = NewRow(s, k)
    BY <1>5
  <2> HIDE DEF k
  <2>2. /\ {"copy", "status"} \subseteq DOMAIN Sent(s)[k].columns
        /\ Sent(s)[k].columns.status = "ISSUED" /\ DOMAIN Sent(s)[k].refers = {}
    BY <1>3, <2>1 DEF LoanStatement, InsertsInto
  <2> QED BY <2>1, <2>2 DEF NewRow
<1>8. \A l \in DOMAIN rows'.loans :
          /\ {"copy", "status"} \subseteq DOMAIN rows'.loans[l]
          /\ rows'.loans[l].status \in {"ISSUED", "RETURNED"}
  BY <1>6, <1>7 DEF LendingInv
<1>9. Library!ReturnedIsFinal
  BY <1>6 DEF Library!ReturnedIsFinal, Library!Open, LendingInv
<1> QED BY <1>1, <1>2, <1>5, <1>8, <1>9 DEF LendingInv

\* A request that is cut short takes back its statements.
LEMMA LendingAbort ==
    ASSUME LendingInv, NEW s \in Session, Abort(s)
    PROVE  LendingInv'
<1>1. WellFormed' /\ Outstanding' \subseteq Outstanding
  BY AbortWellFormed, AbortOutstanding DEF LendingInv
<1>2. rows' = rows
  BY DEF Abort
<1>3. Library!OneOpenLoan'
  BY <1>2 DEF LendingInv, Library!OneOpenLoan, Library!Unique
<1> QED BY <1>1, <1>2, <1>3 DEF LendingInv

\* No handler changes a row.
LEMMA LendingReads ==
    ASSUME NEW s \in Session
    PROVE  \A q : Library!Request(s, q) => rows' = rows
BY DEF Library!Request, Library!RequestAll

\* Every step of the library keeps the invariant and opens no loan again.
LEMMA LendingKeeps ==
    ASSUME LendingInv, NEW s \in Session,
           \/ Library!DeleteBook(s) \/ Library!CreateBookCopy(s)
           \/ Library!UpdateBookCopy(s) \/ Library!DeleteBookCopy(s)
           \/ Library!CreateMember(s) \/ Library!UpdateMember(s) \/ Library!DeleteMember(s)
           \/ Library!CheckoutBook(s) \/ Library!ReturnBook(s) \/ Library!RenewLoan(s)
           \/ Library!CreateReservation(s) \/ Library!CancelReservation(s)
           \/ Library!CreateFine(s) \/ Library!WaiveFine(s)
           \/ Library!Commit(s) /\ Library!Integrity'
           \/ Library!Abort(s)
    PROVE  LendingInv' /\ (rows' = rows \/ Library!ReturnedIsFinal)
<1>1. CASE Library!Commit(s) /\ Library!Integrity'
  BY <1>1, LendingSends, LendingCommit DEF Library!Integrity
<1>2. CASE Library!Abort(s)
  BY <1>2, LendingSends, LendingAbort DEF Abort
<1>3. /\ Library!DeleteBook(s) => rows' = rows
      /\ Library!CreateBookCopy(s) => rows' = rows
      /\ Library!UpdateBookCopy(s) => rows' = rows
      /\ Library!DeleteBookCopy(s) => rows' = rows
  BY LendingReads DEF Library!DeleteBook, Library!CreateBookCopy, Library!UpdateBookCopy,
                      Library!DeleteBookCopy
<1>4. /\ Library!CreateMember(s) => rows' = rows
      /\ Library!UpdateMember(s) => rows' = rows
      /\ Library!DeleteMember(s) => rows' = rows
  BY LendingReads DEF Library!CreateMember, Library!UpdateMember, Library!DeleteMember
<1>5. /\ Library!CheckoutBook(s) => rows' = rows
      /\ Library!ReturnBook(s) => rows' = rows
      /\ Library!RenewLoan(s) => rows' = rows
  BY LendingReads DEF Library!CheckoutBook, Library!Lend, Library!ReturnBook, Library!RenewLoan
<1>6. /\ Library!CreateReservation(s) => rows' = rows
      /\ Library!CancelReservation(s) => rows' = rows
      /\ Library!CreateFine(s) => rows' = rows
      /\ Library!WaiveFine(s) => rows' = rows
  BY LendingReads DEF Library!CreateReservation, Library!CancelReservation,
                      Library!CreateFine, Library!WaiveFine
<1> QED BY <1>1, <1>2, <1>3, <1>4, <1>5, <1>6, TitlesKeep, MembersKeep, DeskKeeps,
           CheckoutKeeps, ReturnKeeps, RenewKeeps

\* The index of open loans leaves at most one to a copy.
LEMMA OneLoanCounted ==
    ASSUME Library!OneOpenLoan
    PROVE  Library!OneLoanPerCopy
<1> SUFFICES ASSUME NEW c \in DOMAIN rows.copies
             PROVE  Cardinality(Library!LoansOf(c)) <= 1
  BY DEF Library!OneLoanPerCopy, Library!Cardinality, Cardinality
<1>1. \A l, m \in Library!LoansOf(c) : l = m
  BY DEF Library!OneOpenLoan, Library!Unique, Library!LoansOf
<1>2. CASE Library!LoansOf(c) = {}
  BY <1>2, FS_EmptySet
<1>3. CASE Library!LoansOf(c) # {}
  <2>1. PICK l : l \in Library!LoansOf(c)
    BY <1>3
  <2>2. Library!LoansOf(c) = {l}
    BY <1>1, <2>1
  <2> QED BY <2>2, FS_Singleton
<1> QED BY <1>2, <1>3

\* At the desk of the library, the invariant holds.
LendingOK == desk = "library" => LendingInv

(***************************************************************************)
(* Whatever requests overlap, a copy is out on one loan at most and a loan *)
(* that has ended stays ended: return_book and renew_loan both let the     *)
(* index and the columns they send decide, not what they read.             *)
(***************************************************************************)
THEOREM LoansEndOnceAlways == Spec => LoansEndOnce
<1>1. Init => LendingOK
  <2>1. Init /\ desk = "library" => Library!Init
    BY DEF Init
  <2> QED BY <2>1, LendingStart DEF LendingOK
<1>2. ASSUME LendingOK, [Next]_vars
      PROVE  /\ LendingOK'
             /\ desk = "library" => rows' = rows \/ Library!ReturnedIsFinal
  <2>1. desk' = desk
    BY <1>2 DEF Next, vars
  <2>2. CASE desk # "library"
    BY <2>1, <2>2 DEF LendingOK
  <2>3. CASE UNCHANGED vars
    BY <1>2, <2>3 DEF LendingOK, LendingInv, WellFormed, Outstanding, Statements, vars,
                      Library!OneOpenLoan, Library!Unique
  <2>4. CASE desk = "library" /\ Next
    <3>1. Library!Next
      BY <2>4 DEF Next
    <3>2. LendingInv
      BY <1>2, <2>4 DEF LendingOK
    <3>3. LendingInv' /\ (rows' = rows \/ Library!ReturnedIsFinal)
      BY <3>1, <3>2, LendingKeeps DEF Library!Next
    <3> QED BY <3>3 DEF LendingOK
  <2> QED BY <1>2, <2>2, <2>3, <2>4
<1>3. LendingOK /\ LendingOK' /\ [Next]_vars =>
          [desk = "library" => Library!ReturnedIsFinal /\ Library!OneLoanPerCopy']_vars
  <2> SUFFICES ASSUME LendingOK, LendingOK', [Next]_vars, desk = "library"
               PROVE  Library!ReturnedIsFinal /\ Library!OneLoanPerCopy'
    OBVIOUS
  <2>1. desk' = desk
    BY DEF Next, vars
  <2>2. Library!OneOpenLoan'
    BY <2>1 DEF LendingOK, LendingInv
  <2>3. Library!OneLoanPerCopy'
    BY <2>2, OneLoanCounted, PTL
  <2>4. Library!ReturnedIsFinal
    BY <1>2 DEF Library!ReturnedIsFinal
  <2> QED BY <2>3, <2>4
<1> QED BY <1>1, <1>2, <1>3, PTL DEF Spec, LoansEndOnce

=============================================================================
