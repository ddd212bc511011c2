------------------------------- MODULE Reception -------------------------------
(***************************************************************************)
(* The front desk: visitors, their gate passes and the alerts to the       *)
(* person they visit (visitor_service.py), and inquiries                   *)
(* (reception_inquiry_service.py).  The alerts go through Notifications,   *)
(* which sends them once the visitor's row is committed.                   *)
(***************************************************************************)
EXTENDS Notifications

CONSTANTS
    Person,     \* a visitor's name and phone
    Number      \* the numbers of the day's gate passes

\* CANCELLED and EXPIRED are set by no handler.
VisitorStatus == {"EXPECTED", "CHECKED_IN", "CHECKED_OUT"}
ReceptionInquiryStatus == {"PENDING", "IN_PROGRESS", "RESOLVED", "CANCELLED"}

Visitor == [person : Person, host : BOOLEAN, status : VisitorStatus, pass : Number]
ReceptionInquiry == [visitor : {0} \cup DOMAIN rows.visitors, status : ReceptionInquiryStatus]

TypeOK ==
    /\ Table("visitors", Visitor) /\ Table("inquiries", ReceptionInquiry)
    /\ NotificationsOK

Init == Start([visitors |-> <<>>, inquiries |-> <<>>, notifications |-> <<>>,
               delivered |-> <<>>, preferences |-> <<>>, reads |-> <<>>])

-----------------------------------------------------------------------------
Taken(n) == \E v \in DOMAIN rows.visitors : rows.visitors[v].pass = n

\* uq_visitor_school_pass_number.
Integrity == Singly /\ Unique("visitors", LAMBDA r : TRUE, LAMBDA r : r.pass)

\* The day's next number, or one at random if that is taken.
generate_pass_number ==
    LET next == Len(rows.visitors) + 1 IN
    IF next \in Number /\ ~Taken(next) THEN {next} ELSE Number

\* IN_APP, and SMS if the host has a phone.
Alerts == {{"IN_APP"}, {"IN_APP", "SMS"}}

\* check_in_visitor: the number may be given.
CheckIn(s) == \E p \in Person, host \in BOOLEAN, n \in Number : \E channels \in Alerts :
    /\ \A v \in DOMAIN rows.visitors :
          ~(rows.visitors[v].person = p /\ rows.visitors[v].status = "CHECKED_IN")
    /\ Request(s,
           <<Insert("visitors", [person |-> p, host |-> host, status |-> "CHECKED_IN", pass |-> n])>>
           \o (IF host
               THEN InsertEachFor("notifications",
                        {Staged("visitor_checkin", 0, c) : c \in channels}, "about", "visitors")
               ELSE <<>>))

PreRegister(s) == \E p \in Person, host \in BOOLEAN, n \in generate_pass_number :
    /\ \A v \in DOMAIN rows.visitors :
          ~(rows.visitors[v].person = p /\ rows.visitors[v].status = "EXPECTED")
    /\ Request(s,
           <<Insert("visitors", [person |-> p, host |-> host, status |-> "EXPECTED", pass |-> n])>>)

\* The number turned out to be taken: once more, with one at random.  With an alert
\* to stage the conflict shows before the commit, and the request fails instead.
CommitRenumbered(s) ==
    /\ work[s].todo # <<>> /\ Sent(s)[1].table = "visitors" /\ Sent(s)[1].id = 0
    /\ LET row == Sent(s)[1].columns IN
       /\ row.status = "EXPECTED" \/ ~row.host
       /\ Taken(row.pass)
       /\ \E n \in Number : ~Taken(n)
             /\ rows' = [rows EXCEPT !.visitors = Append(@, [row EXCEPT !.pass = n])]
    /\ work' = [work EXCEPT ![s] = Untouched]
    /\ UNCHANGED served

NotHere(st) == st # "CHECKED_IN"    \* mutant: one who has left comes in again
Awaited(st) == st = "EXPECTED"

QuickCheckIn(s) == \E v \in DOMAIN rows.visitors : \E channels \in Alerts :
    LET r == rows.visitors[v] IN
    /\ Awaited(r.status)
    /\ Request(s, <<Update("visitors", v, [status |-> "CHECKED_IN"])>>
                  \o (IF r.host THEN Stage("visitor_checkin", v, channels) ELSE <<>>))

CheckOut(s) == \E v \in DOMAIN rows.visitors :
    LET r == rows.visitors[v] IN
    /\ r.status # "CHECKED_OUT"
    /\ Request(s, <<Update("visitors", v, [status |-> "CHECKED_OUT"])>>
                  \o (IF r.host THEN Stage("visitor_checkout", v, {"IN_APP"}) ELSE <<>>))

-----------------------------------------------------------------------------
CreateInquiry(s) ==
    \E v \in {0} \cup DOMAIN rows.visitors, st \in {"PENDING", "IN_PROGRESS"} :
        Request(s, <<Insert("inquiries", [visitor |-> v, status |-> st])>>)

\* update_inquiry: what is given is written.
UpdateInquiry(s) == \E i \in DOMAIN rows.inquiries, v \in {0} \cup DOMAIN rows.visitors,
                       st \in ReceptionInquiryStatus :
    LET old == rows.inquiries[i] IN
    /\ st # old.status => /\ old.status \notin {"RESOLVED", "CANCELLED"}
                          /\ st # "PENDING"
    /\ v # 0 \/ v = old.visitor
    /\ Request(s, <<Update("inquiries", i, [visitor |-> v, status |-> st])>>)

Next == \E s \in Session :
    \/ CheckIn(s) \/ PreRegister(s) \/ QuickCheckIn(s) \/ CheckOut(s)
    \/ CreateInquiry(s) \/ UpdateInquiry(s)
    \/ Notify(s)
    \/ Commit(s) /\ Integrity'
    \/ CommitRenumbered(s)
    \/ Abort(s)

Spec == Init /\ [][Next]_<<rows, work, served>>

-----------------------------------------------------------------------------
\* When requests do not overlap: the host hears of a departure only after the visitor
\* left, of an arrival only if there was one, and of each at most once.
AlertsTellTruth == \A k \in DOMAIN rows.notifications :
    LET n == rows.notifications[k] IN n.event # "announcement" =>
        /\ n.about \in DOMAIN rows.visitors
        /\ n.event = "visitor_checkin" => rows.visitors[n.about].status # "EXPECTED"
        /\ n.event = "visitor_checkout" => rows.visitors[n.about].status = "CHECKED_OUT"
        /\ \A j \in DOMAIN rows.notifications \ {k} : Message(rows.notifications[j]) # Message(n)
=============================================================================
