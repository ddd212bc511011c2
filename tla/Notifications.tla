----------------------------- MODULE Notifications -----------------------------
(***************************************************************************)
(* Notifications: staged in the transaction of what they tell of, sent     *)
(* after its commit, retried by a clerk, and updated by the reports of the *)
(* messaging service (notification_trigger_service.py,                     *)
(* notification_service.py, api/v1/endpoints/notifications.py).            *)
(*                                                                         *)
(* What has been handed to a channel is the table "delivered": no row of   *)
(* the database says so, and what goes into it is not undone.              *)
(***************************************************************************)
EXTENDS UnitOfWork

CONSTANTS
    MaxRetries, \* max_retries of a new notification
    Mocked      \* the channels without a real provider, see Outcomes

\* An e-mail fares like an SMS.
Channel == {"IN_APP", "SMS", "WHATSAPP"}
NotificationStatus == {"PENDING", "SENT", "DELIVERED", "FAILED", "CANCELLED"}
Event   == {"visitor_checkin", "visitor_checkout", "announcement"}

\* event, about and channel make the idempotency key; an announcement has none and is
\* told apart by the request that made it.
Notification == [event : Event, about : Nat, channel : Channel, status : NotificationStatus,
                 retries : 0..MaxRetries, limit : 0..MaxRetries]
UserCommunicationPreference == [off : SUBSET Channel]
InAppNotificationRead       == [notification : DOMAIN rows.notifications]

Message(n) == [event |-> n.event, about |-> n.about, channel |-> n.channel]

NotificationsOK ==
    /\ Table("notifications", Notification)
    /\ Table("preferences", UserCommunicationPreference) /\ Table("reads", InAppNotificationRead)

\* One row of preferences for the user; a notification is marked as read once.
Singly == /\ Unique("preferences", LAMBDA r : TRUE, LAMBDA r : 1)
          /\ Unique("reads", LAMBDA r : TRUE, LAMBDA r : r.notification)

-----------------------------------------------------------------------------
\* The notifications go to one user.
should_deliver(channel) ==
    \A k \in DOMAIN rows.preferences : channel \notin rows.preferences[k].off

New(event, about, channel, status) ==
    [event |-> event, about |-> about, channel |-> channel, status |-> status,
     retries |-> 0, limit |-> MaxRetries]

Staged(event, about, channel) ==
    New(event, about, channel, IF should_deliver(channel) THEN "PENDING" ELSE "CANCELLED")

\* stage_notification_event of a row that is there: nothing if the key has been used.
Stage(event, about, channels) ==
    InsertEach("notifications", {Staged(event, about, c) : c \in
        {d \in channels : \A k \in DOMAIN rows.notifications :
             Message(rows.notifications[k]) # [event |-> event, about |-> about, channel |-> d]}})

\* What provider.send answers, and whether the channel has the message.  A provider
\* that is switched off has failed; so has a call that timed out, which may have got
\* through.  Mocked are the channels whose provider is the mock, WhatsApp that is
\* enabled with no provider, and e-mail with no SMTP server: they log the message and
\* answer SENT.
Outcomes(channel) ==
    CASE channel = "IN_APP" -> {[status |-> "SENT", arrives |-> TRUE]}
      [] channel \in Mocked \ {"IN_APP"} -> [status : {"SENT", "FAILED"}, arrives : {FALSE}]
      [] OTHER -> {[status |-> "SENT", arrives |-> TRUE]}
                      \cup [status : {"FAILED"}, arrives : BOOLEAN]

\* The transactions of a handler that sends: handing over is not undone with the rest.
Deliver(n, outcome) == IF outcome.arrives THEN <<<<Insert("delivered", Message(n))>>>> ELSE <<>>

SavedFirst(sent, statements) == <<statements>> \o sent    \* mutant: commits, then sends
Sending(sent, statements) == sent \o <<statements>>

-----------------------------------------------------------------------------
\* dispatch_pending_notification, called back after a commit, in a session of its own.
Dispatch(s) == \E k \in DOMAIN rows.notifications :
    LET n == rows.notifications[k] IN
    /\ n.status = "PENDING" /\ n.event # "announcement"
    /\ \E o \in Outcomes(n.channel) :
          RequestAll(s, {}, Sending(Deliver(n, o),
                                    <<Update("notifications", k, [status |-> o.status])>>))

\* create_and_send: the row is not committed before the message is sent.
SendAnnouncement(s) == \E c \in Channel : \E o \in Outcomes(c) :
    LET n == New("announcement", served, c, o.status) IN
    RequestAll(s, {}, Sending(Deliver(n, o), <<Insert("notifications", n)>>))

\* retry_failed_notification; of a setting that cannot work there are no more retries.
Retry(s) == \E k \in DOMAIN rows.notifications, hopeless \in BOOLEAN :
    LET n == rows.notifications[k] IN
    /\ n.status \in {"FAILED", "PENDING"} /\ n.retries < n.limit
    /\ \E o \in Outcomes(n.channel) :
          /\ hopeless => o = [status |-> "FAILED", arrives |-> FALSE]
          /\ RequestAll(s, {}, Sending(Deliver(n, o),
                 <<Update("notifications", k,
                       [status |-> o.status, retries |-> n.retries + 1,
                        limit |-> IF hopeless THEN n.retries + 1 ELSE n.limit])>>))

\* process_whatsapp_webhook, of a message the service has been given.
Webhook(s) == \E k \in DOMAIN rows.notifications, report \in {"sent", "delivered", "failed"} :
    LET n == rows.notifications[k] IN
    /\ n.channel = "WHATSAPP"
    /\ \E d \in DOMAIN rows.delivered : rows.delivered[d] = Message(n)
    /\ \/ report = "delivered" /\ n.status \in {"PENDING", "SENT"}
          /\ Request(s, <<Update("notifications", k, [status |-> "DELIVERED"])>>)
       \/ report = "sent" /\ n.status = "PENDING"
          /\ Request(s, <<Update("notifications", k, [status |-> "SENT"])>>)
       \/ report = "failed"
          /\ Request(s, <<Update("notifications", k, [status |-> "FAILED"])>>)

-----------------------------------------------------------------------------
Unread == DOMAIN rows.notifications \ {rows.reads[r].notification : r \in DOMAIN rows.reads}

MarkAsRead(s) == \E k \in Unread : Request(s, <<Insert("reads", [notification |-> k])>>)

MarkAllAsRead(s) == Request(s, InsertEach("reads", [notification : Unread]))

\* update_user_preferences makes the row first, with everything on.
UpdatePreferences(s) == \E off \in {{}, {"SMS"}, {"IN_APP", "SMS"}} :
    IF rows.preferences = <<>>
    THEN RequestAll(s, {}, <<<<Insert("preferences", [off |-> {}])>>,
                             <<[table |-> "preferences", id |-> 1, columns |-> [off |-> off]]>>>>)
    ELSE Request(s, <<Update("preferences", 1, [off |-> off])>>)

Notify(s) ==
    \/ Dispatch(s) \/ SendAnnouncement(s) \/ Retry(s) \/ Webhook(s)
    \/ MarkAsRead(s) \/ MarkAllAsRead(s) \/ UpdatePreferences(s)

-----------------------------------------------------------------------------
\* Whatever crashes, times out or overlaps, a notification that is shown as sent or
\* delivered through a channel with a real provider has been handed over; of one that
\* has not, the clerk sees so.  Of a mocked channel SENT says nothing.
ShownAsSentArrived == \A k \in DOMAIN rows.notifications :
    /\ rows.notifications[k].status \in {"SENT", "DELIVERED"}
    /\ rows.notifications[k].channel \notin Mocked
    => \E d \in DOMAIN rows.delivered : rows.delivered[d] = Message(rows.notifications[k])
=============================================================================
