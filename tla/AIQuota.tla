-------------------------------- MODULE AIQuota --------------------------------
(***************************************************************************)
(* The monthly token quota of a school and the AI calls that use it        *)
(* (ai/services/ai_usage_service.py, and its callers).  A call looks at    *)
(* the quota under a row lock, which the first commit releases, and is     *)
(* charged afterwards.  What the AI answers is external.                   *)
(***************************************************************************)
EXTENDS UnitOfWork

CONSTANTS
    Quota,      \* the quotas an administrator sets
    MostTokens  \* the tokens a call may come to; one is expected of each

AIUsageLimit == [quota : Quota, used : Nat, enabled : BOOLEAN, due : BOOLEAN]
Draft == [tokens : 0..MostTokens]   \* an answer, a draft of a message or of remarks

TypeOK == Table("limits", AIUsageLimit) /\ Table("drafts", Draft)

\* get_or_create_usage_limit has made the row.
Init == \E q \in Quota :
    Start([limits |-> <<[quota |-> q, used |-> 0, enabled |-> TRUE, due |-> FALSE]>>,
           drafts |-> <<>>])

Allowed == rows.limits[1]
Row   == <<"limits", 1>>

-----------------------------------------------------------------------------
\* record_usage locks the row and reads it anew; "charge" stands for its UPDATE.
Charge(tokens) == [table |-> "charge", id |-> 0, columns |-> [tokens |-> tokens]]

Fits(used, quota) == used + 1 <= quota

\* check_and_reserve_quota, the call, record_usage.  A new month is committed first.
Ask(s) == \E tokens \in 0..MostTokens :
    /\ Allowed.enabled
    /\ Fits(IF Allowed.due THEN 0 ELSE Allowed.used, Allowed.quota)
    /\ RequestAll(s, {Row},
           (IF Allowed.due THEN <<<<Update("limits", 1, [used |-> 0, due |-> FALSE])>>>> ELSE <<>>)
           \o <<<<Insert("drafts", [tokens |-> tokens])>>>>
           \o (IF tokens = 0 THEN <<>> ELSE <<<<Charge(tokens)>>>>))

Charging(s) == work[s].todo # <<>> /\ Sent(s)[1].table = "charge"

RecordUsage(s) ==
    /\ Charging(s)
    /\ Row \notin Held(s)
    /\ rows' = [rows EXCEPT !.limits[1].used = @ + Sent(s)[1].columns.tokens]
    /\ work' = [work EXCEPT ![s] = Untouched]
    /\ UNCHANGED served

\* update_usage_limit takes no lock.
UpdateUsageLimit(s) == \E q \in Quota, on \in BOOLEAN :
    Request(s, <<Update("limits", 1, [quota |-> q, enabled |-> on])>>)

\* The date of the reset is reached.
NewMonth ==
    /\ ~Allowed.due
    /\ rows' = [rows EXCEPT !.limits[1].due = TRUE]
    /\ UNCHANGED <<work, served>>

Next ==
    \/ \E s \in Session :
          \/ Ask(s) \/ UpdateUsageLimit(s)
          \/ ~Charging(s) /\ Commit(s)
          \/ RecordUsage(s)
          \/ Abort(s)
    \/ NewMonth

Spec == Init /\ [][Next]_<<rows, work, served>>

-----------------------------------------------------------------------------
(***************************************************************************)
(* When requests do not overlap: a call that is charged takes the school   *)
(* beyond its quota by no more than the tokens nobody expected of it.      *)
(***************************************************************************)
QuotaKept == Allowed'.used > Allowed.used => Allowed'.used < Allowed.quota + MostTokens
=============================================================================
