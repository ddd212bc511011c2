---------------------------- MODULE BackgroundJobs ----------------------------
(***************************************************************************)
(* Work that outlives its request: a row of background_jobs, and a task in *)
(* the memory of the server process that is to run it                      *)
(* (services/async_job_runner.py, repositories/job_repository.py,          *)
(* api/v1/endpoints/jobs.py).  There is one process; when it restarts, its *)
(* tasks and the requests in flight are gone.                              *)
(*                                                                         *)
(* The tasks are the table "tasks" here, a task that was taken is deleted. *)
(* "notices" are the notifications of a dispatch, "batches" the report     *)
(* cards a job has made: the last card stands for the batch.               *)
(***************************************************************************)
EXTENDS UnitOfWork

CONSTANTS
    Key,           \* idempotency keys; 0 is none
    MaxRecipients, \* bound: the recipients of a dispatch
    MaxRetries     \* max_retries of a job

JobStatus == {"QUEUED", "PROCESSING", "COMPLETED", "FAILED", "CANCELLED"}
JobType   == {"BATCH_REPORT_CARD_GEN", "BULK_NOTIFICATION_DISPATCH"}

BackgroundJob == [type : JobType, key : {0} \cup Key, status : JobStatus, total : 0..MaxRecipients,
                  processed : 0..MaxRecipients, retries : 0..(MaxRetries + MaxRequests)]

TypeOK ==
    /\ Table("jobs", BackgroundJob)
    /\ Table("tasks", [job : DOMAIN rows.jobs, deleted : BOOLEAN])
    /\ Table("notices", [job : DOMAIN rows.jobs, recipient : 1..MaxRecipients])
    /\ Table("batches", [job : DOMAIN rows.jobs])

Posted(type, key, total) == [type |-> type, key |-> key, status |-> "QUEUED", total |-> total,
                             processed |-> 0, retries |-> 0]

\* A dispatch has been posted.
Init == \E key \in Key, total \in 1..MaxRecipients :
    Start([jobs |-> <<Posted("BULK_NOTIFICATION_DISPATCH", key, total)>>,
           tasks |-> <<[job |-> 1, deleted |-> FALSE]>>, notices |-> <<>>, batches |-> <<>>])

\* The unique index of the keys.
Integrity == Unique("jobs", LAMBDA r : r.key # 0, LAMBDA r : r.key)

-----------------------------------------------------------------------------
Task(j) == Insert("tasks", [job |-> j, deleted |-> FALSE])

\* create_job gives back the job of the key, if there is one, and it is run again.
Enqueue(s, type, key, total) ==
    LET existing == {j \in DOMAIN rows.jobs : key # 0 /\ rows.jobs[j].key = key}
    IN IF existing # {}
       THEN \E j \in existing : Request(s, <<Task(j)>>)
       ELSE Request(s, <<InsertFor("tasks", [job |-> 0, deleted |-> FALSE], "job", "jobs"),
                         Insert("jobs", Posted(type, key, total))>>)

batch_send_notifications_async(s) == \E key \in {0} \cup Key, total \in 0..MaxRecipients :
    Enqueue(s, "BULK_NOTIFICATION_DISPATCH", key, total)

batch_generate_report_cards_async(s) == Enqueue(s, "BATCH_REPORT_CARD_GEN", 0, 0)

\* Whatever the status is.
retry_job(s) == \E j \in DOMAIN rows.jobs :
    LET r == rows.jobs[j] IN
    /\ r.retries < MaxRetries
    /\ Request(s, <<Update("jobs", j, [status |-> "QUEUED", retries |-> r.retries + 1]), Task(j)>>)

cancel_job(s) == \E j \in DOMAIN rows.jobs :
    Request(s, <<Update("jobs", j, [status |-> "CANCELLED"])>>)

-----------------------------------------------------------------------------
\* The worker has not read the row again: what it assigns is written.
Write(j, columns) == <<[table |-> "jobs", id |-> j, columns |-> columns]>>

mark_completed(j) == Write(j, [status |-> "COMPLETED"])
mark_failed(j)    == Write(j, [status |-> "FAILED"])

\* A notice is committed, then the progress.
Inform(j, r) ==
    <<<<Insert("notices", [job |-> j, recipient |-> r])>>, Write(j, [processed |-> r])>>

\* The transactions of a job: all of them, or those up to an exception.
Courses(j) ==
    IF rows.jobs[j].type = "BATCH_REPORT_CARD_GEN"
    THEN {<<<<Insert("batches", [job |-> j])>>, mark_completed(j)>>, <<mark_failed(j)>>}
    ELSE LET total == rows.jobs[j].total
             Informed(n) == <<Write(j, [processed |-> 0])>>
                            \o [k \in 1..(2 * n) |-> Inform(j, (k + 1) \div 2)[2 - (k % 2)]]
         IN {Append(Informed(total), mark_completed(j))}
            \cup {Append(Informed(n), mark_failed(j)) : n \in 0..(total - 1)}

\* process_job, in a thread and a session of its own: it takes the task, and has read the
\* job by then.
process_job(s) == \E t \in Live("tasks") :
    LET j     == rows.tasks[t].job
        taken == <<Update("tasks", t, [deleted |-> TRUE])>>
    IN /\ Idle(s)
       /\ <<"tasks", t>> \notin Held(s)
       /\ IF rows.jobs[j].status \in {"COMPLETED", "CANCELLED"}
          THEN work' = [work EXCEPT ![s] = [locks |-> {<<"tasks", t>>}, todo |-> <<taken>>]]
          ELSE \E course \in Courses(j) :
               work' = [work EXCEPT ![s] =
                   [locks |-> {<<"tasks", t>>},
                    todo  |-> <<Append(taken, Update("jobs", j, [status |-> "PROCESSING"]))>>
                              \o course]]
       /\ UNCHANGED <<rows, served>>

\* recover_orphaned_jobs: no task comes with QUEUED.
Recovered(r) ==
    IF r.status # "PROCESSING" THEN r
    ELSE [r EXCEPT !.retries = @ + 1,
                   !.status  = IF r.retries < MaxRetries THEN "QUEUED" ELSE "FAILED"]

\* The process ends, and starts again.
Restart ==
    /\ served < MaxRequests /\ served' = served + 1
    /\ \/ \E s \in Session : ~Idle(s)
       \/ Live("tasks") # {}
       \/ \E j \in DOMAIN rows.jobs : rows.jobs[j].status = "PROCESSING"
    /\ work' = [s \in Session |-> Untouched]
    /\ rows' = [rows EXCEPT
          !.tasks = [t \in DOMAIN @ |-> [@[t] EXCEPT !.deleted = TRUE]],
          !.jobs  = [j \in DOMAIN @ |-> Recovered(@[j])]]

\* A request fails, or a worker whose failure cannot be recorded either.
Fail(s) == work[s].locks = {} /\ Abort(s)

Next ==
    \/ \E s \in Session :
          \/ batch_send_notifications_async(s) \/ batch_generate_report_cards_async(s)
          \/ retry_job(s) \/ cancel_job(s)
          \/ process_job(s)
          \/ Commit(s) /\ Integrity'
          \/ Fail(s)
    \/ Restart

Spec == Init /\ [][Next]_<<rows, work, served>>

-----------------------------------------------------------------------------
(***************************************************************************)
(* The progress that is polled is true, however often a job is posted,     *)
(* retried, cancelled, interrupted and run by two workers at once: whoever *)
(* counts as processed has a notice, and a job that is shown as completed  *)
(* did all its work.                                                       *)
(***************************************************************************)
ProgressIsTrue == \A j \in DOMAIN rows.jobs :
    LET r == rows.jobs[j]
        informed == {rows.notices[n].recipient :
                        n \in {m \in DOMAIN rows.notices : rows.notices[m].job = j}}
    IN /\ 1..r.processed \subseteq informed
       /\ r.status = "COMPLETED" =>
             IF r.type = "BULK_NOTIFICATION_DISPATCH" THEN 1..r.total \subseteq informed
             ELSE \E b \in DOMAIN rows.batches : rows.batches[b].job = j
=============================================================================
