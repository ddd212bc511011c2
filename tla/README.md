# Verification of the school operating system's backend

TLA+ models, TLC runs and TLAPS proofs for the backend under
`src/backend/app`: a FastAPI application over PostgreSQL, reached through
SQLAlchemy, that runs a school: students, fees, online payments, library,
hostel, inventory, leave, examinations and so on.

The application keeps almost no state in memory between requests (background
tasks are the exception). Every handler is one Python call in a thread of the
request pool, with a database session of its own
(`dependencies/database.py`), a default transaction isolation of READ
COMMITTED, `autoflush=False`, and one commit, or a few, at the end. What can go
wrong is therefore nearly always the same: a handler reads rows, decides, and
commits what it decided, while another handler commits in between; or it
commits in parts and fails between two of them. Some handlers lock what they
read (`SELECT ... FOR UPDATE`), most do not; unique indexes catch some of the
rest. The models make exactly these points visible: what is read and when,
which lock is held and until which commit, what a commit overwrites, what an
index refuses, and where a process may die.

## 1. Inventory

| Component | State | Operations | Hard behaviour | What makes it correct |
|---|---|---|---|---|
| Fee ledger (`fee_service.py`) | assignment, items, discounts, payments | add item, add/remove discount, cancel, delete, record payment | unlocked reads before every operation but `record_payment`; status written from stale rows | nothing is collected beyond what is due; a cancelled or deleted assignment has no payment; the status follows the rows |
| Online payments (`payment_order_service.py`, `payment_verification_service.py`, `payment_settlement_service.py`) | orders, transactions; ledger rows | open order, verify callback, webhook, settle | duplicated and reordered events, callback racing webhook, two commits in one call, death between them | a payment is credited once, backed by the gateway, and in the end; PAID is final; one active order |
| Stock keeping (`inventory_service.py`) | stock rows, movements | receive, issue, return, adjust, transfer, delete location/item | row locks taken one by one, rows that do not exist yet, repeated requests | quantities are what the movements say; a reference is recorded once; no deadlock |
| Asset custody (`inventory_service.py`) | asset, assignments | create, assign, return, transfer, update, retire, delete | one operation locks, the others do not | one custodian; status and deletion agree with the assignment |
| Library circulation (`library_service.py`) | copies, members, loans, reservations, fines | check-out, return, renew, reserve, fine, delete | limit, reservations and outstanding loans are checked without locks | one loan per copy; a loan ends once; limit kept; nothing on loan is deleted |
| Transport (`transport_service.py`) | vehicles, drivers, routes, stops, allocations | create/update/delete each, allocate, change status | capacity is of the vehicle, summed over its routes, counted without lock | seats suffice; one seat per student; no route without vehicle or driver |
| Hostel (`hostel_service.py`, `hostel_outpass_service.py`, `hostel_attendance_service.py`) | buildings, rooms, beds, allocations, outpasses, attendance | create, allocate, release, approve, check out, return, mark | no locks and no unique index on allocations | one student per bed, room within capacity, one mark a night |
| Hostel fees (`hostel_fee_service.py`) | hostel fee allocations; the fee assignment | charge, pay | one payment is committed to two ledgers in two transactions | the hostel shows nothing that was not collected |
| Staff leave and attendance (`staff_leave_service.py`, `teacher_attendance_service.py`) | types, balances, requests, attendance | request, approve, reject, cancel, mark, check in/out | status and balance updated from unlocked reads | balances add up to the requests in force; within the allowance; no day twice |
| Timetable (`timetable_*_service.py`, `teacher_substitution_service.py`, `ai_timetable_service.py`) | timetables, entries, substitutions, solver drafts | edit, publish, archive, substitute, generate, approve | conflict checks before an unlocked insert; drafts replace what is published | no teacher in two places at once |
| Admissions (`admissions_service.py`) | cycles, applicants, applications, history | create, submit, review, decide, withdraw | some handlers lock the application, some do not | the history leads to the status; one application in force; a decision stands |
| Identity (`identity/services/authentication_service.py`, `user_service.py`) | users, refresh tokens, reset tokens, bootstrap state | log in, refresh, log out, reset, create users | rotation locks the row, log-out does not; reset revokes what it has read | a token is rotated once; no session outlives its password |
| Roles, permissions and endpoints (`identity/`, `api/`) | roles, permissions, school status | what each endpoint asks, what each role grants, assign and remove | hundreds of checks written one by one | families change only what is theirs; duties stay apart; a suspended school rests |
| Notifications and reception (`notification_*_service.py`, `visitor_service.py`, `reception_inquiry_service.py`) | notifications, visitors, gate passes, inquiries | stage, dispatch after commit, retry, webhook reports, check in/out | message sent before its status is committed; a listener that outlives its transaction | shown as sent, through a real provider, means handed over; an alert tells of what happened, once |
| Academic progression (`services/student/`, `academic_year_service.py`) | years, rules, students, histories, executions | roll over, promote, retain, transfer, years and rules | a handler is a series of commits; its locks end with the first | all who should are moved, no one who has left; every move has a history |
| Examinations, grading, report cards (`exam_service.py`, `report_card*_service.py`, ...) | exams, schedules, results, scales, methods, cards | enter marks, calculate, generate, finalize, publish | rounding, missing papers, weights; marks change under a card | full marks are the whole percentage; a result never hurts; a final card stays |
| Homework (`homework_service.py`) | homework, submissions, notices | draft, publish, submit, grade, close, delete | grade written over a newer submission; notices that fail in silence; keys that no index keeps apart | no one is told twice; a grade fits its content |
| Attendance (`attendance_service.py`, `attendance_aggregation_service.py`) | records, notices | roll call, correct, delete | the notice of an absence is committed after the absence; a student changes section in the middle of a day | absences are told |
| Background jobs (`async_job_runner.py`, `job_repository.py`) | job rows; tasks in memory | post, run, retry, cancel, restart, recover | tasks die with the process; two workers on one job | progress shown is true |
| Cash sessions (`cash_session_service.py`) | drawer sessions | open, close | check then insert | one open drawer per clerk; a closing stands |
| AI quota (`ai/services/ai_usage_service.py`) | usage row | ask, charge | the row lock ends at the first commit of the call; the charge comes later | use stays near the quota |
| Inventory, library and transport catalogues; events, documents, certificates; students, parents, teachers, classes; schools | rows of their own | create, read, update, delete | unique codes | local to one handler |
| Import, reports, dashboards, payment configuration, frontend, migrations, gateway adapters | – | – | – | not part of the model (section 6) |

How they interact: online settlement calls `fee_service.record_payment` in its
own session, under locks on transaction, order and assignment; hostel fees call
the same operation; attendance, homework, visitor and job handlers stage
notifications that are dispatched after their commit; promotion writes
students, histories and executions of several tables; report cards read marks,
scales and methods that other handlers change. Everything else meets only in
the database, and the components that meet there are one module each.

## 2. Modules

### The payment core and the inventory, each lock and read a step

| Module | Models | State and actions |
|---|---|---|
| `Sums` | the money and quantity arithmetic of the services | `Total(rows)` sums the `amount` of a set of rows, as `sum(...)` in `calculate_metrics`; defined by counting units, so that it can be proved about without recursion |
| `AbstractLedger` | what a fee ledger promises | three sums; an indivisible `Collect` within what is payable |
| `FeeLedger` | one student fee assignment | one `Load` (the unlocked read) and one commit action per operation of `FeeService`; `PayLock`/`PayCommit` for `record_payment` |
| `OnlinePayments` | orders, transactions, callbacks, webhooks and settlement, on top of `FeeLedger` | each call is split at its commits and locks: `OrderLoad/OrderCommit`, `VerifyLoad/VerifyCommit/VerifyReject`, `WebhookLoad/WebhookApply`, `SettleLock/SettleKnown/SettleReject/SettleCommit/SettleCancelled`, `Crash`; `Attempt`, `Capture` are the gateway; `told` and the calls' `asked` are the orders that `verify_payment` answered, or will answer, with success: of a PAID order it checks neither signature nor which payment the client names |
| `AbstractStock` | what a stock ledger promises | goods come in, go out or move in one step, and never below zero |
| `StockKeeping` | the stock rows and movements of one item | `Begin`/`Repeat` (unlocked look-ups), `Lock`, `Refuse`, `LockDestination`, `Commit`, `Fail`, `Victim` (deadlock), `Crash`, `DeleteLoad`, `DeleteCommit` |
| `AbstractCustody` | what custody promises | at most one custodian; an ended assignment never returns |
| `AssetCustody` | one physical asset and its assignments | `AssignLoad` (locks) and `AssignCommit`; `CloseLoad` with `ReturnCommit` or `TransferCommit`; load and commit of update, retire, delete |

Composition: `OnlinePayments` EXTENDS `FeeLedger`: a session of the fees API
takes a `StaffStep` of the ledger, a settlement takes the ledger's `PayLock`
and `PayCommit`. `StockKeeping` EXTENDS `Sums`. The three abstract
specifications are instantiated in the detailed ones and checked as properties
(`ImplementsLedger`, `ImplementsStock`, `ImplementsCustody`).

### The desks of the school, on one model of a request

`UnitOfWork` is how every other handler changes the database. `rows` holds the
tables, each the sequence of the rows ever inserted (a row that the code
deletes stays, marked). A handler is one action that reads and checks, under
the locks it takes, and leaves in `work[s]` the transactions it is going to
commit: `Request` (no lock, one transaction), `RequestLocked`, `RequestAll`
(several transactions). `Commit` lets the first of them take effect and
releases the locks; `Abort` is an exception or the death of the process between
two commits. An UPDATE names only the columns whose value the handler changed
(`Changed`), as SQLAlchemy's does, and overwrites what is committed by then;
`Commit` waits for rows that another request has locked (`Held`). A component
adds its tables, its handlers and, as a conjunct of its commit, the constraints
of its tables (`Integrity'`).

| Module | Tables | Handlers |
|---|---|---|
| `LibraryCirculation` | books, copies, members, loans, reservations, fines | 14 handlers of `LibraryService` |
| `Transport` | vehicles, drivers, routes, stops, allocations | all 16 handlers of `TransportService` |
| `Hostel` | buildings, rooms, beds, allocations, outpasses, attendance | 11 handlers of the three hostel services |
| `HostelFees` | hostel charges, the student's fee assignment, its payments | charge, pay (two transactions: after the first, `Reread` reads the expired row again, and a status that it already shows is not sent), and the fee ledger's own changes |
| `StaffLeave` | types, balances, requests, attendance | requests and approvals, attendance by hand and by the clock |
| `Timetabling` | timetables, entries, substitutions, drafts | editor, publication, substitution, solver drafts |
| `Admissions` | cycles, applicants, applications, history | the way of an application; locked and unlocked handlers |
| `Endpoints`, `SeededRoles` | – | what every endpoint asks for, what the seeders grant: data as operators |
| `AccessControl` | one user with any number of seeded and own roles, their permissions, the school's status | administer, perform; on `Endpoints` and `SeededRoles` |
| `Identity` | users, administrators, sessions, reset tokens, bootstrap state | accounts, bootstrap, login, rotation, logout, reset; `Lapse` is time |
| `Notifications` | notifications, what was handed over | staged, sent after the commit, retried, reported on; a channel of `Mocked` has no real provider and answers as if it had |
| `Reception` | visitors, passes, inquiries; EXTENDS `Notifications` | check-in, pre-registration, check-out, inquiries |
| `Progression` | years, rules, students, histories, executions | rollover, promotion, retention, transfer, years, rules |
| `Grading` | – | pure: percentages, weights, rounding, grades; quotients of 28 digits may come out on either `Side` of the exact value |
| `Examinations` | exams, schedules, results, scales, methods, cards; EXTENDS `Grading` | 16 handlers from exam to published card |
| `Homework` | homework, submissions, notices | draft to grade; publication tells the students it can: some have no contact, and what fails on the way is swallowed |
| `Attendance` | records, notices | roll call, correction, deletion; students move to other sections and years |
| `BackgroundJobs` | jobs, tasks in memory, notices, batches | post, run, retry, cancel; `Restart` of the process with recovery |
| `CashDrawer` | drawers, payments | open, close, receive |
| `AIQuota` | the quota, drafts | ask, charge, administer; a new month |
| `MCCampus` | all of them | instantiates each as a desk; the properties of the runs |

### What instantiates and what proves

`MCFeeLedger`, `MCOnlinePayments`, `MCFreshOrders`, `MCStockKeeping` and
`MCAssetCustody` give their components the small instances, the bounds and the
histories the runs need, as `MCCampus` does for the desks. `Staleness` is the
history of outdated reads that four of them keep beside their component
(section 3). `SumsProofs`, `PaymentsProofs` (the fee ledger and the online
payments), `StockKeepingProofs`, `AssetCustodyProofs`, `UnitOfWorkProofs`,
`IdentityProofs`, `CampusProofs` and `CampusShownProofs` (the desks) hold the
theorems (section 5).

Conventions that follow the code:

* In the core modules a session's unlocked read is an action of its own and its
  result is kept in `view`, `job` or `seen`; at the desks the reads of a handler
  are one step, and what it has read is in the statements it leaves to be
  committed. Either way what the handler computes later uses that copy, as the
  ORM's identity map does. Where a handler reads again after a commit, it is a
  handler of two actions (`RecordUsage`, `RecordFailedExecution`, `Reread`).
* The ORM writes a column only if its value differs from the one it loaded
  (`WriteStatus`, `Changed`); the write overwrites what is committed by then.
* A row lock is a holder variable, or an element of `work[s].locks`. A lock is
  released at commit, at rollback and when the session dies: in a handler that
  commits several times, with the first. An UPDATE of a locked row waits.
* A row that is soft-deleted is gone: the code's queries all skip it.
* An insert that a unique index refuses makes the call fail (or, in
  `process_webhook` and for a gate pass, roll back and try again).
* Operators marked *mutant* are not part of the system: each is a plausible bug
  of the definition it stands before, and shows that the property it is listed
  with in `PROJECT.json` can fail.

## 3. Runs

No run checks for deadlock of the state graph: histories end because the
identifiers or the requests of the instance are used up, where the real system
waits for somebody to make another request. Deadlock of row locks is a property
(`NoDeadlock`).

### Passing

| Run | Instance | Shows |
|---|---|---|
| `ledger_concurrent` | 2 sessions, 2 items, 2 discounts, 2 payments, amounts up to 2 | `ImplementsLedger`: whatever overlaps, no student is charged beyond what is due at the moment of collection. `FreshLedgerKept`: until a request acts on outdated rows, cancelled and deleted assignments have no payment, discounts stay within the gross amount, one per type, and the status of an assignment that is not deleted is current |
| `online_concurrent` | clerk, client, webhook process; 1 order, 2 payment attempts; authorised, captured and failed events; an item added or the assignment cancelled meanwhile, so that a settlement may be refused either way; any session may die | a payment is credited once (`SettledOnce`), with a successful transaction and a payment at the gateway behind it (`CreditBacked`); an order that `verify_payment` reports as verified has a payment that the gateway took and a transaction that records it, whichever payment the client names (`VerifiedIsTaken`); counter and online payments together still implement `AbstractLedger` |
| `online_fresh` | a session that is clerk and client, a webhook process that may die; 2 orders, 2 payment attempts; captured and failed events | `FreshOrdersKept`: until a call acts on outdated orders, one order is active and a PAID order stays PAID |
| `online_live` | a client that may die, a webhook process that does not, no authorisation apart from a capture | every captured payment is credited (`CapturedIsCredited`) |
| `stock_concurrent` | 2 sessions, 2 locations, every kind of request, 4 movements (the least for two transfers to wait for each other), column up to 2 | `StockIsMovements`, `AnsweredIsRecorded` (a request answered with success is among the movements, itself or under its kind and reference), `ImplementsStock`, `RequestsEnd` (those caught in a deadlock included); `FreshStockKept`: until a request acts on outdated rows, a reference is recorded once and only what is empty is deleted |
| `custody_concurrent` | 3 sessions, 3 assignments | `ImplementsCustody`: never two custodians, closed assignments never active again; `FreshCustodyKept`: until a request acts on outdated rows, status, deletion and custody agree and a closed assignment keeps how it ended |
| `campus_serial` | one session, so that requests follow one another but may fail between two commits; 2 persons, limits of 1 and 2, 2 to 4 requests | at every desk, what the handlers' checks promise: `LendingKept`, `TransportKept`, `LimitsKept` (hostel beds and rooms, the cash drawer, the AI quota), `LeaveKept`, `NoTeacherTwice`, `ResetEndsSessions`, `AlertsTellTruth`, `RolloverKept`, `CalculationFair`, `FinalIsFinal`, `HomeworkKept`, `RolesFit` |
| `campus_concurrent` | two sessions; 1 person, limits of 1, 2 to 4 requests | what holds however requests overlap: `LoansEndOnce`, `HostelFeesShown`, `AdmissionsOnRecord`, `TokensSpentOnce`, `ShownIsDone` (notifications and jobs), `MovedIsRecorded`. `HostelFeesShown`: what the hostel shows as paid is covered by payments, and UNPAID is what nothing was paid of |

*Outdated rows.* Most handlers check rows they do not lock. What such a check
is meant to keep does not hold in every interleaving, but it is still worth
knowing whether the check is right. The MC modules of the core therefore carry
a history (`Staleness`): a request is `outdated` when another request has
committed a change of what it reads since it began (of the ledger, the stock,
the asset; in `MCFreshOrders`, of the orders), and the history is `stale` once
an outdated request has committed. The
properties named `Fresh...` say that the check keeps its invariant until then. A
version column, or a lock taken at the first read, would make every history
fresh. At the desks the same question is asked by `campus_serial`, in which no
two requests overlap.

*One run, many desks.* A behaviour of `MCCampus` is that of one desk, chosen at
the start, since no handler of one desk reads the tables of another. A property
of a desk is an implication from `desk = ...`, and several desks share a
property where they promise the same thing. The desks of `AccessControl` and
`Examinations` take one session: the first is a check against data that two
requests do not race for, the second has more tables than two sessions allow in
the time.

The bounds are small because the interesting cases are: two requests suffice
for every lost update, stale check and deadlock; a third session for a request
that overlaps two others; an amount of 2 can be paid in halves or overdrawn by
two discounts; two attempts at one order are the least for a payment that fails
after another succeeded; two orders are the least for superseding one. At the
desks `MaxRequests` is the length of a history: 4 at the desks whose tables are
few, 3 (`Fewer`) at most others, and 2 where the initial states already hold
what took many requests to make (`Progression`, `Examinations`, `Access`);
`BackgroundJobs` starts with a dispatch posted and gets as many requests as
there are sessions. Initial states hold rows where a history would otherwise be
spent on entering them, and only such as the handlers produce. Every property
has a mutant in `PROJECT.json` that these bounds are large enough to catch.

Symmetry is used for interchangeable identifiers, in runs without liveness only;
in `stock_concurrent`, which checks liveness, `MCStockKeeping!InOrder` takes the
least of the free movement identifiers instead.

### Violated (what the code does against what it says)

Each checks one property that a comment or document of the repository states
and that the code breaks; `PROJECT.json` quotes the line.

| Run | Property | How |
|---|---|---|
| `paid_order_fails` | `PaidNeverFails` | a `payment.failed` handler read the order before it was paid |
| `transfers_deadlock` | `NoDeadlock` | opposite transfers lock source before destination |
| `absences_untold` | `AbsencesTold` | the absence is committed first, the notice is added to a transaction that nobody commits |
| `rollover_partial` | `RolloverAllOrNothing` | the repositories commit every student; a failure undoes only the last |

### Properties that need their proviso

The properties of the passing runs that have a proviso break without it:
`Fresh...` without `stale`, those of `campus_serial` with more than one session.
TLC finds each of the following as well; they have no run of their own.

| Property | How it breaks |
|---|---|
| `CancelledUnpaid`, `DeletedUnpaid` | a payment commits between the look at the payments and the commit |
| `DiscountsWithinGross`, `OneDiscountPerType` | two discounts are each checked without the other |
| `StatusCurrent` (of an assignment that is not deleted) | a status computed from rows read earlier is written last, over CANCELLED too |
| `FreshOrdersKept`, that PAID is final | an order is paid while its successor is being created, or as in `paid_order_fails` |
| `FreshOrdersKept`, one active order | two clients find no active order at the same time |
| `CapturedIsCredited` | the webhook process dies between PAID and settlement, and the redelivery looks like a duplicate; or a transaction created PENDING by `payment.authorized` is never raised to SUCCESS |
| `RecordedOnce` | the reference is looked up before the lock, twice |
| `DeletedIsEmpty` | goods arrive between the look and the deletion |
| `CustodyShown`, `DeletedUnassigned` | `update_asset` overwrites ASSIGNED; the asset is assigned between the look and the deletion |
| the last part of `FreshCustodyKept` | a return and a transfer of one assignment overlap, and both record how it ended |
| `LendingKept` | two check-outs of one member each count the loans without the other; a copy is lent while it is deleted |
| `TransportKept` | the last seat is given twice; a vehicle is deleted while a route is given to it |
| `LimitsKept` | one bed for two students; two drawers opened by one clerk, one closed twice; AI calls that each found room in the quota |
| `LeaveKept` | a request approved twice moves the balance twice, or the second overwrites the first |
| `NoTeacherTwice` | two entries, or two substitutions, are each checked without the other |
| `ResetEndsSessions` | a refresh or a login that read the old password commits after the reset revoked what it saw |
| `AlertsTellTruth` | two check-outs of one visitor each find the visitor inside, and each tell the host |
| `HomeworkKept` | two requests publish one homework, and the index on the notices' keys is not unique; a submission is replaced while its predecessor is graded |
| `RolloverKept` | two rollovers, or a rollover and a transfer, overlap: the locks end with the first commit |

`FinalIsFinal` needs no overlap to be interesting (marks change under a card)
and was not run with one.

### Noticed while reading

What the models follow and a reader of the code may not expect. None of these
has a run of its own. Those on hostel fees, payments, inventory and attendance
are histories that TLC finds when the plainer claim is checked (PAID means paid
in full, verified means credited, answered means this delivery, once a day means
once); the others show in a single step.

* Fees: an assignment of a structure without items is stored PENDING, where the
  metrics call a net amount of nothing PAID; deleting an assignment leaves its
  status as it was.
* Hostel fees: an UPDATE names the status only if it differs from the row as it
  was read after the first commit. Where another payment has set PAID meanwhile,
  a payment overwrites the paid amount and leaves PAID beside it, with less paid
  than is due; or PARTIAL stays beside the whole amount.
* Payments: where `payment.authorized` left a transaction PENDING, its settlement
  fails with the order PAID, and asked again `verify_payment` answers that the
  payment has been processed. `VerifiedIsTaken` says no more than that it was
  taken and is recorded.
* Inventory: the look-up of a reference number ignores item and location, so that
  the second delivery of one invoice, to another location, is answered with
  success and not recorded; `AnsweredIsRecorded` says what the look-up does keep.
* Attendance: the look-up and the index are of a section and a year, so that a
  student who is moved in the middle of a day may be called twice.
* Grades: with `ROUND_FLOOR` full marks come to 99.99 % when only some weighted
  types were examined; a percentage between two bands gets the lowest grade;
  an update of a grade scale that names entries always fails, since
  `validate_entries` reads attributes of what are dicts by then; lowering a
  paper's maximum below marks already given is accepted; retest policies have
  nothing to choose from, since an index leaves one result per paper.
* Report cards: a batch is refused as a whole if one card is final, though its
  response has a count for those skipped; an evaluation configuration whose
  creation failed half way blocks its name.
* Identity: creating the first user commits when its role is assigned, before
  the platform is marked as set up. Warden, Chairman and ATP roles are seeded
  without permissions; `reception.*`, `visitors.*` and `system.settings` are
  asked for and never seeded.
* Notifications: a late "failed" report overwrites DELIVERED; the unread count
  includes what the inbox does not list; `quick_check_in` does not look for a
  visit that is still open.
* Progression: a promotion that fails after the new history is written leaves a
  student who cannot be promoted again; two requests may create a current year
  each.
* Timetable: the editor does not look at substitutions, so that a teacher may be
  given a lesson in the slot of a substitution; `NoTeacherTwice` speaks of
  lessons and of substitutions, each among themselves.
* Roles: nothing keeps a user from several seeded roles at once, an accountant's
  and a teacher's for example; `RolesFit` says which of them a user must hold to
  change the money or the marks, not that nobody holds both.
* Jobs: retry and cancel do not look at the status; a cancelled job is later
  COMPLETED by its worker; a retried job, or one posted again under its key,
  tells its recipients again from the first on; a job recovered to QUEUED has no
  task and waits for a retry by hand.
* Cash drawer: what is expected is of the whole school, not of the clerk; a
  payment dated to a closed day changes the expected total that is shown, not
  the variance that was stored.
* AI: the lock on the quota's row is held while the provider answers, in the
  calls that do not commit before; and given up before the charge in those that
  do.
* Documents: replacing a version that is archived already makes a second current
  one. Events: `publish_event` calls `notification_service.queue_notification`,
  which does not exist, inside `except Exception: pass`: no event is announced.

## 4. Fairness

`OnlinePayments!Fairness`: a call under way goes on (a thread of the request
pool or the event loop runs it; strong fairness because row locks and the
unique index let it through only from time to time, and PostgreSQL queues
waiters); the gateway redelivers an event until a delivery is answered with
success, to a webhook process that is free infinitely often. No fairness is
assumed of clients, clerks or the gateway's own progress: nobody has to pay, to
verify or to send a request. Both gateways document redelivery; the code relies
on it by failing a webhook whose settlement fails.

`StockKeeping!Fairness`: a request under way goes on, with strong fairness for
the same reason; PostgreSQL's deadlock detector runs. Nobody has to send a
request.

The desks state no fairness: what one would want to follow (an absence is told,
a posted job ends, a transfer goes through) does not in this code, as the
violated runs and the list above say, and the rest is answered within the
request.

## 5. Proofs

The theorems hold for every number of sessions, rows, amounts, orders and
payments, e-mails and passwords, students and limits. They rest only on the
named assumptions of the modules (`AmountAssumption`, `LedgerAssumption`,
`OnlineAssumption`, `StockAssumption`, `CustodyAssumption`, and of the desks
`PersonAssumption`, `LimitAssumption`, `AmountsAssumption`), which say that the
constants have the types their comments give, that there are finitely many
persons and that an amount is larger than nothing, and which TLC evaluates in
every run. No theorem has a hypothesis about how many requests there are or
what they ask for.

### The payment core and the inventory

* `SumsProofs`: `Total` is monotonic, additive over fresh rows, and finite.
  Because `Total` counts units instead of recurring over rows, these facts
  follow from the library's theorems on cardinality.
* `PaymentsProofs`, the ledger: the inductive invariant says, beyond the types,
  that the holder of the assignment's lock has seen exactly the payments, items
  and discounts that are committed. Every other operation reads without a lock,
  but its commit waits for the lock, so what the holder has read cannot change
  under it; that is what makes `record_payment`'s check against the amount due
  true at its commit. From it: `LedgerTypeCorrect`, `LedgerNeverOvercollects`,
  `LedgerCollectsWithinDue`, and `LedgerImplementsAbstract`, in which every step
  maps to one step of `AbstractLedger` or to a stutter.
* `PaymentsProofs`, online: the ledger's invariant is kept by all online steps; a
  further invariant relates a settlement that holds the lock to its
  transaction, order and payment: the payment is not yet credited, its
  transaction is successful, its order has the amount. From it:
  `OnlineTypeCorrect`, `PaymentsSettledOnce`, `CreditsAreBacked`,
  `OnlineNeverOvercollects`, `OnlineCollectsWithinDue`,
  `OnlineImplementsLedger`, `RecordsAreKept`. `VerifiedAreTaken` needs
  `AnswersBacked`: behind every PAID order, and every order that was answered
  for as verified or is about to be, there is a payment that the gateway took
  and a transaction that records it; what an event in flight says is so at the
  gateway, and a payment recorded as failed did fail. So the answer for a PAID
  order is backed although nothing the client sends is checked.
* `StockKeepingProofs`: a request that writes has locked the rows it takes from,
  and what it read there is still their quantity; what it read of a row it
  found missing is still so as long as the row is missing, and `Accepted` (the
  unique index) refuses the write otherwise; its movement's identifier is that
  of no other movement. With that, `CommitFacts` shows that a commit changes the
  quantities *of that moment* by the amount of the request, and the rest
  follows: `StockTypeCorrect`, `StockExplained` (the movements explain every
  quantity), `StockImplementsAbstract` and `AnswersRecorded` (a repeated request
  is answered only if a movement of its kind and reference is committed, and
  movements stay).
* `AssetCustodyProofs`: at most one assignment is active, and a request that
  closes an assignment has read one that exists. `assign_asset` and
  `transfer_asset_assignment` rely on the unique index for the first; a return
  that overlaps a transfer changes how an assignment ended, which the abstract
  custody does not see. From it: `CustodyTypeCorrect`,
  `CustodyImplementsAbstract`.
* Freshness (`ChecksHoldWhenFresh`, `OrderChecksHoldWhenFresh`,
  `StockChecksHoldWhenFresh`, `CustodyChecksHoldWhenFresh`): the invariant is
  that what a request that is not outdated has read, and what its check has
  found, is still so. A commit of another request makes every request under way
  outdated; a step that commits nothing leaves the rows as they were read. So a
  request that commits while the history is not stale commits what its check
  allowed on the rows of that moment.

### The desks

* `UnitOfWorkProofs`: what a commit does to the rows, for every component that
  keeps them in `UnitOfWork`: a column is set by a statement of the transaction
  or kept (`ColumnSet`, `ColumnKept`), the inserts get rows of their own, tables
  stay sequences, and a row that a request has locked is not changed by
  another's commit (`LockedRowStands`). On these stand the two schemes that the
  desks share: an invariant of *every outstanding statement*, which holds of
  what a handler sends and, since rows are only added, stays true until the
  statement is committed; and of *what a request says has been done*, where a
  row counts as there if a table has it or an earlier transaction of the same
  request inserts it.
* `IdentityProofs`: whoever is about to follow a session, or to change a
  password, holds the lock of the session or of the reset token that allows it,
  found it unspent, and sends the statement that spends it in the same
  transaction; a request's later transactions hold no lock and do neither; and a
  session that has a successor is revoked. `logout` and `reset_password` revoke
  sessions they may not have locked: that only ever sets the mark, and a row
  locked by a rotation waits. `CampusProofs` instantiates the module at the
  desk of identity for `TokensAreSpentOnce`.
* `AdmissionsOnRecordAlways` (`CampusProofs`): the status a decision starts from
  was read under the lock that its commit still holds, and a handler without
  the lock sends no status; the row of the history is inserted by the same
  transaction and continues the last one. So the history stays unbroken and
  ends with the status shown, and after a decision that is the status the
  decision gave, until a review is opened again or the application withdrawn.
  Of an application created with a status that only a decision gives it says
  nothing but that its history starts there.
* `MovedIsRecordedAlways` (`CampusProofs`): a statement that places a student in
  a year follows a record of that year and class, which is there or which an
  earlier transaction of the same request inserts; a record's student, year and
  class are never changed. `create_student` is the one handler that places the
  student before it writes the record: its row is new, so that nobody else can
  move it, and it is in no year until the record follows.
* `LoansEndOnceAlways` (`CampusShownProofs`): a renewal sends no status, and only
  a return sends one, which ends the loan; a loan is opened by a check-out
  alone, whose insert the index on open loans of a copy admits once.
* `ShownIsDoneAlways` (`CampusShownProofs`): a statement that shows a
  notification as sent, in a channel that is not `Mocked`, is outstanding only
  after the message was handed over; a
  job inserts the notice of a recipient before the count that includes it, and
  a restart, which loses what the tasks had left to do, completes no job.
* `HostelFeesShownAlways` (`CampusShownProofs`): what each hostel allocation
  shows as paid is covered by payments of the hostel, no payment covering two.
  The invariant is that there is a cover which the allocations' amounts and the
  credits still outstanding stay within; committing a payment extends it before
  its credit is committed, and a credit that overwrites another only uses less
  of it. Of the status only UNPAID is claimed: whoever sends an amount sends
  PARTIAL or PAID with it, or leaves it out because the row shows it already,
  and no payment sends UNPAID. That PAID means paid in full does
  not hold (section 3, *Noticed while reading*).

### What is only model-checked

`LedgerTypeOK`, `CollectedWithinCharged`, `CollectWithinDue` and `RecordsStay`
are proved and need no run of their own: the refinements that are run imply what
they say. Of what the runs check, these are not proved:

* liveness (`CapturedIsCredited`, `RequestsEnd`), which depends on fairness and
  ENABLED, beyond the prover;
* the serial properties of the desks: `LendingKept`, `TransportKept`,
  `LimitsKept`, `LeaveKept`, `NoTeacherTwice`, `ResetEndsSessions`,
  `AlertsTellTruth`, `RolloverKept`, `FinalIsFinal`, `HomeworkKept`. They speak
  of requests that follow one another, which the code does not ensure: a theorem
  would have to assume a single session, and with two most of them are refuted
  above;
* `CalculationFair`, whose weights and rounding are computed by folds over the
  papers: what a fold computes needs induction over data;
* `RolesFit`, which is about the roles and endpoints as they are seeded, data of
  which TLC evaluates all, alone and given together, and about the few
  permissions that are moved;
* `CampusTypeOK`: the theorems above establish of each desk the types they need
  in their own invariants, and no other types.

## 6. What is left out

* Fees: fee structures, categories, receipts' wording, reports; late fees are
  computed for display only. Creation of an assignment is the initial state.
* Payments: refund events; events without a payment id; differences between
  providers; counter payments that carry a gateway's reference number; the
  checks of amount, currency and school, which compare values that never
  differ; credentials and signatures; the order statuses PENDING, EXPIRED and
  REFUNDED, which no modelled code writes. The several SELECTs at the start of
  a call are one read, except the look-up of the transaction, which the code
  makes after the order is read and which is modelled where it happens. The
  webhook endpoints are coroutines that call blocking code, so that one process
  handles one webhook at a time: the runs have one webhook session; the proofs
  allow any number.
* Inventory: unit prices, vendors, counting dates, the physical-asset check of
  `delete_location` and `delete_item`; the movement kind DISCARD, which nothing
  writes; conditions and targets of assignments; categories, vendors and items.
* The desks: names, dates where nothing compares them, wording, audit logs,
  paging and counts; one school, one academic year (but in `Progression` and
  `Attendance`), one
  teacher in `StaffLeave`, one section in `Examinations`. The
  head of each module says what else. In a `UnitOfWork` handler all SELECTs are
  one step: a commit of another request between two SELECTs of one handler is
  not among its interleavings, one between its reads and its commit is.
* Attendance: the counts of working and present days, which are queries; they
  count present days over all sections and working days of one, so that a
  student who changed section may come out above 100 %.
* The timetable solver and the AI provider are external: any answer they may
  give is one the model may choose.
* Not modelled at all, with the reason in `PROJECT.json`: catalogue maintenance,
  events, documents, certificates, students, parents, teachers, classes and
  schools (single-row creates and updates under unique codes), import, reports
  and dashboards (bulk input in one transaction; read-only queries), payment
  configuration, frontend, migrations, tests. The connection pool is taken to be
  large enough; rate limits, signatures of tokens and password hashing are taken
  to work.

## 7. Where it goes from here

Everything the plan named has its module, and every property that runs of
overlapping requests check is proved but for liveness. What would add most next:

1. Freshness at the desks, as in the core: the serial properties until a request
   commits what it read before another's commit, with two sessions; stated so
   they could be proved like `ChecksHoldWhenFresh`, with no assumption about
   sessions.
2. An abstract specification of a desk's promise to the others (a student's
   place in a year, a seat, a bed), for desks that meet in one student.
3. Documents and events, when their handlers get a workflow worth a model.
4. The solver of timetables, as a pure algorithm.
