# Verification of the Canonizr job service

TLA+ models, TLC instances and TLAPS proofs for this repository. Source paths
below are relative to `src/`; `worker.py` alone means `gateway/app/worker.py`.

## 1. The system

Canonizr takes a document over HTTP, converts it to Markdown in the background,
keeps the result for 24 hours and bills by input size. Its processes share no
memory: they meet in Redis, in Azure Table Storage and in the blob store, and
every one of them can die between two calls.

| Component | State it keeps | Operations | Interacts with |
|---|---|---|---|
| Gateway API (`app.py`, `handlers.py`) | none | accept, poll, delete, download | users, quota, blobs, job table, queue |
| Queue (`queue.py`) | stream `stream:convert` with a pending list, `job_result:*` signals (24 h) | enqueue, dequeue (fresh or reclaimed), heartbeat, acknowledge, store/get result | gateway, worker, sweep |
| Worker (`worker.py`, `process_canonize.py`, `process.py`) | up to 3 handler tasks a process, 1 to 5 processes | `_handle_job`, `_dead_letter`, `process_canonize` | everything |
| Conversion (`convert.py`, `services/`, `artefacts.py`) | manifest of one job | route by format, call services with retries, put artefacts | worker, remote services |
| Job table (`jobs_table.py`) | append-only rows per job, an index row per job and user | create, get, update, mark_deleted, three scans | gateway, worker, sweep, cleaner, portal |
| Sweep (`sweep.py`) | a lock in Redis | re-enqueue old PROCESSING jobs | job table, queue |
| Retention cleaner (`cleanup.py`) | none | delete files of expired jobs, mark them; delete files of deleted jobs again | job table, blobs |
| Quota (`quota.py`) | usage counters per account and key and period, rejection counters, all in Redis | check, record, refund, reconstruct | gateway, worker, job table |
| API keys (`auth.py`, `portal/lib/services/keys-table.ts`) | three tables, a Redis cache of hashes, a Redis limit per key | create, rotate, delete, setQuota, list; resolve_api_key | gateway, portal |
| User resolver (`user_resolver.py`) | Redis caches of account, block and cap | resolve | gateway, worker, tables of the portal |
| Account flags and settings (`portal/lib/data/tables`, webhook) | append-only UserPermissions and UserConfig | read the newest row, append a changed one | user, administrator, Stripe, user resolver |
| Sign-up (`portal/lib/auth`, `auth-adapter.ts`) | links, users, rate limits in memory | mail a link, sign in with it, create the account, set it up | mail service, Stripe, tables |
| Usage reporter (`usage_report.py`) | watermark | compute a window, push meter events | job table, Stripe |
| Upstream retry (`services/retry.py`) | none | attempts with back-off under a deadline | conversion services |
| Portal: dashboard (`portal/components`, `portal/app`) | what a tab shows: rows, forms, requests in flight | keys page, jobs page and upload, panel of a result | portal API, gateway |
| Portal: billing and administration (`portal/lib/data`) | invoice cache, what a page shows | usage, invoices, overview, trace viewer | Redis, tables, Stripe |
| SDKs (`sdks/python`) | disk cache | upload, poll, download, retry | gateway |

What is hard about it, and what would make each part correct:

- **Job life.** Every hand-over is at-least-once, results live in a store that
  forgets, and charge, refund, deletion and conversion of one job run in
  different processes without a lock. Correct: every accepted job settles, "ok"
  is only said of a job that is OK, a job leaves the queue with an outcome, one
  charge is refunded at most once, no file goes too early and none stays for ever.
- **Job table.** It is append-only, so "the job" and "a row of the job" differ,
  and a filtered scan sees rows that were superseded long ago.
- **Quota.** Check and charge are separate calls, counters vanish and are rebuilt
  from the table while others change them. Correct: nothing is counted that was
  not used, a cap is overrun by no more than what is in flight, refunds reach the
  counter that was charged, nobody is locked out for ever.
- **Calendar.** Anchor days that months lack, computed twice in two languages.
- **Usage reporter.** Windows over rows that appear out of the order of their
  stamps, bounds cut to seconds, failures between events and watermark. Correct:
  nothing is billed twice by a retry, nothing falls between two windows.
- **Keys and caches.** A key lives in three tables and a cache, written in any order by
  calls that overlap and fail. Correct: a withdrawn secret is refused after the cache's TTL,
  the secret that is shown works and no other does, the limit that is shown is enforced,
  but for its rounding and for what a cache may still hold.
- **Account flags.** Two append-only tables changed by read-and-append from three sides
  and read through caches nobody clears. Correct: no change is lost, and the gateway is
  never further behind than its TTL, also when a table cannot be read.
- **Sign-up.** Six writes in two systems for one account, started by links that people
  and scanners click. Correct: a link signs in once, an account is whole.
- **Pages.** Requests are not serialised, answers come late or never. Correct: what is
  shown belongs where it is shown, is whole, and does not stay out of date for ever.

## 2. Modules

| Module | Models | Checked by | Proved in |
|---|---|---|---|
| `JobPipeline` | gateway accept / delete, queue, worker, job table, sweep, cleaner, blobs | `MCJobPipeline`, `Pipeline*.cfg` | `JobPipelineProofs` |
| `Quota` | `QuotaService` as the gateway and the worker use it | `MCQuota`, `Quota*.cfg` | `QuotaProofs` |
| `BillingPeriod` | `current_period_start`, `period_ttl`, the portal's `currentPeriodStart` | `MCBillingPeriod`, `Calendar.cfg` | `BillingPeriodProofs` |
| `UsageReporter` | `usage_report.py` and the worker's stamping of rows | `MCUsageReporter`, `Usage*.cfg` | `UsageReporterProofs` |
| `KeyPromise` | what the key store promises about a secret (abstract) | `KeyLifecycle.cfg` (as `KeepsPromise`) | `KeyAccessProofs` |
| `KeyAccess` | `keys-table.ts`, its API routes, `auth.py` | `MCKeyAccess`, `KeyLifecycle.cfg` | `KeyAccessProofs` |
| `KeyLimits` | `setQuota` and the gateway's `_check_key_quota`: a limit in the table and its copy in Redis | `MCDashboard`, `Dashboard.cfg` | `DashboardProofs` |
| `SignUp` | sign-in form, mail and rate limits, adapter, creation and setup | `MCSignUp`, `SignUp.cfg` | `SignUpProofs` |
| `AccountFlags` | flags and settings, webhook, `_access_block`, `_get_quota_config` | `MCBilling`, `Billing.cfg` | `BillingProofs` |
| `BillingPage` | usage on the billing page | `MCBilling`, `Billing.cfg` | `BillingProofs` |
| `Invoices` | invoice cache, billing page, search of users | `MCBilling`, `Billing.cfg` | `BillingProofs` |
| `ResultFiles` | files of a result from the run that puts them to the link | `MCBilling`, `Billing.cfg` | `BillingProofs` |
| `AdminOverview` | the administrators' overview | `MCBilling`, `Billing.cfg` | `BillingProofs` |
| `KeysPage` | the page of the API keys | `MCDashboard`, `Dashboard.cfg` | `DashboardProofs` |
| `JobsPage` | the list of jobs, upload, deletion | `MCDashboard`, `Dashboard.cfg` | `DashboardProofs` |
| `TraceView` | the trace viewer | `MCDashboard`, `Dashboard.cfg` | `DashboardProofs` |

`JobPipeline` treats the quota of a job as "charged once, refunded n times";
`Quota` takes the job's outcome as an input and looks into the counters;
`BillingPeriod` justifies what `Quota` assumes about periods (both sides agree
on them, and a counter outlives its period). `ResultFiles` looks at the files of one
job, which `JobPipeline` treats as one artefact. `KeysPage` has of the server what the rows
of a user's keys can tell apart: creation and rotation are two steps, the check or the read and
the write, deletion and a new limit are one; `KeyAccess` looks into the secrets and the cache,
`KeyLimits` into what becomes of a limit.

`Billing` and `Dashboard` put pages together that meet in the gateway, Stripe or the
browser only through state of which each module has its own part. A behaviour is that
of one page (`subject`, `page`; `KeyLimits` is the page "limit"), the others rest: nothing is lost, since no action reads
a variable of another page, and the instances stay the size of the largest.

A definition that a mutant replaces is preceded by the mutated form, marked
"Mutant": a plausible bug that the property it is listed with does detect.

### JobPipeline

A step ends where the code awaits or calls another service. `Accept*` are the
four steps of `accept_canonize`; the handler slots in `Workers` are `_handle_job`
tasks of any worker process, with `pc` naming the call that comes next; `Fail`
and `MarkError` are `_mark_error`; `DeadLetter*` are `_dead_letter`; `Delete*`,
`Clean*` and `Sweep` are the DELETE handler, both passes of the cleaner and the
reconciliation sweep. `PollStatus` is `poll_result`, which changes nothing.

Abstractions, and why they lose nothing the properties tell apart:

- The job table is `latest` (the newest row) and `log` (the set of rows ever
  written). No code reads the order of older rows, so the pair is exact. Reading
  and writing back in `mark_deleted` is one step because the only field it takes
  over is the expiry, which it replaces unless it is in the past.
- A stream entry is a slot of its job. A slot is not used again while a handler
  still refers to it, as Redis never repeats an id. Fresh entries are served in
  any order, which includes the order of the stream.
- The clock counts retention periods (24 h, also the TTL of a signal). A handler
  that has published something returns within seconds, so `Tick` waits for it;
  a conversion or a fetch may take arbitrarily long.
- `OldJobs` are those that outlive the sweep's ten minutes.
- Faults are named and counted: `crash` (gateway, worker, cleaner or DELETE
  between any two steps), `flush` (Redis loses its data), `lostbeat` (heartbeats
  fail, so a live handler's entry is reclaimed), `suspend` (the account does not
  resolve for a while), `blob` (an input cannot be read), `report` (index row or
  telemetry raises after the OK row).
- `delivered` saturates one above the poison limit and `refunds` at 2; a DELETE
  is successful at most once per job. The time during which a worker gets
  NOGROUP after a loss of Redis is not modelled.

### Quota

One account with its keys (accounts share no counter); comp accounts are never
checked and are left out. Every GET, SET, INCR, INCRBY, EXPIRE and table scan is
a step. A counter is the set of requests charged to it and, for each, how often it was taken
off again; its value is the difference in bytes, which may be negative. This lets
`NeverOvercounted` ask whose bytes are counted. A sum
of sizes is the cardinality of the set of all bytes of the files, none longer than
`MaxSize` (`MAX_FILE_SIZE`, `app.py:76`), so that it needs no recursion; `BillingPage` sums in
the same way.
A scan that fails counts as zero and is not written back, as in the code. The
limit in force for a key is a constant (`KeyLimits` has how it changes). The job begins well
after its charge (`CreateJob`). It may be handed to further handlers, by a redelivery or by the
sweep (`Rerun`), and each handler that fails refunds, before the OK row or after it
(`JobFails`). `losses`, `booked` and `returned` (every charge and every refund, whatever
Redis keeps) and `cut` (requests a process died with or gave up on) are history variables.

### BillingPeriod

Days are the unit, time runs day by day. `Pin` and `Record` may fall on two sides of
midnight, as `accept_canonize` pins the period before it reads the file. A TTL is
counted in whole days from the day it is set.

### UsageReporter

Ticks are fractions of a second. `InWindow` models a comparison of text:
`2026-01-01T00:00:05.123+00:00` sorts before `2026-01-01T00:00:05Z`, so the
window is after the second of its start up to and including the second of its
end. Runs do not overlap: the job is hourly with parallelism 1 and a time-out of
300 seconds (`infra/terraform/usage_reporter.tf`). The audit log is left out. The
history variables `passed` and `skipped` record what the code lets go knowingly.

### KeyPromise and KeyAccess

`KeyPromise` says what any key store must do: a secret is issued once, may be withdrawn,
and is let in while honoured or less than `Grace` ticks after its withdrawal.
`KeyAccess` has the tables, the cache of hashes, the portal's calls
and the gateway's lookups. The writes of a `Promise.all` land in any order (`Write`), any
one may fail (`WriteFails`; those with `.catch` are `Swallowed`), the call that drops the cache
entry comes after all of them. What `setQuota` tells Redis is left to `KeyLimits`. A lookup is four steps: cache, table, fill, user. `KeepsPromise` maps a secret
to honoured while its hash is in GwApiKeys, with `Grace` = the TTL of the cache. The clock
(`Tick`) waits for a lookup under way: a lookup takes milliseconds, a tick is a part of an hour.

### KeyLimits

One key. `limitRow` is the quota of its subscription, `limitCopy` what Redis has of it and for how
long; a copy the portal wrote has no expiry (`Lasting`). `setQuota` writes the table and then
Redis, and either may fail with its effect or without (`WriteLimitFails`, `CopyLimitFails`). A check
of the gateway is a GET, on a miss a read of the table, which may fail and then means no limit, and
the SET of what was read. Calls take any time, checks less than a tick (`HourPasses`). Two history
variables say where the code makes no promise: `overtaken` counts the ticks since a call was
answered while a check had an older limit in hand, or since a read failed; `amiss` holds from the
moment two calls overlap, one fails or the subscription is deleted until a call that is alone
succeeds. `ShownLimit` is the page's rounding up to `LimitUnit` (`toBillableKB`). A portal without
`REDIS_URL`, which skips the second write, is not modelled.

### SignUp

A link is a mail and a row, in either order. A click reads the row, deletes it and goes on as
`getUserByEmail` says; `createUser` and `onCreateUser` are one step per write. A visit is
`requireUser` with `ensureUserSetup`. A failure may come at any step, a restart empties the
set of users known to be set up and the rate limits. History variables say when two clicks or
two visits overlapped (`disturbed`, `unsettled`).

### AccountFlags

A handler reads the newest row of its table (`ReadLatest`) and appends it with one field
replaced (`Appended`). `contended` remembers that two changes of one table overlapped. The
webhook reads the live status of the subscription before that. Ages (`codeAge`, `capAge`) count
the ticks since a code or cap was in force, so that `GatewayFresh` bounds staleness by the TTL.
A table the gateway cannot read counts as one without a row: the account is allowed, or has the
default cap, and that is cached like any other answer (`CheckBlock`, `CheckCap`); such a read sets the
age of the default to 0, so the property says how long it may be served.

### BillingPage, Invoices, AdminOverview

`BillingPage` reads the counters one by one, else the rows of finished jobs, while the gateway
charges, creates, converts, fails and refunds jobs, a job more than once if it runs again, and
results and keys are deleted. What the page sets from the rows (`SeedName`) is a counter of the
key's name, as `key_id` of GwUserJobs is the name; the gateway and the page read counters by id, so
no value is kept of it. `Nameless` are jobs whose row has an empty `key_id`, which the page skips;
keys may share a name. `short` are the counters that may lack a charge: they started anew, or a job
was taken off them twice or although it is finished. `Invoices` has two readers of one cache;
a row that is closed unmounts its request (`Unmounted`). `AdminOverview` has the two halves of
the page (stream and tables), each a sequence of reads.

### ResultFiles

A run picks its plan when it starts: the pages of a PDF may or may not be rendered, and two runs
of one job may differ in that. It puts the files one by one and commits the manifest. The page
holds a row with an older or newer manifest; the download asks the gateway again. `removed` and
`replaced` are history: a deletion has begun; another run has replaced a manifest.

### KeysPage, JobsPage, TraceView

`KeysPage` has the table in its wide and narrow form (a row's controls are mounted or not),
the form, the editor with the text it holds, and the requests in flight. Only unmounting, not
an answer, forgets the editor's text. A rotation reads the row and then writes it back
(`ReadRotate`, `WriteRotate`), so that one which overlaps the deletion brings the key back; an answer may
come before all of the writes are done. `JobsPage` numbers jobs in the order of submission; a
refresh replaces the list and its cursor, "load more" appends to it, uploads, polls and
deletions are requests that may be answered late or fail. `TraceView` lays out the spans of any
tree, chosen while it is walked, a bar in the first free row below its parent's.

## 3. What is checked

Every property is stated in a comment above its definition.

| Run | Instance | Shows |
|---|---|---|
| `PipelineFull` | 1 job, 2 handlers, every fault, up to 3 | `TypeOK`, `OkSignalIsBacked`, `UnfinishedInputKept`, `ServedResultExists` |
| `PipelineSingle` | 2 jobs (one deletable), 2 handlers, 2 deliveries, 2 of crash / blob / report | `RefundAtMostOnce`, `RefundedIsNotOk`, `OkSignalIsFinal`, `LeavesQueueWithOutcome` |
| `PipelineLive` | 1 job, 2 handlers, 2 of crash / flush / lostbeat / suspend | `EveryJobSettles`, `DoomedFilesGo` (liveness) |
| `QuotaLedger` | 3 requests of 2 keys and 2 sizes, 2 periods, every fault, up to 2 (a further run of a job and a failure after its OK row among them) | `NeverOvercounted`, `CapOvershootBounded`, `CountersBalance` |
| `QuotaLockout` | 5 requests over the cap, limit 3, 2 crashes | `RejectionsBounded`, `LockoutEnds` (liveness) |
| `Calendar` | every day of 25 months with a leap February, anchor days 1, 28 to 31 | `StartIsLatestAnchorDate`, `CounterOutlivesPeriod`, `PortalAgrees`, `PeriodsAdvance` |
| `UsageWindows` | 2 rows of 2 jobs, one of a comp user, 3.5 seconds at 2 ticks, 2 faults | `RetriesBillOnce`, `NoGap` |
| `KeyLifecycle` | 1 key, 3 secrets, 2 requests in flight, 3 calls, 1 caller, 1 failure, TTL 2 | `ShownKeyWorks`, `OnlyShownKeyWorks`, `KeepsPromise` (refinement) |
| `SignUp` | 2 addresses, 2 links, 2 clicks at a time and 3 in all, 2 visits, 1 failure or restart | `LinksUsedOnce`, `AccountWhole`, `OneFirstKey` |
| `Billing` | flags: 2 handlers, 2 updates of Stripe, 3 calls; usage: 3 jobs of 2 keys of one name, 2 failures, refunds or losses; invoices: 2 users, 2 readers; results: 2 runs of a text, an image or a legacy document; overview: 2 jobs, 1 loss | `GatewayFresh`, `ChangesKept`, `UsageShown`, `InvoicesOwn`, `LinksLead`, `OverviewCovers` |
| `Dashboard` | keys: 2 ids, 2 names, at most 1 key, 2 requests; jobs: up to 3 jobs, 1 when the page is loaded, pages of 1, 2 polls at a time; trace: 4 spans, 2 loads; limit: 2 calls and 2 checks at a time, 3 calls, TTL 2 | `KeyLimitKept`, `UntypedLimitHolds`, `ListWhole`, `FlameSound`, `LimitEnforced`, `RowsSettle` (liveness) |
| `PipelineRefundTwice` | 1 old job, no fault | ends in a counterexample to `RefundAtMostOnce` (section 6) |

Bounds, and why they are enough:

- One job is enough for properties of one job under every fault: jobs share only
  the handlers, and a handler busy elsewhere is an idle one that is not scheduled.
  `PipelineSingle` has two so that handlers do change over between jobs. Two handlers
  make every pairwise race; `MaxDeliveries` is 1 or 2 instead of 5, so that the poison
  path is reached. Two retention periods let every row expire, a late second row too.
- `LeavesQueueWithOutcome` and the ledger properties are checked without lost
  heartbeats, Redis losses and the sweep: with them they fail (section 6).
- `MaxRejected` is 3 instead of 50. `LockoutEnds` holds for fewer crashes than
  `MaxRejected`: 50 requests of one key that all die between INCR and EXPIRE would
  lock it for ever.
- Cap overshoot is bounded by the requests in flight; the gateway sets no limit on
  those, so in production the bound is the load it can carry.
- In `UsageWindows` the look-back and the longest window (3 and 5 ticks) are
  shorter than the run, so windows are cut as well.
- `KeyLifecycle` has two calls at a time, which make every pairwise overlap, a third after
  them, and three secrets: the first, and one for each of two rotations. One key is enough,
  for keys share nothing; `MaxKeys` is 1, and the limit itself is checked in `Dashboard`.
- In the part of `Dashboard` about a limit, two calls and two checks make every pairwise overlap, and
  a third call comes after them. `LimitUnit` is 2 and the limit 3, so that the page shows 4.
  A TTL of two ticks tells a copy that is about to expire from a fresh one and from a lasting one.
- `SignUp` needs two addresses only for the rate limit by IP address; everything else of an
  account is its own. Two links of one address show what a click on the older does.
- In `Billing` every page has room for one overlap of two processes and one failure. Three
  reads of invoices (1.97 million states), a cache of two ticks (0.51 million) and a PDF of
  two pages (1.23 million) pass as well, each page on its own.
- `UnitSize` is 2 and the sizes are 1 and 2 bytes, so that a sum may or may not be a whole
  number of units. Every job of the instance has a name (`Nameless` is empty); rows without one
  are covered by the proof of `UsageShown` only. `PerGB` is 2, so that 3 MB stands for 1500 MB, which the editor rounds.
- `JobPageSize` is 1, so that three jobs have three pages and "load more" meets a poll. The
  page begins with at most one job (`MaxOldJobs`); with three (1.11 million states) the
  jobs page passes as well.
- Three spans below a root, with offsets and durations of 0 and 1, make children that
  overlap, touch, have no length, and go back to an earlier row.

Fairness. Weak fairness for the steps of a request, a handler, DELETE, the cleaner
and the sweep: each is a loop or a task that goes on unless a fault stops it. Strong
fairness for the delivery of an entry, fresh or abandoned: worker loops poll for
ever, and an entry that is deliverable again and again is delivered. `Reinstate` is
weakly fair: an account that never comes back is allowed to keep its jobs open.
Nothing is assumed of clients. In `Quota`, a TTL that was set runs out. In `Dashboard`, only
the jobs page has a timer: weak fairness for its poll, for the server's answer to it, and
for the page's taking the answer up; no user ever has to click.

## 4. What is proved

For every value of the constants, from the named assumptions of the modules only.

| Theorem | Statement | Argument |
|---|---|---|
| `JobPipelineProofs!TypeCorrect` | `Spec => []TypeOK` | `TypeInv` adds that a handler at work holds an entry |
| `JobPipelineProofs!OkSignalBacked` | `Spec => []OkSignalIsBacked` | the log only grows (`LogGrows`); `OkInv`: a handler about to publish "ok" has written its row |
| `JobPipelineProofs!InputKept` | `Spec => []UnfinishedInputKept` | `KeepInv`: while a job is PROCESSING no row of its history has an expiry, so no scan of the cleaner can match |
| `JobPipelineProofs!ServedKept` | `Spec => []ServedResultExists` | `ServedInv`: a signal lives as long as the row it was published for (`SignalsOfRows`), a row is marked deleted only when it has expired or on request (`DeletedExpired`), and until then the files stay (`ArtefactsKept`) |
| `JobPipelineProofs!LedgerSound`, `RefundSound` | without duplicates, `RefundAtMostOnce` and `RefundedIsNotOk` | `OneDelivery` (one entry and one handler a job) and `Ledger` (the refund is the last thing that happens to a job) |
| `JobPipelineProofs!OkStaysFinal` | without duplicates, `Spec => OkSignalIsFinal` | `FinalInv`: a job said to be OK has a row that says so, and a handler that is given it again stops at the guard |
| `JobPipelineProofs!NoneLeftUntold` | if nothing is lost, `Spec => LeavesQueueWithOutcome` | `OutcomeInv`: a handler acknowledges when its job has an outcome, and then only refunds or marks what was dead-lettered |
| `QuotaProofs!QuotaTypeCorrect` | `Spec => []TypeOK` | |
| `QuotaProofs!NothingOvercounted` | `Spec => []NeverOvercounted` | `LedgerInv`: where a request stands determines what it was charged and refunded; a reconstruction holds completed jobs only |
| `QuotaProofs!RejectionsAreBounded` | `Spec => []RejectionsBounded` | `RejectInv`: the count, together with the requests that passed it and may yet be rejected, stays below the bound |
| `QuotaProofs!CountersAreBalanced` | `Spec => []CountersBalance` | `BooksInv`: a request that was charged is being worked on, OK, refunded or about to be, or was given up (`Accounted`), and no refund comes before its charge (`Charged`); `WarmInv`: while nothing is lost the counters hold what the books say, and nobody rebuilds them |
| `QuotaProofs!CapIsBounded` | `Spec => []CapOvershootBounded` | `CapInv`: what was charged and what may still be charged stay below the bound together, from the check on; what was refunded beyond a charge (`Excess`) raises the bound |
| `BillingPeriodProofs!PortalMatchesGateway` | `Spec => []PortalAgrees` | clamping to the last day of a month is the same in both, months from 0 or from 1 |
| `BillingPeriodProofs!PeriodStartIsLatest` | `Spec => []StartIsLatestAnchorDate` | case split on the month of the candidate date |
| `BillingPeriodProofs!PeriodsFollow` | `Spec => PeriodsAdvance` | overnight the period stays or begins anew (`Overnight`), months have 28 to 31 days |
| `BillingPeriodProofs!CounterLivesOn` | `Spec => []CounterOutlivesPeriod` | `CounterInv`: no period is charged that has not begun, and the counter of the current one lives at least as many days as the period has left |
| `UsageReporterProofs!ReporterTypeCorrect` | `Spec => []TypeOK` | |
| `UsageReporterProofs!NothingBilledTwice` | `Spec => []RetriesBillOnce` | `EventsInv`: every event is the event of a row |
| `UsageReporterProofs!NothingLeftOut` | `Spec => []NoGap` | `GapInv`: what lies before a window is reported or left out, what lies in it is billed or still to do |
| `KeyAccessProofs!TypeCorrect` | `Spec => []TypeOK` | with `IInv`, below |
| `KeyAccessProofs!Refinement` | `Spec => KeepsPromise` | `IInv`: a secret is written once and for one key (`WrittenOnce`, `WorkHasKey`), unknown secrets are nowhere (`FreshIsUnknown`), a cache entry or a lookup under way of a withdrawn secret has less time left than the TTL leaves (`CacheWithinTTL`, `CallersWithinTTL`); then each step is a step of `KeyPromise` or a stutter |
| `KeyAccessProofs!ShownWorks`, `OnlyShownWorks` | `Spec => []ShownKeyWorks`, `[]OnlyShownKeyWorks` | `KeysInv`: what each request has still to write, and, for a key on which calls did not overlap, that what is written and what is pending together are what its last call means |
| `SignUpProofs!SignUpTypeCorrect` | `Spec => []TypeOK` | |
| `SignUpProofs!LinksGoodForOnce` | `Spec => []LinksUsedOnce` | each acceptance takes a stored row away |
| `SignUpProofs!AccountsAreWhole` | `Spec => []AccountWhole` | `AccountInv`: which writes of a registration are done at each of its steps, and that an undisturbed address has one registration and one user |
| `SignUpProofs!OneFirstKeyMade` | `Spec => []OneFirstKey` | `SetupInv`: a user without a finished setup has a key only while a visit is writing it |
| `BillingProofs!GatewayIsFresh` | `Spec => []GatewayFresh` | `FlagsFresh`: a cache entry is no older than the time it has been there, a lookup under way adds nothing, a failed read is as old as its own answer |
| `BillingProofs!ChangesAreKept` | `Spec => []ChangesKept` | `FlagsInv`: while a table is not contended, one handler at most has read it and what it read is the newest row |
| `BillingProofs!UsageIsShown` | `Spec => []UsageShown` | `CounterInv`: a counter holds no more than its key was charged, and one that is not `short` no less than the jobs that were never taken off; `LoadInv`: what a load has read is at least the bytes of the jobs the page was opened with, of the keys read so far |
| `BillingProofs!InvoicesAreOwn` | `Spec => []InvoicesOwn` | `InvoicesInv`: every cache entry, read and answer under way is of the user it is for, and as old as it says |
| `BillingProofs!OverviewCoversAll` | `Spec => []OverviewCovers` | `OverviewInv`: what each read in the sequence has covered |
| `BillingProofs!LinksAlwaysLead` | `Spec => []LinksLead` | `ResultInv`: the names of a plan belong together (`PlanWellNamed`), what a run has counted is stored (`RunsPut`), the manifest and the row on the page name stored files (`ManifestStored`, `RowStored`) |
| `DashboardProofs!KeysAreLimited` | `Spec => []KeyLimitKept` | `RoomInv`: the keys there are and the creations that passed the check are together no more than `MaxKeys` and one for each overlap; without an overlap at most one has passed it, and its name is new |
| `DashboardProofs!UntypedLimitsHold` | `Spec => []UntypedLimitHolds` | `EditInv`: an editor waits for at most one save, of the text it holds |
| `DashboardProofs!ListIsKeptWhole` | `Spec => []ListWhole` | `ListInv`: every answer under way is whole, and the rest that was asked for begins where the list ends |
| `DashboardProofs!LimitsEnforced` | `Spec => LimitEnforced` | `LimitsInv`: a call that says it is alone is (`CallsAlone`); while nothing is amiss, the copy (`CopyGood`) and what a check has in hand (`HandGood`) are a limit in force, or one that was overtaken so lately that the copy runs out within `LimitTTL` of it |
| `DashboardProofs!FlameAlwaysSound` | `Spec => []FlameSound` | `LayoutInv`: a row ends at or after each of its bars (`RowsHoldBars`), the path lies in existing rows |

Four theorems have an assumption beside those of the modules, stated where they are.
`LedgerSound`, `RefundSound` and `OkStaysFinal` assume `NoDuplicates`: no job outlives the sweep's
threshold and no live handler loses its heartbeats. Without it the first is false (section 6)
and a duplicate may fail where the first delivery succeeded, after both passed the guard.
`NoneLeftUntold` assumes `NothingLost`: `NoDuplicates`, Redis keeps its data, and accounts
resolve. Loss of the stream takes a job's entry away, and a handler whose account does not resolve
lets its job go in silence; both are then put right by the sweep or by nobody, which is the
subject of `EveryJobSettles`. All other theorems hold under every fault of their module.

Hardly any of the invariants is inductive by itself: `NoGap` says nothing of a run under way,
`NeverOvercounted` nothing of what a reconstruction has read but not written, `LinksLead`
nothing of the files of a run that has not committed, `ListWhole` nothing of the answer that comes
next. The named strengthenings say what is true between two steps of one operation, and can be
checked by TLC on the instances of section 3. Sums of bytes are
cardinalities, so what is charged beside what is there follows from the facts about finite
sets of the library.

Only model-checked: liveness, that is `EveryJobSettles`, `DoomedFilesGo`, `LockoutEnds` and
`RowsSettle`. It rests on fairness and ENABLED, which are out of the prover's reach. Every invariant
and every action property that a passing run checks is a theorem above.

## 5. What is not modelled

- Retries of upstream calls: attempts under a deadline within one conversion, which
  `JobPipeline` lets take any time and fail. The SDKs and the command line are clients.
- Conversion itself beyond the files it names, encryption, MIME admission, telemetry and
  audit logs, infrastructure: no decision of the modelled parts reads them, beyond "it
  worked" or "it raised".
- The portal's aggregates for display, the cost card of a trace, synthetic data, styling.
  Three things were read there and are worth knowing: stored traces carry no retries and the
  gateway sets no token attributes, so the totals at `portal/lib/pure/infra-cost.ts:105` and `:130`
  are always 0; the error banner goes by the time of submission (`user-page-data.ts:31`) and
  links to `/dashboard/usage`, which has no page; a poll puts the sorted table back to page one.
- Two rows appended within one millisecond, which sort by their random suffix; the fields `isAdmin`,
  `freeUnits` and `maxKeys`; limits that are not whole bytes (the route takes any positive `quotaKB`,
  and of 0.0005 the gateway would parse "0.5" as an integer, which raises).
- How bars are drawn: `trace-flame.tsx:110` widens very short bars, so that a drawn one may cover
  its neighbour. `FlameSound` is about the intervals of the layout.

## 6. Known disagreements

`PipelineRefundTwice` is a run that ends in a counterexample; PROJECT.json quotes the text. The
sweep's filter matches the first PROCESSING row of every job older than ten minutes, for ever. A
job that failed is processed again, and refunded again, on every sweep. A job that is OK is
enqueued and skipped.

The models have behaviours that contradict the code's own texts in these places too:

- A dead-lettered job (`worker.py:38`), or one whose worker dies after the acknowledgement, is never
  refunded; `docs/api.md:95` says a failed job is.
- A worker that dies between the OK row and the signal (`worker.py:98`) leaves a finished job that
  polls as 202 until its retention ends; `docs/issues/job-lifecycle.md:82` says 202 is "still processing".
- DELETE of a job in conversion is undone by the worker (`process_canonize.py:73`): its files stay
  until the cleaner's second pass, its newest row says OK; `docs/api.md:67` says "immediately".
- A row inserted after the reporter's query with a stamp before it is never billed
  (`usage_report.py:125`); nor is a row of the second in which a window ends.

Others follow from the models and are allowed for in the properties named:

- Requests that are checked together pass the cap together. A job that fails, is run again by the
  sweep and fails again is refunded each time, so that the counter falls below what was used and
  further requests pass the cap, by as much as was refunded too often (`CapOvershootBounded`).
- A charge whose job never came to exist, or whose handler died before the refund, stands; a job
  refunded although it is OK, or twice, leaves less in the counter than was used (`CountersBalance`).
- A job charged in one period and completed in the next is counted in both, if the
  counter of the new period is rebuilt then (`NeverOvercounted`).
- Two OK rows of a job in different seconds and windows, after a duplicate delivery, are
  two meter events (`RetriesBillOnce`).
- If `UserConfig` cannot be read, comp users are metered (`LoadMap`); records that Stripe
  refuses or that have no customer are dropped, the watermark moves on (`NoGap`).
- A job that was completed twice is cleaned when its older row expires
  (`ServedResultExists`).
- A DELETE that dies between the files and the row leaves a PROCESSING job that is swept
  for ever and cannot be converted (`EveryJobSettles`).
- A failure to delete the old hash of a rotated key is swallowed (`keys-table.ts:122`): the old secret
  stays valid. Overlapping rotations leave two valid secrets, a rotation that overlaps a deletion
  brings the row back (`OnlyShownKeyWorks`, `ShownKeyWorks`). The page says the old key stops working
  immediately; it does within the hour of the cache (`KeepsPromise`).
- `setQuota` calls that overlap or fail half-way, and the deletion of the subscription, may leave another
  limit in Redis than in the table, for good, until a call that runs alone succeeds. A check of the
  gateway that read the table before such a call and fills Redis after it brings the former limit
  back, or undoes a DEL, for up to an hour; a table that cannot be read is cached as "none" for as
  long. The page shows a limit rounded up to 100 KB, the gateway enforces the number that was set
  (`LimitEnforced`).
- If UserPermissions cannot be read, a blocked account is let in until the cache entry expires; if
  UserConfig cannot, it has the default cap (`user_resolver.py:211-231`, `GatewayFresh`).
- Overlapping changes of flags or settings lose one of them (`ChangesKept`), whatever the comments at
  `settings/route.ts:6` and `webhook/route.ts:13` say.
- Layout and page set a new user up at the same time: two first keys (`OneFirstKey`), although
  `ensure-user-setup.ts:2` says "Idempotent". An account may exist without billing (`AccountWhole`;
  `on-create-user.ts` says a failure is fatal). A refused mail has overwritten the stored link, a
  second click on an old link may delete the row of a newer one (`LinksUsedOnce` bounds their number
  only). The "sliding" window of the rate limit is a fixed one.
- Two creations pass the check of `maxKeys` together; a rotation that overlaps the deletion of its key
  brings the key back, beside one created meanwhile (`KeyLimitKept`). The editor rounds 1500 MB to
  2 GB and shows an old text after another tab's change (`UntypedLimitHolds`).
- A refresh that answers during "load more" leaves a gap in the list (`ListWhole`); one that is
  overtaken hides a job just submitted (`RowsSettle`).
- Two runs of a job that render differently replace the manifest a page still shows (`LinksLead`). The
  page labels are stored and listed, but no link leads to them; `docs/api.md:56` lists tables that
  are never produced.
- A counter that is missing beside another counts as 0. The rows the page reads when all are missing lack
  jobs whose result was deleted, by the user or by the cleaner, so of those that expire only the last
  day is left; and those whose `key_id` is empty (`UsageShown`). The comment at
  `user-page-data.ts:129` says the page "Seeds per-key counters in Redis so subsequent reads are fast":
  it sets them under the name of the key, where neither the page nor the gateway reads.
- The spend of a user whose read failed is shown as $0.00 without the button to ask again
  (`admin-user-search.tsx:30`).
- The gateway acknowledges entries and never removes them (`queue.py:143`): the overview's queue length
  is the number of all jobs, its oldest the first of all (`OverviewCovers` bounds them from one side).

## 7. What could follow

1. The consumer group with idle times and heartbeats made explicit, shown to implement an abstract
   at-least-once queue, which `JobPipeline` assumes.
2. Abstract specifications of the other promises, as `KeyPromise` is one: a job as a client sees it
   (accepted, done, failed, gone), and a ledger of charges that `JobPipeline` and `Quota` share.
3. Attempts, back-off and deadline of upstream calls, and the SDK's polling, as pure arithmetic.
