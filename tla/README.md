# A TLA+ verification of AskDB-Go

AskDB-Go answers questions about a MySQL database: an API accepts a question, a
worker lets a language model turn it into SQL, checks and runs the SQL, and puts
the rows into a cache. This directory models the parts of that program whose
correctness depends on interleavings and failures, checks them with TLC, and
proves the most important results with TLAPS. Paths are relative to `src/`.

## 1. The system

### Processes and storage

    browser --HTTP--> API process(es)             worker process(es) --> LLM
                      Service.Submit              Consumer.handle    --> target database
                        | one transaction           | WorkerService.Process
                        v                           v
                      MySQL: query_jobs, outbox_events, processed_messages,
                             data_sources, users            Redis: results
                        |                           ^
                        v                           |
                      Dispatcher ---> RabbitMQ: main queue, retry queue (TTL,
                                      dead-lettered back to main), DLQ

| component | state | operations | what makes it hard |
|---|---|---|---|
| job repository (`internal/queryjob/repository.go`, `status.go`) | `query_jobs.status`, `attempt_count` | create, `TransitionStatus`, `SetRetrying`, `SetSucceeded`, `SetFailed`: compare-and-set on the status | several workers, old workers, no fencing token |
| message idempotency (`idempotency.go`) | `processed_messages`: status, lease token, expiry | `Claim` (five results), `Renew`, `MarkRetryScheduled`, `MarkCompleted` | leases expire under live workers, two ids for one job |
| consumer and worker service (`consumer.go`, `worker_service.go`) | program point, lease, renewal goroutine | handle a delivery, run the stages, schedule a retry or dead-letter | confirm, then persist, then acknowledge, each of which may fail |
| outbox and dispatcher (`outbox.go`, `dispatcher.go`) | `outbox_events`, the batch in hand, the publisher channel | claim a batch, publish, mark, give back, clean | several instances, slow batches, stop and crash |
| publishers (`publisher.go`) | one confirm channel each: a mutex, a channel of capacity 1 for returned messages, the deferred confirms | publish, retry, DLQ | confirms that never come, returns that come late, a reader that blocks |
| API service (`service.go`, `internal/handler/queryjob.go`) | none | submit, get, get the result | a result that expires in two stores |
| data sources (`internal/datasource`) | `data_sources` | create, update, delete, open | deletion against submission, against updates and against another deletion |
| sessions on a user's database (`datasource/service.go`, `internal/netguard`, `sqlguard/rewrite.go`, `internal/queryexec`) | the process-wide table of dialers of the MySQL driver; the rows read so far | look a name up, pin the address, test a connection, read the schema, rewrite the LIMIT, execute | names that resolve differently each time, sessions that share the table, connections that break half-way |
| result cache (`internal/queryresult`) | Redis keys | set, get, decode | expiry boundary, numbers and strings that pass through JSON |
| SQL guard (`internal/sqlguard`) | none | accept, rewrite, reject | many cases of an external syntax tree |
| users, tokens (`internal/auth`, `internal/middleware`) | `users`; tokens carry their own expiry | register, log in, admit a request | a token that ends while requests are in flight |
| encryption, configuration | none | encrypt, decrypt; parse | sequential |
| web client (`web/`) | the job shown, a version counter, a timer, an abort controller; the token of the tab | submit, poll, fetch, cancel, log in and out | answers to earlier polls, aborts that do not take effect, late refusals |

What makes each correct, in one line: a job moves only along its transitions and
has its result when it has succeeded; one worker owns a message, and a completed
message stays completed; a copy of an unfinished job's message is never dropped;
every submitted job settles; an accepted event is sent at least once and is
settled only after a confirmed send; a data source with unfinished jobs is not
deleted; a publish succeeds only when the message is in a queue; a session stays on
the one permitted address it looked up; a result has all the rows, and no integer,
NULL or UTF-8 string of them is altered; the console shows the job it submitted
last, and stops asking.

### Plan

In order of importance. Groups 1 to 6 are built.

1. `JobStatus`, `ProcessedMessages`, `QueryPipeline`: the life of a job. Proofs in
   `QueryPipeline_proofs` (the table and the statuses) and `Delivery_proofs` (the
   copies in the queues, the leases and the retries).
2. `AtLeastOnce`, `Outbox`: the abstract promise of the outbox and the dispatchers
   that implement it. Proofs in `Outbox_proofs`.
3. `DataSource`: deletion and update against submission and against the worker that
   opens the source. Proofs in `DataSource_proofs`.
4. `ConfirmedPublish`, `ConfirmPublisher`: the publish that groups 1 and 2 take as one
   step, and the confirm channel that implements it. Proofs in
   `ConfirmPublisher_proofs`.
5. `Console`: the web client composed with the API service, the result store with
   its two expiries, and the session token. Proofs in `Console_proofs`.
6. `ResultCells`, `SourceSession`: a session on a user's database, from the name lookup
   to the answered cell. Proofs in `SourceSession_proofs` and `ResultCells_proofs`.
7. Left: a bound on the number of executions of a job, with its proof; the checks of
   the SQL guard over a small syntax of its own.

## 2. The modules

| module | models | kind |
|---|---|---|
| `JobStatus` | statuses, `validTransitions`, the row of a job | definitions |
| `ProcessedMessages` | the table and its repository | component |
| `QueryPipeline` | queues, consumers, worker service; composes the two above | composition |
| `AtLeastOnce` | what the outbox promises | abstract specification |
| `Outbox` | rows and dispatchers | component, implements `AtLeastOnce` |
| `DataSource` | requests on data sources, jobs that open them | component |
| `ConfirmedPublish` | what callers of a publish rely on | abstract specification |
| `ConfirmPublisher` | the confirm channel, its broker and its reader | component, implements `ConfirmedPublish` |
| `Console` | browser tab, API service, result store, session token | composition |
| `ResultCells` | `convertCell`, JSON, `decodeCachedResult` | pure operators |
| `SourceSession` | sessions on users' databases; uses `ResultCells` | component |
| `MCQueryPipeline`, `MCOutbox`, `MCDataSource`, `MCSourceSession` | instances for TLC | model checking |
| `QueryPipeline_proofs`, `Delivery_proofs`, `Outbox_proofs`, `DataSource_proofs`, `ConfirmPublisher_proofs`, `Console_proofs`, `SourceSession_proofs`, `ResultCells_proofs` | theorems | proofs |

### ProcessedMessages and QueryPipeline

`pm[m]` is the row of message id `m`; `lease[w]` is the token worker `w` carries. A
random token is a value no row and no worker remembers (`NewToken`). Time is one
bit: `expired` says that `lease_expires_at` has passed.

`job` is the table `query_jobs`. `main` and `retry` are bags of copies of messages
(id and `x-attempt`), because redelivery, the TTL and competing consumers reorder
them; `dlq` is a set. `wk[w]` is the consumer of a worker:

| field | code |
|---|---|
| `pc` | the next call of `Consumer.handle`, of `Process` or of the run loop |
| `msg` | the delivery in hand |
| `from` | `fromStatus`, `currentStatus`: what the next update compares with |
| `renewing` | the renewal goroutine exists |
| `lost` | `leaseLost` is set and the context of `Process` is cancelled |
| `connected` | the AMQP connection both channels share |

An action contains one access to shared state: a statement or transaction of
MySQL, a write to Redis, a publish with its confirm, an acknowledgement.

| actions | code |
|---|---|
| `Submit`, `Publish`, `RetryElapses` | `CreateAndEnqueue`; the outbox's publish; the TTL of the retry queue |
| `Deliver`, `Reject`, `ClaimGranted`, `ClaimRefused`, `Defer` | `handle` up to the claim and its five results |
| `Load`, `Start` | `Process`: terminal, stale, stuck or runnable; the first update |
| `Generate`, `Validate`, `Execute`, `Store`, `Succeed` | `runPipeline` |
| `Schedule`, `SetRetrying`, `SetFailed` | `scheduleRetryOrFail`: publish, then update |
| `Abandon`, `Missing`, `MarkRetry`, `Complete` | the mapping of the result of `Process` |
| `Ack`, `Nack`, `Fatal` | the three outcomes of the run loop |
| `RenewTick`, `Expire` | the renewal goroutine; the lease |
| `Crash`, `ConnectionLost`, `RenewError`, `Pause`, `DbError`, `PublishOffline`, `PublishError` | the environment |

The language model, the target database and the SQL guard appear through their
outcomes (go on, a permanent failure, a retryable fault), as `runPipeline` tells
them apart. The package `internal/llm` is incomplete in the repository (types it
uses are missing), so its outcomes are taken from `worker_service.go:200-221`.

Faults are bounded by `MaxFaults` and chosen from `FaultKinds`; `FaultPoints` says
where a worker may die or a database call of it may fail. `cached` holds the result
of a job together with the worker that stored it. `MaxSent` bounds how often one id is published from outside
the workers. `Foreign` ids are what `RabbitMQPublisher.Publish` sends, a function
that nothing calls at run time but that the unique key on the job is there for.

### Outbox

`row[e]` is the row of event `e`, `due` and `expired` say whether `next_retry_at`
and `lease_expires_at` have passed. `disp[d]` is a dispatcher: program point, token
and remaining events of its batch, the event at hand, whether its channel is
usable, whether `Stop` was called. `snap[d][e]` is the `attempt_count` it read when
it claimed, the value `ReleaseWithRetry` writes back incremented. `delivered` is what
the broker took; `abandoned` is a ghost: events whose holder crashed or whose
database call failed. A batch may be any set of ready rows of the allowed size:
`SKIP LOCKED` and `LIMIT` without an order promise no more. The order in which a
batch is worked off is any order.

`AtLeastOnce` has one phase per event: none, accepted, sent, settled. The mapping
is `phases`: a row that exists is accepted, sent once the broker took a copy,
settled when it is published or deleted.

### DataSource

`src[s]` is the row of source `s` of one user: absent, live or deleted (`deleted_at`
set), with its settings (address and encrypted password together). `req[r]` is a
request of the API, `job[r]` the job request `r` submits, `opened` what the worker got
when it opened the source in the current run of a job.

| actions | code |
|---|---|
| `Create` | insert and encryption with the id, one transaction |
| `CheckSource`, `Enqueue` | `Submit`: `ExistsForUser` without a transaction, then `CreateAndEnqueue` |
| `FindForDelete`, `CheckJobs`, `SoftDelete` | `Delete`: three statements of one transaction |
| `FindForUpdate`, `BeginPatch`, `Patch`, `LabelTaken`, `ReadBack` | `Update` with and without a new password |
| `Rollback` | a failed statement, a lock wait that times out, a deadlock victim |
| `Move`, `OpenForJob` | a worker changes the status of a job; `FindByIDRaw` |

`Locked(s)` is the shared lock of `HasActiveJobs`. InnoDB under REPEATABLE READ (the
default, which the code does not change) locks the scanned range of the index on
`data_source_id` and its gaps until the transaction ends: jobs of `s` are neither
inserted nor updated meanwhile, but two deletions may hold the lock together. What
waits for a lock is an action that is not enabled; a wait that does not end is
`Rollback`. The plain reads of `Delete` and `Update` see a snapshot, the updates see the
latest row, so every update decides on `deleted_at IS NULL` anew. Jobs move along
`ValidTransitions`, which `QueryPipeline_proofs!TransitionsCorrect` justifies. Other
users' rows, and labels except for the refusal they cause, are left out.

### ConfirmPublisher

`call[m]` is the call of `confirmPub.publish` for message `m`: it waits for the mutex,
selects, drains, or has ended. `at[m]` is what the broker did with the message, `inbox`
the frames on their way to the client in their order, `returns` the Go channel of
capacity 1 that `NotifyReturn` was given, `confirm[m]` the deferred confirmation.
`blame` is history: which returned message made which call fail.

| actions | code |
|---|---|
| `Call`, `Send`, `Refuse` | `Lock`, then `PublishWithDeferredConfirm` that works or fails |
| `TakeReturn`, `Done`, `GiveUp` | the select: a returned message or a closed channel, a confirm or a refusal, timer or context |
| `Drained` | the second, non-blocking select after a confirm |
| `Route`, `Bounce`, `Answer` | the broker (`mandatory`): routed or returned, acked or nacked |
| `Read`, `Close` | the reader of the AMQP library, which blocks on a full channel; channel or connection closed |

A returned message is handed to whichever call listens: the code does not compare
it with its own. The dispatcher discards its channel after a failed publish; the
worker keeps its channels, so it is the worker that meets a stale return.

### Console

`view` is `ConsoleView`: version, timer, flags, the job, status, result and error it
shows. `reqs` are the requests in flight, each with the version and the token it was
sent with; a request is `sent`, then perhaps `read` (`GetResult` has read the row but
not Redis), then has its `headers`. `row`, `store` and `expired` are `query_jobs`,
Redis and `result_expires_at`. `row` also records the version whose submission
created the job, as history.

| actions | code |
|---|---|
| `SubmitQuery`, `Poll` | up to the await |
| `Submitted`, `Polled`, `Fetched`, `Rejected` | after it, behind the version check (parts of `Body`, `NetworkFails`, `Unauthorized`) |
| `Mount`, `Unmount`, `Login`, `Logout`, `TokenExpires` | the router, `cancelActive`, `auth.ts`, the token |
| `List`, `Submit`, `Get`, `ReadRow`, `ReadStore` | the handlers behind the middleware |
| `Fails`, `NetworkFails` | an error with a body; no answer, or a body that breaks off |
| `Finish`, `Lose`, `Expire` | workers, Redis, the clock |

A fetch resolves at the headers and its body is awaited after that, so a request
can be aborted in two places. In the second the behaviour depends on the status:
`client.ts` swallows every failure while it reads the body of an error, an abort
included, so an aborted request still calls back (`Survives`). The list of data
sources has no abort signal at all.

### SourceSession and ResultCells

`ses[s]` is a call of `TestConnection` or of `runPipeline` from `OpenForJob` to the rows:
the addresses the lookup gave, the random name of its dialer, the connections it
made (`dials`), and of the query the rows that are left and got. `want` is history:
the rows the generated statement asks for, up to the maximum. `dialer` is the table
of `mysql.RegisterDialContext`, one per process.

| actions | code |
|---|---|
| `Validate`, `BuildDB` | `netguard.Validate`; `AllInAllowlist` for plaintext, the pinned dialer |
| `Connect` | the driver dials: by the dialer's name, anew for each query |
| `Ping`; `ReadSchema`, `Generate`, `Query`, `Fetch`, `Finish` | the connection test; the stages of a job |
| `Fail` | whatever is refused or breaks, at any point |

The answer of the resolver is a parameter of `Validate` and not a constant: every
lookup may give another one. A fresh random name is one no dialer has. `Generate` has
`rewriteLimit` and `verifyOutermostLimit` in full for every LIMIT and OFFSET, literals or
not; the other refusals of the guard are `Fail`. `LIMIT 0` passes the first and is
rejected by the second.

`ResultCells` follows one cell: the Go value `convertCell` makes of it, the JSON
`json.Marshal` writes, and what `decodeCachedResult` makes of that with `UseNumber`.
Numbers are counted in halves; `MaxInt` and `MaxExact` take the place of 2^63 - 1 and
2^53, and `Float64` rounds to the nearest, ties to even. A float that is whole is
written with the shortest digits that give it back, and then zeros: above 2^53 that
is some whole number which rounds to it (`Digits`), not always the float itself, so
`Answers` is a set. `Text` are the strings; those in `Malformed` are not UTF-8 (BLOB,
BINARY and BIT columns become strings too), and `Repaired` is what `json.Marshal` makes
of them with U+FFFD.

## 3. What is checked

| run | instance | states | shows |
|---|---|---|---|
| `pipeline_lease_kept` | 2 workers, 1 message, 2 retries, 3 faults; leases expire only when nobody renews them | 5.0 million | `RetryIsOnItsWay`, `OnlyTheOwnerWrites`, `ResultIsTheWinners` |
| `pipeline_lease_lost` | the same, 2 faults, with pauses and failed renewals | 1.5 million | `NeverStranded`, `SucceededHasResult`, `OneOwner`, `FollowsTransitions`, `CompletedIsFinal` |
| `pipeline_foreign` | two ids of one job, 1 fault | 126 000 | `OneWorkerPerJob` (that the second id, dead-lettered, strands nothing is `NothingStranded`) |
| `pipeline_recovery` | fairness, 2 crashes or failed database calls | 42 000 | `EverySubmittedJobSettles` |
| `pipeline_stale_retry` | the initial message is published twice, no fault | | `CompletedMeansTerminal` does not hold |
| `pipeline_overwrite` | 2 workers, 2 retries, one pause | | `AttemptNeverGoesBack` does not hold |
| `outbox_safety` | 2 events, 2 dispatchers, batches of 2, 2 faults, fairness | 442 000 | `PublishedWasDelivered`, `OneHolder`, `NoOrphanLease`, `NeverTakenBack`, `DeliversAtLeastOnce`; no deadlock |
| `datasource_safety` | 2 sources, 5 requests, 2 settings | 112 000 | `NoJobSlipsIn`, `JobsKeepTheirSource`, `OneDeletion`, `DeletedIsFrozen` |
| `datasource_retrying` | the same | | `DeletedWhenFinished` does not hold |
| `confirm` | 3 publishes, a channel for 1 return, fairness | 202 000 | `SuccessMeansRouted`, `OneVictimEach`, `OnlyTimeoutsBlock`, `ReaderGoesOn`, `ImplementsConfirmedPublish` |
| `console` | 2 jobs, 2 logins, 3 versions, 2 mounts, 1 poll retry, 2 failed answers, fairness | 860 000 | `ShownIsCurrent`, `ResultFollowsSuccess`, `ExpiredIsTrue`, `OneChain`, `FreshTokenSurvives`, `PollingStops` |
| `session` | 2 sessions, 3 classes of addresses, answers of up to 2, 2 rows at most | 33 000 | `OneTargetOfItsOwn`, `PlaintextOnlyToAllowlisted`, `ResultIsWhole`, `AnsweredAsStored` |

The properties:

- `RetryIsOnItsWay`: a job in `retrying` that no row calls completed has a copy with
  exactly its `attempt_count`, in a queue or in a worker's hands. It is why the retry
  is published before the status is written. It needs leases that are kept: a worker
  whose lease ran out may record an attempt whose copy its successor has settled.
- `NeverStranded`: an unfinished job has a live copy of a message of its own, unless
  a row of it is completed. It covers every crash, nack, fatal error and lost
  connection, and leases that expire under live workers. Both suppose
  `MaxRetries <= MaxSaneAttempt`, which the code does not check (`consumer.go:294`).
- `OnlyTheOwnerWrites`: while leases are kept, a worker writes the job only while it
  owns the lease, although the updates compare the status only.
- `ResultIsTheWinners`: while leases are kept, the result in Redis of a job that
  succeeded is what the worker stored that made it succeed, through takeovers and
  writes that failed after the fact.
- `OneOwner`, `CompletedIsFinal`: the table by itself.
- `SucceededHasResult`: Redis first, then MySQL.
- `FollowsTransitions`: every status change is one of `validTransitions`.
- `OneWorkerPerJob`: two ids of one job do not run at the same time.
- `EverySubmittedJobSettles`: `queued` leads to `succeeded` or `failed` as long as one
  consumer is left.
- `PublishedWasDelivered`, `NeverTakenBack`, `OneHolder`: two dispatchers whose
  leases overlap in time never corrupt a row.
- `NoOrphanLease`: a stop, an unreachable broker and a failed publish give every
  event of the batch back; only a crash or a failed database call leaves a lease
  to expire.
- `DeliversAtLeastOnce`: `Outbox` implements `AtLeastOnce`, fairness included.
- `NoJobSlipsIn`: from the count to the end of a deletion no counted job appears.
- `JobsKeepTheirSource`: a submission whose check was overtaken by a deletion, and a
  retry after one, still find the row.
- `OneDeletion`: concurrent deletions that passed the same checks have one winner.
- `DeletedIsFrozen`: an update that read the row before a deletion changes nothing.
- `SuccessMeansRouted`: a publish that returns nil has its message in a queue, though
  return and confirm come on two channels and a select takes either.
- `OneVictimEach`: a stale return makes a later publish fail that did nothing wrong,
  but each publish that timed out or was refused costs at most one.
- `OnlyTimeoutsBlock`, `ReaderGoesOn`: the reader of the connection waits on a channel
  nobody empties, and stops, only when more publishes timed out or were refused than
  the channel has room for. It also carries the worker's deliveries.
- `ImplementsConfirmedPublish`: what the outbox and the pipeline assume of a publish,
  that every call ends included.
- `ShownIsCurrent`: no callback of a cancelled request reaches a visible view, neither
  after a new submission nor after leaving and coming back.
- `ResultFollowsSuccess`: rows are shown only for a job that is known to have succeeded.
- `ExpiredIsTrue`: 410 and 503 are not mixed up at the boundary of the two expiries.
- `OneChain`: a spinning view has exactly one timer or request to wait for.
- `FreshTokenSurvives`: a late refusal of an old token ends no new session, except that
  of the list of data sources.
- `PollingStops`: polling ends.
- `OneTargetOfItsOwn`: the test, the schema and the query of a session reach one
  address, checked and its own, although other sessions register dialers in between
  and the name may resolve differently by then.
- `PlaintextOnlyToAllowlisted`: without TLS only into the allowlist.
- `ResultIsWhole`: neither the rewritten LIMIT nor the cap nor a broken connection takes
  rows away unnoticed.
- `AnsweredAsStored`: integers, also those beyond 2^53 and 2^63, and UTF-8 strings are
  answered as the database holds them, and only NULL is null. A floating-point number
  is answered as a number with the same float64, which beyond 2^53 need not be the
  same number; a string that is not UTF-8 is answered as some string.

### Three disagreements

*A retry can be swallowed* (`pipeline_stale_retry`). A copy with an attempt other than
`attempt_count` makes `Process` return nil while the job is `retrying`
(`worker_service.go:122-133`). The consumer takes nil for "terminal state
persisted" (`service.go:68`) and completes the row (`consumer.go:210-216`). The real
retry then meets `ClaimAlreadyDone` and is acknowledged. The trace needs two
copies of the initial message and no fault; the outbox may publish twice. A crash, a
lost connection or a failed call between the confirm of the retry and the
acknowledgement of its predecessor leads to the same state by redelivery.
`NeverStranded` and `RetryIsOnItsWay` except a completed row for this reason.

*A paused worker overwrites its successor* (`pipeline_overwrite`). The updates of
`query_jobs` compare the status only, which `docs/ARCHITECTURE.md:228` and
`docs/PLAN.md:49` call enough to prevent terminal states from being reverted and
concurrent overwriting. The first holds (`FollowsTransitions`). For the second, a
status is not a version: a job is in `generating` in every attempt. A worker that
publishes retry 1 and is then paused past its lease finds `generating` again when its
successor has scheduled retry 2 and started it; its `SetRetrying` goes through and
puts back `retrying` and attempt 1 while attempt 2 runs. The successor's next update
then fails, and its consumer stops. (The lease token is a column of
`processed_messages`, and every write of that table checks it: `OneOwner`.)

*A source is deleted under a retrying job* (`datasource_retrying`). `HasActiveJobs` counts
five statuses and leaves out `retrying` (`datasource/repository.go:180`), while its
contract (`repository.go:31`, `errors.go:13-14`) speaks of any non-terminal job. The
deletion succeeds, and the retry runs on the deleted source; `JobsKeepTheirSource`
shows that it finds the row.

### Bounds

Two workers are enough for an owner and its successor, and for an old and a new
copy; two retries give a first, a middle and a last attempt. A lost retry takes at
most two copies of different attempts. Two faults allow a crash during the
recovery from a crash, three a failure after that. Two dispatchers and two events
show a batch that is split by a takeover and one that is worked off partly. Tokens
never run out: there is one more than rows and holders (an `ASSUME` in the MC
modules).

Five requests on one source and another allow a creation, a submission, an update
and two concurrent deletions. Requests and settings are interchangeable, so
symmetry is used; none of that run's properties is a liveness property.

Three publishes against one place: one whose return comes late, the one that takes
it, and one more that can overfill the channel. In the console three versions allow
a submission, a second one and a return to the page; two logins an old and a fresh
token; two failed answers one retry and one failure. Results are lost and expire
only while the view shows their job (`Watched`), since nothing asks for the others.
In `session` the addresses are one of each class (not blocked; blocked; blocked but
allowlisted), an answer may mix two, tables have more rows than the maximum on both
sides of LIMIT and OFFSET, numbers lie on both sides of both widths, and of four
strings two are UTF-8 and two are not. Names and
sessions are interchangeable; the run has no liveness property.

The pipeline's runs do not check deadlock: when the jobs are settled and the
queues empty, the workers wait; nor do those of the data sources, the publishes, the
console and the sessions, where requests run once or up to a bound. The outbox never stops, and its runs check it.

### Fairness

`FairSpec` of the pipeline: the broker delivers every copy that is available again
and again (strong, since idle workers come and go), TTLs and leases elapse, a
running worker takes its next step, the ticker ticks, and the dispatcher publishes
the event of a queued job at least once, which is what `outbox_safety` shows.
Submitting and faults are not fair. Which outcome a stage has is not fair either:
a stage may fail for ever, and the bounded retries must settle the job.

`pipeline_recovery` allows crashes and failed database calls at every point at which no second copy of the next
attempt has been published, or the row is about to be completed. After the
confirm of a retry (`setretrying`, `markretry`, `ack` of a retry) a crash may swallow
the retry as described above, so those points are left out. A failed database call stops
the consumer for good (`consumer.go:78-82`) and the worker process does not start
another; the property therefore ends where no consumer is left.

`FairSpec` of the outbox: the dispatchers' loops go on, processes are started again,
backoffs and leases elapse. It does not assume that one given dispatcher wins a row.

`FairSpec` of the publisher: the mutex serves its waiters (strong; `sync.Mutex` hands
itself over to one that waited long), the timer of the publish fires, a ready
select goes on, the reader reads while it can. The broker owes nothing: it may never
confirm. `FairSpec` of the console: timers fire, the requests that matter are
answered in one way or another, jobs settle, which is `EverySubmittedJobSettles`.
The user owes nothing. The sessions have only safety properties.

## 4. What is proved

For every number of workers, messages, jobs, events, dispatchers, tokens, publishes,
requests, addresses and sessions, every batch size, every capacity, every row limit, every
number of retries and of faults. The assumptions are those the modules state by
name (`PMAssumption`, `PipelineAssumption`, `NoCopyAssumption`, `OutboxAssumption`,
`DataSourceAssumption`, `CapacityAssumption`, `ConsoleAssumption`, `NameAssumption`, `ValueAssumption`,
`BoundsAssumption`, `WidthAssumption`, `TextAssumption`): what stands for "none" is not
one of the things it is none of, values are integers or strings, a repaired string
is UTF-8, jobs and session tokens are numbered, the bounds are natural numbers, and at
least one row may be fetched (`Validate` of the guard refuses less, the executor
falls back to 100).

| theorem | says |
|---|---|
| `Outbox_proofs!TypeCorrect`, `PublishedCorrect`, `OneHolderCorrect`, `TakenBackCorrect`, `OrphanCorrect` | `Spec` implies the properties of the same names |
| `Outbox_proofs!Implements` | `Spec` implies `Abstract!Spec` |
| `QueryPipeline_proofs!TypeCorrect`, `OneOwnerCorrect`, `ResultCorrect`, `TransitionsCorrect`, `CompletedCorrect` | `Spec` implies `TypeOK`, `OneOwner`, `SucceededHasResult`, `FollowsTransitions`, `CompletedIsFinal` |
| `DataSource_proofs!TypeCorrect`, `NoJobSlipsInCorrect`, `SourceCorrect`, `OneDeletionCorrect`, `FrozenCorrect` | `Spec` implies `TypeOK`, `NoJobSlipsIn`, `JobsKeepTheirSource`, `OneDeletion`, `DeletedIsFrozen` |
| `Delivery_proofs!NothingStranded` | `Spec` implies `NeverStranded` |
| `Delivery_proofs!OneWorkerCorrect`, `OwnerWritesCorrect`, `WinnersCorrect`, `RetryCorrect` | where leases are kept, `Spec` implies `OneWorkerPerJob`, `OnlyTheOwnerWrites`, `ResultIsTheWinners`, `RetryIsOnItsWay` |
| `ConfirmPublisher_proofs!TypeCorrect`, `RoutedCorrect`, `VictimsCorrect`, `BlockingCorrect` | `Spec` implies `TypeOK`, `SuccessMeansRouted`, `OneVictimEach`, `OnlyTimeoutsBlock` |
| `ConfirmPublisher_proofs!Implements` | `Spec` implies the initial states and the steps of `ConfirmedPublish` |
| `Console_proofs!TypeCorrect`, `ShownCorrect`, `ResultCorrect`, `ExpiredCorrect`, `ChainCorrect`, `SessionCorrect` | `Spec` implies `TypeOK`, `ShownIsCurrent`, `ResultFollowsSuccess`, `ExpiredIsTrue`, `OneChain`, `FreshTokenSurvives` |
| `SourceSession_proofs!TypeCorrect`, `TargetCorrect`, `PlaintextCorrect`, `RowsCorrect`, `AnswersCorrect` | `Spec` implies `TypeOK`, `OneTargetOfItsOwn`, `PlaintextOnlyToAllowlisted`, `ResultIsWhole`, `AnsweredAsStored` |
| `ResultCells_proofs!CellsCorrect` | every cell of every number and string is answered, and only as `Faithful` allows, whatever the two widths and the strings |

**Outbox.** `PublishedWasDelivered` is not inductive: a dispatcher that is about to mark an
event might not have published it. `Inv` adds `MarkAfterConfirm` (at `mark`, the
current event was delivered). `NeverTakenBack` needs that a row with a token is
`publishing` (`TokenMeansPublishing`), so that `ReleaseWithRetry`, which does not look
at the status, cannot touch a published row, and that what a dispatcher read of
`attempt_count` is still current while its token is in the row (`SnapIsCurrent`).
Both rest on `TokensDiffer`: two dispatchers never carry the same token. The proof
first describes what any step does to the dispatchers, to one row and to what
was delivered (`DispMoves`, `RowMoves`, `WhoWrites`), and then derives each part of
`Inv` from these. `Implements` uses `Inv` to show that a row is marked only when its
event is in phase `sent`. `OrphanCorrect` adds `BatchShape`: the event at hand is in the
batch, and between two batches none is left, so that a loop that returns or claims
leaves nothing behind; `HolderStep` then follows one holder of one lease through
every step.

**Pipeline.** `Inv` adds to `TypeOK` and `SucceededHasResult`: `SoundConsumer` (program point,
delivery and `from` agree: the status the next update expects is one from which
its target is a valid transition), `LeasesDiffer` (two workers never carry the same
token) and `StoredBeforeSuccess` (a worker at `succeed` has stored the result of its
job). `FollowsTransitions` then holds step by step, because each update compares the
status with `from`. `OneOwner` follows from `LeasesDiffer` alone and does not depend on
the renewal: it also holds when leases expire under live workers.

**Delivery.** A step is a step of one worker or of its surroundings. `Moves`, `RowMove`
and `CopyMove` say once what a step of a worker may do to the worker, to the rows and
to the copies; three invariants rest on them.

`NeverStranded` is not inductive: the copy that keeps a message alive may be the one
a worker is about to acknowledge. A worker is done with its copy in four places
(`Settles`): the row is completed already, it completes it now, another id has the row
of the job, or the retry is marked. `Lives` has a part for each: a worker between the
publish of the next attempt and `markretry` has a copy with a higher attempt to
leave behind, or the row is completed (`Superseded`); a message is rejected only when
another id handles its job (`RejectedHasRow`, from the unique key, `OneRowPerJob`); an
inserted row that is not completed has a live copy (`RowIsAlive`), and a message that
was sent or delivered has a live copy or belongs to a job that some id handles
(`SentLives`, `DeliveredLives`). Nothing is assumed about leases: a worker whose token
is gone settles nothing, and its copy goes back to the queue.

`OneWorkerPerJob`, `OnlyTheOwnerWrites` and `ResultIsTheWinners` are proved where
leases are kept, `LeasesKept`: the fault kinds `pause` (a worker stands still longer
than its lease) and `renewerr` (a renewal fails) do not happen. Every other fault may,
crashes and takeovers included. The hypothesis cannot be dropped: on the instance of
`pipeline_lease_lost` TLC refutes the three and `RetryIsOnItsWay` too, and
`pipeline_overwrite` shows what follows. `Kept` says that between claim and release a worker's
renewal runs and its row carries its token, unexpired (`KeepsLease`), so that nobody
else is past a claim of the same job; and that therefore what it knows of the job's row
(`from`, the attempt, its result in Redis) is true (`Agrees`).

`RetryIsOnItsWay` rests on both. `Announced` says that a worker about to write
`retrying` has a copy of the next attempt out (`Scheduled`), and that a job in
`retrying` with an open row has a copy of the recorded attempt (`RetryHasCopy`). The
copy that is settled next is then never that one: its owner either leaves the
next attempt behind or completes the row.

**Data sources.** `Inv` adds `RefersToRow`: what a request found, and what a job refers to,
is the id of a row. Rows stay (`RowsStay`), which gives `JobsKeepTheirSource`, and
a deleted row does not change, which is `DeletedIsFrozen`. `NoJobSlipsIn` is
inductive because a job of a locked source does not move (`JobMoves`), and
`OneDeletion` because only `SoftDelete` deletes (`OnlySoftDelete`), on a live row.

**Confirm channel.** `SuccessMeansRouted` is not inductive: a call that drains must not
have its own return still to come. The broker sends the return before the
confirm, so behind an ack in `inbox` there is no return of its message
(`AckComesLast`), unless one already waits in the channel; once the ack is read, the
channel holds a return (`AckedHasReturn`), because only the holder of the mutex
(`OneHolder`) takes one and then fails; hence a draining call that finds the channel
empty has a routed message (`DrainingIsSettled`). That the channel may belong to a
closed connection is why `Drained` asks for an open one. `Implements` maps the calls
that wait, select or drain to `pending`.

`OneVictimEach` counts, and no counting argument works on `Stale` alone, because a call
that gave up may not have had its message returned yet. `Debt` adds these calls to
`Stale`, and `Tally` says that debts and victims together are at most the calls that
ended without draining. Each step moves the three numbers in one of five ways
(`TallyMoves`): it adds nothing; a call gives up and owes; the return of a call that
ended is taken by another, which becomes a victim, or which passes the debt on because
its own message came back too; or a victim's own message is bounced. That the taken return
belongs to a call that has ended rests on `OneHolder`, that it is paid once on `Once`:
a return is in one place. The set of calls may be infinite; those that have begun are
finitely many (`BegunFinite`). `OnlyTimeoutsBlock` follows: the returns in a full
channel and the one at the head of the inbox belong to different calls, all of them
ended (`FullChannel`), so there is one more of them than the channel has room for.

**Console.** Not even `TypeOK` is inductive: that a request names a job needs `Truth`, which says
of every request, cancelled ones included, that its job was created by the
submission of its version, that a result is only asked for after a success, and
that the answers it holds are true and stay so. `OneAtATime` says of the request
or timer the view waits for that it is the only one, that the flags of the view
agree with it, and that nothing is shown yet that its answer could contradict;
with the version check this gives `Shown`. `SessionHeld` says that what waits for the
API carries the token of the tab, and that a view that was left has nothing
waiting, which is where `onUnmounted(cancelActive)` matters.

**Sessions.** `Pinned` says that a session past `buildDB` has a name of its own table entry,
that the entry is the first address of its own answer, and that all it dialled is
that address. It is inductive because an entry is never replaced (`StepOf`), which
is where the fresh name matters. `Rows` says that rows got and rows left make up
the rows wanted, up to the maximum; that the rewritten LIMIT yields what the
original yields, cut at the maximum, is a lemma about the guard. `CellsCorrect` follows a
cell by its kind: an integer is written as itself whatever becomes of it in Go
(`IntegerSurvives`), a string is replaced only if it is not UTF-8 (`StringSurvives`), and
whatever digits a float is written with round back to it (`FloatSurvives`). That there
is an answer at all (`IsAnswered`) keeps the statement from being empty.

Only model-checked: the liveness results, `EverySubmittedJobSettles`, `ReaderGoesOn`,
`PollingStops`, and the fairness half of the two refinements. They need ENABLED and
fairness, which are out of the prover's reach. Every invariant and every action property
the passing runs check is proved.

## 5. What is not modelled

- The checks of the SQL guard on the syntax tree, and the scoping of names they
  need: they walk the classes of an external parser. A statement they refuse is a
  `Fail` of the session, so nothing is shown about which statements they refuse.
- The parsing of host names, ports and of the configuration: pure checks of text.
- The schema reader and the language model: `internal/llm` is incomplete in the
  repository (types it uses are missing). Their outcomes are in the pipeline.
- Registration, passwords and encryption: one statement each, or cryptography.
- Health checks, the other views of the client, and the order in which the HTTP
  server and the workers are shut down.

Within the modelled parts: the values of rows and of messages, the length of leases
and backoffs (whether they have passed is what the code asks), and input
validation; the fatal error of a failed `json.Marshal`
(`worker_service.go:276-279`), which no cell causes; a message id whose row names another
job or type (`idempotency.go:165`), since an id has one job. `FreshTokenSurvives` is about
the console's requests: a late 401 of an unaborted request of the data source view,
and one of the login view itself, may clear a fresh token too, and are left out with
these views. The pipeline does not model data sources and `DataSource` does not model
workers: they meet in the status of a job. The pipeline and the outbox take a
publish as one step with an unknown outcome, which is what `ConfirmedPublish` allows.

Some things met on the way that no run is about. The processes do not build at this
commit: `cmd/worker/main.go` hands `OpenForJob`, which returns four values, to a
`DataSourceOpener`, which wants five; the model follows the worker's side and its
schema reader. `client.ts` replaces the body of every 401 by
`unauthorized`, so that the branch of `LoginView` for `invalid_credentials` is never
taken. `json.Marshal` writes the float64 3.0 as `3`, and `normalizeNumber` makes an `int64`
of it, although its comment (`queryresult/redis_store.go:111-112`) and a test
(`result_test.go:85-86`, which tries 3.14) say that the types survive; above 2^53 the
`int64` may be another whole number with the same float64. Strings that are not UTF-8,
as BLOB, BINARY and BIT columns may hold them, become strings with U+FFFD in Redis
(`queryexec/executor.go:115-118`, `queryresult/redis_store.go:37-43`).
