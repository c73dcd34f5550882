---------------------------- MODULE QueryPipeline ----------------------------
(* The life of a query job between its submission and its terminal status:     *)
(* the main, retry and dead-letter queues, the consumers (Consumer.handle) and *)
(* the worker service they call (WorkerService.Process), the rows of           *)
(* query_jobs and of processed_messages.                                       *)
(*                                                                             *)
(* Every action contains at most one access to shared state (one MySQL         *)
(* statement or transaction, one Redis write, one publish, one ack), so the    *)
(* model has every interleaving of two workers the code has.                   *)
(*                                                                             *)
(* A copy of a message is its id and its x-attempt header.  Queues are bags of *)
(* copies: redelivery, the retry TTL and competing consumers reorder them.     *)
EXTENDS ProcessedMessages, JobStatus

CONSTANTS MaxRetries,      \* RETRY_MAX_ATTEMPTS
          MaxSaneAttempt,  \* maxSaneAttempt of extractAttempt
          Foreign,         \* ids published by Publisher.Publish, not the outbox
          MaxSent,         \* bound: copies the publisher side puts in the queue
          FaultKinds,      \* kinds of environment faults that may happen
          MaxFaults,       \* bound: faults in one behaviour
          FaultPoints,     \* program points at which a worker may crash or lose
                           \* its database
          NoCopy           \* the delivery of an idle worker

ASSUME PipelineAssumption ==
    /\ MaxRetries \in Nat
    /\ MaxSaneAttempt \in Nat
    /\ MaxSent \in Nat
    /\ MaxFaults \in Nat
    /\ Foreign \subseteq Message

Copy == [id : Message, attempt : 0..MaxRetries]

ASSUME NoCopyAssumption == NoCopy \notin Copy

VARIABLES job,      \* the rows of query_jobs
          main,     \* copies in the main queue
          retry,    \* copies in the fixed-TTL retry queue
          dlq,      \* copies that were dead-lettered
          cached,   \* the results in Redis: the job, the worker that stored it
          sent,     \* how often each id was published from outside the workers
          wk,       \* the consumer of each worker process
          faults    \* environment faults so far

queues == <<main, retry, dlq>>
pipelineVars == <<pm, lease, job, main, retry, dlq, cached, sent, wk, faults>>

\* Program points of one delivery.  From "claimed" to "error" the code runs
\* inside Process, while the renewal goroutine of the consumer is ticking.
Processing == { "claimed", "start", "generating", "validating", "executing",
                "store", "succeed", "retry", "setretrying", "setfailed", "error" }
Consuming == { "received", "reject", "defer", "missing", "markretry",
               "complete", "ack", "nack" }
PC == { "idle", "stopped" } \union Consuming \union Processing

Consumer == [pc : PC, msg : Copy \union {NoCopy},
             from : Status \union {"absent"},
             renewing : BOOLEAN, lost : BOOLEAN, connected : BOOLEAN]

Idle == [pc |-> "idle", msg |-> NoCopy, from |-> "absent",
         renewing |-> FALSE, lost |-> FALSE, connected |-> TRUE]
Stopped == [Idle EXCEPT !.pc = "stopped", !.connected = FALSE]

TypeOK ==
    /\ PMTypeOK
    /\ job \in [Job -> JobRow]
    /\ main \in [Copy -> Nat]
    /\ retry \in [Copy -> Nat]
    /\ dlq \subseteq Copy
    /\ cached \subseteq Job \X Worker
    /\ sent \in [Message -> 0..MaxSent]
    /\ wk \in [Worker -> Consumer]
    /\ faults \in 0..MaxFaults

Init ==
    /\ PMInit
    /\ job = [j \in Job |-> NoJob]
    /\ main = [c \in Copy |-> 0]
    /\ retry = [c \in Copy |-> 0]
    /\ dlq = {}
    /\ cached = {}
    /\ sent = [m \in Message |-> 0]
    /\ wk = [w \in Worker |-> Idle]
    /\ faults = 0
-----------------------------------------------------------------------------
\* Helpers.

Put(queue, c) == [queue EXCEPT ![c] = @ + 1]
Take(queue, c) == [queue EXCEPT ![c] = @ - 1]

At(w, pc) == wk[w].pc = pc
Goto(w, pc) == wk' = [wk EXCEPT ![w].pc = pc]
MsgId(w) == wk[w].msg.id
Attempt(w) == wk[w].msg.attempt
JobId(w) == JobOf[MsgId(w)]

\* The context of Process is live: the renewal has not reported a lost lease.
Running(w, pc) == At(w, pc) /\ ~wk[w].lost

\* Mutant of Cas: UPDATE query_jobs ... WHERE id = ?
Cas_Unconditional(w, from, row, next) ==
    /\ job' = [job EXCEPT ![JobId(w)] = row]
    /\ wk' = [wk EXCEPT ![w] = [@ EXCEPT !.pc = next, !.from = row.status]]

\* UPDATE query_jobs ... WHERE id = ? AND status = from; no row affected is
\* ErrStatusConflict.
Cas(w, from, row, next) ==
    \/ /\ job[JobId(w)].status = from
       /\ job' = [job EXCEPT ![JobId(w)] = row]
       /\ wk' = [wk EXCEPT ![w] = [@ EXCEPT !.pc = next, !.from = row.status]]
    \/ /\ job[JobId(w)].status # from
       /\ Goto(w, "error")
       /\ UNCHANGED job

\* TransitionStatus, SetSucceeded, SetFailed keep attempt_count.
CasStatus(w, from, to, next) ==
    Cas(w, from, [job[JobId(w)] EXCEPT !.status = to], next)

Fault(kind) ==
    /\ kind \in FaultKinds
    /\ faults < MaxFaults
    /\ faults' = faults + 1
-----------------------------------------------------------------------------
\* The API side and the broker.

\* Service.Submit: job and outbox event in one transaction; the job is queued
\* when the transaction commits.
Submit(j) ==
    /\ job[j].status = "absent"
    /\ \E m \in Message \ Foreign : JobOf[m] = j
    /\ job' = [job EXCEPT ![j] = [status |-> "queued", attempt |-> 0]]
    /\ UNCHANGED <<pm, lease, queues, cached, sent, wk, faults>>

\* The dispatcher publishes the outbox event of a submitted job; a lost confirm,
\* a crash or an expired outbox lease makes it publish again.  A foreign id is
\* what Publisher.Publish (publisher.go:146-174) would send, which nothing calls:
\* a message with an id of its own, whatever the state of the job it names.
Publish(m) ==
    /\ m \in Foreign \/ job[JobOf[m]].status # "absent"
    /\ sent[m] < MaxSent
    /\ sent' = [sent EXCEPT ![m] = @ + 1]
    /\ main' = Put(main, [id |-> m, attempt |-> 0])
    /\ UNCHANGED <<pm, lease, job, retry, dlq, cached, wk, faults>>

\* The TTL of the retry queue elapses: the copy is dead-lettered to the main queue.
RetryElapses(c) ==
    /\ retry[c] > 0
    /\ retry' = Take(retry, c)
    /\ main' = Put(main, c)
    /\ UNCHANGED <<pm, lease, job, dlq, cached, sent, wk, faults>>

\* A delivery (prefetch 1): the envelope is checked before anything else.
Deliver(w, c) ==
    /\ At(w, "idle")
    /\ main[c] > 0
    /\ main' = Take(main, c)
    /\ wk' = [wk EXCEPT ![w] =
                 [Idle EXCEPT !.pc = IF c.attempt > MaxSaneAttempt THEN "reject"
                                                                   ELSE "received",
                              !.msg = c]]
    /\ UNCHANGED <<pm, lease, job, retry, dlq, cached, sent, faults>>
-----------------------------------------------------------------------------
\* Consumer.handle before Process.

\* dlqDirect: dead-letter without touching processed_messages, then ACK.
Reject(w) ==
    /\ At(w, "reject") /\ wk[w].connected
    /\ dlq' = dlq \union {wk[w].msg}
    /\ Goto(w, "ack")
    /\ UNCHANGED <<pm, lease, job, main, retry, cached, sent, faults>>

ClaimGranted(w) ==
    /\ At(w, "received")
    /\ Claim(w, MsgId(w))
    /\ wk' = [wk EXCEPT ![w] = [@ EXCEPT !.pc = "claimed", !.renewing = TRUE]]
    /\ UNCHANGED <<job, queues, cached, sent, faults>>

\* Mutant of ClaimRefused: a held lease is acknowledged without deferring.
ClaimRefused_Drop(w) ==
    /\ At(w, "received")
    /\ \/ AlreadyDone(MsgId(w)) /\ Goto(w, "ack")
       \/ LeaseHeld(MsgId(w)) /\ Goto(w, "ack")
       \/ ClaimConflict(MsgId(w)) /\ Goto(w, "reject")
    /\ UNCHANGED <<pm, lease, job, queues, cached, sent, faults>>

ClaimRefused(w) ==
    /\ At(w, "received")
    /\ \/ AlreadyDone(MsgId(w)) /\ Goto(w, "ack")
       \/ LeaseHeld(MsgId(w)) /\ Goto(w, "defer")
       \/ ClaimConflict(MsgId(w)) /\ Goto(w, "reject")
    /\ UNCHANGED <<pm, lease, job, queues, cached, sent, faults>>

\* Lease held by another worker: the same attempt goes to the retry queue.
Defer(w) ==
    /\ At(w, "defer") /\ wk[w].connected
    /\ retry' = Put(retry, wk[w].msg)
    /\ Goto(w, "ack")
    /\ UNCHANGED <<pm, lease, job, main, dlq, cached, sent, faults>>
-----------------------------------------------------------------------------
\* WorkerService.Process.

\* A retrying job whose attempt_count is not the delivered attempt.
StaleAttempt(w) ==
    /\ job[JobId(w)].status = "retrying"
    /\ job[JobId(w)].attempt # Attempt(w)

\* FindByID and the decision on the status it returned.
Load(w) ==
    LET s == job[JobId(w)].status IN
    /\ Running(w, "claimed")
    /\ \/ s = "absent" /\ Goto(w, "missing")
       \/ (s \in Terminal \/ StaleAttempt(w)) /\ Goto(w, "complete")
       \/ /\ s \in {"queued", "retrying"} /\ ~StaleAttempt(w)
          /\ wk' = [wk EXCEPT ![w] = [@ EXCEPT !.pc = "start", !.from = s]]
       \/ /\ s \in InPipeline
          /\ wk' = [wk EXCEPT ![w] = [@ EXCEPT !.pc = "retry", !.from = s]]
    /\ UNCHANGED <<pm, lease, job, queues, cached, sent, faults>>

\* queued or retrying -> generating
Start(w) ==
    /\ Running(w, "start")
    /\ CasStatus(w, wk[w].from, "generating", "generating")
    /\ UNCHANGED <<pm, lease, queues, cached, sent, faults>>

\* A retryable fault of the stage (data source, schema, LLM, executor).
StageFault(w, stage) ==
    /\ Running(w, stage)
    /\ Goto(w, "retry")
    /\ UNCHANGED <<pm, lease, job, queues, cached, sent, faults>>

\* Open the data source, read the schema, call the LLM.
Generate(w) ==
    \/ /\ Running(w, "generating")
       /\ \/ CasStatus(w, "generating", "validating", "validating")
          \/ CasStatus(w, "generating", "failed", "complete")
       /\ UNCHANGED <<pm, lease, queues, cached, sent, faults>>
    \/ StageFault(w, "generating")

\* The SQL guard accepts or rejects; it fails otherwise only when cancelled.
Validate(w) ==
    /\ Running(w, "validating")
    /\ \/ CasStatus(w, "validating", "executing", "executing")
       \/ CasStatus(w, "validating", "failed", "complete")
    /\ UNCHANGED <<pm, lease, queues, cached, sent, faults>>

\* Execute: rows that fit, a permanent error or an oversized result, or a
\* retryable error.  json.Marshal does not fail on what convertCell makes of a cell
\* (nil, int64, a finite float64, a string), so the fatal error of a failed Marshal
\* (worker_service.go:276-279) is left out.
Execute(w) ==
    \/ /\ Running(w, "executing")
       /\ \/ Goto(w, "store") /\ UNCHANGED job
          \/ CasStatus(w, "executing", "failed", "complete")
       /\ UNCHANGED <<pm, lease, queues, cached, sent, faults>>
    \/ StageFault(w, "executing")

\* SetRaw replaces what is stored under the key of the job.
Stored(w) == { r \in cached : r[1] # JobId(w) } \union { <<JobId(w), w>> }

\* Mutant of Store: the error of SetRaw is swallowed.
Store_Unchecked(w) ==
    /\ Running(w, "store")
    /\ Goto(w, "succeed")
    /\ UNCHANGED <<pm, lease, job, queues, cached, sent, faults>>

\* SetRaw writes Redis before MySQL learns of the success.  A call that fails
\* may have written all the same.
Store(w) ==
    /\ Running(w, "store")
    /\ \/ cached' = Stored(w) /\ Goto(w, "succeed")
       \/ cached' \in {cached, Stored(w)} /\ Goto(w, "retry")
    /\ UNCHANGED <<pm, lease, job, queues, sent, faults>>

Succeed(w) ==
    /\ Running(w, "succeed")
    /\ CasStatus(w, "executing", "succeeded", "complete")
    /\ UNCHANGED <<pm, lease, queues, cached, sent, faults>>

\* scheduleRetryOrFail up to the confirm of the publish.  The publish is made
\* even when the context is cancelled; its caller then sees an error.
NextAttempt(w) == Attempt(w) + 1
HasRetryLeft(w) == NextAttempt(w) <= MaxRetries
\* Mutants of the publishes: the attempt is not incremented, or once too often.
PublishRetry_SameAttempt(w) ==
    /\ retry' = Put(retry, wk[w].msg)
    /\ UNCHANGED <<main, dlq>>
PublishDLQ_NextAttempt(w) ==
    /\ dlq' = dlq \union {[id |-> MsgId(w), attempt |-> NextAttempt(w)]}
    /\ UNCHANGED <<main, retry>>

PublishRetry(w) ==
    /\ retry' = Put(retry, [id |-> MsgId(w), attempt |-> NextAttempt(w)])
    /\ UNCHANGED <<main, dlq>>
PublishDLQ(w) ==
    /\ dlq' = dlq \union {wk[w].msg}
    /\ UNCHANGED <<main, retry>>
Schedule(w) ==
    /\ At(w, "retry") /\ wk[w].connected
    /\ \/ HasRetryLeft(w) /\ PublishRetry(w)
          /\ Goto(w, IF wk[w].lost THEN "nack" ELSE "setretrying")
       \/ ~HasRetryLeft(w) /\ PublishDLQ(w)
          /\ Goto(w, IF wk[w].lost THEN "nack" ELSE "setfailed")
    /\ UNCHANGED <<pm, lease, job, cached, sent, faults>>

\* The status the job is written in after the publish, with the new attempt.
SetRetrying(w) ==
    /\ Running(w, "setretrying")
    /\ Cas(w, wk[w].from, [status |-> "retrying", attempt |-> NextAttempt(w)],
           "markretry")
    /\ UNCHANGED <<pm, lease, queues, cached, sent, faults>>

SetFailed(w) ==
    /\ Running(w, "setfailed")
    /\ CasStatus(w, wk[w].from, "failed", "complete")
    /\ UNCHANGED <<pm, lease, queues, cached, sent, faults>>

\* The context was cancelled (lease lost): the next call fails and Process
\* returns, from some stages through scheduleRetryOrFail.
Abandon(w) ==
    /\ wk[w].lost
    /\ \/ wk[w].pc \in Processing \ {"retry"} /\ Goto(w, "nack")
       \/ wk[w].pc \in {"generating", "validating", "store"} /\ Goto(w, "retry")
    /\ UNCHANGED <<pm, lease, job, queues, cached, sent, faults>>
-----------------------------------------------------------------------------
\* Consumer.handle after Process, and the run loop.

\* ErrJobNotFound: dead-letter, then complete.
Missing(w) ==
    /\ At(w, "missing") /\ wk[w].connected
    /\ PublishDLQ(w)
    /\ Goto(w, "complete")
    /\ UNCHANGED <<pm, lease, job, cached, sent, faults>>

MarkRetry(w) ==
    /\ At(w, "markretry")
    /\ \/ MarkRetryScheduled(w, MsgId(w)) /\ Goto(w, "ack")
       \/ ~CanMarkRetryScheduled(w, MsgId(w)) /\ Goto(w, "nack") /\ UNCHANGED pmVars
    /\ UNCHANGED <<job, queues, cached, sent, faults>>

Complete(w) ==
    /\ At(w, "complete")
    /\ \/ MarkCompleted(w, MsgId(w)) /\ Goto(w, "ack")
       \/ ~Owns(w, MsgId(w)) /\ Goto(w, "nack") /\ UNCHANGED pmVars
    /\ UNCHANGED <<job, queues, cached, sent, faults>>

\* Mutant of Requeue: Nack(false, false).
Requeue_Discard(w) == main' = IF wk[w].connected THEN main ELSE main

\* The worker gives its delivery back.  When the connection is gone the broker
\* already has it.
Requeue(w) == main' = IF wk[w].connected THEN Put(main, wk[w].msg) ELSE main

\* After Ack or Nack the loop takes the next delivery; a closed delivery channel
\* ends it.
LoopOn(w) ==
    /\ wk' = [wk EXCEPT ![w] = IF wk[w].connected THEN Idle ELSE Stopped]
    /\ Forget(w)

Ack(w) ==
    /\ At(w, "ack")
    /\ LoopOn(w)
    /\ UNCHANGED <<job, queues, cached, sent, faults>>

Nack(w) ==
    /\ At(w, "nack")
    /\ Requeue(w)
    /\ LoopOn(w)
    /\ UNCHANGED <<job, retry, dlq, cached, sent, faults>>

\* Process returned an unexpected error: outcomeFatal closes the channel and
\* ends the consumer for good, unless the lease is known to be lost.
Fatal(w) ==
    /\ Running(w, "error")
    /\ Requeue(w)
    /\ wk' = [wk EXCEPT ![w] = Stopped]
    /\ Forget(w)
    /\ UNCHANGED <<job, retry, dlq, cached, sent, faults>>
-----------------------------------------------------------------------------
\* The lease and its renewal goroutine.

RenewTick(w) ==
    /\ wk[w].pc \in Processing
    /\ wk[w].renewing /\ ~wk[w].lost
    /\ \/ Renew(w, MsgId(w)) /\ UNCHANGED wk
       \/ /\ ~CanRenew(w, MsgId(w))
          /\ wk' = [wk EXCEPT ![w].lost = TRUE]
          /\ UNCHANGED pmVars
    /\ UNCHANGED <<job, queues, cached, sent, faults>>

\* Nobody renews the lease any more: its holder crashed, gave up or lost its
\* renewal goroutine.  After Process has returned consumer.go:199 ends the renewal
\* too; the few calls left are far shorter than what remains of the lease, so that
\* there a lease passes only under a holder that is paused (Pause): renewing stays
\* TRUE up to the release.
Unrenewed(m) == \A w \in Worker : Owns(w, m) => ~wk[w].renewing

Expire(m) ==
    /\ Unrenewed(m)
    /\ LeaseExpires(m)
    /\ UNCHANGED <<job, queues, cached, sent, wk, faults>>
-----------------------------------------------------------------------------
\* Faults of the environment.

\* The process of w dies and is started again; the broker redelivers what it
\* held.  At "ack" this is also Consumer.Stop, whose wg.Wait returns before the
\* run loop acknowledges.
Crash(w) ==
    /\ wk[w].pc \in FaultPoints
    /\ Fault("crash")
    /\ main' = IF wk[w].msg # NoCopy /\ wk[w].connected
               THEN Put(main, wk[w].msg) ELSE main
    /\ wk' = [wk EXCEPT ![w] = Idle]
    /\ Forget(w)
    /\ UNCHANGED <<job, retry, dlq, cached, sent>>

\* The AMQP connection drops: the broker redelivers at once, the worker goes on.
ConnectionLost(w) ==
    /\ wk[w].connected
    /\ Fault("connlost")
    /\ main' = IF wk[w].msg # NoCopy THEN Put(main, wk[w].msg) ELSE main
    /\ wk' = [wk EXCEPT ![w] = IF At(w, "idle") THEN Stopped
                               ELSE [@ EXCEPT !.connected = FALSE]]
    /\ UNCHANGED <<pm, lease, job, retry, dlq, cached, sent>>

\* Renew fails for another reason than a lost lease: the goroutine returns.
RenewError(w) ==
    /\ wk[w].pc \in Processing /\ wk[w].renewing
    /\ Fault("renewerr")
    /\ wk' = [wk EXCEPT ![w].renewing = FALSE]
    /\ UNCHANGED <<pm, lease, job, queues, cached, sent>>

\* The holder is paused for longer than the lease.
Pause(m) ==
    /\ Fault("pause")
    /\ ~Unrenewed(m)
    /\ LeaseExpires(m)
    /\ UNCHANGED <<job, queues, cached, sent, wk>>

\* A MySQL call fails: where the error leads depends on the caller.
DbError(w) ==
    /\ wk[w].pc \in FaultPoints
    /\ Fault("dberr")
    /\ \/ wk[w].pc \in {"received", "claimed", "start", "generating", "validating",
                        "executing", "succeed", "setretrying", "setfailed"}
          /\ Goto(w, "error")
       \/ wk[w].pc \in {"markretry", "complete"} /\ Goto(w, "nack")
    /\ UNCHANGED <<pm, lease, job, queues, cached, sent>>

\* A publish is not confirmed.  The broker may have the message all the same,
\* unless the connection is gone.
PublishFailure(w) ==
    \/ wk[w].pc \in {"reject", "defer", "missing"} /\ Goto(w, "nack")
    \/ At(w, "retry") /\ Goto(w, IF wk[w].lost THEN "nack" ELSE "error")

PublishOffline(w) ==
    /\ ~wk[w].connected
    /\ PublishFailure(w)
    /\ UNCHANGED <<pm, lease, job, queues, cached, sent, faults>>

PublishError(w) ==
    /\ wk[w].connected
    /\ Fault("puberr")
    /\ PublishFailure(w)
    /\ \/ UNCHANGED queues
       \/ At(w, "defer") /\ retry' = Put(retry, wk[w].msg) /\ UNCHANGED <<main, dlq>>
       \/ At(w, "retry") /\ HasRetryLeft(w) /\ PublishRetry(w)
       \/ At(w, "retry") /\ ~HasRetryLeft(w) /\ PublishDLQ(w)
       \/ wk[w].pc \in {"reject", "missing"} /\ PublishDLQ(w)
    /\ UNCHANGED <<pm, lease, job, cached, sent>>
-----------------------------------------------------------------------------
\* One step of a worker in the absence of faults.
WorkerStep(w) ==
    \/ Reject(w) \/ ClaimGranted(w) \/ ClaimRefused(w) \/ Defer(w)
    \/ Load(w) \/ Start(w) \/ Generate(w) \/ Validate(w) \/ Execute(w)
    \/ Store(w) \/ Succeed(w) \/ Schedule(w) \/ SetRetrying(w) \/ SetFailed(w)
    \/ Abandon(w) \/ Missing(w) \/ MarkRetry(w) \/ Complete(w)
    \/ Ack(w) \/ Nack(w) \/ Fatal(w) \/ PublishOffline(w)

EnvironmentFault ==
    \/ \E w \in Worker : \/ Crash(w) \/ ConnectionLost(w) \/ RenewError(w)
                         \/ DbError(w) \/ PublishError(w)
    \/ \E m \in Message : Pause(m)

Next ==
    \/ \E j \in Job : Submit(j)
    \/ \E m \in Message : Publish(m)
    \/ \E c \in Copy : RetryElapses(c)
    \/ \E w \in Worker, c \in Copy : Deliver(w, c)
    \/ \E w \in Worker : WorkerStep(w)
    \/ \E w \in Worker : RenewTick(w)
    \/ \E m \in Message : Expire(m)
    \/ EnvironmentFault

Spec == Init /\ [][Next]_pipelineVars

\* The broker delivers and its TTLs elapse, a running worker takes its next
\* step, the renewal ticker ticks, time passes, and the dispatcher publishes the
\* event of a queued job at least once.  Submitting and faults are not fair.
Fairness ==
    /\ \A m \in Message : WF_pipelineVars(sent[m] = 0 /\ Publish(m))
    /\ \A c \in Copy : /\ WF_pipelineVars(RetryElapses(c))
                       /\ SF_pipelineVars(\E w \in Worker : Deliver(w, c))
    /\ \A w \in Worker : /\ WF_pipelineVars(WorkerStep(w))
                         /\ WF_pipelineVars(RenewTick(w))
    /\ \A m \in Message : WF_pipelineVars(Expire(m))

FairSpec == Spec /\ Fairness
-----------------------------------------------------------------------------
\* Properties.

\* A copy is in a queue, or in the hands of a worker whose delivery the broker
\* will give to somebody else if the worker fails.
Holds(w, c) == wk[w].msg = c /\ wk[w].connected /\ ~At(w, "ack")
Available(c) == main[c] + retry[c] > 0 \/ \E w \in Worker : Holds(w, c)
Alive(m) == \E c \in Copy : c.id = m /\ Available(c)

\* "Confirmed, then persisted, then acknowledged": the last copy of the message
\* of an unfinished job disappears only when its processed_messages row says
\* completed.  A worker that crashes, loses its connection, its lease or a
\* database call never drops a message whose row is still open.
NeverStranded ==
    \A m \in Message \ Foreign :
        /\ sent[m] > 0
        /\ job[JobOf[m]].status \notin Terminal
        /\ MaxRetries <= MaxSaneAttempt
        => \E n \in Message : /\ JobOf[n] = JobOf[m]
                              /\ Alive(n) \/ pm[n].status = "completed"

\* The retry the database announces is under way: a retrying job that no row calls
\* completed has a copy with exactly the recorded attempt, under the message id
\* that is being processed, because the copy is confirmed before the status is
\* written.
RetryIsOnItsWay ==
    \A j \in Job :
        /\ job[j].status = "retrying"
        /\ MaxRetries <= MaxSaneAttempt
        /\ \A m \in Message : JobOf[m] = j => pm[m].status # "completed"
        => \E c \in Copy : JobOf[c.id] = j /\ c.attempt = job[j].attempt /\ Available(c)

\* A job is never reported as succeeded before its result is in Redis.
HasResult(j) == \E w \in Worker : <<j, w>> \in cached
SucceededHasResult ==
    \A j \in Job : job[j].status = "succeeded" => HasResult(j)

\* The rows a user gets belong to the SQL and the row count in the job's row: a
\* job becomes succeeded only by the worker whose result is in Redis, and no
\* overtaken worker replaces the result afterwards.
ResultIsTheWinners ==
    [][\A j \in Job :
          /\ job[j].status # "succeeded" /\ job'[j].status = "succeeded"
             => \E w \in Worker : /\ At(w, "succeed") /\ wk'[w] # wk[w]
                                 /\ <<j, w>> \in cached
          /\ job[j].status = "succeeded"
             => { r \in cached' : r[1] = j } = { r \in cached : r[1] = j }]_pipelineVars

\* However deliveries are duplicated and workers overtake each other, a job moves
\* only along validTransitions; a terminal status is final.
FollowsTransitions ==
    [][\A j \in Job : job'[j].status # job[j].status =>
         \/ <<job[j].status, job'[j].status>> \in ValidTransitions
         \/ job[j].status = "absent" /\ job'[j].status = "queued"]_pipelineVars

\* As long as leases expire only once nobody renews them, two workers never run
\* the pipeline of one job at the same time, whichever message ids named it.
InStages(w) == wk[w].pc \in {"generating", "validating", "executing", "store", "succeed"}
OneWorkerPerJob ==
    \A v, w \in Worker :
        v # w /\ InStages(v) /\ InStages(w) => JobId(v) # JobId(w)

\* Every submitted job reaches a terminal status as long as one consumer is left:
\* a failed database call ends a consumer for good, and what it held goes to
\* the others.
Settled(j) == job[j].status \in Terminal
NoConsumerLeft == \A w \in Worker : At(w, "stopped")
EverySubmittedJobSettles ==
    \A j \in Job : job[j].status = "queued" ~> Settled(j) \/ NoConsumerLeft

\* What Process promises for a nil result (service.go:68, "nil -> terminal state
\* persisted; Consumer marks PM completed, ACKs"): a completed row means that the
\* job is finished.
CompletedMeansTerminal ==
    \A m \in Message \ Foreign :
        pm[m].status = "completed" => job[JobOf[m]].status \in Terminal

\* As long as leases are kept, a worker writes the row of a job only while it owns
\* the lease of the message, although the updates of query_jobs (TransitionStatus,
\* SetRetrying, SetSucceeded, SetFailed) compare the status only.
OnlyTheOwnerWrites ==
    [][\A w \in Worker :
          /\ wk'[w] # wk[w]
          /\ wk[w].pc \in Processing
          /\ job' # job
          => Owns(w, MsgId(w))]_pipelineVars

\* What ARCHITECTURE.md:228 and PLAN.md:49 say of the updates WHERE id=? AND
\* status=?: they prevent concurrent overwriting.  A worker does not replace the
\* attempt_count of a later attempt, which another one has recorded meanwhile, by
\* its own.  (SetRetrying.)
AttemptNeverGoesBack ==
    [][\A j \in Job : job'[j].attempt >= job[j].attempt]_pipelineVars
=============================================================================
