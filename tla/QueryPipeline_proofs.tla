------------------------- MODULE QueryPipeline_proofs -------------------------
(* Proofs about QueryPipeline, for any number of workers, messages, jobs,      *)
(* retries and faults, expired leases of live workers included.                *)
(*                                                                             *)
(* A worker that was overtaken still writes the row of the job, because the    *)
(* UPDATEs of query_jobs look at the status and not at the lease.  That the    *)
(* row nevertheless follows validTransitions depends on what the worker        *)
(* remembers in "from"; that a success has its result, on the order of Store   *)
(* and Succeed within one delivery.  SoundConsumer and Inv state those facts.  *)
(* The lemmas TableSteps, JobMoves and QueuesStep reduce the actions to what   *)
(* they do to one table; the theorems at the end rest on them.                 *)
EXTENDS QueryPipeline, TLAPS

\* Stages in which the worker knows a status of the pipeline to leave.
Staged == { "generating", "validating", "executing", "store", "succeed",
            "retry", "setretrying", "setfailed" }

\* A worker whose local variables fit its program point.
Sound(s) ==
    /\ s.pc \notin { "idle", "stopped" } => s.msg \in Copy
    /\ s.pc = "start" => s.from \in { "queued", "retrying" }
    /\ s.pc \in Staged => s.from \in InPipeline
SoundConsumer == { s \in Consumer : Sound(s) }

\* Program points about which Sound says nothing but that there is a message.
Loose == { "received", "claimed", "reject", "defer", "missing", "markretry",
           "complete", "ack", "nack", "error" }

\* The program points are those of the consumer, and the three kinds are disjoint.
LEMMA Points ==
    /\ Loose \subseteq PC
    /\ Staged \subseteq PC
    /\ Loose \cap (Staged \union { "idle", "stopped", "start" }) = {}
BY DEF Loose, Staged, PC, Consuming, Processing

\* handle and Process may go on to a point that needs no status.
LEMMA LooseMove ==
    ASSUME NEW s \in SoundConsumer, s.pc \notin { "idle", "stopped" }, NEW pc \in Loose
    PROVE  [s EXCEPT !.pc = pc] \in SoundConsumer
BY Points DEF SoundConsumer, Sound, Consumer, Loose, Staged

\* A stage keeps the status it found (a fault leads to scheduleRetryOrFail).
LEMMA StagedMove ==
    ASSUME NEW s \in SoundConsumer, s.pc \in Staged, NEW pc \in Staged
    PROVE  [s EXCEPT !.pc = pc] \in SoundConsumer
BY Points DEF SoundConsumer, Sound, Consumer, Staged

\* A compare-and-set that succeeds: currentStatus follows the row.
LEMMA StatusMove ==
    ASSUME NEW s \in SoundConsumer, s.pc \notin { "idle", "stopped" },
           NEW pc \in Loose \union Staged, NEW st \in Status,
           pc \in Staged => st \in InPipeline
    PROVE  [s EXCEPT !.pc = pc, !.from = st] \in SoundConsumer
<1>1. [s EXCEPT !.pc = pc, !.from = st] \in Consumer
  BY Points DEF SoundConsumer, Consumer
<1>2. Sound([s EXCEPT !.pc = pc, !.from = st])
  BY Points DEF SoundConsumer, Sound, Consumer, Loose, Staged
<1> QED
  BY <1>1, <1>2 DEF SoundConsumer

\* A consumer between two deliveries, one whose channel is closed, a new delivery.
LEMMA Resting ==
    /\ Idle \in SoundConsumer
    /\ Stopped \in SoundConsumer
    /\ \A c \in Copy, pc \in {"reject", "received"} :
          [Idle EXCEPT !.pc = pc, !.msg = c] \in SoundConsumer
<1>1. Idle \in SoundConsumer
  BY DEF Idle, SoundConsumer, Sound, Consumer, PC, Staged, Status
<1>2. Stopped \in SoundConsumer
  BY DEF Idle, Stopped, SoundConsumer, Sound, Consumer, PC, Staged, Status
<1>3. ASSUME NEW c \in Copy, NEW pc \in {"reject", "received"}
      PROVE  [Idle EXCEPT !.pc = pc, !.msg = c] \in SoundConsumer
  BY DEF Idle, SoundConsumer, Sound, Consumer, PC, Staged, Status, Consuming
<1> QED
  BY <1>1, <1>2, <1>3

\* The cancelled context, the connection and the renewal goroutine are independent of
\* the program point.
LEMMA Flags ==
    ASSUME NEW s \in SoundConsumer, NEW b \in BOOLEAN
    PROVE  /\ [s EXCEPT !.lost = b] \in SoundConsumer
           /\ [s EXCEPT !.connected = b] \in SoundConsumer
           /\ [s EXCEPT !.renewing = b] \in SoundConsumer
BY DEF SoundConsumer, Sound, Consumer

\* fromStatus of Process is queued or retrying.
LEMMA StartMove ==
    ASSUME NEW s \in SoundConsumer, s.pc \notin { "idle", "stopped" },
           NEW st \in { "queued", "retrying" }
    PROVE  [s EXCEPT !.pc = "start", !.from = st] \in SoundConsumer
BY DEF SoundConsumer, Sound, Consumer, Staged, Status, PC, Processing

\* A granted claim starts the renewal goroutine.
LEMMA ClaimedMove ==
    ASSUME NEW s \in SoundConsumer, s.pc \notin { "idle", "stopped" }
    PROVE  [s EXCEPT !.pc = "claimed", !.renewing = TRUE] \in SoundConsumer
BY DEF SoundConsumer, Sound, Consumer, Staged, PC, Processing

\* Replacing the state of one worker.
LEMMA UpdateWorker ==
    ASSUME wk \in [Worker -> SoundConsumer], NEW w \in Worker, NEW s \in SoundConsumer,
           wk' = [wk EXCEPT ![w] = s]
    PROVE  wk' \in [Worker -> SoundConsumer]
OBVIOUS

\* Whatever interleaves, a worker in a stage of runPipeline holds a delivery and a status
\* that scheduleRetry may leave.
LEMMA WorkerStaysSound ==
    ASSUME wk \in [Worker -> SoundConsumer], job \in [Job -> JobRow], [Next]_pipelineVars
    PROVE  wk' \in [Worker -> SoundConsumer]
<1> DEFINE P == wk' \in [Worker -> SoundConsumer]
<1>1. ASSUME NEW w \in Worker, wk[w].pc \notin { "idle", "stopped" }, NEW pc \in Loose,
             Goto(w, pc)
      PROVE  P
  BY <1>1, LooseMove, UpdateWorker DEF Goto
<1>2. ASSUME NEW w \in Worker, wk[w].pc \in Staged, NEW pc \in Staged, Goto(w, pc)
      PROVE  P
  BY <1>2, StagedMove, UpdateWorker DEF Goto
<1>3. ASSUME NEW w \in Worker, wk[w].pc \notin { "idle", "stopped" },
             NEW from, NEW row, row.status \in Status,
             NEW pc \in Loose \union Staged, pc \in Staged => row.status \in InPipeline,
             Cas(w, from, row, pc)
      PROVE  P
  <2>1. CASE wk' = [wk EXCEPT ![w] = [@ EXCEPT !.pc = pc, !.from = row.status]]
    BY <1>3, <2>1, StatusMove, UpdateWorker
  <2>2. CASE Goto(w, "error")
    BY <1>1, <1>3, <2>2 DEF Loose
  <2> QED
    BY <1>3, <2>1, <2>2 DEF Cas
<1>4. ASSUME NEW w \in Worker, wk[w].pc \notin { "idle", "stopped" },
             NEW from, NEW to \in Status, job[JobId(w)] \in JobRow,
             NEW pc \in Loose \union Staged, pc \in Staged => to \in InPipeline,
             CasStatus(w, from, to, pc)
      PROVE  P
  <2> DEFINE r == [job[JobId(w)] EXCEPT !.status = to]
  <2>1. r.status = to
    BY <1>4 DEF JobRow
  <2>2. Cas(w, from, r, pc)
    BY <1>4 DEF CasStatus
  <2> HIDE DEF r
  <2> QED
    BY <1>3, <1>4, <2>1, <2>2
<1> HIDE DEF P
<1>5. ASSUME NEW w \in Worker, wk[w].pc \notin { "idle", "stopped" }
      PROVE  job[JobId(w)] \in JobRow

  BY <1>5, PMAssumption DEF SoundConsumer, Sound, JobId, MsgId, Copy
<1>6. ASSUME NEW w \in Worker, Reject(w) PROVE P
  BY <1>6, <1>1 DEF Reject, At, Loose
<1>7. ASSUME NEW w \in Worker, Defer(w) PROVE P
  BY <1>7, <1>1 DEF Defer, At, Loose
<1>8. ASSUME NEW w \in Worker, Missing(w) PROVE P
  BY <1>8, <1>1 DEF Missing, At, Loose
<1>9. ASSUME NEW w \in Worker, MarkRetry(w) PROVE P
  BY <1>9, <1>1 DEF MarkRetry, At, Loose
<1>10. ASSUME NEW w \in Worker, Complete(w) PROVE P
  BY <1>10, <1>1 DEF Complete, At, Loose
<1>11. ASSUME NEW w \in Worker, ClaimRefused(w) PROVE P
  BY <1>11, <1>1 DEF ClaimRefused, At, Loose
<1>12. ASSUME NEW w \in Worker, ClaimGranted(w) PROVE P
  BY <1>12, ClaimedMove, UpdateWorker DEF ClaimGranted, At, P
<1>13. ASSUME NEW w \in Worker, Load(w) PROVE P
  <2>1. wk[w].pc = "claimed"
    BY <1>13 DEF Load, Running, At
  <2>2. CASE Goto(w, "missing") \/ Goto(w, "complete")
    BY <1>1, <2>1, <2>2 DEF Loose
  <2>3. CASE \E st \in { "queued", "retrying" } :
               wk' = [wk EXCEPT ![w] = [@ EXCEPT !.pc = "start", !.from = st]]
    BY <2>1, <2>3, StartMove, UpdateWorker DEF P
  <2>4. CASE \E st \in InPipeline :
               wk' = [wk EXCEPT ![w] = [@ EXCEPT !.pc = "retry", !.from = st]]
    BY <2>1, <2>4, StatusMove, UpdateWorker DEF P, Staged, InPipeline, Status
  <2> QED
    BY <1>13, <2>2, <2>3, <2>4 DEF Load
<1>14. ASSUME NEW w \in Worker, NEW stage \in Staged, StageFault(w, stage) PROVE P

  BY <1>14, <1>2 DEF StageFault, Running, At, Staged
<1>15. ASSUME NEW w \in Worker, Start(w) PROVE P
  <2>1. CASE Running(w, "start")
    <3>1. wk[w].pc = "start"
      BY <2>1 DEF Running, At
    <3>2. CASE CasStatus(w, wk[w].from, "generating", "generating")
      BY <1>4, <1>5, <3>1, <3>2 DEF Status, InPipeline, Loose, Staged
    <3> QED
      BY <1>15, <2>1, <3>2 DEF Start
  <2> QED
    BY <1>15, <2>1 DEF Start
<1>16. ASSUME NEW w \in Worker, Generate(w) PROVE P
  <2>1. CASE Running(w, "generating")
    <3>1. wk[w].pc = "generating"
      BY <2>1 DEF Running, At
    <3>2. CASE CasStatus(w, "generating", "validating", "validating")
      BY <1>4, <1>5, <3>1, <3>2 DEF Status, InPipeline, Loose, Staged
    <3>3. CASE CasStatus(w, "generating", "failed", "complete")
      BY <1>4, <1>5, <3>1, <3>3 DEF Status, InPipeline, Loose, Staged
    <3> QED
      BY <1>16, <2>1, <3>2, <3>3, <1>14 DEF Generate, Staged
  <2>2. CASE StageFault(w, "generating")
    BY <1>14, <2>2 DEF Staged
  <2> QED
    BY <1>16, <2>1, <2>2 DEF Generate
<1>17. ASSUME NEW w \in Worker, Validate(w) PROVE P
  <2>1. CASE Running(w, "validating")
    <3>1. wk[w].pc = "validating"
      BY <2>1 DEF Running, At
    <3>2. CASE CasStatus(w, "validating", "executing", "executing")
      BY <1>4, <1>5, <3>1, <3>2 DEF Status, InPipeline, Loose, Staged
    <3>3. CASE CasStatus(w, "validating", "failed", "complete")
      BY <1>4, <1>5, <3>1, <3>3 DEF Status, InPipeline, Loose, Staged
    <3> QED
      BY <1>17, <2>1, <3>2, <3>3 DEF Validate
  <2> QED
    BY <1>17, <2>1 DEF Validate
<1>18. ASSUME NEW w \in Worker, Execute(w) PROVE P
  <2>1. CASE Running(w, "executing")
    <3>1. wk[w].pc = "executing"
      BY <2>1 DEF Running, At
    <3>2. CASE CasStatus(w, "executing", "failed", "complete")
      BY <1>4, <1>5, <3>1, <3>2 DEF Status, InPipeline, Loose, Staged
    <3>3. CASE Goto(w, "store")
      BY <1>2, <3>1, <3>3 DEF Staged
    <3> QED
      BY <1>18, <2>1, <3>2, <3>3, <1>14 DEF Execute, Staged
  <2>2. CASE StageFault(w, "executing")
    BY <1>14, <2>2 DEF Staged
  <2> QED
    BY <1>18, <2>1, <2>2 DEF Execute
<1>19. ASSUME NEW w \in Worker, Succeed(w) PROVE P
  <2>1. CASE Running(w, "succeed")
    <3>1. wk[w].pc = "succeed"
      BY <2>1 DEF Running, At
    <3>2. CASE CasStatus(w, "executing", "succeeded", "complete")
      BY <1>4, <1>5, <3>1, <3>2 DEF Status, InPipeline, Loose, Staged
    <3> QED
      BY <1>19, <2>1, <3>2 DEF Succeed
  <2> QED
    BY <1>19, <2>1 DEF Succeed
<1>20. ASSUME NEW w \in Worker, SetFailed(w) PROVE P
  <2>1. CASE Running(w, "setfailed")
    <3>1. wk[w].pc = "setfailed"
      BY <2>1 DEF Running, At
    <3>2. CASE CasStatus(w, wk[w].from, "failed", "complete")
      BY <1>4, <1>5, <3>1, <3>2 DEF Status, InPipeline, Loose, Staged
    <3> QED
      BY <1>20, <2>1, <3>2 DEF SetFailed
  <2> QED
    BY <1>20, <2>1 DEF SetFailed
<1>21. ASSUME NEW w \in Worker, SetRetrying(w) PROVE P
  <2> DEFINE r == [status |-> "retrying", attempt |-> NextAttempt(w)]
  <2>1. r.status = "retrying" /\ Cas(w, wk[w].from, r, "markretry")
    BY <1>21 DEF SetRetrying
  <2>2. wk[w].pc = "setretrying"
    BY <1>21 DEF SetRetrying, Running, At
  <2> HIDE DEF r
  <2> QED
    BY <1>3, <2>1, <2>2 DEF Status, Loose, Staged
<1>22. ASSUME NEW w \in Worker, Store(w) PROVE P
  BY <1>22, <1>2, <1>14 DEF Store, Running, At, Staged
<1>23. ASSUME NEW w \in Worker, Schedule(w) PROVE P
  <2>1. wk[w].pc = "retry"
    BY <1>23 DEF Schedule, At
  <2> QED
    BY <1>23, <1>1, <1>2, <2>1 DEF Schedule, Staged, Loose
<1>24. ASSUME NEW w \in Worker, Abandon(w) PROVE P
  BY <1>24, <1>1, <1>2 DEF Abandon, Staged, Loose, Processing
<1>25. ASSUME NEW w \in Worker, Ack(w) \/ Nack(w) \/ Fatal(w) \/ Crash(w) PROVE P

  <2>1. \E s \in { Idle, Stopped } : wk' = [wk EXCEPT ![w] = s]
    BY <1>25 DEF Ack, Nack, Fatal, Crash, LoopOn
  <2> QED
    BY <2>1, Resting, UpdateWorker DEF P
<1>26. ASSUME NEW w \in Worker, PublishOffline(w) \/ PublishError(w) PROVE P

  BY <1>26, <1>1 DEF PublishOffline, PublishError, PublishFailure, At, Loose
<1>27. ASSUME NEW w \in Worker, DbError(w) PROVE P
  BY <1>27, <1>1 DEF DbError, Loose
<1>28. ASSUME NEW w \in Worker, NEW c \in Copy, Deliver(w, c) PROVE P

  <2>1. \E pc \in { "reject", "received" } :
           wk' = [wk EXCEPT ![w] = [Idle EXCEPT !.pc = pc, !.msg = c]]
    BY <1>28 DEF Deliver
  <2> QED
    BY <2>1, Resting, UpdateWorker DEF P
<1>29. ASSUME NEW w \in Worker, RenewTick(w) PROVE P
  <2>1. wk' = wk \/ wk' = [wk EXCEPT ![w] = [@ EXCEPT !.lost = TRUE]]
    BY <1>29 DEF RenewTick
  <2> QED
    BY <2>1, Flags, UpdateWorker DEF P
<1>30. ASSUME NEW w \in Worker, RenewError(w) PROVE P
  <2>1. wk' = [wk EXCEPT ![w] = [@ EXCEPT !.renewing = FALSE]]
    BY <1>30 DEF RenewError
  <2> QED
    BY <2>1, Flags, UpdateWorker DEF P
<1>31. ASSUME NEW w \in Worker, ConnectionLost(w) PROVE P
  <2>1. \/ wk' = [wk EXCEPT ![w] = Stopped]
        \/ wk' = [wk EXCEPT ![w] = [@ EXCEPT !.connected = FALSE]]
    BY <1>31 DEF ConnectionLost
  <2> QED
    BY <2>1, Flags, Resting, UpdateWorker DEF P
<1>32. ASSUME UNCHANGED wk PROVE P

  BY <1>32 DEF P
<1>33. ASSUME NEW w \in Worker, WorkerStep(w) PROVE P

  BY <1>6, <1>7, <1>8, <1>9, <1>10, <1>11, <1>12, <1>13, <1>14, <1>15, <1>16, <1>17,
     <1>18, <1>19, <1>20, <1>21, <1>22, <1>23, <1>24, <1>25, <1>26, <1>27, <1>28, <1>29,
     <1>30, <1>31, <1>32, <1>33
  DEF WorkerStep
<1> QED
  BY <1>25, <1>26, <1>27, <1>28, <1>29, <1>30, <1>31, <1>32, <1>33
  DEF Next, EnvironmentFault, Submit, Publish, RetryElapses, Expire, Pause, pipelineVars, P
-----------------------------------------------------------------------------
\* cached changes only in Store, which never takes a result from a job.
LEMMA CachedGrows ==
    ASSUME [Next]_pipelineVars
    PROVE  /\ \A j \in Job : HasResult(j) => HasResult(j)'
           /\ cached' = cached \/ \E w \in Worker : Store(w)
<1>1. ASSUME NEW w \in Worker, WorkerStep(w), ~Store(w) PROVE cached' = cached
  BY <1>1
  DEF WorkerStep, Reject, ClaimGranted, ClaimRefused, Defer, Load, Start, Generate, Validate,
      Execute, Succeed, Schedule, SetRetrying, SetFailed, Abandon, Missing, MarkRetry,
      Complete, Ack, Nack, Fatal, PublishOffline, StageFault
<1>2. ASSUME NEW w \in Worker, Store(w), NEW j \in Job, HasResult(j) PROVE HasResult(j)'
  <2>1. PICK u \in Worker : <<j, u>> \in cached
    BY <1>2 DEF HasResult
  <2>2. cached' = cached \/ cached' = Stored(w)
    BY <1>2 DEF Store
  <2>3. CASE cached' = Stored(w) /\ j = JobId(w)
    <3>1. <<j, w>> \in cached'
      BY <2>3 DEF Stored
    <3> QED
      BY <1>2, <3>1 DEF HasResult
  <2>4. CASE cached' = Stored(w) /\ j # JobId(w)
    <3>1. <<j, u>>[1] # JobId(w)
      BY <2>4
    <3>2. <<j, u>> \in Stored(w)
      BY <2>1, <3>1 DEF Stored
    <3> QED
      BY <2>1, <2>4, <3>2 DEF HasResult
  <2>5. CASE cached' = cached
    BY <2>1, <2>5 DEF HasResult
  <2> QED
    BY <2>2, <2>3, <2>4, <2>5
<1>3. ASSUME EnvironmentFault PROVE cached' = cached
  BY <1>3
  DEF EnvironmentFault, Crash, ConnectionLost, RenewError, DbError, PublishError, Pause
<1>4. cached' = cached \/ \E w \in Worker : Store(w)
  BY <1>1, <1>3
  DEF Next, Submit, Publish, RetryElapses, Deliver, RenewTick, Expire, pipelineVars
<1>5. cached' = cached => \A j \in Job : HasResult(j) => HasResult(j)'
  BY DEF HasResult
<1> QED
  BY <1>2, <1>4, <1>5

\* What a step does to a worker that ends up about to report success.
ReachesSucceed(v) ==
    wk'[v].pc = "succeed" => /\ wk'[v].msg = wk[v].msg
                             /\ wk[v].pc = "succeed" \/ \E u \in Worker : <<JobId(v), u>> \in cached'

\* SetSucceeded is called only after SetRaw returned nil.
LEMMA SucceedOnlyAfterStore ==
    ASSUME wk \in [Worker -> SoundConsumer], [Next]_pipelineVars, NEW v \in Worker
    PROVE  ReachesSucceed(v)
<1>0. wk[v] \in Consumer
  BY DEF SoundConsumer
<1>1. ASSUME NEW w \in Worker, NEW pc, pc # "succeed", Goto(w, pc) PROVE ReachesSucceed(v)
  BY <1>0, <1>1 DEF Goto, ReachesSucceed, Consumer
<1>2. ASSUME NEW w \in Worker, NEW s, s.pc # "succeed", wk' = [wk EXCEPT ![w] = s]
      PROVE  ReachesSucceed(v)
  BY <1>2 DEF ReachesSucceed
<1>3. ASSUME NEW w \in Worker, NEW pc, pc # "succeed", NEW st,
             wk' = [wk EXCEPT ![w] = [@ EXCEPT !.pc = pc, !.from = st]]
      PROVE  ReachesSucceed(v)
  BY <1>0, <1>3 DEF ReachesSucceed, Consumer
<1>4. ASSUME NEW w \in Worker, NEW pc, pc # "succeed", NEW from, NEW r, Cas(w, from, r, pc)
      PROVE  ReachesSucceed(v)
  BY <1>1, <1>3, <1>4 DEF Cas
<1>5. ASSUME NEW w \in Worker, NEW pc, pc # "succeed", NEW from, NEW to,
             CasStatus(w, from, to, pc)
      PROVE  ReachesSucceed(v)
  BY <1>4, <1>5 DEF CasStatus
<1>6. ASSUME NEW w \in Worker, NEW stage, StageFault(w, stage) PROVE ReachesSucceed(v)
  BY <1>1, <1>6 DEF StageFault
<1>7. ASSUME NEW w \in Worker, Store(w) PROVE ReachesSucceed(v)
  <2>1. CASE cached' = Stored(w) /\ Goto(w, "succeed")
    <3>1. w = v => wk'[v].msg = wk[v].msg /\ <<JobId(v), v>> \in cached'
      BY <1>0, <2>1 DEF Goto, Consumer, Stored
    <3>2. w # v => wk'[v] = wk[v]
      BY <2>1 DEF Goto
    <3> QED
      BY <3>1, <3>2 DEF ReachesSucceed
  <2> QED
    BY <1>1, <1>7, <2>1 DEF Store
<1>8. ASSUME NEW w \in Worker, Reject(w) \/ ClaimRefused(w) \/ Defer(w) \/ Schedule(w)
             \/ Abandon(w) \/ Missing(w) \/ MarkRetry(w) \/ Complete(w) \/ PublishOffline(w)
             \/ PublishError(w) \/ DbError(w)
      PROVE  ReachesSucceed(v)
  <2>1. \E pc : pc # "succeed" /\ Goto(w, pc)
    BY <1>8
    DEF Reject, ClaimRefused, Defer, Schedule, Abandon, Missing, MarkRetry, Complete,
        PublishOffline, PublishError, PublishFailure, DbError
  <2> QED
    BY <1>1, <2>1
<1>9. ASSUME NEW w \in Worker, Start(w) \/ Generate(w) \/ Validate(w) \/ Execute(w)
             \/ Succeed(w) \/ SetRetrying(w) \/ SetFailed(w)
      PROVE  ReachesSucceed(v)
  BY <1>1, <1>4, <1>5, <1>6, <1>9
  DEF Start, Generate, Validate, Execute, Succeed, SetRetrying, SetFailed
<1>10. ASSUME NEW w \in Worker, Load(w) PROVE ReachesSucceed(v)
  BY <1>1, <1>3, <1>10 DEF Load
<1>11. ASSUME NEW w \in Worker, ClaimGranted(w) PROVE ReachesSucceed(v)
  BY <1>0, <1>11 DEF ClaimGranted, ReachesSucceed, Consumer
<1>12. Idle.pc # "succeed" /\ Stopped.pc # "succeed"
  BY DEF Idle, Stopped
<1>13. ASSUME NEW w \in Worker, Ack(w) \/ Nack(w) \/ Fatal(w) \/ Crash(w)
       PROVE  ReachesSucceed(v)
  <2>1. \E s \in { Idle, Stopped } : wk' = [wk EXCEPT ![w] = s]
    BY <1>13 DEF Ack, Nack, Fatal, Crash, LoopOn
  <2> QED
    BY <1>2, <1>12, <2>1
<1>14. ASSUME NEW w \in Worker, RenewTick(w) \/ RenewError(w) \/ ConnectionLost(w)
       PROVE  ReachesSucceed(v)
  <2>1. \/ wk' = wk
        \/ wk' = [wk EXCEPT ![w] = Stopped]
        \/ wk' = [wk EXCEPT ![w] = [@ EXCEPT !.lost = TRUE]]
        \/ wk' = [wk EXCEPT ![w] = [@ EXCEPT !.renewing = FALSE]]
        \/ wk' = [wk EXCEPT ![w] = [@ EXCEPT !.connected = FALSE]]
    BY <1>14 DEF RenewTick, RenewError, ConnectionLost
  <2>2. wk' = [wk EXCEPT ![w] = Stopped] => ReachesSucceed(v)
    BY <1>2, <1>12
  <2> QED
    BY <1>0, <2>1, <2>2 DEF ReachesSucceed, Consumer
<1>15. ASSUME NEW w \in Worker, NEW c \in Copy, Deliver(w, c) PROVE ReachesSucceed(v)
  <2>1. \E pc \in { "reject", "received" } :
           wk' = [wk EXCEPT ![w] = [Idle EXCEPT !.pc = pc, !.msg = c]]
    BY <1>15 DEF Deliver
  <2> QED
    BY <2>1 DEF ReachesSucceed, Idle
<1>16. ASSUME UNCHANGED wk PROVE ReachesSucceed(v)
  BY <1>16 DEF ReachesSucceed
<1>17. ASSUME NEW w \in Worker, WorkerStep(w) PROVE ReachesSucceed(v)
  BY <1>7, <1>8, <1>9, <1>10, <1>11, <1>13, <1>17 DEF WorkerStep
<1> QED
  BY <1>8, <1>13, <1>14, <1>15, <1>16, <1>17
  DEF Next, EnvironmentFault, Submit, Publish, RetryElapses, Expire, Pause, pipelineVars
-----------------------------------------------------------------------------
\* What one step may do to the row of a job: nothing, create it, or move it along
\* validTransitions; success needs a cached result.
JobMove(j) ==
    \/ job'[j] = job[j]
    \/ job[j].status = "absent" /\ job'[j] = [status |-> "queued", attempt |-> 0]
    \/ /\ <<job[j].status, job'[j].status>> \in ValidTransitions
       /\ job'[j] \in JobRow
       /\ job'[j].status = "succeeded" => \E w \in Worker : At(w, "succeed") /\ JobId(w) = j

\* Every UPDATE of query_jobs is one of the moves above.
LEMMA JobMoves ==
    ASSUME wk \in [Worker -> SoundConsumer], job \in [Job -> JobRow],
           [Next]_pipelineVars, NEW j \in Job
    PROVE  JobMove(j)
<1>1. ASSUME NEW w \in Worker, NEW from, NEW pc, NEW r \in JobRow,
             <<from, r.status>> \in ValidTransitions,
             r.status = "succeeded" => At(w, "succeed"),
             Cas(w, from, r, pc)
      PROVE  JobMove(j)
  <2>1. CASE j = JobId(w) /\ job[j].status = from
    BY <1>1, <2>1 DEF Cas, JobMove
  <2>2. CASE ~(j = JobId(w) /\ job[j].status = from)
    BY <1>1, <2>2 DEF Cas, JobMove
  <2> QED
    BY <2>1, <2>2
<1>2. ASSUME NEW w \in Worker, wk[w].pc \notin { "idle", "stopped" },
             NEW from, NEW pc, NEW to \in Status,
             <<from, to>> \in ValidTransitions,
             to = "succeeded" => At(w, "succeed"),
             CasStatus(w, from, to, pc)
      PROVE  JobMove(j)
  <2> DEFINE r == [job[JobId(w)] EXCEPT !.status = to]
  <2>1. job[JobId(w)] \in JobRow
    BY <1>2, PMAssumption DEF SoundConsumer, Sound, JobId, MsgId, Copy
  <2>2. r \in JobRow /\ r.status = to
    BY <2>1 DEF JobRow
  <2>3. Cas(w, from, r, pc)
    BY <1>2 DEF CasStatus
  <2> HIDE DEF r
  <2> QED
    BY <1>1, <1>2, <2>2, <2>3
<1>3. ASSUME UNCHANGED job PROVE JobMove(j)
  BY <1>3 DEF JobMove
<1>4. ASSUME NEW w \in Worker, NEW stage, StageFault(w, stage) PROVE JobMove(j)
  BY <1>3, <1>4 DEF StageFault
<1>5. ASSUME NEW w \in Worker, Start(w) PROVE JobMove(j)
  <2>1. wk[w].pc = "start" /\ wk[w].from \in { "queued", "retrying" }
    BY <1>5 DEF Start, Running, At, SoundConsumer, Sound
  <2>2. <<wk[w].from, "generating">> \in ValidTransitions
    BY <2>1 DEF ValidTransitions
  <2> QED
    BY <1>2, <1>5, <2>1, <2>2 DEF Start, Status
<1>6. ASSUME NEW w \in Worker, Generate(w) PROVE JobMove(j)
  <2>1. wk[w].pc = "generating"
    BY <1>6 DEF Generate, Running, At, StageFault
  <2>2. CASE CasStatus(w, "generating", "validating", "validating")
    BY <1>2, <2>1, <2>2 DEF ValidTransitions, Status, At
  <2>3. CASE CasStatus(w, "generating", "failed", "complete")
    BY <1>2, <2>1, <2>3 DEF ValidTransitions, Status, At
  <2> QED
    BY <1>6, <1>3, <1>4, <2>2, <2>3 DEF Generate
<1>7. ASSUME NEW w \in Worker, Validate(w) PROVE JobMove(j)
  <2>1. wk[w].pc = "validating"
    BY <1>7 DEF Validate, Running, At, StageFault
  <2>2. CASE CasStatus(w, "validating", "executing", "executing")
    BY <1>2, <2>1, <2>2 DEF ValidTransitions, Status, At
  <2>3. CASE CasStatus(w, "validating", "failed", "complete")
    BY <1>2, <2>1, <2>3 DEF ValidTransitions, Status, At
  <2> QED
    BY <1>7, <1>3, <1>4, <2>2, <2>3 DEF Validate
<1>8. ASSUME NEW w \in Worker, Execute(w) PROVE JobMove(j)
  <2>1. wk[w].pc = "executing"
    BY <1>8 DEF Execute, Running, At, StageFault
  <2>2. CASE CasStatus(w, "executing", "failed", "complete")
    BY <1>2, <2>1, <2>2 DEF ValidTransitions, Status, At
  <2> QED
    BY <1>8, <1>3, <1>4, <2>2 DEF Execute
<1>9. ASSUME NEW w \in Worker, Succeed(w) PROVE JobMove(j)
  <2>1. wk[w].pc = "succeed"
    BY <1>9 DEF Succeed, Running, At, StageFault
  <2>2. CASE CasStatus(w, "executing", "succeeded", "complete")
    BY <1>2, <2>1, <2>2 DEF ValidTransitions, Status, At
  <2> QED
    BY <1>9, <1>3, <1>4, <2>2 DEF Succeed
<1>10. ASSUME NEW w \in Worker, SetFailed(w) PROVE JobMove(j)
  <2>1. wk[w].pc = "setfailed" /\ wk[w].from \in InPipeline
    BY <1>10 DEF SetFailed, Running, At, SoundConsumer, Sound, Staged
  <2>2. <<wk[w].from, "failed">> \in ValidTransitions
    BY <2>1 DEF ValidTransitions, InPipeline
  <2> QED
    BY <1>2, <1>10, <2>1, <2>2 DEF SetFailed, Status
<1>11. ASSUME NEW w \in Worker, SetRetrying(w) PROVE JobMove(j)
  <2> DEFINE r == [status |-> "retrying", attempt |-> NextAttempt(w)]
  <2>1. wk[w].pc = "setretrying" /\ wk[w].from \in InPipeline /\ wk[w].msg \in Copy
    BY <1>11 DEF SetRetrying, Running, At, SoundConsumer, Sound, Staged
  <2>2. NextAttempt(w) \in Nat
    BY <2>1, PipelineAssumption DEF Copy, NextAttempt, Attempt
  <2>3. r \in JobRow /\ r.status = "retrying"
    BY <2>2 DEF JobRow, Status
  <2>4. <<wk[w].from, r.status>> \in ValidTransitions
    BY <2>1, <2>3 DEF ValidTransitions, InPipeline
  <2>5. Cas(w, wk[w].from, r, "markretry")
    BY <1>11 DEF SetRetrying
  <2> HIDE DEF r
  <2> QED
    BY <1>1, <2>3, <2>4, <2>5
<1>12. ASSUME NEW i \in Job, Submit(i) PROVE JobMove(j)
  BY <1>12 DEF Submit, JobMove
<1>13. ASSUME NEW w \in Worker, WorkerStep(w) PROVE JobMove(j)
  BY <1>3, <1>4, <1>5, <1>6, <1>7, <1>8, <1>9, <1>10, <1>11, <1>13
  DEF WorkerStep, Reject, ClaimGranted, ClaimRefused, Defer, Load, Store, Schedule, Abandon,
      Missing, MarkRetry, Complete, Ack, Nack, Fatal, PublishOffline
<1>14. ASSUME EnvironmentFault PROVE UNCHANGED job
  BY <1>14
  DEF EnvironmentFault, Crash, ConnectionLost, RenewError, DbError, PublishError, Pause
<1> QED
  BY <1>3, <1>12, <1>13, <1>14
  DEF Next, Publish, RetryElapses, Deliver, RenewTick, Expire, pipelineVars
-----------------------------------------------------------------------------
\* A lease token is in the hands of one worker.
LeasesDiffer ==
    \A v, w \in Worker : lease[v] # NoToken /\ lease[v] = lease[w] => v = w

\* What one step may do to processed_messages.
TableStep ==
    \/ \E w \in Worker, m \in Message : \/ Claim(w, m) \/ Renew(w, m)
                                        \/ MarkRetryScheduled(w, m) \/ MarkCompleted(w, m)
    \/ \E w \in Worker : Forget(w)
    \/ \E m \in Message : LeaseExpires(m)
    \/ UNCHANGED pmVars

\* Every step of the system is one operation of the repository, or none.
LEMMA TableSteps ==
    ASSUME wk \in [Worker -> SoundConsumer], [Next]_pipelineVars
    PROVE  TableStep
<1>1. ASSUME NEW w \in Worker, wk[w].pc \notin { "idle", "stopped" } PROVE MsgId(w) \in Message
  BY <1>1 DEF SoundConsumer, Sound, MsgId, Copy
<1>2. ASSUME UNCHANGED pmVars PROVE TableStep
  BY <1>2 DEF TableStep
<1>3. ASSUME NEW w \in Worker, ClaimGranted(w) PROVE TableStep
  BY <1>1, <1>3 DEF ClaimGranted, At, TableStep
<1>4. ASSUME NEW w \in Worker, MarkRetry(w) PROVE TableStep
  BY <1>1, <1>4 DEF MarkRetry, At, TableStep
<1>5. ASSUME NEW w \in Worker, Complete(w) PROVE TableStep
  BY <1>1, <1>5 DEF Complete, At, TableStep
<1>6. ASSUME NEW w \in Worker, RenewTick(w) PROVE TableStep
  BY <1>1, <1>6 DEF RenewTick, Processing, TableStep
<1>7. ASSUME NEW w \in Worker, Ack(w) \/ Nack(w) \/ Fatal(w) \/ Crash(w) PROVE TableStep
  BY <1>7 DEF Ack, Nack, Fatal, Crash, LoopOn, TableStep
<1>8. ASSUME NEW m \in Message, Expire(m) \/ Pause(m) PROVE TableStep
  BY <1>8 DEF Expire, Pause, TableStep
<1>9. ASSUME NEW w \in Worker, WorkerStep(w) PROVE TableStep
  BY <1>2, <1>3, <1>4, <1>5, <1>7, <1>9
  DEF WorkerStep, Reject, ClaimRefused, Defer, Load, Start, Generate, Validate, Execute, Store,
      Succeed, Schedule, SetRetrying, SetFailed, Abandon, Missing, PublishOffline, StageFault,
      pmVars
<1> QED
  BY <1>2, <1>6, <1>7, <1>8, <1>9
  DEF Next, EnvironmentFault, Submit, Publish, RetryElapses, Deliver, ConnectionLost, RenewError,
      DbError, PublishError, pmVars, pipelineVars

\* newLeaseToken: a new token is not in the hands of any worker.
LEMMA NewTokenIsNew ==
    ASSUME FreshTokens # {}
    PROVE  /\ NewToken \in Token
           /\ NewToken # NoToken
           /\ \A w \in Worker : lease[w] # NewToken
BY PMAssumption DEF FreshTokens, NewToken, Remembered

\* The repository operations keep the types and never give two workers one token.
LEMMA TableInvariant ==
    ASSUME PMTypeOK, LeasesDiffer, TableStep
    PROVE  PMTypeOK' /\ LeasesDiffer'
<1>1. /\ pm \in [Message -> Row]
      /\ lease \in [Worker -> Token \union {NoToken}]
  BY DEF PMTypeOK
<1>2. ASSUME NEW w \in Worker, NEW m \in Message, Claim(w, m) PROVE PMTypeOK' /\ LeasesDiffer'
  <2>1. NewToken \in Token /\ NewToken # NoToken /\ \A v \in Worker : lease[v] # NewToken
    BY <1>2, NewTokenIsNew DEF Claim
  <2>2. [status |-> "processing", token |-> NewToken, expired |-> FALSE] \in Row
    BY <2>1 DEF Row, PMStatus
  <2>3. PMTypeOK'
    BY <1>1, <1>2, <2>1, <2>2 DEF Claim, PMTypeOK
  <2>4. LeasesDiffer'
    BY <1>1, <1>2, <2>1 DEF Claim, LeasesDiffer
  <2> QED
    BY <2>3, <2>4
<1>3. ASSUME NEW m \in Message, UNCHANGED lease,
             \/ \E b \in BOOLEAN : pm' = [pm EXCEPT ![m].expired = b]
             \/ \E s \in PMStatus : pm' = [pm EXCEPT ![m].status = s]
      PROVE  PMTypeOK' /\ LeasesDiffer'
  <2>1. pm' \in [Message -> Row]
    BY <1>1, <1>3 DEF Row
  <2> QED
    BY <1>1, <1>3, <2>1 DEF PMTypeOK, LeasesDiffer
<1>4. ASSUME NEW w \in Worker, Forget(w) PROVE PMTypeOK' /\ LeasesDiffer'
  BY <1>1, <1>4 DEF Forget, PMTypeOK, LeasesDiffer
<1>5. ASSUME NEW w \in Worker, NEW m \in Message,
             Renew(w, m) \/ MarkRetryScheduled(w, m) \/ MarkCompleted(w, m)
      PROVE  PMTypeOK' /\ LeasesDiffer'
  <2>1. "retry_scheduled" \in PMStatus /\ "completed" \in PMStatus
    BY DEF PMStatus
  <2> QED
    BY <1>3, <1>5, <2>1 DEF Renew, MarkRetryScheduled, MarkCompleted
<1>6. ASSUME NEW m \in Message, LeaseExpires(m) PROVE PMTypeOK' /\ LeasesDiffer'
  BY <1>3, <1>6 DEF LeaseExpires
<1>7. CASE UNCHANGED pmVars
  BY <1>7 DEF pmVars, PMTypeOK, LeasesDiffer
<1> QED
  BY <1>2, <1>4, <1>5, <1>6, <1>7 DEF TableStep
-----------------------------------------------------------------------------
\* The queues hold copies.
QueuesOK == /\ main \in [Copy -> Nat]
            /\ retry \in [Copy -> Nat]
            /\ dlq \subseteq Copy

\* Whatever is published, deferred, requeued or redelivered is a copy with a legal attempt.
LEMMA QueuesStep ==
    ASSUME QueuesOK, wk \in [Worker -> SoundConsumer], [Next]_pipelineVars
    PROVE  QueuesOK'
<1> USE DEF QueuesOK
<1>1. ASSUME NEW w \in Worker, wk[w].msg # NoCopy PROVE wk[w].msg \in Copy
  BY <1>1 DEF SoundConsumer, Consumer
<1>2. ASSUME NEW w \in Worker, wk[w].pc \notin { "idle", "stopped" } PROVE wk[w].msg \in Copy
  BY <1>2 DEF SoundConsumer, Sound
<1>3. ASSUME NEW q \in [Copy -> Nat], NEW c \in Copy
      PROVE  /\ Put(q, c) \in [Copy -> Nat]
             /\ q[c] > 0 => Take(q, c) \in [Copy -> Nat]
  BY DEF Put, Take
<1>4. ASSUME NEW w \in Worker, wk[w].pc \notin { "idle", "stopped" },
             PublishDLQ(w) \/ (HasRetryLeft(w) /\ PublishRetry(w))
      PROVE  QueuesOK'
  <2>1. CASE PublishDLQ(w)
    BY <1>2, <1>4, <2>1 DEF PublishDLQ
  <2>2. CASE HasRetryLeft(w) /\ PublishRetry(w)
    <3>1. [id |-> MsgId(w), attempt |-> NextAttempt(w)] \in Copy
      BY <1>2, <1>4, <2>2, PipelineAssumption
      DEF Copy, MsgId, NextAttempt, Attempt, HasRetryLeft
    <3> QED
      BY <1>3, <2>2, <3>1 DEF PublishRetry
  <2> QED
    BY <1>4, <2>1, <2>2
<1>5. ASSUME UNCHANGED queues PROVE QueuesOK'
  BY <1>5 DEF queues
<1>6. ASSUME NEW m \in Message, Publish(m) PROVE QueuesOK'
  <2>1. [id |-> m, attempt |-> 0] \in Copy
    BY PipelineAssumption DEF Copy
  <2> QED
    BY <1>3, <1>6, <2>1 DEF Publish
<1>7. ASSUME NEW c \in Copy, RetryElapses(c) PROVE QueuesOK'
  BY <1>3, <1>7 DEF RetryElapses
<1>8. ASSUME NEW w \in Worker, NEW c \in Copy, Deliver(w, c) PROVE QueuesOK'
  BY <1>3, <1>8 DEF Deliver
<1>9. ASSUME NEW w \in Worker, Reject(w) \/ Defer(w) \/ Missing(w) \/ Schedule(w) PROVE QueuesOK'
  <2>1. wk[w].pc \notin { "idle", "stopped" }
    BY <1>9 DEF Reject, Defer, Missing, Schedule, At
  <2>2. wk[w].msg \in Copy
    BY <1>2, <2>1
  <2>3. Put(retry, wk[w].msg) \in [Copy -> Nat]
    BY <1>3, <2>2
  <2> QED
    BY <1>4, <1>9, <2>1, <2>2, <2>3 DEF Reject, Defer, Missing, Schedule
<1>10. ASSUME NEW w \in Worker, Nack(w) \/ Fatal(w) PROVE QueuesOK'
  <2>1. wk[w].msg \in Copy
    BY <1>2, <1>10 DEF Nack, Fatal, Running, At
  <2>2. Put(main, wk[w].msg) \in [Copy -> Nat]
    BY <1>3, <2>1
  <2> QED
    BY <1>10, <2>2 DEF Nack, Fatal, Requeue
<1>11. ASSUME NEW w \in Worker, Crash(w) \/ ConnectionLost(w) PROVE QueuesOK'
  <2>1. wk[w].msg # NoCopy => Put(main, wk[w].msg) \in [Copy -> Nat]
    BY <1>1, <1>3
  <2> QED
    BY <1>11, <2>1 DEF Crash, ConnectionLost
<1>12. ASSUME NEW w \in Worker, PublishError(w) PROVE QueuesOK'
  <2>1. wk[w].pc \notin { "idle", "stopped" }
    BY <1>12 DEF PublishError, PublishFailure, At
  <2>2. Put(retry, wk[w].msg) \in [Copy -> Nat]
    BY <1>2, <1>3, <2>1
  <2> QED
    BY <1>4, <1>5, <1>12, <2>1, <2>2 DEF PublishError
<1>13. ASSUME NEW w \in Worker, WorkerStep(w) PROVE QueuesOK'
  BY <1>5, <1>9, <1>10, <1>13
  DEF WorkerStep, ClaimGranted, ClaimRefused, Load, Start, Generate, Validate, Execute, Store,
      Succeed, SetRetrying, SetFailed, Abandon, MarkRetry, Complete, Ack, PublishOffline,
      StageFault
<1>14. ASSUME EnvironmentFault PROVE QueuesOK'
  BY <1>5, <1>11, <1>12, <1>14 DEF EnvironmentFault, RenewError, DbError, Pause
<1> QED
  BY <1>5, <1>6, <1>7, <1>8, <1>13, <1>14
  DEF Next, Submit, RenewTick, Expire, pipelineVars

\* The bounds of the environment hold.
LEMMA CountersStep ==
    ASSUME sent \in [Message -> 0..MaxSent], faults \in 0..MaxFaults, [Next]_pipelineVars
    PROVE  sent' \in [Message -> 0..MaxSent] /\ faults' \in 0..MaxFaults
<1>1. (\E m \in Message : Publish(m)) \/ sent' = sent
  BY DEF Next, EnvironmentFault, Submit, RetryElapses, Deliver, RenewTick, Expire, WorkerStep,
      Reject, ClaimGranted, ClaimRefused, Defer, Load, Start, Generate, Validate, Execute, Store,
      Succeed, Schedule, SetRetrying, SetFailed, Abandon, Missing, MarkRetry, Complete, Ack, Nack,
      Fatal, PublishOffline, StageFault, Crash, ConnectionLost, RenewError, DbError,
      PublishError, Pause, pipelineVars
<1>2. sent' \in [Message -> 0..MaxSent]
  <2>1. CASE sent' = sent
    BY <2>1
  <2>2. ASSUME NEW m \in Message, Publish(m) PROVE sent' \in [Message -> 0..MaxSent]
    <3>1. sent[m] \in 0..MaxSent /\ sent[m] < MaxSent
      BY <2>2 DEF Publish
    <3>2. sent[m] + 1 \in 0..MaxSent
      BY <3>1, PipelineAssumption
    <3> QED
      BY <2>2, <3>2 DEF Publish
  <2> QED
    BY <1>1, <2>1, <2>2
<1>3. (faults < MaxFaults /\ faults' = faults + 1) \/ faults' = faults
  BY DEF Next, EnvironmentFault, Submit, Publish, RetryElapses, Deliver, RenewTick, Expire,
      WorkerStep, Fault,
      Reject, ClaimGranted, ClaimRefused, Defer, Load, Start, Generate, Validate, Execute, Store,
      Succeed, Schedule, SetRetrying, SetFailed, Abandon, Missing, MarkRetry, Complete, Ack, Nack,
      Fatal, PublishOffline, StageFault, Crash, ConnectionLost, RenewError, DbError,
      PublishError, Pause, pipelineVars
<1>4. faults' \in 0..MaxFaults
  BY <1>3, PipelineAssumption
<1> QED
  BY <1>2, <1>4
-----------------------------------------------------------------------------
\* A worker about to report success has stored the result.
StoredBeforeSuccess ==
    \A w \in Worker : At(w, "succeed") => HasResult(JobId(w))

Inv == /\ TypeOK
       /\ wk \in [Worker -> SoundConsumer]
       /\ LeasesDiffer
       /\ StoredBeforeSuccess
       /\ SucceededHasResult

\* An update of query_jobs names one row.
LEMMA OneRowAtATime ==
    ASSUME [Next]_pipelineVars
    PROVE  job' = job \/ \E i, r : job' = [job EXCEPT ![i] = r]
<1>1. ASSUME NEW w \in Worker, NEW from, NEW r, NEW pc, Cas(w, from, r, pc)
      PROVE  job' = job \/ \E i, q : job' = [job EXCEPT ![i] = q]
  BY <1>1 DEF Cas
<1>2. ASSUME NEW w \in Worker, WorkerStep(w)
      PROVE  job' = job \/ \E from, r, pc : Cas(w, from, r, pc)
  BY <1>2
  DEF WorkerStep, Reject, ClaimGranted, ClaimRefused, Defer, Load, Start, Generate, Validate,
      Execute, Store, Succeed, Schedule, SetRetrying, SetFailed, Abandon, Missing, MarkRetry,
      Complete, Ack, Nack, Fatal, PublishOffline, StageFault, CasStatus
<1> QED
  BY <1>1, <1>2
  DEF Next, EnvironmentFault, Submit, Publish, RetryElapses, Deliver, RenewTick, Expire,
      Crash, ConnectionLost, RenewError, DbError, PublishError, Pause, pipelineVars

\* Empty tables and idle consumers satisfy the invariant.
LEMMA InitInv == Init => Inv
<1> SUFFICES ASSUME Init PROVE Inv
  OBVIOUS
<1>1. PMTypeOK
  BY DEF Init, PMInit, PMTypeOK, Row, NoRow, PMStatus
<1>2. NoJob \in JobRow
  BY DEF NoJob, JobRow
<1>3. job \in [Job -> JobRow] /\ \A j \in Job : job[j].status = "absent"
  BY <1>2 DEF Init, NoJob
<1>4. wk \in [Worker -> SoundConsumer] /\ \A w \in Worker : wk[w].pc = "idle"
  BY Resting DEF Init, Idle
<1>5. wk \in [Worker -> Consumer]
  BY <1>4 DEF SoundConsumer
<1>6. /\ main \in [Copy -> Nat] /\ retry \in [Copy -> Nat] /\ dlq \subseteq Copy
      /\ cached \subseteq Job \X Worker /\ sent \in [Message -> 0..MaxSent] /\ faults \in 0..MaxFaults
  BY PipelineAssumption DEF Init
<1>7. LeasesDiffer
  BY DEF Init, PMInit, LeasesDiffer
<1> QED
  BY <1>1, <1>3, <1>4, <1>5, <1>6, <1>7
  DEF Inv, TypeOK, StoredBeforeSuccess, SucceededHasResult, At

\* Every step of the workers, the broker, time and the faults keeps the invariant.
LEMMA InvStep == ASSUME Inv, [Next]_pipelineVars PROVE Inv'
<1>1. /\ PMTypeOK
      /\ job \in [Job -> JobRow]
      /\ QueuesOK
      /\ cached \subseteq Job \X Worker
      /\ sent \in [Message -> 0..MaxSent]
      /\ faults \in 0..MaxFaults
      /\ wk \in [Worker -> SoundConsumer]
      /\ LeasesDiffer
  BY DEF Inv, TypeOK, QueuesOK
<1>2. wk' \in [Worker -> SoundConsumer]
  BY <1>1, WorkerStaysSound
<1>3. wk' \in [Worker -> Consumer]
  BY <1>2 DEF SoundConsumer
<1>4. PMTypeOK' /\ LeasesDiffer'
  BY <1>1, TableSteps, TableInvariant
<1>5. QueuesOK'
  BY <1>1, QueuesStep
<1>6. sent' \in [Message -> 0..MaxSent] /\ faults' \in 0..MaxFaults
  BY <1>1, CountersStep
<1>7. \A j \in Job : JobMove(j)
  BY <1>1, JobMoves
<1>8. job' \in [Job -> JobRow]
  <2>1. \A j \in Job : job'[j] \in JobRow
    <3>1. [status |-> "queued", attempt |-> 0] \in JobRow
      BY DEF JobRow, Status
    <3> QED
      BY <1>1, <1>7, <3>1 DEF JobMove
  <2>2. job' = [j \in Job |-> job'[j]]
    BY <1>1, OneRowAtATime
  <2> QED
    BY <2>1, <2>2
<1>9. /\ \A j \in Job : HasResult(j) => HasResult(j)'
      /\ cached' = cached \/ \E w \in Worker : Store(w)
  BY CachedGrows
<1>10. cached' \subseteq Job \X Worker
  <2>1. ASSUME NEW w \in Worker, Store(w) PROVE cached' \subseteq Job \X Worker
    <3>1. wk[w].msg \in Copy
      BY <1>1, <2>1 DEF Store, Running, At, SoundConsumer, Sound
    <3>2. JobId(w) \in Job
      BY <3>1, PMAssumption DEF JobId, MsgId, Copy
    <3> QED
      BY <1>1, <2>1, <3>2 DEF Store, Stored
  <2> QED
    BY <1>1, <1>9, <2>1
<1>11. StoredBeforeSuccess'
  <2> SUFFICES ASSUME NEW v \in Worker, wk'[v].pc = "succeed"
               PROVE  \E u \in Worker : <<JobOf[wk'[v].msg.id], u>> \in cached'
    BY DEF StoredBeforeSuccess, HasResult, At, JobId, MsgId
  <2>1. ReachesSucceed(v)
    BY <1>1, SucceedOnlyAfterStore
  <2>2. \E u \in Worker : <<JobId(v), u>> \in cached'
    <3>1. CASE wk[v].pc = "succeed"
      <4>1. wk[v].msg \in Copy
        BY <1>1, <3>1 DEF SoundConsumer, Sound
      <4>2. JobId(v) \in Job
        BY <4>1, PMAssumption DEF JobId, MsgId, Copy
      <4>3. HasResult(JobId(v))
        BY <3>1 DEF Inv, StoredBeforeSuccess, At
      <4> QED
        BY <1>9, <4>2, <4>3 DEF HasResult
    <3> QED
      BY <2>1, <3>1 DEF ReachesSucceed
  <2> QED
    BY <2>1, <2>2 DEF ReachesSucceed, JobId, MsgId
<1>12. SucceededHasResult'
  <2> SUFFICES ASSUME NEW j \in Job, job'[j].status = "succeeded" PROVE HasResult(j)'
    BY DEF SucceededHasResult
  <2>1. JobMove(j)
    BY <1>7
  <2>2. CASE job'[j] = job[j]
    BY <1>9, <2>2 DEF Inv, SucceededHasResult
  <2>3. CASE \E w \in Worker : At(w, "succeed") /\ JobId(w) = j
    BY <1>9, <2>3 DEF Inv, StoredBeforeSuccess
  <2> QED
    BY <2>1, <2>2, <2>3 DEF JobMove
<1> QED
  BY <1>2, <1>3, <1>4, <1>5, <1>6, <1>8, <1>10, <1>11, <1>12 DEF Inv, TypeOK, QueuesOK

\* The invariant holds in every reachable state.
THEOREM Invariance == Spec => []Inv
BY InitInv, InvStep, PTL DEF Spec

\* The tables, queues and workers keep their types; no copy has an attempt beyond
\* RETRY_MAX_ATTEMPTS.
THEOREM TypeCorrect == Spec => []TypeOK
<1>1. Inv => TypeOK
  BY DEF Inv
<1> QED
  BY <1>1, Invariance, PTL

\* A takeover in Claim invalidates the lease token of the previous worker: two workers
\* never own one processed_messages row.
THEOREM OneOwnerCorrect == Spec => []OneOwner
<1>1. Inv => OneOwner
  BY DEF Inv, LeasesDiffer, OneOwner, Owns
<1> QED
  BY <1>1, Invariance, PTL

\* A job is reported as succeeded only when SetRaw has put its result into Redis.
THEOREM ResultCorrect == Spec => []SucceededHasResult
<1>1. Inv => SucceededHasResult
  BY DEF Inv
<1> QED
  BY <1>1, Invariance, PTL

\* The compare-and-set updates keep every job within validTransitions even when an
\* overtaken worker goes on writing; succeeded and failed are final.
THEOREM TransitionsCorrect == Spec => FollowsTransitions
<1>1. ASSUME Inv, [Next]_pipelineVars
      PROVE  \A j \in Job : job'[j].status # job[j].status =>
               \/ <<job[j].status, job'[j].status>> \in ValidTransitions
               \/ job[j].status = "absent" /\ job'[j].status = "queued"
  <2>1. wk \in [Worker -> SoundConsumer] /\ job \in [Job -> JobRow]
    BY <1>1 DEF Inv, TypeOK
  <2>2. \A j \in Job : JobMove(j)
    BY <1>1, <2>1, JobMoves
  <2> QED
    BY <2>2 DEF JobMove
<1> QED
  BY <1>1, Invariance, PTL DEF Spec, FollowsTransitions

\* No operation of the repository reopens a completed row, so a later duplicate is
\* acknowledged without being executed.
THEOREM CompletedCorrect == Spec => CompletedIsFinal
<1>1. ASSUME Inv, [Next]_pipelineVars
      PROVE  \A m \in Message : pm[m].status = "completed" => pm'[m].status = "completed"
  <2> SUFFICES ASSUME NEW m \in Message, pm[m].status = "completed"
               PROVE  pm'[m].status = "completed"
    OBVIOUS
  <2>1. pm \in [Message -> Row] /\ pm[m] \in Row
    BY <1>1 DEF Inv, TypeOK, PMTypeOK
  <2>2. TableStep
    BY <1>1, TableSteps DEF Inv
  <2>3. ASSUME NEW w \in Worker, NEW n \in Message, Claim(w, n) PROVE pm'[m] = pm[m]
    BY <2>1, <2>3 DEF Claim, Claimable
  <2>4. ASSUME NEW w \in Worker, NEW n \in Message, Renew(w, n) \/ MarkRetryScheduled(w, n)
        PROVE  pm'[m].status = "completed"
    BY <2>1, <2>4 DEF Renew, MarkRetryScheduled, CanMarkRetryScheduled, CanRenew, Row
  <2>5. ASSUME NEW w \in Worker, NEW n \in Message, MarkCompleted(w, n)
        PROVE  pm'[m].status = "completed"
    BY <2>1, <2>5 DEF MarkCompleted, Row
  <2>6. ASSUME NEW n \in Message, LeaseExpires(n) PROVE pm'[m].status = "completed"
    BY <2>1, <2>6 DEF LeaseExpires, Row
  <2> QED
    BY <2>2, <2>3, <2>4, <2>5, <2>6 DEF TableStep, Forget, pmVars
<1> QED
  BY <1>1, Invariance, PTL DEF Spec, CompletedIsFinal
===============================================================================
