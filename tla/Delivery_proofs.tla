--------------------------- MODULE Delivery_proofs ---------------------------
(* What the queues and the processed_messages table promise together, for any   *)
(* number of workers, messages and faults: no message of a job is lost before   *)
(* its row says completed (Lives), and, where leases do not run out under the   *)
(* feet of a live worker, one worker at a time runs a job, alone writes its row *)
(* and its result (Kept), and a retry the database announces is on its way      *)
(* (Announced).                                                                 *)
(*                                                                              *)
(* A step is a step of one worker or of the surroundings (Actors).  The first   *)
(* part says what a step of a worker does to the worker (Moves), to the copies  *)
(* (CopiesStay) and to the rows (RowMoves); the invariants rest on these.       *)
EXTENDS QueryPipeline_proofs

\* The steps of one worker, its faults included.
Acts(w) ==
    \/ WorkerStep(w) \/ RenewTick(w)
    \/ \E c \in Copy : Deliver(w, c)
    \/ Crash(w) \/ ConnectionLost(w) \/ RenewError(w) \/ DbError(w) \/ PublishError(w)

\* The steps of the API, the broker and time.
Surroundings ==
    \/ \E j \in Job : Submit(j)
    \/ \E m \in Message : Publish(m) \/ Expire(m) \/ Pause(m)
    \/ \E c \in Copy : RetryElapses(c)
    \/ UNCHANGED pipelineVars

\* Between a granted claim and its release.
Own == { "claimed", "start", "generating", "validating", "executing", "store",
         "succeed", "retry", "setretrying", "setfailed",
         "missing", "markretry", "complete" }

\* Every step has an actor.
LEMMA Actors == [Next]_pipelineVars => Surroundings \/ \E w \in Worker : Acts(w)
BY DEF Next, EnvironmentFault, Acts, Surroundings

\* The surroundings leave the workers and their lease tokens alone.
LEMMA SurroundingsApart == Surroundings => wk' = wk /\ lease' = lease
BY DEF Surroundings, Submit, Publish, Expire, Pause, LeaseExpires, RetryElapses, pipelineVars

\* A worker leaves the local variables of the others alone.
LEMMA OthersStay ==
    ASSUME Inv, NEW w \in Worker, Acts(w), NEW v \in Worker, v # w
    PROVE  wk'[v] = wk[v] /\ lease'[v] = lease[v]
<1>0. /\ wk \in [Worker -> SoundConsumer]
      /\ lease \in [Worker -> Token \union {NoToken}]
  BY DEF Inv, TypeOK, PMTypeOK
<1>1. wk'[v] = wk[v]
  <2>1. ASSUME WorkerStep(w) PROVE wk'[v] = wk[v]
    BY <1>0, <2>1
    DEF WorkerStep, Reject, ClaimGranted, ClaimRefused, Defer, Load, Start, Generate, Validate,
        Execute, Store, Succeed, Schedule, SetRetrying, SetFailed, Abandon, Missing, MarkRetry,
        Complete, Ack, Nack, Fatal, PublishOffline, PublishFailure, StageFault, CasStatus, Cas,
        Goto, LoopOn
  <2> QED
    BY <1>0, <2>1
    DEF Acts, RenewTick, Deliver, Crash, ConnectionLost, RenewError, DbError, PublishError,
        PublishFailure, Goto
<1>2. lease'[v] = lease[v]
  <2>1. ASSUME WorkerStep(w) PROVE lease'[v] = lease[v]
    BY <1>0, <2>1
    DEF WorkerStep, Reject, ClaimGranted, ClaimRefused, Defer, Load, Start, Generate, Validate,
        Execute, Store, Succeed, Schedule, SetRetrying, SetFailed, Abandon, Missing, MarkRetry,
        Complete, Ack, Nack, Fatal, PublishOffline, StageFault, LoopOn,
        Claim, Forget, MarkRetryScheduled, MarkCompleted, pmVars
  <2> QED
    BY <1>0, <2>1
    DEF Acts, RenewTick, Deliver, Crash, ConnectionLost, RenewError, DbError, PublishError,
        Renew, Forget, pmVars
<1> QED
  BY <1>1, <1>2
-----------------------------------------------------------------------------
\* What a step of a worker does to the worker itself: it goes on with its
\* delivery, takes a new one, or is rid of it.
Onward(w) ==
    LET s == wk[w]
        t == wk'[w] IN
    /\ t.msg = s.msg
    /\ t.pc \in { "idle", "stopped" } => t.pc = s.pc
    /\ t.pc = "received" => s.pc = "received" /\ t.lost = s.lost
    /\ t.pc = "reject" => s.pc = "reject" \/ (s.pc = "received" /\ ClaimConflict(MsgId(w)))
    /\ t.pc \in Own =>
          \/ /\ s.pc \in Own
             /\ lease'[w] = lease[w]
             /\ t.renewing = s.renewing \/ RenewError(w)
             /\ t.lost = s.lost \/ ~CanRenew(w, MsgId(w))
          \/ /\ s.pc = "received" /\ t.pc = "claimed"
             /\ Claim(w, MsgId(w))
             /\ t.renewing /\ t.lost = s.lost
    /\ t.pc = "setretrying" =>
          s.pc = "setretrying" \/ (s.pc = "retry" /\ HasRetryLeft(w) /\ PublishRetry(w))
    /\ t.pc = "markretry" => s.pc \in { "markretry", "setretrying" }

Rid(w) == wk'[w].pc \in { "idle", "stopped" } /\ wk'[w].msg = NoCopy

WorkerMove(w) == Onward(w) \/ Rid(w) \/ \E c \in Copy : Deliver(w, c)

\* A step of handle or Process that keeps the delivery.
LEMMA GotoMoves ==
    ASSUME Inv, NEW w \in Worker, NEW pc, Goto(w, pc),
           pc \notin { "idle", "stopped", "received", "reject", "setretrying", "markretry" },
           pc \in Own => wk[w].pc \in Own /\ lease'[w] = lease[w]
    PROVE  Onward(w)
<1>1. wk \in [Worker -> Consumer]
  BY DEF Inv, TypeOK
<1>2. wk'[w] = [wk[w] EXCEPT !.pc = pc]
  BY <1>1 DEF Goto
<1>3. /\ wk'[w].pc = pc /\ wk'[w].msg = wk[w].msg
      /\ wk'[w].renewing = wk[w].renewing /\ wk'[w].lost = wk[w].lost
  BY <1>1, <1>2 DEF Consumer
<1> QED
  BY <1>3 DEF Onward

\* A compare-and-set keeps the delivery and the lease, whether it hits a row or not.
LEMMA CasMoves ==
    ASSUME Inv, NEW w \in Worker, NEW from, NEW row, NEW pc, Cas(w, from, row, pc),
           wk[w].pc \in Own, lease'[w] = lease[w],
           pc \notin { "idle", "stopped", "received", "reject", "setretrying" },
           pc = "markretry" => wk[w].pc = "setretrying"
    PROVE  Onward(w)
<1>1. wk \in [Worker -> Consumer]
  BY DEF Inv, TypeOK
<1>2. CASE wk' = [wk EXCEPT ![w] = [@ EXCEPT !.pc = pc, !.from = row.status]]
  <2>1. wk'[w] = [wk[w] EXCEPT !.pc = pc, !.from = row.status]
    BY <1>1, <1>2
  <2>2. /\ wk'[w].pc = pc /\ wk'[w].msg = wk[w].msg
        /\ wk'[w].renewing = wk[w].renewing /\ wk'[w].lost = wk[w].lost
    BY <1>1, <2>1 DEF Consumer
  <2> QED
    BY <2>2 DEF Onward
<1>3. CASE Goto(w, "error")
  BY <1>3, GotoMoves DEF Own
<1> QED
  BY <1>2, <1>3 DEF Cas

\* Each action of a worker goes on with its delivery, takes one or drops it.
LEMMA Moves == ASSUME Inv, NEW w \in Worker, Acts(w) PROVE WorkerMove(w)
<1>0. /\ wk \in [Worker -> Consumer]
      /\ lease \in [Worker -> Token \union {NoToken}]
  BY DEF Inv, TypeOK, PMTypeOK
<1> DEFINE P == WorkerMove(w)
<1>1. ASSUME NEW pc, Goto(w, pc),
             pc \notin { "idle", "stopped", "received", "reject", "setretrying", "markretry" },
             pc \in Own => wk[w].pc \in Own /\ lease'[w] = lease[w]
      PROVE  P
  BY <1>1, GotoMoves DEF WorkerMove
<1>2. ASSUME NEW from, NEW row, NEW pc, Cas(w, from, row, pc),
             wk[w].pc \in Own, lease'[w] = lease[w],
             pc \notin { "idle", "stopped", "received", "reject", "setretrying" },
             pc = "markretry" => wk[w].pc = "setretrying"
      PROVE  P
  BY <1>2, CasMoves DEF WorkerMove
<1>3. ASSUME NEW s \in { Idle, Stopped }, wk' = [wk EXCEPT ![w] = s] PROVE P
  <2>1. wk'[w] = s
    BY <1>0, <1>3
  <2>2. /\ Idle.pc = "idle" /\ Idle.msg = NoCopy
        /\ Stopped.pc = "stopped" /\ Stopped.msg = NoCopy
    BY DEF Idle, Stopped
  <2> QED
    BY <1>3, <2>1, <2>2 DEF WorkerMove, Rid
<1>4. ASSUME Reject(w) \/ Defer(w) \/ (ClaimRefused(w) /\ ~ClaimConflict(MsgId(w)))
             \/ Missing(w) \/ Complete(w) \/ MarkRetry(w) \/ Abandon(w) \/ Store(w)
             \/ PublishOffline(w) \/ PublishError(w) \/ DbError(w)
             \/ StageFault(w, "generating") \/ StageFault(w, "executing")
      PROVE  P
  BY <1>1, <1>4
  DEF Reject, Defer, ClaimRefused, Missing, Complete, MarkRetry, Abandon, Store, StageFault,
      PublishOffline, PublishError, PublishFailure, DbError, Own, Processing, At, Running
<1>5. ASSUME ClaimRefused(w), ClaimConflict(MsgId(w)) PROVE P
  <2>1. At(w, "received")
    BY <1>5 DEF ClaimRefused
  <2>2. CASE Goto(w, "reject")
    <3>1. wk'[w] = [wk[w] EXCEPT !.pc = "reject"]
      BY <1>0, <2>2 DEF Goto
    <3>2. wk'[w].pc = "reject" /\ wk'[w].msg = wk[w].msg
      BY <1>0, <3>1 DEF Consumer
    <3> QED
      BY <1>5, <2>1, <3>2 DEF WorkerMove, Onward, Own, At
  <2>3. CASE Goto(w, "ack") \/ Goto(w, "defer")
    BY <1>1, <2>3 DEF Own
  <2> QED
    BY <1>5, <2>2, <2>3 DEF ClaimRefused
<1>6. ASSUME ClaimGranted(w) PROVE P
  <2>1. wk'[w] = [wk[w] EXCEPT !.pc = "claimed", !.renewing = TRUE]
    BY <1>0, <1>6 DEF ClaimGranted
  <2>2. /\ wk'[w].pc = "claimed" /\ wk'[w].msg = wk[w].msg
        /\ wk'[w].renewing /\ wk'[w].lost = wk[w].lost
    BY <1>0, <2>1 DEF Consumer
  <2> QED
    BY <1>6, <2>2 DEF ClaimGranted, WorkerMove, Onward, At
<1>7. ASSUME Load(w) PROVE P
  <2>1. wk[w].pc = "claimed" /\ lease' = lease
    BY <1>7 DEF Load, Running, At
  <2>2. CASE Goto(w, "missing") \/ Goto(w, "complete")
    BY <1>1, <2>1, <2>2 DEF Own
  <2>3. CASE \E pc \in { "start", "retry" } : \E s :
                wk' = [wk EXCEPT ![w] = [@ EXCEPT !.pc = pc, !.from = s]]
    <3>1. PICK pc \in { "start", "retry" } :
                \E s : wk'[w] = [wk[w] EXCEPT !.pc = pc, !.from = s]
      BY <1>0, <2>3
    <3>2. /\ wk'[w].pc = pc /\ wk'[w].msg = wk[w].msg
          /\ wk'[w].renewing = wk[w].renewing /\ wk'[w].lost = wk[w].lost
      BY <1>0, <3>1 DEF Consumer
    <3> QED
      BY <2>1, <3>1, <3>2 DEF WorkerMove, Onward, Own
  <2> QED
    BY <1>7, <2>2, <2>3 DEF Load
<1>8. ASSUME Start(w) \/ Generate(w) \/ Validate(w) \/ Execute(w) \/ Succeed(w)
             \/ SetFailed(w) \/ SetRetrying(w)
      PROVE  P
  <2>1. wk[w].pc \in Own /\ lease' = lease
    BY <1>8
    DEF Start, Generate, Validate, Execute, Succeed, SetFailed, SetRetrying, StageFault, Running,
        At, Own
  <2>2. ASSUME SetRetrying(w) PROVE P
    BY <1>2, <2>1, <2>2 DEF SetRetrying, Running, At
  <2> QED
    BY <1>1, <1>2, <1>4, <1>8, <2>1, <2>2
    DEF Start, Generate, Validate, Execute, Succeed, SetFailed, CasStatus, Own
<1>9. ASSUME Schedule(w) PROVE P
  <2>1. wk[w].pc = "retry" /\ lease' = lease
    BY <1>9 DEF Schedule, At
  <2>2. CASE Goto(w, "setretrying") /\ HasRetryLeft(w) /\ PublishRetry(w)
    <3>1. wk'[w] = [wk[w] EXCEPT !.pc = "setretrying"]
      BY <1>0, <2>2 DEF Goto
    <3>2. /\ wk'[w].pc = "setretrying" /\ wk'[w].msg = wk[w].msg
          /\ wk'[w].renewing = wk[w].renewing /\ wk'[w].lost = wk[w].lost
      BY <1>0, <3>1 DEF Consumer
    <3> QED
      BY <2>1, <2>2, <3>2 DEF WorkerMove, Onward, Own
  <2>3. CASE Goto(w, "nack") \/ Goto(w, "setfailed")
    BY <1>1, <2>1, <2>3 DEF Own
  <2> QED
    BY <1>9, <2>2, <2>3 DEF Schedule
<1>10. ASSUME Ack(w) \/ Nack(w) \/ Fatal(w) \/ Crash(w) PROVE P
  BY <1>3, <1>10 DEF Ack, Nack, Fatal, Crash, LoopOn
<1>11. ASSUME RenewTick(w) \/ RenewError(w) PROVE P
  <2>1. lease' = lease /\ wk[w].pc \in Processing
    BY <1>11 DEF RenewTick, RenewError, Renew, pmVars
  <2>2. CASE wk' = wk
    BY <2>1, <2>2 DEF WorkerMove, Onward, Processing
  <2>3. CASE wk' = [wk EXCEPT ![w].lost = TRUE] /\ ~CanRenew(w, MsgId(w))
    <3>1. wk'[w] = [wk[w] EXCEPT !.lost = TRUE]
      BY <1>0, <2>3
    <3>2. wk'[w].pc = wk[w].pc /\ wk'[w].msg = wk[w].msg /\ wk'[w].renewing = wk[w].renewing
      BY <1>0, <3>1 DEF Consumer
    <3> QED
      BY <2>1, <2>3, <3>2 DEF WorkerMove, Onward, Processing
  <2>4. CASE RenewError(w)
    <3>1. wk'[w] = [wk[w] EXCEPT !.renewing = FALSE]
      BY <1>0, <2>4 DEF RenewError
    <3>2. wk'[w].pc = wk[w].pc /\ wk'[w].msg = wk[w].msg /\ wk'[w].lost = wk[w].lost
      BY <1>0, <3>1 DEF Consumer
    <3> QED
      BY <2>1, <2>4, <3>2 DEF WorkerMove, Onward, Processing
  <2> QED
    BY <1>11, <2>2, <2>3, <2>4 DEF RenewTick
<1>12. ASSUME ConnectionLost(w) PROVE P
  <2>1. CASE wk' = [wk EXCEPT ![w] = Stopped]
    BY <1>3, <2>1
  <2>2. CASE wk' = [wk EXCEPT ![w] = [@ EXCEPT !.connected = FALSE]]
    <3>1. wk'[w] = [wk[w] EXCEPT !.connected = FALSE]
      BY <1>0, <2>2
    <3>2. /\ wk'[w].pc = wk[w].pc /\ wk'[w].msg = wk[w].msg
          /\ wk'[w].renewing = wk[w].renewing /\ wk'[w].lost = wk[w].lost
      BY <1>0, <3>1 DEF Consumer
    <3> QED
      BY <1>12, <3>2 DEF WorkerMove, Onward, ConnectionLost
  <2> QED
    BY <1>12, <2>1, <2>2 DEF ConnectionLost
<1>13. ASSUME NEW c \in Copy, Deliver(w, c) PROVE P
  BY <1>13 DEF WorkerMove
<1>14. ASSUME WorkerStep(w) PROVE P
  BY <1>4, <1>5, <1>6, <1>7, <1>8, <1>9, <1>10, <1>14 DEF WorkerStep
<1> QED
  BY <1>4, <1>10, <1>11, <1>12, <1>13, <1>14 DEF Acts
-----------------------------------------------------------------------------
\* What a step of a worker does to processed_messages: one operation of the
\* repository on the row of its message, at the program point that calls it.
RowMove(w) ==
    \/ pm' = pm
    \/ /\ wk[w].pc \notin { "idle", "stopped" }
       /\ \/ At(w, "received") /\ Claim(w, MsgId(w))
          \/ Renew(w, MsgId(w)) /\ wk' = wk
          \/ At(w, "markretry") /\ MarkRetryScheduled(w, MsgId(w)) /\ wk'[w].pc = "ack"
          \/ At(w, "complete") /\ MarkCompleted(w, MsgId(w)) /\ wk'[w].pc = "ack"

\* Each operation on processed_messages is called from one program point.
LEMMA RowMoves == ASSUME Inv, NEW w \in Worker, Acts(w) PROVE RowMove(w)
<1>0. wk \in [Worker -> Consumer]
  BY DEF Inv, TypeOK
<1>1. ASSUME Goto(w, "ack") PROVE wk'[w].pc = "ack"
  BY <1>0, <1>1 DEF Goto, Consumer
<1>2. ASSUME ClaimGranted(w) PROVE RowMove(w)
  BY <1>2 DEF ClaimGranted, RowMove, At
<1>3. ASSUME MarkRetry(w) PROVE RowMove(w)
  BY <1>1, <1>3 DEF MarkRetry, RowMove, pmVars, At
<1>4. ASSUME Complete(w) PROVE RowMove(w)
  BY <1>1, <1>4 DEF Complete, RowMove, pmVars, At
<1>5. ASSUME RenewTick(w) PROVE RowMove(w)
  BY <1>5 DEF RenewTick, RowMove, pmVars, Processing
<1>6. ASSUME WorkerStep(w) PROVE RowMove(w)
  BY <1>2, <1>3, <1>4, <1>6
  DEF WorkerStep, Reject, ClaimRefused, Defer, Load, Start, Generate, Validate, Execute, Store,
      Succeed, Schedule, SetRetrying, SetFailed, Abandon, Missing, Ack, Nack, Fatal, LoopOn,
      Forget, PublishOffline, StageFault, RowMove
<1> QED
  BY <1>5, <1>6
  DEF Acts, Deliver, Crash, Forget, ConnectionLost, RenewError, DbError, PublishError, RowMove

\* Time may expire a lease; nothing else of the surroundings touches a row.
LEMMA SurroundingRows ==
    ASSUME Surroundings
    PROVE  pm' = pm \/ \E m \in Message : Expire(m) \/ Pause(m)
BY DEF Surroundings, Submit, Publish, RetryElapses, pipelineVars

\* A row that was never inserted has no lease token.
NoTokenYet == \A m \in Message : pm[m].status = "absent" => pm[m].token = NoToken

\* A row that exists is never deleted, and a completed one is final; a new row is
\* the work of a claim.
LEMMA RowsStay ==
    ASSUME Inv, NoTokenYet, [Next]_pipelineVars, NEW m \in Message
    PROVE  /\ pm[m].status # "absent" => pm'[m].status # "absent"
           /\ pm[m].status = "completed" => pm'[m].status = "completed"
           /\ pm'[m].status = "absent" => pm'[m] = pm[m]
           /\ pm[m].status = "absent" /\ pm'[m].status # "absent"
              => \E w \in Worker : Acts(w) /\ At(w, "received") /\ MsgId(w) = m /\ Claim(w, m)
<1>0. pm \in [Message -> Row]
  BY DEF Inv, TypeOK, PMTypeOK
<1>1. ASSUME Surroundings, pm' # pm
      PROVE  /\ pm'[m].status = pm[m].status
             /\ pm'[m].status = "absent" => pm'[m] = pm[m]
  <2>1. PICK n \in Message : LeaseExpires(n)
    BY <1>1, SurroundingRows DEF Expire, Pause
  <2> QED
    BY <1>0, <2>1 DEF LeaseExpires, Row
<1>2. ASSUME NEW w \in Worker, Acts(w), pm' # pm
      PROVE  /\ pm[m].status # "absent" => pm'[m].status # "absent"
             /\ pm[m].status = "completed" => pm'[m].status = "completed"
             /\ pm'[m].status = "absent" => pm'[m] = pm[m]
             /\ pm[m].status = "absent" /\ pm'[m].status # "absent"
                => At(w, "received") /\ MsgId(w) = m /\ Claim(w, m)
  <2>1. RowMove(w) /\ wk[w].pc \notin { "idle", "stopped" }
    BY <1>2, RowMoves DEF RowMove
  <2>2. MsgId(w) \in Message
    BY <2>1 DEF Inv, SoundConsumer, Sound, MsgId, Copy
  <2>3. CASE At(w, "received") /\ Claim(w, MsgId(w))
    BY <1>0, <2>2, <2>3 DEF Claim, Claimable
  <2>4. CASE Renew(w, MsgId(w))
    BY <1>0, <2>2, <2>4 DEF Renew, CanRenew, Row
  <2>5. CASE MarkRetryScheduled(w, MsgId(w))
    BY <1>0, <2>2, <2>5 DEF MarkRetryScheduled, CanMarkRetryScheduled, Row
  <2>6. CASE MarkCompleted(w, MsgId(w)) /\ At(w, "complete")
    <3>1. pm[MsgId(w)].status # "absent"
      BY <2>2, <2>6 DEF MarkCompleted, Owns, NoTokenYet
    <3> QED
      BY <1>0, <2>2, <2>6, <3>1 DEF MarkCompleted, Row
  <2> QED
    BY <1>2, <2>1, <2>3, <2>4, <2>5, <2>6 DEF RowMove
<1> QED
  BY <1>1, <1>2, Actors
-----------------------------------------------------------------------------
\* What a step of a worker does to the copies: each one stays in a queue or in
\* hands, except that the worker may be done with its own.
Settles(w) ==
    /\ wk'[w].pc = "ack"
    /\ \/ At(w, "received") /\ AlreadyDone(MsgId(w))
       \/ At(w, "reject")
       \/ At(w, "markretry") /\ MarkRetryScheduled(w, MsgId(w))
       \/ At(w, "complete") /\ MarkCompleted(w, MsgId(w))

CopyMove(w) ==
    \A c \in Copy : Available(c) => Available(c)' \/ (Settles(w) /\ c = wk[w].msg)

InQueue(c) == main[c] + retry[c] > 0

\* A copy that is put into a queue is there, and so are the others.
LEMMA PutIn ==
    ASSUME QueuesOK, NEW x \in Copy,
           \/ main' = Put(main, x) /\ retry' = retry
           \/ retry' = Put(retry, x) /\ main' = main
    PROVE  InQueue(x)' /\ \A c \in Copy : InQueue(c) => InQueue(c)'
<1>1. /\ main \in [Copy -> Nat] /\ retry \in [Copy -> Nat]
  BY DEF QueuesOK
<1>2. \A c \in Copy : /\ main'[c] \in Nat /\ retry'[c] \in Nat
                      /\ main'[c] >= main[c] /\ retry'[c] >= retry[c]
  BY <1>1 DEF Put
<1>3. main'[x] > main[x] \/ retry'[x] > retry[x]
  BY <1>1 DEF Put
<1> QED
  BY <1>1, <1>2, <1>3 DEF InQueue

\* Between two deliveries a worker holds none.
HandsEmpty == \A w \in Worker : wk[w].pc \in { "idle", "stopped" } => wk[w].msg = NoCopy

\* No step of a worker loses a copy, except the acknowledgement of its own.
LEMMA CopiesStay == ASSUME Inv, HandsEmpty, NEW w \in Worker, Acts(w) PROVE CopyMove(w)
<1>0. /\ wk \in [Worker -> Consumer]
      /\ QueuesOK
  BY DEF Inv, TypeOK, QueuesOK
<1> SUFFICES ASSUME NEW c \in Copy, Available(c)
             PROVE  Available(c)' \/ (Settles(w) /\ c = wk[w].msg)
  BY DEF CopyMove
<1> DEFINE P == Available(c)' \/ (Settles(w) /\ c = wk[w].msg)
           Still == InQueue(c) => InQueue(c)'
\* It is enough to look at the queues and at the hands of w.
<1>1. ASSUME Still, Holds(w, c) => Holds(w, c)' \/ InQueue(c)' PROVE Available(c)'
  <2>1. CASE InQueue(c)
    BY <1>1, <2>1 DEF Available, InQueue
  <2>2. CASE Holds(w, c)
    BY <1>1, <2>2 DEF Available, InQueue
  <2>3. ASSUME NEW v \in Worker, v # w, Holds(v, c) PROVE Available(c)'
    <3>1. Holds(v, c)'
      BY <2>3, OthersStay DEF Holds, At
    <3> QED
      BY <3>1 DEF Available
  <2> QED
    BY <2>1, <2>2, <2>3 DEF Available, InQueue
<1>2. UNCHANGED queues => Still
  BY DEF queues, InQueue
<1>3. wk[w].pc \notin { "idle", "stopped" } => wk[w].msg \in Copy
  BY DEF Inv, SoundConsumer, Sound
<1>4. wk[w].msg # NoCopy => wk[w].msg \in Copy
  BY <1>0 DEF Consumer
<1>5. c # NoCopy
  BY NoCopyAssumption
<1> HIDE DEF Still
\* The worker goes on with its delivery.
<1>6. ASSUME NEW pc, pc # "ack", Goto(w, pc) PROVE Holds(w, c) => Holds(w, c)'
  <2>1. wk'[w] = [wk[w] EXCEPT !.pc = pc]
    BY <1>0, <1>6 DEF Goto
  <2>2. wk'[w].pc = pc /\ wk'[w].msg = wk[w].msg /\ wk'[w].connected = wk[w].connected
    BY <1>0, <2>1 DEF Consumer
  <2> QED
    BY <1>6, <2>2 DEF Holds, At
<1>7. ASSUME NEW pc, pc # "ack", NEW st, UNCHANGED queues,
             wk' = [wk EXCEPT ![w] = [@ EXCEPT !.pc = pc, !.from = st]]
      PROVE  P
  <2>1. wk'[w] = [wk[w] EXCEPT !.pc = pc, !.from = st]
    BY <1>0, <1>7
  <2>2. wk'[w].pc = pc /\ wk'[w].msg = wk[w].msg /\ wk'[w].connected = wk[w].connected
    BY <1>0, <2>1 DEF Consumer
  <2>3. Holds(w, c) => Holds(w, c)'
    BY <1>7, <2>2 DEF Holds, At
  <2> QED
    BY <1>1, <1>2, <1>7, <2>3
<1>8. ASSUME NEW pc, pc # "ack", Goto(w, pc), UNCHANGED queues PROVE P
  BY <1>1, <1>2, <1>6, <1>8
<1>9. ASSUME NEW from, NEW row, NEW pc, pc # "ack", UNCHANGED queues, Cas(w, from, row, pc)
      PROVE  P
  BY <1>7, <1>8, <1>9 DEF Cas
\* The worker is done with its delivery.
<1>10. ASSUME Goto(w, "ack"), Still,
              \/ At(w, "received") /\ AlreadyDone(MsgId(w))
              \/ At(w, "reject")
              \/ At(w, "markretry") /\ MarkRetryScheduled(w, MsgId(w))
              \/ At(w, "complete") /\ MarkCompleted(w, MsgId(w))
       PROVE  P
  <2>1. wk'[w].pc = "ack"
    BY <1>0, <1>10 DEF Goto, Consumer
  <2>2. Settles(w)
    BY <1>10, <2>1 DEF Settles
  <2>3. ~Holds(w, c) => Available(c)'
    BY <1>1, <1>10
  <2> QED
    BY <2>2, <2>3 DEF Holds
\* The worker gives its delivery to the queue x.
<1>11. ASSUME wk[w].msg = c => InQueue(c)', Still PROVE P
  BY <1>1, <1>11 DEF Holds
<1>12. ASSUME ~Holds(w, c), Still PROVE P
  BY <1>1, <1>12
<1> HIDE DEF P
<1>13. ASSUME Reject(w) PROVE P
  <2>1. At(w, "reject") /\ Goto(w, "ack") /\ Still
    BY <1>13 DEF Reject, Still, InQueue
  <2> QED
    BY <1>10, <2>1
<1>14. ASSUME ClaimRefused(w) PROVE P
  <2>1. At(w, "received") /\ UNCHANGED queues
    BY <1>14 DEF ClaimRefused
  <2>2. CASE Goto(w, "ack") /\ AlreadyDone(MsgId(w))
    BY <1>2, <1>10, <2>1, <2>2
  <2>3. CASE Goto(w, "defer") \/ Goto(w, "reject")
    BY <1>8, <2>1, <2>3
  <2> QED
    BY <1>14, <2>2, <2>3 DEF ClaimRefused
<1>15. ASSUME wk[w].pc \notin { "idle", "stopped" },
              \/ main' = Put(main, wk[w].msg) /\ retry' = retry
              \/ retry' = Put(retry, wk[w].msg) /\ main' = main
       PROVE  P
  <2>1. PICK x \in Copy : x = wk[w].msg
    BY <1>3, <1>15
  <2>2. \/ main' = Put(main, x) /\ retry' = retry
        \/ retry' = Put(retry, x) /\ main' = main
    BY <1>15, <2>1
  <2>3. InQueue(x)' /\ Still
    BY <1>0, <2>2, PutIn DEF Still
  <2> QED
    BY <1>11, <2>1, <2>3
<1>16. ASSUME Defer(w) PROVE P
  BY <1>15, <1>16 DEF Defer, At
<1>17. ASSUME Load(w) PROVE P
  <2>1. UNCHANGED queues
    BY <1>17 DEF Load
  <2>2. CASE Goto(w, "missing") \/ Goto(w, "complete")
    BY <1>8, <2>1, <2>2
  <2>3. CASE \E pc \in { "start", "retry" } : \E s :
                wk' = [wk EXCEPT ![w] = [@ EXCEPT !.pc = pc, !.from = s]]
    BY <1>7, <2>1, <2>3
  <2> QED
    BY <1>17, <2>2, <2>3 DEF Load
<1>18. ASSUME Start(w) \/ Generate(w) \/ Validate(w) \/ Execute(w) \/ Store(w) \/ Succeed(w)
              \/ SetRetrying(w) \/ SetFailed(w) \/ Abandon(w)
       PROVE  P
  <2>1. UNCHANGED queues
    BY <1>18
    DEF Start, Generate, Validate, Execute, Store, Succeed, SetRetrying, SetFailed, Abandon,
        StageFault
  <2> QED
    BY <1>8, <1>9, <1>18, <2>1
    DEF Start, Generate, Validate, Execute, Store, Succeed, SetRetrying, SetFailed, Abandon,
        StageFault, CasStatus
<1>19. ASSUME PublishDLQ(w) \/ (HasRetryLeft(w) /\ PublishRetry(w)),
              wk[w].pc \notin { "idle", "stopped" }
       PROVE  Still
  <2>1. CASE PublishDLQ(w)
    BY <2>1 DEF PublishDLQ, Still, InQueue
  <2>2. CASE HasRetryLeft(w) /\ PublishRetry(w)
    <3>1. [id |-> MsgId(w), attempt |-> NextAttempt(w)] \in Copy
      BY <1>3, <1>19, <2>2, PipelineAssumption
      DEF Copy, MsgId, NextAttempt, Attempt, HasRetryLeft
    <3> QED
      BY <1>0, <2>2, <3>1, PutIn DEF PublishRetry, Still
  <2> QED
    BY <1>19, <2>1, <2>2
<1>20. ASSUME Schedule(w) \/ Missing(w) PROVE P
  <2>1. wk[w].pc \notin { "idle", "stopped" }
    BY <1>20 DEF Schedule, Missing, At
  <2>2. Still
    BY <1>19, <1>20, <2>1 DEF Schedule, Missing
  <2>3. \E pc : pc # "ack" /\ Goto(w, pc)
    BY <1>20 DEF Schedule, Missing
  <2>4. Holds(w, c) => Holds(w, c)'
    BY <1>6, <2>3
  <2> QED
    BY <1>1, <2>2, <2>4 DEF P
<1>21. ASSUME MarkRetry(w) \/ Complete(w) PROVE P
  <2>1. UNCHANGED queues
    BY <1>21 DEF MarkRetry, Complete
  <2>2. CASE Goto(w, "nack")
    BY <1>8, <2>1, <2>2
  <2>3. CASE Goto(w, "ack") /\ \/ At(w, "markretry") /\ MarkRetryScheduled(w, MsgId(w))
                               \/ At(w, "complete") /\ MarkCompleted(w, MsgId(w))
    BY <1>2, <1>10, <2>1, <2>3
  <2> QED
    BY <1>21, <2>2, <2>3 DEF MarkRetry, Complete
<1>22. ASSUME Ack(w) PROVE P
  BY <1>2, <1>12, <1>22 DEF Ack, Holds
<1>23. ASSUME wk[w].msg # NoCopy, wk[w].connected, main' = Put(main, wk[w].msg), retry' = retry
       PROVE  P
  <2>1. PICK x \in Copy : x = wk[w].msg
    BY <1>4, <1>23
  <2>2. main' = Put(main, x) /\ retry' = retry
    BY <1>23, <2>1
  <2>3. InQueue(x)' /\ Still
    BY <1>0, <2>2, PutIn DEF Still
  <2> QED
    BY <1>11, <2>1, <2>3
<1>24. ASSUME wk[w].msg = NoCopy \/ ~wk[w].connected, UNCHANGED queues PROVE P
  BY <1>2, <1>5, <1>12, <1>24 DEF Holds
<1>25. ASSUME Nack(w) \/ Fatal(w) PROVE P
  <2>1. wk[w].msg \in Copy
    BY <1>3, <1>25 DEF Nack, Fatal, Running, At
  <2>2. wk[w].msg # NoCopy
    BY <2>1, NoCopyAssumption
  <2> QED
    BY <1>23, <1>24, <1>25, <2>2 DEF Nack, Fatal, Requeue, queues
<1>26. ASSUME Crash(w) \/ ConnectionLost(w) PROVE P
  BY <1>23, <1>24, <1>26 DEF Crash, ConnectionLost, queues
<1>27. ASSUME ClaimGranted(w) PROVE P
  <2>1. wk'[w] = [wk[w] EXCEPT !.pc = "claimed", !.renewing = TRUE]
    BY <1>0, <1>27 DEF ClaimGranted
  <2>2. /\ wk'[w].pc = "claimed" /\ wk'[w].msg = wk[w].msg
        /\ wk'[w].connected = wk[w].connected
    BY <1>0, <2>1 DEF Consumer
  <2>3. Holds(w, c) => Holds(w, c)'
    BY <2>2 DEF Holds, At
  <2> QED
    BY <1>1, <1>2, <1>27, <2>3 DEF ClaimGranted, P
<1>28. ASSUME RenewTick(w) \/ RenewError(w) PROVE P
  <2>1. wk' = wk \/ wk' = [wk EXCEPT ![w].lost = TRUE] \/ wk' = [wk EXCEPT ![w].renewing = FALSE]
    BY <1>28 DEF RenewTick, RenewError
  <2>2. wk'[w] = wk[w] \/ wk'[w] = [wk[w] EXCEPT !.lost = TRUE]
                       \/ wk'[w] = [wk[w] EXCEPT !.renewing = FALSE]
    BY <1>0, <2>1
  <2>3. /\ wk'[w].pc = wk[w].pc /\ wk'[w].msg = wk[w].msg
        /\ wk'[w].connected = wk[w].connected
    BY <1>0, <2>2 DEF Consumer
  <2>4. Holds(w, c) => Holds(w, c)'
    BY <2>3 DEF Holds, At
  <2> QED
    BY <1>1, <1>2, <1>28, <2>4 DEF RenewTick, RenewError, P
<1>29. ASSUME DbError(w) PROVE P
  BY <1>8, <1>29 DEF DbError
<1>30. ASSUME PublishOffline(w) PROVE P
  BY <1>8, <1>30 DEF PublishOffline, PublishFailure
<1>31. ASSUME PublishError(w) PROVE P
  <2>1. wk[w].pc \notin { "idle", "stopped" } /\ \E pc : pc # "ack" /\ Goto(w, pc)
    BY <1>31 DEF PublishError, PublishFailure, At
  <2>2. CASE retry' = Put(retry, wk[w].msg) /\ UNCHANGED <<main, dlq>>
    BY <1>15, <2>1, <2>2
  <2>3. CASE UNCHANGED queues
    BY <1>8, <2>1, <2>3
  <2>4. CASE PublishDLQ(w) \/ (HasRetryLeft(w) /\ PublishRetry(w))
    <3>1. Still
      BY <1>19, <2>1, <2>4
    <3> QED
      BY <1>1, <1>6, <2>1, <3>1 DEF P
  <2> QED
    BY <1>31, <2>2, <2>3, <2>4 DEF PublishError
<1>32. ASSUME NEW d \in Copy, Deliver(w, d) PROVE P
  <2>1. CASE c # d
    <3>1. Still
      BY <1>0, <1>32, <2>1 DEF Deliver, Take, Still, InQueue, QueuesOK
    <3>2. ~Holds(w, c)
      BY <1>5, <1>32 DEF Deliver, At, Holds, HandsEmpty
    <3> QED
      BY <1>12, <1>32, <3>1, <3>2
  <2>2. CASE c = d
    <3>1. \E pc \in { "reject", "received" } : wk'[w] = [Idle EXCEPT !.pc = pc, !.msg = c]
      BY <1>0, <1>32, <2>2 DEF Deliver
    <3>2. wk'[w].msg = c /\ wk'[w].connected /\ wk'[w].pc # "ack"
      BY <3>1 DEF Idle
    <3> QED
      BY <3>2 DEF P, Available, Holds, At
  <2> QED
    BY <2>1, <2>2
<1>33. ASSUME WorkerStep(w) PROVE P
  BY <1>13, <1>14, <1>16, <1>17, <1>18, <1>20, <1>21, <1>22, <1>25, <1>27, <1>30, <1>33
  DEF WorkerStep
<1> QED
  BY <1>26, <1>28, <1>29, <1>31, <1>32, <1>33 DEF Acts, P
-----------------------------------------------------------------------------
\* The first invariant: as long as extractAttempt takes every attempt the retries
\* produce, no message dies before its row says completed.
Sane == MaxRetries <= MaxSaneAttempt

Completed(m) == pm[m].status = "completed"

\* Some message of the job has a row.
Handled(j) == \E n \in Message : JobOf[n] = j /\ pm[n].status # "absent"

\* uk_processed_messages_type_job: one row per job.
OneRowPerJob ==
    \A m, n \in Message :
        JobOf[m] = JobOf[n] /\ pm[m].status # "absent" /\ pm[n].status # "absent" => m = n

\* A message is rejected only because another id has the row of its job.
RejectedHasRow ==
    \A w \in Worker : At(w, "reject") => pm[MsgId(w)].status = "absent" /\ Handled(JobId(w))

ClaimedHasRow == \A w \in Worker : wk[w].pc \in Own => pm[MsgId(w)].status # "absent"

\* Once the next attempt is published, the delivery in hand is not the last copy.
Superseded ==
    \A w \in Worker : wk[w].pc \in { "setretrying", "markretry" } =>
        \/ Completed(MsgId(w))
        \/ \E c \in Copy : c.id = MsgId(w) /\ c.attempt > Attempt(w) /\ Available(c)

RowIsAlive == \A m \in Message : pm[m].status # "absent" => Completed(m) \/ Alive(m)

DeliveredLives ==
    \A w \in Worker : wk[w].msg # NoCopy => Alive(MsgId(w)) \/ Handled(JobId(w))

SentLives == \A m \in Message : sent[m] > 0 => Alive(m) \/ Handled(JobOf[m])

Lives ==
    /\ NoTokenYet /\ HandsEmpty /\ OneRowPerJob /\ ClaimedHasRow
    /\ RejectedHasRow /\ Superseded
    /\ RowIsAlive /\ DeliveredLives /\ SentLives

\* The message of a delivery and its job.
LEMMA InHands ==
    ASSUME Inv, NEW w \in Worker, wk[w].msg # NoCopy
    PROVE  /\ wk[w].msg \in Copy /\ MsgId(w) \in Message /\ JobId(w) \in Job
           /\ Attempt(w) \in Nat
<1>1. wk[w].msg \in Copy
  BY DEF Inv, TypeOK, Consumer
<1> QED
  BY <1>1, PMAssumption, PipelineAssumption DEF Copy, MsgId, JobId, Attempt

\* A worker that is not between two deliveries has a message.
LEMMA Busy ==
    ASSUME Inv, NEW w \in Worker, wk[w].pc \notin { "idle", "stopped" }
    PROVE  wk[w].msg # NoCopy
BY NoCopyAssumption DEF Inv, SoundConsumer, Sound

\* A job that has a row keeps one.
LEMMA HandledStays ==
    ASSUME Inv, NoTokenYet, [Next]_pipelineVars, NEW j \in Job, Handled(j)
    PROVE  Handled(j)'
<1>1. PICK n \in Message : JobOf[n] = j /\ pm[n].status # "absent"
  BY DEF Handled
<1> QED
  BY <1>1, RowsStay DEF Handled

\* The surroundings move copies between the queues and lose none.
LEMMA SurroundingCopies ==
    ASSUME Inv, Surroundings, NEW c \in Copy, Available(c)
    PROVE  Available(c)'
<1>0. /\ main \in [Copy -> Nat] /\ retry \in [Copy -> Nat]
      /\ wk' = wk
  BY SurroundingsApart DEF Inv, TypeOK
<1>1. ASSUME InQueue(c) PROVE InQueue(c)'
  <2>1. CASE \E j \in Job : Submit(j)
    BY <1>1, <2>1 DEF Submit, queues, InQueue
  <2>2. CASE \E m \in Message : Expire(m) \/ Pause(m)
    BY <1>1, <2>2 DEF Expire, Pause, queues, InQueue
  <2>3. ASSUME NEW m \in Message, Publish(m) PROVE InQueue(c)'
    <3>1. [id |-> m, attempt |-> 0] \in Copy
      BY PipelineAssumption DEF Copy
    <3>2. QueuesOK
      BY DEF Inv, TypeOK, QueuesOK
    <3> QED
      BY <1>1, <2>3, <3>1, <3>2, PutIn DEF Publish
  <2>4. ASSUME NEW d \in Copy, RetryElapses(d) PROVE InQueue(c)'
    BY <1>0, <1>1, <2>4 DEF RetryElapses, Put, Take, InQueue
  <2>5. CASE UNCHANGED pipelineVars
    BY <1>1, <2>5 DEF pipelineVars, queues, InQueue
  <2> QED
    BY <2>1, <2>2, <2>3, <2>4, <2>5 DEF Surroundings
<1>2. ASSUME NEW v \in Worker, Holds(v, c) PROVE Holds(v, c)'
  BY <1>0, <1>2 DEF Holds, At
<1> QED
  BY <1>1, <1>2 DEF Available, InQueue

\* No copy is settled without a copy of the same or a later attempt, a completed
\* row, or the row of another message of the job taking its place.
LEMMA CopyGoesOn ==
    ASSUME Inv, Lives, [Next]_pipelineVars, NEW c \in Copy, Available(c)
    PROVE  \/ \E d \in Copy : d.id = c.id /\ d.attempt >= c.attempt /\ Available(d)'
           \/ Completed(c.id)'
           \/ pm[c.id].status = "absent" /\ Handled(JobOf[c.id])
<1> DEFINE P == \/ \E d \in Copy : d.id = c.id /\ d.attempt >= c.attempt /\ Available(d)'
                \/ Completed(c.id)'
                \/ pm[c.id].status = "absent" /\ Handled(JobOf[c.id])
<1>0. c.id \in Message /\ c.attempt \in Nat
  BY PipelineAssumption DEF Copy
<1>1. ASSUME Available(c)' PROVE P
  BY <1>0, <1>1
<1>2. ASSUME NEW w \in Worker, Acts(w), Settles(w), c = wk[w].msg PROVE P
  <2>1. c.id = MsgId(w) /\ c.attempt = Attempt(w) /\ JobOf[c.id] = JobId(w)
    BY <1>2 DEF MsgId, Attempt, JobId
  <2>2. CASE At(w, "received") /\ AlreadyDone(MsgId(w))
    <3>1. CASE Completed(c.id)
      BY <1>0, <3>1, RowsStay DEF Completed, Lives
    <3>2. CASE pm[c.id].status = "absent" /\ \E n \in Conflicting(c.id) : Completed(n)
      BY <3>2 DEF Conflicting, Completed, Handled
    <3> QED
      BY <2>1, <2>2, <3>1, <3>2 DEF AlreadyDone, Completed
  <2>3. CASE At(w, "reject")
    BY <2>1, <2>3 DEF Lives, RejectedHasRow
  <2>4. CASE At(w, "markretry") /\ MarkRetryScheduled(w, MsgId(w))
    <3>1. CASE Completed(c.id)
      BY <1>0, <3>1, RowsStay DEF Completed, Lives
    <3>2. ASSUME NEW d \in Copy, d.id = c.id, d.attempt > c.attempt, Available(d) PROVE P
      <4>1. d.attempt \in Nat
        BY PipelineAssumption DEF Copy
      <4>2. d # wk[w].msg /\ d.attempt >= c.attempt
        BY <1>0, <1>2, <3>2, <4>1
      <4>3. Available(d)'
        BY <1>2, <3>2, <4>2, CopiesStay DEF CopyMove, Lives
      <4> QED
        BY <3>2, <4>2, <4>3
    <3> QED
      BY <2>1, <2>4, <3>1, <3>2 DEF Lives, Superseded, At
  <2>5. CASE At(w, "complete") /\ MarkCompleted(w, MsgId(w))
    <3>1. pm \in [Message -> Row]
      BY DEF Inv, TypeOK, PMTypeOK
    <3>2. pm'[c.id].status = "completed"
      BY <1>0, <2>1, <2>5, <3>1 DEF MarkCompleted, Row
    <3> QED
      BY <3>2 DEF Completed
  <2> QED
    BY <1>2, <2>2, <2>3, <2>4, <2>5 DEF Settles
<1> HIDE DEF P
<1>3. ASSUME Surroundings PROVE P
  BY <1>1, <1>3, SurroundingCopies
<1>4. ASSUME NEW w \in Worker, Acts(w) PROVE P
  <2>1. Available(c)' \/ (Settles(w) /\ c = wk[w].msg)
    BY <1>4, CopiesStay DEF CopyMove, Lives
  <2> QED
    BY <1>1, <1>2, <1>4, <2>1
<1> QED
  BY <1>3, <1>4, Actors DEF P

\* A delivery the worker had, or the one it was just given.
LEMMA Deliveries ==
    ASSUME Inv, [Next]_pipelineVars, NEW w \in Worker, wk'[w].msg # NoCopy
    PROVE  \/ wk[w].msg = wk'[w].msg
           \/ \E c \in Copy : Deliver(w, c) /\ wk'[w].msg = c /\ InQueue(c)
<1>1. CASE Surroundings
  BY <1>1, SurroundingsApart
<1>2. ASSUME NEW v \in Worker, Acts(v), v # w PROVE wk[w].msg = wk'[w].msg
  BY <1>2, OthersStay
<1>3. ASSUME Acts(w), NEW c \in Copy, Deliver(w, c) PROVE wk'[w].msg = c /\ InQueue(c)
  <2>1. /\ wk \in [Worker -> Consumer]
        /\ main \in [Copy -> Nat] /\ retry \in [Copy -> Nat]
    BY DEF Inv, TypeOK
  <2>2. \E pc : wk'[w] = [Idle EXCEPT !.pc = pc, !.msg = c]
    BY <1>3, <2>1 DEF Deliver
  <2>3. wk'[w].msg = c
    BY <2>2 DEF Idle
  <2> QED
    BY <1>3, <2>1, <2>3 DEF Deliver, InQueue
<1>4. CASE Acts(w)
  BY <1>3, <1>4, Moves DEF WorkerMove, Onward, Rid
<1> QED
  BY <1>1, <1>2, <1>4, Actors

\* A worker at a point with a claimed row was there, or has just claimed it.
LEMMA Claimed ==
    ASSUME Inv, [Next]_pipelineVars, NEW w \in Worker, wk'[w].pc \in Own
    PROVE  /\ wk'[w].msg = wk[w].msg
           /\ wk[w].pc \in Own \/ (At(w, "received") /\ Claim(w, MsgId(w)))
           /\ wk'[w].pc = "setretrying" =>
                 wk[w].pc = "setretrying" \/ (At(w, "retry") /\ HasRetryLeft(w) /\ PublishRetry(w))
           /\ wk'[w].pc = "markretry" => wk[w].pc \in { "markretry", "setretrying" }
<1>1. CASE Surroundings
  BY <1>1, SurroundingsApart
<1>2. ASSUME NEW v \in Worker, Acts(v), v # w PROVE wk'[w] = wk[w]
  BY <1>2, OthersStay
<1>3. CASE Acts(w)
  <2>1. ASSUME NEW c \in Copy, Deliver(w, c) PROVE wk'[w].pc \in { "reject", "received" }
    <3>1. wk \in [Worker -> Consumer]
      BY DEF Inv, TypeOK
    <3>2. \E pc \in { "reject", "received" } : wk'[w] = [Idle EXCEPT !.pc = pc, !.msg = c]
      BY <2>1, <3>1 DEF Deliver
    <3> QED
      BY <3>2 DEF Idle
  <2>2. Onward(w)
    BY <1>3, <2>1, Moves DEF WorkerMove, Rid, Own
  <2> QED
    BY <2>2 DEF Onward, At
<1> QED
  BY <1>1, <1>2, <1>3, Actors DEF At

\* A message with a row, or one that is claimed now, has a copy until it is completed.
LEMMA RowStaysAlive ==
    ASSUME Inv, Lives, [Next]_pipelineVars
    PROVE  RowIsAlive'
<1> SUFFICES ASSUME NEW m \in Message, pm'[m].status # "absent"
             PROVE  Completed(m)' \/ Alive(m)'
  BY DEF RowIsAlive
<1>1. ASSUME pm[m].status # "absent" PROVE Completed(m)' \/ Alive(m)'
  <2>1. CASE Completed(m)
    BY <2>1, RowsStay DEF Completed, Lives
  <2>2. ASSUME NEW c \in Copy, c.id = m, Available(c) PROVE Completed(m)' \/ Alive(m)'
    BY <1>1, <2>2, CopyGoesOn DEF Alive
  <2> QED
    BY <1>1, <2>1, <2>2 DEF Lives, RowIsAlive, Alive
<1>2. ASSUME pm[m].status = "absent" PROVE Alive(m)'
  <2>1. PICK w \in Worker : Acts(w) /\ At(w, "received") /\ MsgId(w) = m /\ Claim(w, m)
    BY <1>2, RowsStay DEF Lives
  <2>2. Conflicting(m) = {}
    BY <1>2, <2>1 DEF Claim, Claimable
  <2>3. ~Handled(JobOf[m])
    BY <1>2, <2>2 DEF Handled, Conflicting
  <2>4. wk[w].msg # NoCopy
    BY <2>1, Busy DEF At
  <2>5. Alive(m)
    BY <2>1, <2>3, <2>4 DEF Lives, DeliveredLives, JobId
  <2>6. ~Settles(w)
    BY <1>2, <2>1, <2>2 DEF Settles, AlreadyDone, At
  <2> QED
    BY <2>1, <2>5, <2>6, CopiesStay DEF Alive, CopyMove, Lives
<1> QED
  BY <1>1, <1>2

\* A published successor of the delivery in hand is not lost before the row says
\* completed, even if it is overtaken by a further retry.
LEMMA SupersededStays ==
    ASSUME Inv, Lives, [Next]_pipelineVars
    PROVE  Superseded'
<1> SUFFICES ASSUME NEW w \in Worker, wk'[w].pc \in { "setretrying", "markretry" }
             PROVE  \/ pm'[wk'[w].msg.id].status = "completed"
                    \/ \E c \in Copy : /\ c.id = wk'[w].msg.id
                                       /\ c.attempt > wk'[w].msg.attempt
                                       /\ Available(c)'
  BY DEF Superseded, Completed, MsgId, Attempt
<1>1. /\ wk'[w].msg = wk[w].msg
      /\ \/ wk[w].pc \in { "setretrying", "markretry" }
         \/ At(w, "retry") /\ HasRetryLeft(w) /\ PublishRetry(w)
  BY Claimed DEF Own
<1>2. wk[w].pc \in Own
  BY <1>1 DEF Own, At
<1>3. /\ MsgId(w) \in Message /\ Attempt(w) \in Nat
      /\ pm[MsgId(w)].status # "absent"
  BY <1>2, Busy, InHands DEF Lives, ClaimedHasRow, Own
<1> SUFFICES \/ Completed(MsgId(w))
             \/ pm'[MsgId(w)].status = "completed"
             \/ \E c \in Copy : c.id = MsgId(w) /\ c.attempt > Attempt(w) /\ Available(c)'
  BY <1>1, <1>3, RowsStay DEF Completed, Lives, MsgId, Attempt
<1>4. ASSUME NEW c \in Copy, c.id = MsgId(w), c.attempt > Attempt(w), Available(c)
      PROVE  \/ pm'[MsgId(w)].status = "completed"
             \/ \E d \in Copy : d.id = MsgId(w) /\ d.attempt > Attempt(w) /\ Available(d)'
  <2>1. CASE pm'[c.id].status = "completed"
    BY <1>4, <2>1
  <2>2. ASSUME NEW d \in Copy, d.id = c.id, d.attempt >= c.attempt, Available(d)'
        PROVE  d.id = MsgId(w) /\ d.attempt > Attempt(w)
    <3>1. d.attempt \in Nat /\ c.attempt \in Nat
      BY PipelineAssumption DEF Copy
    <3> QED
      BY <1>3, <1>4, <2>2, <3>1
  <2> QED
    BY <1>3, <1>4, <2>1, <2>2, CopyGoesOn DEF Completed
<1>5. CASE wk[w].pc \in { "setretrying", "markretry" }
  BY <1>4, <1>5 DEF Lives, Superseded
<1>6. CASE At(w, "retry") /\ HasRetryLeft(w) /\ PublishRetry(w)
  <2>0. [id |-> MsgId(w), attempt |-> NextAttempt(w)] \in Copy
    BY <1>3, <1>6, PipelineAssumption DEF Copy, NextAttempt, HasRetryLeft
  <2>1. PICK c \in Copy : c = [id |-> MsgId(w), attempt |-> NextAttempt(w)]
    BY <2>0
  <2>2. c.id = MsgId(w) /\ c.attempt > Attempt(w)
    BY <1>3, <2>1 DEF NextAttempt
  <2>3. QueuesOK
    BY DEF Inv, TypeOK, QueuesOK
  <2>4. retry' = Put(retry, c) /\ main' = main
    BY <1>6, <2>1 DEF PublishRetry
  <2>5. InQueue(c)'
    BY <2>3, <2>4, PutIn
  <2> QED
    BY <2>2, <2>5 DEF Available, InQueue
<1> QED
  BY <1>1, <1>5, <1>6

\* A message that is alive, or whose job is handled, stays so.
LEMMA LifeStays ==
    ASSUME Inv, Lives, [Next]_pipelineVars, NEW m \in Message, Alive(m) \/ Handled(JobOf[m])
    PROVE  Alive(m)' \/ Handled(JobOf[m])'
<1>0. JobOf[m] \in Job
  BY PMAssumption
<1>1. CASE Handled(JobOf[m])
  BY <1>0, <1>1, HandledStays DEF Lives
<1>2. ASSUME NEW c \in Copy, c.id = m, Available(c) PROVE Alive(m)' \/ Handled(JobOf[m])'
  <2>1. CASE Completed(m)'
    BY <2>1 DEF Completed, Handled
  <2>2. CASE Handled(JobOf[m])
    BY <1>1, <2>2
  <2> QED
    BY <1>2, <2>1, <2>2, CopyGoesOn DEF Alive
<1> QED
  BY <1>1, <1>2 DEF Alive

\* sent counts what the dispatcher put into the main queue.
LEMMA SentMoves ==
    ASSUME Inv, [Next]_pipelineVars, NEW m \in Message, sent'[m] > 0
    PROVE  sent[m] > 0 \/ Publish(m)
<1>1. sent \in [Message -> 0..MaxSent]
  BY DEF Inv, TypeOK
<1>2. ASSUME NEW w \in Worker, WorkerStep(w) PROVE sent' = sent
  BY <1>2
  DEF WorkerStep, Reject, ClaimGranted, ClaimRefused, Defer, Load, Start, Generate, Validate,
      Execute, Store, Succeed, Schedule, SetRetrying, SetFailed, Abandon, Missing, MarkRetry,
      Complete, Ack, Nack, Fatal, PublishOffline, StageFault
<1>3. ASSUME NEW n \in Message, Publish(n) PROVE sent[m] > 0 \/ Publish(m)
  BY <1>1, <1>3 DEF Publish
<1> QED
  BY <1>2, <1>3
  DEF Next, EnvironmentFault, Submit, RetryElapses, Deliver, RenewTick, Expire, Crash,
      ConnectionLost, RenewError, DbError, PublishError, Pause, pipelineVars

\* Neither a delivery nor a published event is forgotten.
LEMMA EveryoneLives ==
    ASSUME Inv, Lives, [Next]_pipelineVars
    PROVE  DeliveredLives' /\ SentLives'
<1>1. ASSUME NEW w \in Worker, wk'[w].msg # NoCopy, NEW m \in Message, m = wk'[w].msg.id
      PROVE  Alive(m)' \/ Handled(JobOf[m])'
  <2>1. CASE wk[w].msg = wk'[w].msg
    <3>1. m = MsgId(w) /\ wk[w].msg # NoCopy
      BY <1>1, <2>1 DEF MsgId
    <3>2. Alive(m) \/ Handled(JobOf[m])
      BY <3>1 DEF Lives, DeliveredLives, JobId
    <3> QED
      BY <3>2, LifeStays
  <2>2. ASSUME NEW c \in Copy, wk'[w].msg = c, InQueue(c)
        PROVE  Alive(m)' \/ Handled(JobOf[m])'
    <3>1. Alive(m)
      BY <1>1, <2>2 DEF InQueue, Available, Alive
    <3> QED
      BY <3>1, LifeStays
  <2> QED
    BY <1>1, <2>1, <2>2, Deliveries
<1>2. ASSUME NEW m \in Message, sent'[m] > 0 PROVE Alive(m)' \/ Handled(JobOf[m])'
  <2>1. CASE sent[m] > 0
    BY <2>1, LifeStays DEF Lives, SentLives
  <2>2. CASE Publish(m)
    <3>1. [id |-> m, attempt |-> 0] \in Copy
      BY PipelineAssumption DEF Copy
    <3>2. PICK c \in Copy : c = [id |-> m, attempt |-> 0]
      BY <3>1
    <3>3. QueuesOK
      BY DEF Inv, TypeOK, QueuesOK
    <3>4. main' = Put(main, c) /\ retry' = retry /\ c.id = m
      BY <2>2, <3>2 DEF Publish
    <3>5. InQueue(c)'
      BY <3>3, <3>4, PutIn
    <3> QED
      BY <3>4, <3>5 DEF Alive, Available, InQueue
  <2> QED
    BY <1>2, <2>1, <2>2, SentMoves
<1>3. DeliveredLives'
  <2> SUFFICES ASSUME NEW w \in Worker, wk'[w].msg # NoCopy
               PROVE  (Alive(MsgId(w)) \/ Handled(JobId(w)))'
    BY DEF DeliveredLives
  <2>1. wk'[w].msg.id \in Message
    BY InvStep DEF Inv, TypeOK, Consumer, Copy
  <2>2. PICK m \in Message : m = wk'[w].msg.id
    BY <2>1
  <2>3. (Alive(m) \/ Handled(JobOf[m]))'
    BY <1>1, <2>2
  <2>4. m = MsgId(w)' /\ JobOf[m] = JobId(w)'
    BY <2>2 DEF MsgId, JobId
  <2> QED
    BY <2>3, <2>4 DEF Alive, Handled
<1> QED
  BY <1>2, <1>3 DEF SentLives

\* uk_processed_messages_type_job holds of whatever the claims insert.
LEMMA UniqueStays ==
    ASSUME Inv, NoTokenYet, OneRowPerJob, [Next]_pipelineVars
    PROVE  NoTokenYet' /\ OneRowPerJob'
<1>1. NoTokenYet'
  BY RowsStay DEF NoTokenYet
<1>2. pm \in [Message -> Row]
  BY DEF Inv, TypeOK, PMTypeOK
<1>3. ASSUME NEW a \in Message, NEW b \in Message, JobOf[a] = JobOf[b], a # b,
             pm[a].status = "absent", pm'[a].status # "absent", pm'[b].status # "absent"
      PROVE  FALSE
  <2>1. PICK w \in Worker : Claim(w, a)
    BY <1>3, RowsStay
  <2>2. pm'[b] = pm[b]
    BY <1>2, <1>3, <2>1 DEF Claim
  <2> QED
    BY <1>3, <2>1, <2>2 DEF Claim, Claimable, Conflicting
<1>4. OneRowPerJob'
  BY <1>3 DEF OneRowPerJob
<1> QED
  BY <1>1, <1>4

\* The rows: at most one per job, and present while a worker has the claim; a
\* rejected delivery stays one of a job that has another row.
LEMMA RowsStaySound ==
    ASSUME Inv, Lives, Sane, [Next]_pipelineVars
    PROVE  NoTokenYet' /\ HandsEmpty' /\ OneRowPerJob' /\ ClaimedHasRow' /\ RejectedHasRow'
<1>0. /\ pm \in [Message -> Row] /\ pm' \in [Message -> Row]
      /\ wk \in [Worker -> Consumer]
  BY InvStep DEF Inv, TypeOK, PMTypeOK
<1>1. NoTokenYet'
  BY UniqueStays DEF Lives
<1>2. ASSUME NEW w \in Worker, Acts(w), NEW c \in Copy, Deliver(w, c)
      PROVE  wk'[w].pc = "received"
  <2>1. ~(c.attempt > MaxSaneAttempt)
    BY PipelineAssumption DEF Sane, Copy
  <2>2. wk'[w] = [Idle EXCEPT !.pc = "received", !.msg = c]
    BY <1>0, <1>2, <2>1 DEF Deliver
  <2> QED
    BY <2>2 DEF Idle
<1>3. ASSUME NEW w \in Worker PROVE wk'[w] = wk[w] \/ (Acts(w) /\ WorkerMove(w))
  BY Actors, SurroundingsApart, OthersStay, Moves
<1>4. HandsEmpty'
  BY <1>2, <1>3 DEF HandsEmpty, Lives, WorkerMove, Onward, Rid
<1>5. OneRowPerJob'
  BY UniqueStays DEF Lives
<1>6. ClaimedHasRow'
  <2> SUFFICES ASSUME NEW w \in Worker, wk'[w].pc \in Own
               PROVE  pm'[wk'[w].msg.id].status # "absent"
    BY DEF ClaimedHasRow, MsgId
  <2>1. /\ wk'[w].msg = wk[w].msg
        /\ wk[w].pc \in Own \/ (At(w, "received") /\ Claim(w, MsgId(w)))
    BY Claimed
  <2>2. MsgId(w) \in Message
    BY <2>1, Busy, InHands DEF Own, At
  <2>3. pm'[MsgId(w)].status # "absent"
    BY <1>0, <2>1, <2>2, RowsStay DEF Lives, ClaimedHasRow, Claim
  <2> QED
    BY <2>1, <2>3 DEF MsgId
<1>7. RejectedHasRow'
  <2> SUFFICES ASSUME NEW w \in Worker, wk'[w].pc = "reject"
               PROVE  (pm[MsgId(w)].status = "absent" /\ Handled(JobId(w)))'
    BY DEF RejectedHasRow, At
  <2>1. /\ wk'[w].msg = wk[w].msg
        /\ At(w, "reject") \/ (At(w, "received") /\ ClaimConflict(MsgId(w)))
    BY <1>2, <1>3 DEF WorkerMove, Onward, Rid, At
  <2>2. MsgId(w) \in Message /\ JobId(w) \in Job
    BY <2>1, Busy, InHands DEF At
  <2>3. pm[MsgId(w)].status = "absent" /\ Handled(JobId(w))
    BY <2>1 DEF Lives, RejectedHasRow, ClaimConflict, Conflicting, Handled, JobId
  <2>4. Conflicting(MsgId(w)) # {}
    BY <2>3 DEF Handled, Conflicting, JobId
  <2>5. pm'[MsgId(w)].status = "absent"
    BY <2>2, <2>3, <2>4, RowsStay DEF Lives, Claim, Claimable
  <2>6. PICK j \in Job : j = JobId(w)
    BY <2>2
  <2>7. Handled(j)'
    BY <2>3, <2>6, HandledStays DEF Lives
  <2> QED
    BY <2>1, <2>5, <2>6, <2>7 DEF MsgId, JobId, Handled
<1> QED
  BY <1>1, <1>4, <1>5, <1>6, <1>7

\* Before the first message there is nothing to lose.
LEMMA InitLives == Init => Lives
<1> SUFFICES ASSUME Init PROVE Lives
  OBVIOUS
<1>1. /\ \A m \in Message : pm[m].status = "absent" /\ pm[m].token = NoToken /\ sent[m] = 0
      /\ \A w \in Worker : wk[w].pc = "idle" /\ wk[w].msg = NoCopy
  BY DEF Init, PMInit, NoRow, Idle
<1> QED
  BY <1>1
  DEF Lives, NoTokenYet, HandsEmpty, OneRowPerJob, ClaimedHasRow, RejectedHasRow, Superseded,
      RowIsAlive, DeliveredLives, SentLives, Own, At

\* Every step of the workers, the broker, time and the faults keeps the messages alive.
LEMMA LivesStep == ASSUME Inv, Lives, Sane, [Next]_pipelineVars PROVE Lives'
BY RowsStaySound, SupersededStays, RowStaysAlive, EveryoneLives DEF Lives

\* The copies, hands and rows fit together in every reachable state.
THEOREM DeliveryInvariance == ASSUME Sane PROVE Spec => []Lives
<1>1. Inv /\ Lives /\ [Next]_pipelineVars => Lives'
  BY LivesStep
<1> QED
  BY <1>1, InitLives, Invariance, PTL DEF Spec

\* Confirmed, then persisted, then acknowledged: whatever crashes, connection losses,
\* expired leases and failed publishes interleave, the last copy of the message of an
\* unfinished job disappears only when its processed_messages row says completed.
THEOREM NothingStranded == Spec => []NeverStranded
<1>1. CASE Sane
  <2>1. Lives => NeverStranded
    <3> SUFFICES ASSUME Lives, NEW m \in Message, sent[m] > 0
                 PROVE  \E n \in Message : /\ JobOf[n] = JobOf[m]
                                           /\ Alive(n) \/ pm[n].status = "completed"
      BY DEF NeverStranded
    <3>1. Alive(m) \/ Handled(JobOf[m])
      BY DEF Lives, SentLives
    <3> QED
      BY <3>1 DEF Handled, Lives, RowIsAlive, Completed
  <2>2. Spec => []Lives
    BY <1>1, DeliveryInvariance
  <2> QED
    BY <2>1, <2>2, PTL
<1>2. CASE ~Sane
  <2>1. NeverStranded
    BY <1>2 DEF Sane, NeverStranded
  <2> QED
    BY <2>1, PTL
<1> QED
  BY <1>1, <1>2
-----------------------------------------------------------------------------
\* The second invariant: where no lease runs out under a worker that renews it, a
\* worker between its claim and its release holds the lease of its message.
LeasesKept == { "pause", "renewerr" } \cap FaultKinds = {}

HoldsLease(w) ==
    /\ Owns(w, MsgId(w))
    /\ pm[MsgId(w)].status = "processing"
    /\ ~pm[MsgId(w)].expired

KeepsLease(w) ==
    /\ At(w, "received") => ~wk[w].lost
    /\ wk[w].pc \in Own => wk[w].renewing /\ ~wk[w].lost /\ HoldsLease(w)

\* What such a worker knows about the row of the job and about the cache.
Agrees(w) ==
    LET row == job[JobId(w)] IN
    /\ wk[w].pc \in Staged \union { "start" } => row.status = wk[w].from
    /\ At(w, "start") /\ row.status = "retrying" => row.attempt = Attempt(w)
    /\ wk[w].pc \in { "generating", "validating", "executing" } => wk[w].from = wk[w].pc
    /\ wk[w].pc \in { "store", "succeed" } => wk[w].from = "executing"
    /\ At(w, "succeed") => <<JobId(w), w>> \in cached
    /\ At(w, "markretry") => row.status = "retrying" /\ row.attempt = NextAttempt(w)

Kept ==
    /\ NoTokenYet /\ OneRowPerJob
    /\ \A w \in Worker : KeepsLease(w)
    /\ \A w \in Worker : Agrees(w)

\* The lease of the one row of the job: two workers never hold it.
LEMMA OneAtAJob ==
    ASSUME Inv, Kept, NEW v \in Worker, NEW w \in Worker,
           wk[v].pc \in Own, wk[w].pc \in Own, JobId(v) = JobId(w)
    PROVE  v = w
<1>1. /\ Owns(v, MsgId(v)) /\ pm[MsgId(v)].status = "processing"
      /\ Owns(w, MsgId(w)) /\ pm[MsgId(w)].status = "processing"
  BY DEF Kept, KeepsLease, HoldsLease
<1>2. MsgId(v) \in Message /\ MsgId(w) \in Message
  BY Busy, InHands DEF Own
<1>3. MsgId(v) = MsgId(w)
  BY <1>1, <1>2 DEF Kept, OneRowPerJob, JobId
<1> QED
  BY <1>1, <1>3 DEF Inv, LeasesDiffer, Owns

\* A worker that was in a state before the step, or has just come into it.
LEMMA OwnMoves ==
    ASSUME Inv, LeasesKept, NEW w \in Worker, Acts(w), wk'[w].pc \in Own
    PROVE  \/ /\ wk[w].pc \in Own
              /\ lease'[w] = lease[w] /\ wk'[w].renewing = wk[w].renewing
              /\ wk'[w].lost = wk[w].lost \/ ~CanRenew(w, MsgId(w))
           \/ /\ At(w, "received") /\ Claim(w, MsgId(w))
              /\ wk'[w].renewing /\ wk'[w].lost = wk[w].lost
<1>1. ASSUME NEW c \in Copy, Deliver(w, c) PROVE wk'[w].pc \in { "reject", "received" }
  <2>1. wk \in [Worker -> Consumer]
    BY DEF Inv, TypeOK
  <2>2. \E pc \in { "reject", "received" } : wk'[w] = [Idle EXCEPT !.pc = pc, !.msg = c]
    BY <1>1, <2>1 DEF Deliver
  <2> QED
    BY <2>2 DEF Idle
<1>2. Onward(w)
  BY <1>1, Moves DEF WorkerMove, Rid, Own
<1>3. ~RenewError(w)
  BY DEF RenewError, Fault, LeasesKept
<1> QED
  BY <1>2, <1>3 DEF Onward, At

\* Nothing that happens around it takes a renewed lease away.
LEMMA LeaseStays ==
    ASSUME Inv, Kept, LeasesKept, [Next]_pipelineVars, NEW w \in Worker,
           wk[w].pc \in Own, wk'[w].pc \in Own, wk'[w].msg = wk[w].msg, lease'[w] = lease[w]
    PROVE  HoldsLease(w)'
<1>0. pm \in [Message -> Row] /\ MsgId(w) \in Message
  BY Busy, InHands DEF Inv, TypeOK, PMTypeOK, Own
<1>1. Owns(w, MsgId(w)) /\ pm[MsgId(w)].status = "processing" /\ ~pm[MsgId(w)].expired
  BY DEF Kept, KeepsLease, HoldsLease
<1> SUFFICES pm'[MsgId(w)] = pm[MsgId(w)]
  BY <1>1 DEF HoldsLease, Owns, MsgId
<1>2. ASSUME Surroundings PROVE pm'[MsgId(w)] = pm[MsgId(w)]
  <2>1. ASSUME NEW m \in Message, Pause(m) PROVE FALSE
    BY <2>1 DEF Pause, Fault, LeasesKept
  <2>2. ASSUME NEW m \in Message, Expire(m) PROVE pm'[MsgId(w)] = pm[MsgId(w)]
    <3>1. m # MsgId(w)
      BY <1>1, <2>2 DEF Expire, Unrenewed, Kept, KeepsLease
    <3> QED
      BY <1>0, <2>2, <3>1 DEF Expire, LeaseExpires
  <2> QED
    BY <1>2, <2>1, <2>2, SurroundingRows
<1>3. ASSUME NEW v \in Worker, Acts(v), pm' # pm PROVE pm'[MsgId(w)] = pm[MsgId(w)]
  <2>1. MsgId(v) \in Message /\ RowMove(v)
    BY <1>3, RowMoves, Busy, InHands DEF RowMove
  <2>2. CASE Claim(v, MsgId(v))
    BY <1>0, <1>1, <2>1, <2>2 DEF Claim, Claimable
  <2>3. CASE Renew(v, MsgId(v))
    <3>1. pm'[MsgId(v)].expired = FALSE /\ pm'[MsgId(v)] = [pm[MsgId(v)] EXCEPT !.expired = FALSE]
      BY <1>0, <2>1, <2>3 DEF Renew, Row
    <3>2. CASE MsgId(v) = MsgId(w)
      <4>1. pm[MsgId(w)] \in Row
        BY <1>0
      <4> QED
        BY <1>1, <3>1, <3>2, <4>1 DEF Row
    <3> QED
      BY <1>0, <2>1, <2>3, <3>2 DEF Renew
  <2>4. CASE /\ MarkRetryScheduled(v, MsgId(v)) \/ MarkCompleted(v, MsgId(v))
             /\ wk'[v].pc = "ack"
    <3>1. v # w
      BY <2>4 DEF Own
    <3>2. MsgId(v) # MsgId(w)
      BY <1>1, <2>4, <3>1
      DEF MarkRetryScheduled, CanMarkRetryScheduled, MarkCompleted, Owns, Inv, LeasesDiffer
    <3> QED
      BY <1>0, <2>1, <2>4, <3>2 DEF MarkRetryScheduled, MarkCompleted
  <2> QED
    BY <1>3, <2>1, <2>2, <2>3, <2>4 DEF RowMove
<1> QED
  BY <1>2, <1>3, Actors

\* The renewal goroutine keeps the lease from the claim to the release.
LEMMA LeaseIsKept ==
    ASSUME Inv, Kept, LeasesKept, [Next]_pipelineVars, NEW w \in Worker
    PROVE  KeepsLease(w)'
<1>0. wk \in [Worker -> Consumer] /\ pm \in [Message -> Row]
      /\ lease \in [Worker -> Token \union {NoToken}]
  BY DEF Inv, TypeOK, PMTypeOK
<1>1. KeepsLease(w)
  BY DEF Kept
<1>2. (At(w, "received") => ~wk[w].lost)'
  <2>1. CASE wk'[w] = wk[w]
    BY <1>1, <2>1 DEF KeepsLease, At
  <2>2. ASSUME NEW c \in Copy, Deliver(w, c) PROVE ~wk'[w].lost
    <3>1. \E pc : wk'[w] = [Idle EXCEPT !.pc = pc, !.msg = c]
      BY <1>0, <2>2 DEF Deliver
    <3> QED
      BY <3>1 DEF Idle
  <2>3. CASE Onward(w) \/ Rid(w)
    BY <1>1, <2>3 DEF Onward, Rid, KeepsLease, At
  <2> QED
    BY <2>1, <2>2, <2>3, Actors, SurroundingsApart, OthersStay, Moves DEF WorkerMove, At
<1>3. ASSUME wk'[w].pc \in Own
      PROVE  wk'[w].renewing /\ ~wk'[w].lost /\ HoldsLease(w)'
  <2>1. wk'[w].msg = wk[w].msg
    BY <1>3, Claimed
  <2>2. CASE /\ wk[w].pc \in Own
             /\ lease'[w] = lease[w] /\ wk'[w].renewing = wk[w].renewing
             /\ wk'[w].lost = wk[w].lost \/ ~CanRenew(w, MsgId(w))
    <3>1. wk[w].renewing /\ ~wk[w].lost /\ HoldsLease(w)
      BY <1>1, <2>2 DEF KeepsLease
    <3>2. CanRenew(w, MsgId(w))
      BY <3>1 DEF HoldsLease, CanRenew
    <3> QED
      BY <1>3, <2>1, <2>2, <3>1, <3>2, LeaseStays
  <2>3. CASE /\ At(w, "received") /\ Claim(w, MsgId(w))
             /\ wk'[w].renewing /\ wk'[w].lost = wk[w].lost
    <3>1. MsgId(w) \in Message
      BY <2>3, Busy, InHands DEF At
    <3>2. NewToken # NoToken
      BY <2>3, NewTokenIsNew DEF Claim
    <3>3. /\ lease'[w] = NewToken
          /\ pm'[MsgId(w)] = [status |-> "processing", token |-> NewToken, expired |-> FALSE]
      BY <1>0, <2>3, <3>1 DEF Claim
    <3>4. HoldsLease(w)'
      BY <2>1, <3>2, <3>3 DEF HoldsLease, Owns, MsgId
    <3> QED
      BY <1>1, <2>3, <3>4 DEF KeepsLease
  <2>4. CASE wk'[w] = wk[w] /\ lease'[w] = lease[w]
    BY <1>3, <2>2, <2>4
  <2> QED
    BY <1>3, <2>2, <2>3, <2>4, Actors, SurroundingsApart, OthersStay, OwnMoves
<1> QED
  BY <1>2, <1>3 DEF KeepsLease

\* Only the worker that is in the pipeline of a job writes its row, and moves on.
LEMMA JobWrites ==
    ASSUME Inv, NEW w \in Worker, Acts(w), NEW j \in Job, job'[j] # job[j]
    PROVE  wk[w].pc \in Own /\ JobId(w) = j /\ wk'[w] # wk[w]
<1>0. job \in [Job -> JobRow] /\ wk \in [Worker -> Consumer]
  BY DEF Inv, TypeOK
<1>1. ASSUME NEW from, NEW row, NEW pc, Cas(w, from, row, pc), wk[w].pc \in Own,
             pc # wk[w].pc
      PROVE  wk[w].pc \in Own /\ JobId(w) = j /\ wk'[w] # wk[w]
  <2>1. /\ job' = [job EXCEPT ![JobId(w)] = row]
        /\ wk' = [wk EXCEPT ![w] = [@ EXCEPT !.pc = pc, !.from = row.status]]
    BY <1>1 DEF Cas
  <2>2. wk'[w] = [wk[w] EXCEPT !.pc = pc, !.from = row.status]
    BY <1>0, <2>1
  <2>3. wk'[w].pc = pc
    BY <1>0, <2>2 DEF Consumer
  <2> QED
    BY <1>0, <1>1, <2>1, <2>3
<1>2. CASE Start(w) \/ Generate(w) \/ Validate(w) \/ Execute(w) \/ Succeed(w)
           \/ SetFailed(w) \/ SetRetrying(w)
  BY <1>1, <1>2
  DEF Start, Generate, Validate, Execute, Succeed, SetFailed, SetRetrying, StageFault, CasStatus,
      Running, At, Own
<1>3. ASSUME WorkerStep(w) PROVE wk[w].pc \in Own /\ JobId(w) = j /\ wk'[w] # wk[w]
  BY <1>2, <1>3
  DEF WorkerStep, Reject, ClaimGranted, ClaimRefused, Defer, Load, Store, Schedule, Abandon,
      Missing, MarkRetry, Complete, Ack, Nack, Fatal, PublishOffline
<1> QED
  BY <1>3
  DEF Acts, RenewTick, Deliver, Crash, ConnectionLost, RenewError, DbError, PublishError

\* Only a worker in Store writes the result, and only that of its job.
LEMMA CacheWrites ==
    ASSUME Inv, NEW w \in Worker, Acts(w), cached' # cached
    PROVE  At(w, "store") /\ cached' = Stored(w) /\ wk'[w] # wk[w]
<1>0. wk \in [Worker -> Consumer]
  BY DEF Inv, TypeOK
<1>1. ASSUME WorkerStep(w) PROVE Store(w)
  BY <1>1
  DEF WorkerStep, Reject, ClaimGranted, ClaimRefused, Defer, Load, Start, Generate, Validate,
      Execute, Succeed, Schedule, SetRetrying, SetFailed, Abandon, Missing, MarkRetry,
      Complete, Ack, Nack, Fatal, PublishOffline, StageFault
<1>2. Store(w)
  BY <1>1
  DEF Acts, RenewTick, Deliver, Crash, ConnectionLost, RenewError, DbError, PublishError
<1>3. \E pc \in { "succeed", "retry" } : wk'[w] = [wk[w] EXCEPT !.pc = pc]
  BY <1>0, <1>2 DEF Store, Goto
<1>4. wk'[w].pc # "store"
  BY <1>0, <1>3 DEF Consumer
<1> QED
  BY <1>2, <1>4 DEF Store, Running, At

\* What the surroundings do to the jobs and to the results.
LEMMA SurroundingJobs ==
    ASSUME Inv, Surroundings, NEW j \in Job
    PROVE  /\ cached' = cached
           /\ job'[j] = job[j] \/ (job[j].status = "absent" /\ job'[j].status = "queued")
<1>1. job \in [Job -> JobRow]
  BY DEF Inv, TypeOK
<1>2. ASSUME NEW i \in Job, Submit(i)
      PROVE  job'[j] = job[j] \/ (job[j].status = "absent" /\ job'[j].status = "queued")
  <2>1. CASE i = j
    BY <1>1, <1>2, <2>1 DEF Submit
  <2>2. CASE i # j
    BY <1>1, <1>2, <2>2 DEF Submit
  <2> QED
    BY <2>1, <2>2
<1>3. CASE \E i \in Job : Submit(i)
  BY <1>2, <1>3 DEF Submit
<1> QED
  BY <1>3 DEF Surroundings, Publish, Expire, Pause, RetryElapses, pipelineVars

\* Nobody else changes what a worker knows of its job.
LEMMA OthersLeaveIt ==
    ASSUME Inv, Kept, [Next]_pipelineVars, NEW w \in Worker, wk'[w] = wk[w]
    PROVE  Agrees(w)'
<1>0. Agrees(w)
  BY DEF Kept
<1>1. CASE wk[w].pc \notin Own
  BY <1>1 DEF Agrees, Own, Staged, At
<1>2. CASE wk[w].pc \in Own
  <2>1. JobId(w) \in Job
    BY <1>2, Busy, InHands DEF Own
  <2>2. wk[w].pc \in Staged \union { "start", "markretry" } => job[JobId(w)].status # "absent"
    BY <1>0 DEF Agrees, At, Inv, SoundConsumer, Sound, InPipeline
  <2> SUFFICES /\ wk[w].pc \in Staged \union { "start", "markretry" }
                  => job'[JobId(w)] = job[JobId(w)]
               /\ At(w, "succeed") => <<JobId(w), w>> \in cached'
    BY <1>0 DEF Agrees, At, JobId, MsgId, Attempt, NextAttempt, Staged
  <2>3. CASE Surroundings
    BY <1>0, <2>1, <2>2, <2>3, SurroundingJobs DEF Agrees
  <2>4. ASSUME NEW v \in Worker, Acts(v), v = w
        PROVE  job'[JobId(w)] = job[JobId(w)] /\ cached' = cached
    BY <2>1, <2>4, JobWrites, CacheWrites
  <2>5. ASSUME NEW v \in Worker, Acts(v), v # w
        PROVE  /\ job'[JobId(w)] = job[JobId(w)]
               /\ At(w, "succeed") => <<JobId(w), w>> \in cached'
    <3>1. wk[v].pc \in Own => JobId(v) # JobId(w)
      BY <1>2, <2>5, OneAtAJob
    <3>2. job'[JobId(w)] = job[JobId(w)]
      BY <2>1, <2>5, <3>1, JobWrites
    <3>3. cached' = cached \/ (JobId(v) # JobId(w) /\ cached' = Stored(v))
      BY <2>5, <3>1, CacheWrites DEF At, Own
    <3> QED
      BY <1>0, <3>2, <3>3 DEF Agrees, Stored
  <2> QED
    BY <1>0, <2>3, <2>4, <2>5, Actors DEF Agrees
<1> QED
  BY <1>1, <1>2

\* A compare-and-set that hits the row leaves the worker in agreement with it.
LEMMA CasAgrees ==
    ASSUME Inv, NEW w \in Worker, wk[w].msg # NoCopy, NEW from, NEW row, NEW pc,
           Cas(w, from, row, pc),
           pc \in { "generating", "validating", "executing", "complete", "markretry" },
           pc \in { "generating", "validating", "executing" } => row.status = pc,
           pc = "markretry" => row.status = "retrying" /\ row.attempt = NextAttempt(w)
    PROVE  Agrees(w)'
<1>0. /\ wk \in [Worker -> Consumer] /\ job \in [Job -> JobRow]
      /\ JobId(w) \in Job
  BY InHands DEF Inv, TypeOK
<1>1. CASE Goto(w, "error")
  <2>1. wk'[w].pc = "error"
    BY <1>0, <1>1 DEF Goto, Consumer
  <2> QED
    BY <2>1 DEF Agrees, At, Staged
<1>2. CASE /\ job' = [job EXCEPT ![JobId(w)] = row]
           /\ wk' = [wk EXCEPT ![w] = [@ EXCEPT !.pc = pc, !.from = row.status]]
  <2>1. wk'[w] = [wk[w] EXCEPT !.pc = pc, !.from = row.status] /\ job'[JobId(w)] = row
    BY <1>0, <1>2
  <2>2. wk'[w].pc = pc /\ wk'[w].msg = wk[w].msg /\ wk'[w].from = row.status
    BY <1>0, <2>1 DEF Consumer
  <2> QED
    BY <2>1, <2>2 DEF Agrees, At, Staged, JobId, MsgId, Attempt, NextAttempt
<1> QED
  BY <1>1, <1>2 DEF Cas

\* The same for the updates that keep attempt_count.
LEMMA CasStatusAgrees ==
    ASSUME Inv, NEW w \in Worker, wk[w].msg # NoCopy, NEW from, NEW to, NEW pc,
           CasStatus(w, from, to, pc),
           pc \in { "generating", "validating", "executing", "complete" },
           pc = to \/ pc = "complete"
    PROVE  Agrees(w)'
<1>1. job[JobId(w)] \in JobRow
  BY InHands DEF Inv, TypeOK
<1>2. PICK row : row = [job[JobId(w)] EXCEPT !.status = to]
  OBVIOUS
<1>3. Cas(w, from, row, pc) /\ row.status = to
  BY <1>1, <1>2 DEF CasStatus, JobRow
<1> QED
  BY <1>3, CasAgrees

\* A worker that moves on by itself stays in agreement with the row of its job.
LEMMA ActorAgrees ==
    ASSUME Inv, Kept, NEW w \in Worker, Acts(w)
    PROVE  Agrees(w)'
<1>0. /\ wk \in [Worker -> Consumer] /\ job \in [Job -> JobRow]
      /\ Agrees(w)
  BY DEF Inv, TypeOK, Kept
<1> DEFINE P == Agrees(w)'
\* Points at which nothing is known.
<1>1. ASSUME NEW s, s.pc \notin Staged \union { "start", "markretry" }, wk' = [wk EXCEPT ![w] = s]
      PROVE  P
  BY <1>0, <1>1 DEF Agrees, At, Staged
<1>2. ASSUME NEW pc, pc \notin Staged \union { "start", "markretry" }, Goto(w, pc) PROVE P
  <2>1. wk'[w].pc = pc
    BY <1>0, <1>2 DEF Goto, Consumer
  <2> QED
    BY <1>2, <2>1 DEF Agrees, At, Staged
\* Points at which no more is known than the status.
<1>3. ASSUME NEW pc \in { "retry", "setretrying", "setfailed" }, Goto(w, pc),
             wk[w].pc \in Staged, job' = job
      PROVE  P
  <2>1. wk'[w] = [wk[w] EXCEPT !.pc = pc]
    BY <1>0, <1>3 DEF Goto
  <2>2. wk'[w].pc = pc /\ wk'[w].msg = wk[w].msg /\ wk'[w].from = wk[w].from
    BY <1>0, <2>1 DEF Consumer
  <2> QED
    BY <1>0, <1>3, <2>2 DEF Agrees, At, Staged, JobId, MsgId
\* The flags of the worker are no part of it.
<1>4. ASSUME wk'[w].pc = wk[w].pc, wk'[w].msg = wk[w].msg, wk'[w].from = wk[w].from,
             job' = job, cached' = cached
      PROVE  P
  BY <1>0, <1>4 DEF Agrees, At, Staged, JobId, MsgId, Attempt, NextAttempt
<1> HIDE DEF P
<1>5. ASSUME NEW b, \/ wk' = wk
                    \/ wk' = [wk EXCEPT ![w].lost = b]
                    \/ wk' = [wk EXCEPT ![w].renewing = b]
                    \/ wk' = [wk EXCEPT ![w] = [@ EXCEPT !.connected = b]],
             job' = job, cached' = cached
      PROVE  P
  <2>1. \/ wk'[w] = wk[w]
        \/ wk'[w] = [wk[w] EXCEPT !.lost = b]
        \/ wk'[w] = [wk[w] EXCEPT !.renewing = b]
        \/ wk'[w] = [wk[w] EXCEPT !.connected = b]
    BY <1>0, <1>5
  <2>2. wk'[w].pc = wk[w].pc /\ wk'[w].msg = wk[w].msg /\ wk'[w].from = wk[w].from
    BY <1>0, <2>1 DEF Consumer
  <2> QED
    BY <1>4, <1>5, <2>2
<1>6. ASSUME RenewTick(w) \/ RenewError(w) PROVE P
  BY <1>5, <1>6 DEF RenewTick, RenewError
<1>7. ASSUME ConnectionLost(w) PROVE P
  <2>1. Stopped.pc = "stopped"
    BY DEF Stopped, Idle
  <2>2. CASE wk' = [wk EXCEPT ![w] = Stopped]
    BY <1>1, <2>1, <2>2 DEF Staged
  <2>3. CASE wk' = [wk EXCEPT ![w] = [@ EXCEPT !.connected = FALSE]]
    BY <1>5, <1>7, <2>3 DEF ConnectionLost
  <2> QED
    BY <1>7, <2>2, <2>3 DEF ConnectionLost
<1>8. ASSUME Crash(w) \/ Ack(w) \/ Nack(w) \/ Fatal(w) PROVE P
  <2>1. Stopped.pc = "stopped" /\ Idle.pc = "idle"
    BY DEF Stopped, Idle
  <2> QED
    BY <1>1, <1>8, <2>1 DEF Crash, Ack, Nack, Fatal, LoopOn, Staged
<1>9. ASSUME NEW c \in Copy, Deliver(w, c) PROVE P
  <2>1. \A pc \in { "reject", "received" } : [Idle EXCEPT !.pc = pc, !.msg = c].pc = pc
    BY DEF Idle
  <2>2. \E pc \in { "reject", "received" } :
            wk' = [wk EXCEPT ![w] = [Idle EXCEPT !.pc = pc, !.msg = c]]
    BY <1>9 DEF Deliver
  <2> QED
    BY <1>1, <2>1, <2>2 DEF Staged
<1>10. ASSUME \/ Reject(w) \/ ClaimRefused(w) \/ Defer(w) \/ Missing(w) \/ MarkRetry(w)
              \/ Complete(w) \/ PublishOffline(w) \/ DbError(w) \/ PublishError(w)
       PROVE  P
  BY <1>2, <1>10
  DEF Reject, ClaimRefused, Defer, Missing, MarkRetry, Complete, PublishOffline, DbError,
      PublishError, PublishFailure, Staged
<1>11. ASSUME ClaimGranted(w) PROVE P
  <2>1. wk'[w] = [wk[w] EXCEPT !.pc = "claimed", !.renewing = TRUE]
    BY <1>0, <1>11 DEF ClaimGranted
  <2>2. wk'[w].pc = "claimed"
    BY <1>0, <2>1 DEF Consumer
  <2> QED
    BY <2>2 DEF P, Agrees, At, Staged
<1>12. ASSUME Load(w) PROVE P
  <2>1. wk[w].pc = "claimed" /\ job' = job
    BY <1>12 DEF Load, Running, At
  <2>2. CASE Goto(w, "missing") \/ Goto(w, "complete")
    BY <1>2, <2>2 DEF Staged
  <2>3. ASSUME NEW pc \in { "start", "retry" }, NEW s, s = job[JobId(w)].status,
               pc = "start" => ~StaleAttempt(w),
               wk' = [wk EXCEPT ![w] = [@ EXCEPT !.pc = pc, !.from = s]]
        PROVE  P
    <3>1. wk'[w] = [wk[w] EXCEPT !.pc = pc, !.from = s]
      BY <1>0, <2>3
    <3>2. wk'[w].pc = pc /\ wk'[w].msg = wk[w].msg /\ wk'[w].from = s
      BY <1>0, <3>1 DEF Consumer
    <3> QED
      BY <2>1, <2>3, <3>2 DEF P, Agrees, At, Staged, JobId, MsgId, Attempt, StaleAttempt
  <2> QED
    BY <1>12, <2>2, <2>3 DEF Load
<1>13. ASSUME Start(w) \/ Generate(w) \/ Validate(w) \/ Succeed(w) \/ SetFailed(w) PROVE P
  <2>1. wk[w].msg # NoCopy
    BY <1>13, Busy DEF Start, Generate, Validate, Succeed, SetFailed, StageFault, Running, At
  <2>2. ASSUME NEW from, NEW to, NEW pc \in { "generating", "validating", "executing", "complete" },
               pc = to \/ pc = "complete", CasStatus(w, from, to, pc)
        PROVE  P
    BY <2>1, <2>2, CasStatusAgrees DEF P
  <2>3. CASE StageFault(w, "generating")
    BY <1>3, <2>3 DEF StageFault, Running, At, Staged
  <2> QED
    BY <1>13, <2>2, <2>3 DEF Start, Generate, Validate, Succeed, SetFailed
<1>14. ASSUME SetRetrying(w) PROVE P
  <2>1. wk[w].msg # NoCopy
    BY <1>14, Busy DEF SetRetrying, Running, At
  <2>2. PICK row : row = [status |-> "retrying", attempt |-> NextAttempt(w)]
    OBVIOUS
  <2>3. row.status = "retrying" /\ row.attempt = NextAttempt(w)
    BY <2>2
  <2> QED
    BY <1>14, <2>1, <2>2, <2>3, CasAgrees DEF SetRetrying, P
<1>15. ASSUME Execute(w) PROVE P
  <2>1. At(w, "executing") /\ wk[w].msg # NoCopy
    BY <1>15, Busy DEF Execute, StageFault, Running, At
  <2>2. CASE Goto(w, "store") /\ UNCHANGED job
    <3>1. wk'[w] = [wk[w] EXCEPT !.pc = "store"]
      BY <1>0, <2>2 DEF Goto
    <3>2. wk'[w].pc = "store" /\ wk'[w].msg = wk[w].msg /\ wk'[w].from = wk[w].from
      BY <1>0, <3>1 DEF Consumer
    <3> QED
      BY <1>0, <2>1, <2>2, <3>2 DEF P, Agrees, At, Staged, JobId, MsgId
  <2>3. CASE CasStatus(w, "executing", "failed", "complete")
    BY <2>1, <2>3, CasStatusAgrees DEF P
  <2>4. CASE StageFault(w, "executing")
    BY <1>3, <2>4 DEF StageFault, Running, At, Staged
  <2> QED
    BY <1>15, <2>2, <2>3, <2>4 DEF Execute
<1>16. ASSUME Store(w) PROVE P
  <2>1. At(w, "store") /\ job' = job
    BY <1>16 DEF Store, Running
  <2>2. CASE cached' = Stored(w) /\ Goto(w, "succeed")
    <3>1. wk'[w] = [wk[w] EXCEPT !.pc = "succeed"]
      BY <1>0, <2>2 DEF Goto
    <3>2. wk'[w].pc = "succeed" /\ wk'[w].msg = wk[w].msg /\ wk'[w].from = wk[w].from
      BY <1>0, <3>1 DEF Consumer
    <3> QED
      BY <1>0, <2>1, <2>2, <3>2 DEF P, Agrees, At, Staged, JobId, MsgId, Stored
  <2>3. CASE Goto(w, "retry")
    BY <1>3, <2>1, <2>3 DEF At, Staged
  <2> QED
    BY <1>16, <2>2, <2>3 DEF Store
<1>17. ASSUME Schedule(w) PROVE P
  <2>1. wk[w].pc \in Staged /\ job' = job
    BY <1>17 DEF Schedule, At, Staged
  <2>2. CASE Goto(w, "nack")
    BY <1>2, <2>2 DEF Staged
  <2>3. CASE Goto(w, "setretrying") \/ Goto(w, "setfailed")
    BY <1>3, <2>1, <2>3
  <2> QED
    BY <1>17, <2>2, <2>3 DEF Schedule
<1>18. ASSUME Abandon(w) PROVE P
  <2>1. CASE Goto(w, "nack")
    BY <1>2, <2>1 DEF Staged
  <2>2. CASE wk[w].pc \in { "generating", "validating", "store" } /\ Goto(w, "retry")
    BY <1>3, <1>18, <2>2 DEF Abandon, Staged
  <2> QED
    BY <1>18, <2>1, <2>2 DEF Abandon
<1>19. ASSUME WorkerStep(w) PROVE P
  BY <1>8, <1>10, <1>11, <1>12, <1>13, <1>14, <1>15, <1>16, <1>17, <1>18, <1>19 DEF WorkerStep
<1> QED
  BY <1>6, <1>7, <1>8, <1>9, <1>10, <1>19 DEF Acts, P

\* Idle workers hold nothing and know nothing.
LEMMA InitKept == Init => Kept
<1> SUFFICES ASSUME Init PROVE Kept
  OBVIOUS
<1>1. /\ \A m \in Message : pm[m].status = "absent" /\ pm[m].token = NoToken
      /\ \A w \in Worker : wk[w].pc = "idle"
  BY DEF Init, PMInit, NoRow, Idle
<1>2. \A w \in Worker : KeepsLease(w) /\ Agrees(w)
  BY <1>1 DEF KeepsLease, Agrees, Own, Staged, At
<1> QED
  BY <1>1, <1>2 DEF Kept, NoTokenYet, OneRowPerJob

\* As long as leases expire only once nobody renews them, every step keeps them.
LEMMA KeptStep == ASSUME Inv, Kept, LeasesKept, [Next]_pipelineVars PROVE Kept'
<1>1. ASSUME NEW w \in Worker PROVE Agrees(w)'
  BY Actors, SurroundingsApart, OthersStay, OthersLeaveIt, ActorAgrees
<1>2. NoTokenYet' /\ OneRowPerJob'
  BY UniqueStays DEF Kept
<1> QED
  BY <1>1, <1>2, LeaseIsKept DEF Kept

\* Where live workers keep their leases, each one owns its row and agrees with the
\* row of its job in every reachable state.
THEOREM LeaseInvariance == ASSUME LeasesKept PROVE Spec => []Kept
<1>1. Inv /\ Kept /\ [Next]_pipelineVars => Kept'
  BY KeptStep
<1> QED
  BY <1>1, InitKept, Invariance, PTL DEF Spec

\* Where live workers keep their leases, two workers never run the pipeline of one job,
\* whichever message ids named it: uk_processed_messages_type_job allows the job one
\* row, and the row one owner.
THEOREM OneWorkerCorrect == ASSUME LeasesKept PROVE Spec => []OneWorkerPerJob
<1>1. Inv /\ Kept => OneWorkerPerJob
  BY OneAtAJob DEF OneWorkerPerJob, InStages, Own
<1> QED
  BY <1>1, LeaseInvariance, Invariance, PTL

\* Where live workers keep their leases, no UPDATE of query_jobs is made by a worker
\* that does not own the lease of its message, though no UPDATE looks at the token.
THEOREM OwnerWritesCorrect == ASSUME LeasesKept PROVE Spec => OnlyTheOwnerWrites
<1>1. ASSUME Inv, Kept, [Next]_pipelineVars, NEW w \in Worker, wk'[w] # wk[w], job' # job
      PROVE  Owns(w, MsgId(w))
  <2>1. PICK v \in Worker : Acts(v)
    BY <1>1, Actors, SurroundingsApart
  <2>2. v = w
    BY <1>1, <2>1, OthersStay
  <2>3. job \in [Job -> JobRow] /\ job' \in [Job -> JobRow]
    BY <1>1, InvStep DEF Inv, TypeOK
  <2>4. PICK j \in Job : job'[j] # job[j]
    BY <1>1, <2>3
  <2>5. wk[w].pc \in Own
    BY <1>1, <2>1, <2>2, <2>4, JobWrites
  <2> QED
    BY <1>1, <2>5 DEF Kept, KeepsLease, HoldsLease
<1>2. ASSUME Inv, Kept, [Next]_pipelineVars
      PROVE  \A w \in Worker :
                 /\ wk'[w] # wk[w]
                 /\ wk[w].pc \in Processing
                 /\ job' # job
                 => Owns(w, MsgId(w))
  BY <1>1, <1>2
<1> QED
  BY <1>2, LeaseInvariance, Invariance, PTL DEF Spec, OnlyTheOwnerWrites

\* Where live workers keep their leases, a job becomes succeeded by the worker whose
\* SetRaw is in Redis, and nobody replaces that result afterwards.
THEOREM WinnersCorrect == ASSUME LeasesKept PROVE Spec => ResultIsTheWinners
<1>1. ASSUME Inv, Kept, [Next]_pipelineVars, NEW j \in Job,
             job[j].status # "succeeded", job'[j].status = "succeeded"
      PROVE  \E w \in Worker : At(w, "succeed") /\ wk'[w] # wk[w] /\ <<j, w>> \in cached
  <2>1. JobMove(j)
    BY <1>1, JobMoves DEF Inv, TypeOK
  <2>2. PICK w \in Worker : At(w, "succeed") /\ JobId(w) = j
    BY <1>1, <2>1 DEF JobMove
  <2>3. PICK v \in Worker : Acts(v)
    BY <1>1, Actors, SurroundingJobs
  <2>4. wk[v].pc \in Own /\ JobId(v) = j /\ wk'[v] # wk[v]
    BY <1>1, <2>3, JobWrites
  <2>5. v = w
    BY <1>1, <2>2, <2>4, OneAtAJob DEF At, Own
  <2> QED
    BY <1>1, <2>2, <2>4, <2>5 DEF Kept, Agrees
<1>2. ASSUME Inv, Kept, [Next]_pipelineVars, NEW j \in Job, job[j].status = "succeeded"
      PROVE  { r \in cached' : r[1] = j } = { r \in cached : r[1] = j }
  <2>1. ASSUME NEW w \in Worker, Acts(w), cached' # cached
        PROVE  JobId(w) # j /\ cached' = Stored(w)
    BY <1>2, <2>1, CacheWrites DEF Kept, Agrees, At, Staged
  <2>2. ASSUME Surroundings PROVE cached' = cached
    BY <1>2, <2>2, SurroundingJobs
  <2> QED
    BY <1>2, <2>1, <2>2, Actors DEF Stored
<1>3. ASSUME Inv, Kept, [Next]_pipelineVars
      PROVE  \A j \in Job :
          /\ job[j].status # "succeeded" /\ job'[j].status = "succeeded"
             => \E w \in Worker : /\ At(w, "succeed") /\ wk'[w] # wk[w]
                                 /\ <<j, w>> \in cached
          /\ job[j].status = "succeeded"
             => { r \in cached' : r[1] = j } = { r \in cached : r[1] = j }
  BY <1>1, <1>2, <1>3
<1> QED
  BY <1>3, LeaseInvariance, Invariance, PTL DEF Spec, ResultIsTheWinners
-----------------------------------------------------------------------------
\* The third invariant: with the leases kept, the retry that the database announces
\* has a copy with the recorded attempt.
NextCopy(w, c) == c.id = MsgId(w) /\ c.attempt = NextAttempt(w) /\ Available(c)

Scheduled == \A w \in Worker : At(w, "setretrying") => \E c \in Copy : NextCopy(w, c)

RetryCopy(m, c) == c.id = m /\ c.attempt = job[JobOf[m]].attempt /\ Available(c)

RetryHasCopy ==
    \A m \in Message :
        /\ job[JobOf[m]].status = "retrying"
        /\ pm[m].status \notin { "absent", "completed" }
        => \E c \in Copy : RetryCopy(m, c)

RetryingHandled == \A j \in Job : job[j].status = "retrying" => Handled(j)

Announced == Scheduled /\ RetryHasCopy /\ RetryingHandled

\* A job is announced as retrying by SetRetrying alone.
LEMMA Announces ==
    ASSUME Inv, NEW w \in Worker, Acts(w), NEW j \in Job,
           job'[j] # job[j], job'[j].status = "retrying"
    PROVE  At(w, "setretrying") /\ job'[j].attempt = NextAttempt(w)
<1>0. job \in [Job -> JobRow]
  BY DEF Inv, TypeOK
<1>1. ASSUME NEW from, NEW to, NEW pc, to # "retrying", CasStatus(w, from, to, pc) PROVE FALSE
  <2>1. job' = [job EXCEPT ![JobId(w)] = [job[JobId(w)] EXCEPT !.status = to]]
    BY <1>1 DEF CasStatus, Cas
  <2>2. j = JobId(w) /\ job'[j] = [job[j] EXCEPT !.status = to]
    BY <1>0, <2>1
  <2>3. job'[j].status = to
    BY <1>0, <2>2 DEF JobRow
  <2> QED
    BY <1>1, <2>3
<1>2. ASSUME Start(w) \/ Generate(w) \/ Validate(w) \/ Execute(w) \/ Succeed(w) \/ SetFailed(w)
      PROVE  FALSE
  BY <1>1, <1>2 DEF Start, Generate, Validate, Execute, Succeed, SetFailed, StageFault
<1>3. CASE SetRetrying(w)
  <2>1. At(w, "setretrying")
    BY <1>3 DEF SetRetrying, Running
  <2>2. job' = [job EXCEPT ![JobId(w)] = [status |-> "retrying", attempt |-> NextAttempt(w)]]
    BY <1>3 DEF SetRetrying, Cas
  <2> QED
    BY <1>0, <2>1, <2>2
<1>4. ASSUME WorkerStep(w) PROVE SetRetrying(w)
  BY <1>2, <1>4
  DEF WorkerStep, Reject, ClaimGranted, ClaimRefused, Defer, Load, Store, Schedule, Abandon,
      Missing, MarkRetry, Complete, Ack, Nack, Fatal, PublishOffline
<1> QED
  BY <1>3, <1>4
  DEF Acts, RenewTick, Deliver, Crash, ConnectionLost, RenewError, DbError, PublishError

\* Between SetRetrying's publish and its UPDATE, nobody else can settle the new copy.
LEMMA ScheduledStays ==
    ASSUME Inv, Lives, Kept, Scheduled, [Next]_pipelineVars
    PROVE  Scheduled'
<1> SUFFICES ASSUME NEW w \in Worker, wk'[w].pc = "setretrying"
             PROVE  \E c \in Copy : c.id = MsgId(w)' /\ c.attempt = NextAttempt(w)' /\ Available(c)'
  BY DEF Scheduled, NextCopy, At
<1>1. /\ wk'[w].msg = wk[w].msg
      /\ At(w, "setretrying") \/ (At(w, "retry") /\ HasRetryLeft(w) /\ PublishRetry(w))
  BY Claimed DEF Own, At
<1>2. MsgId(w)' = MsgId(w) /\ NextAttempt(w)' = NextAttempt(w)
  BY <1>1 DEF MsgId, NextAttempt, Attempt
<1>3. /\ wk[w].pc \in Own /\ MsgId(w) \in Message /\ Attempt(w) \in Nat
  BY <1>1, Busy, InHands DEF Own, At
<1>4. CASE At(w, "setretrying")
  <2>1. PICK c \in Copy : NextCopy(w, c)
    BY <1>4 DEF Scheduled
  <2>2. ASSUME NEW v \in Worker, Acts(v), Settles(v), c = wk[v].msg PROVE FALSE
    <3>1. MsgId(v) = MsgId(w) /\ JobId(v) = JobId(w)
      BY <2>1, <2>2 DEF NextCopy, MsgId, JobId
    <3>2. pm[MsgId(w)].status = "processing"
      BY <1>3 DEF Kept, KeepsLease, HoldsLease
    <3>3. v # w
      BY <1>4, <2>2 DEF Settles, At
    <3>4. wk[v].pc \notin Own
      BY <1>3, <3>1, <3>3, OneAtAJob
    <3> QED
      BY <2>2, <3>1, <3>2, <3>4 DEF Settles, AlreadyDone, Lives, RejectedHasRow, At, Own
  <2>3. Available(c)'
    BY <2>1, <2>2, Actors, SurroundingCopies, CopiesStay DEF NextCopy, CopyMove, Lives
  <2> QED
    BY <1>2, <2>1, <2>3 DEF NextCopy
<1>5. CASE At(w, "retry") /\ HasRetryLeft(w) /\ PublishRetry(w)
  <2>1. [id |-> MsgId(w), attempt |-> NextAttempt(w)] \in Copy
    BY <1>3, <1>5, PipelineAssumption DEF Copy, NextAttempt, HasRetryLeft
  <2>2. PICK c \in Copy : c = [id |-> MsgId(w), attempt |-> NextAttempt(w)]
    BY <2>1
  <2>3. QueuesOK
    BY DEF Inv, TypeOK, QueuesOK
  <2>4. retry' = Put(retry, c) /\ main' = main
    BY <1>5, <2>2 DEF PublishRetry
  <2>5. InQueue(c)'
    BY <2>3, <2>4, PutIn
  <2> QED
    BY <1>2, <2>2, <2>5 DEF Available, InQueue
<1> QED
  BY <1>1, <1>4, <1>5

\* A copy with the attempt that the job row names is settled only by completing the row.
LEMMA RetryCopyStays ==
    ASSUME Inv, Lives, Kept, [Next]_pipelineVars, NEW m \in Message, NEW c \in Copy,
           RetryCopy(m, c), job[JobOf[m]].status = "retrying",
           pm[m].status \notin { "absent", "completed" }, pm'[m].status # "completed"
    PROVE  Available(c)'
<1>1. ASSUME NEW w \in Worker, Acts(w), Settles(w), c = wk[w].msg PROVE FALSE
  <2>1. /\ MsgId(w) = m /\ Attempt(w) = job[JobOf[m]].attempt /\ JobId(w) = JobOf[m]
        /\ Attempt(w) \in Nat
    BY <1>1, PipelineAssumption DEF RetryCopy, MsgId, Attempt, JobId, Copy
  <2>2. CASE At(w, "received") /\ AlreadyDone(MsgId(w))
    BY <2>1, <2>2 DEF AlreadyDone
  <2>3. CASE At(w, "reject")
    BY <2>1, <2>3 DEF Lives, RejectedHasRow
  <2>4. CASE At(w, "markretry")
    <3>1. Attempt(w) = NextAttempt(w)
      BY <2>1, <2>4 DEF Kept, Agrees
    <3> QED
      BY <2>1, <3>1 DEF NextAttempt
  <2>5. CASE MarkCompleted(w, MsgId(w))
    <3>1. pm \in [Message -> Row]
      BY DEF Inv, TypeOK, PMTypeOK
    <3> QED
      BY <2>1, <2>5, <3>1 DEF MarkCompleted, Row
  <2> QED
    BY <1>1, <2>2, <2>3, <2>4, <2>5 DEF Settles
<1> QED
  BY <1>1, Actors, SurroundingCopies, CopiesStay DEF RetryCopy, CopyMove, Lives

\* The status retrying is written after the confirm of the copy, by the owner of the row.
LEMMA AnnouncedStays ==
    ASSUME Inv, Lives, Kept, Announced, [Next]_pipelineVars
    PROVE  RetryHasCopy' /\ RetryingHandled'
\* The step that announces the retry of the job j.
<1>1. ASSUME NEW j \in Job, job'[j] # job[j], job'[j].status = "retrying"
      PROVE  \E w \in Worker :
                 /\ Acts(w) /\ At(w, "setretrying") /\ JobId(w) = j
                 /\ MsgId(w) \in Message /\ pm[MsgId(w)].status = "processing"
                 /\ job'[j].attempt = NextAttempt(w) /\ pm' = pm
  <2>1. PICK w \in Worker : Acts(w)
    BY <1>1, Actors, SurroundingJobs
  <2>2. /\ At(w, "setretrying") /\ JobId(w) = j /\ job'[j].attempt = NextAttempt(w)
        /\ wk'[w] # wk[w]
    BY <1>1, <2>1, Announces, JobWrites
  <2>3. MsgId(w) \in Message /\ pm[MsgId(w)].status = "processing"
    BY <2>2, Busy, InHands DEF Kept, KeepsLease, HoldsLease, At, Own
  <2>4. pm' = pm
    BY <2>1, <2>2, RowMoves DEF RowMove, At
  <2> QED
    BY <2>1, <2>2, <2>3, <2>4
<1>2. ASSUME NEW j \in Job, job'[j].status = "retrying" PROVE Handled(j)'
  <2>1. CASE job'[j] = job[j]
    BY <1>2, <2>1, HandledStays DEF Announced, RetryingHandled, Lives
  <2>2. CASE job'[j] # job[j]
    BY <1>1, <1>2, <2>2 DEF Handled, JobId
  <2> QED
    BY <2>1, <2>2
<1>3. ASSUME NEW m \in Message, job'[JobOf[m]].status = "retrying",
             pm'[m].status \notin { "absent", "completed" }
      PROVE  \E c \in Copy : RetryCopy(m, c)'
  <2>1. JobOf[m] \in Job
    BY PMAssumption
  <2>2. CASE job'[JobOf[m]] = job[JobOf[m]]
    <3>1. pm[m].status # "completed"
      BY <1>3, RowsStay DEF Lives
    <3>2. pm[m].status # "absent"
      <4> SUFFICES ASSUME pm[m].status = "absent" PROVE FALSE
        OBVIOUS
      <4>1. Conflicting(m) = {}
        BY <1>3, RowsStay DEF Lives, Claim, Claimable
      <4>2. Handled(JobOf[m])
        BY <1>3, <2>1, <2>2 DEF Announced, RetryingHandled
      <4> QED
        BY <4>1, <4>2 DEF Handled, Conflicting
    <3>3. PICK c \in Copy : RetryCopy(m, c)
      BY <1>3, <2>2, <3>1, <3>2 DEF Announced, RetryHasCopy
    <3>4. Available(c)'
      BY <1>3, <2>2, <3>1, <3>2, <3>3, RetryCopyStays
    <3> QED
      BY <2>2, <3>3, <3>4 DEF RetryCopy
  <2>3. CASE job'[JobOf[m]] # job[JobOf[m]]
    <3>1. PICK w \in Worker :
                 /\ Acts(w) /\ At(w, "setretrying") /\ JobId(w) = JobOf[m]
                 /\ MsgId(w) \in Message /\ pm[MsgId(w)].status = "processing"
                 /\ job'[JobOf[m]].attempt = NextAttempt(w) /\ pm' = pm
      BY <1>1, <1>3, <2>1, <2>3
    <3>2. MsgId(w) = m
      BY <1>3, <3>1 DEF Lives, OneRowPerJob, JobId
    <3>3. PICK c \in Copy : NextCopy(w, c)
      BY <3>1 DEF Announced, Scheduled
    <3>4. Available(c)'
      BY <3>1, <3>3, CopiesStay DEF NextCopy, CopyMove, Settles, At, Lives
    <3> QED
      BY <3>1, <3>2, <3>3, <3>4 DEF RetryCopy, NextCopy
  <2> QED
    BY <2>2, <2>3
<1> QED
  BY <1>2, <1>3 DEF RetryHasCopy, RetryingHandled

\* With the leases kept, the retries the database announces have their copies in every
\* reachable state.
THEOREM RetryInvariance == ASSUME Sane, LeasesKept PROVE Spec => []Announced
<1>1. Init => Announced
  <2> SUFFICES ASSUME Init PROVE Announced
    OBVIOUS
  <2>1. /\ \A j \in Job : job[j].status = "absent"
        /\ \A m \in Message : pm[m].status = "absent"
        /\ \A w \in Worker : wk[w].pc = "idle"
    BY DEF Init, PMInit, NoRow, NoJob, Idle
  <2> QED
    BY <2>1 DEF Announced, Scheduled, RetryHasCopy, RetryingHandled, At
<1>2. Inv /\ Lives /\ Kept /\ Announced /\ [Next]_pipelineVars => Announced'
  BY ScheduledStays, AnnouncedStays DEF Announced
<1>3. Spec => []Lives /\ []Kept
  BY DeliveryInvariance, LeaseInvariance
<1> QED
  BY <1>1, <1>2, <1>3, Invariance, PTL DEF Spec

\* Where live workers keep their leases, a retrying job that no row calls completed has
\* a copy with exactly the recorded attempt, in a queue or in live hands: the publish is
\* confirmed before the status is written, and no other copy of the message can be
\* settled as done in between.
THEOREM RetryCorrect == ASSUME LeasesKept PROVE Spec => []RetryIsOnItsWay
<1>1. CASE Sane
  <2>1. Announced => RetryIsOnItsWay
    BY DEF Announced, RetryingHandled, Handled, RetryHasCopy, RetryCopy, RetryIsOnItsWay
  <2>2. Spec => []Announced
    BY <1>1, RetryInvariance
  <2> QED
    BY <2>1, <2>2, PTL
<1>2. CASE ~Sane
  <2>1. RetryIsOnItsWay
    BY <1>2 DEF Sane, RetryIsOnItsWay
  <2> QED
    BY <2>1, PTL
<1> QED
  BY <1>1, <1>2
=============================================================================
