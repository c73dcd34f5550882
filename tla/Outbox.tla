------------------------------- MODULE Outbox --------------------------------
(* The transactional outbox: the rows of outbox_events and the dispatchers     *)
(* (one goroutine in each API process) that claim pending rows under a lease,  *)
(* publish them with confirms, and mark them published or give them back.      *)
(*                                                                             *)
(* Time is abstracted to bits of a row: due says next_retry_at <= now, expired *)
(* says lease_expires_at <= now.  Every repository call is one MySQL statement *)
(* or transaction and therefore one action.                                    *)
EXTENDS Naturals, FiniteSets

CONSTANTS Event,        \* the outbox events
          Dispatcher,   \* the API processes
          Token,        \* lease tokens
          NoToken,      \* no lease
          NoEvent,      \* the current event of a dispatcher between two events
          BatchSize,    \* OutboxBatchSize
          FaultKinds,   \* kinds of environment faults that may happen
          MaxFaults     \* bound: faults in one behaviour

ASSUME OutboxAssumption ==
    /\ NoToken \notin Token
    /\ NoEvent \notin Event
    /\ BatchSize \in Nat
    /\ MaxFaults \in Nat

VARIABLES row,        \* outbox_events
          disp,       \* the dispatchers
          snap,       \* snap[d][e]: attempt_count of e as d read it in ClaimBatch
          delivered,  \* events of which the broker took at least one copy
          abandoned,  \* ghost: events whose holder crashed or lost a database call
          faults      \* environment faults so far

vars == <<row, disp, snap, delivered, abandoned, faults>>

RowStatus == { "absent", "pending", "publishing", "published", "deleted" }
Row == [status : RowStatus, token : Token \union {NoToken},
        due : BOOLEAN, expired : BOOLEAN, attempts : Nat]
Absent == [status |-> "absent", token |-> NoToken,
           due |-> FALSE, expired |-> FALSE, attempts |-> 0]

\* A dispatcher: program point, token and remaining events of its batch, the
\* event at hand, whether its publisher channel is usable, whether Stop was called.
PC == { "idle", "connect", "next", "mark", "release", "releaseall", "clean", "stopped" }
State == [pc : PC, token : Token \union {NoToken}, batch : SUBSET Event,
          cur : Event \union {NoEvent}, up : BOOLEAN, stopping : BOOLEAN]
Fresh == [pc |-> "idle", token |-> NoToken, batch |-> {}, cur |-> NoEvent,
          up |-> FALSE, stopping |-> FALSE]

TypeOK ==
    /\ row \in [Event -> Row]
    /\ disp \in [Dispatcher -> State]
    /\ snap \in [Dispatcher -> [Event -> Nat]]
    /\ delivered \subseteq Event
    /\ abandoned \subseteq Event
    /\ faults \in 0..MaxFaults

Init ==
    /\ row = [e \in Event |-> Absent]
    /\ disp = [d \in Dispatcher |-> Fresh]
    /\ snap = [d \in Dispatcher |-> [e \in Event |-> 0]]
    /\ delivered = {}
    /\ abandoned = {}
    /\ faults = 0
-----------------------------------------------------------------------------
\* Helpers.

Fault(kind) ==
    /\ kind \in FaultKinds
    /\ faults < MaxFaults
    /\ faults' = faults + 1

At(d, pc) == disp[d].pc = pc
Goto(d, pc) == disp' = [disp EXCEPT ![d].pc = pc]

\* The row still carries the token of d's claim.
Owns(d, e) == /\ disp[d].token # NoToken
              /\ row[e].token = disp[d].token

Remembered == { row[e].token : e \in Event } \union { disp[d].token : d \in Dispatcher }
FreshTokens == Token \ Remembered
\* Mutant of NewToken: the same token for every claim.
NewToken_Reused == CHOOSE t \in Token : TRUE

NewToken == CHOOSE t \in Token : t \notin Remembered

\* Mutant of Ready: the expired leases are forgotten.
Ready_PendingOnly(e) == row[e].status = "pending" /\ row[e].due

\* The two branches of the SELECT in ClaimBatch.
Ready(e) ==
    \/ row[e].status = "pending" /\ row[e].due
    \/ row[e].status = "publishing" /\ row[e].expired

\* The event at hand is done with: go on with the rest of the batch.
Done(d, next) ==
    disp' = [disp EXCEPT ![d] = [@ EXCEPT !.pc = next,
                                          !.batch = disp[d].batch \ {disp[d].cur},
                                          !.cur = NoEvent]]
-----------------------------------------------------------------------------
\* CreateAndEnqueue inserts the event in the transaction that queues the job.
Submit(e) ==
    /\ row[e].status = "absent"
    /\ row' = [row EXCEPT ![e] = [Absent EXCEPT !.status = "pending", !.due = TRUE]]
    /\ UNCHANGED <<disp, snap, delivered, abandoned, faults>>

\* next_retry_at passes.
BackoffElapses(e) ==
    /\ row[e].status = "pending" /\ ~row[e].due
    /\ row' = [row EXCEPT ![e].due = TRUE]
    /\ UNCHANGED <<disp, snap, delivered, abandoned, faults>>

\* lease_expires_at passes.  Past a dispatcher that still works on the event this
\* takes a batch slower than the lease: a fault.
Working(e) == \E d \in Dispatcher : Owns(d, e) /\ e \in disp[d].batch
LeaseExpires(e) ==
    /\ row[e].status = "publishing" /\ ~row[e].expired
    /\ row' = [row EXCEPT ![e].expired = TRUE]
    /\ IF Working(e) THEN Fault("slow") ELSE UNCHANGED faults
    /\ UNCHANGED <<disp, snap, delivered, abandoned>>
-----------------------------------------------------------------------------
\* runOnce.

\* The loop's select takes the ticker.  When the stop channel is closed too it may
\* still choose the ticker; how often is bounded with the faults.
Tick(d) == IF disp[d].stopping THEN Fault("latetick") ELSE UNCHANGED faults

\* ClaimBatch: up to BatchSize ready rows get the same new token.  Rows that
\* another instance has locked are skipped, so the batch is any such set.
ClaimBatch(d) ==
    /\ At(d, "idle") /\ Tick(d)
    /\ FreshTokens # {}
    /\ \E batch \in SUBSET { e \in Event : Ready(e) } :
          /\ batch # {}
          /\ Cardinality(batch) <= BatchSize
          /\ row' = [e \in Event |->
                        IF e \in batch
                        THEN [row[e] EXCEPT !.status = "publishing",
                                            !.token = NewToken,
                                            !.expired = FALSE]
                        ELSE row[e]]
          /\ disp' = [disp EXCEPT ![d] = [@ EXCEPT !.pc = "connect",
                                                   !.token = NewToken,
                                                   !.batch = batch]]
          /\ snap' = [snap EXCEPT ![d] = [e \in Event |-> row[e].attempts]]
          /\ abandoned' = abandoned \ batch
    /\ UNCHANGED delivered

\* The claim found nothing: only the cleanup is left to do.
ClaimNothing(d) ==
    /\ At(d, "idle") /\ Tick(d)
    /\ \A e \in Event : ~Ready(e)
    /\ Goto(d, "clean")
    /\ UNCHANGED <<row, snap, delivered, abandoned>>

\* ensurePublisher: the cached channel, a new one, or RabbitMQ is unavailable and
\* the whole batch is given back.
Connect(d) ==
    /\ At(d, "connect")
    /\ \/ /\ disp' = [disp EXCEPT ![d] = [@ EXCEPT !.pc = "next", !.up = TRUE]]
          /\ UNCHANGED faults
       \/ /\ ~disp[d].up
          /\ Fault("dial")
          /\ Goto(d, "releaseall")
    /\ UNCHANGED <<row, snap, delivered, abandoned>>

\* publishOutbox is confirmed.
Publish(d, e) ==
    /\ At(d, "next") /\ ~disp[d].stopping /\ disp[d].up
    /\ e \in disp[d].batch
    /\ delivered' = delivered \union {e}
    /\ disp' = [disp EXCEPT ![d] = [@ EXCEPT !.pc = "mark", !.cur = e]]
    /\ UNCHANGED <<row, snap, abandoned, faults>>

\* Mutant of PublishFails: the error of publishOutbox is not looked at.
PublishFails_Unchecked(d, e) ==
    /\ At(d, "next") /\ ~disp[d].stopping
    /\ e \in disp[d].batch
    /\ Fault("publish")
    /\ disp' = [disp EXCEPT ![d] = [@ EXCEPT !.pc = "mark", !.cur = e]]
    /\ UNCHANGED <<row, snap, delivered, abandoned>>

\* publishOutbox fails (nack, return, timeout): the broker may have the message
\* all the same.  The channel is closed, so the rest of the batch fails too.
PublishFails(d, e) ==
    /\ At(d, "next") /\ ~disp[d].stopping
    /\ e \in disp[d].batch
    /\ \/ /\ disp[d].up
          /\ Fault("publish")
          /\ delivered' \in { delivered, delivered \union {e} }
       \/ ~disp[d].up /\ UNCHANGED <<delivered, faults>>
    /\ disp' = [disp EXCEPT ![d] = [@ EXCEPT !.pc = "release", !.cur = e, !.up = FALSE]]
    /\ UNCHANGED <<row, snap, abandoned>>

\* Stop was called: the remaining events are given back.
ReleaseOnStop(d, e) ==
    /\ At(d, "next") /\ disp[d].stopping
    /\ e \in disp[d].batch
    /\ disp' = [disp EXCEPT ![d] = [@ EXCEPT !.pc = "release", !.cur = e]]
    /\ UNCHANGED <<row, snap, delivered, abandoned, faults>>

BatchDone(d) ==
    /\ At(d, "next")
    /\ disp[d].batch = {}
    /\ Goto(d, "clean")
    /\ UNCHANGED <<row, snap, delivered, abandoned, faults>>

\* MarkPublished: WHERE id = ? AND lease_token = ? AND status = 'publishing'.
\* Its error is only logged.
MarkPublished(d) ==
    LET e == disp[d].cur IN
    /\ At(d, "mark")
    /\ \/ /\ Owns(d, e) /\ row[e].status = "publishing"
          /\ row' = [row EXCEPT ![e] = [@ EXCEPT !.status = "published",
                                                 !.token = NoToken,
                                                 !.expired = FALSE]]
       \/ ~(Owns(d, e) /\ row[e].status = "publishing") /\ UNCHANGED row
    /\ Done(d, "next")
    /\ UNCHANGED <<snap, delivered, abandoned, faults>>

\* Mutants of Release: WHERE id = ?; attempt_count goes down.
Release_Unfenced(d, e) ==
    row' = [row EXCEPT ![e] = [status |-> "pending", token |-> NoToken,
                               due |-> FALSE, expired |-> FALSE,
                               attempts |-> snap[d][e] + 1]]
Release_CountDown(d, e) ==
    \/ /\ Owns(d, e)
       /\ row' = [row EXCEPT ![e] = [status |-> "pending", token |-> NoToken,
                                     due |-> FALSE, expired |-> FALSE,
                                     attempts |-> snap[d][e] - 1]]
    \/ ~Owns(d, e) /\ UNCHANGED row

\* ReleaseWithRetry: WHERE id = ? AND lease_token = ?.  A lost lease is no error.
Release(d, e) ==
    \/ /\ Owns(d, e)
       /\ row' = [row EXCEPT ![e] = [status |-> "pending", token |-> NoToken,
                                     due |-> FALSE, expired |-> FALSE,
                                     attempts |-> snap[d][e] + 1]]
    \/ ~Owns(d, e) /\ UNCHANGED row

ReleaseEvent(d) ==
    /\ At(d, "release")
    /\ Release(d, disp[d].cur)
    /\ Done(d, "next")
    /\ UNCHANGED <<snap, delivered, abandoned, faults>>

\* RabbitMQ is unavailable: releaseEvent for every event of the batch, no cleanup.
ReleaseAll(d) ==
    /\ At(d, "releaseall")
    /\ \/ \E e \in disp[d].batch :
             /\ Release(d, e)
             /\ disp' = [disp EXCEPT ![d].batch = @ \ {e}]
       \/ /\ disp[d].batch = {}
          /\ Goto(d, "idle")
          /\ UNCHANGED row
    /\ UNCHANGED <<snap, delivered, abandoned, faults>>

\* cleanOld: some published rows have outlived their retention.
Clean(d) ==
    /\ At(d, "clean")
    /\ \E old \in SUBSET { e \in Event : row[e].status = "published" } :
          row' = [e \in Event |->
                     IF e \in old THEN [row[e] EXCEPT !.status = "deleted"] ELSE row[e]]
    /\ Goto(d, "idle")
    /\ UNCHANGED <<snap, delivered, abandoned, faults>>
-----------------------------------------------------------------------------
\* Stop, restart and faults.

\* Stop closes the stop channel.
Stop(d) ==
    /\ ~disp[d].stopping
    /\ Fault("stop")
    /\ disp' = [disp EXCEPT ![d].stopping = TRUE]
    /\ UNCHANGED <<row, snap, delivered, abandoned>>

\* Mutant of LoopReturns: a stop in the middle of a batch gives nothing back.
LoopReturns_AtOnce(d) ==
    /\ disp[d].pc \in {"idle", "next"} /\ disp[d].stopping
    /\ disp' = [disp EXCEPT ![d] = [Fresh EXCEPT !.pc = "stopped", !.stopping = TRUE]]
    /\ UNCHANGED <<row, snap, delivered, abandoned, faults>>

\* The loop returns between two cycles.
LoopReturns(d) ==
    /\ At(d, "idle") /\ disp[d].stopping
    /\ disp' = [disp EXCEPT ![d] = [Fresh EXCEPT !.pc = "stopped", !.stopping = TRUE]]
    /\ UNCHANGED <<row, snap, delivered, abandoned, faults>>

Restart(d) ==
    /\ At(d, "stopped")
    /\ disp' = [disp EXCEPT ![d] = Fresh]
    /\ UNCHANGED <<row, snap, delivered, abandoned, faults>>

\* The process dies at any point, and is started again.
Crash(d) ==
    /\ ~At(d, "stopped")
    /\ Fault("crash")
    /\ abandoned' = abandoned \union { e \in disp[d].batch : Owns(d, e) }
    /\ disp' = [disp EXCEPT ![d] = Fresh]
    /\ UNCHANGED <<row, snap, delivered>>

\* MarkPublished or ReleaseWithRetry fails: the lease is left to expire.
DatabaseError(d) ==
    /\ Fault("dberr")
    /\ \E e \in disp[d].batch :
          /\ abandoned' = abandoned \union { f \in {e} : Owns(d, f) }
          /\ \/ disp[d].pc \in {"mark", "release"} /\ disp[d].cur = e /\ Done(d, "next")
             \/ At(d, "releaseall") /\ disp' = [disp EXCEPT ![d].batch = @ \ {e}]
    /\ UNCHANGED <<row, snap, delivered>>
-----------------------------------------------------------------------------
DispatcherStep(d) ==
    \/ ClaimBatch(d) \/ ClaimNothing(d) \/ Connect(d) \/ BatchDone(d)
    \/ \E e \in Event : Publish(d, e) \/ PublishFails(d, e) \/ ReleaseOnStop(d, e)
    \/ MarkPublished(d) \/ ReleaseEvent(d) \/ ReleaseAll(d) \/ Clean(d)
    \/ LoopReturns(d) \/ Restart(d)

Next ==
    \/ \E e \in Event : Submit(e) \/ BackoffElapses(e) \/ LeaseExpires(e)
    \/ \E d \in Dispatcher : DispatcherStep(d) \/ Stop(d) \/ Crash(d) \/ DatabaseError(d)

Spec == Init /\ [][Next]_vars

\* The ticker of a running dispatcher goes on, a stopped process is started again
\* and time passes.  An idle dispatcher may lose every ready row to the others, so
\* nothing is assumed of a single claim.
Fairness ==
    /\ \A d \in Dispatcher : WF_vars(DispatcherStep(d))
    /\ \A e \in Event : WF_vars(BackoffElapses(e)) /\ WF_vars(LeaseExpires(e))

FairSpec == Spec /\ Fairness
-----------------------------------------------------------------------------
\* Properties.

\* An event is marked published, and may be deleted, only after the broker
\* confirmed a copy of it, even when the instance that published it and the one
\* that marks it are not in step.
PublishedWasDelivered ==
    \A e \in Event : row[e].status \in {"published", "deleted"} => e \in delivered

\* A dispatcher whose lease was taken over cannot move an event back: what was
\* published stays published until it is deleted, and attempt_count never
\* decreases.
NeverTakenBack ==
    [][\A e \in Event :
          /\ row[e].status = "published" => row'[e].status \in {"published", "deleted"}
          /\ row'[e].attempts >= row[e].attempts]_vars

\* Two dispatchers never hold the current lease of one event.
OneHolder ==
    \A e \in Event : \A c, d \in Dispatcher : Owns(c, e) /\ Owns(d, e) => c = d

\* Only a crash or a failed database call leaves a lease to expire: an orderly
\* Stop, an unreachable broker and a failed publish give every event back.
NoOrphanLease ==
    \A e \in Event : row[e].status = "publishing" => Working(e) \/ e \in abandoned

\* The outbox implements at-least-once delivery.
Phase(e) ==
    IF row[e].status = "absent" THEN "none"
    ELSE IF row[e].status \in {"published", "deleted"} THEN "settled"
    ELSE IF e \in delivered THEN "sent" ELSE "accepted"

phases == [e \in Event |-> Phase(e)]
Abstract == INSTANCE AtLeastOnce WITH state <- phases
DeliversAtLeastOnce == Abstract!FairSpec
=============================================================================
