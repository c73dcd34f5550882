---------------------------- MODULE Outbox_proofs ----------------------------
(* Proofs about Outbox, for any number of events, dispatchers and faults.      *)
(*                                                                             *)
(* The safety properties do not follow from their own text: whether a late     *)
(* UPDATE of an overtaken dispatcher is harmless depends on the tokens in the  *)
(* rows and on what the dispatchers remember.  Inv collects those facts.  The  *)
(* lemmas RowMoves and DispMoves say, without the detail of the actions, what  *)
(* one step can do to a row and to a dispatcher; the invariant is proved from  *)
(* them.                                                                       *)
EXTENDS Outbox, TLAPS

\* newLeaseToken: the token of a claim is a token, and nobody remembers it.
LEMMA NewTokenIsNew ==
    ASSUME FreshTokens # {}
    PROVE  /\ NewToken \in Token
           /\ NewToken # NoToken
           /\ \A e \in Event : row[e].token # NewToken
           /\ \A d \in Dispatcher : disp[d].token # NewToken
BY OutboxAssumption DEF FreshTokens, NewToken, Remembered

\* ClaimBatch in parts: one batch of ready rows, one new token for all of them.
LEMMA ClaimedBatch ==
    ASSUME NEW d \in Dispatcher, ClaimBatch(d)
    PROVE  /\ FreshTokens # {}
           /\ UNCHANGED delivered
           /\ Tick(d)
           /\ \E batch \in SUBSET { e \in Event : Ready(e) } :
                 /\ row' = [e \in Event |->
                               IF e \in batch
                               THEN [row[e] EXCEPT !.status = "publishing",
                                                   !.token = NewToken,
                                                   !.expired = FALSE]
                               ELSE row[e]]
                 /\ disp' = [disp EXCEPT ![d] = [@ EXCEPT !.pc = "connect",
                                                          !.token = NewToken,
                                                          !.batch = batch]]
                 /\ snap' = [snap EXCEPT ![d] = [e \in Event |-> row[e].attempts]]
                 /\ abandoned' = abandoned \ batch
BY DEF ClaimBatch

\* Replacing the record of one event or one dispatcher.
LEMMA UpdateRow ==
    ASSUME row \in [Event -> Row], NEW e,
           NEW r, e \in Event => r \in Row, row' = [row EXCEPT ![e] = r]
    PROVE  row' \in [Event -> Row]
OBVIOUS

\* The same for one dispatcher.
LEMMA UpdateDisp ==
    ASSUME disp \in [Dispatcher -> State], NEW d \in Dispatcher,
           NEW s \in State, disp' = [disp EXCEPT ![d] = s]
    PROVE  disp' \in [Dispatcher -> State]
OBVIOUS

\* Every statement on outbox_events leaves rows of the declared shape.
LEMMA RowStep ==
    ASSUME row \in [Event -> Row], snap \in [Dispatcher -> [Event -> Nat]], [Next]_vars
    PROVE  row' \in [Event -> Row]
<1>1. ASSUME NEW e \in Event, Submit(e) PROVE row' \in [Event -> Row]
  <2>1. [Absent EXCEPT !.status = "pending", !.due = TRUE] \in Row
    BY DEF Absent, Row, RowStatus
  <2> QED
    BY <1>1, <2>1, UpdateRow DEF Submit
<1>2. ASSUME NEW e \in Event, BackoffElapses(e) PROVE row' \in [Event -> Row]
  BY <1>2 DEF BackoffElapses, Row
<1>3. ASSUME NEW e \in Event, LeaseExpires(e) PROVE row' \in [Event -> Row]
  BY <1>3 DEF LeaseExpires, Row
<1>4. ASSUME NEW d \in Dispatcher, ClaimBatch(d) PROVE row' \in [Event -> Row]
  <2>1. PICK batch \in SUBSET Event :
          row' = [e \in Event |->
                     IF e \in batch
                     THEN [row[e] EXCEPT !.status = "publishing",
                                         !.token = NewToken,
                                         !.expired = FALSE]
                     ELSE row[e]]
    BY <1>4, ClaimedBatch
  <2>2. NewToken \in Token
    BY <1>4, ClaimedBatch, NewTokenIsNew
  <2>3. \A r \in Row : [r EXCEPT !.status = "publishing", !.token = NewToken,
                                  !.expired = FALSE] \in Row
    BY <2>2 DEF Row, RowStatus
  <2> QED
    BY <2>1, <2>3
<1>5. ASSUME NEW d \in Dispatcher, MarkPublished(d) PROVE row' \in [Event -> Row]
  <2> DEFINE e == disp[d].cur
             r == [row[e] EXCEPT !.status = "published", !.token = NoToken, !.expired = FALSE]
  <2>1. e \in Event => r \in Row
    BY DEF Row, RowStatus
  <2>2. row' = [row EXCEPT ![e] = r] \/ UNCHANGED row
    BY <1>5 DEF MarkPublished
  <2> HIDE DEF e, r
  <2> QED
    BY <2>1, <2>2, UpdateRow
<1>6. ASSUME NEW d \in Dispatcher, NEW e, Release(d, e) PROVE row' \in [Event -> Row]
  <2>1. e \in Event => [status |-> "pending", token |-> NoToken, due |-> FALSE,
                        expired |-> FALSE, attempts |-> snap[d][e] + 1] \in Row
    BY DEF Row, RowStatus
  <2> QED
    BY <1>6, <2>1, UpdateRow DEF Release
<1>7. ASSUME NEW d \in Dispatcher, Clean(d) PROVE row' \in [Event -> Row]
  <2>1. \A r \in Row : [r EXCEPT !.status = "deleted"] \in Row
    BY DEF Row, RowStatus
  <2> QED
    BY <1>7, <2>1 DEF Clean
<1>8. ASSUME NEW d \in Dispatcher, DispatcherStep(d) PROVE row' \in [Event -> Row]
  BY <1>8, <1>4, <1>5, <1>6, <1>7
  DEF DispatcherStep, ClaimNothing, Connect, BatchDone, Publish, PublishFails, ReleaseOnStop,
      ReleaseEvent, ReleaseAll, LoopReturns, Restart
<1> QED
  BY <1>1, <1>2, <1>3, <1>8 DEF Next, Stop, Crash, DatabaseError, vars

\* runOnce, Stop, a restart and a crash leave dispatchers of the declared shape.
LEMMA DispStep ==
    ASSUME disp \in [Dispatcher -> State], [Next]_vars
    PROVE  disp' \in [Dispatcher -> State]
<1>1. ASSUME NEW d \in Dispatcher, ClaimBatch(d) PROVE disp' \in [Dispatcher -> State]
  <2>1. PICK batch \in SUBSET Event :
          disp' = [disp EXCEPT ![d] = [@ EXCEPT !.pc = "connect",
                                                !.token = NewToken,
                                                !.batch = batch]]
    BY <1>1, ClaimedBatch
  <2>2. NewToken \in Token
    BY <1>1, ClaimedBatch, NewTokenIsNew
  <2>3. [disp[d] EXCEPT !.pc = "connect", !.token = NewToken, !.batch = batch] \in State
    BY <2>2 DEF State, PC
  <2> QED
    BY <2>1, <2>3
<1>2. ASSUME NEW d \in Dispatcher, NEW pc \in PC, Goto(d, pc)
      PROVE  disp' \in [Dispatcher -> State]
  BY <1>2 DEF Goto, State
<1>3. ASSUME NEW d \in Dispatcher, Connect(d) PROVE disp' \in [Dispatcher -> State]
  <2>1. "releaseall" \in PC
    BY DEF PC
  <2>2. [disp[d] EXCEPT !.pc = "next", !.up = TRUE] \in State
    BY DEF State, PC
  <2> QED
    BY <1>2, <1>3, <2>1, <2>2 DEF Connect
<1>4. ASSUME NEW d \in Dispatcher, NEW e \in Event, Publish(d, e)
      PROVE  disp' \in [Dispatcher -> State]
  <2>1. [disp[d] EXCEPT !.pc = "mark", !.cur = e] \in State
    BY DEF State, PC
  <2> QED
    BY <1>4, <2>1 DEF Publish
<1>5. ASSUME NEW d \in Dispatcher, NEW e \in Event, PublishFails(d, e)
      PROVE  disp' \in [Dispatcher -> State]
  <2>1. [disp[d] EXCEPT !.pc = "release", !.cur = e, !.up = FALSE] \in State
    BY DEF State, PC
  <2> QED
    BY <1>5, <2>1 DEF PublishFails
<1>6. ASSUME NEW d \in Dispatcher, NEW e \in Event, ReleaseOnStop(d, e)
      PROVE  disp' \in [Dispatcher -> State]
  <2>1. [disp[d] EXCEPT !.pc = "release", !.cur = e] \in State
    BY DEF State, PC
  <2> QED
    BY <1>6, <2>1 DEF ReleaseOnStop
<1>7. ASSUME NEW d \in Dispatcher, Done(d, "next") PROVE disp' \in [Dispatcher -> State]
  <2> DEFINE rest == disp[d].batch \ {disp[d].cur}
  <2>1. disp' = [disp EXCEPT ![d] = [@ EXCEPT !.pc = "next", !.batch = rest, !.cur = NoEvent]]
    BY <1>7 DEF Done
  <2>2. rest \in SUBSET Event
    BY DEF State
  <2> HIDE DEF rest
  <2>3. [disp[d] EXCEPT !.pc = "next", !.batch = rest, !.cur = NoEvent] \in State
    BY <2>2 DEF State, PC
  <2> QED
    BY <2>1, <2>3
<1>8. ASSUME NEW d \in Dispatcher, NEW e \in Event, disp' = [disp EXCEPT ![d].batch = @ \ {e}]
      PROVE  disp' \in [Dispatcher -> State]
  BY <1>8 DEF State
<1>9. ASSUME NEW d \in Dispatcher, Stop(d) PROVE disp' \in [Dispatcher -> State]
  BY <1>9 DEF Stop, State
<1>10. /\ Fresh \in State
       /\ [Fresh EXCEPT !.pc = "stopped", !.stopping = TRUE] \in State
       /\ {"clean", "idle"} \subseteq PC
  BY DEF Fresh, State, PC
<1>11. ASSUME NEW d \in Dispatcher, DispatcherStep(d) PROVE disp' \in [Dispatcher -> State]
  <2>1. CASE ClaimNothing(d) \/ BatchDone(d) \/ Clean(d)
    BY <2>1, <1>2, <1>10 DEF ClaimNothing, BatchDone, Clean
  <2>2. CASE MarkPublished(d) \/ ReleaseEvent(d)
    BY <2>2, <1>7 DEF MarkPublished, ReleaseEvent
  <2>3. CASE ReleaseAll(d)
    <3>1. disp[d].batch \subseteq Event
      BY DEF State
    <3> QED
      BY <2>3, <3>1, <1>2, <1>8, <1>10 DEF ReleaseAll
  <2>4. CASE LoopReturns(d) \/ Restart(d)
    BY <2>4, <1>10, UpdateDisp DEF LoopReturns, Restart
  <2> QED
    BY <1>11, <1>1, <1>3, <1>4, <1>5, <1>6, <2>1, <2>2, <2>3, <2>4 DEF DispatcherStep
<1>12. ASSUME NEW d \in Dispatcher, Crash(d) PROVE disp' \in [Dispatcher -> State]
  BY <1>12, <1>10, UpdateDisp DEF Crash
<1>13. ASSUME NEW d \in Dispatcher, DatabaseError(d) PROVE disp' \in [Dispatcher -> State]
  <2>1. PICK e \in disp[d].batch :
          Done(d, "next") \/ disp' = [disp EXCEPT ![d].batch = @ \ {e}]
    BY <1>13 DEF DatabaseError
  <2>2. e \in Event
    BY <2>1 DEF State
  <2> QED
    BY <2>1, <2>2, <1>7, <1>8
<1>14. ASSUME UNCHANGED disp PROVE disp' \in [Dispatcher -> State]
  BY <1>14
<1> QED
  BY <1>9, <1>11, <1>12, <1>13, <1>14
  DEF Next, Submit, BackoffElapses, LeaseExpires, vars

\* Which actions change the variables other than row and disp.
LEMMA WhoWrites ==
    ASSUME [Next]_vars
    PROVE  /\ \/ \E d \in Dispatcher, e \in Event : Publish(d, e) \/ PublishFails(d, e)
              \/ delivered' = delivered
           /\ \/ \E d \in Dispatcher : ClaimBatch(d)
              \/ snap' = snap
           /\ \/ \E d \in Dispatcher : ClaimBatch(d) \/ Crash(d) \/ DatabaseError(d)
              \/ abandoned' = abandoned
BY DEF Next, DispatcherStep, Submit, BackoffElapses, LeaseExpires, ClaimBatch, ClaimNothing,
       Connect, BatchDone, Publish, PublishFails, ReleaseOnStop, MarkPublished, ReleaseEvent,
       ReleaseAll, Clean, LoopReturns, Restart, Stop, Crash, DatabaseError, vars

\* The attempt counts in memory, the broker, the ghost and the bound keep their types.
LEMMA OtherTypes ==
    ASSUME TypeOK, [Next]_vars
    PROVE  /\ snap' \in [Dispatcher -> [Event -> Nat]]
           /\ delivered' \subseteq Event
           /\ abandoned' \subseteq Event
           /\ faults' \in 0..MaxFaults
<1>1. faults' \in 0..MaxFaults
  <2>1. faults \in 0..MaxFaults
    BY DEF TypeOK
  <2>2. (faults < MaxFaults /\ faults' = faults + 1) \/ faults' = faults
    BY DEF Fault, Next, DispatcherStep, Submit, BackoffElapses, LeaseExpires, ClaimBatch, Tick,
           ClaimNothing, Connect, BatchDone, Publish, PublishFails, ReleaseOnStop,
           MarkPublished, ReleaseEvent, ReleaseAll, Clean, LoopReturns, Restart, Stop,
           Crash, DatabaseError, vars
  <2> QED
    BY <2>1, <2>2, OutboxAssumption
<1>2. delivered' \subseteq Event
  <2>1. delivered \subseteq Event
    BY DEF TypeOK
  <2> QED
    BY <2>1, WhoWrites DEF Publish, PublishFails
<1>3. snap' \in [Dispatcher -> [Event -> Nat]]
  <2>1. /\ snap \in [Dispatcher -> [Event -> Nat]]
        /\ [e \in Event |-> row[e].attempts] \in [Event -> Nat]
    BY DEF TypeOK, Row
  <2> QED
    BY <2>1, WhoWrites, ClaimedBatch
<1>4. abandoned' \subseteq Event
  <2>1. abandoned \subseteq Event /\ \A d \in Dispatcher : disp[d].batch \subseteq Event
    BY DEF TypeOK, State
  <2> QED
    BY <2>1, WhoWrites, ClaimedBatch DEF Crash, DatabaseError
<1> QED
  BY <1>1, <1>2, <1>3, <1>4
-----------------------------------------------------------------------------
\* The rows after ClaimBatch.
ClaimMove(e) ==
    /\ \E d \in Dispatcher : ClaimBatch(d)
    /\ Ready(e)
    /\ row'[e].status = "publishing"
    /\ row'[e].token = NewToken
    /\ row'[e].attempts = row[e].attempts

\* Everything else one step can do to a row: nothing that matters here (time
\* passes), CreateAndEnqueue, MarkPublished, ReleaseWithRetry, DeleteOldPublished.
Untouched(e) ==
    /\ row'[e].status = row[e].status
    /\ row'[e].token = row[e].token
    /\ row'[e].attempts = row[e].attempts
SubmitMove(e) ==
    /\ Submit(e)
    /\ row[e].status = "absent"
    /\ row'[e].status = "pending" /\ row'[e].token = NoToken /\ row'[e].attempts = 0
MarkMove(e) ==
    /\ \E d \in Dispatcher : /\ MarkPublished(d) /\ At(d, "mark")
                           /\ disp[d].cur = e /\ Owns(d, e)
    /\ row[e].status = "publishing"
    /\ row'[e].status = "published" /\ row'[e].token = NoToken
    /\ row'[e].attempts = row[e].attempts
ReleaseMove(e) ==
    /\ \E d \in Dispatcher : Owns(d, e) /\ row'[e].attempts = snap[d][e] + 1
    /\ row'[e].status = "pending" /\ row'[e].token = NoToken
DeleteMove(e) ==
    /\ row[e].status = "published"
    /\ row'[e].status = "deleted"
    /\ row'[e].token = row[e].token /\ row'[e].attempts = row[e].attempts

\* Every step, taken by whomever, does one of these to a given row.
LEMMA RowMoves ==
    ASSUME row \in [Event -> Row], [Next]_vars, NEW e \in Event
    PROVE  \/ ClaimMove(e) \/ Untouched(e) \/ SubmitMove(e)
           \/ MarkMove(e) \/ ReleaseMove(e) \/ DeleteMove(e)
<1>0. row[e] \in Row
  OBVIOUS
<1>1. ASSUME NEW f \in Event, Submit(f) PROVE Untouched(e) \/ SubmitMove(e)
  BY <1>1 DEF Submit, Absent, Untouched, SubmitMove
<1>2. ASSUME NEW f \in Event, BackoffElapses(f) PROVE Untouched(e)
  BY <1>0, <1>2 DEF BackoffElapses, Untouched, Row
<1>3. ASSUME NEW f \in Event, LeaseExpires(f) PROVE Untouched(e)
  BY <1>0, <1>3 DEF LeaseExpires, Untouched, Row
<1>4. ASSUME NEW d \in Dispatcher, ClaimBatch(d) PROVE ClaimMove(e) \/ Untouched(e)
  <2>1. PICK batch \in SUBSET { f \in Event : Ready(f) } :
          row' = [f \in Event |->
                     IF f \in batch
                     THEN [row[f] EXCEPT !.status = "publishing",
                                         !.token = NewToken,
                                         !.expired = FALSE]
                     ELSE row[f]]
    BY <1>4, ClaimedBatch
  <2>2. CASE e \in batch
    BY <1>0, <1>4, <2>1, <2>2 DEF ClaimMove, Row
  <2>3. CASE e \notin batch
    BY <2>1, <2>3 DEF Untouched
  <2> QED
    BY <2>2, <2>3
<1>5. ASSUME NEW d \in Dispatcher, MarkPublished(d) PROVE MarkMove(e) \/ Untouched(e)
  <2>1. CASE disp[d].cur = e /\ Owns(d, e) /\ row[e].status = "publishing"
    <3>1. row'[e] = [row[e] EXCEPT !.status = "published", !.token = NoToken,
                                   !.expired = FALSE]
      BY <1>5, <2>1 DEF MarkPublished
    <3> QED
      BY <1>0, <1>5, <2>1, <3>1 DEF MarkPublished, MarkMove, Row
  <2>2. CASE ~(disp[d].cur = e /\ Owns(d, e) /\ row[e].status = "publishing")
    <3>1. row'[e] = row[e]
      BY <1>5, <2>2 DEF MarkPublished
    <3> QED
      BY <3>1 DEF Untouched
  <2> QED
    BY <2>1, <2>2
<1>6. ASSUME NEW d \in Dispatcher, NEW f, Release(d, f) PROVE ReleaseMove(e) \/ Untouched(e)
  <2>1. CASE f = e /\ Owns(d, e)
    BY <1>6, <2>1 DEF Release, ReleaseMove
  <2>2. CASE ~(f = e /\ Owns(d, e))
    BY <1>6, <2>2 DEF Release, Untouched
  <2> QED
    BY <2>1, <2>2
<1>7. ASSUME NEW d \in Dispatcher, Clean(d) PROVE DeleteMove(e) \/ Untouched(e)
  BY <1>0, <1>7 DEF Clean, DeleteMove, Untouched, Row
<1>8. ASSUME UNCHANGED row PROVE Untouched(e)
  BY <1>8 DEF Untouched
<1>9. ASSUME NEW d \in Dispatcher, DispatcherStep(d)
      PROVE  \/ ClaimMove(e) \/ Untouched(e) \/ MarkMove(e)
             \/ ReleaseMove(e) \/ DeleteMove(e)
  BY <1>4, <1>5, <1>6, <1>7, <1>8, <1>9
  DEF DispatcherStep, ClaimNothing, Connect, BatchDone, Publish, PublishFails, ReleaseOnStop,
      ReleaseEvent, ReleaseAll, LoopReturns, Restart
<1> QED
  BY <1>1, <1>2, <1>3, <1>8, <1>9 DEF Next, Stop, Crash, DatabaseError, vars

\* Unless it claims, a dispatcher keeps or forgets its token, works through its
\* batch and is about to mark only what it has just had confirmed.
Carries(c) ==
    /\ disp'[c].token \in { disp[c].token, NoToken }
    /\ disp'[c].batch \subseteq disp[c].batch
    /\ disp'[c].pc = "mark" => \/ disp[c].pc = "mark" /\ disp'[c].cur = disp[c].cur
                               \/ disp'[c].cur \in delivered'

\* What any step, its own or of another instance, does to a dispatcher.
LEMMA DispMoves ==
    ASSUME disp \in [Dispatcher -> State], [Next]_vars, NEW c \in Dispatcher
    PROVE  ClaimBatch(c) \/ Carries(c)
<1>0. disp[c] \in State
  OBVIOUS
<1>1. ASSUME NEW d \in Dispatcher, ClaimBatch(d) PROVE ClaimBatch(c) \/ Carries(c)
  BY <1>1, ClaimedBatch DEF Carries
<1>2. ASSUME NEW d \in Dispatcher, NEW pc \in PC \ {"mark"}, Goto(d, pc) PROVE Carries(c)
  BY <1>0, <1>2 DEF Goto, Carries, State
<1>3. ASSUME NEW d \in Dispatcher, Connect(d) PROVE Carries(c)
  <2>1. "releaseall" \in PC \ {"mark"}
    BY DEF PC
  <2>2. ASSUME disp' = [disp EXCEPT ![d] = [@ EXCEPT !.pc = "next", !.up = TRUE]]
        PROVE  Carries(c)
    BY <1>0, <2>2 DEF Carries, State
  <2> QED
    BY <1>2, <1>3, <2>1, <2>2 DEF Connect
<1>4. ASSUME NEW d \in Dispatcher, NEW e \in Event, Publish(d, e) PROVE Carries(c)
  BY <1>0, <1>4 DEF Publish, Carries, State
<1>5. ASSUME NEW d \in Dispatcher, NEW e \in Event, PublishFails(d, e) PROVE Carries(c)
  <2>1. disp' = [disp EXCEPT ![d] = [@ EXCEPT !.pc = "release", !.cur = e, !.up = FALSE]]
    BY <1>5 DEF PublishFails
  <2> QED
    BY <1>0, <2>1 DEF Carries, State
<1>6. ASSUME NEW d \in Dispatcher, NEW e \in Event, ReleaseOnStop(d, e) PROVE Carries(c)
  BY <1>0, <1>6 DEF ReleaseOnStop, Carries, State
<1>7. ASSUME NEW d \in Dispatcher, Done(d, "next") PROVE Carries(c)
  BY <1>0, <1>7 DEF Done, Carries, State
<1>8. ASSUME NEW d \in Dispatcher, NEW e, disp' = [disp EXCEPT ![d].batch = @ \ {e}]
      PROVE  Carries(c)
  BY <1>0, <1>8 DEF Carries, State
<1>9. ASSUME NEW d \in Dispatcher, Stop(d) PROVE Carries(c)
  BY <1>0, <1>9 DEF Stop, Carries, State
<1>10. ASSUME NEW d \in Dispatcher, NEW s, s.token = NoToken, s.batch = {}, s.pc # "mark",
              disp' = [disp EXCEPT ![d] = s]
       PROVE  Carries(c)
  BY <1>10 DEF Carries
<1>11. /\ Fresh.token = NoToken /\ Fresh.batch = {} /\ Fresh.pc # "mark"
       /\ [Fresh EXCEPT !.pc = "stopped", !.stopping = TRUE].token = NoToken
       /\ [Fresh EXCEPT !.pc = "stopped", !.stopping = TRUE].batch = {}
       /\ [Fresh EXCEPT !.pc = "stopped", !.stopping = TRUE].pc # "mark"
       /\ {"clean", "idle"} \subseteq PC \ {"mark"}
  BY DEF Fresh, PC
<1>12. ASSUME UNCHANGED disp PROVE Carries(c)
  BY <1>12 DEF Carries
<1>13. ASSUME NEW d \in Dispatcher, DispatcherStep(d) PROVE ClaimBatch(c) \/ Carries(c)
  <2>1. CASE ClaimNothing(d) \/ BatchDone(d) \/ Clean(d)
    BY <2>1, <1>2, <1>11 DEF ClaimNothing, BatchDone, Clean
  <2>2. CASE MarkPublished(d) \/ ReleaseEvent(d)
    BY <2>2, <1>7 DEF MarkPublished, ReleaseEvent
  <2>3. CASE ReleaseAll(d)
    BY <2>3, <1>2, <1>8, <1>11 DEF ReleaseAll
  <2>4. CASE LoopReturns(d) \/ Restart(d)
    BY <2>4, <1>10, <1>11 DEF LoopReturns, Restart
  <2> QED
    BY <1>1, <1>3, <1>4, <1>5, <1>6, <1>13, <2>1, <2>2, <2>3, <2>4 DEF DispatcherStep
<1>14. ASSUME NEW d \in Dispatcher, Crash(d) PROVE Carries(c)
  BY <1>10, <1>11, <1>14 DEF Crash
<1>15. ASSUME NEW d \in Dispatcher, DatabaseError(d) PROVE Carries(c)
  BY <1>7, <1>8, <1>15 DEF DatabaseError
<1> QED
  BY <1>9, <1>12, <1>13, <1>14, <1>15
  DEF Next, Submit, BackoffElapses, LeaseExpires, vars
-----------------------------------------------------------------------------
\* Claims in force have different tokens.
TokensDiffer ==
    \A c, d \in Dispatcher :
        disp[c].token # NoToken /\ disp[c].token = disp[d].token => c = d

\* Only a row that is being published carries a token.
TokenMeansPublishing ==
    \A e \in Event : row[e].token # NoToken => row[e].status = "publishing"

\* A dispatcher that still owns a row knows its attempt_count.
SnapIsCurrent ==
    \A d \in Dispatcher, e \in Event : Owns(d, e) => snap[d][e] = row[e].attempts

\* What is about to be marked has been confirmed.
MarkAfterConfirm ==
    \A d \in Dispatcher : At(d, "mark") => disp[d].cur \in delivered

\* The broker and the batches know only events that were submitted.
OnlySubmitted ==
    /\ \A e \in Event : row[e].status = "absent" => row[e].attempts = 0
    /\ \A e \in delivered : row[e].status # "absent"
    /\ \A d \in Dispatcher : \A e \in disp[d].batch : row[e].status # "absent"

Inv == /\ TypeOK
       /\ TokensDiffer
       /\ TokenMeansPublishing
       /\ SnapIsCurrent
       /\ MarkAfterConfirm
       /\ OnlySubmitted
       /\ PublishedWasDelivered

\* An empty table and freshly started instances satisfy the invariant.
LEMMA InitInv == Init => Inv
<1> SUFFICES ASSUME Init PROVE Inv
  OBVIOUS
<1>1. TypeOK
  BY OutboxAssumption DEF Init, TypeOK, Absent, Fresh, Row, RowStatus, State, PC
<1>2. /\ \A e \in Event : row[e] = Absent
      /\ \A d \in Dispatcher : disp[d] = Fresh
      /\ delivered = {}
  BY DEF Init
<1> QED
  BY <1>1, <1>2 DEF Inv, TokensDiffer, TokenMeansPublishing, SnapIsCurrent, MarkAfterConfirm,
     OnlySubmitted, PublishedWasDelivered, Absent, Fresh, Owns, At

\* No step leaves the types.
LEMMA TypeStep == ASSUME TypeOK, [Next]_vars PROVE TypeOK'
<1>1. /\ row \in [Event -> Row]
      /\ snap \in [Dispatcher -> [Event -> Nat]]
      /\ disp \in [Dispatcher -> State]
  BY DEF TypeOK
<1> QED
  BY <1>1, RowStep, DispStep, OtherTypes DEF TypeOK

\* Every step of the dispatchers, of time and of the faults keeps the invariant.
LEMMA InvStep == ASSUME Inv, [Next]_vars PROVE Inv'
<1>1. /\ row \in [Event -> Row]
      /\ disp \in [Dispatcher -> State]
      /\ delivered \subseteq Event
      /\ snap \in [Dispatcher -> [Event -> Nat]]
  BY DEF Inv, TypeOK
<1>2. TypeOK'
  BY TypeStep DEF Inv
<1>3. \A e \in Event : \/ ClaimMove(e) \/ Untouched(e) \/ SubmitMove(e)
                       \/ MarkMove(e) \/ ReleaseMove(e) \/ DeleteMove(e)
  BY <1>1, RowMoves
<1>4. \A d \in Dispatcher : ClaimBatch(d) \/ Carries(d)
  BY <1>1, DispMoves
<1>5. delivered \subseteq delivered'
  BY WhoWrites DEF Publish, PublishFails
<1>6. \A e \in Event : row'[e].status = "absent" => Untouched(e)
  BY <1>3 DEF ClaimMove, SubmitMove, MarkMove, ReleaseMove, DeleteMove
<1>7. ASSUME NEW d \in Dispatcher, ClaimBatch(d)
      PROVE  /\ disp'[d].token = NewToken
             /\ disp'[d].pc # "mark"
             /\ \A e \in disp'[d].batch : e \in Event /\ Ready(e)
             /\ \A c \in Dispatcher \ {d} : disp'[c] = disp[c] /\ snap'[c] = snap[c]
             /\ \A e \in Event : snap'[d][e] = row[e].attempts
  <2>1. PICK batch \in SUBSET { e \in Event : Ready(e) } :
           /\ disp' = [disp EXCEPT ![d] = [@ EXCEPT !.pc = "connect",
                                                    !.token = NewToken,
                                                    !.batch = batch]]
           /\ snap' = [snap EXCEPT ![d] = [e \in Event |-> row[e].attempts]]
    BY <1>7, ClaimedBatch
  <2>2. disp[d] \in State /\ disp'[d] = [disp[d] EXCEPT !.pc = "connect", !.token = NewToken,
                                                        !.batch = batch]
    BY <1>1, <2>1
  <2>3. /\ disp'[d].token = NewToken
        /\ disp'[d].pc = "connect"
        /\ disp'[d].batch = batch
    BY <2>2 DEF State
  <2> QED
    BY <1>1, <2>1, <2>3
<1>8. TokensDiffer'
  <2>1. CASE \E d \in Dispatcher : ClaimBatch(d)
    <3>1. PICK d \in Dispatcher : ClaimBatch(d)
      BY <2>1
    <3>2. \A c \in Dispatcher : disp[c].token # NewToken
      BY <3>1, ClaimedBatch, NewTokenIsNew
    <3> QED
      BY <1>7, <3>1, <3>2 DEF Inv, TokensDiffer
  <2>2. CASE \A d \in Dispatcher : Carries(d)
    BY <2>2 DEF Inv, TokensDiffer, Carries
  <2> QED
    BY <1>4, <2>1, <2>2
<1>9. TokenMeansPublishing'
  BY <1>3 DEF Inv, TokenMeansPublishing, ClaimMove, Untouched, SubmitMove, MarkMove,
     ReleaseMove, DeleteMove
<1>10. SnapIsCurrent'
  <2> SUFFICES ASSUME NEW c \in Dispatcher, NEW e \in Event, Owns(c, e)'
               PROVE  snap'[c][e] = row'[e].attempts
    BY DEF SnapIsCurrent
  <2>1. row'[e].token # NoToken /\ row'[e].token = disp'[c].token
    BY DEF Owns
  <2>2. ClaimMove(e) \/ Untouched(e)
    BY <1>3, <2>1 DEF SubmitMove, MarkMove, ReleaseMove, DeleteMove, Inv, TokenMeansPublishing
  <2>3. row'[e].attempts = row[e].attempts
    BY <2>2 DEF ClaimMove, Untouched
  <2>4. CASE \E d \in Dispatcher : ClaimBatch(d)
    <3>1. PICK d \in Dispatcher : ClaimBatch(d)
      BY <2>4
    <3>2. CASE c = d
      BY <1>7, <2>3, <3>1, <3>2
    <3>3. CASE c # d
      <4>1. disp[c].token # NewToken
        BY <3>1, ClaimedBatch, NewTokenIsNew
      <4>2. disp'[c] = disp[c] /\ snap'[c] = snap[c]
        BY <1>7, <3>1, <3>3
      <4>3. Untouched(e)
        BY <2>1, <2>2, <4>1, <4>2 DEF ClaimMove
      <4>4. Owns(c, e)
        BY <2>1, <4>2, <4>3 DEF Owns, Untouched
      <4> QED
        BY <2>3, <4>2, <4>4 DEF Inv, SnapIsCurrent
    <3> QED
      BY <3>2, <3>3
  <2>5. CASE \A d \in Dispatcher : ~ClaimBatch(d)
    <3>1. snap' = snap
      BY <2>5, WhoWrites
    <3>2. disp'[c].token = disp[c].token
      BY <1>4, <2>1, <2>5 DEF Carries
    <3>3. Owns(c, e)
      BY <2>1, <2>2, <2>5, <3>2 DEF Owns, Untouched, ClaimMove
    <3> QED
      BY <2>3, <3>1, <3>3 DEF Inv, SnapIsCurrent
  <2> QED
    BY <2>4, <2>5
<1>11. MarkAfterConfirm'
  BY <1>4, <1>5, <1>7 DEF Inv, MarkAfterConfirm, At, Carries
<1>12. OnlySubmitted'
  <2>1. \A e \in Event : row'[e].status = "absent" => row'[e].attempts = 0
    BY <1>6 DEF Untouched, Inv, OnlySubmitted
  <2>2. \A e \in delivered' : row'[e].status # "absent"
    <3>1. \A e \in delivered' :
             e \in delivered \/ \E d \in Dispatcher : e \in disp[d].batch
      BY WhoWrites DEF Publish, PublishFails
    <3>2. \A d \in Dispatcher : disp[d].batch \subseteq Event
      BY <1>1 DEF State
    <3> QED
      BY <1>1, <1>6, <3>1, <3>2 DEF Untouched, Inv, OnlySubmitted
  <2>3. ASSUME NEW d \in Dispatcher, NEW e \in disp'[d].batch PROVE row'[e].status # "absent"
    <3>1. e \in disp[d].batch \/ (e \in Event /\ Ready(e))
      BY <1>4, <1>7 DEF Carries
    <3>2. e \in Event
      BY <1>1, <3>1 DEF State
    <3> QED
      BY <1>6, <3>1, <3>2 DEF Untouched, Inv, OnlySubmitted, Ready
  <2> QED
    BY <2>1, <2>2, <2>3 DEF OnlySubmitted
<1>13. PublishedWasDelivered'
  BY <1>3, <1>5 DEF Inv, PublishedWasDelivered, MarkAfterConfirm, ClaimMove, Untouched,
     SubmitMove, MarkMove, ReleaseMove, DeleteMove
<1> QED
  BY <1>2, <1>8, <1>9, <1>10, <1>11, <1>12, <1>13 DEF Inv

\* The invariant holds in every reachable state, for any number of API instances.
THEOREM Invariance == Spec => []Inv
BY InitInv, InvStep, PTL DEF Spec

\* Rows, dispatchers and counters keep their types in every reachable state.
THEOREM TypeCorrect == Spec => []TypeOK
<1>1. Inv => TypeOK
  BY DEF Inv
<1> QED
  BY <1>1, Invariance, PTL

\* An event is marked published, and deleted, only after the broker confirmed it
\* (dispatcher.go: MarkPublished is called after publishOutbox returned nil).
THEOREM PublishedCorrect == Spec => []PublishedWasDelivered
<1>1. Inv => PublishedWasDelivered
  BY DEF Inv
<1> QED
  BY <1>1, Invariance, PTL

\* A takeover in ClaimBatch invalidates the token of the overtaken instance.
THEOREM OneHolderCorrect == Spec => []OneHolder
<1>1. Inv => OneHolder
  BY DEF Inv, TokensDiffer, OneHolder, Owns
<1> QED
  BY <1>1, Invariance, PTL

\* The lease token in the WHERE clauses of MarkPublished and ReleaseWithRetry keeps
\* a late instance from undoing a publish or lowering attempt_count.
THEOREM TakenBackCorrect == Spec => NeverTakenBack
<1>1. ASSUME Inv, [Next]_vars
      PROVE  \A e \in Event :
                /\ row[e].status = "published" => row'[e].status \in {"published", "deleted"}
                /\ row'[e].attempts >= row[e].attempts
  <2> SUFFICES ASSUME NEW e \in Event
               PROVE  /\ row[e].status = "published" =>
                            row'[e].status \in {"published", "deleted"}
                      /\ row'[e].attempts >= row[e].attempts
    OBVIOUS
  <2>1. row \in [Event -> Row] /\ row[e].attempts \in Nat
    BY <1>1 DEF Inv, TypeOK, Row
  <2>2. CASE ReleaseMove(e)
    <3>1. row[e].status # "published" /\ row'[e].attempts = row[e].attempts + 1
      BY <1>1, <2>2 DEF ReleaseMove, Owns, Inv, TokenMeansPublishing, SnapIsCurrent
    <3> QED
      BY <2>1, <3>1
  <2>3. CASE SubmitMove(e)
    BY <1>1, <2>3 DEF SubmitMove, Inv, OnlySubmitted
  <2>4. CASE ClaimMove(e) \/ Untouched(e) \/ MarkMove(e) \/ DeleteMove(e)
    BY <2>1, <2>4 DEF ClaimMove, Untouched, MarkMove, DeleteMove, Ready
  <2> QED
    BY <1>1, <2>1, <2>2, <2>3, <2>4, RowMoves
<1> QED
  BY <1>1, Invariance, PTL DEF Spec, NeverTakenBack

-----------------------------------------------------------------------------
\* runOnce: the event at hand is one of the batch, and between two batches there
\* is none left.
BatchShape ==
    \A d \in Dispatcher :
        /\ disp[d].pc \in {"mark", "release"} => disp[d].cur \in disp[d].batch
        /\ disp[d].pc \in {"idle", "clean", "stopped"} => disp[d].batch = {}

\* No step of runOnce and no fault leaves a batch of another shape.
LEMMA ShapeStep ==
    ASSUME disp \in [Dispatcher -> State], BatchShape, [Next]_vars
    PROVE  BatchShape'
<1> DEFINE Shape(s) == /\ s.pc \in {"mark", "release"} => s.cur \in s.batch
                       /\ s.pc \in {"idle", "clean", "stopped"} => s.batch = {}
<1>1. ASSUME NEW d \in Dispatcher, NEW s, Shape(s), disp' = [disp EXCEPT ![d] = s]
      PROVE  BatchShape'
  BY <1>1 DEF BatchShape
<1>2. ASSUME NEW d \in Dispatcher, ClaimBatch(d) PROVE BatchShape'
  <2>1. PICK batch \in SUBSET Event :
          disp' = [disp EXCEPT ![d] = [@ EXCEPT !.pc = "connect",
                                                !.token = NewToken,
                                                !.batch = batch]]
    BY <1>2, ClaimedBatch
  <2>2. Shape([disp[d] EXCEPT !.pc = "connect", !.token = NewToken, !.batch = batch])
    BY DEF State
  <2> QED
    BY <1>1, <2>1, <2>2
<1>3. ASSUME NEW d \in Dispatcher, NEW pc \in {"clean", "idle", "releaseall"}, Goto(d, pc),
             pc = "releaseall" \/ disp[d].batch = {}
      PROVE  BatchShape'
  <2>1. Shape([disp[d] EXCEPT !.pc = pc])
    BY <1>3 DEF State
  <2> QED
    BY <1>1, <1>3, <2>1 DEF Goto
<1>4. ASSUME NEW d \in Dispatcher, Connect(d) PROVE BatchShape'
  <2>1. Shape([disp[d] EXCEPT !.pc = "next", !.up = TRUE])
    BY DEF State
  <2>2. CASE disp' = [disp EXCEPT ![d] = [@ EXCEPT !.pc = "next", !.up = TRUE]]
    BY <1>1, <2>1, <2>2
  <2> QED
    BY <1>3, <1>4, <2>2 DEF Connect
<1>5. ASSUME NEW d \in Dispatcher, NEW e \in disp[d].batch,
             Publish(d, e) \/ PublishFails(d, e) \/ ReleaseOnStop(d, e)
      PROVE  BatchShape'
  <2>1. /\ Shape([disp[d] EXCEPT !.pc = "mark", !.cur = e])
        /\ Shape([disp[d] EXCEPT !.pc = "release", !.cur = e, !.up = FALSE])
        /\ Shape([disp[d] EXCEPT !.pc = "release", !.cur = e])
    BY DEF State
  <2>2. CASE Publish(d, e)
    BY <1>1, <2>1, <2>2 DEF Publish
  <2>3. CASE PublishFails(d, e)
    BY <1>1, <2>1, <2>3 DEF PublishFails
  <2>4. CASE ReleaseOnStop(d, e)
    BY <1>1, <2>1, <2>4 DEF ReleaseOnStop
  <2> QED
    BY <1>5, <2>2, <2>3, <2>4
<1>6. ASSUME NEW d \in Dispatcher, Done(d, "next") PROVE BatchShape'
  <2> DEFINE rest == disp[d].batch \ {disp[d].cur}
  <2>1. Shape([disp[d] EXCEPT !.pc = "next", !.batch = rest, !.cur = NoEvent])
    BY DEF State
  <2> QED
    BY <1>1, <1>6, <2>1 DEF Done
<1>7. ASSUME NEW d \in Dispatcher, NEW e, At(d, "releaseall"),
             disp' = [disp EXCEPT ![d].batch = @ \ {e}]
      PROVE  BatchShape'
  <2>1. Shape([disp[d] EXCEPT !.batch = @ \ {e}])
    BY <1>7 DEF State, At
  <2> QED
    BY <1>1, <1>7, <2>1
<1>8. ASSUME NEW d \in Dispatcher, Stop(d) PROVE BatchShape'
  <2>1. Shape([disp[d] EXCEPT !.stopping = TRUE])
    BY DEF State, BatchShape
  <2> QED
    BY <1>1, <1>8, <2>1 DEF Stop
<1>9. Shape(Fresh) /\ Shape([Fresh EXCEPT !.pc = "stopped", !.stopping = TRUE])
  BY DEF Fresh
<1>10. ASSUME NEW d \in Dispatcher, LoopReturns(d) \/ Restart(d) \/ Crash(d)
       PROVE  BatchShape'
  BY <1>1, <1>9, <1>10 DEF LoopReturns, Restart, Crash
<1>11. ASSUME UNCHANGED disp PROVE BatchShape'
  BY <1>11 DEF BatchShape
<1>12. ASSUME NEW d \in Dispatcher, ClaimNothing(d) \/ BatchDone(d) \/ Clean(d)
       PROVE  BatchShape'
  BY <1>3, <1>12 DEF ClaimNothing, BatchDone, Clean, At, BatchShape
<1>13. ASSUME NEW d \in Dispatcher, MarkPublished(d) \/ ReleaseEvent(d) PROVE BatchShape'
  BY <1>6, <1>13 DEF MarkPublished, ReleaseEvent
<1>14. ASSUME NEW d \in Dispatcher, ReleaseAll(d) PROVE BatchShape'
  BY <1>3, <1>7, <1>14 DEF ReleaseAll
<1>15. ASSUME NEW d \in Dispatcher, DatabaseError(d) PROVE BatchShape'
  BY <1>6, <1>7, <1>15 DEF DatabaseError
<1>16. ASSUME NEW d \in Dispatcher, NEW e \in Event,
              Publish(d, e) \/ PublishFails(d, e) \/ ReleaseOnStop(d, e)
       PROVE  BatchShape'
  BY <1>5, <1>16 DEF Publish, PublishFails, ReleaseOnStop
<1> QED
  BY <1>2, <1>4, <1>8, <1>10, <1>11, <1>12, <1>13, <1>14, <1>15, <1>16
  DEF Next, DispatcherStep, Submit, BackoffElapses, LeaseExpires, vars

\* Whoever holds the lease of an event and works on it keeps both, or settles the
\* row, or leaves the event behind in a crash or with a failed call.
LEMMA HolderStep ==
    ASSUME row \in [Event -> Row], disp \in [Dispatcher -> State], BatchShape,
           [Next]_vars, \A d \in Dispatcher : ~ClaimBatch(d),
           NEW c \in Dispatcher, NEW e \in Event,
           Owns(c, e), e \in disp[c].batch, row[e].status = "publishing"
    PROVE  \/ (disp'[c].token = disp[c].token /\ e \in disp'[c].batch)
           \/ row'[e].status # "publishing"
           \/ e \in abandoned'
<1> DEFINE Keeps == disp'[c].token = disp[c].token /\ e \in disp'[c].batch
<1>0. disp[c] \in State /\ row[e] \in Row
  OBVIOUS
<1>1. ASSUME NEW d \in Dispatcher, NEW pc \in PC, Goto(d, pc) PROVE Keeps
  BY <1>0, <1>1 DEF Goto, State
<1>2. ASSUME NEW d \in Dispatcher, Connect(d) PROVE Keeps
  <2>1. "releaseall" \in PC
    BY DEF PC
  <2>2. CASE disp' = [disp EXCEPT ![d] = [@ EXCEPT !.pc = "next", !.up = TRUE]]
    BY <1>0, <2>2 DEF State
  <2> QED
    BY <1>1, <1>2, <2>1, <2>2 DEF Connect
<1>3. ASSUME NEW d \in Dispatcher, NEW f \in Event,
             Publish(d, f) \/ PublishFails(d, f) \/ ReleaseOnStop(d, f)
      PROVE  Keeps
  <2>1. CASE Publish(d, f)
    BY <1>0, <2>1 DEF Publish, State
  <2>2. CASE PublishFails(d, f)
    <3>1. disp' = [disp EXCEPT ![d] = [@ EXCEPT !.pc = "release", !.cur = f, !.up = FALSE]]
      BY <2>2 DEF PublishFails
    <3> QED
      BY <1>0, <3>1 DEF State
  <2>3. CASE ReleaseOnStop(d, f)
    BY <1>0, <2>3 DEF ReleaseOnStop, State
  <2> QED
    BY <1>3, <2>1, <2>2, <2>3
<1>4. ASSUME NEW d \in Dispatcher, Done(d, "next"), d # c \/ disp[d].cur # e PROVE Keeps
  BY <1>0, <1>4 DEF Done, State
<1>5. ASSUME NEW d \in Dispatcher, MarkPublished(d) PROVE Keeps \/ row'[e].status # "publishing"
  <2>1. CASE d = c /\ disp[d].cur = e
    <3>1. row'[e] = [row[e] EXCEPT !.status = "published", !.token = NoToken,
                                   !.expired = FALSE]
      BY <1>5, <2>1 DEF MarkPublished
    <3> QED
      BY <1>0, <3>1 DEF Row
  <2> QED
    BY <1>4, <1>5, <2>1 DEF MarkPublished
<1>6. ASSUME Release(c, e) PROVE row'[e].status # "publishing"
  BY <1>6 DEF Release
<1>7. ASSUME NEW d \in Dispatcher, ReleaseEvent(d) PROVE Keeps \/ row'[e].status # "publishing"
  BY <1>4, <1>6, <1>7 DEF ReleaseEvent
<1>8. ASSUME NEW d \in Dispatcher, NEW f, disp' = [disp EXCEPT ![d].batch = @ \ {f}],
             d # c \/ f # e
      PROVE  Keeps
  BY <1>0, <1>8 DEF State
<1>9. ASSUME NEW d \in Dispatcher, ReleaseAll(d) PROVE Keeps \/ row'[e].status # "publishing"
  <2>1. "idle" \in PC
    BY DEF PC
  <2> QED
    BY <1>1, <1>6, <1>8, <1>9, <2>1 DEF ReleaseAll
<1>10. ASSUME NEW d \in Dispatcher, LoopReturns(d) \/ Restart(d) PROVE Keeps
  <2>1. d # c
    BY <1>10 DEF LoopReturns, Restart, At, BatchShape
  <2> QED
    BY <1>10, <2>1 DEF LoopReturns, Restart
<1>11. ASSUME NEW d \in Dispatcher, Crash(d) PROVE Keeps \/ e \in abandoned'
  BY <1>0, <1>11 DEF Crash
<1>12. ASSUME NEW d \in Dispatcher, DatabaseError(d) PROVE Keeps \/ e \in abandoned'
  <2>1. PICK f \in disp[d].batch :
          /\ abandoned' = abandoned \union { g \in {f} : Owns(d, g) }
          /\ \/ disp[d].cur = f /\ Done(d, "next")
             \/ disp' = [disp EXCEPT ![d].batch = @ \ {f}]
    BY <1>12 DEF DatabaseError
  <2>2. CASE d = c /\ f = e
    BY <2>1, <2>2
  <2> QED
    BY <1>4, <1>8, <2>1, <2>2
<1>13. ASSUME NEW d \in Dispatcher, Stop(d) PROVE Keeps
  BY <1>0, <1>13 DEF Stop, State
<1>14. ASSUME NEW d \in Dispatcher, ClaimNothing(d) \/ BatchDone(d) \/ Clean(d) PROVE Keeps
  <2>1. {"clean", "idle"} \subseteq PC
    BY DEF PC
  <2> QED
    BY <1>1, <1>14, <2>1 DEF ClaimNothing, BatchDone, Clean
<1>15. ASSUME UNCHANGED disp PROVE Keeps
  BY <1>15
<1> QED
  BY <1>2, <1>3, <1>5, <1>7, <1>9, <1>10, <1>11, <1>12, <1>13, <1>14, <1>15
  DEF Next, DispatcherStep, Submit, BackoffElapses, LeaseExpires, vars

\* A claim leaves the leases of the others alone, and nobody claims with a batch
\* in hand.
LEMMA OrphanStep ==
    ASSUME Inv, BatchShape, NoOrphanLease, [Next]_vars
    PROVE  NoOrphanLease'
<1>1. row \in [Event -> Row] /\ disp \in [Dispatcher -> State]
  BY DEF Inv, TypeOK
<1> SUFFICES ASSUME NEW e \in Event, row'[e].status = "publishing"
             PROVE  Working(e)' \/ e \in abandoned'
  BY DEF NoOrphanLease
<1>2. CASE \E d \in Dispatcher : ClaimBatch(d)
  <2>1. PICK d \in Dispatcher : ClaimBatch(d)
    BY <1>2
  <2>2. PICK batch \in SUBSET { f \in Event : Ready(f) } :
           /\ row' = [f \in Event |->
                         IF f \in batch
                         THEN [row[f] EXCEPT !.status = "publishing",
                                             !.token = NewToken,
                                             !.expired = FALSE]
                         ELSE row[f]]
           /\ disp' = [disp EXCEPT ![d] = [@ EXCEPT !.pc = "connect",
                                                    !.token = NewToken,
                                                    !.batch = batch]]
           /\ abandoned' = abandoned \ batch
    BY <2>1, ClaimedBatch
  <2>3. NewToken # NoToken
    BY <2>1, ClaimedBatch, NewTokenIsNew
  <2>4. CASE e \in batch
    <3>1. row[e] \in Row /\ row'[e] = [row[e] EXCEPT !.status = "publishing",
                                                     !.token = NewToken, !.expired = FALSE]
      BY <1>1, <2>2, <2>4
    <3>2. row'[e].token = NewToken
      BY <3>1 DEF Row
    <3>3. disp[d] \in State /\ disp'[d] = [disp[d] EXCEPT !.pc = "connect", !.token = NewToken,
                                                          !.batch = batch]
      BY <1>1, <2>2
    <3>4. disp'[d].token = NewToken /\ disp'[d].batch = batch
      BY <3>3 DEF State
    <3> QED
      BY <2>3, <2>4, <3>2, <3>4 DEF Working, Owns
  <2>5. CASE e \notin batch
    <3>1. row'[e] = row[e]
      BY <2>2, <2>5
    <3>2. CASE e \in abandoned
      BY <2>2, <2>5, <3>2
    <3>3. CASE Working(e)
      <4>1. PICK c \in Dispatcher : Owns(c, e) /\ e \in disp[c].batch
        BY <3>3 DEF Working
      <4>2. c # d
        BY <2>1, <4>1 DEF ClaimBatch, At, BatchShape
      <4>3. disp'[c] = disp[c]
        BY <1>1, <2>2, <4>2
      <4> QED
        BY <3>1, <4>1, <4>3 DEF Working, Owns
    <3> QED
      BY <3>1, <3>2, <3>3 DEF NoOrphanLease
  <2> QED
    BY <2>4, <2>5
<1>3. CASE \A d \in Dispatcher : ~ClaimBatch(d)
  <2>1. Untouched(e)
    BY <1>1, <1>3, RowMoves DEF ClaimMove, SubmitMove, MarkMove, ReleaseMove, DeleteMove
  <2>2. row[e].status = "publishing" /\ row'[e].token = row[e].token
    BY <2>1 DEF Untouched
  <2>3. abandoned \subseteq abandoned'
    BY <1>3, WhoWrites DEF Crash, DatabaseError
  <2>4. CASE Working(e)
    <3>1. PICK c \in Dispatcher : Owns(c, e) /\ e \in disp[c].batch
      BY <2>4 DEF Working
    <3>2. (disp'[c].token = disp[c].token /\ e \in disp'[c].batch) \/ e \in abandoned'
      BY <1>1, <1>3, <2>2, <3>1, HolderStep
    <3> QED
      BY <2>2, <3>1, <3>2 DEF Working, Owns
  <2> QED
    BY <2>2, <2>3, <2>4 DEF NoOrphanLease
<1> QED
  BY <1>2, <1>3

\* Every lease that nobody works under was left by a crash or a failed database
\* call (runOnce gives back what a stop or an unreachable broker leaves over).
THEOREM OrphanCorrect == Spec => []NoOrphanLease
<1> DEFINE OInv == BatchShape /\ NoOrphanLease
<1>1. Init => OInv
  <2> SUFFICES ASSUME Init PROVE OInv
    OBVIOUS
  <2>1. /\ \A e \in Event : row[e] = Absent
        /\ \A d \in Dispatcher : disp[d] = Fresh
    BY DEF Init
  <2> QED
    BY <2>1 DEF BatchShape, NoOrphanLease, Absent, Fresh
<1>2. ASSUME Inv, OInv, [Next]_vars PROVE OInv'
  <2>1. disp \in [Dispatcher -> State]
    BY <1>2 DEF Inv, TypeOK
  <2> QED
    BY <1>2, <2>1, ShapeStep, OrphanStep
<1>3. OInv => NoOrphanLease
  OBVIOUS
<1> QED
  BY <1>1, <1>2, <1>3, Invariance, PTL DEF Spec

\* Leases, batches and takeovers implement the outbox as AtLeastOnce states it.
THEOREM Implements == Spec => Abstract!Spec
<1>1. ASSUME Init PROVE Abstract!Init
  <2>1. \A e \in Event : row[e].status = "absent"
    BY <1>1 DEF Init, Absent
  <2>2. \A e \in Event : Phase(e) = "none"
    BY <2>1 DEF Phase
  <2> QED
    BY <2>2 DEF Abstract!Init, phases
<1>2. ASSUME Inv, [Next]_vars
      PROVE  [Abstract!Next]_phases
  <2>1. row \in [Event -> Row] /\ delivered \subseteq Event
    BY <1>2 DEF Inv, TypeOK
  <2>2. ASSUME NEW e \in Event, Submit(e) PROVE Abstract!Accept(e)
    <3>1. row[e].status = "absent" /\ row'[e].status = "pending" /\ e \notin delivered
      BY <1>2, <2>1, <2>2 DEF Submit, Absent, Inv, OnlySubmitted
    <3>2. delivered' = delivered /\ \A f \in Event \ {e} : row'[f] = row[f]
      BY <2>1, <2>2 DEF Submit
    <3>3. Phase(e) = "none" /\ Phase(e)' = "accepted"
      BY <3>1, <3>2 DEF Phase
    <3>4. \A f \in Event \ {e} : Phase(f)' = Phase(f)
      BY <3>2 DEF Phase
    <3> QED
      BY <3>3, <3>4 DEF Abstract!Accept, Abstract!Move, phases
  <2>3. ASSUME NEW d \in Dispatcher, NEW e \in Event, Publish(d, e) \/ PublishFails(d, e)
        PROVE  Abstract!Send(e) \/ \A f \in Event : Phase(f)' = Phase(f)
    <3>1. row' = row /\ delivered' \in { delivered, delivered \union {e} }
      BY <2>3 DEF Publish, PublishFails
    <3>2. row[e].status # "absent"
      BY <1>2, <2>3 DEF Publish, PublishFails, Inv, OnlySubmitted
    <3>3. \A f \in Event \ {e} : Phase(f)' = Phase(f)
      BY <3>1 DEF Phase
    <3>4. \/ Phase(e)' = Phase(e)
          \/ Phase(e) = "accepted" /\ Phase(e)' = "sent"
      BY <3>1, <3>2 DEF Phase
    <3> QED
      BY <3>3, <3>4 DEF Abstract!Send, Abstract!Move, phases
  <2>4. ASSUME NEW d \in Dispatcher, MarkPublished(d), NEW e \in Event, MarkMove(e)
        PROVE  Abstract!Settle(e)
    <3>1. PICK c \in Dispatcher : MarkPublished(c) /\ At(c, "mark") /\ disp[c].cur = e
      BY <2>4 DEF MarkMove
    <3>2. delivered' = delivered /\ \A f \in Event \ {e} : row'[f] = row[f]
      BY <2>1, <3>1 DEF MarkPublished
    <3>3. e \in delivered
      BY <1>2, <3>1 DEF Inv, MarkAfterConfirm
    <3>4. Phase(e) = "sent" /\ Phase(e)' = "settled"
      BY <2>4, <3>2, <3>3 DEF MarkMove, Phase
    <3>5. \A f \in Event \ {e} : Phase(f)' = Phase(f)
      BY <3>2 DEF Phase
    <3> QED
      BY <3>4, <3>5 DEF Abstract!Settle, Abstract!Move, phases
  <2>5. ASSUME \A d \in Dispatcher, e \in Event : ~Publish(d, e) /\ ~PublishFails(d, e),
               \A e \in Event : ~SubmitMove(e) /\ ~MarkMove(e)
        PROVE  \A e \in Event : Phase(e)' = Phase(e)
    <3> SUFFICES ASSUME NEW e \in Event PROVE Phase(e)' = Phase(e)
      OBVIOUS
    <3>1. delivered' = delivered
      BY <1>2, <2>5, WhoWrites
    <3>2. ClaimMove(e) \/ Untouched(e) \/ ReleaseMove(e) \/ DeleteMove(e)
      BY <1>2, <2>1, <2>5, RowMoves
    <3>3. ReleaseMove(e) => row[e].status = "publishing"
      BY <1>2 DEF ReleaseMove, Owns, Inv, TokenMeansPublishing
    <3> QED
      BY <3>1, <3>2, <3>3 DEF Phase, ClaimMove, Untouched, ReleaseMove, DeleteMove, Ready
  <2>6. ASSUME \A e \in Event : Phase(e)' = Phase(e)
        PROVE  UNCHANGED phases
    BY <2>6 DEF phases
  <2> QED
    BY <2>2, <2>3, <2>4, <2>5, <2>6 DEF Abstract!Next, SubmitMove, MarkMove
<1> QED
  BY <1>1, <1>2, Invariance, PTL DEF Spec, Abstract!Spec
=============================================================================
