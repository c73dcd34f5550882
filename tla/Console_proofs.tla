---------------------------- MODULE Console_proofs ----------------------------
(* Proofs about Console, for any number of jobs, logins, retries, views and    *)
(* failed answers.                                                             *)
(*                                                                             *)
(* A request that is on its way is either one the view no longer waits for, or *)
(* the one head of its chain (OneAtATime); and what a request was sent for and *)
(* answered stays true of the database while it is under way (Truth).  The     *)
(* lemma Moves says, without the detail of the actions, what one step does to  *)
(* the view and the requests.                                                  *)
EXTENDS Console, FiniteSetTheorems, TLAPS

\* The requests the view still waits for.
Active(r) == r.kind # "list" /\ r.version = view.version

\* Job j was created by the submission of version v.
Owned(j, v) == j \in Job /\ row[j].status # "absent" /\ row[j].version = v

HasJob(r) == \/ r.kind \in {"get", "result"}
             \/ r.kind = "submit" /\ r.phase = "headers" /\ r.reply = "ok"

\* What a request was sent for and what it was answered is true of the database,
\* and stays true however long it is under way.
Truthful(r) ==
    /\ HasJob(r) => Owned(r.job, r.version)
    /\ r.kind = "get" /\ r.seen = "succeeded" => row[r.job].status = "succeeded"
    /\ r.kind = "result" => row[r.job].status = "succeeded"
    /\ r.reply # "conflict"
    /\ r.reply = "gone" =>
          r.kind = "result" /\ r.job \in expired /\ store[r.job] = "lost"
Truth ==
    /\ \A r \in reqs : Truthful(r)
    /\ \A j \in Job : row[j].status = "succeeded" <=> store[j] # "empty"

\* So is what the view shows.
Shown ==
    /\ view.timer # NoTimer => Owned(view.timer.job, view.version)
    /\ view.job # NoJob => Owned(view.job, view.version)
    /\ view.result # NoJob => /\ view.result = view.job
                              /\ view.status = "succeeded"
                              /\ row[view.job].status = "succeeded"
    /\ view.error # NoError =>
          /\ view.error.version = view.version
          /\ view.error.reply # "conflict"
          /\ view.error.reply = "gone" => /\ view.job \in expired
                                         /\ store[view.job] = "lost"

\* While the chain goes on nothing is shown yet that a later answer could belie.
Pending == view.mounted /\ view.result = NoJob /\ view.error = NoError

\* The request at the head of the chain.
Fits(r) ==
    /\ Pending
    /\ view.timer = NoTimer
    /\ view.submitting <=> r.kind = "submit"
    /\ view.polling <=> r.kind = "get"
    /\ r.kind = "result" => view.job = r.job /\ view.status = "succeeded"

\* One chain of timers and requests, from the submission to the rows.
OneAtATime ==
    /\ \A r \in reqs : r.version <= view.version
    /\ \A r \in reqs : Active(r) => Fits(r)
    /\ \A r, s \in reqs : Active(r) /\ Active(s) => r = s
    /\ view.timer # NoTimer => /\ Pending /\ view.polling /\ ~view.submitting
                              /\ \A r \in reqs : ~Active(r)
    /\ view.submitting \/ view.polling =>
          view.timer # NoTimer \/ \E r \in reqs : Active(r)
    /\ ~view.mounted => view = Fresh(view.version)

\* What waits for the API carries the token of the tab, except for the list, and
\* cancelActive leaves nothing behind that waits for it.
SessionHeld ==
    /\ token # NoToken =>
          \A r \in reqs : r.kind # "list" /\ r.phase = "sent" => r.token = token
    /\ ~view.mounted => \A r \in reqs : r.kind # "list" => r.phase = "headers"

Inv == TypeOK /\ Truth /\ Shown /\ OneAtATime /\ SessionHeld
-----------------------------------------------------------------------------

\* The token of the next login is a token.
LEMMA NextLogin ==
    /\ Cardinality(Token) \in Nat
    /\ \A n \in Nat : n < Cardinality(Token) =>
           n + 1 \in Token /\ n + 1 \in 0..Cardinality(Token)
<1>1. Cardinality(Token) \in Nat
  BY ConsoleAssumption, FS_CardinalityType
<1>2. Token = 1..Cardinality(Token)
  BY ConsoleAssumption
<1> DEFINE c == Cardinality(Token)
<1>3. \A n \in Nat : n < c => n + 1 \in 1..c /\ n + 1 \in 0..c
  <2> HIDE DEF c
  <2> QED
    BY <1>1 DEF c
<1> QED
  BY <1>1, <1>2, <1>3

\* The values the view starts with are of the declared shape.
LEMMA Constants ==
    /\ NoTimer \in [job : Job \union {NoJob}, retries : Retries]
    /\ NoError \in [version : Versions, reply : Reply]
    /\ \A v \in Versions : Fresh(v) \in View
<1>1. 0 \in Retries /\ 0 \in Versions
  BY ConsoleAssumption DEF Retries, Versions
<1> QED
  BY <1>1 DEF NoTimer, NoError, Fresh, View, Status, Reply

\* A new request carries the token of the tab.
LEMMA NewIsRequest ==
    ASSUME token \in Token \union {NoToken},
           NEW kind \in {"list", "submit", "get", "result"}, NEW v \in Versions,
           NEW j \in Job \union {NoJob}, NEW n \in Retries
    PROVE  NewRequest(kind, v, j, n) \in Request
BY DEF NewRequest, Request, Status, Reply

\* The callbacks of submitQuery, poll and fetchResult keep the types.
LEMMA RejectedTypes ==
    ASSUME TypeOK, NEW r \in reqs, NEW reply \in Reply, Rejected(r, reply)
    PROVE  view' \in View /\ reqs' \subseteq Request
<1>1. view \in View /\ reqs \subseteq Request /\ r \in Request
  BY DEF TypeOK
<1>2. CASE Drop(r)
  BY <1>1, <1>2 DEF Drop
<1>3. CASE ~Drop(r) /\ Retryable(r, reply)
  <2>1. view' = [view EXCEPT !.timer = After(r.job, r.retries + 1)] /\ reqs' = reqs \ {r}
    BY <1>3 DEF Rejected
  <2>2. r.retries + 1 \in Retries
    BY <1>1, <1>3, ConsoleAssumption DEF Retryable, Retries, Request
  <2>3. After(r.job, r.retries + 1) \in [job : Job \union {NoJob}, retries : Retries]
    BY <1>1, <2>2 DEF After, Request
  <2> HIDE DEF After
  <2> QED
    BY <1>1, <2>1, <2>3 DEF View
<1>4. CASE ~Drop(r) /\ ~Retryable(r, reply)
  <2> DEFINE e == [version |-> r.version, reply |-> reply]
             b == IF r.kind = "submit" THEN FALSE ELSE view.submitting
             c == IF r.kind = "get" THEN FALSE ELSE view.polling
  <2>1. view' = [view EXCEPT !.error = e, !.submitting = b, !.polling = c] /\ reqs' = reqs \ {r}
    BY <1>4 DEF Rejected
  <2>2. e \in [version : Versions, reply : Reply] /\ b \in BOOLEAN /\ c \in BOOLEAN
    BY <1>1 DEF Request, View
  <2> HIDE DEF e, b, c
  <2> QED
    BY <1>1, <2>1, <2>2 DEF View
<1> QED
  BY <1>2, <1>3, <1>4

\* The same for a body that is complete.
LEMMA ResolvedTypes ==
    ASSUME TypeOK, NEW r \in reqs, Resolved(r)
    PROVE  view' \in View /\ reqs' \subseteq Request
<1>1. /\ view \in View /\ reqs \subseteq Request /\ r \in Request
      /\ token \in Token \union {NoToken}
      /\ 0 \in Retries
  BY ConsoleAssumption DEF TypeOK, Retries
<1>2. After(r.job, 0) \in [job : Job \union {NoJob}, retries : Retries]
  BY <1>1 DEF After, Request
<1>3. NewRequest("result", r.version, r.job, 0) \in Request
  BY <1>1, NewIsRequest DEF Request
<1>4. CASE Drop(r)
  BY <1>1, <1>4 DEF Drop
<1>5. CASE Submitted(r)
  <2> HIDE DEF After
  <2> QED
    BY <1>1, <1>2, <1>5 DEF Submitted, View, Request, Status
<1>6. CASE Polled(r)
  <2> DEFINE next == [view EXCEPT !.job = r.job, !.status = r.seen]
  <2>1. next \in View
    BY <1>1 DEF View, Request
  <2>2. [next EXCEPT !.polling = FALSE] \in View
    BY <2>1 DEF View
  <2>3. [next EXCEPT !.timer = After(r.job, 0)] \in View
    BY <1>2, <2>1 DEF View
  <2>4. view' \in {[next EXCEPT !.polling = FALSE], [next EXCEPT !.timer = After(r.job, 0)]}
    BY <1>6 DEF Polled
  <2>5. reqs' \subseteq reqs \union {NewRequest("result", r.version, r.job, 0)}
    BY <1>6 DEF Polled
  <2> QED
    BY <1>1, <1>3, <2>2, <2>3, <2>4, <2>5
<1>7. CASE Fetched(r)
  BY <1>1, <1>7 DEF Fetched, View, Request
<1> QED
  BY <1>4, <1>5, <1>6, <1>7 DEF Resolved

\* What the API has read or answered is a request still.
LEMMA AnswerTypes ==
    ASSUME NEW r \in Request
    PROVE  /\ \A reply \in Reply : [r EXCEPT !.phase = "headers", !.reply = reply] \in Request
           /\ \A j \in Job : [r EXCEPT !.phase = "headers", !.reply = "ok", !.job = j] \in Request
           /\ \A s \in Status : [r EXCEPT !.phase = "headers", !.reply = "ok", !.seen = s] \in Request
           /\ [r EXCEPT !.phase = "read"] \in Request
BY DEF Request, Reply

\* The handlers, the network and the clock of the API.
LEMMA HandleTypes ==
    ASSUME TypeOK, Truth, NEW r \in reqs, Handle(r) \/ Fails(r) \/ NetworkFails(r) \/ Body(r)
    PROVE  TypeOK'
<1>1. /\ view \in View /\ reqs \subseteq Request /\ r \in Request
      /\ row \in [Job -> [status : Status, version : Versions]]
      /\ r.reply \in Reply /\ r.version \in Versions
      /\ faults \in 0..MaxFaults
  BY DEF TypeOK, Request
<1>2. {"refused", "fault", "notfound", "conflict", "ok", "gone", "unavailable"} \subseteq Reply
  BY DEF Reply
<1>3. CASE Unauthorized(r)
  BY <1>2, <1>3, RejectedTypes DEF Unauthorized, serverVars, TypeOK
<1>4. CASE List(r)
  BY <1>1, <1>4 DEF List, Drop, serverVars, sessionVars, TypeOK
<1>5. CASE Submit(r)
  <2>1. ASSUME NEW j \in Job, row' = [row EXCEPT ![j] = [status |-> "queued", version |-> r.version]]
        PROVE  row' \in [Job -> [status : Status, version : Versions]]
    BY <1>1, <2>1 DEF Status
  <2> QED
    BY <1>1, <1>2, <1>5, <2>1, AnswerTypes DEF Submit, Update, Answer, sessionVars, TypeOK
<1>6. CASE Get(r)
  <2>1. row[r.job].status \in Status
    BY <1>1, <1>6 DEF Get, Admitted, Handles, Truth, Truthful, HasJob, Owned
  <2> QED
    BY <1>1, <1>6, <2>1, AnswerTypes DEF Get, Update, serverVars, sessionVars, TypeOK
<1>7. CASE ReadRow(r)
  BY <1>1, <1>2, <1>7, AnswerTypes DEF ReadRow, Update, Answer, serverVars, sessionVars, TypeOK
<1>8. CASE ReadStore(r)
  BY <1>1, <1>2, <1>8, AnswerTypes
  DEF ReadStore, MissingReply, Update, Answer, serverVars, sessionVars, TypeOK
<1>9. ASSUME Fault PROVE faults' \in 0..MaxFaults
  BY <1>1, <1>9, ConsoleAssumption DEF Fault
<1>10. CASE Fails(r)
  BY <1>1, <1>2, <1>9, <1>10, AnswerTypes DEF Fails, Update, Answer, serverVars, sessionVars, TypeOK
<1>11. CASE NetworkFails(r)
  BY <1>2, <1>9, <1>11, RejectedTypes DEF NetworkFails, serverVars, sessionVars, TypeOK
<1>12. CASE Body(r)
  BY <1>1, <1>12, RejectedTypes, ResolvedTypes DEF Body, serverVars, sessionVars, TypeOK
<1> QED
  BY <1>3, <1>4, <1>5, <1>6, <1>7, <1>8, <1>10, <1>11, <1>12 DEF Handle

\* No step leaves the types.
LEMMA TypeStep == ASSUME TypeOK, Truth, [Next]_vars PROVE TypeOK'
<1>1. /\ view \in View /\ reqs \subseteq Request
      /\ row \in [Job -> [status : Status, version : Versions]]
      /\ store \in [Job -> {"empty", "stored", "lost"}]
      /\ token \in Token \union {NoToken} /\ logins \in 0..Cardinality(Token)
      /\ view.version \in Versions /\ 0 \in Retries /\ 0 \in Versions
      /\ mounts \in 0..MaxMounts /\ valid \subseteq Token
  BY ConsoleAssumption DEF TypeOK, View, Retries, Versions
<1>2. CASE SubmitQuery
  <2>1. [Fresh(view.version + 1) EXCEPT !.mounted = TRUE, !.submitting = TRUE] \in View
    <3>1. Fresh(view.version + 1) \in View
      BY <1>2, Constants DEF SubmitQuery
    <3> HIDE DEF Fresh
    <3> QED
      BY <3>1 DEF View
  <2>2. NewRequest("submit", view.version + 1, NoJob, 0) \in Request
    BY <1>1, <1>2, NewIsRequest DEF SubmitQuery
  <2> QED
    BY <1>1, <1>2, <2>1, <2>2 DEF SubmitQuery, Unaborted, serverVars, sessionVars, TypeOK
<1>3. CASE Poll
  <2>1. [view EXCEPT !.timer = NoTimer] \in View
    BY <1>1, Constants DEF View
  <2>2. view.timer.job \in Job \union {NoJob} /\ view.timer.retries \in Retries
    BY <1>1 DEF View
  <2>3. NewRequest("get", view.version, view.timer.job, view.timer.retries) \in Request
    BY <1>1, <2>2, NewIsRequest
  <2> QED
    BY <1>1, <1>3, <2>1, <2>3 DEF Poll, serverVars, sessionVars, TypeOK
<1>4. CASE Mount
  <2>1. [Fresh(view.version) EXCEPT !.mounted = TRUE] \in View
    <3>1. Fresh(view.version) \in View
      BY <1>1, Constants
    <3> HIDE DEF Fresh
    <3> QED
      BY <3>1 DEF View
  <2>2. NewRequest("list", 0, NoJob, 0) \in Request
    BY <1>1, NewIsRequest
  <2>3. mounts' \in 0..MaxMounts
    BY <1>1, <1>4, ConsoleAssumption DEF Mount
  <2> QED
    BY <1>1, <1>4, <2>1, <2>2, <2>3 DEF Mount, serverVars, TypeOK
<1>5. CASE Unmount
  BY <1>1, <1>5, Constants DEF Unmount, Unaborted, serverVars, sessionVars, TypeOK
<1>6. CASE Login
  <2>1. logins + 1 \in Token /\ logins + 1 \in 0..Cardinality(Token)
    BY <1>1, <1>6, NextLogin DEF Login
  <2> QED
    BY <1>1, <1>6, <2>1 DEF Login, serverVars, TypeOK
<1>7. CASE Logout \/ TokenExpires
  BY <1>7 DEF Logout, TokenExpires, serverVars, TypeOK
<1>8. ASSUME NEW j \in Job, Finish(j) \/ Lose(j) \/ Expire(j) PROVE TypeOK'
  <2>1. row' \in [Job -> [status : Status, version : Versions]]
    BY <1>1, <1>8 DEF Finish, Lose, Expire, Status
  <2>2. store' \in [Job -> {"empty", "stored", "lost"}]
    BY <1>1, <1>8 DEF Finish, Lose, Expire
  <2> QED
    BY <1>8, <2>1, <2>2 DEF Finish, Lose, Expire, sessionVars, TypeOK
<1>9. CASE UNCHANGED vars
  BY <1>9 DEF vars, TypeOK
<1> QED
  BY <1>2, <1>3, <1>4, <1>5, <1>6, <1>7, <1>8, <1>9, HandleTypes DEF Next
-----------------------------------------------------------------------------
\* What one step does to the view and the requests, without the detail of the
\* actions.

Background == view' = view /\ reqs' = reqs

\* The API has read something for r, or answered it.
Answered(r, n) ==
    /\ view' = view /\ token' = token
    /\ reqs' = (reqs \ {r}) \union {n}
    /\ r.kind # "list" /\ n.kind = r.kind
    /\ n.version = r.version /\ n.token = r.token
    /\ r.phase \in {"sent", "read"} /\ n.phase \in {"read", "headers"}
    /\ n.phase = "read" => n.kind = "result"
    /\ n.kind = "result" => n.job = r.job

\* Nobody waits for r any more.
Dropped(r) == ~Active(r) /\ view' = view /\ reqs' = reqs \ {r}

\* The callback of r.
Called(r) ==
    /\ Active(r) /\ r.phase = "headers" /\ r.reply = "ok"
    /\ \/ r.kind = "submit" /\ Submitted(r)
       \/ r.kind = "get" /\ Polled(r)
       \/ r.kind = "result" /\ Fetched(r)

Refused(r, reply) ==
    /\ Active(r) /\ Rejected(r, reply)
    /\ reply \in {r.reply, "refused", "fault"}

\* A rejected request is dropped or refused.
LEMMA RejectedMoves ==
    ASSUME NEW r \in reqs, NEW reply, Rejected(r, reply), reply \in {r.reply, "refused", "fault"}
    PROVE  Dropped(r) \/ Refused(r, reply)
BY DEF Rejected, IsStale, Drop, Dropped, Refused, Active

\* What a request of the API turns into.
LEMMA HandleMoves ==
    ASSUME TypeOK, NEW r \in reqs, Handle(r) \/ Fails(r) \/ NetworkFails(r) \/ Body(r)
    PROVE  /\ token' \in {token, NoToken}
           /\ \/ \E n : Answered(r, n)
              \/ Dropped(r)
              \/ Called(r)
              \/ \E reply \in Reply : Refused(r, reply)
<1>1. r \in Request /\ {"refused", "fault", r.reply} \subseteq Reply
  BY DEF TypeOK, Request, Reply
<1>2. CASE Unauthorized(r) \/ NetworkFails(r)
  BY <1>1, <1>2, RejectedMoves DEF Unauthorized, NetworkFails, sessionVars
<1>3. CASE List(r)
  BY <1>3 DEF List, Admitted, Handles, Drop, Dropped, Active, sessionVars
<1>4. CASE Submit(r)
  <2>1. PICK n : /\ reqs' = (reqs \ {r}) \union {n}
                 /\ \/ \E j \in Job : n = [r EXCEPT !.phase = "headers", !.reply = "ok", !.job = j]
                    \/ n = [r EXCEPT !.phase = "headers", !.reply = "notfound"]
    BY <1>4 DEF Submit, Answer, Update
  <2>2. n.kind = r.kind /\ n.version = r.version /\ n.token = r.token /\ n.phase = "headers"
    BY <1>1, <2>1 DEF Request
  <2> QED
    BY <1>4, <2>1, <2>2 DEF Submit, Answered, Admitted, Handles, sessionVars
<1>5. CASE Get(r)
  <2>1. PICK n : /\ reqs' = (reqs \ {r}) \union {n}
                 /\ n = [r EXCEPT !.phase = "headers", !.reply = "ok", !.seen = row[r.job].status]
    BY <1>5 DEF Get, Update
  <2>2. /\ n.kind = r.kind /\ n.version = r.version /\ n.token = r.token /\ n.phase = "headers"
        /\ n.job = r.job
    BY <1>1, <2>1 DEF Request
  <2> QED
    BY <1>5, <2>1, <2>2 DEF Get, Answered, Admitted, Handles, sessionVars
<1>6. CASE ReadRow(r) \/ ReadStore(r) \/ Fails(r)
  <2>1. PICK n : /\ reqs' = (reqs \ {r}) \union {n}
                 /\ \/ r.kind = "result" /\ n = [r EXCEPT !.phase = "read"]
                    \/ \E reply \in Reply : n = [r EXCEPT !.phase = "headers", !.reply = reply]
    BY <1>6 DEF ReadRow, ReadStore, Fails, Admitted, Handles, MissingReply, Reply, Answer, Update
  <2>2. /\ n.kind = r.kind /\ n.version = r.version /\ n.token = r.token /\ n.job = r.job
        /\ n.phase = "headers" \/ (n.phase = "read" /\ r.kind = "result")
    BY <1>1, <2>1 DEF Request
  <2> QED
    BY <1>6, <2>1, <2>2 DEF ReadRow, ReadStore, Fails, Answered, Admitted, Handles, sessionVars
<1>7. CASE Body(r)
  <2>1. CASE Resolved(r) /\ r.reply = "ok"
    BY <1>7, <2>1 DEF Body, Resolved, IsStale, Drop, Dropped, Called, Active, sessionVars
  <2>2. CASE Rejected(r, r.reply)
    BY <1>1, <1>7, <2>2, RejectedMoves DEF Body, sessionVars
  <2> QED
    BY <1>7, <2>1, <2>2 DEF Body
<1> QED
  BY <1>2, <1>3, <1>4, <1>5, <1>6, <1>7 DEF Handle

\* Every step is one of these, or one of the four actions of the user and the timer.
LEMMA Moves ==
    ASSUME TypeOK, [Next]_vars
    PROVE  \/ SubmitQuery \/ Poll \/ Mount \/ Unmount
           \/ Background /\ (token' \in {token, NoToken} \/ ~view.mounted)
           \/ /\ token' \in {token, NoToken}
              /\ \E r \in reqs : \/ \E n : Answered(r, n)
                                 \/ Dropped(r)
                                 \/ Called(r)
                                 \/ \E reply \in Reply : Refused(r, reply)
BY HandleMoves
DEF Next, Background, Login, Logout, TokenExpires, Finish, Lose, Expire, sessionVars, vars
-----------------------------------------------------------------------------
\* Which actions write the rows, the results and the expiries.
LEMMA WhoWrites ==
    ASSUME [Next]_vars
    PROVE  \/ \E r \in reqs : Submit(r)
           \/ \E j \in Job : Finish(j) \/ Lose(j) \/ Expire(j)
           \/ UNCHANGED serverVars
BY DEF Next, SubmitQuery, Poll, Mount, Unmount, Login, Logout, TokenExpires, Handle, Unauthorized,
       List, Get, ReadRow, ReadStore, Fails, NetworkFails, Body, serverVars, vars

\* A job keeps its submission, a success stays one, and what has expired or is lost
\* does not come back.
LEMMA FactsStay ==
    ASSUME TypeOK, Truth, [Next]_vars
    PROVE  /\ \A j \in Job : row[j].status # "absent" =>
                  row'[j].status # "absent" /\ row'[j].version = row[j].version
           /\ \A j \in Job : row[j].status = "succeeded" => row'[j].status = "succeeded"
           /\ expired \subseteq expired'
           /\ \A j \in Job : store[j] = "lost" => store'[j] = "lost"
           /\ \A j \in Job : row'[j].status = "succeeded" <=> store'[j] # "empty"
<1>1. /\ row \in [Job -> [status : Status, version : Versions]]
      /\ store \in [Job -> {"empty", "stored", "lost"}]
      /\ \A j \in Job : row[j].status = "succeeded" <=> store[j] # "empty"
  BY DEF TypeOK, Truth
<1>2. ASSUME NEW r \in reqs, Submit(r)
      PROVE  /\ store' = store /\ expired' = expired
             /\ \/ row' = row
                \/ \E j \in Job : row[j].status = "absent"
                                /\ row' = [row EXCEPT ![j] = [status |-> "queued", version |-> r.version]]
  <2>1. ASSUME NEW j \in Job, \A i \in Job : row[i].status = "absent" <=> i >= j
        PROVE  row[j].status = "absent"
    BY <2>1, ConsoleAssumption
  <2> QED
    BY <1>2, <2>1 DEF Submit
<1>3. CASE \E r \in reqs : Submit(r)
  <2>1. PICK r \in reqs : Submit(r)
    BY <1>3
  <2>2. CASE row' = row
    BY <1>1, <1>2, <2>1, <2>2
  <2>3. ASSUME NEW i \in Job, row[i].status = "absent",
               row' = [row EXCEPT ![i] = [status |-> "queued", version |-> r.version]]
        PROVE  /\ row'[i].status = "queued"
               /\ \A j \in Job \ {i} : row'[j] = row[j]
    BY <1>1, <2>3
  <2> QED
    BY <1>1, <1>2, <2>1, <2>2, <2>3
<1>4. ASSUME NEW i \in Job, Finish(i)
      PROVE  /\ expired' = expired
             /\ row[i].status = "queued"
             /\ \/ row'[i].status = "succeeded" /\ store' = [store EXCEPT ![i] = "stored"]
                \/ row'[i].status = "failed" /\ store' = store
             /\ row'[i].version = row[i].version
             /\ \A j \in Job \ {i} : row'[j] = row[j]
  BY <1>1, <1>4 DEF Finish
<1>5. CASE \E i \in Job : Finish(i)
  <2>1. PICK i \in Job : Finish(i)
    BY <1>5
  <2>2. store[i] # "lost"
    BY <1>1, <1>4, <2>1
  <2> QED
    BY <1>1, <1>4, <2>1, <2>2
<1>6. CASE \E i \in Job : Lose(i) \/ Expire(i)
  BY <1>1, <1>6 DEF Lose, Expire
<1>7. CASE UNCHANGED serverVars
  BY <1>1, <1>7 DEF serverVars
<1> QED
  BY <1>3, <1>5, <1>6, <1>7, WhoWrites

\* A request that is on its way goes on to be true.
LEMMA TruthfulStays ==
    ASSUME TypeOK, Truth, [Next]_vars, NEW r \in Request, Truthful(r)
    PROVE  Truthful(r)'
BY FactsStay DEF Truthful, Owned, HasJob

\* What the API reads for a request, and answers.
LEMMA AnswerIsTrue ==
    ASSUME TypeOK, Truth, [Next]_vars, NEW r \in reqs,
           Submit(r) \/ Get(r) \/ ReadRow(r) \/ ReadStore(r) \/ Fails(r)
    PROVE  \A q \in reqs' \ reqs : Truthful(q)'
<1>1. /\ r \in Request /\ Truthful(r) /\ Truthful(r)'
      /\ row \in [Job -> [status : Status, version : Versions]]
  BY TruthfulStays DEF TypeOK, Truth
<1>2. CASE Submit(r)
  <2>1. r.kind = "submit" /\ r.reply # "gone" /\ r.reply # "conflict"
    BY <1>1, <1>2 DEF Submit, Admitted, Handles, Truthful
  <2>2. ASSUME NEW j \in Job, row' = [row EXCEPT ![j] = [status |-> "queued", version |-> r.version]],
               NEW q, q = [r EXCEPT !.phase = "headers", !.reply = "ok", !.job = j]
        PROVE  Truthful(q)'
    <3>1. row'[j].status = "queued" /\ row'[j].version = r.version
      BY <1>1, <2>2
    <3>2. q.kind = "submit" /\ q.reply = "ok" /\ q.job = j /\ q.version = r.version
      BY <1>1, <2>1, <2>2 DEF Request
    <3> QED
      BY <3>1, <3>2 DEF Truthful, Owned
  <2>3. ASSUME NEW q, q = [r EXCEPT !.phase = "headers", !.reply = "notfound"]
        PROVE  Truthful(q)'
    <3>1. q.kind = "submit" /\ q.reply = "notfound"
      BY <1>1, <2>1, <2>3 DEF Request
    <3> QED
      BY <3>1 DEF Truthful, HasJob
  <2> QED
    BY <1>2, <2>2, <2>3 DEF Submit, Update, Answer
<1>3. CASE Get(r)
  <2>1. r.kind = "get" /\ row' = row
    BY <1>3 DEF Get, Admitted, Handles, serverVars
  <2>2. PICK q : /\ q = [r EXCEPT !.phase = "headers", !.reply = "ok", !.seen = row[r.job].status]
                 /\ reqs' = (reqs \ {r}) \union {q}
    BY <1>3 DEF Get, Update
  <2>3. /\ q.kind = "get" /\ q.reply = "ok" /\ q.job = r.job /\ q.version = r.version
        /\ q.seen = row[r.job].status
    BY <1>1, <2>1, <2>2 DEF Request
  <2>4. Truthful(q)'
    BY <1>1, <2>1, <2>3 DEF Truthful, HasJob, Owned
  <2> QED
    BY <2>4, <2>2
<1>4. CASE ReadRow(r)
  <2>1. r.kind = "result" /\ row[r.job].status = "succeeded"
    BY <1>1, <1>4 DEF ReadRow, Admitted, Handles, Truthful
  <2> DEFINE q == [r EXCEPT !.phase = "read"]
  <2>2. /\ q.kind = "result" /\ q.reply = r.reply /\ q.job = r.job /\ q.version = r.version
    BY <1>1, <2>1 DEF Request
  <2>3. reqs' = (reqs \ {r}) \union {q}
    BY <1>4, <2>1 DEF ReadRow, Update
  <2> HIDE DEF q
  <2>4. Truthful(q)'
    BY <1>1, <2>1, <2>2 DEF Truthful, HasJob
  <2> QED
    BY <2>3, <2>4
<1>5. CASE ReadStore(r) \/ Fails(r)
  <2>1. PICK reply \in Reply :
           /\ reqs' = (reqs \ {r}) \union {[r EXCEPT !.phase = "headers", !.reply = reply]}
           /\ reply \in {"ok", "fault", "unavailable"}
              \/ (reply = "gone" /\ r.kind = "result" /\ r.job \in expired /\ store[r.job] # "stored")
           /\ reply = "ok" => r.kind = "result"
    BY <1>5 DEF ReadStore, Fails, Handles, MissingReply, Reply, Answer, Update
  <2> DEFINE q == [r EXCEPT !.phase = "headers", !.reply = reply]
  <2>2. /\ q.kind = r.kind /\ q.reply = reply /\ q.job = r.job /\ q.version = r.version
        /\ q.seen = r.seen
    BY <1>1 DEF Request
  <2> HIDE DEF q
  <2>3. reply = "gone" => r.job \in expired' /\ store'[r.job] = "lost"
    <3> SUFFICES ASSUME reply = "gone" PROVE r.job \in expired' /\ store'[r.job] = "lost"
      OBVIOUS
    <3>1. r.kind = "result" /\ r.job \in expired /\ store[r.job] # "stored"
      BY <2>1
    <3>2. r.job \in Job /\ store[r.job] # "empty"
      BY <1>1, <3>1 DEF Truthful, HasJob, Owned, Truth
    <3> QED
      BY <3>1, <3>2, FactsStay DEF TypeOK
  <2>4. HasJob(q) => HasJob(r)
    BY <2>1, <2>2 DEF HasJob
  <2>5. Truthful(q)'
    BY <1>1, <2>1, <2>2, <2>3, <2>4 DEF Truthful, HasJob
  <2> QED
    BY <2>1, <2>5 DEF q
<1> QED
  BY <1>2, <1>3, <1>4, <1>5

\* The requests the view sends: for the job it was given, and for the rows of a job
\* that has succeeded.
LEMMA SentIsTrue ==
    ASSUME TypeOK, Truth, Shown, [Next]_vars,
           \/ SubmitQuery \/ Poll \/ Mount
           \/ \E r \in reqs : Polled(r) /\ r.kind = "get" /\ row' = row
    PROVE  \A q \in reqs' \ reqs : Truthful(q)'
<1>1. CASE SubmitQuery \/ Mount
  BY <1>1 DEF SubmitQuery, Mount, Unaborted, NewRequest, Truthful, HasJob
<1>2. CASE Poll
  BY <1>2 DEF Poll, NewRequest, Truthful, HasJob, Shown, Owned, serverVars
<1>3. ASSUME NEW r \in reqs, Polled(r), r.kind = "get", row' = row
      PROVE  \A q \in reqs' \ reqs : Truthful(q)'
  <2>1. Truthful(r)
    BY DEF Truth
  <2> SUFFICES ASSUME NEW q \in reqs' \ reqs PROVE Truthful(q)'
    OBVIOUS
  <2>2. r.seen = "succeeded" /\ q = NewRequest("result", r.version, r.job, 0)
    BY <1>3 DEF Polled
  <2>3. q.kind = "result" /\ q.version = r.version /\ q.job = r.job /\ q.reply = "none"
    BY <2>2 DEF NewRequest
  <2> QED
    BY <1>3, <2>1, <2>2, <2>3 DEF Truthful, HasJob, Owned
<1> QED
  BY <1>1, <1>2, <1>3

\* Requests stay true, results are stored before a job succeeds.
LEMMA TruthStep == ASSUME TypeOK, Truth, Shown, [Next]_vars PROVE Truth'
<1>1. \A q \in reqs' \ reqs : Truthful(q)'
  <2>1. CASE \E r \in reqs : Submit(r) \/ Get(r) \/ ReadRow(r) \/ ReadStore(r) \/ Fails(r)
    BY <2>1, AnswerIsTrue
  <2>2. CASE SubmitQuery \/ Poll \/ Mount
    BY <2>2, SentIsTrue
  <2>3. ASSUME NEW r \in reqs, Unauthorized(r) \/ List(r) \/ NetworkFails(r)
        PROVE  reqs' \subseteq reqs
    BY <2>3 DEF Unauthorized, List, NetworkFails, Rejected, Drop
  <2>4. ASSUME NEW r \in reqs, Body(r)
        PROVE  reqs' \subseteq reqs \/ (Polled(r) /\ r.kind = "get" /\ row' = row)
    BY <2>4 DEF Body, Resolved, Rejected, Drop, Submitted, Fetched, serverVars
  <2>5. CASE Unmount \/ Login \/ Logout \/ TokenExpires \/ UNCHANGED vars
             \/ \E j \in Job : Finish(j) \/ Lose(j) \/ Expire(j)
    BY <2>5 DEF Unmount, Unaborted, Login, Logout, TokenExpires, Finish, Lose, Expire, vars
  <2> QED
    BY <2>1, <2>2, <2>3, <2>4, <2>5, SentIsTrue DEF Next, Handle
<1>2. \A q \in reqs : Truthful(q)'
  BY TruthfulStays DEF Truth, TypeOK
<1> QED
  BY <1>1, <1>2, FactsStay DEF Truth
-----------------------------------------------------------------------------
\* What the callbacks make of the view, field by field.
LEMMA SubmittedFields ==
    ASSUME view \in View, NEW r, Submitted(r)
    PROVE  /\ view'.mounted = view.mounted /\ view'.version = view.version
           /\ view'.result = view.result /\ view'.error = view.error
           /\ view'.job = r.job /\ view'.status = "queued"
           /\ ~view'.submitting /\ view'.polling
           /\ view'.timer = After(r.job, 0)
BY DEF Submitted, View

\* poll: the next timer, the request for the rows, or the end.
LEMMA PolledFields ==
    ASSUME view \in View, NEW r, Polled(r)
    PROVE  /\ view'.mounted = view.mounted /\ view'.version = view.version
           /\ view'.result = view.result /\ view'.error = view.error
           /\ view'.job = r.job /\ view'.status = r.seen
           /\ view'.submitting = view.submitting
           /\ \/ /\ r.seen = "queued"
                 /\ view'.timer = After(r.job, 0) /\ view'.polling = view.polling
                 /\ reqs' = reqs \ {r}
              \/ /\ view'.timer = view.timer /\ ~view'.polling
                 /\ \/ /\ r.seen = "succeeded"
                       /\ reqs' = (reqs \ {r}) \union {NewRequest("result", r.version, r.job, 0)}
                    \/ reqs' = reqs \ {r}
<1>1. CASE r.seen = "queued"
  BY <1>1 DEF Polled, View
<1>2. CASE r.seen # "queued"
  <2>1. view' = [[view EXCEPT !.job = r.job, !.status = r.seen] EXCEPT !.polling = FALSE]
    BY <1>2 DEF Polled
  <2> QED
    BY <1>2, <2>1 DEF Polled, View
<1> QED
  BY <1>1, <1>2

\* fetchResult adds the rows.
LEMMA FetchedFields ==
    ASSUME view \in View, NEW r, Fetched(r)
    PROVE  /\ view'.mounted = view.mounted /\ view'.version = view.version
           /\ view'.timer = view.timer /\ view'.error = view.error
           /\ view'.job = view.job /\ view'.status = view.status
           /\ view'.submitting = view.submitting /\ view'.polling = view.polling
           /\ view'.result = r.job
BY DEF Fetched, View

\* The catch blocks: a back-off, or an error and no flag.
LEMMA RefusedFields ==
    ASSUME view \in View, NEW r, NEW reply, Refused(r, reply)
    PROVE  /\ view'.mounted = view.mounted /\ view'.version = view.version
           /\ view'.job = view.job /\ view'.status = view.status
           /\ view'.result = view.result
           /\ reqs' = reqs \ {r}
           /\ \/ /\ r.kind = "get"
                 /\ view'.timer = After(r.job, r.retries + 1) /\ view'.error = view.error
                 /\ view'.submitting = view.submitting /\ view'.polling = view.polling
              \/ /\ view'.timer = view.timer
                 /\ view'.error = [version |-> r.version, reply |-> reply]
                 /\ view'.submitting = (view.submitting /\ r.kind # "submit")
                 /\ view'.polling = (view.polling /\ r.kind # "get")
<1>1. ~IsStale(r) /\ r.kind # "list" /\ Rejected(r, reply)
  BY DEF Refused, Active, IsStale
<1>2. CASE Retryable(r, reply)
  BY <1>1, <1>2 DEF Rejected, Retryable, View
<1>3. CASE ~Retryable(r, reply)
  <2> DEFINE e == [version |-> r.version, reply |-> reply]
             b == IF r.kind = "submit" THEN FALSE ELSE view.submitting
             c == IF r.kind = "get" THEN FALSE ELSE view.polling
  <2>1. view' = [view EXCEPT !.error = e, !.submitting = b, !.polling = c] /\ reqs' = reqs \ {r}
    BY <1>1, <1>3 DEF Rejected
  <2>2. /\ b = (view.submitting /\ r.kind # "submit")
        /\ c = (view.polling /\ r.kind # "get")
    BY DEF View
  <2> HIDE DEF b, c, e
  <2>3. /\ view'.mounted = view.mounted /\ view'.version = view.version
        /\ view'.job = view.job /\ view'.status = view.status
        /\ view'.result = view.result /\ view'.timer = view.timer
        /\ view'.error = e /\ view'.submitting = b /\ view'.polling = c
    BY <2>1 DEF View
  <2> QED
    BY <2>1, <2>2, <2>3 DEF e
<1> QED
  BY <1>2, <1>3

\* A view that starts anew.
LEMMA FreshFields ==
    \A v : LET w == Fresh(v) IN
           /\ w.mounted = FALSE /\ w.version = v /\ w.submitting = FALSE /\ w.polling = FALSE
           /\ w.job = NoJob /\ w.result = NoJob /\ w.timer = NoTimer /\ w.error = NoError
BY DEF Fresh

\* submitQuery, onMounted and onUnmounted leave nothing of the last job.
LEMMA ResetFields ==
    ASSUME TypeOK, SubmitQuery \/ Mount \/ Unmount
    PROVE  /\ view'.job = NoJob /\ view'.result = NoJob
           /\ view'.timer = NoTimer /\ view'.error = NoError
           /\ ~view'.polling
           /\ SubmitQuery => /\ view'.version = view.version + 1
                             /\ view'.mounted /\ view'.submitting
           /\ Mount => /\ view'.version = view.version
                       /\ view'.mounted /\ ~view'.submitting
           /\ Unmount => /\ view'.version = view.version + 1
                         /\ view' = Fresh(view'.version)
                         /\ ~view'.mounted /\ ~view'.submitting
<1>1. CASE SubmitQuery
  BY <1>1 DEF SubmitQuery, Mount, Unmount, Fresh
<1>2. CASE Mount
  BY <1>2 DEF SubmitQuery, Mount, Unmount, Fresh
<1>3. CASE Unmount
  <2>1. view' = Fresh(view.version + 1)
    BY <1>3 DEF Unmount
  <2>2. view'.version = view.version + 1
    BY <2>1, FreshFields
  <2>3. ~SubmitQuery /\ ~Mount
    <3>1. ~Mount
      BY <1>3 DEF Mount, Unmount
    <3>2. SubmitQuery => view'.mounted
      BY DEF SubmitQuery, Fresh
    <3> QED
      BY <2>1, <3>1, <3>2, FreshFields
  <2> QED
    BY <2>1, <2>2, <2>3, FreshFields
<1> QED
  BY <1>1, <1>2, <1>3

\* The view of a timer that fired.
LEMMA PolledTimer ==
    ASSUME TypeOK, Poll
    PROVE  /\ view'.mounted = view.mounted /\ view'.version = view.version
           /\ view'.job = view.job /\ view'.status = view.status
           /\ view'.result = view.result /\ view'.error = view.error
           /\ view'.submitting = view.submitting /\ view'.polling = view.polling
           /\ view'.timer = NoTimer
BY DEF TypeOK, Poll, View

\* What the view shows stays true, and a callback only adds what is true.
LEMMA ShownStep == ASSUME Inv, [Next]_vars PROVE Shown'
<1>1. /\ TypeOK /\ Truth /\ Shown /\ OneAtATime /\ view \in View
      /\ expired \subseteq Job /\ reqs \subseteq Request
      /\ \A r \in reqs : Truthful(r)
  BY DEF Inv, TypeOK, Truth
<1>2. \A j, v : Owned(j, v) => Owned(j, v)'
  BY <1>1, FactsStay DEF Owned
<1>3. \A j \in Job : row[j].status = "succeeded" => row'[j].status = "succeeded"
  BY <1>1, FactsStay
<1>4. \A j \in expired : store[j] = "lost" => j \in expired' /\ store'[j] = "lost"
  BY <1>1, FactsStay
<1>5. view.job # NoJob => view.job \in Job
  BY <1>1 DEF Shown, Owned
<1>6. CASE SubmitQuery \/ Mount \/ Unmount
  BY <1>1, <1>6, ResetFields DEF Shown
<1>7. CASE Poll
  BY <1>1, <1>2, <1>3, <1>4, <1>5, <1>7, PolledTimer DEF Shown
<1>8. CASE view' = view
  BY <1>1, <1>2, <1>3, <1>4, <1>5, <1>8 DEF Shown
<1>9. ASSUME NEW r \in reqs, Called(r) PROVE Shown'
  <2>1. /\ r.version = view.version /\ Owned(r.job, r.version)
        /\ Fits(r) /\ view.result = NoJob /\ view.error = NoError /\ view.timer = NoTimer
    BY <1>1, <1>9 DEF Called, Active, HasJob, Truthful, OneAtATime, Fits, Pending
  <2>2. CASE r.kind = "submit" /\ Submitted(r)
    <3>1. After(r.job, 0).job = r.job /\ Owned(r.job, r.version)'
      BY <1>2, <2>1 DEF After
    <3>2. /\ view'.timer.job = r.job /\ view'.job = r.job /\ view'.version = r.version
          /\ view'.result = NoJob /\ view'.error = NoError
      BY <1>1, <2>1, <2>2, <3>1, SubmittedFields
    <3> QED
      BY <3>1, <3>2 DEF Shown
  <2>3. CASE r.kind = "get" /\ Polled(r)
    <3>1. After(r.job, 0).job = r.job /\ Owned(r.job, r.version)'
      BY <1>2, <2>1 DEF After
    <3>2. /\ view'.timer = NoTimer \/ view'.timer.job = r.job
          /\ view'.job = r.job /\ view'.version = r.version
          /\ view'.result = NoJob /\ view'.error = NoError
      BY <1>1, <2>1, <2>3, <3>1, PolledFields
    <3> QED
      BY <3>1, <3>2 DEF Shown
  <2>4. CASE r.kind = "result" /\ Fetched(r)
    <3>1. /\ view.job = r.job /\ view.status = "succeeded" /\ row[r.job].status = "succeeded"
          /\ r.job \in Job
      BY <1>1, <2>1, <2>4 DEF Fits, Truthful, Owned
    <3> QED
      BY <1>1, <1>2, <1>3, <2>1, <2>4, <3>1, FetchedFields DEF Shown
  <2> QED
    BY <1>9, <2>2, <2>3, <2>4 DEF Called
<1>10. ASSUME NEW r \in reqs, NEW reply, Refused(r, reply) PROVE Shown'
  <2>1. /\ r.version = view.version /\ Fits(r) /\ view.result = NoJob /\ view.error = NoError
        /\ view.timer = NoTimer /\ Truthful(r)
    BY <1>1, <1>10 DEF Refused, Active, OneAtATime, Fits, Pending
  <2>2. CASE /\ r.kind = "get" /\ view'.timer = After(r.job, r.retries + 1)
             /\ view'.error = view.error
    <3>1. Owned(r.job, r.version)
      BY <2>1, <2>2 DEF Truthful, HasJob
    <3> QED
      BY <1>1, <1>2, <1>10, <2>1, <2>2, <3>1, RefusedFields DEF Shown, After
  <2>3. CASE /\ view'.timer = view.timer
             /\ view'.error = [version |-> r.version, reply |-> reply]
    <3>1. reply # "conflict"
      BY <1>10, <2>1 DEF Refused, Truthful
    <3>2. reply = "gone" => view.job \in expired /\ store[view.job] = "lost"
      BY <1>10, <2>1 DEF Refused, Truthful, Fits
    <3> QED
      BY <1>1, <1>2, <1>4, <1>10, <2>1, <2>3, <3>1, <3>2, RefusedFields DEF Shown
  <2> QED
    BY <1>1, <1>10, <2>2, <2>3, RefusedFields
<1> QED
  BY <1>1, <1>6, <1>7, <1>8, <1>9, <1>10, Moves DEF Background, Answered, Dropped

\* The chain goes on with one timer or one request, or it ends.
LEMMA ChainStep == ASSUME Inv, [Next]_vars PROVE OneAtATime'
<1>1. /\ TypeOK /\ Truth /\ OneAtATime /\ view \in View /\ reqs \subseteq Request
      /\ view.version \in Nat /\ \A r \in reqs : r.version \in Nat /\ Truthful(r)
  BY DEF Inv, TypeOK, Truth, View, Request, Versions
<1>2. CASE SubmitQuery \/ Unmount
  <2>1. /\ view'.version = view.version + 1
        /\ Unmount => reqs' \subseteq reqs
        /\ SubmitQuery =>
              reqs' \subseteq reqs \union {NewRequest("submit", view'.version, NoJob, 0)}
              /\ NewRequest("submit", view'.version, NoJob, 0) \in reqs'
    BY <1>1, <1>2, ResetFields DEF SubmitQuery, Unmount, Unaborted
  <2>2. \A r \in reqs : r.version < view'.version
    BY <1>1, <2>1 DEF OneAtATime
  <2>3. LET n == NewRequest("submit", view'.version, NoJob, 0)
        IN  n.version = view'.version /\ n.kind = "submit"
    BY DEF NewRequest
  <2> DEFINE n == NewRequest("submit", view'.version, NoJob, 0)
  <2> HIDE DEF n
  <2>4. CASE Unmount
    <3>1. \A r \in reqs' : r.version < view'.version /\ ~Active(r)'
      BY <1>1, <2>1, <2>2, <2>4 DEF Active
    <3> QED
      BY <1>1, <2>1, <2>4, <3>1, ResetFields DEF OneAtATime
  <2>5. CASE SubmitQuery
    <3>1. PICK q : q \in reqs' /\ q = n
      BY <2>1, <2>5 DEF n
    <3>2. /\ q.version = view'.version /\ q.kind = "submit" /\ Active(q)'
          /\ \A r \in reqs' : r = q \/ (r.version < view'.version /\ ~Active(r)')
      BY <1>1, <2>1, <2>2, <2>3, <2>5, <3>1 DEF Active, n
    <3>3. Fits(q)'
      BY <1>1, <2>5, <3>2, ResetFields DEF Fits, Pending
    <3> QED
      BY <1>1, <2>1, <2>5, <3>1, <3>2, <3>3, ResetFields DEF OneAtATime
  <2> QED
    BY <1>2, <2>4, <2>5
<1>3. CASE Mount
  <2>1. \A r \in reqs : ~Active(r)
    BY <1>1, <1>3 DEF OneAtATime, Fits, Pending, Mount
  <2>2. \A r \in reqs' : r \in reqs \/ (r.kind = "list" /\ r.version = 0)
    BY <1>3 DEF Mount, NewRequest
  <2>3. \A r \in reqs' : ~Active(r)' /\ r.version <= view'.version
    BY <1>1, <1>3, <2>1, <2>2, ResetFields DEF Active, OneAtATime
  <2> QED
    BY <1>1, <1>3, <2>3, ResetFields DEF OneAtATime
<1>4. CASE Poll
  <2>1. Pending /\ view.polling /\ ~view.submitting /\ \A r \in reqs : ~Active(r)
    BY <1>1, <1>4 DEF OneAtATime, Poll
  <2>2. PICK q : /\ q = NewRequest("get", view.version, view.timer.job, view.timer.retries)
                 /\ reqs' = reqs \union {q}
    BY <1>4 DEF Poll
  <2>3. q.kind = "get" /\ q.version = view.version
    BY <2>2 DEF NewRequest
  <2>4. \A r \in reqs' : Active(r)' => r = q
    BY <1>1, <1>4, <2>1, <2>2, PolledTimer DEF Active
  <2>5. Active(q)' /\ Fits(q)'
    BY <1>1, <1>4, <2>1, <2>3, PolledTimer DEF Active, Fits, Pending
  <2>6. \A r \in reqs' : r.version <= view'.version
    BY <1>1, <1>4, <2>2, <2>3, PolledTimer DEF OneAtATime
  <2>7. view'.mounted
    BY <1>1, <1>4, <2>1, PolledTimer DEF Pending
  <2> QED
    BY <1>1, <1>4, <2>2, <2>4, <2>5, <2>6, <2>7, PolledTimer DEF OneAtATime
<1>5. ASSUME view' = view,
             \A q \in reqs' : \E r \in reqs :
                /\ q.kind = r.kind /\ q.version = r.version
                /\ q.kind = "result" => q.job = r.job
      PROVE  /\ \A q \in reqs' : q.version <= view'.version
             /\ \A q \in reqs' : Active(q)' => Fits(q)' /\ \E r \in reqs : Active(r)
  BY <1>1, <1>5 DEF OneAtATime, Active, Fits, Pending
<1>6. CASE Background
  BY <1>1, <1>6 DEF Background, OneAtATime, Active, Fits, Pending
<1>7. ASSUME NEW r \in reqs, NEW n, Answered(r, n) PROVE OneAtATime'
  <2>1. \A q \in reqs' : Active(q)' => (q = n /\ Active(r)) \/ (q \in reqs /\ q # r /\ Active(q))
    BY <1>7 DEF Answered, Active
  <2>2. \A p, q \in reqs' : Active(p)' /\ Active(q)' => p = q
    BY <1>1, <2>1 DEF OneAtATime
  <2>3. /\ \A q \in reqs' : q.version <= view'.version
        /\ \A q \in reqs' : Active(q)' => Fits(q)' /\ \E p \in reqs : Active(p)
    BY <1>5, <1>7 DEF Answered
  <2>4. (\E p \in reqs : Active(p)) => \E q \in reqs' : Active(q)'
    BY <1>7 DEF Answered, Active
  <2> QED
    BY <1>1, <1>7, <2>2, <2>3, <2>4 DEF Answered, OneAtATime, Pending
<1>8. ASSUME NEW r \in reqs, Dropped(r) PROVE OneAtATime'
  <2>1. \A q \in reqs' : q \in reqs /\ (Active(q)' <=> Active(q))
    BY <1>8 DEF Dropped, Active
  <2>2. (\E p \in reqs : Active(p)) => \E q \in reqs' : Active(q)'
    BY <1>8 DEF Dropped, Active
  <2> QED
    BY <1>1, <1>8, <2>1, <2>2 DEF Dropped, OneAtATime, Fits, Pending
<1>9. ASSUME NEW r \in reqs, Active(r), view'.version = view.version,
             view'.mounted = view.mounted, reqs' = reqs \ {r}
      PROVE  /\ \A q \in reqs' : ~Active(q)' /\ q.version <= view'.version
             /\ view'.mounted
  BY <1>1, <1>9 DEF OneAtATime, Active, Fits, Pending
<1>10. ASSUME NEW r \in reqs, Called(r) PROVE OneAtATime'
  <2>1. Active(r) /\ Fits(r) /\ Owned(r.job, r.version)
    BY <1>1, <1>10 DEF Called, OneAtATime, Truthful, HasJob
  <2>2. After(r.job, 0) # NoTimer
    BY <2>1, ConsoleAssumption DEF After, NoTimer, Owned
  <2>3. CASE r.kind = "submit" /\ Submitted(r)
    <3>1. reqs' = reqs \ {r}
      BY <2>3 DEF Submitted
    <3> QED
      BY <1>1, <1>9, <2>1, <2>2, <2>3, <3>1, SubmittedFields DEF OneAtATime, Fits, Pending
  <2>4. CASE r.kind = "get" /\ Polled(r) /\ reqs' = reqs \ {r}
    BY <1>1, <1>9, <2>1, <2>2, <2>4, PolledFields DEF OneAtATime, Fits, Pending
  <2>5. CASE r.kind = "get" /\ Polled(r) /\ reqs' # reqs \ {r}
    <3>1. PICK q : /\ q = NewRequest("result", r.version, r.job, 0)
                   /\ reqs' = (reqs \ {r}) \union {q}
      BY <1>1, <2>5, PolledFields
    <3>2. q.kind = "result" /\ q.version = r.version /\ q.job = r.job
      BY <3>1 DEF NewRequest
    <3>3. /\ view'.version = view.version /\ view'.mounted = view.mounted
          /\ view'.timer = view.timer /\ view'.result = view.result /\ view'.error = view.error
          /\ view'.job = r.job /\ view'.status = "succeeded"
          /\ view'.submitting = view.submitting /\ ~view'.polling
      BY <1>1, <2>5, PolledFields
    <3>4. \A p \in reqs' : p = q \/ (p \in reqs /\ ~Active(p)')
      BY <1>1, <2>1, <3>1, <3>3 DEF OneAtATime, Active
    <3>5. Active(q)' /\ Fits(q)'
      BY <2>1, <2>5, <3>2, <3>3 DEF Active, Fits, Pending
    <3>6. \A p \in reqs' : p.version <= view'.version
      BY <1>1, <2>1, <3>1, <3>2, <3>3 DEF OneAtATime, Active
    <3> QED
      BY <2>1, <2>5, <3>1, <3>3, <3>4, <3>5, <3>6 DEF OneAtATime, Fits, Pending
  <2>6. CASE r.kind = "result" /\ Fetched(r)
    <3>1. reqs' = reqs \ {r}
      BY <2>6 DEF Fetched
    <3> QED
      BY <1>1, <1>9, <2>1, <2>6, <3>1, FetchedFields DEF OneAtATime, Fits, Pending
  <2> QED
    BY <1>10, <2>3, <2>4, <2>5, <2>6 DEF Called
<1>11. ASSUME NEW r \in reqs, NEW reply, Refused(r, reply) PROVE OneAtATime'
  <2>1. Active(r) /\ Fits(r) /\ reqs' = reqs \ {r}
    BY <1>1, <1>11, RefusedFields DEF Refused, OneAtATime
  <2>2. /\ \A q \in reqs' : ~Active(q)' /\ q.version <= view'.version
        /\ view'.mounted
    BY <1>1, <1>9, <1>11, <2>1, RefusedFields
  <2>3. CASE /\ r.kind = "get" /\ view'.timer = After(r.job, r.retries + 1)
             /\ view'.error = view.error
             /\ view'.submitting = view.submitting /\ view'.polling = view.polling
    <3>1. After(r.job, r.retries + 1) # NoTimer
      BY <1>1, <2>3, ConsoleAssumption DEF After, NoTimer, Truthful, HasJob, Owned
    <3> QED
      BY <1>1, <1>11, <2>1, <2>2, <2>3, <3>1, RefusedFields DEF OneAtATime, Fits, Pending
  <2>4. CASE /\ view'.timer = view.timer
             /\ view'.submitting = (view.submitting /\ r.kind # "submit")
             /\ view'.polling = (view.polling /\ r.kind # "get")
    BY <2>1, <2>2, <2>4 DEF OneAtATime, Fits
  <2> QED
    BY <1>1, <1>11, <2>3, <2>4, RefusedFields
<1> QED
  BY <1>1, <1>2, <1>3, <1>4, <1>6, <1>7, <1>8, <1>10, <1>11, Moves

\* cancelActive before a login, and the token of the tab in every new request.
LEMMA SessionStep == ASSUME Inv, [Next]_vars PROVE SessionHeld'
<1>1. /\ TypeOK /\ OneAtATime /\ SessionHeld /\ view \in View /\ reqs \subseteq Request
  BY DEF Inv, TypeOK
<1>2. CASE SubmitQuery
  <2>1. /\ reqs' \subseteq reqs \union {NewRequest("submit", view.version + 1, NoJob, 0)}
        /\ token' = token /\ view'.mounted
    BY <1>1, <1>2, ResetFields DEF SubmitQuery, Unaborted, sessionVars
  <2>2. NewRequest("submit", view.version + 1, NoJob, 0).token = token
    BY DEF NewRequest
  <2> HIDE DEF NewRequest
  <2> QED
    BY <1>1, <2>1, <2>2 DEF SessionHeld
<1>3. CASE Poll
  <2>1. /\ reqs' = reqs \union {NewRequest("get", view.version, view.timer.job, view.timer.retries)}
        /\ token' = token /\ view'.mounted
    BY <1>1, <1>3, PolledTimer DEF Poll, sessionVars, OneAtATime, Pending
  <2>2. NewRequest("get", view.version, view.timer.job, view.timer.retries).token = token
    BY DEF NewRequest
  <2> QED
    BY <1>1, <2>1, <2>2 DEF SessionHeld
<1>4. CASE Mount
  <2>1. /\ reqs' = reqs \union {NewRequest("list", 0, NoJob, 0)}
        /\ token' = token /\ view'.mounted
    BY <1>1, <1>4, ResetFields DEF Mount
  <2>2. NewRequest("list", 0, NoJob, 0).kind = "list"
    BY DEF NewRequest
  <2> QED
    BY <1>1, <2>1, <2>2 DEF SessionHeld
<1>5. CASE Unmount
  BY <1>1, <1>5 DEF Unmount, Unaborted, Survives, sessionVars, SessionHeld
<1>6. CASE Background /\ (token' \in {token, NoToken} \/ ~view.mounted)
  BY <1>1, <1>6 DEF Background, SessionHeld
<1>7. ASSUME NEW r \in reqs, NEW n, Answered(r, n) PROVE SessionHeld'
  BY <1>1, <1>7 DEF Answered, SessionHeld
<1>8. ASSUME NEW r \in reqs, Dropped(r), token' \in {token, NoToken} PROVE SessionHeld'
  BY <1>1, <1>8 DEF Dropped, SessionHeld
<1>9. ASSUME NEW r \in reqs, reqs' = reqs \ {r}, view'.mounted, token' \in {token, NoToken}
      PROVE  SessionHeld'
  BY <1>1, <1>9 DEF SessionHeld
<1>10. ASSUME NEW r \in reqs, Called(r), token' \in {token, NoToken} PROVE SessionHeld'
  <2>1. view.mounted
    BY <1>1, <1>10 DEF Called, OneAtATime, Fits, Pending
  <2>2. CASE Submitted(r)
    BY <1>1, <1>9, <1>10, <2>1, <2>2, SubmittedFields DEF Submitted
  <2>3. CASE Fetched(r)
    BY <1>1, <1>9, <1>10, <2>1, <2>3, FetchedFields DEF Fetched
  <2>4. CASE Polled(r)
    <3>1. /\ reqs' \subseteq reqs \union {NewRequest("result", r.version, r.job, 0)}
          /\ view'.mounted
      BY <1>1, <2>1, <2>4, PolledFields
    <3>2. NewRequest("result", r.version, r.job, 0).token = token
      BY DEF NewRequest
    <3> QED
      BY <1>1, <1>10, <3>1, <3>2 DEF SessionHeld
  <2> QED
    BY <1>10, <2>2, <2>3, <2>4 DEF Called
<1>11. ASSUME NEW r \in reqs, NEW reply, Refused(r, reply), token' \in {token, NoToken}
       PROVE  SessionHeld'
  <2>1. view.mounted
    BY <1>1, <1>11 DEF Refused, OneAtATime, Fits, Pending
  <2> QED
    BY <1>1, <1>9, <1>11, <2>1, RefusedFields
<1> QED
  BY <1>1, <1>2, <1>3, <1>4, <1>5, <1>6, <1>7, <1>8, <1>10, <1>11, Moves

\* An empty tab and an empty database satisfy the invariant.
LEMMA InitInv == Init => Inv
<1> SUFFICES ASSUME Init PROVE Inv
  OBVIOUS
<1>1. TypeOK
  <2>1. Fresh(0) \in View /\ 0 \in Versions
    BY Constants, ConsoleAssumption DEF Versions
  <2> QED
    BY <2>1, NextLogin, ConsoleAssumption DEF Init, TypeOK, Status
<1>2. Truth
  BY DEF Init, Truth
<1>3. Shown
  BY FreshFields DEF Init, Shown
<1>4. OneAtATime
  BY FreshFields DEF Init, OneAtATime
<1>5. SessionHeld
  BY DEF Init, SessionHeld
<1> QED
  BY <1>1, <1>2, <1>3, <1>4, <1>5 DEF Inv

\* The invariant holds in every reachable state, for any number of jobs and views.
THEOREM Invariance == Spec => []Inv
<1>1. ASSUME Inv, [Next]_vars PROVE Inv'
  BY <1>1, TypeStep, TruthStep, ShownStep, ChainStep, SessionStep DEF Inv
<1> QED
  BY <1>1, InitInv, PTL DEF Spec

\* Rows, requests and the view keep their types in every reachable state.
THEOREM TypeCorrect == Spec => []TypeOK
<1>1. Inv => TypeOK
  BY DEF Inv
<1> QED
  BY <1>1, Invariance, PTL

\* The version check of ConsoleView.vue keeps the callbacks of cancelled requests
\* away from the view.
THEOREM ShownCorrect == Spec => []ShownIsCurrent
<1>1. Inv => ShownIsCurrent
  BY DEF Inv, Shown, Owned, ShownIsCurrent
<1> QED
  BY <1>1, Invariance, PTL

\* poll fetches the result only of a job it has seen succeed.
THEOREM ResultCorrect == Spec => []ResultFollowsSuccess
<1>1. Inv => ResultFollowsSuccess
  BY DEF Inv, Shown, NoError, ResultFollowsSuccess
<1> QED
  BY <1>1, Invariance, PTL

\* mapStoreError compares with result_expires_at, and what is missing stays missing.
THEOREM ExpiredCorrect == Spec => []ExpiredIsTrue
<1>1. Inv => ExpiredIsTrue
  BY DEF Inv, Shown, NoError, ExpiredIsTrue
<1> QED
  BY <1>1, Invariance, PTL

\* Every callback either continues the chain or clears the flags.
THEOREM ChainCorrect == Spec => []OneChain
<1>1. ASSUME Inv PROVE OneChain
  <2> DEFINE A == { r \in reqs : r.kind # "list" /\ r.version = view.version }
  <2>1. OneAtATime /\ A = { r \in reqs : Active(r) }
    BY <1>1 DEF Inv, Active
  <2>2. CASE A = {}
    <3>1. Cardinality(A) = 0
      BY <2>2, FS_EmptySet
    <3> QED
      BY <2>1, <2>2, <3>1 DEF OneChain, Chain, OneAtATime
  <2>3. CASE A # {}
    <3>1. PICK r \in A : A = {r}
      BY <2>1, <2>3 DEF OneAtATime
    <3>2. Cardinality(A) = 1
      BY <3>1, FS_Singleton
    <3>3. view.timer = NoTimer
      BY <2>1, <3>1 DEF OneAtATime, Fits
    <3> QED
      BY <3>2, <3>3 DEF OneChain, Chain
  <2> QED
    BY <2>2, <2>3
<1> QED
  BY <1>1, Invariance, PTL

\* Leaving the console aborts what waits with the old token (onUnmounted), and only
\* then can there be a new one.
THEOREM SessionCorrect == Spec => FreshTokenSurvives
<1> DEFINE Ends == /\ token \in valid
                   /\ token' = NoToken
                   /\ ~Logout
                   => \E r \in reqs \ reqs' : r.kind = "list" /\ r.token # token
<1>1. ASSUME Inv, [Next]_vars PROVE Ends
  <2> SUFFICES ASSUME token \in valid, token' = NoToken, ~Logout
               PROVE  \E r \in reqs \ reqs' : r.kind = "list" /\ r.token # token
    OBVIOUS
  <2>1. token # NoToken
    BY <1>1, ConsoleAssumption DEF Inv, TypeOK
  <2>2. PICK r \in reqs : Unauthorized(r)
    BY <1>1, <2>1 DEF Next, SubmitQuery, Poll, Mount, Unmount, Login, TokenExpires, Handle, List,
       Submit, Get, ReadRow, ReadStore, Fails, NetworkFails, Body, Finish, Lose, Expire,
       sessionVars, vars
  <2> QED
    BY <1>1, <2>1, <2>2 DEF Unauthorized, Rejected, Drop, Inv, SessionHeld
<1> QED
  BY <1>1, Invariance, PTL DEF Spec, FreshTokenSurvives
=============================================================================
