------------------------------- MODULE Console -------------------------------
(* The query console of the web client against the API: one browser tab with   *)
(* its session token, the ConsoleView with its version counter, poll timer and *)
(* abort controller, the requests in flight, and the rows and cached results   *)
(* the API answers from.  What the workers do to a job is one action here      *)
(* (QueryPipeline has it in full).                                             *)
(*                                                                             *)
(* A request is handled in two steps, as fetch resolves at the headers and the *)
(* body is awaited after it.  client.ts swallows every failure while it reads  *)
(* the body of an error, an abort included: such a request still calls back.   *)
EXTENDS Naturals, FiniteSets

CONSTANTS Job,          \* the jobs that may be submitted, 1..n
          NoJob,
          Token,        \* session tokens, 1..n in the order of the logins
          NoToken,
          MaxRetries,   \* MAX_POLL_RETRIES
          MaxVersion,   \* bound: calls of cancelActive
          MaxMounts,    \* bound: how often the view is mounted
          MaxFaults     \* bound: answers that fail

ASSUME ConsoleAssumption ==
    /\ Job \subseteq Nat /\ NoJob \notin Job
    /\ NoToken \notin Token
    /\ IsFiniteSet(Token) /\ Token = 1..Cardinality(Token)
    /\ {MaxRetries, MaxVersion, MaxMounts, MaxFaults} \subseteq Nat

VARIABLES row,      \* query_jobs: the status of each job and, as history, the
                    \* version of the submission that created it
          store,    \* query results in Redis
          expired,  \* jobs whose result_expires_at has passed
          view,     \* the ConsoleView
          reqs,     \* requests in flight
          token,    \* what the tab has in sessionStorage
          valid,    \* the tokens that have not expired
          logins,   \* tokens issued so far
          mounts,   \* views mounted so far
          faults    \* failed answers so far

vars == <<row, store, expired, view, reqs, token, valid, logins, mounts, faults>>
serverVars == <<row, store, expired>>
sessionVars == <<token, valid, logins, mounts>>

Status == {"absent", "queued", "succeeded", "failed"}
Versions == 0..MaxVersion
Retries == 0..MaxRetries
\* An answer: ok, or the kinds of errors the view tells apart.
Reply == {"none", "ok", "notfound", "conflict", "gone", "unavailable", "fault", "refused"}
NoTimer == [job |-> NoJob, retries |-> 0]
NoError == [version |-> 0, reply |-> "none"]

Request == [kind : {"list", "submit", "get", "result"}, version : Versions,
            job : Job \union {NoJob}, retries : Retries,
            token : Token \union {NoToken},
            phase : {"sent", "read", "headers"}, reply : Reply, seen : Status]

View == [mounted : BOOLEAN, version : Versions, submitting : BOOLEAN, polling : BOOLEAN,
         job : Job \union {NoJob}, status : Status, result : Job \union {NoJob},
         timer : [job : Job \union {NoJob}, retries : Retries],
         error : [version : Versions, reply : Reply]]

TypeOK ==
    /\ row \in [Job -> [status : Status, version : Versions]]
    /\ store \in [Job -> {"empty", "stored", "lost"}]
    /\ expired \subseteq Job
    /\ view \in View
    /\ reqs \subseteq Request
    /\ token \in Token \union {NoToken}
    /\ valid \subseteq Token
    /\ logins \in 0..Cardinality(Token)
    /\ mounts \in 0..MaxMounts
    /\ faults \in 0..MaxFaults

\* A view without job; versions go on counting, so that no request of an earlier view
\* is taken for one of a later view.
Fresh(version) == [mounted |-> FALSE, version |-> version, submitting |-> FALSE,
                   polling |-> FALSE, job |-> NoJob, status |-> "absent",
                   result |-> NoJob, timer |-> NoTimer, error |-> NoError]

Init ==
    /\ row = [j \in Job |-> [status |-> "absent", version |-> 0]]
    /\ store = [j \in Job |-> "empty"]
    /\ expired = {}
    /\ view = Fresh(0)
    /\ reqs = {}
    /\ token = NoToken
    /\ valid = {}
    /\ logins = 0
    /\ mounts = 0
    /\ faults = 0
-----------------------------------------------------------------------------
\* ConsoleView.

NewRequest(kind, version, j, retries) ==
    [kind |-> kind, version |-> version, job |-> j, retries |-> retries,
     token |-> token, phase |-> "sent", reply |-> "none", seen |-> "absent"]

\* cancelActive, besides the new version and the cleared timer: the requests of
\* the active controller are aborted.  Those whose error body is being read
\* survive; the list of data sources has no abort signal.
Survives(r) == \/ r.kind = "list"
               \/ r.phase = "headers" /\ r.reply # "ok"
Unaborted == { r \in reqs : Survives(r) }

\* submitQuery up to its await; the button is disabled while submitting or polling.
SubmitQuery ==
    /\ view.mounted /\ ~view.submitting /\ ~view.polling
    /\ \E j \in Job : row[j].status = "absent"
    /\ view.version + 1 \in Versions
    /\ view' = [Fresh(view.version + 1) EXCEPT !.mounted = TRUE, !.submitting = TRUE]
    /\ reqs' = Unaborted \union {NewRequest("submit", view.version + 1, NoJob, 0)}
    /\ UNCHANGED <<serverVars, sessionVars, faults>>

\* poll up to its await.
Poll ==
    /\ view.timer # NoTimer
    /\ view' = [view EXCEPT !.timer = NoTimer]
    /\ reqs' = reqs \union
                   {NewRequest("get", view.version, view.timer.job, view.timer.retries)}
    /\ UNCHANGED <<serverVars, sessionVars, faults>>

After(j, retries) == [job |-> j, retries |-> retries]

\* The awaited call of r returned: what submitQuery, poll and fetchResult do.
Submitted(r) ==
    /\ view' = [view EXCEPT !.job = r.job, !.status = "queued", !.submitting = FALSE,
                            !.polling = TRUE, !.timer = After(r.job, 0)]
    /\ reqs' = reqs \ {r}

\* Mutants of Polled: the result is fetched for every terminal status; a failed
\* job leaves the view polling.
Polled_Terminal(r) ==
    LET next == [view EXCEPT !.job = r.job, !.status = r.seen] IN
    IF r.seen \in {"succeeded", "failed"}
    THEN /\ view' = [next EXCEPT !.polling = FALSE]
         /\ reqs' = (reqs \ {r}) \union {NewRequest("result", r.version, r.job, 0)}
    ELSE /\ view' = [next EXCEPT !.timer = After(r.job, 0)]
         /\ reqs' = reqs \ {r}

Polled_StillPolling(r) ==
    LET next == [view EXCEPT !.job = r.job, !.status = r.seen] IN
    IF r.seen = "succeeded"
    THEN /\ view' = [next EXCEPT !.polling = FALSE]
         /\ reqs' = (reqs \ {r}) \union {NewRequest("result", r.version, r.job, 0)}
    ELSE /\ view' = [next EXCEPT !.timer = IF r.seen = "queued" THEN After(r.job, 0) ELSE @]
         /\ reqs' = reqs \ {r}

Polled(r) ==
    LET next == [view EXCEPT !.job = r.job, !.status = r.seen] IN
    \/ /\ r.seen = "succeeded"
       /\ view' = [next EXCEPT !.polling = FALSE]
       /\ reqs' = (reqs \ {r}) \union {NewRequest("result", r.version, r.job, 0)}
    \/ /\ r.seen = "failed"
       /\ view' = [next EXCEPT !.polling = FALSE]
       /\ reqs' = reqs \ {r}
    \/ /\ r.seen = "queued"
       /\ view' = [next EXCEPT !.timer = After(r.job, 0)]
       /\ reqs' = reqs \ {r}

Fetched(r) ==
    /\ view' = [view EXCEPT !.result = r.job]
    /\ reqs' = reqs \ {r}

\* Mutant of IsStale: no version check after an await.
IsStale_Never(r) == FALSE

\* The version check after every await.
IsStale(r) == r.version # view.version

Drop(r) == reqs' = reqs \ {r} /\ UNCHANGED view

Resolved(r) ==
    \/ IsStale(r) /\ Drop(r)
    \/ /\ ~IsStale(r)
       /\ \/ r.kind = "submit" /\ Submitted(r)
          \/ r.kind = "get" /\ Polled(r)
          \/ r.kind = "result" /\ Fetched(r)

\* Mutant of Retryable: no limit.
Retryable_Always(r, reply) == r.kind = "get" /\ reply \in {"fault", "unavailable"}

\* 429, 5xx and network errors of a poll are retried MAX_POLL_RETRIES times.
Retryable(r, reply) == /\ r.kind = "get"
                       /\ reply \in {"fault", "unavailable"}
                       /\ r.retries < MaxRetries

\* Mutant of Rejected: the view that gave up goes on polling.
Rejected_StillPolling(r, reply) ==
    \/ (IsStale(r) \/ r.kind = "list") /\ Drop(r)
    \/ /\ ~IsStale(r) /\ r.kind # "list"
       /\ reqs' = reqs \ {r}
       /\ view' = IF Retryable(r, reply)
                  THEN [view EXCEPT !.timer = After(r.job, r.retries + 1)]
                  ELSE [view EXCEPT !.error = [version |-> r.version, reply |-> reply],
                                    !.submitting = FALSE]

\* The awaited call threw: back-off or an error message.
Rejected(r, reply) ==
    \/ (IsStale(r) \/ r.kind = "list") /\ Drop(r)
    \/ /\ ~IsStale(r) /\ r.kind # "list"
       /\ reqs' = reqs \ {r}
       /\ \/ /\ Retryable(r, reply)
             /\ view' = [view EXCEPT !.timer = After(r.job, r.retries + 1)]
          \/ /\ ~Retryable(r, reply)
             /\ view' = [view EXCEPT !.error = [version |-> r.version, reply |-> reply],
                                     !.submitting = IF r.kind = "submit" THEN FALSE ELSE @,
                                     !.polling = IF r.kind = "get" THEN FALSE ELSE @]
-----------------------------------------------------------------------------
\* The tab: mounting and leaving the view, the session.

\* The router lets nobody without a token into the console; onMounted asks for
\* the list of data sources.
Mount ==
    /\ ~view.mounted
    /\ token # NoToken
    /\ mounts < MaxMounts
    /\ mounts' = mounts + 1
    /\ view' = [Fresh(view.version) EXCEPT !.mounted = TRUE]
    /\ reqs' = reqs \union {NewRequest("list", 0, NoJob, 0)}
    /\ UNCHANGED <<serverVars, token, valid, logins, faults>>

\* Mutant of Unmount: no onUnmounted(cancelActive).
Unmount_NoCancel ==
    /\ view.mounted
    /\ view' = Fresh(view.version)
    /\ UNCHANGED <<serverVars, sessionVars, reqs, faults>>

\* Another page, or the login page after the token is gone: cancelActive.
Unmount ==
    /\ view.mounted
    /\ view.version + 1 \in Versions
    /\ view' = Fresh(view.version + 1)
    /\ reqs' = Unaborted
    /\ UNCHANGED <<serverVars, sessionVars, faults>>

\* The login page is shown in place of the console.
Login ==
    /\ token = NoToken /\ ~view.mounted
    /\ logins < Cardinality(Token)
    /\ logins' = logins + 1
    /\ token' = logins + 1
    /\ valid' = valid \union {logins + 1}
    /\ UNCHANGED <<serverVars, view, reqs, mounts, faults>>

Logout ==
    /\ token # NoToken
    /\ token' = NoToken
    /\ UNCHANGED <<serverVars, view, reqs, valid, logins, mounts, faults>>

TokenExpires ==
    /\ \E t \in valid : valid' = valid \ {t}
    /\ UNCHANGED <<serverVars, view, reqs, token, logins, mounts, faults>>
-----------------------------------------------------------------------------
\* The API.  A request keeps what was read for it until its callback runs.

Fault == faults < MaxFaults /\ faults' = faults + 1

Handles(r, kind, phase) == r \in reqs /\ r.kind = kind /\ r.phase = phase

\* The middleware has verified the token of r.
Admitted(r, kind) == Handles(r, kind, "sent") /\ r.token \in valid

Update(r, new) == reqs' = (reqs \ {r}) \union {new}
Answer(r, reply) == Update(r, [r EXCEPT !.phase = "headers", !.reply = reply])

\* 401: client.ts clears whatever token it has and goes to the login page.
Unauthorized(r) ==
    /\ r \in reqs /\ r.phase = "sent" /\ r.token \notin valid
    /\ token' = NoToken
    /\ Rejected(r, "refused")
    /\ UNCHANGED <<serverVars, valid, logins, mounts, faults>>

\* The list of data sources; onMounted ignores its errors.
List(r) ==
    /\ Admitted(r, "list")
    /\ Drop(r)
    /\ UNCHANGED <<serverVars, sessionVars, faults>>

\* A job is created, or the question or its data source is rejected.
Submit(r) ==
    /\ Admitted(r, "submit")
    /\ \/ \E j \in Job :
             /\ \A i \in Job : row[i].status = "absent" <=> i >= j
             /\ row' = [row EXCEPT ![j] = [status |-> "queued", version |-> r.version]]
             /\ Update(r, [r EXCEPT !.phase = "headers", !.reply = "ok", !.job = j])
       \/ Answer(r, "notfound") /\ UNCHANGED row
    /\ UNCHANGED <<store, expired, view, sessionVars, faults>>

Get(r) ==
    /\ Admitted(r, "get")
    /\ Update(r, [r EXCEPT !.phase = "headers", !.reply = "ok", !.seen = row[r.job].status])
    /\ UNCHANGED <<serverVars, view, sessionVars, faults>>

\* GetResult reads the row, then Redis, then the clock.
ReadRow(r) ==
    /\ Admitted(r, "result")
    /\ \/ row[r.job].status = "succeeded" /\ Update(r, [r EXCEPT !.phase = "read"])
       \/ row[r.job].status # "succeeded" /\ Answer(r, "conflict")
    /\ UNCHANGED <<serverVars, view, sessionVars, faults>>

\* Mutant of MissingReply: a missing result is an expired one.
MissingReply_Gone(j) == "gone"

\* mapStoreError of a result that is not in Redis.
MissingReply(j) == IF j \in expired THEN "gone" ELSE "unavailable"

ReadStore(r) ==
    /\ Handles(r, "result", "read")
    /\ \/ store[r.job] = "stored" /\ Answer(r, "ok")
       \/ store[r.job] # "stored" /\ Answer(r, MissingReply(r.job))
    /\ UNCHANGED <<serverVars, view, sessionVars, faults>>

\* An internal error, 429 of a proxy, Redis down: an error with a body.
Fails(r) ==
    /\ r \in reqs /\ r.kind # "list" /\ r.phase \in {"sent", "read"}
    /\ Fault
    /\ Answer(r, "fault")
    /\ UNCHANGED <<serverVars, view, sessionVars>>

\* The network fails before the headers, or while a body is read.
NetworkFails(r) ==
    /\ r \in reqs /\ r.kind # "list"
    /\ r.phase \in {"sent", "read"} \/ r.reply = "ok"
    /\ Fault
    /\ Rejected(r, "fault")
    /\ UNCHANGED <<serverVars, sessionVars>>

\* The body is complete: the callback runs.
Body(r) ==
    /\ r \in reqs /\ r.phase = "headers"
    /\ \/ r.reply = "ok" /\ Resolved(r)
       \/ r.reply # "ok" /\ Rejected(r, r.reply)
    /\ UNCHANGED <<serverVars, sessionVars, faults>>
-----------------------------------------------------------------------------
\* The workers, Redis and the clock.

\* A success has its result in Redis (SucceededHasResult of QueryPipeline).
Finish(j) ==
    /\ row[j].status = "queued"
    /\ \/ /\ row' = [row EXCEPT ![j].status = "succeeded"]
          /\ store' = [store EXCEPT ![j] = "stored"]
       \/ row' = [row EXCEPT ![j].status = "failed"] /\ UNCHANGED store
    /\ UNCHANGED <<expired, view, reqs, sessionVars, faults>>

\* Bound: results are lost and expire only while the view shows their job; the
\* others are not asked for any more.
Watched(j) == view.job = j

\* The TTL of the key, an eviction or a restart of Redis.
Lose(j) ==
    /\ store[j] = "stored" /\ Watched(j)
    /\ store' = [store EXCEPT ![j] = "lost"]
    /\ UNCHANGED <<row, expired, view, reqs, sessionVars, faults>>

\* result_expires_at passes; the key may live longer, it was written later.
Expire(j) ==
    /\ row[j].status = "succeeded" /\ j \notin expired /\ Watched(j)
    /\ expired' = expired \union {j}
    /\ UNCHANGED <<row, store, view, reqs, sessionVars, faults>>
-----------------------------------------------------------------------------
Handle(r) == \/ Unauthorized(r) \/ List(r) \/ Submit(r) \/ Get(r)
             \/ ReadRow(r) \/ ReadStore(r)

Next ==
    \/ SubmitQuery \/ Poll
    \/ Mount \/ Unmount \/ Login \/ Logout \/ TokenExpires
    \/ \E r \in reqs : Handle(r) \/ Fails(r) \/ NetworkFails(r) \/ Body(r)
    \/ \E j \in Job : Finish(j) \/ Lose(j) \/ Expire(j)

Spec == Init /\ [][Next]_vars

\* Timers fire, requests are answered, jobs settle (EverySubmittedJobSettles of
\* QueryPipeline).  The user owes nothing.
Fairness ==
    /\ WF_vars(Poll)
    /\ WF_vars(\E r \in reqs : r.kind # "list" /\ (Handle(r) \/ Body(r)))
    /\ \A j \in Job : WF_vars(Finish(j))

FairSpec == Spec /\ Fairness
-----------------------------------------------------------------------------
\* Properties.

\* However callbacks of cancelled requests come in, a visible view shows the job,
\* the result and the error of its latest submission.
ShownIsCurrent ==
    view.mounted =>
        /\ view.job # NoJob => row[view.job].version = view.version
        /\ view.result # NoJob => row[view.result].version = view.version
        /\ view.error # NoError => view.error.version = view.version

\* Rows are shown for a job the view and the database both know as succeeded, and
\* a view that saw the success is not told that the result is not ready.
ResultFollowsSuccess ==
    /\ view.result # NoJob => /\ view.result = view.job
                              /\ view.status = "succeeded"
                              /\ row[view.result].status = "succeeded"
    /\ view.error.reply # "conflict"

\* "Expired" is final: it is said only after result_expires_at, when the rows can
\* no longer be had; a result that Redis lost early is "unavailable".
ExpiredIsTrue ==
    view.error.reply = "gone" /\ view.mounted =>
        /\ view.job \in expired
        /\ store[view.job] = "lost"

\* There is one poll chain: a spinning view has exactly one timer or request to
\* wait for, so it neither hangs nor polls twice.
Chain == Cardinality({ r \in reqs : r.kind # "list" /\ r.version = view.version })
         + (IF view.timer = NoTimer THEN 0 ELSE 1)
OneChain ==
    /\ Chain <= 1
    /\ view.mounted /\ (view.submitting \/ view.polling) => Chain = 1
    /\ view.timer # NoTimer => view.polling

\* A request that was sent with an old token and is refused late does not end the
\* session that was opened since; only the list of data sources, which cannot be
\* aborted, may.
FreshTokenSurvives ==
    [][ /\ token \in valid
        /\ token' = NoToken
        /\ ~Logout
        => \E r \in reqs \ reqs' : r.kind = "list" /\ r.token # token ]_vars

\* The spinner stops: the job settles, or the answers fail once too often.
PollingStops == view.polling ~> ~view.polling
=============================================================================
