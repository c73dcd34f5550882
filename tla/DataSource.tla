------------------------------ MODULE DataSource ------------------------------
(* The data sources of one user: requests of the API that create, update,      *)
(* delete them and submit jobs for them, and the jobs of the workers, which    *)
(* open the source of a job by its id.  The rows of other users play no part:  *)
(* every statement but the worker's compares user_id.                          *)
(*                                                                             *)
(* A request runs once.  One action contains one transaction, except for       *)
(* Delete, whose transaction is split where it reads and where it locks.       *)
(* A job moves along ValidTransitions, as QueryPipeline shows it does.         *)
EXTENDS JobStatus

CONSTANTS Source,     \* ids of data sources
          Request,    \* requests; the job that request r submits is job r
          Setting,    \* connection settings and password
          NoSource    \* the source of a request that has none yet

ASSUME DataSourceAssumption == NoSource \notin Source

VARIABLES src,      \* data_sources
          req,      \* the requests
          job,      \* query_jobs: status and data_source_id
          opened    \* what OpenForJob returned in the current run of a job

vars == <<src, req, job, opened>>

SourceStatus == { "absent", "live", "deleted" }
SourceRow == [status : SourceStatus, settings : Setting]

PC == { "idle", "enqueue", "check", "softdelete", "patch", "readback",
        "submitted", "created", "deleted", "updated",
        "notfound", "duplicate", "active", "internal" }
RequestState == [pc : PC, src : Source \union {NoSource}]
Unsubmitted == [status |-> "absent", src |-> NoSource]
Job == [status : Status, src : Source] \union {Unsubmitted}

TypeOK ==
    /\ src \in [Source -> SourceRow]
    /\ req \in [Request -> RequestState]
    /\ job \in [Request -> Job]
    /\ opened \in [Request -> {"no", "yes", "missing"}]

Init ==
    /\ src \in [Source -> [status : {"absent"}, settings : Setting]]
    /\ req = [r \in Request |-> [pc |-> "idle", src |-> NoSource]]
    /\ job = [r \in Request |-> Unsubmitted]
    /\ opened = [r \in Request |-> "no"]
-----------------------------------------------------------------------------
At(r, pc) == req[r].pc = pc
Goto(r, pc) == req' = [req EXCEPT ![r].pc = pc]
Begin(r, s, pc) == req' = [req EXCEPT ![r] = [pc |-> pc, src |-> s]]

Live(s) == src[s].status = "live"

\* The statuses HasActiveJobs counts.
Counted == { "pending", "queued", "generating", "validating", "executing" }
HasActiveJobs(s) == \E j \in Request : job[j].src = s /\ job[j].status \in Counted

\* Mutant of Locked: the SELECT of HasActiveJobs is not FOR SHARE.
Locked_Never(s) == FALSE

\* The shared lock of HasActiveJobs on the jobs of s and on the gaps between them,
\* held until the transaction of Delete ends: no job of s is inserted or updated.
Locked(s) == \E r \in Request : At(r, "softdelete") /\ req[r].src = s
-----------------------------------------------------------------------------
\* Requests.

\* Insert and encryption with the id in one transaction.  A Create that is refused
\* or fails leaves nothing behind.
Create(r, s, settings) ==
    /\ At(r, "idle")
    /\ src[s].status = "absent"
    /\ src' = [src EXCEPT ![s] = [status |-> "live", settings |-> settings]]
    /\ Begin(r, s, "created")
    /\ UNCHANGED <<job, opened>>

\* Submit: ExistsForUser, outside any transaction.
CheckSource(r, s) ==
    /\ At(r, "idle")
    /\ Begin(r, s, IF Live(s) THEN "enqueue" ELSE "notfound")
    /\ UNCHANGED <<src, job, opened>>

\* Mutant of Enqueue: data_source_id is left NULL, as in rows of the first version.
Enqueue_Null(r) ==
    /\ At(r, "enqueue")
    /\ ~Locked(req[r].src)
    /\ job' = [job EXCEPT ![r] = [status |-> "queued", src |-> NoSource]]
    /\ Goto(r, "submitted")
    /\ UNCHANGED <<src, opened>>

\* Submit: CreateAndEnqueue.  The foreign key is satisfied by a deleted row too.
Enqueue(r) ==
    /\ At(r, "enqueue")
    /\ ~Locked(req[r].src)
    /\ job' = [job EXCEPT ![r] = [status |-> "queued", src |-> req[r].src]]
    /\ Goto(r, "submitted")
    /\ UNCHANGED <<src, opened>>

\* Delete: the ownership check at the start of the transaction.
FindForDelete(r, s) ==
    /\ At(r, "idle")
    /\ Begin(r, s, IF Live(s) THEN "check" ELSE "notfound")
    /\ UNCHANGED <<src, job, opened>>

\* Delete: HasActiveJobs.  A refusal ends the transaction.
CheckJobs(r) ==
    /\ At(r, "check")
    /\ Goto(r, IF HasActiveJobs(req[r].src) THEN "active" ELSE "softdelete")
    /\ UNCHANGED <<src, job, opened>>

\* Mutant of SoftDelete: the number of affected rows is not looked at.
SoftDelete_Unchecked(r) ==
    /\ At(r, "softdelete")
    /\ src' = [src EXCEPT ![req[r].src].status = "deleted"]
    /\ Goto(r, "deleted")
    /\ UNCHANGED <<job, opened>>

\* Delete: SoftDelete and commit.  A concurrent Delete may have been faster.
SoftDelete(r) ==
    /\ At(r, "softdelete")
    /\ \/ /\ Live(req[r].src)
          /\ src' = [src EXCEPT ![req[r].src].status = "deleted"]
          /\ Goto(r, "deleted")
       \/ ~Live(req[r].src) /\ Goto(r, "notfound") /\ UNCHANGED src
    /\ UNCHANGED <<job, opened>>

\* Update with a new password: the row is read in a transaction before the
\* password is encrypted.
FindForUpdate(r, s) ==
    /\ At(r, "idle")
    /\ Begin(r, s, IF Live(s) THEN "patch" ELSE "notfound")
    /\ UNCHANGED <<src, job, opened>>

\* Mutant of Patch: the row that FindByID found is taken to be still alive.
Patch_Unfenced(r, settings) ==
    /\ At(r, "patch")
    /\ src' = [src EXCEPT ![req[r].src].settings = settings]
    /\ Goto(r, "readback")
    /\ UNCHANGED <<job, opened>>

\* Update: the statement decides on a live row, whatever was read before, and
\* commits.
Patch(r, settings) ==
    /\ At(r, "patch")
    /\ \/ /\ Live(req[r].src)
          /\ src' = [src EXCEPT ![req[r].src].settings = settings]
          /\ Goto(r, "readback")
       \/ ~Live(req[r].src) /\ Goto(r, "notfound") /\ UNCHANGED src
    /\ UNCHANGED <<job, opened>>

\* Update without a new password begins with the statement.
BeginPatch(r, s) ==
    /\ At(r, "idle")
    /\ Begin(r, s, "patch")
    /\ UNCHANGED <<src, job, opened>>

\* Update: the row is read again for the answer; it may be deleted by now.
ReadBack(r) ==
    /\ At(r, "readback")
    /\ Goto(r, IF Live(req[r].src) THEN "updated" ELSE "internal")
    /\ UNCHANGED <<src, job, opened>>

\* Patch: another row of the user, deleted or not, has the label.
LabelTaken(r) ==
    /\ At(r, "patch")
    /\ Goto(r, "duplicate")
    /\ UNCHANGED <<src, job, opened>>

\* A statement fails, a lock wait times out or InnoDB chooses the transaction as
\* the victim of a deadlock: it is rolled back.
Rollback(r) ==
    /\ req[r].pc \in { "enqueue", "check", "softdelete", "patch", "readback" }
    /\ Goto(r, "internal")
    /\ UNCHANGED <<src, job, opened>>
-----------------------------------------------------------------------------
\* Workers.

\* A worker changes the status of job j.  It leaves generating for a later stage
\* only with an open source; each run opens the source anew.
Move(j, to) ==
    /\ <<job[j].status, to>> \in ValidTransitions
    /\ ~Locked(job[j].src)
    /\ job[j].status = "generating" /\ to = "validating" => opened[j] = "yes"
    /\ job' = [job EXCEPT ![j].status = to]
    /\ opened' = [opened EXCEPT ![j] = IF to = "generating" THEN "no" ELSE @]
    /\ UNCHANGED <<src, req>>

\* Mutant of Found: FindByID in place of FindByIDRaw.
Found_NotDeleted(s) == Live(s)

\* FindByIDRaw sees deleted rows.
Found(s) == src[s].status # "absent"

\* OpenForJob
OpenForJob(j) ==
    /\ job[j].status = "generating" /\ opened[j] = "no"
    /\ opened' = [opened EXCEPT ![j] = IF Found(job[j].src) THEN "yes" ELSE "missing"]
    /\ UNCHANGED <<src, req, job>>
-----------------------------------------------------------------------------
Next ==
    \/ \E r \in Request, s \in Source :
          \/ CheckSource(r, s) \/ FindForDelete(r, s)
          \/ FindForUpdate(r, s) \/ BeginPatch(r, s)
          \/ \E settings \in Setting : Create(r, s, settings)
    \/ \E r \in Request, settings \in Setting : Patch(r, settings)
    \/ \E r \in Request : \/ Enqueue(r) \/ CheckJobs(r) \/ SoftDelete(r)
                          \/ ReadBack(r) \/ LabelTaken(r) \/ Rollback(r)
    \/ \E j \in Request : OpenForJob(j)
    \/ \E j \in Request, to \in Status : Move(j, to)

Spec == Init /\ [][Next]_vars
-----------------------------------------------------------------------------
\* Properties.

\* What the shared lock is for: from the check of a Delete to its end no job that
\* the check counts appears, neither by a submission nor because a worker takes up
\* a retrying job.
NoJobSlipsIn ==
    \A r \in Request : At(r, "softdelete") => ~HasActiveJobs(req[r].src)

\* A job never loses its source: whenever a worker opens it, in the first run or
\* in a retry, the row is there, although it may have been deleted since.
JobsKeepTheirSource ==
    \A j \in Request : opened[j] # "missing"

\* Of several concurrent deletions of a source exactly the one that deleted it is
\* answered with success.
OneDeletion ==
    \A s \in Source :
        LET winners == { r \in Request : At(r, "deleted") /\ req[r].src = s } IN
        /\ \A q, r \in winners : q = r
        /\ src[s].status = "deleted" <=> winners # {}

\* A deleted source is final: an Update that read it before the deletion does not
\* change what the jobs that still run on it connect to, nor does it come back.
DeletedIsFrozen ==
    [][\A s \in Source : src[s].status = "deleted" => src'[s] = src[s]]_vars

\* What HasActiveJobs promises (repository.go:31, "any non-terminal query job"): a
\* deletion passes the check only when every job of the source is finished.
DeletedWhenFinished ==
    \A r, j \in Request :
        At(r, "softdelete") /\ job[j].src = req[r].src => job[j].status \in Terminal
=============================================================================
