-------------------------- MODULE DataSource_proofs ---------------------------
(* Proofs about DataSource: its safety properties, for any number of requests, *)
(* sources and settings.                                                       *)
EXTENDS DataSource, TLAPS

\* A request that found a source, and a job that was submitted, refer to a row.
Exists(s) == s \in Source /\ src[s].status # "absent"
RefersToRow ==
    /\ \A r \in Request : req[r].pc \in {"enqueue", "check", "softdelete", "deleted"}
                             => Exists(req[r].src)
    /\ \A r \in Request : req[r].pc = "patch" => req[r].src \in Source
    /\ \A j \in Request : job[j].status # "absent" => Exists(job[j].src)

Inv == TypeOK /\ RefersToRow /\ NoJobSlipsIn /\ JobsKeepTheirSource /\ OneDeletion

-----------------------------------------------------------------------------
\* The invariant holds initially.
LEMMA InitInv == Init => Inv
BY DataSourceAssumption
   DEF Init, Inv, TypeOK, RefersToRow, NoJobSlipsIn, JobsKeepTheirSource, OneDeletion,
       SourceRow, SourceStatus, RequestState, PC, Job, Unsubmitted, At, HasActiveJobs

\* Requests keep their types.
LEMMA GotoType ==
    ASSUME TypeOK, NEW r \in Request, NEW pc \in PC, Goto(r, pc)
    PROVE  req' \in [Request -> RequestState]
BY DEF TypeOK, RequestState, Goto

\* A request that starts keeps its type.
LEMMA BeginType ==
    ASSUME TypeOK, NEW r \in Request, NEW s \in Source, NEW pc \in PC, Begin(r, s, pc)
    PROVE  req' \in [Request -> RequestState]
BY DEF TypeOK, RequestState, Begin

\* Every handler leaves each request in one of its states.
LEMMA RequestType == Inv /\ [Next]_vars => req' \in [Request -> RequestState]
<1> SUFFICES ASSUME Inv, [Next]_vars PROVE req' \in [Request -> RequestState]
    OBVIOUS
<1>1. TypeOK
      BY DEF Inv
<1>2. CASE UNCHANGED req
      BY <1>1, <1>2 DEF TypeOK
<1>3. ASSUME NEW r \in Request, NEW s \in Source, NEW pc \in PC, Begin(r, s, pc)
      PROVE  req' \in [Request -> RequestState]
      BY <1>1, <1>3, BeginType
<1>4. ASSUME NEW r \in Request, NEW pc \in PC, Goto(r, pc)
      PROVE  req' \in [Request -> RequestState]
      BY <1>1, <1>4, GotoType
<1>5. /\ {"enqueue", "check", "softdelete", "patch", "readback"} \subseteq PC
      /\ {"submitted", "created", "deleted", "updated"} \subseteq PC
      /\ {"notfound", "duplicate", "active", "internal"} \subseteq PC
      BY DEF PC
<1>6. ASSUME NEW r \in Request, NEW s \in Source,
             CheckSource(r, s) \/ FindForDelete(r, s) \/ FindForUpdate(r, s) \/ BeginPatch(r, s)
      PROVE  req' \in [Request -> RequestState]
      BY <1>3, <1>5, <1>6 DEF CheckSource, FindForDelete, FindForUpdate, BeginPatch
<1>7. ASSUME NEW r \in Request, NEW s \in Source, NEW c \in Setting, Create(r, s, c)
      PROVE  req' \in [Request -> RequestState]
      BY <1>3, <1>5, <1>7 DEF Create
<1>8. ASSUME NEW r \in Request, NEW c \in Setting, Patch(r, c)
      PROVE  req' \in [Request -> RequestState]
      BY <1>4, <1>5, <1>8 DEF Patch
<1>9. ASSUME NEW r \in Request, \/ Enqueue(r) \/ CheckJobs(r) \/ SoftDelete(r)
                                \/ ReadBack(r) \/ LabelTaken(r) \/ Rollback(r)
      PROVE  req' \in [Request -> RequestState]
      BY <1>4, <1>5, <1>9
         DEF Enqueue, CheckJobs, SoftDelete, ReadBack, LabelTaken, Rollback
<1> QED BY <1>2, <1>6, <1>7, <1>8, <1>9 DEF Next, vars, OpenForJob, Move

\* A row keeps its type.
LEMMA RowType ==
    ASSUME Inv, NEW r \in Request, req[r].src \in Source,
           \/ \E c \in Setting : src' = [src EXCEPT ![req[r].src].settings = c]
           \/ src' = [src EXCEPT ![req[r].src].status = "deleted"]
    PROVE  src' \in [Source -> SourceRow]
BY DEF Inv, TypeOK, SourceRow, SourceStatus

\* Every step keeps the types.
LEMMA TypeStep == Inv /\ [Next]_vars => TypeOK'
<1> SUFFICES ASSUME Inv, [Next]_vars PROVE TypeOK'
    OBVIOUS
<1> USE DEF Inv, TypeOK
<1>1. req' \in [Request -> RequestState]
      BY RequestType
<1>2. ASSUME UNCHANGED <<src, job, opened>>
      PROVE  TypeOK'
      BY <1>1, <1>2
<1>3. ASSUME NEW r \in Request, NEW s \in Source, NEW c \in Setting, Create(r, s, c)
      PROVE  TypeOK'
      BY <1>1, <1>3 DEF Create, SourceRow, SourceStatus
<1>4. ASSUME NEW r \in Request, NEW c \in Setting, Patch(r, c)
      PROVE  TypeOK'
  <2>1. req[r].src \in Source
        BY <1>4 DEF Patch, RefersToRow, At
  <2>2. src' \in [Source -> SourceRow]
        BY <1>4, <2>1, RowType DEF Patch
  <2> QED BY <1>1, <1>4, <2>2 DEF Patch
<1>5. ASSUME NEW r \in Request, SoftDelete(r)
      PROVE  TypeOK'
  <2>1. req[r].src \in Source
        BY <1>5 DEF SoftDelete, RefersToRow, Exists, At
  <2>2. src' \in [Source -> SourceRow]
        BY <1>5, <2>1, RowType DEF SoftDelete
  <2> QED BY <1>1, <1>5, <2>2 DEF SoftDelete
<1>6. ASSUME NEW r \in Request, Enqueue(r)
      PROVE  TypeOK'
  <2>1. req[r].src \in Source
        BY <1>6 DEF Enqueue, RefersToRow, Exists, At
  <2>2. job' \in [Request -> Job]
        BY <1>6, <2>1 DEF Enqueue, Job, Status
  <2> QED BY <1>1, <1>6, <2>2 DEF Enqueue
<1>7. ASSUME NEW j \in Request, OpenForJob(j)
      PROVE  TypeOK'
      BY <1>1, <1>7 DEF OpenForJob
<1>8. ASSUME NEW j \in Request, NEW to \in Status, Move(j, to)
      PROVE  TypeOK'
  <2>1. job[j] \in [status : Status, src : Source]
        BY <1>8 DEF Move, ValidTransitions, Job, Unsubmitted
  <2>2. job' \in [Request -> Job]
        BY <1>8, <2>1 DEF Move, Job
  <2>3. opened' \in [Request -> {"no", "yes", "missing"}]
        BY <1>8 DEF Move
  <2> QED BY <1>1, <1>8, <2>2, <2>3 DEF Move
<1> QED BY <1>2, <1>3, <1>4, <1>5, <1>6, <1>7, <1>8
        DEF Next, vars, CheckSource, FindForDelete, FindForUpdate, BeginPatch, CheckJobs,
            ReadBack, LabelTaken, Rollback

\* Rows are never removed, and a deleted row never changes.
LEMMA RowsStay ==
    ASSUME Inv, [Next]_vars, NEW s \in Source
    PROVE  /\ src[s].status # "absent" => src'[s].status # "absent"
           /\ src[s].status = "deleted" => src'[s] = src[s]
<1> USE DEF Inv, TypeOK, RefersToRow, Exists, SourceRow, SourceStatus, At
<1>1. CASE UNCHANGED src
      BY <1>1
<1>2. ASSUME NEW r \in Request, NEW t \in Source, NEW c \in Setting, Create(r, t, c)
      PROVE  /\ src[s].status # "absent" => src'[s].status # "absent"
             /\ src[s].status = "deleted" => src'[s] = src[s]
      BY <1>2 DEF Create
<1>3. ASSUME NEW r \in Request, NEW c \in Setting, Patch(r, c)
      PROVE  /\ src[s].status # "absent" => src'[s].status # "absent"
             /\ src[s].status = "deleted" => src'[s] = src[s]
      BY <1>3 DEF Patch, Live
<1>4. ASSUME NEW r \in Request, SoftDelete(r)
      PROVE  /\ src[s].status # "absent" => src'[s].status # "absent"
             /\ src[s].status = "deleted" => src'[s] = src[s]
      BY <1>4 DEF SoftDelete, Live
<1> QED BY <1>1, <1>2, <1>3, <1>4 DEF Next, vars, CheckSource, FindForDelete,
           FindForUpdate, BeginPatch, Enqueue, CheckJobs, ReadBack, LabelTaken, Rollback,
           OpenForJob, Move

\* What a step does to a request.
LEMMA RequestMoves ==
    ASSUME Inv, [Next]_vars, NEW r \in Request
    PROVE  \/ req'[r] = req[r]
           \/ /\ req[r].pc = "idle"
              /\ req'[r].pc \in {"enqueue", "check"}
              /\ Exists(req'[r].src)
              /\ UNCHANGED src
           \/ /\ req[r].pc = "idle"
              /\ req'[r].pc \in {"patch", "notfound", "created"}
              /\ req'[r].src \in Source
           \/ /\ req'[r].src = req[r].src
              /\ \/ /\ req[r].pc = "check" /\ req'[r].pc = "softdelete"
                    /\ ~HasActiveJobs(req[r].src)
                    /\ UNCHANGED <<src, job>>
                 \/ /\ req[r].pc = "softdelete" /\ req'[r].pc = "deleted"
                    /\ SoftDelete(r)
                 \/ /\ req[r].pc \in {"enqueue", "check", "softdelete", "patch", "readback"}
                    /\ req'[r].pc \in {"submitted", "active", "notfound", "readback",
                                       "updated", "duplicate", "internal"}
<1> DEFINE Goal ==
           \/ req'[r] = req[r]
           \/ /\ req[r].pc = "idle"
              /\ req'[r].pc \in {"enqueue", "check"}
              /\ Exists(req'[r].src)
              /\ UNCHANGED src
           \/ /\ req[r].pc = "idle"
              /\ req'[r].pc \in {"patch", "notfound", "created"}
              /\ req'[r].src \in Source
           \/ /\ req'[r].src = req[r].src
              /\ \/ /\ req[r].pc = "check" /\ req'[r].pc = "softdelete"
                    /\ ~HasActiveJobs(req[r].src)
                    /\ UNCHANGED <<src, job>>
                 \/ /\ req[r].pc = "softdelete" /\ req'[r].pc = "deleted"
                    /\ SoftDelete(r)
                 \/ /\ req[r].pc \in {"enqueue", "check", "softdelete", "patch", "readback"}
                    /\ req'[r].pc \in {"submitted", "active", "notfound", "readback",
                                       "updated", "duplicate", "internal"}
<1> USE DEF Inv, TypeOK, RequestState, At, Goto, Begin
<1>1. CASE UNCHANGED req
      BY <1>1
<1>2. ASSUME NEW q \in Request, NEW s \in Source,
             CheckSource(q, s) \/ FindForDelete(q, s) \/ FindForUpdate(q, s) \/ BeginPatch(q, s)
      PROVE  Goal
      BY <1>2 DEF CheckSource, FindForDelete, FindForUpdate, BeginPatch, Live, Exists
<1>3. ASSUME NEW q \in Request, NEW s \in Source, NEW c \in Setting, Create(q, s, c)
      PROVE  Goal
      BY <1>3 DEF Create
<1>4. ASSUME NEW q \in Request, NEW c \in Setting, Patch(q, c)
      PROVE  Goal
      BY <1>4 DEF Patch
<1>5. ASSUME NEW q \in Request, Enqueue(q) \/ ReadBack(q) \/ LabelTaken(q) \/ Rollback(q)
      PROVE  Goal
      BY <1>5 DEF Enqueue, ReadBack, LabelTaken, Rollback
<1>6. ASSUME NEW q \in Request, CheckJobs(q)
      PROVE  Goal
      BY <1>6 DEF CheckJobs
<1>7. ASSUME NEW q \in Request, SoftDelete(q)
      PROVE  Goal
  <2>1. CASE q = r
        BY <1>7, <2>1 DEF SoftDelete
  <2>2. CASE q # r
        BY <1>7, <2>2 DEF SoftDelete
  <2> QED BY <2>1, <2>2
<1> QED BY <1>1, <1>2, <1>3, <1>4, <1>5, <1>6, <1>7 DEF Next, vars, OpenForJob, Move

\* What a step does to a job.
LEMMA JobMoves ==
    ASSUME Inv, [Next]_vars, NEW j \in Request
    PROVE  \/ job'[j] = job[j]
           \/ /\ job'[j].src = req[j].src /\ req[j].pc = "enqueue"
              /\ ~Locked(req[j].src)
              /\ UNCHANGED src
           \/ /\ job'[j].src = job[j].src /\ job[j].status # "absent"
              /\ ~Locked(job[j].src)
              /\ UNCHANGED src
<1> USE DEF Inv, TypeOK, Job, Unsubmitted, At
<1>1. CASE UNCHANGED job
      BY <1>1
<1>2. ASSUME NEW q \in Request, Enqueue(q)
      PROVE  \/ job'[j] = job[j]
             \/ /\ job'[j].src = req[j].src /\ req[j].pc = "enqueue"
                /\ ~Locked(req[j].src)
                /\ UNCHANGED src
      BY <1>2 DEF Enqueue
<1>3. ASSUME NEW k \in Request, NEW to \in Status, Move(k, to)
      PROVE  \/ job'[j] = job[j]
             \/ /\ job'[j].src = job[j].src /\ job[j].status # "absent"
                /\ ~Locked(job[j].src)
                /\ UNCHANGED src
      BY <1>3 DEF Move, ValidTransitions
<1> QED BY <1>1, <1>2, <1>3 DEF Next, vars, CheckSource, FindForDelete, FindForUpdate,
           BeginPatch, Create, Patch, CheckJobs, SoftDelete, ReadBack, LabelTaken, Rollback,
           OpenForJob

\* No handler leaves a job pointing at a data source that has no row.
LEMMA RefersStep == Inv /\ [Next]_vars => RefersToRow'
<1> SUFFICES ASSUME Inv, [Next]_vars PROVE RefersToRow'
    OBVIOUS
<1>1. \A s \in Source : Exists(s) => Exists(s)'
      BY RowsStay DEF Exists
<1>2. ASSUME NEW r \in Request, req'[r].pc \in {"enqueue", "check", "softdelete", "deleted"}
      PROVE  Exists(req[r].src)' 
      BY <1>1, <1>2, RequestMoves DEF Inv, RefersToRow, Exists
<1>3. ASSUME NEW r \in Request, req'[r].pc = "patch"
      PROVE  req'[r].src \in Source
      BY <1>3, RequestMoves DEF Inv, RefersToRow, Exists
<1>4. ASSUME NEW j \in Request, job'[j].status # "absent"
      PROVE  Exists(job[j].src)'
      BY <1>1, <1>4, JobMoves DEF Inv, RefersToRow, Exists
<1> QED BY <1>2, <1>3, <1>4 DEF RefersToRow, Exists

\* The row lock keeps a job from being enqueued between the count of a source's active
\* jobs and the write that deletes it.
LEMMA SlipStep == Inv /\ [Next]_vars => NoJobSlipsIn'
<1> SUFFICES ASSUME Inv, [Next]_vars, NEW r \in Request, NEW j \in Request,
                    req'[r].pc = "softdelete", job'[j].src = req'[r].src
             PROVE  job'[j].status \notin Counted
    BY DEF NoJobSlipsIn, HasActiveJobs, At
<1>1. CASE req'[r] = req[r]
  <2>1. Locked(req[r].src) /\ ~HasActiveJobs(req[r].src)
        BY <1>1 DEF Inv, NoJobSlipsIn, Locked, At
  <2>2. job'[j] = job[j]
        BY <1>1, <2>1, JobMoves
  <2> QED BY <1>1, <2>1, <2>2 DEF HasActiveJobs
<1>2. CASE req'[r] # req[r]
  <2>1. req'[r].src = req[r].src /\ ~HasActiveJobs(req[r].src) /\ UNCHANGED job
        BY <1>2, RequestMoves
  <2> QED BY <2>1 DEF HasActiveJobs
<1> QED BY <1>1, <1>2

\* A worker that opens a job's source finds its row.
LEMMA OpenStep == Inv /\ [Next]_vars => JobsKeepTheirSource'
<1> SUFFICES ASSUME Inv, [Next]_vars, NEW j \in Request PROVE opened'[j] # "missing"
    BY DEF JobsKeepTheirSource
<1> USE DEF Inv, TypeOK, JobsKeepTheirSource
<1>1. CASE UNCHANGED opened
      BY <1>1
<1>2. ASSUME NEW k \in Request, OpenForJob(k) PROVE opened'[j] # "missing"
      BY <1>2 DEF OpenForJob, Found, RefersToRow, Exists
<1>3. ASSUME NEW k \in Request, NEW to \in Status, Move(k, to) PROVE opened'[j] # "missing"
      BY <1>3 DEF Move
<1> QED BY <1>1, <1>2, <1>3 DEF Next, vars, CheckSource, FindForDelete, FindForUpdate,
           BeginPatch, Create, Patch, Enqueue, CheckJobs, SoftDelete, ReadBack,
           LabelTaken, Rollback

\* Only SoftDelete deletes, and only one request at a time does.
LEMMA OnlySoftDelete ==
    ASSUME Inv, [Next]_vars, NEW s \in Source, \A r \in Request : ~SoftDelete(r)
    PROVE  (src[s].status = "deleted") <=> (src'[s].status = "deleted")
<1> USE DEF Inv, TypeOK, SourceRow, SourceStatus, At
<1>1. ASSUME NEW r \in Request, NEW t \in Source, NEW c \in Setting, Create(r, t, c)
      PROVE  (src[s].status = "deleted") <=> (src'[s].status = "deleted")
      BY <1>1 DEF Create
<1>2. ASSUME NEW r \in Request, NEW c \in Setting, Patch(r, c)
      PROVE  (src[s].status = "deleted") <=> (src'[s].status = "deleted")
      BY <1>2 DEF Patch, RefersToRow
<1> QED BY <1>1, <1>2 DEF Next, vars, CheckSource, FindForDelete, FindForUpdate,
           BeginPatch, Enqueue, CheckJobs, ReadBack, LabelTaken, Rollback,
           OpenForJob, Move

\* A source is deleted when, and only when, exactly one request reported its deletion.
LEMMA DeletionStep == Inv /\ [Next]_vars => OneDeletion'
<1> SUFFICES ASSUME Inv, [Next]_vars, NEW s \in Source
             PROVE  /\ \A q, r \in Request :
                          /\ req'[q].pc = "deleted" /\ req'[q].src = s
                          /\ req'[r].pc = "deleted" /\ req'[r].src = s
                          => q = r
                    /\ src'[s].status = "deleted"
                         <=> \E r \in Request : req'[r].pc = "deleted" /\ req'[r].src = s
    BY DEF OneDeletion, At
<1>0. /\ \A q, r \in Request : /\ req[q].pc = "deleted" /\ req[q].src = s
                               /\ req[r].pc = "deleted" /\ req[r].src = s
                               => q = r
      /\ src[s].status = "deleted"
           <=> \E r \in Request : req[r].pc = "deleted" /\ req[r].src = s
      BY DEF Inv, OneDeletion, At
<1>1. CASE \A r \in Request : ~SoftDelete(r)
  <2>1. (src[s].status = "deleted") <=> (src'[s].status = "deleted")
        BY <1>1, OnlySoftDelete
  <2>2. \A r \in Request : (req'[r].pc = "deleted" /\ req'[r].src = s)
                            <=> (req[r].pc = "deleted" /\ req[r].src = s)
        BY <1>1, RequestMoves
  <2> QED BY <1>0, <2>1, <2>2
<1>2. ASSUME NEW d \in Request, SoftDelete(d), Live(req[d].src)
      PROVE  /\ \A q, r \in Request :
                   /\ req'[q].pc = "deleted" /\ req'[q].src = s
                   /\ req'[r].pc = "deleted" /\ req'[r].src = s
                   => q = r
             /\ src'[s].status = "deleted"
                  <=> \E r \in Request : req'[r].pc = "deleted" /\ req'[r].src = s
  <2>1. /\ req' = [req EXCEPT ![d].pc = "deleted"]
        /\ src' = [src EXCEPT ![req[d].src].status = "deleted"]
        BY <1>2 DEF SoftDelete, Goto
  <2>2. /\ req'[d].pc = "deleted" /\ req'[d].src = req[d].src
        /\ \A r \in Request \ {d} : req'[r] = req[r]
        BY <2>1 DEF Inv, TypeOK, RequestState
  <2>3. req[d].src \in Source /\ req[d].pc = "softdelete"
        BY <1>2 DEF SoftDelete, At, Inv, RefersToRow, Exists
  <2>4. CASE s = req[d].src
    <3>1. src[s].status # "deleted" /\ src'[s].status = "deleted"
          BY <1>2, <2>1, <2>3, <2>4 DEF Live, Inv, TypeOK, SourceRow
    <3> QED BY <1>0, <2>2, <2>4, <3>1
  <2>5. CASE s # req[d].src
    <3>1. src'[s] = src[s]
          BY <2>1, <2>5 DEF Inv, TypeOK
    <3> QED BY <1>0, <2>2, <2>3, <2>5, <3>1
  <2> QED BY <2>4, <2>5
<1>3. ASSUME NEW d \in Request, SoftDelete(d), ~Live(req[d].src)
      PROVE  /\ \A q, r \in Request :
                   /\ req'[q].pc = "deleted" /\ req'[q].src = s
                   /\ req'[r].pc = "deleted" /\ req'[r].src = s
                   => q = r
             /\ src'[s].status = "deleted"
                  <=> \E r \in Request : req'[r].pc = "deleted" /\ req'[r].src = s
  <2>1. /\ req[d].pc = "softdelete" /\ req'[d].pc = "notfound"
        /\ \A r \in Request \ {d} : req'[r] = req[r]
        /\ UNCHANGED src
        BY <1>3 DEF SoftDelete, Goto, At, Inv, TypeOK, RequestState
  <2> QED BY <1>0, <2>1
<1> QED BY <1>1, <1>2, <1>3

\* Every handler's step preserves the invariant.
LEMMA InvStep == Inv /\ [Next]_vars => Inv'
BY TypeStep, RefersStep, SlipStep, OpenStep, DeletionStep DEF Inv

-----------------------------------------------------------------------------
\* The inductive invariant of DataSource.
THEOREM Invariance == Spec => []Inv
BY InitInv, InvStep, PTL DEF Spec

\* Type correctness; in particular a submitted job has a data source.
THEOREM TypeCorrect == Spec => []TypeOK
<1>1. Inv => TypeOK
      BY DEF Inv
<1> QED BY <1>1, Invariance, PTL

\* No job that the check of a Delete counts appears before the Delete ends.
THEOREM NoJobSlipsInCorrect == Spec => []NoJobSlipsIn
<1>1. Inv => NoJobSlipsIn
      BY DEF Inv
<1> QED BY <1>1, Invariance, PTL

\* A worker always finds the source of its job, deleted or not.
THEOREM SourceCorrect == Spec => []JobsKeepTheirSource
<1>1. Inv => JobsKeepTheirSource
      BY DEF Inv
<1> QED BY <1>1, Invariance, PTL

\* Of concurrent deletions exactly one is answered with success.
THEOREM OneDeletionCorrect == Spec => []OneDeletion
<1>1. Inv => OneDeletion
      BY DEF Inv
<1> QED BY <1>1, Invariance, PTL

\* A deleted source never changes.
THEOREM FrozenCorrect == Spec => DeletedIsFrozen
<1>1. Inv /\ [Next]_vars =>
        [\A s \in Source : src[s].status = "deleted" => src'[s] = src[s]]_vars
      BY RowsStay
<1> QED BY <1>1, Invariance, PTL DEF Spec, DeletedIsFrozen
=============================================================================
