------------------------------ MODULE JobStatus ------------------------------
(* The lifecycle of a row of query_jobs: the statuses, the documented          *)
(* transition relation and the compare-and-set that every repository update   *)
(* of a job performs (UPDATE ... WHERE id = ? AND status = ?).                 *)
EXTENDS Naturals

Status == { "pending", "queued", "generating", "validating", "executing",
            "retrying", "succeeded", "failed" }

\* Status.IsTerminal
Terminal == { "succeeded", "failed" }

\* The stages between which a worker moves a job while it runs the pipeline.
InPipeline == { "generating", "validating", "executing" }

\* validTransitions; CanTransition(s, t) holds when <<s, t>> is a member.
ValidTransitions ==
    ({ "pending" }     \X { "queued", "failed" })
    \union ({ "queued" }      \X { "generating", "failed" })
    \union ({ "generating" }  \X { "validating", "retrying", "failed" })
    \union ({ "validating" }  \X { "executing", "retrying", "failed" })
    \union ({ "executing" }   \X { "succeeded", "retrying", "failed" })
    \union ({ "retrying" }    \X { "generating", "failed" })

\* The row of a job that was never created.
NoJob == [status |-> "absent", attempt |-> 0]

\* A row holds the status and attempt_count.
JobRow == [status : Status \union { "absent" }, attempt : Nat]
=============================================================================
