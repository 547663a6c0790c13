------------------------------- MODULE JobRow -------------------------------
(***************************************************************************)
(* A row of business.activation_jobs and the one UPDATE statement the      *)
(* service issues against it (app/services/activation_jobs.py).  The       *)
(* payload, result, history and attempts columns, which no code path reads *)
(* back to decide anything, are left out; the error column is the reason   *)
(* it holds.  A timestamp is kept as how it compares with the reconciler's *)
(* threshold: not set, set recently, or set longer ago than that.          *)
(***************************************************************************)
CONSTANTS Keys,       \* values of the Idempotency-Key header
          NoKey,      \* no header was sent
          RunIds,     \* Trigger.dev run ids
          NoRun       \* trigger_run_id IS NULL

ASSUME JobRowAssumption == NoKey \notin Keys /\ NoRun \notin RunIds

\* dmaas_campaign_activation jobs, and jobs that activate one step
\* (step_activation and step_scheduled_activation share one code path).
JobKinds == {"campaign", "step"}

TerminalStatuses == {"succeeded", "failed", "cancelled", "dead_lettered"}

\* "absent" is a job id that was not handed out yet.
JobStatuses == {"absent", "queued", "running"} \cup TerminalStatuses

\* "activation" stands for the errors the activation itself reports; only
\* those can carry the ids of rows it created.
JobErrors == {"none", "enqueue_failed", "activation", "stale_running", "user_requested",
              "dead_letter"}

Stamps == {"null", "recent", "old"}

JobRows == [status : JobStatuses, kind : JobKinds, key : Keys \cup {NoKey},
            run : RunIds \cup {NoRun}, error : JobErrors,
            started : Stamps, completed : Stamps]

AbsentJob == [status |-> "absent", kind |-> "campaign", key |-> NoKey, run |-> NoRun,
              error |-> "none", started |-> "null", completed |-> "null"]

\* A bug: the status literal is one the table's CHECK constraint rejects.
NewJobPending(kind, key) == [AbsentJob EXCEPT !.status = "pending", !.kind = kind, !.key = key]

\* INSERT INTO business.activation_jobs (..., status = 'queued', ...).
NewJob(kind, key) == [AbsentJob EXCEPT !.status = "queued", !.kind = kind, !.key = key]

\* COALESCE(column, NOW())
Stamped(stamp) == IF stamp = "null" THEN "recent" ELSE stamp

(***************************************************************************)
(* transition_job: UPDATE ... WHERE id = job_id.  The statement has no     *)
(* condition on the current status.  A trigger_run_id or error of None     *)
(* leaves its column alone, and a timestamp already set is never cleared   *)
(* or moved.                                                               *)
(***************************************************************************)
Transitioned(row, status, run, error) ==
  [row EXCEPT !.status = status,
              !.started = IF status = "running" THEN Stamped(@) ELSE @,
              !.completed = IF status \in TerminalStatuses THEN Stamped(@) ELSE @,
              !.run = IF run = NoRun THEN @ ELSE run,
              !.error = IF error = "none" THEN @ ELSE error]
=============================================================================
