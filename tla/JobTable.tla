------------------------------- MODULE JobTable -------------------------------
(***************************************************************************)
(* What a user of SchedulerRuntime sees of its one-shot jobs: the rows of   *)
(* the table `jobs' and the steps a row can make, whoever makes them.  A    *)
(* step is a condition on the row and the row it leaves.  SchedulerClaims   *)
(* is shown to implement this module; ReminderSaga builds on it.            *)
(***************************************************************************)
EXTENDS Naturals

CONSTANTS
  Jobs,        \* job identifiers
  Owners,      \* what a job can be named after (its job_name)
  Keys,        \* action payloads: the instant the job is for
  MaxRetries   \* Job.max_retries

VARIABLE jobs  \* job -> row; an absent row has st = "absent"

NoToken == 0

Row(st, owner, key, retry, token) ==
  [st |-> st, owner |-> owner, key |-> key, retry |-> retry, token |-> token]

To(st, row) == Row(st, row.owner, row.key, row.retry, NoToken)

Waiting == {"active", "retrying", "paused"}

Present(row) == row.st \notin {"absent", "deleted"}

\* save_job: a new row under a fresh identifier.
SavedRow(o, k) == Row("active", o, k, 0, NoToken)

\* cancel_job takes a waiting job, and only a waiting one.
Cancellable(row) == row.st \in Waiting
CancelledRow(row) == To("cancelled", row)

\* reschedule_job: an unclaimed row that is not completed starts over.
Reschedulable(row) == row.st \in Waiting \cup {"failed", "cancelled"}
RescheduledRow(row, k) == Row("active", row.owner, k, 0, NoToken)

\* delete_job: any row that is not running.
Deletable(row) == Present(row) /\ row.st # "running"
DeletedRow(row) == Row("deleted", row.owner, row.key, 0, NoToken)

\* claim_job: one runtime takes a job that is waiting to run.
Runnable(row) == row.st \in {"active", "retrying"}
ClaimedRow(row, t) == Row("running", row.owner, row.key, row.retry, t)

\* The verdict of an attempt counts only while its claim is on the row.
Owned(row, t) == row.st = "running" /\ row.token = t
SucceededRow(row) == Row("completed", row.owner, row.key, 0, NoToken)
\* Mutant: the last attempt is not made.
BugOneAttemptLess(row) ==
  Row(IF row.retry + 2 >= MaxRetries THEN "failed" ELSE "retrying",
      row.owner, row.key, row.retry + 1, NoToken)
AttemptFailedRow(row) ==
  Row(IF row.retry + 1 >= MaxRetries THEN "failed" ELSE "retrying",
      row.owner, row.key, row.retry + 1, NoToken)

Step(old, new) ==
  \/ old.st = "absent" /\ \E o \in Owners, k \in Keys : new = SavedRow(o, k)
  \/ Cancellable(old) /\ new = CancelledRow(old)
  \/ Reschedulable(old) /\ \E k \in Keys : new = RescheduledRow(old, k)
  \/ Runnable(old) /\ new = To("paused", old)
  \/ old.st = "paused" /\ new = To("active", old)
  \/ Deletable(old) /\ new = DeletedRow(old)
  \/ Runnable(old) /\ new.token # NoToken /\ new = ClaimedRow(old, new.token)
  \/ /\ old.st = "running"
     /\ new \in {SucceededRow(old), AttemptFailedRow(old),
                 To("failed", old)}   \* the executor raised: no retry is left

JobsSpec ==
  /\ \A j \in Jobs : jobs[j].st = "absent"
  /\ [][\A j \in Jobs : jobs'[j] = jobs[j] \/ Step(jobs[j], jobs'[j])]_jobs
=============================================================================
