--------------------------- MODULE SchedulerClaims ---------------------------
(***************************************************************************)
(* The durable job scheduler (core/scheduler): several SchedulerRuntime    *)
(* processes share the SQLite tables `jobs' and `job_runs'.  Every method  *)
(* of SchedulerPersistence is one transaction, hence one atomic step.  A   *)
(* runtime's event loop never yields between the statements of a tick or   *)
(* of a management call, so within one process these run to the end, but   *)
(* the transactions of other processes come between them.                  *)
(*                                                                         *)
(* Time.  A stored instant is kept as the time that is left until it       *)
(* (negative once it is past), so `next_run_at <= now' reads `next <= 0'.  *)
(* A process that read its clock some time ago compares with that older    *)
(* reading: age is how long ago it was read, and the comparison becomes    *)
(* `next <= -age'.  Never stands for SQL NULL in a time column.            *)
(***************************************************************************)
EXTENDS Integers, FiniteSets

CONSTANTS
  Jobs,           \* job identifiers (a fresh uuid per scheduled job)
  OneShots,       \* the jobs with a ONE_SHOT trigger; the others are INTERVAL
  Runtimes,       \* processes with a SchedulerRuntime on the same database
  MaxRetries,     \* Job.max_retries
  ClaimTTL,       \* SchedulerConfig.claim_ttl_seconds
  RetryDelay,     \* SchedulerConfig.retry_delay_seconds
  Interval,       \* Trigger.interval_seconds
  Delays,         \* how far ahead callers schedule a one-shot run
  MaxConcurrent,  \* SchedulerConfig.max_concurrent_jobs
  \* Bounds of the model.
  Horizon,        \* no delay exceeds it
  MaxStall,       \* longest pause between reading the clock and using it
  MaxClaims,      \* claims ever made
  MaxRev,         \* renewals stop at this row revision
  MaxCalls,       \* management calls ever made
  MaxFaults       \* crashes, shutdowns and database errors

ASSUME JobsAssumption ==
  /\ OneShots \subseteq Jobs
  /\ IsFiniteSet(Jobs)

ASSUME BoundsAssumption ==
  /\ MaxRetries \in Nat \ {0}
  /\ MaxConcurrent \in Nat
  /\ MaxStall \in Nat /\ MaxClaims \in Nat /\ MaxRev \in Nat
  /\ MaxCalls \in Nat /\ MaxFaults \in Nat

ASSUME TimesAssumption ==
  /\ Horizon \in Nat
  /\ ClaimTTL \in 1..Horizon
  /\ RetryDelay \in 0..Horizon
  /\ Interval \in 1..Horizon
  /\ Delays \subseteq 0..Horizon

VARIABLES
  jobs,     \* table jobs: id -> row
  runs,     \* table job_runs: claim token -> row
  claims,   \* claim tokens (uuid4) drawn so far: 1..claims
  workers,  \* claim token -> live _run_job task (_background_tasks)
  procs,    \* runtime -> where its event loop is
  pending,  \* management calls that have read a row and not yet written it
  calls,    \* management calls made so far
  faults    \* faults injected so far

vars == <<jobs, runs, claims, workers, procs, pending, calls, faults>>

-----------------------------------------------------------------------------
(* Time *)

Never == Horizon + 1
Floor == -(MaxStall + 1)
TimeColumn == Floor..Never

AtLeastFloor(t) == IF t < Floor THEN Floor ELSE t

\* One time unit passes.
Elapse(t) == IF t = Never THEN Never ELSE AtLeastFloor(t - 1)

\* The instant `clock reading + d' of a process whose reading is age old.
After(d, age) == AtLeastFloor(d - age)

-----------------------------------------------------------------------------
(* Rows, tasks and processes *)

NoToken == 0

JobStatus == {"absent", "active", "retrying", "paused", "running",
              "completed", "failed", "cancelled", "deleted"}

JobRow == [status : JobStatus, run_at : TimeColumn, next : TimeColumn,
           retry : Nat, runs : Nat, token : 0..MaxClaims,
           expires : TimeColumn, rev : Nat]

NoRow == [status |-> "absent", run_at |-> Never, next |-> Never, retry |-> 0,
          runs |-> 0, token |-> NoToken, expires |-> Never, rev |-> 0]

RunRow == [job : Jobs, attempt : Nat,
           status : {"running", "success", "failed", "purged"}]

\* A _run_job task: the runtime it runs in, its private copy of the job, the
\* time left on the lease it was last granted, and whether its renewal loop runs.
Worker == [state : {"executing", "finalizing"}, rt : Runtimes, job : Jobs,
           outcome : {"running", "success", "failed"},
           status : JobStatus, next : TimeColumn, retry : Nat,
           runs : Nat, lease : TimeColumn, renewing : BOOLEAN]

Ops == {"pause", "resume", "delete", "cancel", "reschedule"}
Call == [rt : Runtimes, op : Ops, job : Jobs, rev : Nat, delay : 0..Horizon]

Proc == [phase : {"down", "idle", "sync", "dispatch", "call"},
         age : 0..MaxStall, todo : SUBSET Jobs, seen : SUBSET Jobs,
         rest : BOOLEAN]   \* the tick loop is in asyncio.sleep(tick_interval)

TypeOK ==
  /\ jobs \in [Jobs -> JobRow]
  /\ claims \in 0..MaxClaims
  /\ runs \in [1..claims -> RunRow]
  /\ DOMAIN workers \subseteq 1..claims
  /\ workers \in [DOMAIN workers -> Worker]
  /\ procs \in [Runtimes -> Proc]
  /\ pending \subseteq Call
  /\ calls \in 0..MaxCalls
  /\ faults \in 0..MaxFaults

Exists(row) == row.status \notin {"absent", "deleted"}
\* Mutant: a job waiting for a retry is not taken up again.
BugRunnable(row) == row.status = "active"

Runnable(row) == row.status \in {"active", "retrying"}

IdleProc == [phase |-> "idle", age |-> 0, todo |-> {}, seen |-> {}, rest |-> FALSE]
Resting == [IdleProc EXCEPT !.rest = TRUE]

Init ==
  /\ jobs = [j \in Jobs |-> NoRow]
  /\ claims = 0
  /\ runs = [t \in 1..0 |-> 0]
  /\ workers = [t \in 1..0 |-> 0]
  /\ procs = [r \in Runtimes |-> IdleProc]
  /\ pending = {}
  /\ calls = 0
  /\ faults = 0

Fault == faults < MaxFaults /\ faults' = faults + 1

-----------------------------------------------------------------------------
(* SchedulerPersistence: what each statement does to a row. *)

\* TriggerEngine.compute_next for the two trigger types that fire by themselves.
ComputeNext(j, row, age) ==
  IF j \in OneShots THEN row.run_at ELSE After(Interval, age)

\* WHERE clause of claim_job.
Claimable(row, age) ==
  /\ Runnable(row)
  /\ row.next # Never
  /\ row.next <= -age
  /\ row.token = NoToken \/ row.expires < -age

ClaimedRow(row, t, age) ==
  [row EXCEPT !.status = "running", !.token = t,
              !.expires = After(ClaimTTL, age), !.rev = @ + 1]

\* Mutant: claims are released before they have expired.
BugExpired(row) == row.status = "running" /\ row.expires # Never

\* WHERE clause of release_expired_claims.
Expired(row) ==
  row.status = "running" /\ row.expires # Never /\ row.expires <= 0

\* Mutant: an attempt whose claim expired is not counted.
BugReleasedUncounted(row) ==
  LET exhausted == row.retry + 1 >= MaxRetries
  IN  [row EXCEPT !.status = IF exhausted THEN "failed" ELSE "retrying",
                  !.retry = @ + 1,
                  !.next = IF exhausted THEN Never ELSE RetryDelay,
                  !.token = NoToken, !.expires = Never, !.rev = @ + 1]

\* Mutant: one retry too many after an expired claim.
BugReleasedLate(row) ==
  LET exhausted == row.retry >= MaxRetries
  IN  [row EXCEPT !.status = IF exhausted THEN "failed" ELSE "retrying",
                  !.retry = @ + 1, !.runs = @ + 1,
                  !.next = IF exhausted THEN Never ELSE RetryDelay,
                  !.token = NoToken, !.expires = Never, !.rev = @ + 1]

ReleasedRow(row) ==
  LET exhausted == row.retry + 1 >= MaxRetries
  IN  [row EXCEPT !.status = IF exhausted THEN "failed" ELSE "retrying",
                  !.retry = @ + 1, !.runs = @ + 1,
                  !.next = IF exhausted THEN Never ELSE RetryDelay,
                  !.token = NoToken, !.expires = Never, !.rev = @ + 1]

\* Mutant: the recovery of expired claims is missing.
BugReleaseNothing == UNCHANGED <<jobs, runs>>

ReleaseExpiredClaims ==
  /\ jobs' = [j \in Jobs |->
                IF Expired(jobs[j]) THEN ReleasedRow(jobs[j]) ELSE jobs[j]]
  /\ runs' = [t \in 1..claims |->
                IF /\ runs[t].status = "running"
                   /\ \E j \in Jobs : Expired(jobs[j]) /\ jobs[j].token = t
                THEN [runs[t] EXCEPT !.status = "failed"] ELSE runs[t]]

\* WHERE clause of renew_claim.
Renewable(row, t) ==
  /\ row.status = "running" /\ row.token = t
  /\ row.expires # Never /\ row.expires > 0

RenewedRow(row) == [row EXCEPT !.expires = ClaimTTL, !.rev = @ + 1]

FinalizedRow(row, w) ==
  [row EXCEPT !.status = w.status, !.next = w.next, !.retry = w.retry,
              !.runs = w.runs, !.token = NoToken, !.expires = Never,
              !.rev = @ + 1]

\* UPDATE of pause_job, resume_job, delete_job, cancel_job and reschedule_job:
\* the WHERE clause beyond the identifier, and the row it leaves.
Unclaimed(row, c) == row.rev = c.rev /\ row.token = NoToken

\* Mutant: reschedule_job looks at neither claim nor revision.
BugRescheduleRunning(row, c) == c.op = "reschedule" /\ Exists(row)

\* Mutant: reschedule_job takes completed jobs too.
BugRescheduleCompleted(row, c) ==
  c.op = "reschedule" /\ Unclaimed(row, c) /\ Exists(row)

CallApplies(row, c) ==
  CASE c.op = "pause"      -> Unclaimed(row, c) /\ Runnable(row)
    [] c.op = "resume"     -> Unclaimed(row, c) /\ row.status = "paused"
    [] c.op = "delete"     -> /\ Unclaimed(row, c)
                              /\ Exists(row) /\ row.status # "running"
    [] c.op = "cancel"     -> row.status \in {"active", "retrying", "paused"}
    [] c.op = "reschedule" -> /\ Unclaimed(row, c)
                              /\ row.status \in {"active", "retrying", "paused",
                                                 "failed", "cancelled"}

CallRow(row, c, age) ==
  CASE c.op = "pause"  -> [row EXCEPT !.status = "paused", !.rev = @ + 1]
    [] c.op = "resume" -> [row EXCEPT !.status = "active",
                                      !.next = ComputeNext(c.job, row, age),
                                      !.rev = @ + 1]
    [] c.op = "delete" -> [NoRow EXCEPT !.status = "deleted"]
    [] c.op = "cancel" -> [row EXCEPT !.status = "cancelled", !.next = Never,
                                      !.token = NoToken, !.expires = Never,
                                      !.rev = @ + 1]
    [] c.op = "reschedule" ->
                          [row EXCEPT !.status = "active", !.retry = 0,
                                      !.run_at = After(c.delay, age),
                                      !.next = After(c.delay, age),
                                      !.rev = @ + 1]

-----------------------------------------------------------------------------
(* Time passes for every stored instant and for every stale clock reading. *)

Mid(r) == procs[r].phase \in {"sync", "dispatch", "call"}

Advance ==
  /\ \A r \in Runtimes : Mid(r) => procs[r].age < MaxStall
  /\ jobs' = [j \in Jobs |-> [jobs[j] EXCEPT !.run_at = Elapse(@), !.next = Elapse(@),
                                            !.expires = Elapse(@)]]
  /\ workers' = [t \in DOMAIN workers |->
                   [workers[t] EXCEPT !.next = Elapse(@), !.lease = Elapse(@)]]
  /\ procs' = [r \in Runtimes |->
                 [procs[r] EXCEPT !.age = IF Mid(r) THEN @ + 1 ELSE @,
                                  !.rest = FALSE]]
  /\ UNCHANGED <<runs, claims, pending, calls, faults>>

-----------------------------------------------------------------------------
(* The tick loop: SchedulerRuntime._tick *)

\* The tick reads the clock and releases expired claims.
TickStart(r) ==
  /\ procs[r].phase = "idle" /\ ~procs[r].rest
  /\ procs' = [procs EXCEPT ![r] = [IdleProc EXCEPT !.phase = "sync"]]
  /\ ReleaseExpiredClaims
  /\ UNCHANGED <<claims, workers, pending, calls, faults>>

\* It refreshes the registry and works from that snapshot.  Jobs have names of
\* their own here: two rows with one name, whose registration raises and ends
\* the tick, are the subject of ReminderSaga and InboxResolution.
TickSync(r) ==
  LET due == {j \in Jobs : /\ Runnable(jobs[j]) /\ jobs[j].next # Never
                           /\ jobs[j].next <= -procs[r].age}
  IN  /\ procs[r].phase = "sync"
      /\ procs' = [procs EXCEPT ![r] =
                     IF due = {} THEN Resting
                     ELSE [procs[r] EXCEPT !.phase = "dispatch", !.todo = due,
                             !.seen = {j \in Jobs : jobs[j].status = "running"}]]
      /\ UNCHANGED <<jobs, runs, claims, workers, pending, calls, faults>>

\* Mutant: a claim of this tick does not count as running.
BugDispatched(r, j, also) ==
  procs' = [procs EXCEPT ![r] =
             IF procs[r].todo = {j} THEN Resting ELSE [procs[r] EXCEPT !.todo = @ \ {j}]]

\* The snapshot job j is dealt with; `also' joins the jobs known to be running.
Dispatched(r, j, also) ==
  procs' = [procs EXCEPT ![r] =
             IF procs[r].todo = {j} THEN Resting
             ELSE [procs[r] EXCEPT !.todo = @ \ {j}, !.seen = @ \cup also]]

\* _dispatch_due_job returns early: too many running jobs, or claim_job found
\* that the row is no longer claimable.
DispatchSkip(r, j) ==
  /\ procs[r].phase = "dispatch" /\ j \in procs[r].todo
  /\ \/ Cardinality(procs[r].seen) >= MaxConcurrent
     \/ ~Claimable(jobs[j], procs[r].age)
     \/ claims = MaxClaims                          \* bound of the model
  /\ Dispatched(r, j, {})
  /\ UNCHANGED <<jobs, runs, claims, workers, pending, calls, faults>>

\* claim_job succeeds: the job and its job_runs row change in one transaction,
\* and _run_job is spawned with the row it read back.
DispatchClaim(r, j) ==
  LET t == claims + 1
      row == ClaimedRow(jobs[j], t, procs[r].age)
  IN  /\ procs[r].phase = "dispatch" /\ j \in procs[r].todo
      /\ Cardinality(procs[r].seen) < MaxConcurrent
      /\ Claimable(jobs[j], procs[r].age)
      /\ t <= MaxClaims
      /\ claims' = t
      /\ jobs' = [jobs EXCEPT ![j] = row]
      /\ runs' = [u \in 1..t |->
                    IF u = t THEN [job |-> j, attempt |-> row.runs + 1,
                                   status |-> "running"]
                    ELSE runs[u]]
      /\ workers' = [u \in DOMAIN workers \cup {t} |->
                       IF u = t
                       THEN [state |-> "executing", rt |-> r, job |-> j,
                             outcome |-> "running", status |-> "running",
                             next |-> row.next, retry |-> row.retry,
                             runs |-> row.runs, lease |-> row.expires,
                             renewing |-> TRUE]
                       ELSE workers[u]]
      /\ Dispatched(r, j, {j})
      /\ UNCHANGED <<pending, calls, faults>>

\* The tick is abandoned: a database error, or admission has been closed.
TickAbort(r) ==
  /\ procs[r].phase \in {"sync", "dispatch"}
  /\ procs' = [procs EXCEPT ![r] = Resting]
  /\ Fault
  /\ UNCHANGED <<jobs, runs, claims, workers, pending, calls>>

-----------------------------------------------------------------------------
(* A claimed execution: SchedulerRuntime._run_job.  A task only runs while  *)
(* the event loop of its runtime is between a tick and the next one.        *)

Scheduled(t) == t \in DOMAIN workers /\ procs[workers[t].rt].phase = "idle"

WithoutWorker(t) == [u \in DOMAIN workers \ {t} |-> workers[u]]

\* The handler ended within its timeout: job counters and next run are computed
\* on the private copy.
HandlerSucceeds(t) ==
  /\ Scheduled(t) /\ workers[t].state = "executing"
  /\ workers' = [workers EXCEPT ![t] =
       [workers[t] EXCEPT !.state = "finalizing", !.outcome = "success", !.renewing = FALSE,
                 !.retry = 0, !.runs = @ + 1,
                 !.status = IF workers[t].job \in OneShots THEN "completed" ELSE "active",
                 !.next = IF workers[t].job \in OneShots THEN Never ELSE Interval]]
  /\ UNCHANGED <<jobs, runs, claims, procs, pending, calls, faults>>

\* The handler raised, or wait_for timed it out.
HandlerFails(t) ==
  LET exhausted == workers[t].retry + 1 >= MaxRetries
  IN  /\ Scheduled(t) /\ workers[t].state = "executing"
      /\ workers' = [workers EXCEPT ![t] =
           [workers[t] EXCEPT !.state = "finalizing", !.outcome = "failed", !.renewing = FALSE,
                     !.retry = @ + 1, !.runs = @ + 1,
                     !.status = IF exhausted THEN "failed" ELSE "retrying",
                     !.next = IF exhausted THEN Never ELSE RetryDelay]]
      /\ UNCHANGED <<jobs, runs, claims, procs, pending, calls, faults>>

\* The executor itself raised: the job fails at once, next_run_at is left alone.
ExecutorRaises(t) ==
  /\ Scheduled(t) /\ workers[t].state = "executing"
  /\ workers' = [workers EXCEPT ![t] =
       [workers[t] EXCEPT !.state = "finalizing", !.outcome = "failed", !.renewing = FALSE,
                 !.runs = @ + 1, !.status = "failed"]]
  /\ UNCHANGED <<jobs, runs, claims, procs, pending, calls, faults>>

\* Mutant: finalize_claim does not check the claim token.
BugClaimOwned(t) == runs[t].status # "purged"

\* finalize_claim: both tables or none.
ClaimOwned(t) ==
  /\ jobs[workers[t].job].token = t
  /\ runs[t].status # "purged"

Finalize(t) ==
  LET w == workers[t]
  IN  /\ Scheduled(t) /\ w.state = "finalizing"
      /\ ClaimOwned(t)
      /\ jobs' = [jobs EXCEPT ![w.job] = FinalizedRow(@, w)]
      /\ runs' = [runs EXCEPT ![t].status = w.outcome]
      /\ workers' = WithoutWorker(t)
      /\ UNCHANGED <<claims, procs, pending, calls, faults>>

\* JobClaimLostError: everything is rolled back and the task ends.
FinalizeLost(t) ==
  /\ Scheduled(t) /\ workers[t].state = "finalizing"
  /\ ~ClaimOwned(t)
  /\ workers' = WithoutWorker(t)
  /\ UNCHANGED <<jobs, runs, claims, procs, pending, calls, faults>>

\* The transaction fails: the task ends and the durable claim stays.
FinalizeError(t) ==
  /\ Scheduled(t) /\ workers[t].state = "finalizing"
  /\ workers' = WithoutWorker(t)
  /\ Fault
  /\ UNCHANGED <<jobs, runs, claims, procs, pending, calls>>

\* _renew_claim_loop wakes up and renew_claim extends the lease.
Renew(t) ==
  LET j == workers[t].job
  IN  /\ Scheduled(t) /\ workers[t].renewing
      /\ Renewable(jobs[j], t)
      /\ jobs[j].rev < MaxRev                         \* bound of the model
      /\ jobs' = [jobs EXCEPT ![j] = RenewedRow(@)]
      /\ workers' = [workers EXCEPT ![t].lease = ClaimTTL]
      /\ UNCHANGED <<runs, claims, procs, pending, calls, faults>>

\* renew_claim matched no row: the loop returns, the handler keeps running.
RenewRefused(t) ==
  /\ Scheduled(t) /\ workers[t].renewing
  /\ ~Renewable(jobs[workers[t].job], t)
  /\ workers' = [workers EXCEPT ![t].renewing = FALSE]
  /\ UNCHANGED <<jobs, runs, claims, procs, pending, calls, faults>>

\* renew_claim raised: the renewal task dies, the handler keeps running.
RenewError(t) ==
  /\ Scheduled(t) /\ workers[t].renewing
  /\ workers' = [workers EXCEPT ![t].renewing = FALSE]
  /\ Fault
  /\ UNCHANGED <<jobs, runs, claims, procs, pending, calls>>

-----------------------------------------------------------------------------
(* Management calls: a read of the row, then a conditional update. *)

Schedule(r, j, d) ==
  /\ procs[r].phase = "idle" /\ calls < MaxCalls
  /\ jobs[j].status = "absent"
  /\ jobs' = [jobs EXCEPT ![j] =
       [NoRow EXCEPT !.status = "active", !.rev = 1,
                     !.run_at = IF j \in OneShots THEN d ELSE Never,
                     !.next = IF j \in OneShots THEN d ELSE Interval]]
  /\ calls' = calls + 1
  /\ UNCHANGED <<runs, claims, workers, procs, pending, faults>>

CallAllowed(op, j, row) ==
  /\ Exists(row)
  /\ op \in {"pause", "delete"} => row.status # "running"
  /\ op = "resume" => row.status = "paused"
  /\ op = "reschedule" => j \in OneShots

CallRead(r, op, j, d) ==
  /\ procs[r].phase = "idle" /\ calls < MaxCalls
  /\ CallAllowed(op, j, jobs[j])
  /\ op # "reschedule" => d = 0
  /\ pending' = pending \cup
       {[rt |-> r, op |-> op, job |-> j, rev |-> jobs[j].rev, delay |-> d]}
  /\ procs' = [procs EXCEPT ![r].phase = "call"]
  /\ calls' = calls + 1
  /\ UNCHANGED <<jobs, runs, claims, workers, faults>>

CallEnd(r, c) ==
  /\ c.rt = r
  /\ pending' = pending \ {c}
  /\ procs' = [procs EXCEPT ![r] = [procs[r] EXCEPT !.phase = "idle", !.age = 0]]

CallWrite(r, c) ==
  /\ CallEnd(r, c)
  /\ CallApplies(jobs[c.job], c)
  /\ jobs' = [jobs EXCEPT ![c.job] = CallRow(@, c, procs[r].age)]
  /\ runs' = [t \in 1..claims |->
                IF c.op = "delete" /\ runs[t].job = c.job
                THEN [runs[t] EXCEPT !.status = "purged"] ELSE runs[t]]
  /\ UNCHANGED <<claims, workers, calls, faults>>

\* The row changed in between: JobStateError, or False from the method.
CallConflict(r, c) ==
  /\ CallEnd(r, c)
  /\ ~CallApplies(jobs[c.job], c)
  /\ UNCHANGED <<jobs, runs, claims, workers, calls, faults>>

-----------------------------------------------------------------------------
(* Shutdown, crash and restart of a runtime *)

\* A crash, or shutdown cancelling the background tasks: the durable claims of
\* the tasks stay behind.
Stop(r) ==
  /\ procs[r].phase # "down"
  /\ procs' = [procs EXCEPT ![r] = [IdleProc EXCEPT !.phase = "down"]]
  /\ workers' = [t \in {u \in DOMAIN workers : workers[u].rt # r} |-> workers[t]]
  /\ pending' = {c \in pending : c.rt # r}
  /\ Fault
  /\ UNCHANGED <<jobs, runs, claims, calls>>

\* initialize() releases expired claims before the tick loop starts.
Start(r) ==
  /\ procs[r].phase = "down"
  /\ procs' = [procs EXCEPT ![r] = IdleProc]
  /\ ReleaseExpiredClaims
  /\ UNCHANGED <<claims, workers, pending, calls, faults>>

-----------------------------------------------------------------------------
TickStep(r) == \/ TickStart(r) \/ TickSync(r)
               \/ \E j \in Jobs : DispatchSkip(r, j) \/ DispatchClaim(r, j)

HandlerEnds(t) == HandlerSucceeds(t) \/ HandlerFails(t) \/ ExecutorRaises(t)

FinalizeStep(t) == Finalize(t) \/ FinalizeLost(t)

CallStep(r) == \E c \in pending : CallWrite(r, c) \/ CallConflict(r, c)

Next ==
  \/ Advance
  \/ \E r \in Runtimes :
       \/ TickStep(r) \/ TickAbort(r) \/ CallStep(r) \/ Stop(r) \/ Start(r)
       \/ \E j \in Jobs, d \in Delays : Schedule(r, j, d)
       \/ \E j \in Jobs, op \in Ops, d \in Delays \cup {0} : CallRead(r, op, j, d)
  \/ \E t \in DOMAIN workers :
       \/ HandlerEnds(t) \/ FinalizeStep(t) \/ FinalizeError(t)
       \/ Renew(t) \/ RenewRefused(t) \/ RenewError(t)

Spec == Init /\ [][Next]_vars

(***************************************************************************)
(* Fairness: time passes; asyncio resumes every ready task, so the tick    *)
(* loop of a running process goes on, a pending call returns, and a task   *)
(* that is runnable whenever its loop is free is not passed over forever   *)
(* (strong fairness); wait_for bounds every handler; a stopped process is  *)
(* started again.                                                          *)
(***************************************************************************)
Fairness ==
  /\ WF_vars(Advance)
  /\ \A r \in Runtimes :
       WF_vars(TickStep(r)) /\ WF_vars(CallStep(r)) /\ WF_vars(Start(r))
  /\ \A t \in 1..MaxClaims : SF_vars(HandlerEnds(t)) /\ SF_vars(FinalizeStep(t))

FairSpec == Spec /\ Fairness

-----------------------------------------------------------------------------
(* Properties *)

\* A job is running exactly while one claim token is stored on it, that token has
\* a job_runs row still open, and every open row is the claim of its job: two
\* runtimes never have open runs of one job (claim_job, finalize_claim and
\* release_expired_claims keep the two tables in step across crashes).
ClaimsMatchRuns ==
  /\ \A j \in Jobs :
       /\ jobs[j].status = "running" <=> jobs[j].token # NoToken
       /\ jobs[j].expires = Never <=> jobs[j].token = NoToken
       /\ jobs[j].token # NoToken =>
            /\ jobs[j].token \in 1..claims
            /\ runs[jobs[j].token].job = j
            /\ runs[jobs[j].token].status = "running"
  /\ \A t \in 1..claims :
       runs[t].status = "running" => jobs[runs[t].job].token = t

\* A task works on the job of its own job_runs row, and what it is about to write
\* closes that row and takes the job out of `running'.  (Strengthening for the proofs.)
WorkersConsistent ==
  \A t \in DOMAIN workers :
    /\ workers[t].job = runs[t].job
    /\ workers[t].state = "finalizing" =>
         /\ workers[t].status \in {"completed", "active", "retrying", "failed"}
         /\ workers[t].outcome \in {"success", "failed"}

\* While the lease last granted to a task runs, its job stays claimed by it: no
\* other runtime claims, releases, pauses, cancels, reschedules or deletes it
\* until the lease is over.
LeaseExclusive ==
  \A t \in DOMAIN workers :
    workers[t].lease > 0 =>
      /\ jobs[workers[t].job].token = t
      /\ jobs[workers[t].job].expires = workers[t].lease

\* The retry and run counts in the private copy _run_job computes from are not stale
\* where finalize_claim can still write them.
OwnerCopyFresh ==
  \A t \in DOMAIN workers :
    LET w == workers[t]
        row == jobs[w.job]
    IN  row.token = t =>
          /\ w.state = "executing" => w.retry = row.retry /\ w.runs = row.runs
          /\ w.state = "finalizing" => w.runs = row.runs + 1

\* However calls race execution: the two tables agree about who runs what, and what
\* an owner is about to write is computed from what is there.
ClaimsHold == ClaimsMatchRuns /\ OwnerCopyFresh

\* Attempts are numbered without gaps or repetitions: run_count is the number of
\* finished attempts, whether their task finalized them or a crash left them to
\* release_expired_claims, and an open run has the next number.
AttemptsNumbered ==
  \A j \in Jobs :
    LET mine == {t \in 1..claims : runs[t].job = j /\ runs[t].status # "purged"}
    IN  /\ \A t, u \in mine : runs[t].attempt = runs[u].attempt => t = u
        /\ \A t \in mine :
             IF runs[t].status = "running"
             THEN runs[t].attempt = jobs[j].runs + 1
             ELSE runs[t].attempt \in 1..jobs[j].runs
        /\ \A n \in 1..jobs[j].runs : \E t \in mine : runs[t].attempt = n

\* A job that can still run has failed fewer than max_retries times in a row, and
\* the counter never passes max_retries, although executions, expired claims and
\* crashes all add to it.
RetryBudget ==
  \A j \in Jobs :
    /\ jobs[j].retry <= MaxRetries
    /\ jobs[j].status \in {"active", "retrying", "paused", "running"} =>
         jobs[j].retry < MaxRetries

\* The jobs whose claim a runtime still holds never exceed max_concurrent_jobs,
\* although it counts them in a snapshot.  A handler that lost its lease and runs
\* on is not among them: nothing in the code waits for it or counts it.
ClaimedBy(r) ==
  {workers[t].job : t \in {u \in DOMAIN workers :
       workers[u].rt = r /\ jobs[workers[u].job].token = u}}

ConcurrencyLimit == \A r \in Runtimes : Cardinality(ClaimedBy(r)) <= MaxConcurrent

\* A job that completed never runs again: no late finalization, resumption or
\* rescheduling takes it out of `completed'; it can only be deleted.
CompletedIsFinal ==
  [][\A j \in Jobs : jobs[j].status = "completed" =>
        jobs'[j].status \in {"completed", "deleted"}]_vars

\* Every attempt is closed in the end, whatever crashed while it was open.
AttemptsClose ==
  \A t \in 1..MaxClaims :
    (t \in 1..claims /\ runs[t].status = "running")
      ~> (t \in 1..claims /\ runs[t].status # "running")

\* A one-shot job does not stay live for ever: it completes, fails, or somebody
\* cancels, pauses or deletes it.
OneShotSettles ==
  \A j \in OneShots :
    (jobs[j].status \in {"active", "retrying", "running"})
      ~> (jobs[j].status \notin {"active", "retrying", "running"})

\* The inductive invariant behind the claim protocol.
ClaimInv == ClaimsMatchRuns /\ WorkersConsistent /\ LeaseExclusive

Ledger == INSTANCE RunLedger WITH
            book <- [t \in 1..claims |-> [job |-> runs[t].job, status |-> runs[t].status]]

\* The job_runs table implements the run ledger: a run is opened only when its job
\* has no open run, closed exactly once and never reopened.
ImplementsLedger == Ledger!Spec

\* The rows of the one-shot jobs as JobTable has them; names and payloads are not
\* modelled here.
Table == INSTANCE JobTable WITH
           Jobs <- OneShots, Owners <- {""}, Keys <- {0},
           jobs <- [j \in OneShots |->
                     [st |-> jobs[j].status, owner |-> "", key |-> 0,
                      retry |-> jobs[j].retry, token |-> jobs[j].token]]

\* Whatever the tick loops, the workers, the crashes and the callers of several
\* runtimes do to a one-shot job, its row takes only the steps the users of the
\* scheduler are told of: JobTable, on which ReminderSaga relies.
ImplementsJobTable == Table!JobsSpec
=============================================================================
