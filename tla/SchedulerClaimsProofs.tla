------------------------ MODULE SchedulerClaimsProofs ------------------------
(***************************************************************************)
(* Proofs about SchedulerClaims, for any number of jobs, runtimes, claims, *)
(* retries, faults and any delays.                                         *)
(***************************************************************************)
EXTENDS SchedulerClaims, FiniteSetTheorems, TLAPS

-----------------------------------------------------------------------------
(* Time *)

\* A stored instant stays in its column as time passes, and only NULL is NULL
\* afterwards (clock comparisons of SchedulerPersistence).
LEMMA ElapseFacts ==
  ASSUME NEW x \in TimeColumn
  PROVE  /\ Elapse(x) \in TimeColumn
         /\ Elapse(x) = Never <=> x = Never
         /\ x <= 0 => Elapse(x) <= 0
  BY BoundsAssumption, TimesAssumption
     DEF Elapse, AtLeastFloor, TimeColumn, Never, Floor

\* `clock reading + delay' is an instant, never NULL.
LEMMA AfterFacts ==
  ASSUME NEW d \in 0..Horizon, NEW age \in 0..MaxStall
  PROVE  After(d, age) \in TimeColumn /\ After(d, age) # Never
  BY BoundsAssumption, TimesAssumption
     DEF After, AtLeastFloor, TimeColumn, Never, Floor

\* The configured delays are instants when counted from now.
LEMMA DelayFacts ==
  /\ ClaimTTL \in TimeColumn /\ ClaimTTL # Never /\ ClaimTTL > 0
  /\ RetryDelay \in TimeColumn /\ Interval \in TimeColumn /\ Never \in TimeColumn
  /\ \A d \in Delays : d \in TimeColumn
  /\ 0 \in 0..Horizon
  BY BoundsAssumption, TimesAssumption DEF TimeColumn, Never, Floor

-----------------------------------------------------------------------------
(* Rows.  A record with the right fields, each of the right type, is a row; *)
(* this is how an update of several columns is shown to leave a row.         *)

\* A record with the columns of `jobs', each in its range, is a row of it.
LEMMA JobRowIntro ==
  ASSUME NEW s,
         s = [k \in DOMAIN s |-> s[k]],
         DOMAIN s = {"status", "run_at", "next", "retry", "runs", "token", "expires", "rev"},
         s.status \in JobStatus, s.run_at \in TimeColumn, s.next \in TimeColumn,
         s.retry \in Nat, s.runs \in Nat, s.token \in 0..MaxClaims,
         s.expires \in TimeColumn, s.rev \in Nat
  PROVE  s \in JobRow
  BY DEF JobRow

\* The same for the private state of a _run_job task.
LEMMA WorkerIntro ==
  ASSUME NEW s,
         s = [k \in DOMAIN s |-> s[k]],
         DOMAIN s = {"state", "rt", "job", "outcome", "status", "next", "retry", "runs",
                     "lease", "renewing"},
         s.state \in {"executing", "finalizing"}, s.rt \in Runtimes, s.job \in Jobs,
         s.outcome \in {"running", "success", "failed"}, s.status \in JobStatus,
         s.next \in TimeColumn, s.retry \in Nat, s.runs \in Nat,
         s.lease \in TimeColumn, s.renewing \in BOOLEAN
  PROVE  s \in Worker
  BY DEF Worker

\* The same for where a runtime's event loop is.
LEMMA ProcIntro ==
  ASSUME NEW s,
         s = [k \in DOMAIN s |-> s[k]],
         DOMAIN s = {"phase", "age", "todo", "seen", "rest"},
         s.phase \in {"down", "idle", "sync", "dispatch", "call"},
         s.age \in 0..MaxStall, s.todo \in SUBSET Jobs, s.seen \in SUBSET Jobs,
         s.rest \in BOOLEAN
  PROVE  s \in Proc
  BY DEF Proc

\* claim_job leaves a row.
LEMMA ClaimedRowType ==
  ASSUME NEW row \in JobRow, NEW t \in 0..MaxClaims, NEW age \in 0..MaxStall
  PROVE  ClaimedRow(row, t, age) \in JobRow
  <1> DEFINE s == ClaimedRow(row, t, age)
  <1>1. s = [k \in DOMAIN s |-> s[k]]
    BY DEF ClaimedRow, JobRow, JobStatus
  <1>2. DOMAIN s = {"status", "run_at", "next", "retry", "runs", "token", "expires", "rev"}
    BY DEF ClaimedRow, JobRow, JobStatus
  <1>3. /\ s.status \in JobStatus /\ s.run_at \in TimeColumn /\ s.next \in TimeColumn
        /\ s.retry \in Nat /\ s.runs \in Nat /\ s.token \in 0..MaxClaims
        /\ s.expires \in TimeColumn /\ s.rev \in Nat
    BY AfterFacts, TimesAssumption DEF ClaimedRow, JobRow, JobStatus
  <1>4. QED
    BY <1>1, <1>2, <1>3, JobRowIntro

\* release_expired_claims leaves a row.
LEMMA ReleasedRowType ==
  ASSUME NEW row \in JobRow
  PROVE  ReleasedRow(row) \in JobRow
  <1> DEFINE s == ReleasedRow(row)
  <1>1. s = [k \in DOMAIN s |-> s[k]]
    BY DEF ReleasedRow, JobRow, JobStatus, NoToken
  <1>2. DOMAIN s = {"status", "run_at", "next", "retry", "runs", "token", "expires", "rev"}
    BY DEF ReleasedRow, JobRow, JobStatus, NoToken
  <1>3. /\ s.status \in JobStatus /\ s.run_at \in TimeColumn /\ s.next \in TimeColumn
        /\ s.retry \in Nat /\ s.runs \in Nat /\ s.token \in 0..MaxClaims
        /\ s.expires \in TimeColumn /\ s.rev \in Nat
    BY DelayFacts, BoundsAssumption DEF ReleasedRow, JobRow, JobStatus, NoToken
  <1>4. QED
    BY <1>1, <1>2, <1>3, JobRowIntro

\* renew_claim leaves a row.
LEMMA RenewedRowType ==
  ASSUME NEW row \in JobRow
  PROVE  RenewedRow(row) \in JobRow
  <1> DEFINE s == RenewedRow(row)
  <1>1. s = [k \in DOMAIN s |-> s[k]]
    BY DEF RenewedRow, JobRow
  <1>2. DOMAIN s = {"status", "run_at", "next", "retry", "runs", "token", "expires", "rev"}
    BY DEF RenewedRow, JobRow
  <1>3. /\ s.status \in JobStatus /\ s.run_at \in TimeColumn /\ s.next \in TimeColumn
        /\ s.retry \in Nat /\ s.runs \in Nat /\ s.token \in 0..MaxClaims
        /\ s.expires \in TimeColumn /\ s.rev \in Nat
    BY DelayFacts DEF RenewedRow, JobRow
  <1>4. QED
    BY <1>1, <1>2, <1>3, JobRowIntro

\* finalize_claim leaves a row.
LEMMA FinalizedRowType ==
  ASSUME NEW row \in JobRow, NEW w \in Worker
  PROVE  FinalizedRow(row, w) \in JobRow
  <1> DEFINE s == FinalizedRow(row, w)
  <1>1. s = [k \in DOMAIN s |-> s[k]]
    BY DEF FinalizedRow, JobRow, Worker, NoToken
  <1>2. DOMAIN s = {"status", "run_at", "next", "retry", "runs", "token", "expires", "rev"}
    BY DEF FinalizedRow, JobRow, Worker, NoToken
  <1>3. /\ s.status \in JobStatus /\ s.run_at \in TimeColumn /\ s.next \in TimeColumn
        /\ s.retry \in Nat /\ s.runs \in Nat /\ s.token \in 0..MaxClaims
        /\ s.expires \in TimeColumn /\ s.rev \in Nat
    BY DelayFacts, BoundsAssumption DEF FinalizedRow, JobRow, Worker, NoToken
  <1>4. QED
    BY <1>1, <1>2, <1>3, JobRowIntro

\* pause_job, resume_job, delete_job, cancel_job and reschedule_job leave a row.
LEMMA CallRowType ==
  ASSUME NEW row \in JobRow, NEW c \in Call, NEW age \in 0..MaxStall
  PROVE  CallRow(row, c, age) \in JobRow
  <1>1. /\ After(c.delay, age) \in TimeColumn
        /\ After(Interval, age) \in TimeColumn
    BY AfterFacts, TimesAssumption DEF Call
  <1>2. ComputeNext(c.job, row, age) \in TimeColumn
    BY <1>1 DEF ComputeNext, JobRow
  <1>3. c.op \in Ops
    BY DEF Call
  <1>4. CASE c.op = "pause"
    <2> DEFINE s == [row EXCEPT !.status = "paused", !.rev = @ + 1]
    <2>1. s = [k \in DOMAIN s |-> s[k]]
      BY DEF JobRow, JobStatus
    <2>2. DOMAIN s = {"status", "run_at", "next", "retry", "runs", "token", "expires", "rev"}
      BY DEF JobRow, JobStatus
    <2>3. /\ s.status \in JobStatus /\ s.run_at \in TimeColumn /\ s.next \in TimeColumn
          /\ s.retry \in Nat /\ s.runs \in Nat /\ s.token \in 0..MaxClaims
          /\ s.expires \in TimeColumn /\ s.rev \in Nat
      BY DEF JobRow, JobStatus
    <2>4. QED
      BY <2>1, <2>2, <2>3, JobRowIntro, <1>4 DEF CallRow
  <1>5. CASE c.op = "resume"
    <2> DEFINE s == [row EXCEPT !.status = "active", !.next = ComputeNext(c.job, row, age),
                               !.rev = @ + 1]
    <2>1. s = [k \in DOMAIN s |-> s[k]]
      BY DEF JobRow, JobStatus
    <2>2. DOMAIN s = {"status", "run_at", "next", "retry", "runs", "token", "expires", "rev"}
      BY DEF JobRow, JobStatus
    <2>3. /\ s.status \in JobStatus /\ s.run_at \in TimeColumn /\ s.next \in TimeColumn
          /\ s.retry \in Nat /\ s.runs \in Nat /\ s.token \in 0..MaxClaims
          /\ s.expires \in TimeColumn /\ s.rev \in Nat
      BY <1>2 DEF JobRow, JobStatus
    <2>4. QED
      BY <2>1, <2>2, <2>3, JobRowIntro, <1>5 DEF CallRow
  <1>6. CASE c.op = "delete"
    <2> DEFINE s == [NoRow EXCEPT !.status = "deleted"]
    <2>1. s = [k \in DOMAIN s |-> s[k]]
      BY DEF JobRow, JobStatus, NoRow, NoToken
    <2>2. DOMAIN s = {"status", "run_at", "next", "retry", "runs", "token", "expires", "rev"}
      BY DEF JobRow, JobStatus, NoRow, NoToken
    <2>3. /\ s.status \in JobStatus /\ s.run_at \in TimeColumn /\ s.next \in TimeColumn
          /\ s.retry \in Nat /\ s.runs \in Nat /\ s.token \in 0..MaxClaims
          /\ s.expires \in TimeColumn /\ s.rev \in Nat
      BY DelayFacts, BoundsAssumption DEF JobRow, JobStatus, NoRow, NoToken
    <2>4. QED
      BY <2>1, <2>2, <2>3, JobRowIntro, <1>6 DEF CallRow
  <1>7. CASE c.op = "cancel"
    <2> DEFINE s == [row EXCEPT !.status = "cancelled", !.next = Never, !.token = NoToken,
                               !.expires = Never, !.rev = @ + 1]
    <2>1. s = [k \in DOMAIN s |-> s[k]]
      BY DEF JobRow, JobStatus, NoToken
    <2>2. DOMAIN s = {"status", "run_at", "next", "retry", "runs", "token", "expires", "rev"}
      BY DEF JobRow, JobStatus, NoToken
    <2>3. /\ s.status \in JobStatus /\ s.run_at \in TimeColumn /\ s.next \in TimeColumn
          /\ s.retry \in Nat /\ s.runs \in Nat /\ s.token \in 0..MaxClaims
          /\ s.expires \in TimeColumn /\ s.rev \in Nat
      BY DelayFacts, BoundsAssumption DEF JobRow, JobStatus, NoToken
    <2>4. QED
      BY <2>1, <2>2, <2>3, JobRowIntro, <1>7 DEF CallRow
  <1>8. CASE c.op = "reschedule"
    <2> DEFINE s == [row EXCEPT !.status = "active", !.retry = 0, !.run_at = After(c.delay, age),
                               !.next = After(c.delay, age), !.rev = @ + 1]
    <2>1. s = [k \in DOMAIN s |-> s[k]]
      BY DEF JobRow, JobStatus
    <2>2. DOMAIN s = {"status", "run_at", "next", "retry", "runs", "token", "expires", "rev"}
      BY DEF JobRow, JobStatus
    <2>3. /\ s.status \in JobStatus /\ s.run_at \in TimeColumn /\ s.next \in TimeColumn
          /\ s.retry \in Nat /\ s.runs \in Nat /\ s.token \in 0..MaxClaims
          /\ s.expires \in TimeColumn /\ s.rev \in Nat
      BY <1>1 DEF JobRow, JobStatus
    <2>4. QED
      BY <2>1, <2>2, <2>3, JobRowIntro, <1>8 DEF CallRow
  <1>9. QED
    BY <1>3, <1>4, <1>5, <1>6, <1>7, <1>8 DEF Ops

\* schedule inserts a row.
LEMMA ScheduledRowType ==
  ASSUME NEW j \in Jobs, NEW d \in Delays
  PROVE  [NoRow EXCEPT !.status = "active", !.rev = 1,
                       !.run_at = IF j \in OneShots THEN d ELSE Never,
                       !.next = IF j \in OneShots THEN d ELSE Interval] \in JobRow
  <1> DEFINE s == [NoRow EXCEPT !.status = "active", !.rev = 1,
                       !.run_at = IF j \in OneShots THEN d ELSE Never,
                       !.next = IF j \in OneShots THEN d ELSE Interval]
  <1>1. s = [k \in DOMAIN s |-> s[k]]
    BY DEF NoRow, NoToken, JobRow, JobStatus
  <1>2. DOMAIN s = {"status", "run_at", "next", "retry", "runs", "token", "expires", "rev"}
    BY DEF NoRow, NoToken, JobRow, JobStatus
  <1>3. /\ s.status \in JobStatus /\ s.run_at \in TimeColumn /\ s.next \in TimeColumn
        /\ s.retry \in Nat /\ s.runs \in Nat /\ s.token \in 0..MaxClaims
        /\ s.expires \in TimeColumn /\ s.rev \in Nat
    BY DelayFacts, BoundsAssumption DEF NoRow, NoToken, JobRow, JobStatus
  <1>4. s \in JobRow
    <2> HIDE DEF s
    <2> QED
      BY <1>1, <1>2, <1>3, JobRowIntro
  <1>5. QED
    BY <1>4

\* Time passing leaves a row.
LEMMA ElapsedRowType ==
  ASSUME NEW row \in JobRow
  PROVE  [row EXCEPT !.run_at = Elapse(@), !.next = Elapse(@), !.expires = Elapse(@)] \in JobRow
  <1> DEFINE s == [row EXCEPT !.run_at = Elapse(@), !.next = Elapse(@), !.expires = Elapse(@)]
  <1>1. s = [k \in DOMAIN s |-> s[k]]
    BY DEF JobRow
  <1>2. DOMAIN s = {"status", "run_at", "next", "retry", "runs", "token", "expires", "rev"}
    BY DEF JobRow
  <1>3. /\ s.status \in JobStatus /\ s.run_at \in TimeColumn /\ s.next \in TimeColumn
        /\ s.retry \in Nat /\ s.runs \in Nat /\ s.token \in 0..MaxClaims
        /\ s.expires \in TimeColumn /\ s.rev \in Nat
    BY ElapseFacts DEF JobRow
  <1>4. QED
    BY <1>1, <1>2, <1>3, JobRowIntro

\* The private copy after the handler succeeded.
LEMMA SucceededWorkerType ==
  ASSUME NEW w \in Worker
  PROVE  [w EXCEPT !.state = "finalizing", !.outcome = "success", !.renewing = FALSE,
                   !.retry = 0, !.runs = @ + 1,
                   !.status = IF w.job \in OneShots THEN "completed" ELSE "active",
                   !.next = IF w.job \in OneShots THEN Never ELSE Interval] \in Worker
  <1> DEFINE s == [w EXCEPT !.state = "finalizing", !.outcome = "success", !.renewing = FALSE,
                   !.retry = 0, !.runs = @ + 1,
                   !.status = IF w.job \in OneShots THEN "completed" ELSE "active",
                   !.next = IF w.job \in OneShots THEN Never ELSE Interval]
  <1>1. s = [k \in DOMAIN s |-> s[k]]
    BY DEF Worker, JobStatus
  <1>2. DOMAIN s = {"state", "rt", "job", "outcome", "status", "next", "retry",
                    "runs", "lease", "renewing"}
    BY DEF Worker, JobStatus
  <1>3. /\ s.state \in {"executing", "finalizing"} /\ s.rt \in Runtimes /\ s.job \in Jobs
        /\ s.outcome \in {"running", "success", "failed"} /\ s.status \in JobStatus
        /\ s.next \in TimeColumn /\ s.retry \in Nat /\ s.runs \in Nat
        /\ s.lease \in TimeColumn /\ s.renewing \in BOOLEAN
    BY DelayFacts DEF Worker, JobStatus
  <1>4. s \in Worker
    <2> HIDE DEF s
    <2> QED
      BY <1>1, <1>2, <1>3, WorkerIntro
  <1>5. QED
    BY <1>4

\* The private copy after the handler failed.
LEMMA FailedWorkerType ==
  ASSUME NEW w \in Worker
  PROVE  [w EXCEPT !.state = "finalizing", !.outcome = "failed", !.renewing = FALSE,
                   !.retry = @ + 1, !.runs = @ + 1,
                   !.status = IF w.retry + 1 >= MaxRetries THEN "failed" ELSE "retrying",
                   !.next = IF w.retry + 1 >= MaxRetries THEN Never ELSE RetryDelay] \in Worker
  <1> DEFINE s == [w EXCEPT !.state = "finalizing", !.outcome = "failed", !.renewing = FALSE,
                   !.retry = @ + 1, !.runs = @ + 1,
                   !.status = IF w.retry + 1 >= MaxRetries THEN "failed" ELSE "retrying",
                   !.next = IF w.retry + 1 >= MaxRetries THEN Never ELSE RetryDelay]
  <1>1. s = [k \in DOMAIN s |-> s[k]]
    BY DEF Worker, JobStatus
  <1>2. DOMAIN s = {"state", "rt", "job", "outcome", "status", "next", "retry",
                    "runs", "lease", "renewing"}
    BY DEF Worker, JobStatus
  <1>3. /\ s.state \in {"executing", "finalizing"} /\ s.rt \in Runtimes /\ s.job \in Jobs
        /\ s.outcome \in {"running", "success", "failed"} /\ s.status \in JobStatus
        /\ s.next \in TimeColumn /\ s.retry \in Nat /\ s.runs \in Nat
        /\ s.lease \in TimeColumn /\ s.renewing \in BOOLEAN
    BY DelayFacts DEF Worker, JobStatus
  <1>4. s \in Worker
    <2> HIDE DEF s
    <2> QED
      BY <1>1, <1>2, <1>3, WorkerIntro
  <1>5. QED
    BY <1>4

\* The private copy after the executor raised.
LEMMA RaisedWorkerType ==
  ASSUME NEW w \in Worker
  PROVE  [w EXCEPT !.state = "finalizing", !.outcome = "failed", !.renewing = FALSE,
                   !.runs = @ + 1, !.status = "failed"] \in Worker
  <1> DEFINE s == [w EXCEPT !.state = "finalizing", !.outcome = "failed", !.renewing = FALSE,
                   !.runs = @ + 1, !.status = "failed"]
  <1>1. s = [k \in DOMAIN s |-> s[k]]
    BY DEF Worker, JobStatus
  <1>2. DOMAIN s = {"state", "rt", "job", "outcome", "status", "next", "retry",
                    "runs", "lease", "renewing"}
    BY DEF Worker, JobStatus
  <1>3. /\ s.state \in {"executing", "finalizing"} /\ s.rt \in Runtimes /\ s.job \in Jobs
        /\ s.outcome \in {"running", "success", "failed"} /\ s.status \in JobStatus
        /\ s.next \in TimeColumn /\ s.retry \in Nat /\ s.runs \in Nat
        /\ s.lease \in TimeColumn /\ s.renewing \in BOOLEAN
    BY DEF Worker, JobStatus
  <1>4. QED
    BY <1>1, <1>2, <1>3, WorkerIntro

\* The private copy as time passes.
LEMMA ElapsedWorkerType ==
  ASSUME NEW w \in Worker
  PROVE  [w EXCEPT !.next = Elapse(@), !.lease = Elapse(@)] \in Worker
  <1> DEFINE s == [w EXCEPT !.next = Elapse(@), !.lease = Elapse(@)]
  <1>1. s = [k \in DOMAIN s |-> s[k]]
    BY DEF Worker, JobStatus
  <1>2. DOMAIN s = {"state", "rt", "job", "outcome", "status", "next", "retry",
                    "runs", "lease", "renewing"}
    BY DEF Worker, JobStatus
  <1>3. /\ s.state \in {"executing", "finalizing"} /\ s.rt \in Runtimes /\ s.job \in Jobs
        /\ s.outcome \in {"running", "success", "failed"} /\ s.status \in JobStatus
        /\ s.next \in TimeColumn /\ s.retry \in Nat /\ s.runs \in Nat
        /\ s.lease \in TimeColumn /\ s.renewing \in BOOLEAN
    BY ElapseFacts DEF Worker, JobStatus
  <1>4. QED
    BY <1>1, <1>2, <1>3, WorkerIntro

\* A tick with its snapshot.
LEMMA DispatchProcType ==
  ASSUME NEW p \in Proc, NEW T \in SUBSET Jobs, NEW S \in SUBSET Jobs
  PROVE  [p EXCEPT !.phase = "dispatch", !.todo = T, !.seen = S] \in Proc
  <1> DEFINE s == [p EXCEPT !.phase = "dispatch", !.todo = T, !.seen = S]
  <1>1. s = [k \in DOMAIN s |-> s[k]]
    BY DEF Proc
  <1>2. DOMAIN s = {"phase", "age", "todo", "seen", "rest"}
    BY DEF Proc
  <1>3. /\ s.phase \in {"down", "idle", "sync", "dispatch", "call"}
        /\ s.age \in 0..MaxStall /\ s.todo \in SUBSET Jobs /\ s.seen \in SUBSET Jobs
        /\ s.rest \in BOOLEAN
    BY DEF Proc
  <1>4. QED
    BY <1>1, <1>2, <1>3, ProcIntro

\* A tick after one dispatch.
LEMMA DispatchedProcType ==
  ASSUME NEW p \in Proc, NEW j \in Jobs, NEW S \in SUBSET Jobs
  PROVE  [p EXCEPT !.todo = @ \ {j}, !.seen = @ \cup S] \in Proc
  <1> DEFINE s == [p EXCEPT !.todo = @ \ {j}, !.seen = @ \cup S]
  <1>1. s = [k \in DOMAIN s |-> s[k]]
    BY DEF Proc
  <1>2. DOMAIN s = {"phase", "age", "todo", "seen", "rest"}
    BY DEF Proc
  <1>3. /\ s.phase \in {"down", "idle", "sync", "dispatch", "call"}
        /\ s.age \in 0..MaxStall /\ s.todo \in SUBSET Jobs /\ s.seen \in SUBSET Jobs
        /\ s.rest \in BOOLEAN
    BY DEF Proc
  <1>4. QED
    BY <1>1, <1>2, <1>3, ProcIntro

\* A process as time passes.
LEMMA AgedProcType ==
  ASSUME NEW p \in Proc, NEW a \in 0..MaxStall
  PROVE  [p EXCEPT !.age = a, !.rest = FALSE] \in Proc
  <1> DEFINE s == [p EXCEPT !.age = a, !.rest = FALSE]
  <1>1. s = [k \in DOMAIN s |-> s[k]]
    BY DEF Proc
  <1>2. DOMAIN s = {"phase", "age", "todo", "seen", "rest"}
    BY DEF Proc
  <1>3. /\ s.phase \in {"down", "idle", "sync", "dispatch", "call"}
        /\ s.age \in 0..MaxStall /\ s.todo \in SUBSET Jobs /\ s.seen \in SUBSET Jobs
        /\ s.rest \in BOOLEAN
    BY DEF Proc
  <1>4. QED
    BY <1>1, <1>2, <1>3, ProcIntro

\* A process after a management call.
LEMMA CallDoneProcType ==
  ASSUME NEW p \in Proc
  PROVE  [p EXCEPT !.phase = "idle", !.age = 0] \in Proc
  <1> DEFINE s == [p EXCEPT !.phase = "idle", !.age = 0]
  <1>1. s = [k \in DOMAIN s |-> s[k]]
    BY DEF Proc
  <1>2. DOMAIN s = {"phase", "age", "todo", "seen", "rest"}
    BY DEF Proc
  <1>3. /\ s.phase \in {"down", "idle", "sync", "dispatch", "call"}
        /\ s.age \in 0..MaxStall /\ s.todo \in SUBSET Jobs /\ s.seen \in SUBSET Jobs
        /\ s.rest \in BOOLEAN
    BY BoundsAssumption DEF Proc
  <1>4. QED
    BY <1>1, <1>2, <1>3, ProcIntro

-----------------------------------------------------------------------------
(* Type correctness *)

\* Recovery of expired claims keeps both tables well typed.
LEMMA ReleaseType ==
  ASSUME TypeOK, ReleaseExpiredClaims
  PROVE  jobs' \in [Jobs -> JobRow] /\ runs' \in [1..claims -> RunRow]
  <1>1. jobs' \in [Jobs -> JobRow]
    BY ReleasedRowType DEF TypeOK, ReleaseExpiredClaims
  <1>2. \A t \in 1..claims : [runs[t] EXCEPT !.status = "failed"] \in RunRow
    BY DEF TypeOK, RunRow
  <1>3. runs' \in [1..claims -> RunRow]
    BY <1>2 DEF TypeOK, ReleaseExpiredClaims
  <1>4. QED
    BY <1>1, <1>3

\* The process states a tick starts from and ends in.
LEMMA ProcConstants ==
  /\ IdleProc \in Proc /\ Resting \in Proc
  /\ [IdleProc EXCEPT !.phase = "sync"] \in Proc
  /\ [IdleProc EXCEPT !.phase = "down"] \in Proc
  <1>1. IdleProc \in Proc
    BY BoundsAssumption DEF IdleProc, Proc
  <1> HIDE DEF IdleProc
  <1>2. /\ [IdleProc EXCEPT !.rest = TRUE] \in Proc
        /\ [IdleProc EXCEPT !.phase = "sync"] \in Proc
        /\ [IdleProc EXCEPT !.phase = "down"] \in Proc
    BY <1>1 DEF Proc
  <1>3. QED
    BY <1>1, <1>2 DEF Resting

\* Ending the dispatch of one job keeps the process well typed.
LEMMA DispatchedType ==
  ASSUME TypeOK, NEW r \in Runtimes, NEW j \in Jobs, NEW also \in SUBSET Jobs,
         Dispatched(r, j, also)
  PROVE  procs' \in [Runtimes -> Proc]
  <1>1. procs[r] \in Proc
    BY DEF TypeOK
  <1>2. [procs[r] EXCEPT !.todo = @ \ {j}, !.seen = @ \cup also] \in Proc
    BY <1>1, DispatchedProcType
  <1>3. Resting \in Proc
    BY ProcConstants
  <1>4. CASE procs[r].todo = {j}
    BY <1>3, <1>4 DEF TypeOK, Dispatched
  <1>5. CASE procs[r].todo # {j}
    <2>1. procs' = [procs EXCEPT ![r] =
                      [procs[r] EXCEPT !.todo = @ \ {j}, !.seen = @ \cup also]]
      BY <1>5 DEF Dispatched, TypeOK
    <2>2. QED
      BY <1>2, <2>1 DEF TypeOK
  <1>6. QED
    BY <1>4, <1>5

\* Every step of the scheduler keeps every table, task and process well typed.
LEMMA TypeStep == TypeOK /\ [Next]_vars => TypeOK'
  <1> SUFFICES ASSUME TypeOK, [Next]_vars
               PROVE  TypeOK'
    OBVIOUS
  <1> USE BoundsAssumption
  <1>0. /\ IdleProc \in Proc /\ Resting \in Proc
        /\ [IdleProc EXCEPT !.phase = "sync"] \in Proc
        /\ [IdleProc EXCEPT !.phase = "down"] \in Proc
    BY ProcConstants
  <1>1. CASE Advance
    <2>1. jobs' \in [Jobs -> JobRow]
      BY <1>1, ElapsedRowType DEF TypeOK, Advance
    <2>2. /\ DOMAIN workers' = DOMAIN workers
          /\ workers' \in [DOMAIN workers -> Worker]
      BY <1>1, ElapsedWorkerType DEF TypeOK, Advance
    <2>3. \A r \in Runtimes : (IF Mid(r) THEN procs[r].age + 1 ELSE procs[r].age) \in 0..MaxStall
      <3> SUFFICES ASSUME NEW r \in Runtimes
                   PROVE  (IF Mid(r) THEN procs[r].age + 1 ELSE procs[r].age) \in 0..MaxStall
        OBVIOUS
      <3>1. procs[r].age \in 0..MaxStall
        BY DEF TypeOK, Proc
      <3>2. Mid(r) => procs[r].age < MaxStall
        BY <1>1 DEF Advance
      <3>3. QED
        BY <3>1, <3>2
    <2>4. procs' \in [Runtimes -> Proc]
      BY <1>1, <2>3, AgedProcType DEF TypeOK, Advance
    <2>5. QED
      BY <1>1, <2>1, <2>2, <2>4 DEF TypeOK, Advance
  <1>2. ASSUME NEW r \in Runtimes, TickStart(r) PROVE TypeOK'
    BY <1>2, <1>0, ReleaseType DEF TypeOK, TickStart
  <1>3. ASSUME NEW r \in Runtimes, TickSync(r) PROVE TypeOK'
    <2> DEFINE due == {j \in Jobs : /\ Runnable(jobs[j]) /\ jobs[j].next # Never
                                    /\ jobs[j].next <= -procs[r].age}
               run == {j \in Jobs : jobs[j].status = "running"}
    <2>1. [procs[r] EXCEPT !.phase = "dispatch", !.todo = due, !.seen = run] \in Proc
      BY DispatchProcType DEF TypeOK
    <2> HIDE DEF due, run
    <2>2. procs' = [procs EXCEPT ![r] = IF due = {} THEN Resting
                 ELSE [procs[r] EXCEPT !.phase = "dispatch", !.todo = due, !.seen = run]]
      BY <1>3 DEF TickSync, due, run, TypeOK
    <2>3. QED
      BY <1>3, <1>0, <2>1, <2>2 DEF TypeOK, TickSync
  <1>4. ASSUME NEW r \in Runtimes, NEW j \in Jobs, DispatchSkip(r, j) PROVE TypeOK'
    BY <1>4, DispatchedType DEF TypeOK, DispatchSkip
  <1>5. ASSUME NEW r \in Runtimes, NEW j \in Jobs, DispatchClaim(r, j) PROVE TypeOK'
    <2> DEFINE t == claims + 1
               row == ClaimedRow(jobs[j], t, procs[r].age)
    <2>1. t \in 1..MaxClaims /\ claims' = t /\ procs[r].age \in 0..MaxStall
      BY <1>5 DEF TypeOK, DispatchClaim, Proc
    <2>2. row \in JobRow
      <3>1. jobs[j] \in JobRow /\ t \in 0..MaxClaims
        BY <2>1 DEF TypeOK
      <3> HIDE DEF t
      <3>2. QED
        BY <3>1, <2>1, ClaimedRowType
    <2>3. jobs' \in [Jobs -> JobRow]
      BY <1>5, <2>2 DEF TypeOK, DispatchClaim
    <2>4. runs' \in [1..t -> RunRow]
      <3>1. [job |-> j, attempt |-> row.runs + 1, status |-> "running"] \in RunRow
        BY <2>2 DEF JobRow, RunRow
      <3>2. \A u \in 1..t : u # t => u \in 1..claims
        BY DEF TypeOK
      <3> HIDE DEF row
      <3>3. runs' = [u \in 1..t |-> IF u = t THEN [job |-> j, attempt |-> row.runs + 1,
                                                   status |-> "running"] ELSE runs[u]]
        BY <1>5 DEF DispatchClaim, row
      <3>4. QED
        BY <3>1, <3>2, <3>3 DEF TypeOK
    <2>5. /\ DOMAIN workers' = DOMAIN workers \cup {t}
          /\ workers' \in [DOMAIN workers \cup {t} -> Worker]
      <3> DEFINE w == [state |-> "executing", rt |-> r, job |-> j, outcome |-> "running",
                       status |-> "running", next |-> row.next, retry |-> row.retry,
                       runs |-> row.runs, lease |-> row.expires, renewing |-> TRUE]
      <3>1. w \in Worker
        BY <2>2 DEF JobRow, Worker, JobStatus
      <3>2. workers' = [u \in DOMAIN workers \cup {t} |-> IF u = t THEN w ELSE workers[u]]
        BY <1>5 DEF DispatchClaim
      <3> HIDE DEF w
      <3>3. QED
        BY <3>1, <3>2 DEF TypeOK
    <2>6. procs' \in [Runtimes -> Proc]
      BY <1>5, DispatchedType DEF DispatchClaim
    <2>7. 1..claims \subseteq 1..t
      BY DEF TypeOK
    <2>8. UNCHANGED <<pending, calls, faults>>
      BY <1>5 DEF DispatchClaim
    <2> HIDE DEF t, row
    <2>9. DOMAIN workers' \subseteq 1..claims'
      BY <2>1, <2>5, <2>7 DEF TypeOK
    <2>10. QED
      BY <2>1, <2>3, <2>4, <2>5, <2>6, <2>8, <2>9 DEF TypeOK
  <1>6. ASSUME NEW r \in Runtimes, TickAbort(r) PROVE TypeOK'
    BY <1>6, <1>0 DEF TypeOK, TickAbort, Fault
  <1>7. ASSUME NEW t \in DOMAIN workers, HandlerEnds(t) PROVE TypeOK'
    <2>1. workers[t] \in Worker
      BY DEF TypeOK
    <2>2. \E w \in Worker : workers' = [workers EXCEPT ![t] = w]
      <3>1. CASE HandlerSucceeds(t)
        <4> DEFINE w == [workers[t] EXCEPT !.state = "finalizing", !.outcome = "success",
                     !.renewing = FALSE, !.retry = 0, !.runs = @ + 1,
                     !.status = IF workers[t].job \in OneShots THEN "completed" ELSE "active",
                     !.next = IF workers[t].job \in OneShots THEN Never ELSE Interval]
        <4>1. w \in Worker
          BY <2>1, SucceededWorkerType
        <4>2. workers' = [workers EXCEPT ![t] = w]
          BY <3>1 DEF HandlerSucceeds
        <4> HIDE DEF w
        <4>3. QED
          BY <4>1, <4>2
      <3>2. CASE HandlerFails(t)
        <4> DEFINE w == [workers[t] EXCEPT !.state = "finalizing", !.outcome = "failed",
                     !.renewing = FALSE, !.retry = @ + 1, !.runs = @ + 1,
                     !.status = IF workers[t].retry + 1 >= MaxRetries THEN "failed" ELSE "retrying",
                     !.next = IF workers[t].retry + 1 >= MaxRetries THEN Never ELSE RetryDelay]
        <4>1. w \in Worker
          BY <2>1, FailedWorkerType
        <4>2. workers' = [workers EXCEPT ![t] = w]
          BY <3>2 DEF HandlerFails
        <4> HIDE DEF w
        <4>3. QED
          BY <4>1, <4>2
      <3>3. CASE ExecutorRaises(t)
        <4> DEFINE w == [workers[t] EXCEPT !.state = "finalizing", !.outcome = "failed",
                     !.renewing = FALSE, !.runs = @ + 1, !.status = "failed"]
        <4>1. w \in Worker
          BY <2>1, RaisedWorkerType
        <4>2. workers' = [workers EXCEPT ![t] = w]
          BY <3>3 DEF ExecutorRaises
        <4> HIDE DEF w
        <4>3. QED
          BY <4>1, <4>2
      <3>4. QED
        BY <1>7, <3>1, <3>2, <3>3 DEF HandlerEnds
    <2>3. UNCHANGED <<jobs, runs, claims, procs, pending, calls, faults>>
      BY <1>7 DEF HandlerEnds, HandlerSucceeds, HandlerFails, ExecutorRaises
    <2>4. QED
      BY <2>2, <2>3 DEF TypeOK
  <1>8. ASSUME NEW t \in DOMAIN workers, Finalize(t) PROVE TypeOK'
    <2>1. /\ workers[t] \in Worker /\ workers[t].job \in Jobs
          /\ workers[t].outcome \in {"running", "success", "failed"}
      BY DEF TypeOK, Worker
    <2>2. FinalizedRow(jobs[workers[t].job], workers[t]) \in JobRow
      BY <2>1, FinalizedRowType DEF TypeOK
    <2>3. jobs' \in [Jobs -> JobRow]
      BY <1>8, <2>2 DEF TypeOK, Finalize
    <2>4. runs' \in [1..claims -> RunRow]
      BY <1>8, <2>1 DEF TypeOK, Finalize, RunRow
    <2>5. QED
      BY <1>8, <2>3, <2>4 DEF TypeOK, Finalize, WithoutWorker
  <1>9. ASSUME NEW t \in DOMAIN workers, FinalizeLost(t) \/ FinalizeError(t) PROVE TypeOK'
    BY <1>9 DEF TypeOK, FinalizeLost, FinalizeError, WithoutWorker, Fault
  <1>10. ASSUME NEW t \in DOMAIN workers, Renew(t) PROVE TypeOK'
    <2>1. workers[t] \in Worker /\ workers[t].job \in Jobs
      BY DEF TypeOK, Worker
    <2>2. jobs' \in [Jobs -> JobRow]
      BY <1>10, <2>1, RenewedRowType DEF TypeOK, Renew
    <2>3. [workers[t] EXCEPT !.lease = ClaimTTL] \in Worker
      BY <2>1, DelayFacts DEF Worker
    <2>4. QED
      BY <1>10, <2>2, <2>3 DEF TypeOK, Renew
  <1>11. ASSUME NEW t \in DOMAIN workers, RenewRefused(t) \/ RenewError(t) PROVE TypeOK'
    <2>1. [workers[t] EXCEPT !.renewing = FALSE] \in Worker
      <3>1. workers[t] \in Worker
        BY DEF TypeOK
      <3>2. \A w \in Worker : [w EXCEPT !.renewing = FALSE] \in Worker
        BY Zenon DEF Worker
      <3>3. QED
        BY <3>1, <3>2
    <2>2. /\ workers' = [workers EXCEPT ![t].renewing = FALSE]
          /\ UNCHANGED <<jobs, runs, claims, procs, pending, calls>>
          /\ faults' \in 0..MaxFaults
      BY <1>11 DEF TypeOK, RenewRefused, RenewError, Fault
    <2>3. QED
      BY <2>1, <2>2 DEF TypeOK
  <1>12. ASSUME NEW r \in Runtimes, NEW j \in Jobs, NEW d \in Delays, Schedule(r, j, d)
         PROVE  TypeOK'
    <2> DEFINE row == [NoRow EXCEPT !.status = "active", !.rev = 1,
                       !.run_at = IF j \in OneShots THEN d ELSE Never,
                       !.next = IF j \in OneShots THEN d ELSE Interval]
    <2>1. row \in JobRow
      BY ScheduledRowType
    <2>2. jobs' = [jobs EXCEPT ![j] = row]
      BY <1>12 DEF Schedule
    <2> HIDE DEF row
    <2>3. QED
      BY <1>12, <2>1, <2>2 DEF TypeOK, Schedule
  <1>13. ASSUME NEW r \in Runtimes, NEW j \in Jobs, NEW op \in Ops, NEW d \in Delays \cup {0},
                CallRead(r, op, j, d)
         PROVE  TypeOK'
    <2>1. d \in 0..Horizon /\ jobs[j].rev \in Nat
      <3>1. d \in 0..Horizon
        BY TimesAssumption
      <3>2. jobs[j] \in JobRow
        BY DEF TypeOK
      <3>3. QED
        BY <3>1, <3>2 DEF JobRow
    <2>2. [rt |-> r, op |-> op, job |-> j, rev |-> jobs[j].rev, delay |-> d] \in Call
      BY <2>1 DEF Call
    <2>3. [procs[r] EXCEPT !.phase = "call"] \in Proc
      BY DEF TypeOK, Proc
    <2>4. QED
      BY <1>13, <2>2, <2>3 DEF TypeOK, CallRead
  <1>14. ASSUME NEW r \in Runtimes, NEW c \in pending, CallWrite(r, c) \/ CallConflict(r, c)
         PROVE  TypeOK'
    <2>1. c \in Call /\ c.job \in Jobs /\ procs[r].age \in 0..MaxStall
      BY DEF TypeOK, Call, Proc
    <2>2. CallRow(jobs[c.job], c, procs[r].age) \in JobRow
      BY <2>1, CallRowType DEF TypeOK
    <2>3. procs' \in [Runtimes -> Proc]
      <3>1. [procs[r] EXCEPT !.phase = "idle", !.age = 0] \in Proc
        BY CallDoneProcType DEF TypeOK
      <3>2. procs' = [procs EXCEPT ![r] = [procs[r] EXCEPT !.phase = "idle", !.age = 0]]
        BY <1>14 DEF TypeOK, CallWrite, CallConflict, CallEnd
      <3>3. QED
        BY <3>1, <3>2 DEF TypeOK
    <2>4. jobs' \in [Jobs -> JobRow]
      BY <1>14, <2>2 DEF TypeOK, CallWrite, CallConflict
    <2>5. runs' \in [1..claims -> RunRow]
      <3>1. \A u \in 1..claims : [runs[u] EXCEPT !.status = "purged"] \in RunRow
        BY DEF TypeOK, RunRow
      <3>2. CASE CallWrite(r, c)
        BY <3>1, <3>2 DEF TypeOK, CallWrite
      <3>3. CASE CallConflict(r, c)
        BY <3>3 DEF TypeOK, CallConflict
      <3>4. QED
        BY <1>14, <3>2, <3>3
    <2>6. QED
      BY <1>14, <2>3, <2>4, <2>5 DEF TypeOK, CallWrite, CallConflict, CallEnd
  <1>15. ASSUME NEW r \in Runtimes, Stop(r) PROVE TypeOK'
    BY <1>15, <1>0 DEF TypeOK, Stop, Fault
  <1>16. ASSUME NEW r \in Runtimes, Start(r) PROVE TypeOK'
    BY <1>16, <1>0, ReleaseType DEF TypeOK, Start
  <1>17. CASE UNCHANGED vars
    BY <1>17 DEF TypeOK, vars
  <1>18. QED
    BY <1>1, <1>2, <1>3, <1>4, <1>5, <1>6, <1>7, <1>8, <1>9, <1>10, <1>11, <1>12, <1>13,
       <1>14, <1>15, <1>16, <1>17
       DEF Next, TickStep, CallStep, FinalizeStep

\* Every reachable state of the scheduler is well typed.
THEOREM TypeCorrect == Spec => []TypeOK
  <1>1. Init => TypeOK
    BY DelayFacts, BoundsAssumption
       DEF Init, TypeOK, JobRow, JobStatus, NoRow, NoToken, Proc, IdleProc
  <1>2. QED
    BY <1>1, TypeStep, PTL DEF Spec

-----------------------------------------------------------------------------
(* The claim protocol *)

\* The claim columns of a row after each UPDATE of SchedulerPersistence.
LEMMA ClaimColumns ==
  ASSUME NEW row \in JobRow
  PROVE  /\ \A t \in 0..MaxClaims, age \in 0..MaxStall :
              LET s == ClaimedRow(row, t, age)
              IN  s.status = "running" /\ s.token = t /\ s.expires = After(ClaimTTL, age)
         /\ LET s == ReleasedRow(row)
            IN  s.status # "running" /\ s.token = NoToken /\ s.expires = Never
         /\ LET s == RenewedRow(row)
            IN  s.status = row.status /\ s.token = row.token /\ s.expires = ClaimTTL
         /\ \A w \in Worker :
              LET s == FinalizedRow(row, w)
              IN  s.status = w.status /\ s.token = NoToken /\ s.expires = Never
  BY DEF JobRow, ClaimedRow, ReleasedRow, RenewedRow, FinalizedRow

\* A management call that applies touches no claimed row and leaves none.
LEMMA CallColumns ==
  ASSUME TypeOK, ClaimsMatchRuns, NEW c \in Call, NEW age \in 0..MaxStall,
         CallApplies(jobs[c.job], c)
  PROVE  LET s == CallRow(jobs[c.job], c, age)
         IN  /\ jobs[c.job].token = NoToken
             /\ s.status # "running" /\ s.token = NoToken /\ s.expires = Never
  <1>1. /\ jobs[c.job] \in JobRow /\ c.op \in Ops /\ c.job \in Jobs
        /\ jobs[c.job].status = "running" <=> jobs[c.job].token # NoToken
        /\ jobs[c.job].expires = Never <=> jobs[c.job].token = NoToken
    BY DEF TypeOK, ClaimsMatchRuns, Call
  <1>2. CASE c.op = "pause"
    BY <1>1, <1>2 DEF CallApplies, CallRow, Unclaimed, JobRow
  <1>3. CASE c.op = "resume"
    BY <1>1, <1>3 DEF CallApplies, CallRow, Unclaimed, JobRow
  <1>4. CASE c.op = "delete"
    BY <1>1, <1>4 DEF CallApplies, CallRow, Unclaimed, NoRow, NoToken
  <1>5. CASE c.op = "cancel"
    BY <1>1, <1>5 DEF CallApplies, CallRow, JobRow
  <1>6. CASE c.op = "reschedule"
    BY <1>1, <1>6 DEF CallApplies, CallRow, Unclaimed, JobRow
  <1>7. QED
    BY <1>1, <1>2, <1>3, <1>4, <1>5, <1>6 DEF Ops

\* Releasing expired claims keeps the claim protocol: a claim is only taken from a
\* task whose lease is over.
LEMMA ReleaseClaims ==
  ASSUME TypeOK, ClaimInv, ReleaseExpiredClaims, UNCHANGED <<claims, workers>>
  PROVE  ClaimInv'
  <1>1. \A j \in Jobs :
          /\ Expired(jobs[j]) => /\ jobs'[j].status # "running"
                                 /\ jobs'[j].token = NoToken /\ jobs'[j].expires = Never
                                 /\ jobs[j].expires <= 0
          /\ ~Expired(jobs[j]) => jobs'[j] = jobs[j]
    BY ClaimColumns DEF TypeOK, ReleaseExpiredClaims, Expired
  <1>2. \A t \in 1..claims :
          /\ runs[t] \in RunRow /\ runs'[t].job = runs[t].job
          /\ runs'[t].status = IF /\ runs[t].status = "running"
                                  /\ \E j \in Jobs : Expired(jobs[j]) /\ jobs[j].token = t
                               THEN "failed" ELSE runs[t].status
    BY DEF TypeOK, ReleaseExpiredClaims, RunRow
  <1>3. ClaimsMatchRuns'
    <2>1. ASSUME NEW j \in Jobs
          PROVE  /\ jobs'[j].status = "running" <=> jobs'[j].token # NoToken
                 /\ jobs'[j].expires = Never <=> jobs'[j].token = NoToken
      BY <1>1 DEF ClaimInv, ClaimsMatchRuns
    <2>2. ASSUME NEW j \in Jobs, jobs'[j].token # NoToken
          PROVE  /\ jobs'[j].token \in 1..claims'
                 /\ runs'[jobs'[j].token].job = j
                 /\ runs'[jobs'[j].token].status = "running"
      <3>1. ~Expired(jobs[j]) /\ jobs'[j] = jobs[j]
        BY <1>1, <2>2
      <3>2. /\ jobs[j].token \in 1..claims /\ runs[jobs[j].token].job = j
            /\ runs[jobs[j].token].status = "running"
        BY <3>1, <2>2 DEF ClaimInv, ClaimsMatchRuns
      <3>3. \A k \in Jobs : jobs[k].token = jobs[j].token => k = j
        BY <3>1, <3>2, <2>2 DEF ClaimInv, ClaimsMatchRuns
      <3>4. QED
        BY <1>2, <3>1, <3>2, <3>3
    <2>3. ASSUME NEW t \in 1..claims', runs'[t].status = "running"
          PROVE  jobs'[runs'[t].job].token = t
      <3>1. /\ t \in 1..claims /\ runs[t].status = "running" /\ runs'[t].job = runs[t].job
            /\ runs[t].job \in Jobs
            /\ \A j \in Jobs : Expired(jobs[j]) => jobs[j].token # t
        BY <1>2, <2>3 DEF RunRow
      <3>2. QED
        BY <1>1, <3>1 DEF ClaimInv, ClaimsMatchRuns
    <2>4. QED
      BY <2>1, <2>2, <2>3 DEF ClaimsMatchRuns
  <1>4. WorkersConsistent'
    BY <1>2 DEF ClaimInv, WorkersConsistent, TypeOK
  <1>5. LeaseExclusive'
    <2>1. \A t \in DOMAIN workers : workers[t].job \in Jobs
      BY DEF TypeOK, Worker
    <2>2. \A j \in Jobs : jobs[j].expires \in Int
      BY BoundsAssumption, TimesAssumption DEF TypeOK, JobRow, TimeColumn, Floor, Never
    <2>3. ASSUME NEW t \in DOMAIN workers, workers[t].lease > 0
          PROVE  ~Expired(jobs[workers[t].job])
      BY <1>1, <2>1, <2>2, <2>3 DEF ClaimInv, LeaseExclusive
    <2>4. QED
      BY <1>1, <2>1, <2>3 DEF ClaimInv, LeaseExclusive
  <1>6. QED
    BY <1>3, <1>4, <1>5 DEF ClaimInv

\* Steps that leave both tables alone, and the leases of the surviving tasks, keep
\* the claim protocol.
LEMMA LocalClaims ==
  ASSUME TypeOK, ClaimInv, UNCHANGED <<jobs, runs, claims>>,
         DOMAIN workers' \subseteq DOMAIN workers,
         \A t \in DOMAIN workers' :
            /\ workers'[t].job = workers[t].job /\ workers'[t].lease = workers[t].lease
            /\ workers'[t].state = "finalizing" =>
                 /\ workers'[t].status \in {"completed", "active", "retrying", "failed"}
                 /\ workers'[t].outcome \in {"success", "failed"}
  PROVE  ClaimInv'
  BY DEF ClaimInv, ClaimsMatchRuns, WorkersConsistent, LeaseExclusive

\* Taking a claim: the row was unclaimed, so no task has time left on a lease of it.
LEMMA ClaimClaims ==
  ASSUME TypeOK, ClaimInv, NEW r \in Runtimes, NEW j \in Jobs, DispatchClaim(r, j)
  PROVE  ClaimInv'
  <1> DEFINE t == claims + 1
             row == ClaimedRow(jobs[j], t, procs[r].age)
  <1>1. /\ t \in 1..MaxClaims /\ t # NoToken /\ claims' = t /\ claims \in Nat
        /\ t \notin 1..claims /\ 1..t = (1..claims) \cup {t}
        /\ procs[r].age \in 0..MaxStall /\ jobs[j] \in JobRow
    BY BoundsAssumption DEF TypeOK, DispatchClaim, Proc, NoToken
  <1>2. jobs[j].token = NoToken
    BY DEF DispatchClaim, Claimable, Runnable, ClaimInv, ClaimsMatchRuns
  <1>3. /\ row.status = "running" /\ row.token = t
        /\ row.expires = After(ClaimTTL, procs[r].age) /\ row.expires # Never
    <2> HIDE DEF t
    <2>1. t \in 0..MaxClaims
      BY <1>1
    <2>2. QED
      BY <1>1, <2>1, ClaimColumns, AfterFacts, TimesAssumption
  <1>4. jobs' = [jobs EXCEPT ![j] = row]
    BY DEF DispatchClaim
  <1>5. /\ DOMAIN runs' = 1..t
        /\ runs'[t].job = j /\ runs'[t].status = "running"
        /\ \A u \in 1..claims : runs'[u] = runs[u]
    BY <1>1 DEF DispatchClaim
  <1>6. /\ DOMAIN workers' = DOMAIN workers \cup {t}
        /\ workers'[t].job = j /\ workers'[t].state = "executing"
        /\ workers'[t].lease = row.expires
        /\ \A u \in DOMAIN workers : u # t => workers'[u] = workers[u]
    BY DEF DispatchClaim
  <1>7. /\ t \notin DOMAIN workers
        /\ \A u \in DOMAIN workers : u \in 1..claims /\ u # NoToken /\ workers[u].job \in Jobs
    BY <1>1 DEF TypeOK, Worker, NoToken
  <1>8. \A k \in Jobs : jobs'[k] = IF k = j THEN row ELSE jobs[k]
    BY <1>4 DEF TypeOK
  <1> HIDE DEF t, row
  <1>9. ClaimsMatchRuns'
    <2>1. \A k \in Jobs :
            /\ jobs'[k].status = "running" <=> jobs'[k].token # NoToken
            /\ jobs'[k].expires = Never <=> jobs'[k].token = NoToken
      BY <1>1, <1>3, <1>8 DEF ClaimInv, ClaimsMatchRuns
    <2>2. \A k \in Jobs : jobs'[k].token # NoToken =>
            /\ jobs'[k].token \in 1..t
            /\ runs'[jobs'[k].token].job = k
            /\ runs'[jobs'[k].token].status = "running"
      BY <1>1, <1>3, <1>5, <1>8 DEF ClaimInv, ClaimsMatchRuns
    <2>3. \A u \in 1..t : runs'[u].status = "running" => jobs'[runs'[u].job].token = u
      <3>1. \A u \in 1..claims : runs[u].job \in Jobs /\ u # NoToken
        BY DEF TypeOK, RunRow, NoToken
      <3>2. ASSUME NEW u \in 1..claims, runs[u].status = "running"
            PROVE  jobs'[runs[u].job].token = u
        <4>1. jobs[runs[u].job].token = u
          BY <3>2 DEF ClaimInv, ClaimsMatchRuns
        <4>2. QED
          BY <1>2, <1>8, <3>1, <4>1
      <3>3. jobs'[runs'[t].job].token = t
        BY <1>3, <1>5, <1>8
      <3>4. QED
        BY <1>1, <1>5, <3>2, <3>3
    <2>4. QED
      BY <1>1, <2>1, <2>2, <2>3 DEF ClaimsMatchRuns
  <1>10. WorkersConsistent'
    BY <1>5, <1>6, <1>7 DEF ClaimInv, WorkersConsistent
  <1>11. LeaseExclusive'
    BY <1>2, <1>3, <1>6, <1>7, <1>8 DEF ClaimInv, LeaseExclusive
  <1>12. QED
    BY <1>9, <1>10, <1>11 DEF ClaimInv

\* Giving a claim back: only its holder does, so no other task had time left.
LEMMA FinalizeClaims ==
  ASSUME TypeOK, ClaimInv, NEW t \in DOMAIN workers, Finalize(t)
  PROVE  ClaimInv'
  <1> DEFINE w == workers[t]
  <1>1. /\ w \in Worker /\ w.job \in Jobs /\ w.job = runs[t].job /\ t \in 1..claims
        /\ w.status # "running" /\ w.outcome # "running" /\ jobs[w.job].token = t
        /\ w.job \in Jobs /\ jobs[w.job] \in JobRow /\ t # NoToken
    <2>1. w \in Worker /\ t \in 1..claims /\ t # NoToken
      BY DEF TypeOK, NoToken
    <2>2. w.job \in Jobs /\ jobs[w.job] \in JobRow
      BY <2>1 DEF TypeOK, Worker
    <2>3. /\ w.state = "finalizing" /\ jobs[w.job].token = t
      BY DEF Finalize, ClaimOwned
    <2>4. w.job = runs[t].job /\ w.status # "running" /\ w.outcome # "running"
      BY <2>3 DEF ClaimInv, WorkersConsistent
    <2>5. QED
      BY <2>1, <2>2, <2>3, <2>4
  <1>2. \A k \in Jobs :
          /\ k = w.job => /\ jobs'[k].status # "running" /\ jobs'[k].token = NoToken
                          /\ jobs'[k].expires = Never
          /\ k # w.job => jobs'[k] = jobs[k]
    BY <1>1, ClaimColumns DEF Finalize, TypeOK
  <1>3. /\ claims' = claims
        /\ \A u \in 1..claims : /\ runs'[u].job = runs[u].job /\ runs[u].job \in Jobs
                                /\ u # t => runs'[u] = runs[u]
        /\ runs'[t].status = w.outcome
    BY <1>1 DEF Finalize, TypeOK, RunRow
  <1>4. /\ DOMAIN workers' = DOMAIN workers \ {t}
        /\ \A u \in DOMAIN workers' : workers'[u] = workers[u] /\ u # t /\ u \in 1..claims
        /\ \A u \in DOMAIN workers : workers[u].job \in Jobs
    BY DEF Finalize, WithoutWorker, TypeOK, Worker
  <1> HIDE DEF w
  <1>5. ClaimsMatchRuns'
    <2>1. \A k \in Jobs : k # w.job /\ jobs[k].token # NoToken => jobs[k].token # t
      BY <1>1 DEF ClaimInv, ClaimsMatchRuns
    <2>2. \A k \in Jobs :
            /\ jobs'[k].status = "running" <=> jobs'[k].token # NoToken
            /\ jobs'[k].expires = Never <=> jobs'[k].token = NoToken
            /\ jobs'[k].token # NoToken =>
                 /\ jobs'[k].token \in 1..claims
                 /\ runs'[jobs'[k].token].job = k
                 /\ runs'[jobs'[k].token].status = "running"
      <3> SUFFICES ASSUME NEW k \in Jobs, k # w.job
                   PROVE  /\ jobs'[k].status = "running" <=> jobs'[k].token # NoToken
                          /\ jobs'[k].expires = Never <=> jobs'[k].token = NoToken
                          /\ jobs'[k].token # NoToken =>
                               /\ jobs'[k].token \in 1..claims
                               /\ runs'[jobs'[k].token].job = k
                               /\ runs'[jobs'[k].token].status = "running"
        BY <1>2
      <3>1. jobs'[k] = jobs[k]
        BY <1>2
      <3>2. jobs[k].token # NoToken => runs'[jobs[k].token] = runs[jobs[k].token]
        BY <1>3, <2>1 DEF ClaimInv, ClaimsMatchRuns
      <3>3. QED
        BY <3>1, <3>2 DEF ClaimInv, ClaimsMatchRuns
    <2>3. \A u \in 1..claims : runs'[u].status = "running" => jobs'[runs'[u].job].token = u
      <3> SUFFICES ASSUME NEW u \in 1..claims, runs'[u].status = "running"
                   PROVE  jobs'[runs'[u].job].token = u
        OBVIOUS
      <3>1. u # t /\ runs'[u] = runs[u] /\ runs[u].job \in Jobs
        BY <1>1, <1>3
      <3>2. jobs[runs[u].job].token = u
        BY <3>1 DEF ClaimInv, ClaimsMatchRuns
      <3>3. QED
        BY <1>1, <1>2, <3>1, <3>2
    <2>4. QED
      BY <1>3, <2>2, <2>3 DEF ClaimsMatchRuns
  <1>6. WorkersConsistent'
    <2>1. \A u \in DOMAIN workers' : u \in DOMAIN workers /\ runs'[u].job = runs[u].job
      BY <1>3, <1>4
    <2>2. QED
      BY <1>4, <2>1 DEF ClaimInv, WorkersConsistent
  <1>7. LeaseExclusive'
    BY <1>1, <1>2, <1>4 DEF ClaimInv, LeaseExclusive
  <1>8. QED
    BY <1>5, <1>6, <1>7 DEF ClaimInv

\* Time passing: a lease and its claim run out together.
LEMMA AdvanceClaims ==
  ASSUME TypeOK, ClaimInv, Advance
  PROVE  ClaimInv'
  <1>1. \A j \in Jobs : /\ jobs[j] \in JobRow
                        /\ jobs'[j].status = jobs[j].status
                        /\ jobs'[j].token = jobs[j].token
                        /\ jobs'[j].expires = Elapse(jobs[j].expires)
                        /\ jobs[j].expires \in TimeColumn
    BY DEF Advance, TypeOK, JobRow
  <1>2. \A j \in Jobs : jobs'[j].expires = Never <=> jobs[j].expires = Never
    BY <1>1, ElapseFacts
  <1>3. UNCHANGED <<runs, claims>>
    BY DEF Advance
  <1>4. /\ DOMAIN workers' = DOMAIN workers
        /\ \A t \in DOMAIN workers : /\ workers'[t].job = workers[t].job
                                     /\ workers'[t].state = workers[t].state
                                     /\ workers'[t].status = workers[t].status
                                     /\ workers'[t].outcome = workers[t].outcome
                                     /\ workers'[t].lease = Elapse(workers[t].lease)
                                     /\ workers[t].lease \in TimeColumn
                                     /\ workers[t].job \in Jobs
    BY DEF Advance, TypeOK, Worker
  <1>5. ClaimsMatchRuns'
    <2>1. \A t \in 1..claims : runs[t].job \in Jobs
      BY DEF TypeOK, RunRow
    <2>2. QED
      BY <1>1, <1>2, <1>3, <2>1 DEF ClaimInv, ClaimsMatchRuns
  <1>6. WorkersConsistent'
    BY <1>3, <1>4 DEF ClaimInv, WorkersConsistent
  <1>7. LeaseExclusive'
    <2> SUFFICES ASSUME NEW t \in DOMAIN workers, workers'[t].lease > 0
                 PROVE  /\ jobs'[workers'[t].job].token = t
                        /\ jobs'[workers'[t].job].expires = workers'[t].lease
      BY <1>4 DEF LeaseExclusive
    <2>1. workers[t].lease > 0
      BY <1>4, ElapseFacts, BoundsAssumption, TimesAssumption
         DEF TimeColumn, Floor, Never
    <2>2. QED
      BY <1>1, <1>4, <2>1 DEF ClaimInv, LeaseExclusive
  <1>8. QED
    BY <1>5, <1>6, <1>7 DEF ClaimInv

\* A renewal extends the holder's lease, and the stored one, alike.
LEMMA RenewClaims ==
  ASSUME TypeOK, ClaimInv, NEW t \in DOMAIN workers, Renew(t)
  PROVE  ClaimInv'
  <1> DEFINE j == workers[t].job
  <1>1. j \in Jobs /\ jobs[j] \in JobRow /\ t \in 1..claims /\ t # NoToken
    BY DEF TypeOK, Worker, NoToken
  <1>2. jobs[j].token = t /\ jobs[j].status = "running"
    BY DEF Renew, Renewable
  <1>3. \A k \in Jobs : /\ jobs'[k].status = jobs[k].status
                        /\ jobs'[k].token = jobs[k].token
                        /\ jobs'[k].expires = IF k = j THEN ClaimTTL ELSE jobs[k].expires
    BY <1>1, ClaimColumns DEF Renew, TypeOK
  <1>4. /\ UNCHANGED <<runs, claims>> /\ DOMAIN workers' = DOMAIN workers
        /\ \A u \in DOMAIN workers :
             /\ workers'[u].job = workers[u].job /\ workers[u].job \in Jobs
             /\ workers'[u].state = workers[u].state
             /\ workers'[u].status = workers[u].status
             /\ workers'[u].outcome = workers[u].outcome
             /\ workers'[u].lease = IF u = t THEN ClaimTTL ELSE workers[u].lease
    BY DEF Renew, TypeOK, Worker
  <1> HIDE DEF j
  <1>5. ClaimsMatchRuns'
    <2>1. \A u \in 1..claims : runs[u].job \in Jobs
      BY DEF TypeOK, RunRow
    <2>2. QED
      BY <1>1, <1>2, <1>3, <1>4, <2>1, DelayFacts DEF ClaimInv, ClaimsMatchRuns
  <1>6. WorkersConsistent'
    BY <1>4 DEF ClaimInv, WorkersConsistent
  <1>7. LeaseExclusive'
    <2>1. ASSUME NEW u \in DOMAIN workers, u # t, workers'[u].lease > 0
          PROVE  workers[u].job # j
      BY <1>2, <1>4, <2>1 DEF ClaimInv, LeaseExclusive
    <2>2. QED
      BY <1>1, <1>2, <1>3, <1>4, <2>1 DEF ClaimInv, LeaseExclusive, j
  <1>8. QED
    BY <1>5, <1>6, <1>7 DEF ClaimInv

\* A new row, or a management call, only replaces a row without a claim.
LEMMA UnclaimedWrite ==
  ASSUME TypeOK, ClaimInv, UNCHANGED <<claims, workers>>,
         NEW j \in Jobs, NEW row, jobs' = [jobs EXCEPT ![j] = row],
         jobs[j].token = NoToken,
         row.status # "running", row.token = NoToken, row.expires = Never,
         NEW P \in SUBSET (1..claims),
         \A t \in P : runs[t].job = j,
         runs' = [t \in 1..claims |-> IF t \in P THEN [runs[t] EXCEPT !.status = "purged"]
                                                 ELSE runs[t]]
  PROVE  ClaimInv'
  <1>1. \A k \in Jobs : jobs'[k] = IF k = j THEN row ELSE jobs[k]
    BY DEF TypeOK
  <1>2. \A t \in 1..claims : /\ runs'[t].job = runs[t].job /\ runs[t].job \in Jobs
                             /\ t \in P => runs'[t].status = "purged"
                             /\ t \notin P => runs'[t] = runs[t]
                             /\ t # NoToken
    BY DEF TypeOK, RunRow, NoToken
  <1>3. ClaimsMatchRuns'
    <2>1. ASSUME NEW k \in Jobs
          PROVE  /\ jobs'[k].status = "running" <=> jobs'[k].token # NoToken
                 /\ jobs'[k].expires = Never <=> jobs'[k].token = NoToken
                 /\ jobs'[k].token # NoToken =>
                      /\ jobs'[k].token \in 1..claims
                      /\ runs'[jobs'[k].token].job = k
                      /\ runs'[jobs'[k].token].status = "running"
      <3>1. CASE k = j
        BY <1>1, <3>1
      <3>2. CASE k # j
        BY <1>1, <1>2, <3>2 DEF ClaimInv, ClaimsMatchRuns
      <3>3. QED
        BY <3>1, <3>2
    <2>2. ASSUME NEW t \in 1..claims, runs'[t].status = "running"
          PROVE  jobs'[runs'[t].job].token = t
      <3>1. runs'[t] = runs[t]
        BY <1>2, <2>2
      <3>2. jobs[runs[t].job].token = t
        BY <3>1, <2>2 DEF ClaimInv, ClaimsMatchRuns
      <3>3. QED
        BY <1>1, <1>2, <3>1, <3>2
    <2>3. QED
      BY <2>1, <2>2 DEF ClaimsMatchRuns
  <1>4. WorkersConsistent'
    BY <1>2 DEF ClaimInv, WorkersConsistent, TypeOK
  <1>5. LeaseExclusive'
    <2>1. \A t \in DOMAIN workers : t # NoToken /\ workers[t].job \in Jobs
      BY DEF TypeOK, Worker, NoToken
    <2>2. QED
      BY <1>1, <2>1 DEF ClaimInv, LeaseExclusive
  <1>6. QED
    BY <1>3, <1>4, <1>5 DEF ClaimInv

\* Every step of the scheduler keeps the claim protocol.
LEMMA ClaimStep == TypeOK /\ ClaimInv /\ [Next]_vars => ClaimInv'
  <1> SUFFICES ASSUME TypeOK, ClaimInv, [Next]_vars
               PROVE  ClaimInv'
    OBVIOUS
  <1>1. CASE Advance
    BY <1>1, AdvanceClaims
  <1>2. ASSUME NEW r \in Runtimes, TickStart(r) \/ Start(r) PROVE ClaimInv'
    BY <1>2, ReleaseClaims DEF TickStart, Start
  <1>3. ASSUME NEW r \in Runtimes, NEW j \in Jobs, DispatchClaim(r, j) PROVE ClaimInv'
    BY <1>3, ClaimClaims
  <1>4. ASSUME UNCHANGED <<jobs, runs, claims, workers>> PROVE ClaimInv'
    BY <1>4 DEF ClaimInv, ClaimsMatchRuns, WorkersConsistent, LeaseExclusive
  <1>5. ASSUME NEW r \in Runtimes,
               TickSync(r) \/ (\E j \in Jobs : DispatchSkip(r, j)) \/ TickAbort(r)
        PROVE  ClaimInv'
    BY <1>4, <1>5 DEF TickSync, DispatchSkip, TickAbort
  <1>6. ASSUME NEW t \in DOMAIN workers, HandlerEnds(t) PROVE ClaimInv'
    <2>1. UNCHANGED <<jobs, runs, claims>> /\ DOMAIN workers' = DOMAIN workers
      BY <1>6 DEF HandlerEnds, HandlerSucceeds, HandlerFails, ExecutorRaises, TypeOK
    <2>2. /\ workers'[t].job = workers[t].job /\ workers'[t].lease = workers[t].lease
          /\ workers'[t].status \in {"completed", "active", "retrying", "failed"}
          /\ workers'[t].outcome \in {"success", "failed"}
      <3>1. workers[t] \in Worker
        BY DEF TypeOK
      <3>2. CASE HandlerSucceeds(t)
        BY <3>1, <3>2 DEF HandlerSucceeds, Worker
      <3>3. CASE HandlerFails(t)
        BY <3>1, <3>3 DEF HandlerFails, Worker
      <3>4. CASE ExecutorRaises(t)
        BY <3>1, <3>4 DEF ExecutorRaises, Worker
      <3>5. QED
        BY <1>6, <3>2, <3>3, <3>4 DEF HandlerEnds
    <2>3. \A u \in DOMAIN workers : u # t => workers'[u] = workers[u]
      BY <1>6 DEF HandlerEnds, HandlerSucceeds, HandlerFails, ExecutorRaises, TypeOK
    <2>4. \A u \in DOMAIN workers' :
            /\ workers'[u].job = workers[u].job /\ workers'[u].lease = workers[u].lease
            /\ workers'[u].state = "finalizing" =>
                 /\ workers'[u].status \in {"completed", "active", "retrying", "failed"}
                 /\ workers'[u].outcome \in {"success", "failed"}
      BY <2>1, <2>2, <2>3 DEF ClaimInv, WorkersConsistent
    <2>5. QED
      BY <2>1, <2>4, LocalClaims
  <1>7. ASSUME NEW t \in DOMAIN workers, Finalize(t) PROVE ClaimInv'
    BY <1>7, FinalizeClaims
  <1>8. ASSUME UNCHANGED <<jobs, runs, claims>>, NEW D \in SUBSET DOMAIN workers,
               workers' = [u \in D |-> workers[u]]
        PROVE  ClaimInv'
    BY <1>8 DEF ClaimInv, ClaimsMatchRuns, WorkersConsistent, LeaseExclusive
  <1>9. ASSUME NEW t \in DOMAIN workers, FinalizeLost(t) \/ FinalizeError(t) PROVE ClaimInv'
    BY <1>8, <1>9 DEF FinalizeLost, FinalizeError, WithoutWorker
  <1>10. ASSUME NEW t \in DOMAIN workers, Renew(t) PROVE ClaimInv'
    BY <1>10, RenewClaims
  <1>11. ASSUME NEW t \in DOMAIN workers, RenewRefused(t) \/ RenewError(t) PROVE ClaimInv'
    <2>1. UNCHANGED <<jobs, runs, claims>> /\ workers' = [workers EXCEPT ![t].renewing = FALSE]
      BY <1>11 DEF RenewRefused, RenewError
    <2>2. DOMAIN workers' = DOMAIN workers
      BY <2>1
    <2>3. \A u \in DOMAIN workers :
            /\ workers'[u].job = workers[u].job /\ workers'[u].lease = workers[u].lease
            /\ workers'[u].state = workers[u].state /\ workers'[u].status = workers[u].status
            /\ workers'[u].outcome = workers[u].outcome
      BY <2>1 DEF TypeOK, Worker
    <2>4. QED
      BY <2>1, <2>2, <2>3, LocalClaims DEF ClaimInv, WorkersConsistent
  <1>12. ASSUME NEW r \in Runtimes, NEW j \in Jobs, NEW d \in Delays, Schedule(r, j, d)
         PROVE  ClaimInv'
    <2> DEFINE row == [NoRow EXCEPT !.status = "active", !.rev = 1,
                       !.run_at = IF j \in OneShots THEN d ELSE Never,
                       !.next = IF j \in OneShots THEN d ELSE Interval]
               P == {}
    <2>1. row.status # "running" /\ row.token = NoToken /\ row.expires = Never
      BY DEF NoRow
    <2>2. jobs' = [jobs EXCEPT ![j] = row] /\ jobs[j].status = "absent"
          /\ UNCHANGED <<runs, claims, workers>>
      BY <1>12 DEF Schedule
    <2> HIDE DEF row
    <2>3. jobs[j].token = NoToken
      BY <2>2 DEF ClaimInv, ClaimsMatchRuns
    <2>4. /\ P \in SUBSET (1..claims) /\ \A t \in P : runs[t].job = j
          /\ runs' = [t \in 1..claims |-> IF t \in P THEN [runs[t] EXCEPT !.status = "purged"]
                                          ELSE runs[t]]
      BY <2>2 DEF TypeOK
    <2> HIDE DEF P
    <2>5. QED
      BY <2>1, <2>2, <2>3, <2>4, UnclaimedWrite
  <1>13. ASSUME NEW r \in Runtimes, NEW j \in Jobs, NEW op \in Ops, NEW d \in Delays \cup {0},
                CallRead(r, op, j, d)
         PROVE  ClaimInv'
    BY <1>4, <1>13 DEF CallRead
  <1>14. ASSUME NEW r \in Runtimes, NEW c \in pending, CallWrite(r, c) PROVE ClaimInv'
    <2> DEFINE row == CallRow(jobs[c.job], c, procs[r].age)
               P == IF c.op = "delete" THEN {t \in 1..claims : runs[t].job = c.job} ELSE {}
    <2>1. c \in Call /\ c.job \in Jobs /\ procs[r].age \in 0..MaxStall
      BY DEF TypeOK, Call, Proc
    <2>2. /\ jobs[c.job].token = NoToken
          /\ row.status # "running" /\ row.token = NoToken /\ row.expires = Never
      BY <1>14, <2>1, CallColumns DEF CallWrite, ClaimInv
    <2>3. jobs' = [jobs EXCEPT ![c.job] = row] /\ UNCHANGED <<claims, workers>>
      BY <1>14 DEF CallWrite
    <2>4. /\ P \in SUBSET (1..claims) /\ \A t \in P : runs[t].job = c.job
          /\ runs' = [t \in 1..claims |->
                        IF t \in P THEN [runs[t] EXCEPT !.status = "purged"] ELSE runs[t]]
      BY <1>14 DEF CallWrite
    <2> HIDE DEF row, P
    <2>5. QED
      BY <2>1, <2>2, <2>3, <2>4, UnclaimedWrite
  <1>15. ASSUME NEW r \in Runtimes, NEW c \in pending, CallConflict(r, c) PROVE ClaimInv'
    BY <1>4, <1>15 DEF CallConflict
  <1>16. ASSUME NEW r \in Runtimes, Stop(r) PROVE ClaimInv'
    BY <1>8, <1>16 DEF Stop
  <1>17. CASE UNCHANGED vars
    BY <1>4, <1>17 DEF vars
  <1>18. QED
    BY <1>1, <1>2, <1>3, <1>5, <1>6, <1>7, <1>9, <1>10, <1>11, <1>12, <1>13,
       <1>14, <1>15, <1>16, <1>17
       DEF Next, TickStep, CallStep, FinalizeStep

\* Claims and runs agree, and a lease is exclusive while it lasts, in every
\* reachable state, for any number of runtimes, jobs, crashes and stalls.
THEOREM ClaimsCorrect == Spec => [](ClaimsMatchRuns /\ LeaseExclusive)
  <1>1. Init => ClaimInv
    BY DEF Init, ClaimInv, ClaimsMatchRuns, WorkersConsistent, LeaseExclusive, NoRow, NoToken
  <1>2. ClaimInv => ClaimsMatchRuns /\ LeaseExclusive
    BY DEF ClaimInv
  <1>3. QED
    BY <1>1, <1>2, ClaimStep, TypeCorrect, PTL DEF Spec

-----------------------------------------------------------------------------
(* Refinement: the job_runs table implements the run ledger. *)

Book == [t \in 1..claims |-> [job |-> runs[t].job, status |-> runs[t].status]]

\* Every step of the scheduler is a step of the ledger, or leaves it alone.
LEMMA LedgerStep ==
  TypeOK /\ ClaimInv /\ [Next]_vars => [Ledger!Next]_Book
  <1> SUFFICES ASSUME TypeOK, ClaimInv, [Next]_vars
               PROVE  Ledger!Next \/ UNCHANGED Book
    BY DEF Book
  <1>0. /\ DOMAIN Book = 1..claims
        /\ \A t \in 1..claims : /\ Book[t].job = runs[t].job
                                /\ Book[t].status = runs[t].status
                                /\ runs[t] \in RunRow
    BY DEF Book, TypeOK
  <1>1. ASSUME UNCHANGED <<runs, claims>> PROVE UNCHANGED Book
    BY <1>1 DEF Book
  <1>2. ASSUME ReleaseExpiredClaims, claims' = claims PROVE Ledger!Next
    <2> DEFINE T == {t \in 1..claims :
                       /\ runs[t].status = "running"
                       /\ \E j \in Jobs : Expired(jobs[j]) /\ jobs[j].token = t}
    <2>1. \A t \in 1..claims :
            /\ runs'[t].job = runs[t].job
            /\ runs'[t].status = IF t \in T THEN "failed" ELSE runs[t].status
      BY <1>0, <1>2 DEF ReleaseExpiredClaims, RunRow
    <2>2. T \subseteq 1..claims /\ \A t \in T : Book[t].status = "running"
      BY <1>0
    <2> HIDE DEF T
    <2>3. Book' = [t \in DOMAIN Book |->
                    IF t \in T THEN [Book[t] EXCEPT !.status = "failed"] ELSE Book[t]]
      BY <1>2, <2>1, <2>2 DEF Book
    <2>4. QED
      BY <1>0, <2>2, <2>3 DEF Ledger!Next, Ledger!Close, Ledger!Verdicts, Book
  <1>3. ASSUME NEW r \in Runtimes, NEW j \in Jobs, DispatchClaim(r, j) PROVE Ledger!Next
    <2>1. jobs[j].token = NoToken
      BY <1>3 DEF DispatchClaim, Claimable, Runnable, ClaimInv, ClaimsMatchRuns
    <2>2. \A t \in 1..claims : runs[t].status = "running" => runs[t].job # j
      BY <2>1 DEF ClaimInv, ClaimsMatchRuns, NoToken
    <2> DEFINE n == claims + 1
    <2>3. /\ claims' = n /\ n \notin 1..claims /\ 1..n = (1..claims) \cup {n}
      BY <1>3 DEF DispatchClaim, TypeOK
    <2>4. /\ runs'[n].job = j /\ runs'[n].status = "running"
          /\ \A t \in 1..claims : runs'[t] = runs[t]
      BY <1>3, <2>3 DEF DispatchClaim
    <2> HIDE DEF n
    <2>5. Book' = [t \in DOMAIN Book \cup {n} |->
                    IF t = n THEN [job |-> j, status |-> "running"] ELSE Book[t]]
      BY <1>0, <2>3, <2>4 DEF Book
    <2>6. n \in (DOMAIN Book') \ DOMAIN Book
      BY <1>0, <2>3 DEF Book
    <2>7. QED
      <3>1. Ledger!OpenRuns(j) = {}
        BY <1>0, <2>2 DEF Ledger!OpenRuns, Book
      <3>2. Ledger!Open(j)
        BY <2>5, <2>6, <3>1 DEF Ledger!Open, Book
      <3>3. QED
        BY <3>2 DEF Ledger!Next
  <1>4. ASSUME NEW t \in DOMAIN workers, Finalize(t) PROVE Ledger!Next
    <2>1. /\ t \in 1..claims /\ workers[t].outcome \in {"success", "failed"}
          /\ workers[t].job = runs[t].job /\ workers[t].job \in Jobs
      BY <1>4 DEF TypeOK, Finalize, ClaimInv, WorkersConsistent, Worker
    <2>2. runs[t].status = "running"
      BY <1>4, <2>1 DEF Finalize, ClaimOwned, ClaimInv, ClaimsMatchRuns, NoToken
    <2>3. \A u \in 1..claims :
            /\ runs'[u].job = runs[u].job
            /\ runs'[u].status = IF u = t THEN workers[t].outcome ELSE runs[u].status
      BY <1>0, <1>4 DEF Finalize, TypeOK, RunRow
    <2>4. claims' = claims
      BY <1>4 DEF Finalize
    <2>5. \A v \in {"success", "failed"} : v = workers[t].outcome =>
            Book' = [u \in DOMAIN Book |->
                      IF u \in {t} THEN [Book[u] EXCEPT !.status = v] ELSE Book[u]]
      BY <2>3, <2>4 DEF Book
    <2>6. QED
      <3>1. \A u \in {t} : Book[u].status = "running"
        BY <1>0, <2>1, <2>2
      <3>2. Ledger!Close({t})
        BY <2>1, <2>5, <3>1 DEF Ledger!Close, Ledger!Verdicts, Book
      <3>3. {t} \in SUBSET DOMAIN Book
        BY <1>0, <2>1
      <3>4. QED
        BY <3>2, <3>3 DEF Ledger!Next, Book
  <1>5. ASSUME NEW r \in Runtimes, NEW c \in pending, CallWrite(r, c)
        PROVE  Ledger!Next \/ UNCHANGED Book
    <2>1. c \in Call /\ c.job \in Jobs /\ claims' = claims
      BY <1>5 DEF TypeOK, Call, CallWrite
    <2>2. CASE c.op = "delete"
      <3>1. jobs[c.job].token = NoToken
        BY <1>5, <2>2 DEF CallWrite, CallApplies, Unclaimed
      <3>2. \A t \in 1..claims : runs[t].status = "running" => runs[t].job # c.job
        BY <3>1 DEF ClaimInv, ClaimsMatchRuns, NoToken
      <3>3. \A t \in 1..claims :
              /\ runs'[t].job = runs[t].job
              /\ runs'[t].status = IF runs[t].job = c.job THEN "purged" ELSE runs[t].status
        BY <1>0, <1>5, <2>2 DEF CallWrite, RunRow
      <3>4. Book' = [t \in DOMAIN Book |->
                      IF Book[t].job = c.job THEN [Book[t] EXCEPT !.status = "purged"]
                      ELSE Book[t]]
        BY <2>1, <3>3 DEF Book
      <3>5. QED
        <4>1. Ledger!OpenRuns(c.job) = {}
          BY <1>0, <3>2 DEF Ledger!OpenRuns, Book
        <4>2. Ledger!Purge(c.job)
          BY <3>4, <4>1 DEF Ledger!Purge, Book
        <4>3. QED
          BY <2>1, <4>2 DEF Ledger!Next
    <2>3. CASE c.op # "delete"
      <3>1. runs' = runs
        BY <1>5, <2>3 DEF CallWrite, TypeOK
      <3>2. QED
        BY <1>1, <2>1, <3>1
    <2>4. QED
      BY <2>2, <2>3
  <1>6. QED
    BY <1>1, <1>2, <1>3, <1>4, <1>5, ZenonT(40)
       DEF Next, vars, Advance, TickStep, TickStart, TickSync, DispatchSkip, TickAbort,
           HandlerEnds, HandlerSucceeds, HandlerFails, ExecutorRaises, FinalizeStep,
           FinalizeLost, FinalizeError, Renew, RenewRefused, RenewError, Schedule,
           CallRead, CallStep, CallConflict, CallEnd, Stop, Start

\* The scheduler implements the run ledger: whatever crashes or stalls, a job has at
\* most one open run, and a run gets one verdict.
THEOREM SchedulerImplementsLedger == Spec => ImplementsLedger
  <1>1. Init => Ledger!Init
    BY DEF Init, Ledger!Init
  <1>2. Init => ClaimInv
    BY DEF Init, ClaimInv, ClaimsMatchRuns, WorkersConsistent, LeaseExclusive, NoRow, NoToken
  <1>3. QED
    BY <1>1, <1>2, ClaimStep, LedgerStep, TypeCorrect, PTL
       DEF Spec, ImplementsLedger, Ledger!Spec, Book

-----------------------------------------------------------------------------
(* Rows move by a few rules.  The two tables and the private copies of the    *)
(* workers are related through the steps a row can take, read from the        *)
(* columns the other properties speak of: status, retry_count, run_count and  *)
(* claim token.                                                               *)

\* What an attempt on a job with failure count n may leave as status and count:
\* success, one failure more, or a failure of the executor, which counts none.
Verdict(j, n, status, retry) ==
  \/ status = (IF j \in OneShots THEN "completed" ELSE "active") /\ retry = 0
  \/ status = (IF n + 1 >= MaxRetries THEN "failed" ELSE "retrying") /\ retry = n + 1
  \/ status = "failed" /\ retry = n

RowKept(old, new) ==
  /\ new.status = old.status /\ new.retry = old.retry
  /\ new.runs = old.runs /\ new.token = old.token

Left(new, status, retry, n) ==
  new.status = status /\ new.retry = retry /\ new.runs = n /\ new.token = NoToken

Saved(old, new) == old.status = "absent" /\ Left(new, "active", 0, 0)
Cancelled(old, new) == /\ old.status \in {"active", "retrying", "paused"}
                       /\ Left(new, "cancelled", old.retry, old.runs)
Rescheduled(old, new) ==
  /\ old.status \in {"active", "retrying", "paused", "failed", "cancelled"}
  /\ Left(new, "active", 0, old.runs)
Paused(old, new) == Runnable(old) /\ Left(new, "paused", old.retry, old.runs)
Resumed(old, new) == old.status = "paused" /\ Left(new, "active", old.retry, old.runs)
Deleted(old, new) == /\ Exists(old) /\ old.status # "running"
                     /\ Left(new, "deleted", 0, 0)
Claimed(old, new, t) == /\ Runnable(old) /\ new.status = "running"
                        /\ new.retry = old.retry /\ new.runs = old.runs
                        /\ new.token = t
Ended(j, old, new) == /\ old.status = "running"
                      /\ Verdict(j, old.retry, new.status, new.retry)
                      /\ new.runs = old.runs + 1 /\ new.token = NoToken

\* A caller's update of a row.
CallMove(old, new) == \/ Cancelled(old, new) \/ Rescheduled(old, new)
                      \/ Paused(old, new) \/ Resumed(old, new) \/ Deleted(old, new)

\* Every step a row can take, whoever takes it.
RowMove(j) == \/ RowKept(jobs[j], jobs'[j])
              \/ Saved(jobs[j], jobs'[j])
              \/ CallMove(jobs[j], jobs'[j])
              \/ claims' = claims + 1 /\ Claimed(jobs[j], jobs'[j], claims + 1)
              \/ Ended(j, jobs[j], jobs'[j])

\* The private copy of a worker that still owns its job is up to date, and what it
\* is about to write is a verdict on that very row.
CopyInv ==
  \A t \in DOMAIN workers :
    LET w == workers[t]
        row == jobs[w.job]
    IN  row.token = t =>
          /\ w.state = "executing" => w.retry = row.retry /\ w.runs = row.runs
          /\ w.state = "finalizing" =>
               w.runs = row.runs + 1 /\ Verdict(w.job, row.retry, w.status, w.retry)

\* Those columns after each UPDATE of SchedulerPersistence on a claimed row.
LEMMA MoveColumns ==
  ASSUME NEW row \in JobRow, NEW j \in Jobs
  PROVE  /\ \A t \in 0..MaxClaims, age \in 0..MaxStall :
              Runnable(row) => Claimed(row, ClaimedRow(row, t, age), t)
         /\ Expired(row) => Ended(j, row, ReleasedRow(row))
         /\ RowKept(row, RenewedRow(row))
         /\ \A w \in Worker :
              LET s == FinalizedRow(row, w)
              IN  /\ s.status = w.status /\ s.retry = w.retry
                  /\ s.runs = w.runs /\ s.token = NoToken
  <1>1. \A t \in 0..MaxClaims, age \in 0..MaxStall :
          Runnable(row) => Claimed(row, ClaimedRow(row, t, age), t)
    BY DEF JobRow, ClaimedRow, Claimed
  <1>2. Expired(row) => Ended(j, row, ReleasedRow(row))
    BY DEF JobRow, ReleasedRow, Expired, Ended, Verdict
  <1>3. RowKept(row, RenewedRow(row))
    BY DEF JobRow, RenewedRow, RowKept
  <1>4. \A w \in Worker :
          LET s == FinalizedRow(row, w)
          IN  /\ s.status = w.status /\ s.retry = w.retry
              /\ s.runs = w.runs /\ s.token = NoToken
    BY DEF JobRow, FinalizedRow
  <1>5. QED
    BY <1>1, <1>2, <1>3, <1>4

\* A management call that applies is one of the callers' moves.
LEMMA CallMoves ==
  ASSUME TypeOK, ClaimsMatchRuns, NEW c \in Call, NEW age \in 0..MaxStall,
         CallApplies(jobs[c.job], c)
  PROVE  LET s == CallRow(jobs[c.job], c, age)
         IN  /\ CallMove(jobs[c.job], s)
             /\ c.op = "delete" <=> s.status = "deleted"
             /\ c.op # "delete" => s.runs = jobs[c.job].runs
             /\ c.op = "delete" => s.runs = 0
  <1>1. /\ jobs[c.job] \in JobRow /\ c.op \in Ops /\ c.job \in Jobs
        /\ jobs[c.job].status = "running" <=> jobs[c.job].token # NoToken
    BY DEF TypeOK, ClaimsMatchRuns, Call
  <1> USE DEF CallMove, Left
  <1>2. CASE c.op = "pause"
    BY <1>1, <1>2 DEF CallApplies, CallRow, Unclaimed, JobRow, Paused, Runnable
  <1>3. CASE c.op = "resume"
    BY <1>1, <1>3 DEF CallApplies, CallRow, Unclaimed, JobRow, Resumed
  <1>4. CASE c.op = "delete"
    BY <1>1, <1>4 DEF CallApplies, CallRow, Unclaimed, NoRow, NoToken, Deleted
  <1>5. CASE c.op = "cancel"
    BY <1>1, <1>5 DEF CallApplies, CallRow, JobRow, Cancelled
  <1>6. CASE c.op = "reschedule"
    BY <1>1, <1>6 DEF CallApplies, CallRow, Unclaimed, JobRow, Rescheduled
  <1>7. QED
    BY <1>1, <1>2, <1>3, <1>4, <1>5, <1>6 DEF Ops

\* A row that is the same is kept.
LEMMA SameRow == \A row : RowKept(row, row)
  BY DEF RowKept

\* Every step of the scheduler moves every row by one of the rules.
LEMMA RowMoves ==
  TypeOK /\ ClaimInv /\ CopyInv /\ [Next]_vars => \A j \in Jobs : RowMove(j)
  <1> SUFFICES ASSUME TypeOK, ClaimInv, CopyInv, [Next]_vars
               PROVE  \A j \in Jobs : RowMove(j)
    OBVIOUS
  <1>1. ASSUME UNCHANGED jobs PROVE \A j \in Jobs : RowMove(j)
    BY <1>1, SameRow DEF RowMove
  <1>2. ASSUME NEW k \in Jobs, NEW row, jobs' = [jobs EXCEPT ![k] = row],
               RowMove(k)
        PROVE  \A j \in Jobs : RowMove(j)
    <2>1. \A j \in Jobs : j # k => jobs'[j] = jobs[j]
      BY <1>2 DEF TypeOK
    <2>2. QED
      BY <1>2, <2>1, SameRow DEF RowMove
  <1>3. CASE Advance
    <2>1. \A j \in Jobs : RowKept(jobs[j], jobs'[j])
      BY <1>3 DEF Advance, RowKept, TypeOK, JobRow
    <2>2. QED
      BY <2>1 DEF RowMove
  <1>4. ASSUME ReleaseExpiredClaims PROVE \A j \in Jobs : RowMove(j)
    <2>1. \A j \in Jobs : jobs'[j] = IF Expired(jobs[j]) THEN ReleasedRow(jobs[j]) ELSE jobs[j]
      BY <1>4 DEF ReleaseExpiredClaims
    <2>2. \A j \in Jobs : jobs[j] \in JobRow
      BY DEF TypeOK
    <2>3. QED
      BY <2>1, <2>2, MoveColumns, SameRow DEF RowMove
  <1>5. ASSUME NEW r \in Runtimes, NEW j \in Jobs, DispatchClaim(r, j)
        PROVE  \A k \in Jobs : RowMove(k)
    <2> DEFINE row == ClaimedRow(jobs[j], claims + 1, procs[r].age)
    <2>1. /\ jobs[j] \in JobRow /\ claims + 1 \in 0..MaxClaims /\ procs[r].age \in 0..MaxStall
          /\ Runnable(jobs[j]) /\ claims' = claims + 1
          /\ jobs' = [jobs EXCEPT ![j] = row]
      BY <1>5, BoundsAssumption DEF DispatchClaim, Claimable, TypeOK, Proc
    <2>2. Claimed(jobs[j], row, claims + 1)
      BY <2>1, MoveColumns
    <2> HIDE DEF row
    <2>3. jobs'[j] = row
      BY <2>1 DEF TypeOK
    <2>4. QED
      BY <1>2, <2>1, <2>2, <2>3 DEF RowMove
  <1>6. ASSUME NEW t \in DOMAIN workers, Finalize(t) PROVE \A j \in Jobs : RowMove(j)
    <2> DEFINE w == workers[t]
               row == FinalizedRow(jobs[w.job], w)
    <2>1. /\ w \in Worker /\ w.job \in Jobs /\ jobs[w.job] \in JobRow
          /\ jobs' = [jobs EXCEPT ![w.job] = row]
          /\ jobs[w.job].token = t /\ w.state = "finalizing" /\ t # NoToken
      BY <1>6 DEF Finalize, ClaimOwned, TypeOK, Worker, NoToken
    <2>2. /\ row.status = w.status /\ row.retry = w.retry
          /\ row.runs = w.runs /\ row.token = NoToken
      BY <2>1, MoveColumns
    <2>3. /\ w.runs = jobs[w.job].runs + 1
          /\ Verdict(w.job, jobs[w.job].retry, w.status, w.retry)
      BY <2>1 DEF CopyInv
    <2>4. jobs[w.job].status = "running"
      BY <2>1 DEF ClaimInv, ClaimsMatchRuns
    <2> HIDE DEF row
    <2>5. Ended(w.job, jobs[w.job], row)
      BY <2>2, <2>3, <2>4 DEF Ended
    <2>6. jobs'[w.job] = row
      BY <2>1 DEF TypeOK
    <2>7. QED
      BY <1>2, <2>1, <2>5, <2>6 DEF RowMove
  <1>7. ASSUME NEW t \in DOMAIN workers, Renew(t) PROVE \A j \in Jobs : RowMove(j)
    <2> DEFINE k == workers[t].job
               row == RenewedRow(jobs[k])
    <2>1. k \in Jobs /\ jobs[k] \in JobRow /\ jobs' = [jobs EXCEPT ![k] = row]
      BY <1>7 DEF Renew, TypeOK, Worker
    <2>2. RowKept(jobs[k], row)
      BY <2>1, MoveColumns
    <2> HIDE DEF row
    <2>3. jobs'[k] = row
      BY <2>1 DEF TypeOK
    <2>4. QED
      BY <1>2, <2>1, <2>2, <2>3 DEF RowMove
  <1>8. ASSUME NEW r \in Runtimes, NEW j \in Jobs, NEW d \in Delays, Schedule(r, j, d)
        PROVE  \A k \in Jobs : RowMove(k)
    <2> DEFINE row == [NoRow EXCEPT !.status = "active", !.rev = 1,
                       !.run_at = IF j \in OneShots THEN d ELSE Never,
                       !.next = IF j \in OneShots THEN d ELSE Interval]
    <2>1. jobs' = [jobs EXCEPT ![j] = row] /\ jobs[j].status = "absent"
      BY <1>8 DEF Schedule
    <2>2. row.status = "active" /\ row.retry = 0 /\ row.runs = 0 /\ row.token = NoToken
      BY DEF NoRow
    <2> HIDE DEF row
    <2>3. jobs'[j] = row
      BY <2>1 DEF TypeOK
    <2>4. QED
      BY <1>2, <2>1, <2>2, <2>3 DEF RowMove, Saved, Left
  <1>9. ASSUME NEW r \in Runtimes, NEW c \in pending, CallWrite(r, c)
        PROVE  \A j \in Jobs : RowMove(j)
    <2> DEFINE row == CallRow(jobs[c.job], c, procs[r].age)
    <2>1. c \in Call /\ c.job \in Jobs /\ procs[r].age \in 0..MaxStall
      BY DEF TypeOK, Call, Proc
    <2>2. CallApplies(jobs[c.job], c) /\ jobs' = [jobs EXCEPT ![c.job] = row]
      BY <1>9 DEF CallWrite
    <2>3. CallMove(jobs[c.job], row)
      BY <2>1, <2>2, CallMoves DEF ClaimInv
    <2> HIDE DEF row
    <2>4. jobs'[c.job] = row
      BY <2>1, <2>2 DEF TypeOK
    <2>5. QED
      BY <1>2, <2>1, <2>2, <2>3, <2>4 DEF RowMove
  <1>10. QED
    BY <1>1, <1>3, <1>4, <1>5, <1>6, <1>7, <1>8, <1>9, ZenonT(40)
       DEF Next, vars, TickStep, TickStart, TickSync, DispatchSkip, TickAbort, HandlerEnds,
           HandlerSucceeds, HandlerFails, ExecutorRaises, FinalizeStep, FinalizeLost,
           FinalizeError, RenewRefused, RenewError, CallRead, CallStep, CallConflict,
           Stop, Start

\* The columns of a worker that the verdict is about.
WorkerKept(old, new) ==
  /\ new.rt = old.rt /\ new.job = old.job
  /\ new.state = old.state /\ new.status = old.status
  /\ new.retry = old.retry /\ new.runs = old.runs

\* The handler has ended: the verdict is computed on the private copy.
WorkerEnded(old, new) ==
  /\ new.rt = old.rt /\ new.job = old.job
  /\ old.state = "executing" /\ new.state = "finalizing"
  /\ new.runs = old.runs + 1 /\ Verdict(old.job, old.retry, new.status, new.retry)

WorkerMove(t) ==
  \/ t \in DOMAIN workers /\ WorkerKept(workers[t], workers'[t])
  \/ t \in DOMAIN workers /\ WorkerEnded(workers[t], workers'[t])
  \/ LET w == workers'[t]
     IN  /\ t = claims + 1 /\ w.state = "executing" /\ w.job \in Jobs
         /\ w.retry = jobs'[w.job].retry /\ w.runs = jobs'[w.job].runs

\* Every step of the scheduler moves every worker by one of those.
LEMMA WorkerMoves ==
  TypeOK /\ [Next]_vars => \A t \in DOMAIN workers' : WorkerMove(t)
  <1> SUFFICES ASSUME TypeOK, [Next]_vars
               PROVE  \A t \in DOMAIN workers' : WorkerMove(t)
    OBVIOUS
  <1>1. ASSUME NEW D \in SUBSET DOMAIN workers, workers' = [u \in D |-> workers[u]]
        PROVE  \A t \in DOMAIN workers' : WorkerMove(t)
    BY <1>1 DEF WorkerMove, WorkerKept
  <1>2. ASSUME UNCHANGED workers PROVE \A t \in DOMAIN workers' : WorkerMove(t)
    BY <1>2 DEF WorkerMove, WorkerKept
  <1>3. CASE Advance
    <2>1. /\ DOMAIN workers' = DOMAIN workers
          /\ \A t \in DOMAIN workers : WorkerKept(workers[t], workers'[t])
      BY <1>3 DEF Advance, WorkerKept, TypeOK, Worker
    <2>2. QED
      BY <2>1 DEF WorkerMove
  <1>4. ASSUME NEW r \in Runtimes, NEW j \in Jobs, DispatchClaim(r, j)
        PROVE  \A t \in DOMAIN workers' : WorkerMove(t)
    <2> DEFINE n == claims + 1
               row == ClaimedRow(jobs[j], n, procs[r].age)
    <2>1. /\ DOMAIN workers' = DOMAIN workers \cup {n} /\ n \notin DOMAIN workers
          /\ \A t \in DOMAIN workers : workers'[t] = workers[t]
      BY <1>4 DEF DispatchClaim, TypeOK
    <2>2. /\ workers'[n].state = "executing" /\ workers'[n].job = j
          /\ workers'[n].retry = row.retry /\ workers'[n].runs = row.runs
          /\ jobs'[j] = row
      BY <1>4 DEF DispatchClaim, TypeOK
    <2> HIDE DEF row
    <2>3. WorkerMove(n)
      BY <2>2 DEF WorkerMove
    <2>4. QED
      BY <2>1, <2>3 DEF WorkerMove, WorkerKept
  <1>5. ASSUME NEW t \in DOMAIN workers, HandlerEnds(t)
        PROVE  \A u \in DOMAIN workers' : WorkerMove(u)
    <2>1. /\ DOMAIN workers' = DOMAIN workers
          /\ \A u \in DOMAIN workers : u # t => workers'[u] = workers[u]
      BY <1>5 DEF HandlerEnds, HandlerSucceeds, HandlerFails, ExecutorRaises, TypeOK
    <2>2. workers[t] \in Worker
      BY DEF TypeOK
    <2>3. WorkerEnded(workers[t], workers'[t])
      <3>1. CASE HandlerSucceeds(t)
        BY <2>2, <3>1 DEF HandlerSucceeds, WorkerEnded, Verdict, Worker
      <3>2. CASE HandlerFails(t)
        BY <2>2, <3>2 DEF HandlerFails, WorkerEnded, Verdict, Worker
      <3>3. CASE ExecutorRaises(t)
        BY <2>2, <3>3 DEF ExecutorRaises, WorkerEnded, Verdict, Worker
      <3>4. QED
        BY <1>5, <3>1, <3>2, <3>3 DEF HandlerEnds
    <2>4. QED
      BY <2>1, <2>3 DEF WorkerMove, WorkerKept
  <1>6. ASSUME NEW t \in DOMAIN workers, Renew(t) \/ RenewRefused(t) \/ RenewError(t)
        PROVE  \A u \in DOMAIN workers' : WorkerMove(u)
    <2>1. /\ DOMAIN workers' = DOMAIN workers
          /\ \A u \in DOMAIN workers : WorkerKept(workers[u], workers'[u])
      <3>1. \A u \in DOMAIN workers : workers[u] \in Worker
        BY DEF TypeOK
      <3>2. CASE Renew(t)
        BY <3>1, <3>2 DEF Renew, WorkerKept, Worker
      <3>3. CASE RenewRefused(t)
        BY <3>1, <3>3 DEF RenewRefused, WorkerKept, Worker
      <3>4. CASE RenewError(t)
        BY <3>1, <3>4 DEF RenewError, WorkerKept, Worker
      <3>5. QED
        BY <1>6, <3>2, <3>3, <3>4
    <2>2. QED
      BY <2>1 DEF WorkerMove
  <1>7. ASSUME NEW t \in DOMAIN workers, FinalizeStep(t) \/ FinalizeError(t)
        PROVE  \A u \in DOMAIN workers' : WorkerMove(u)
    BY <1>1, <1>7 DEF FinalizeStep, Finalize, FinalizeLost, FinalizeError, WithoutWorker
  <1>8. ASSUME NEW r \in Runtimes, Stop(r) PROVE \A u \in DOMAIN workers' : WorkerMove(u)
    BY <1>1, <1>8 DEF Stop
  <1>9. QED
    BY <1>2, <1>3, <1>4, <1>5, <1>6, <1>7, <1>8, ZenonT(40)
       DEF Next, vars, TickStep, TickStart, TickSync, DispatchSkip, TickAbort, Schedule,
           CallRead, CallStep, CallWrite, CallConflict, Start

\* A claim that is still on its row after a step was there before, or is new: the
\* row of a worker that still owns it is as it was.
LEMMA OwnedRowKept ==
  ASSUME TypeOK, NEW j \in Jobs, RowMove(j), NEW t \in 1..claims, jobs'[j].token = t
  PROVE  RowKept(jobs[j], jobs'[j])
  BY DEF RowMove, CallMove, Saved, Cancelled, Rescheduled, Paused, Resumed, Deleted,
         Claimed, Ended, Left, NoToken, TypeOK

\* The private copies stay up to date.
LEMMA CopyStep ==
  TypeOK /\ ClaimInv /\ CopyInv /\ [Next]_vars => CopyInv'
  <1> SUFFICES ASSUME TypeOK, ClaimInv, CopyInv, [Next]_vars,
                      NEW t \in DOMAIN workers',
                      jobs'[workers'[t].job].token = t
               PROVE  LET w == workers'[t]
                          row == jobs'[w.job]
                      IN  /\ w.state = "executing" => w.retry = row.retry /\ w.runs = row.runs
                          /\ w.state = "finalizing" =>
                               w.runs = row.runs + 1 /\ Verdict(w.job, row.retry, w.status, w.retry)
    BY DEF CopyInv
  <1> DEFINE w == workers'[t]
  <1>1. WorkerMove(t) /\ \A j \in Jobs : RowMove(j)
    BY WorkerMoves, RowMoves
  <1>2. ASSUME t \in DOMAIN workers, w.job = workers[t].job
        PROVE  /\ RowKept(jobs[w.job], jobs'[w.job]) /\ jobs[w.job].token = t
               /\ w.job \in Jobs /\ workers[t] \in Worker
    <2>1. t \in 1..claims /\ w.job \in Jobs /\ workers[t] \in Worker
      BY <1>2 DEF TypeOK, Worker
    <2>2. RowKept(jobs[w.job], jobs'[w.job])
      BY <1>1, <2>1, OwnedRowKept
    <2>3. QED
      BY <2>1, <2>2 DEF RowKept
  <1>3. CASE t \in DOMAIN workers /\ WorkerKept(workers[t], w)
    BY <1>2, <1>3 DEF WorkerKept, RowKept, CopyInv
  <1>4. CASE t \in DOMAIN workers /\ WorkerEnded(workers[t], w)
    BY <1>2, <1>4 DEF WorkerEnded, RowKept, CopyInv
  <1>5. QED
    BY <1>1, <1>3, <1>4 DEF WorkerMove

\* Failures are counted within the budget, whoever counts them.
LEMMA BudgetStep ==
  TypeOK /\ (\A j \in Jobs : RowMove(j)) /\ RetryBudget => RetryBudget'
  <1> SUFFICES ASSUME TypeOK, RetryBudget, NEW j \in Jobs, RowMove(j)
               PROVE  /\ jobs'[j].retry <= MaxRetries
                      /\ jobs'[j].status \in {"active", "retrying", "paused", "running"} =>
                           jobs'[j].retry < MaxRetries
    BY DEF RetryBudget
  <1>1. /\ jobs[j].retry \in Nat /\ jobs[j].retry <= MaxRetries
        /\ jobs[j].status \in {"active", "retrying", "paused", "running"} =>
             jobs[j].retry < MaxRetries
        /\ MaxRetries \in Nat /\ 0 < MaxRetries
    BY BoundsAssumption DEF TypeOK, JobRow, RetryBudget
  <1>2. CASE RowKept(jobs[j], jobs'[j])
    BY <1>1, <1>2 DEF RowKept
  <1>3. CASE Saved(jobs[j], jobs'[j]) \/ CallMove(jobs[j], jobs'[j])
    BY <1>1, <1>3 DEF Saved, CallMove, Cancelled, Rescheduled, Paused, Resumed, Deleted,
                      Left, Runnable
  <1>4. CASE Claimed(jobs[j], jobs'[j], claims + 1)
    BY <1>1, <1>4 DEF Claimed, Runnable
  <1>5. CASE Ended(j, jobs[j], jobs'[j])
    BY <1>1, <1>5 DEF Ended, Verdict
  <1>6. QED
    BY <1>2, <1>3, <1>4, <1>5 DEF RowMove

\* The invariant of rows and copies.
RowInv == TypeOK /\ ClaimInv /\ CopyInv /\ RetryBudget

LEMMA RowsInvariant == Spec => []RowInv
  <1>1. Init => ClaimInv
    BY DEF Init, ClaimInv, ClaimsMatchRuns, WorkersConsistent, LeaseExclusive, NoRow, NoToken
  <1>2. Init => CopyInv /\ RetryBudget
    BY BoundsAssumption DEF Init, CopyInv, RetryBudget, NoRow
  <1>3. RowInv /\ [Next]_vars => RowInv'
    BY TypeStep, ClaimStep, CopyStep, RowMoves, BudgetStep DEF RowInv
  <1>4. QED
    BY <1>1, <1>2, <1>3, TypeCorrect, PTL DEF Spec, RowInv

\* A job that can still run has failed fewer than max_retries times in a row, through
\* any number of executions, expired claims and crashes.
THEOREM RetriesBounded == Spec => []RetryBudget
  BY RowsInvariant, PTL DEF RowInv

\* finalize_claim never writes stale counts: while a worker owns its job, the retry
\* and run counts it computes the outcome from are those of the row.
THEOREM CopiesFresh == Spec => []OwnerCopyFresh
  <1>1. RowInv => OwnerCopyFresh
    BY DEF RowInv, CopyInv, OwnerCopyFresh
  <1>2. QED
    BY <1>1, RowsInvariant, PTL

\* The tables agree and no owner writes from a stale copy, in every call and crash.
THEOREM ClaimsAreTrue == Spec => []ClaimsHold
  BY ClaimsCorrect, CopiesFresh, PTL DEF ClaimsHold

\* A completed job is never taken out of `completed' again, except by deletion.
THEOREM CompletedStays == Spec => CompletedIsFinal
  <1>1. RowInv /\ [Next]_vars =>
          [\A j \in Jobs : jobs[j].status = "completed" =>
             jobs'[j].status \in {"completed", "deleted"}]_vars
    <2> SUFFICES ASSUME RowInv, [Next]_vars, NEW j \in Jobs, jobs[j].status = "completed"
                 PROVE  jobs'[j].status \in {"completed", "deleted"}
      OBVIOUS
    <2>1. RowMove(j)
      BY RowMoves DEF RowInv
    <2>2. QED
      BY <2>1 DEF RowMove, RowKept, Saved, CallMove, Cancelled, Rescheduled, Paused, Resumed,
                  Deleted, Claimed, Ended, Left, Runnable
  <1>2. QED
    BY <1>1, RowsInvariant, PTL DEF Spec, CompletedIsFinal

-----------------------------------------------------------------------------
(* Refinement: the rows of the one-shot jobs implement JobTable. *)

TableRow(row) == [st |-> row.status, owner |-> "", key |-> 0,
                  retry |-> row.retry, token |-> row.token]

Rows == [j \in OneShots |-> [st |-> jobs[j].status, owner |-> "", key |-> 0,
                             retry |-> jobs[j].retry, token |-> jobs[j].token]]

\* A move of a one-shot row is a step of JobTable, or leaves the row as it is there.
LEMMA TableMove ==
  ASSUME TypeOK, NEW j \in OneShots, RowMove(j)
  PROVE  \/ TableRow(jobs'[j]) = TableRow(jobs[j])
         \/ Table!Step(TableRow(jobs[j]), TableRow(jobs'[j]))
  <1> DEFINE old == TableRow(jobs[j])
             new == TableRow(jobs'[j])
  <1>1. /\ old.st = jobs[j].status /\ old.retry = jobs[j].retry /\ old.token = jobs[j].token
        /\ old.owner = "" /\ old.key = 0
        /\ new.st = jobs'[j].status /\ new.retry = jobs'[j].retry /\ new.token = jobs'[j].token
    BY DEF TableRow
  <1>2. \A st, retry, token :
          (new.st = st /\ new.retry = retry /\ new.token = token) =>
             new = Table!Row(st, "", 0, retry, token)
    BY DEF TableRow, Table!Row
  <1>3. Table!NoToken = NoToken
    BY DEF Table!NoToken, NoToken
  <1>4. CASE RowKept(jobs[j], jobs'[j])
    BY <1>4 DEF RowKept, TableRow
  <1> HIDE DEF old, new
  <1> SUFFICES new = old \/ Table!Step(old, new)
    BY DEF old, new
  <1>5. CASE Saved(jobs[j], jobs'[j])
    BY <1>1, <1>2, <1>3, <1>5 DEF Saved, Left, Table!Step, Table!SavedRow
  <1>6. CASE Cancelled(jobs[j], jobs'[j])
    <2>1. new = Table!CancelledRow(old)
      BY <1>1, <1>2, <1>3, <1>6 DEF Cancelled, Left, Table!CancelledRow, Table!To
    <2>2. Table!Cancellable(old)
      BY <1>1, <1>6 DEF Cancelled, Table!Cancellable, Table!Waiting
    <2>3. QED
      BY <2>1, <2>2 DEF Table!Step
  <1>7. CASE Rescheduled(jobs[j], jobs'[j])
    BY <1>1, <1>2, <1>3, <1>7
       DEF Rescheduled, Left, Table!Step, Table!Reschedulable, Table!RescheduledRow,
           Table!Waiting
  <1>8. CASE Paused(jobs[j], jobs'[j])
    BY <1>1, <1>2, <1>3, <1>8, ZenonT(40)
       DEF Paused, Left, Runnable, Table!Step, Table!Runnable, Table!To
  <1>9. CASE Resumed(jobs[j], jobs'[j])
    BY <1>1, <1>2, <1>3, <1>9, ZenonT(40) DEF Resumed, Left, Table!Step, Table!To
  <1>10. CASE Deleted(jobs[j], jobs'[j])
    BY <1>1, <1>2, <1>3, <1>10
       DEF Deleted, Left, Exists, Table!Step, Table!Deletable, Table!Present, Table!DeletedRow
  <1>11. CASE Claimed(jobs[j], jobs'[j], claims + 1)
    <2>1. claims + 1 # NoToken
      BY DEF TypeOK, NoToken
    <2>2. QED
      BY <1>1, <1>2, <1>3, <1>11, <2>1, ZenonT(40)
         DEF Claimed, Runnable, Table!Step, Table!Runnable, Table!ClaimedRow
  <1>12. CASE Ended(j, jobs[j], jobs'[j])
    <2>1. CASE jobs'[j].status = "completed" /\ jobs'[j].retry = 0
      BY <1>1, <1>2, <1>3, <1>12, <2>1
         DEF Ended, Table!Step, Table!SucceededRow
    <2>2. CASE /\ jobs'[j].status = IF jobs[j].retry + 1 >= MaxRetries THEN "failed" ELSE "retrying"
               /\ jobs'[j].retry = jobs[j].retry + 1
      BY <1>1, <1>2, <1>3, <1>12, <2>2, ZenonT(40)
         DEF Ended, Table!Step, Table!AttemptFailedRow
    <2>3. CASE jobs'[j].status = "failed" /\ jobs'[j].retry = jobs[j].retry
      BY <1>1, <1>2, <1>3, <1>12, <2>3, ZenonT(40)
         DEF Ended, Table!Step, Table!To
    <2>4. QED
      BY <1>12, <2>1, <2>2, <2>3 DEF Ended, Verdict
  <1>13. QED
    BY <1>4, <1>5, <1>6, <1>7, <1>8, <1>9, <1>10, <1>11, <1>12
       DEF RowMove, CallMove, old, new

\* The scheduler implements JobTable: whatever tick loops, workers, crashes and callers
\* do to a one-shot job, its row takes the steps its users are told of and no other.
THEOREM SchedulerImplementsJobTable == Spec => ImplementsJobTable
  <1>1. Init => \A j \in OneShots : Rows[j].st = "absent"
    <2> SUFFICES ASSUME Init, NEW j \in OneShots PROVE Rows[j].st = "absent"
      OBVIOUS
    <2>1. jobs[j] = NoRow
      BY JobsAssumption DEF Init
    <2>2. NoRow.status = "absent"
      BY DEF NoRow
    <2>3. QED
      BY <2>1, <2>2 DEF Rows
  <1>2. RowInv /\ [Next]_vars =>
          [\A j \in OneShots : Rows'[j] = Rows[j] \/ Table!Step(Rows[j], Rows'[j])]_Rows
    <2> SUFFICES ASSUME RowInv, [Next]_vars, NEW j \in OneShots
                 PROVE  Rows'[j] = Rows[j] \/ Table!Step(Rows[j], Rows'[j])
      OBVIOUS
    <2>1. TypeOK /\ j \in Jobs /\ RowMove(j)
      BY RowMoves, JobsAssumption DEF RowInv
    <2>2. Rows[j] = TableRow(jobs[j]) /\ Rows'[j] = TableRow(jobs'[j])
      BY DEF Rows, TableRow
    <2>3. QED
      BY <2>1, <2>2, TableMove
  <1>3. QED
    BY <1>1, <1>2, RowsInvariant, PTL DEF Spec, ImplementsJobTable, Table!JobsSpec, Rows

-----------------------------------------------------------------------------
(* Attempt numbers *)

\* A row that was never written has counted nothing.
BlankInv == \A j \in Jobs : jobs[j].status = "absent" => jobs[j].runs = 0

\* What a step does to the job_runs rows of a job, and to its run_count.
Opened(j) == claims' = claims + 1 /\ runs'[claims + 1].job = j

StatusKept(t) == runs'[t].status = runs[t].status

RunsQuiet(j) == /\ ~Opened(j) /\ jobs'[j].runs = jobs[j].runs
                /\ \A t \in 1..claims : runs[t].job = j => StatusKept(t)

RunOpened(j) == /\ Opened(j) /\ jobs[j].token = NoToken /\ jobs'[j].runs = jobs[j].runs
                /\ runs'[claims + 1].attempt = jobs[j].runs + 1
                /\ runs'[claims + 1].status = "running"
                /\ \A t \in 1..claims : runs[t].job = j => StatusKept(t)

RunClosed(j) == /\ ~Opened(j) /\ jobs'[j].runs = jobs[j].runs + 1
                /\ \E u \in 1..claims :
                     /\ runs[u].job = j /\ runs[u].status = "running"
                     /\ runs'[u].status \in {"success", "failed"}
                     /\ \A t \in (1..claims) \ {u} : runs[t].job = j => StatusKept(t)

RunsPurged(j) == /\ ~Opened(j) /\ jobs'[j].runs = 0
                 /\ \A t \in 1..claims : runs[t].job = j => runs'[t].status = "purged"

RunsMove(j) == RunsQuiet(j) \/ RunOpened(j) \/ RunClosed(j) \/ RunsPurged(j)

\* A run keeps its job and its number; a step opens at most one.
RunsFrame == /\ claims' \in {claims, claims + 1}
             /\ \A t \in 1..claims : /\ runs'[t].job = runs[t].job
                                     /\ runs'[t].attempt = runs[t].attempt

\* Releasing expired claims closes exactly the runs of the jobs it takes back.
LEMMA ReleaseRuns ==
  ASSUME RowInv, ReleaseExpiredClaims, claims' = claims
  PROVE  RunsFrame /\ \A j \in Jobs : RunsMove(j)
  <1> DEFINE T == {t \in 1..claims : /\ runs[t].status = "running"
                                     /\ \E j \in Jobs : Expired(jobs[j]) /\ jobs[j].token = t}
  <1>1. \A t \in 1..claims : runs[t] \in RunRow
    BY DEF RowInv, TypeOK
  <1>2. \A t \in 1..claims :
          /\ runs'[t].job = runs[t].job /\ runs'[t].attempt = runs[t].attempt
          /\ runs'[t].status = IF t \in T THEN "failed" ELSE runs[t].status
    BY <1>1 DEF ReleaseExpiredClaims, RunRow
  <1>3. ~(claims' = claims + 1)
    BY DEF RowInv, TypeOK
  <1>4. ASSUME NEW j \in Jobs PROVE RunsMove(j)
    <2>1. jobs[j] \in JobRow
      BY DEF RowInv, TypeOK
    <2>2. CASE Expired(jobs[j])
      <3> DEFINE u == jobs[j].token
      <3>1. jobs'[j].runs = jobs[j].runs + 1
        BY <2>1, <2>2 DEF ReleaseExpiredClaims, ReleasedRow, JobRow
      <3>2. u \in 1..claims /\ runs[u].job = j /\ runs[u].status = "running"
        BY <2>2 DEF Expired, RowInv, ClaimInv, ClaimsMatchRuns
      <3>3. u \in T
        BY <2>2, <3>2
      <3>4. \A t \in (1..claims) \ {u} : runs[t].job = j => t \notin T
        BY DEF RowInv, ClaimInv, ClaimsMatchRuns
      <3> HIDE DEF T, u
      <3>5. QED
        BY <1>2, <1>3, <3>1, <3>2, <3>3, <3>4 DEF RunsMove, RunClosed, Opened, StatusKept
    <2>3. CASE ~Expired(jobs[j])
      <3>1. jobs'[j] = jobs[j]
        BY <2>3 DEF ReleaseExpiredClaims
      <3>2. \A t \in 1..claims : runs[t].job = j => t \notin T
        <4> SUFFICES ASSUME NEW t \in 1..claims, runs[t].job = j, t \in T PROVE FALSE
          OBVIOUS
        <4>1. PICK k \in Jobs : Expired(jobs[k]) /\ jobs[k].token = t
          OBVIOUS
        <4>2. runs[t].job = k
          BY <4>1 DEF NoToken, RowInv, ClaimInv, ClaimsMatchRuns
        <4>3. QED
          BY <2>3, <4>1, <4>2
      <3> HIDE DEF T
      <3>3. QED
        BY <1>2, <1>3, <3>1, <3>2 DEF RunsMove, RunsQuiet, Opened, StatusKept
    <2>4. QED
      BY <2>2, <2>3
  <1>5. QED
    BY <1>2, <1>4 DEF RunsFrame

\* claim_job opens the next attempt of a job that has no open one.
LEMMA ClaimRuns ==
  ASSUME RowInv, NEW r \in Runtimes, NEW j \in Jobs, DispatchClaim(r, j)
  PROVE  RunsFrame /\ \A k \in Jobs : RunsMove(k)
  <1> DEFINE n == claims + 1
             row == ClaimedRow(jobs[j], n, procs[r].age)
  <1>1. /\ claims' = n /\ n \notin 1..claims /\ 1..n = (1..claims) \cup {n}
        /\ jobs[j] \in JobRow
    BY DEF DispatchClaim, RowInv, TypeOK
  <1>2. row.runs = jobs[j].runs
    BY <1>1 DEF ClaimedRow, JobRow
  <1>3. /\ \A t \in 1..claims : runs'[t] = runs[t]
        /\ runs'[n].job = j /\ runs'[n].status = "running" /\ runs'[n].attempt = row.runs + 1
    BY <1>1 DEF DispatchClaim
  <1>4. \A k \in Jobs : jobs'[k].runs = jobs[k].runs
    BY <1>2 DEF DispatchClaim, RowInv, TypeOK
  <1>5. jobs[j].token = NoToken
    BY DEF DispatchClaim, Claimable, Runnable, RowInv, ClaimInv, ClaimsMatchRuns
  <1> HIDE DEF row
  <1>6. RunOpened(j)
    BY <1>1, <1>2, <1>3, <1>4, <1>5 DEF RunOpened, Opened, StatusKept
  <1>7. \A k \in Jobs : k # j => RunsQuiet(k)
    BY <1>1, <1>3, <1>4 DEF RunsQuiet, Opened, StatusKept
  <1>8. QED
    BY <1>1, <1>3, <1>6, <1>7 DEF RunsFrame, RunsMove

\* finalize_claim closes the attempt it was opened for.
LEMMA FinalizeRuns ==
  ASSUME RowInv, NEW t \in DOMAIN workers, Finalize(t)
  PROVE  RunsFrame /\ \A k \in Jobs : RunsMove(k)
  <1> DEFINE w == workers[t]
             j == w.job
  <1>1. /\ t \in 1..claims /\ w \in Worker /\ j \in Jobs /\ jobs[j] \in JobRow /\ t # NoToken
        /\ w.state = "finalizing" /\ jobs[j].token = t /\ claims' = claims
        /\ jobs' = [jobs EXCEPT ![j] = FinalizedRow(@, w)]
        /\ ~(claims' = claims + 1)
    BY DEF Finalize, ClaimOwned, RowInv, TypeOK, Worker, NoToken
  <1>2. runs[t].job = j /\ runs[t].status = "running" /\ w.outcome \in {"success", "failed"}
    BY <1>1 DEF RowInv, ClaimInv, ClaimsMatchRuns, WorkersConsistent
  <1>3. w.runs = jobs[j].runs + 1
    BY <1>1 DEF RowInv, CopyInv
  <1>4. /\ jobs'[j].runs = jobs[j].runs + 1
        /\ \A k \in Jobs : k # j => jobs'[k] = jobs[k]
    BY <1>1, <1>3 DEF FinalizedRow, JobRow, RowInv, TypeOK
  <1>5. \A u \in 1..claims :
          /\ runs'[u].job = runs[u].job /\ runs'[u].attempt = runs[u].attempt
          /\ runs'[u].status = IF u = t THEN w.outcome ELSE runs[u].status
    BY DEF Finalize, RowInv, TypeOK, RunRow
  <1>6. RunClosed(j)
    <2> HIDE DEF j, w
    <2>1. QED
      BY <1>1, <1>2, <1>4, <1>5 DEF RunClosed, Opened, StatusKept
  <1>7. \A k \in Jobs : k # j => RunsQuiet(k)
    <2> HIDE DEF j, w
    <2>1. QED
      BY <1>1, <1>2, <1>4, <1>5 DEF RunsQuiet, Opened, StatusKept
  <1>8. QED
    BY <1>1, <1>5, <1>6, <1>7 DEF RunsFrame, RunsMove

\* A management call leaves the runs and their count alone, or deletes both.
LEMMA CallRuns ==
  ASSUME RowInv, NEW r \in Runtimes, NEW c \in pending, CallWrite(r, c)
  PROVE  RunsFrame /\ \A k \in Jobs : RunsMove(k)
  <1> DEFINE row == CallRow(jobs[c.job], c, procs[r].age)
  <1>1. /\ c \in Call /\ c.job \in Jobs /\ procs[r].age \in 0..MaxStall
        /\ claims' = claims /\ ~(claims' = claims + 1)
        /\ jobs' = [jobs EXCEPT ![c.job] = row] /\ CallApplies(jobs[c.job], c)
    BY DEF CallWrite, RowInv, TypeOK, Call, Proc
  <1>2. c.op # "delete" => row.runs = jobs[c.job].runs
    BY <1>1, CallMoves DEF RowInv, ClaimInv
  <1>3. c.op = "delete" => row.runs = 0
    BY <1>1, CallMoves DEF RowInv, ClaimInv
  <1>4. \A t \in 1..claims :
          /\ runs'[t].job = runs[t].job /\ runs'[t].attempt = runs[t].attempt
          /\ runs'[t].status = IF c.op = "delete" /\ runs[t].job = c.job
                               THEN "purged" ELSE runs[t].status
    BY DEF CallWrite, RowInv, TypeOK, RunRow
  <1> HIDE DEF row
  <1>5. \A k \in Jobs : jobs'[k].runs = IF k = c.job THEN row.runs ELSE jobs[k].runs
    BY <1>1 DEF RowInv, TypeOK
  <1>6. \A k \in Jobs : RunsMove(k)
    BY <1>1, <1>2, <1>3, <1>4, <1>5
       DEF RunsMove, RunsQuiet, RunsPurged, Opened, StatusKept
  <1>7. QED
    BY <1>1, <1>4, <1>6 DEF RunsFrame

\* Every step does one of these things to the runs of every job.
LEMMA RunsMoves ==
  RowInv /\ BlankInv /\ [Next]_vars => RunsFrame /\ \A j \in Jobs : RunsMove(j)
  <1> SUFFICES ASSUME RowInv, BlankInv, [Next]_vars
               PROVE  RunsFrame /\ \A j \in Jobs : RunsMove(j)
    OBVIOUS
  <1>1. ASSUME UNCHANGED <<runs, claims>>, \A j \in Jobs : jobs'[j].runs = jobs[j].runs
        PROVE  RunsFrame /\ \A j \in Jobs : RunsMove(j)
    <2>1. ~(claims' = claims + 1)
      BY <1>1 DEF RowInv, TypeOK
    <2>2. QED
      BY <1>1, <2>1 DEF RunsFrame, RunsMove, RunsQuiet, Opened, StatusKept
  <1>2. ASSUME UNCHANGED <<jobs, runs, claims>>
        PROVE  RunsFrame /\ \A j \in Jobs : RunsMove(j)
    BY <1>1, <1>2
  <1>3. CASE Advance
    <2>1. \A j \in Jobs : jobs'[j].runs = jobs[j].runs
      BY <1>3 DEF Advance, RowInv, TypeOK, JobRow
    <2>2. QED
      BY <1>1, <1>3, <2>1 DEF Advance
  <1>4. ASSUME NEW t \in DOMAIN workers, Renew(t)
        PROVE  RunsFrame /\ \A j \in Jobs : RunsMove(j)
    <2>1. workers[t].job \in Jobs /\ jobs[workers[t].job] \in JobRow
      BY DEF RowInv, TypeOK, Worker
    <2>2. \A j \in Jobs : jobs'[j].runs = jobs[j].runs
      BY <1>4, <2>1 DEF Renew, RenewedRow, RowInv, TypeOK, JobRow
    <2>3. QED
      BY <1>1, <1>4, <2>2 DEF Renew
  <1>5. ASSUME NEW r \in Runtimes, NEW j \in Jobs, NEW d \in Delays, Schedule(r, j, d)
        PROVE  RunsFrame /\ \A k \in Jobs : RunsMove(k)
    <2>1. jobs[j].runs = 0
      BY <1>5 DEF BlankInv, Schedule
    <2>2. jobs'[j].runs = 0 /\ \A k \in Jobs : k # j => jobs'[k] = jobs[k]
      BY <1>5 DEF Schedule, NoRow, RowInv, TypeOK
    <2>3. QED
      BY <1>1, <1>5, <2>1, <2>2 DEF Schedule
  <1>6. QED
    BY <1>2, <1>3, <1>4, <1>5, ReleaseRuns, ClaimRuns, FinalizeRuns, CallRuns, ZenonT(40)
       DEF Next, vars, TickStep, TickStart, TickSync, DispatchSkip, TickAbort, HandlerEnds,
           HandlerSucceeds, HandlerFails, ExecutorRaises, FinalizeStep, FinalizeLost,
           FinalizeError, RenewRefused, RenewError, CallRead, CallStep, CallConflict,
           Stop, Start

\* The rows of a job's runs, and what AttemptsNumbered says of one job.
Mine(j) == {t \in 1..claims : runs[t].job = j /\ runs[t].status # "purged"}

Numbered(j) ==
  /\ \A t, u \in Mine(j) : runs[t].attempt = runs[u].attempt => t = u
  /\ \A t \in Mine(j) : IF runs[t].status = "running"
                        THEN runs[t].attempt = jobs[j].runs + 1
                        ELSE runs[t].attempt \in 1..jobs[j].runs
  /\ \A n \in 1..jobs[j].runs : \E t \in Mine(j) : runs[t].attempt = n

\* Each of the four moves keeps the attempts of a job numbered.
LEMMA NumberedStep ==
  ASSUME RowInv, RowInv', RunsFrame, NEW j \in Jobs, RunsMove(j), Numbered(j)
  PROVE  Numbered(j)'
  <1>1. /\ claims \in Nat /\ claims' \in {claims, claims + 1}
        /\ jobs[j].runs \in Nat /\ \A t \in 1..claims : runs[t].attempt \in Nat
        /\ \A t \in 1..claims : /\ runs'[t].job = runs[t].job
                                /\ runs'[t].attempt = runs[t].attempt
    BY DEF RowInv, TypeOK, JobRow, RunRow, RunsFrame
  <1>2. \A t \in 1..claims' : t \in 1..claims \/ (t = claims + 1 /\ claims' = claims + 1)
    BY <1>1
  <1>3. 1..claims \subseteq 1..claims'
    BY <1>1
  <1>4. CASE RunsQuiet(j)
    <2>1. Mine(j)' = Mine(j)
      BY <1>1, <1>2, <1>3, <1>4 DEF Mine, RunsQuiet, Opened, StatusKept
    <2>2. \A t \in Mine(j) : runs'[t].attempt = runs[t].attempt /\ runs'[t].status = runs[t].status
      BY <1>1, <1>4 DEF Mine, RunsQuiet, StatusKept
    <2>3. QED
      BY <1>4, <2>1, <2>2 DEF Numbered, RunsQuiet
  <1>5. CASE RunOpened(j)
    <2> DEFINE n == claims + 1
    <2>1. Mine(j)' = Mine(j) \cup {n} /\ n \notin Mine(j)
      BY <1>1, <1>2, <1>3, <1>5 DEF Mine, RunOpened, Opened, StatusKept
    <2>2. \A t \in Mine(j) : runs'[t].attempt = runs[t].attempt /\ runs'[t].status = runs[t].status
      BY <1>1, <1>5 DEF Mine, RunOpened, StatusKept
    <2>3. \A t \in Mine(j) : runs[t].status # "running"
      BY <1>5 DEF Mine, RunOpened, RowInv, ClaimInv, ClaimsMatchRuns, NoToken
    <2>4. \A t \in Mine(j) : runs[t].attempt \in 1..jobs[j].runs
      BY <2>3 DEF Numbered
    <2>5. /\ runs'[n].attempt = jobs[j].runs + 1 /\ runs'[n].status = "running"
          /\ jobs'[j].runs = jobs[j].runs
      BY <1>5 DEF RunOpened
    <2> HIDE DEF n
    <2>6. \A t, u \in Mine(j)' : runs'[t].attempt = runs'[u].attempt => t = u
      BY <1>1, <2>1, <2>2, <2>4, <2>5 DEF Numbered
    <2>7. QED
      BY <1>1, <2>1, <2>2, <2>3, <2>4, <2>5, <2>6 DEF Numbered
  <1>6. CASE RunClosed(j)
    <2>1. PICK u \in 1..claims :
            /\ runs[u].job = j /\ runs[u].status = "running"
            /\ runs'[u].status \in {"success", "failed"}
            /\ \A t \in (1..claims) \ {u} : runs[t].job = j => StatusKept(t)
      BY <1>6 DEF RunClosed
    <2>2. Mine(j)' = Mine(j) /\ u \in Mine(j)
      BY <1>1, <1>2, <1>3, <1>6, <2>1 DEF Mine, RunClosed, Opened, StatusKept
    <2>3. \A t \in Mine(j) \ {u} : runs'[t].status = runs[t].status /\ runs[t].status # "running"
      BY <2>1 DEF Mine, StatusKept, RowInv, ClaimInv, ClaimsMatchRuns
    <2>4. \A t \in Mine(j) : runs'[t].attempt = runs[t].attempt
      BY <1>1 DEF Mine
    <2>5. /\ \A t \in Mine(j) \ {u} : runs[t].attempt \in 1..jobs[j].runs
          /\ runs[u].attempt = jobs[j].runs + 1 /\ runs'[u].status # "running"
          /\ jobs'[j].runs = jobs[j].runs + 1
      BY <1>6, <2>1, <2>2, <2>3 DEF Numbered, RunClosed
    <2>6. \A t \in Mine(j) : /\ runs'[t].status # "running"
                             /\ runs'[t].attempt \in 1..jobs'[j].runs
      BY <1>1, <2>3, <2>4, <2>5
    <2>7. ASSUME NEW n \in 1..jobs'[j].runs PROVE \E t \in Mine(j) : runs'[t].attempt = n
      <3>1. n \in 1..jobs[j].runs \/ n = jobs[j].runs + 1
        BY <1>1, <2>5
      <3>2. QED
        BY <2>2, <2>4, <2>5, <3>1 DEF Numbered
    <2>8. \A t, v \in Mine(j) : runs'[t].attempt = runs'[v].attempt => t = v
      BY <2>4 DEF Numbered
    <2>9. ASSUME NEW t \in Mine(j)'
          PROVE  /\ runs'[t].status # "running" /\ runs'[t].attempt \in 1..jobs'[j].runs
                 /\ \A v \in Mine(j)' : runs'[t].attempt = runs'[v].attempt => t = v
      <3>1. t \in Mine(j)
        BY <2>2
      <3>2. QED
        BY <2>2, <2>6, <2>8, <3>1
    <2>10. ASSUME NEW n \in 1..jobs'[j].runs PROVE \E t \in Mine(j)' : runs'[t].attempt = n
      <3>1. PICK t \in Mine(j) : runs'[t].attempt = n
        BY <2>7
      <3>2. QED
        BY <2>2, <3>1
    <2>11. QED
      BY <2>9, <2>10 DEF Numbered
  <1>7. CASE RunsPurged(j)
    <2>1. Mine(j)' = {}
      BY <1>1, <1>2, <1>7 DEF Mine, RunsPurged, Opened
    <2>2. 1..jobs'[j].runs = {}
      BY <1>7 DEF RunsPurged
    <2>3. QED
      BY <2>1, <2>2 DEF Numbered
  <1>8. QED
    BY <1>4, <1>5, <1>6, <1>7 DEF RunsMove

\* The attempts of a job are numbered 1, 2, ... without gap or repetition: run_count
\* counts the closed ones, however they were closed, and an open one comes next.
THEOREM AttemptsCounted == Spec => []AttemptsNumbered
  <1> DEFINE Inv == BlankInv /\ \A j \in Jobs : Numbered(j)
  <1>1. Init => Inv
    BY DEF Init, BlankInv, Numbered, Mine, NoRow
  <1>2. RowInv /\ RowInv' /\ Inv /\ [Next]_vars => Inv'
    <2> SUFFICES ASSUME RowInv, RowInv', Inv, [Next]_vars PROVE Inv'
      OBVIOUS
    <2>1. RunsFrame /\ \A j \in Jobs : RunsMove(j)
      BY RunsMoves
    <2>2. ASSUME NEW j \in Jobs PROVE Numbered(j)'
      BY <2>1, NumberedStep
    <2>3. BlankInv'
      <3>1. \A j \in Jobs : RowMove(j)
        BY RowMoves DEF RowInv
      <3>2. QED
        BY <3>1 DEF BlankInv, RowMove, RowKept, Saved, CallMove, Cancelled, Rescheduled,
                    Paused, Resumed, Deleted, Claimed, Ended, Verdict, Left
    <2>4. QED
      BY <2>2, <2>3
  <1>3. Inv => AttemptsNumbered
    BY DEF Numbered, Mine, AttemptsNumbered
  <1>4. QED
    BY <1>1, <1>2, <1>3, RowsInvariant, PTL DEF Spec

-----------------------------------------------------------------------------
(* The limit on concurrent jobs *)

\* A job that a runtime holds after a step, it held before or has just claimed.
LEMMA HeldBefore ==
  ASSUME TypeOK, \A j \in Jobs : RowMove(j), \A t \in DOMAIN workers' : WorkerMove(t),
         NEW r \in Runtimes, NEW j \in ClaimedBy(r)'
  PROVE  \/ j \in ClaimedBy(r)
         \/ claims + 1 \in DOMAIN workers' /\ workers'[claims + 1].rt = r
                                           /\ workers'[claims + 1].job = j
  <1>1. PICK t \in DOMAIN workers' :
          workers'[t].rt = r /\ workers'[t].job = j /\ jobs'[j].token = t
    BY DEF ClaimedBy
  <1>2. CASE t \in DOMAIN workers /\ workers'[t].rt = workers[t].rt
                                  /\ workers'[t].job = workers[t].job
    <2>1. t \in 1..claims /\ j \in Jobs
      BY <1>1, <1>2 DEF TypeOK, Worker
    <2>2. jobs[j].token = t
      BY <1>1, <2>1, OwnedRowKept DEF RowKept
    <2>3. QED
      BY <1>1, <1>2, <2>2 DEF ClaimedBy
  <1>3. CASE t = claims + 1
    BY <1>1, <1>3
  <1>4. QED
    BY <1>2, <1>3 DEF WorkerMove, WorkerKept, WorkerEnded

\* Sets of jobs, and their sizes.
LEMMA HeldFinite ==
  ASSUME TypeOK, NEW r \in Runtimes
  PROVE  /\ ClaimedBy(r) \subseteq Jobs /\ IsFiniteSet(ClaimedBy(r))
         /\ Cardinality(ClaimedBy(r)) \in Nat
         /\ IsFiniteSet(procs[r].seen) /\ Cardinality(procs[r].seen) \in Nat
  <1>1. ClaimedBy(r) \subseteq Jobs /\ procs[r].seen \subseteq Jobs
    BY DEF ClaimedBy, TypeOK, Worker, Proc
  <1>2. QED
    BY <1>1, JobsAssumption, FS_Subset, FS_CardinalityType

\* A runtime comes to dispatch from its snapshot, and keeps it while it dispatches
\* without claiming.
LEMMA ProcMoves ==
  ASSUME TypeOK, [Next]_vars, ~\E q \in Runtimes, k \in Jobs : DispatchClaim(q, k),
         NEW r \in Runtimes
  PROVE  \/ procs'[r].phase # "dispatch"
         \/ procs[r].phase = "dispatch" /\ procs'[r].seen = procs[r].seen
         \/ TickSync(r)
  <1> DEFINE Good == \/ procs'[r].phase # "dispatch"
                     \/ procs[r].phase = "dispatch" /\ procs'[r].seen = procs[r].seen
                     \/ TickSync(r)
  <1>1. procs \in [Runtimes -> Proc] /\ procs[r] \in Proc
    BY DEF TypeOK
  <1>2. ASSUME procs'[r] = procs[r] PROVE Good
    BY <1>2
  <1>3. ASSUME NEW q \in Runtimes, NEW p, p.phase # "dispatch",
               procs' = [procs EXCEPT ![q] = p]
        PROVE  Good
    BY <1>1, <1>2, <1>3
  <1>4. /\ IdleProc.phase # "dispatch" /\ Resting.phase # "dispatch"
        /\ [IdleProc EXCEPT !.phase = "sync"].phase # "dispatch"
        /\ [IdleProc EXCEPT !.phase = "down"].phase # "dispatch"
    BY DEF IdleProc, Resting
  <1>5. ASSUME Advance PROVE Good
    BY <1>1, <1>5 DEF Advance, Proc
  <1>6. ASSUME NEW q \in Runtimes, TickStart(q) \/ TickAbort(q) \/ Stop(q) \/ Start(q)
        PROVE  Good
    BY <1>3, <1>4, <1>6 DEF TickStart, TickAbort, Stop, Start
  <1>7. ASSUME NEW q \in Runtimes, TickSync(q) PROVE Good
    <2>1. CASE q = r
      BY <1>7, <2>1
    <2>2. CASE q # r
      BY <1>1, <1>2, <1>7, <2>2 DEF TickSync
    <2>3. QED
      BY <2>1, <2>2
  <1>8. ASSUME NEW q \in Runtimes, NEW j \in Jobs, DispatchSkip(q, j) PROVE Good
    <2>1. CASE procs[q].todo = {j}
      <3>1. procs' = [procs EXCEPT ![q] = Resting]
        BY <1>8, <2>1 DEF DispatchSkip, Dispatched
      <3>2. QED
        BY <1>3, <1>4, <3>1
    <2>2. CASE procs[q].todo # {j} /\ q = r
      BY <1>1, <1>8, <2>2 DEF DispatchSkip, Dispatched, Proc
    <2>3. CASE q # r
      BY <1>1, <1>2, <1>8, <2>3 DEF DispatchSkip, Dispatched
    <2>4. QED
      BY <2>1, <2>2, <2>3
  <1>9. ASSUME NEW q \in Runtimes,
               \/ procs' = [procs EXCEPT ![q].phase = "call"]
               \/ procs' = [procs EXCEPT ![q] = [procs[q] EXCEPT !.phase = "idle", !.age = 0]]
        PROVE  Good
    <2>1. CASE q = r /\ procs' = [procs EXCEPT ![q].phase = "call"]
      BY <1>1, <2>1 DEF Proc
    <2>2. CASE q = r /\ procs' = [procs EXCEPT ![q] =
                                    [procs[q] EXCEPT !.phase = "idle", !.age = 0]]
      <3>1. [procs[r] EXCEPT !.phase = "idle", !.age = 0].phase = "idle"
        BY <1>1 DEF Proc
      <3>2. QED
        BY <1>1, <2>2, <3>1
    <2>3. CASE q # r
      BY <1>1, <1>2, <1>9, <2>3
    <2>4. QED
      BY <1>9, <2>1, <2>2, <2>3
  <1>10. ASSUME UNCHANGED procs PROVE Good
    BY <1>10, <1>2
  <1> HIDE DEF Good
  <1> SUFFICES Good
    BY DEF Good
  <1>11. ASSUME NEW q \in Runtimes,
                \/ CallStep(q)
                \/ \E j \in Jobs, op \in Ops, d \in Delays \cup {0} : CallRead(q, op, j, d)
         PROVE  Good
    BY <1>9, <1>11 DEF CallStep, CallRead, CallWrite, CallConflict, CallEnd
  <1>12. ASSUME NEW t \in DOMAIN workers,
                \/ HandlerEnds(t) \/ FinalizeStep(t) \/ FinalizeError(t)
                \/ Renew(t) \/ RenewRefused(t) \/ RenewError(t)
         PROVE  Good
    BY <1>10, <1>12
       DEF HandlerEnds, HandlerSucceeds, HandlerFails, ExecutorRaises, FinalizeStep, Finalize,
           FinalizeLost, FinalizeError, Renew, RenewRefused, RenewError
  <1>13. ASSUME NEW q \in Runtimes, NEW j \in Jobs, NEW d \in Delays, Schedule(q, j, d)
         PROVE  Good
    BY <1>10, <1>13 DEF Schedule
  <1>14. ASSUME NEW q \in Runtimes, TickStep(q) PROVE Good
    BY <1>6, <1>7, <1>8, <1>14 DEF TickStep
  <1>15. CASE UNCHANGED vars
    BY <1>10, <1>15 DEF vars
  <1>16. CASE Next
    BY <1>5, <1>6, <1>11, <1>12, <1>13, <1>14, <1>16 DEF Next
  <1>17. QED
    BY <1>15, <1>16

\* The jobs a dispatching runtime holds are among those it counts as running.
SeenInv ==
  \A r \in Runtimes :
    /\ procs[r].phase = "dispatch" => ClaimedBy(r) \subseteq procs[r].seen

ConcInv == SeenInv /\ ConcurrencyLimit

\* A runtime claims a job only while the jobs it holds, all of them among those it
\* saw running, are fewer than the limit.
LEMMA ConcStep ==
  RowInv /\ RowInv' /\ ConcInv /\ [Next]_vars => ConcInv'
  <1> SUFFICES ASSUME RowInv, RowInv', ConcInv, [Next]_vars,
                      NEW r \in Runtimes
               PROVE  /\ procs'[r].phase = "dispatch" => ClaimedBy(r)' \subseteq procs'[r].seen
                      /\ Cardinality(ClaimedBy(r)') <= MaxConcurrent
    BY DEF ConcInv, SeenInv, ConcurrencyLimit
  <1>1. /\ TypeOK /\ (\A j \in Jobs : RowMove(j)) /\ (\A t \in DOMAIN workers' : WorkerMove(t))
        /\ MaxConcurrent \in Nat
    BY RowMoves, WorkerMoves, BoundsAssumption DEF RowInv
  <1>2. /\ IsFiniteSet(ClaimedBy(r)) /\ Cardinality(ClaimedBy(r)) \in Nat
        /\ IsFiniteSet(procs[r].seen) /\ Cardinality(procs[r].seen) \in Nat
    BY <1>1, HeldFinite
  <1>3. ASSUME ClaimedBy(r)' \subseteq ClaimedBy(r)
        PROVE  Cardinality(ClaimedBy(r)') <= MaxConcurrent
    <2>1. Cardinality(ClaimedBy(r)) <= MaxConcurrent
      BY DEF ConcInv, ConcurrencyLimit
    <2>2. Cardinality(ClaimedBy(r)') <= Cardinality(ClaimedBy(r))
      BY <1>2, <1>3, FS_Subset
    <2>3. Cardinality(ClaimedBy(r)') \in Nat
      <3>1. IsFiniteSet(ClaimedBy(r)')
        BY <1>2, <1>3, FS_Subset
      <3>2. QED
        BY <3>1, FS_CardinalityType
    <2>4. QED
      BY <1>1, <1>2, <2>1, <2>2, <2>3
  <1>4. ASSUME NEW q \in Runtimes, NEW k \in Jobs, DispatchClaim(q, k)
        PROVE  /\ procs'[r].phase = "dispatch" => ClaimedBy(r)' \subseteq procs'[r].seen
               /\ Cardinality(ClaimedBy(r)') <= MaxConcurrent
    <2>1. workers'[claims + 1].rt = q /\ workers'[claims + 1].job = k
      BY <1>4 DEF DispatchClaim
    <2>2. CASE q = r
      <3>1. ClaimedBy(r)' \subseteq procs[r].seen \cup {k}
        <4>1. ClaimedBy(r) \subseteq procs[r].seen
          BY <1>4, <2>2 DEF ConcInv, SeenInv, DispatchClaim
        <4>2. QED
          BY <1>1, <2>1, <4>1, HeldBefore
      <3>2. Cardinality(procs[r].seen) < MaxConcurrent
        BY <1>4, <2>2 DEF DispatchClaim
      <3>3. /\ IsFiniteSet(procs[r].seen \cup {k})
            /\ Cardinality(procs[r].seen \cup {k}) <= MaxConcurrent
        <4> DEFINE S == procs[r].seen
        <4>1. /\ IsFiniteSet(S \cup {k})
              /\ Cardinality(S \cup {k}) = IF k \in S THEN Cardinality(S) ELSE Cardinality(S) + 1
          BY <1>2, FS_AddElement
        <4>2. Cardinality(S) < MaxConcurrent /\ Cardinality(S) \in Nat
          BY <1>2, <3>2
        <4> HIDE DEF S
        <4>3. IsFiniteSet(S \cup {k}) /\ Cardinality(S \cup {k}) <= MaxConcurrent
          BY <1>1, <4>1, <4>2
        <4>4. QED
          BY <4>3 DEF S
      <3>4. Cardinality(ClaimedBy(r)') <= Cardinality(procs[r].seen \cup {k})
        BY <3>1, <3>3, FS_Subset
      <3>5. Cardinality(ClaimedBy(r)') \in Nat /\ Cardinality(procs[r].seen \cup {k}) \in Nat
        <4>1. IsFiniteSet(ClaimedBy(r)')
          BY <3>1, <3>3, FS_Subset
        <4>2. QED
          BY <3>3, <4>1, FS_CardinalityType
      <3>6. procs'[r].phase = "dispatch" => procs'[r].seen = procs[r].seen \cup {k}
        <4>1. procs \in [Runtimes -> Proc] /\ procs[r] \in Proc
          BY <1>1 DEF TypeOK
        <4>2. CASE procs[r].todo = {k}
          BY <1>4, <2>2, <4>1, <4>2
             DEF DispatchClaim, Dispatched, Resting, IdleProc
        <4>3. CASE procs[r].todo # {k}
          BY <1>4, <2>2, <4>1, <4>3 DEF DispatchClaim, Dispatched, Proc
        <4>4. QED
          BY <4>2, <4>3
      <3>7. QED
        BY <1>1, <3>1, <3>3, <3>4, <3>5, <3>6
    <2>3. CASE q # r
      <3>1. ClaimedBy(r)' \subseteq ClaimedBy(r)
        BY <1>1, <2>1, <2>3, HeldBefore
      <3>2. procs'[r] = procs[r]
        BY <1>1, <1>4, <2>3 DEF DispatchClaim, Dispatched, TypeOK
      <3>3. QED
        BY <1>3, <3>1, <3>2 DEF ConcInv, SeenInv
    <2>4. QED
      BY <2>2, <2>3
  <1>5. ASSUME claims' = claims,
               \/ procs'[r].phase # "dispatch"
               \/ procs[r].phase = "dispatch" /\ procs'[r].seen = procs[r].seen
               \/ TickSync(r)
        PROVE  /\ procs'[r].phase = "dispatch" => ClaimedBy(r)' \subseteq procs'[r].seen
               /\ Cardinality(ClaimedBy(r)') <= MaxConcurrent
    <2>1. ClaimedBy(r)' \subseteq ClaimedBy(r)
      <3>1. claims + 1 \notin DOMAIN workers'
        BY <1>5 DEF RowInv, TypeOK
      <3>2. QED
        BY <1>1, <3>1, HeldBefore
    <2>2. CASE procs[r].phase = "dispatch" /\ procs'[r].seen = procs[r].seen
      BY <1>3, <2>1, <2>2 DEF ConcInv, SeenInv
    <2>3. CASE TickSync(r)
      <3>1. \A j \in ClaimedBy(r) : j \in Jobs /\ jobs[j].status = "running"
        BY DEF ClaimedBy, RowInv, TypeOK, Worker, ClaimInv, ClaimsMatchRuns, NoToken
      <3>2. procs'[r].phase = "dispatch" =>
              procs'[r].seen = {j \in Jobs : jobs[j].status = "running"}
        <4>1. procs \in [Runtimes -> Proc] /\ procs[r] \in Proc
          BY <1>1 DEF TypeOK
        <4>2. QED
          BY <2>3, <4>1 DEF TickSync, Resting, IdleProc, Proc
      <3>3. QED
        BY <1>3, <2>1, <3>1, <3>2
    <2>4. CASE procs'[r].phase # "dispatch"
      BY <1>3, <2>1, <2>4
    <2>5. QED
      BY <1>5, <2>2, <2>3, <2>4
  <1>6. QED
    <2>1. CASE \E q \in Runtimes, k \in Jobs : DispatchClaim(q, k)
      BY <1>4, <2>1
    <2>2. CASE ~\E q \in Runtimes, k \in Jobs : DispatchClaim(q, k)
      <3>1. claims' = claims
        BY <2>2, ZenonT(40) DEF Next, vars, Advance, TickStep, TickStart, TickSync, DispatchSkip, TickAbort,
           HandlerEnds, HandlerSucceeds, HandlerFails, ExecutorRaises, FinalizeStep, Finalize,
           FinalizeLost, FinalizeError, Renew, RenewRefused, RenewError, Schedule, CallRead,
           CallStep, CallWrite, CallConflict, Stop, Start
      <3>2. \/ procs'[r].phase # "dispatch"
            \/ procs[r].phase = "dispatch" /\ procs'[r].seen = procs[r].seen
            \/ TickSync(r)
        BY <1>1, <2>2, ProcMoves
      <3>3. QED
        BY <1>5, <3>1, <3>2
    <2>3. QED
      BY <2>1, <2>2

\* No runtime holds more claims than max_concurrent_jobs, although it counts the
\* running jobs in a snapshot that others outdate.  Handlers that lost their lease
\* and run on are not counted.
THEOREM ConcurrencyBounded == Spec => []ConcurrencyLimit
  <1>1. Init => ConcInv
    <2> SUFFICES ASSUME Init PROVE ConcInv
      OBVIOUS
    <2>1. \A r \in Runtimes : ClaimedBy(r) = {}
      BY DEF Init, ClaimedBy
    <2>2. QED
      BY <2>1, FS_EmptySet, BoundsAssumption DEF ConcInv, SeenInv, ConcurrencyLimit
  <1>2. ConcInv => ConcurrencyLimit
    BY DEF ConcInv
  <1>3. QED
    BY <1>1, <1>2, ConcStep, RowsInvariant, PTL DEF Spec
=============================================================================
