----------------------------- MODULE ReminderSaga -----------------------------
(***************************************************************************)
(* Durable reminders (core/reminders) over three databases: user_tasks,     *)
(* reminders and the scheduler's jobs.  No transaction spans two of them,   *)
(* so an operation is a saga of single transactions with pending states and *)
(* compensations, and the startup reconciliation repairs what a crash or a  *)
(* database error has left.                                                 *)
(*                                                                          *)
(* Several processes share the databases.  Between two transactions of a    *)
(* call nothing else runs in its process (the coroutines never suspend),    *)
(* but the calls and the scheduler of the other processes do.  pc is the    *)
(* transaction a process is about to make; cur, copy, arg, todo, snap and   *)
(* bad are the locals of its call.  Two reads in a row, and a read followed *)
(* by a write that is refused without effect unless the row is unchanged,   *)
(* are one step.                                                            *)
(***************************************************************************)
EXTENDS JobTable, UserTasks, FiniteSets

CONSTANTS
  Procs,      \* processes that share the databases: servers, command lines
  Tickers,    \* those that live long enough for their tick loop to claim jobs
  Reminders,  \* reminder identifiers (fresh uuids); also the names of their jobs
  TaskOf,     \* the task a reminder is created for
  Deployments,  \* which processes there are, with how many calls and faults
  \* Bounds of the model.
  MaxTime,    \* instants, and claims ever made
  MaxClaims,
  MaxCalls,   \* calls ever made
  MaxFaults   \* crashes, database errors, leases lost

ASSUME SagaAssumption ==
  /\ Tickers \subseteq Procs /\ IsFiniteSet(Procs)
  /\ Reminders # {} /\ TaskOf \in [Reminders -> Tasks]
  /\ \A u \in Tasks : \E r \in Reminders : TaskOf[r] = u  \* no task without one
  /\ \A d \in Deployments : d.calls \in 0..MaxCalls /\ d.faults \in 0..MaxFaults
  /\ Owners = Reminders
  /\ Keys = 1..MaxTime /\ MaxTime \in Nat \ {0}
  /\ Jobs \subseteq Nat \ {0} /\ IsFiniteSet(Jobs)
  /\ MaxRetries \in Nat \ {0} /\ MaxTaskRev \in Nat
  /\ MaxClaims \in Nat /\ MaxCalls \in Nat /\ MaxFaults \in Nat

VARIABLES
  rems,    \* table reminders
  occs,    \* table reminder_occurrences: reminder -> instant -> status
  known,   \* process -> jobs in its SchedulerRegistry
  runs,    \* claim -> handler execution; who is "" once it is over
  pc, op, cur, arg, copy, todo, snap, bad,  \* the call of a process
  now, claims, calls, faults

locals == <<op, cur, arg, copy, todo, snap, bad>>
counts == <<now, claims, calls>>
vars == <<tasks, jobs, rems, occs, known, runs, pc, locals, counts, faults>>

NoJob == 0

Rem(st, at, job, fail, rev) ==
  [st |-> st, at |-> at, job |-> job, fail |-> fail, rev |-> rev]

NoRem == Rem("none", 0, NoJob, "none", 0)

RemStatus == {"none", "pending_schedule", "scheduled", "pending_reschedule",
              "pending_cancel", "triggered", "cancelled", "failed"}

Settled == {"triggered", "cancelled"}

RemRow == [st : RemStatus, at : 0..MaxTime, job : Jobs \cup {NoJob},
           fail : {"none", "reminder_bridge", "reminder_handler"}, rev : Nat]

Run == [p : Procs, job : Jobs, key : Keys,
        at : {"trigger", "recheck", "record", "ok", "failed", "over"}]

Ops == {"none", "create", "cancel", "reschedule", "complete", "cancel_task", "reconcile"}

Pcs == {"absent", "down", "idle",
        "insert", "newjob", "schedule", "undo", "fail",
        "get", "mark", "canceljob", "cancelled", "cancelfail",
        "check", "prepare", "movejob", "moved", "movefail",
        "task", "list", "next", "regain", "evidence",
        "ensure", "ensured", "drop", "revive"}

JobRow == [st : {"absent", "active", "retrying", "paused", "running", "completed",
                 "failed", "cancelled", "deleted"},
           owner : Reminders, key : Keys, retry : 0..MaxRetries, token : 0..MaxClaims]

TypeOK ==
  /\ tasks \in [Tasks -> TaskRow]
  /\ jobs \in [Jobs -> JobRow]
  /\ rems \in [Reminders -> RemRow]
  /\ occs \in [Reminders -> [Keys -> {"none", "failed", "triggered"}]]
  /\ known \in [Procs -> SUBSET Jobs]
  /\ claims \in 0..MaxClaims /\ runs \in [1..claims -> Run]
  /\ pc \in [Procs -> Pcs] /\ op \in [Procs -> Ops]
  /\ cur \in [Procs -> Reminders] /\ arg \in [Procs -> Nat]
  /\ copy \in [Procs -> RemRow] /\ snap \in [Procs -> [Reminders -> RemRow]]
  /\ todo \in [Procs -> SUBSET Reminders] /\ bad \in [Procs -> BOOLEAN]
  /\ now \in 0..MaxTime /\ calls \in 0..MaxCalls /\ faults \in 0..MaxFaults

Init ==
  /\ TasksInit
  /\ jobs = [j \in Jobs |-> Row("absent", CHOOSE r \in Reminders : TRUE, 1, 0, NoToken)]
  /\ rems = [r \in Reminders |-> NoRem]
  /\ occs = [r \in Reminders |-> [k \in Keys |-> "none"]]
  /\ known = [p \in Procs |-> {}]
  /\ runs = <<>>
  /\ op = [p \in Procs |-> "none"]
  /\ cur = [p \in Procs |-> CHOOSE r \in Reminders : TRUE]
  /\ arg = [p \in Procs |-> 0]
  /\ copy = [p \in Procs |-> NoRem]
  /\ todo = [p \in Procs |-> {}]
  /\ snap = [p \in Procs |-> [r \in Reminders |-> NoRem]]
  /\ bad = [p \in Procs |-> FALSE]
  /\ now = 0 /\ claims = 0
  /\ \E d \in Deployments :
       /\ calls = MaxCalls - d.calls /\ faults = MaxFaults - d.faults
       /\ pc \in [Procs -> {"idle", "down", "absent"}]
       /\ \A p \in Procs : pc[p] = "absent" <=> p \notin d.procs

Fault == faults < MaxFaults /\ faults' = faults + 1

-----------------------------------------------------------------------------
(* Control of a call *)

Goto(p, label) == pc' = [pc EXCEPT ![p] = label]

Set(var, p, value) == [var EXCEPT ![p] = value]

\* The call goes on at label with the row it holds.
Holding(p, label, row) ==
  /\ Goto(p, label)
  /\ copy' = Set(copy, p, row)
  /\ UNCHANGED <<op, cur, arg, todo, snap, bad>>

\* A call begins, with reminder r in hand.
Begin(p, o, label, r, a, row) ==
  /\ pc[p] = "idle" /\ calls < MaxCalls
  /\ calls' = calls + 1
  /\ Goto(p, label)
  /\ op' = Set(op, p, o) /\ cur' = Set(cur, p, r) /\ arg' = Set(arg, p, a)
  /\ copy' = Set(copy, p, row)
  /\ UNCHANGED <<todo, snap, bad, now, claims>>

\* Its locals are gone.
Clear(p, label) ==
  /\ Goto(p, label)
  /\ op' = Set(op, p, "none") /\ cur' = Set(cur, p, CHOOSE r \in Reminders : TRUE)
  /\ arg' = Set(arg, p, 0) /\ copy' = Set(copy, p, NoRem)
  /\ todo' = Set(todo, p, {}) /\ bad' = Set(bad, p, FALSE)
  /\ snap' = Set(snap, p, [r \in Reminders |-> NoRem])

\* A bridge operation returns, or raises: to the caller, to the loop of
\* cancel_for_task, or to the loop of reconcile.
Return(p, ok) ==
  IF op[p] \in {"complete", "cancel_task", "reconcile"}
  THEN /\ Goto(p, IF ok \/ op[p] = "reconcile" THEN "next" ELSE "regain")
       /\ copy' = Set(copy, p, NoRem)
       /\ bad' = Set(bad, p, bad[p] \/ ~ok)
       /\ UNCHANGED <<op, cur, arg, todo, snap>>
  ELSE Clear(p, "idle")

-----------------------------------------------------------------------------
(* SqliteReminderRepository.update, and the registry of SchedulerRuntime *)

\* Mutant: the revision is not compared.
BugFresh(p) == TRUE
\* UPDATE reminders ... WHERE id=? AND revision=?
Fresh(p) == rems[cur[p]].rev = copy[p].rev

Moved(row, st) == Rem(st, row.at, row.job, row.fail, row.rev + 1)
Repaired(row, st, j) == Rem(st, row.at, j, "none", row.rev + 1)
Broken(row, st, j) == Rem(st, row.at, j, "reminder_bridge", row.rev + 1)

Write(p, row) ==
  /\ Fresh(p)
  /\ rems' = [rems EXCEPT ![cur[p]] = row]

\* The write is refused, or the database fails.
NotWritten(p) ==
  /\ \/ ~Fresh(p) /\ UNCHANGED faults
     \/ Fault
  /\ UNCHANGED rems

Rows == {j \in Jobs : Present(jobs[j])}

\* _sync_registry_from_persistence takes up the rows in the order of their
\* insertion, and raises JobAlreadyExistsError on one whose name is taken.
Taken(p, i) ==
  i \notin known[p] /\ \E j \in known[p] \cup {h \in Rows : h < i} :
                         jobs[j].owner = jobs[i].owner

Clash(p) == \E i \in Rows : Taken(p, i)

\* The registry of p after a refresh; after a clash, what it had taken up.
Synced(p) ==
  [known EXCEPT ![p] =
     IF Clash(p) THEN @ \cup {i \in Rows : \A h \in Rows : h <= i => ~Taken(p, h)}
                 ELSE Rows]

\* Mutant: schedule does not look for a job of that name.
BugNamed(p, r) == FALSE
Named(p, r) == \E j \in known[p] : jobs[j].owner = r

\* SchedulerRuntime.schedule: refused when the registry has a job of the name.
NewJob(p, r, k, j) ==
  /\ ~Named(p, r)
  /\ jobs[j].st = "absent" /\ \A i \in Jobs : jobs[i].st = "absent" => j <= i
  /\ jobs' = [jobs EXCEPT ![j] = SavedRow(r, k)]
  /\ known' = [known EXCEPT ![p] = @ \cup {j}]

NoNewJob(p, r) ==
  /\ \/ Named(p, r) /\ UNCHANGED faults
     \/ Fault
  /\ UNCHANGED <<jobs, known>>

\* SchedulerRuntime.reschedule_one_shot of a row that can be moved; the refresh
\* of the registry that follows the write may raise.
Movable(j) == j \in Rows /\ Reschedulable(jobs[j])
MoveJob(p, j, k) ==
  /\ Movable(j)
  /\ jobs' = [jobs EXCEPT ![j] = RescheduledRow(@, k)]
  /\ known' = Synced(p)

\* SchedulerRuntime.cancel_job of a row that exists.
StopJob(p, j) ==
  /\ j \in Rows
  /\ jobs' = IF Cancellable(jobs[j]) THEN [jobs EXCEPT ![j] = CancelledRow(@)] ELSE jobs
  /\ known' = Synced(p)

Stopped(j) == Cancellable(jobs[j]) \/ jobs[j].st \in {"cancelled", "completed"}

-----------------------------------------------------------------------------
(* ReminderSchedulerBridge.create *)

\* create_pending reads the task.
CreateRead(p, r, k) ==
  /\ rems[r].st = "none" /\ \A q \in Procs : op[q] = "create" => cur[q] # r
  /\ tasks[TaskOf[r]].st = "active"
  /\ Begin(p, "create", "insert", r, k, NoRem)
  /\ UNCHANGED <<tasks, jobs, rems, occs, known, runs, faults>>

CreateInsert(p) ==
  LET row == Rem("pending_schedule", arg[p], NoJob, "none", 1)
  IN  /\ pc[p] = "insert"
      /\ \/ /\ arg[p] > now
            /\ rems' = [rems EXCEPT ![cur[p]] = row]
            /\ Holding(p, "newjob", row) /\ UNCHANGED faults
         \/ /\ arg[p] <= now \* remind_at must be in the future
            /\ Clear(p, "idle") /\ UNCHANGED <<rems, faults>>
         \/ Fault /\ Clear(p, "idle") /\ UNCHANGED rems
      /\ UNCHANGED <<tasks, jobs, occs, known, runs, counts>>

CreateJob(p) ==
  /\ pc[p] = "newjob"
  /\ \/ \E j \in Jobs :
          /\ NewJob(p, cur[p], arg[p], j) /\ UNCHANGED faults
          /\ Goto(p, "schedule") /\ arg' = Set(arg, p, j)
          /\ UNCHANGED <<op, cur, copy, todo, snap, bad>>
     \/ /\ NoNewJob(p, cur[p])
        /\ Goto(p, "fail") /\ arg' = Set(arg, p, NoJob)
        /\ UNCHANGED <<op, cur, copy, todo, snap, bad>>
  /\ UNCHANGED <<tasks, rems, occs, runs, counts>>

CreateMark(p) ==
  /\ pc[p] = "schedule"
  /\ \/ /\ Write(p, Repaired(copy[p], "scheduled", arg[p])) /\ UNCHANGED faults
        /\ Clear(p, "idle")
     \/ NotWritten(p) /\ Goto(p, "undo") /\ UNCHANGED locals
  /\ UNCHANGED <<tasks, jobs, occs, known, runs, counts>>

\* The compensation; its errors are logged and forgotten.
CreateUndo(p) ==
  /\ pc[p] = "undo"
  /\ \/ StopJob(p, arg[p]) /\ UNCHANGED faults
     \/ arg[p] \notin Rows /\ UNCHANGED <<jobs, known, faults>>
     \/ Fault /\ UNCHANGED <<jobs, known>>
  /\ Goto(p, "fail")
  /\ UNCHANGED <<tasks, rems, occs, runs, locals, counts>>

CreateFail(p) ==
  /\ pc[p] = "fail"
  /\ \/ Write(p, Broken(copy[p], "failed", arg[p])) /\ UNCHANGED faults
     \/ NotWritten(p)
  /\ Clear(p, "idle")
  /\ UNCHANGED <<tasks, jobs, occs, known, runs, counts>>

-----------------------------------------------------------------------------
(* ReminderSchedulerBridge.cancel, also called by cancel_for_task and reconcile *)

CancelCall(p, r) ==
  /\ rems[r].st \notin {"none", "triggered", "failed"}
  /\ Begin(p, "cancel", "get", r, 0, NoRem)
  /\ UNCHANGED <<tasks, jobs, rems, occs, known, runs, faults>>

CancelGet(p) ==
  LET row == rems[cur[p]]
  IN  /\ pc[p] = "get"
      /\ \/ row.st \notin Settled /\ Holding(p, "mark", row)
         \/ row.st \in Settled /\ Return(p, row.st = "cancelled")
      /\ UNCHANGED <<tasks, jobs, rems, occs, known, runs, counts, faults>>

CancelMark(p) ==
  LET row == Moved(copy[p], "pending_cancel")
  IN  /\ pc[p] = "mark"
      /\ \/ Write(p, row) /\ Holding(p, "canceljob", row) /\ UNCHANGED faults
         \/ NotWritten(p) /\ Return(p, FALSE)
      /\ UNCHANGED <<tasks, jobs, occs, known, runs, counts>>

CancelTheJob(p) ==
  LET j == copy[p].job
  IN  /\ pc[p] = "canceljob"
      /\ \/ j \notin Rows /\ Goto(p, "cancelled") /\ UNCHANGED <<jobs, known, faults>>
         \/ /\ StopJob(p, j) /\ UNCHANGED faults
            /\ Goto(p, IF Stopped(j) /\ ~Clash(p) THEN "cancelled" ELSE "cancelfail")
         \/ Fault /\ Goto(p, "cancelfail") /\ UNCHANGED <<jobs, known>>
      /\ UNCHANGED <<tasks, rems, occs, runs, locals, counts>>

CancelDone(p) ==
  /\ pc[p] = "cancelled"
  /\ \/ Write(p, Repaired(copy[p], "cancelled", copy[p].job))
        /\ Return(p, TRUE) /\ UNCHANGED faults
     \/ NotWritten(p) /\ Goto(p, "cancelfail") /\ UNCHANGED locals
  /\ UNCHANGED <<tasks, jobs, occs, known, runs, counts>>

CancelFail(p) ==
  /\ pc[p] = "cancelfail"
  /\ \/ Write(p, Broken(copy[p], "pending_cancel", copy[p].job)) /\ UNCHANGED faults
     \/ NotWritten(p)
  /\ Return(p, FALSE)
  /\ UNCHANGED <<tasks, jobs, occs, known, runs, counts>>

-----------------------------------------------------------------------------
(* ReminderSchedulerBridge.reschedule, also called by reconcile *)

RescheduleCall(p, r, k) ==
  /\ rems[r].st \notin {"none"} \cup Settled
  /\ Begin(p, "reschedule", "check", r, k, NoRem)
  /\ UNCHANGED <<tasks, jobs, rems, occs, known, runs, faults>>

JobRunning(j) == j \in Jobs /\ jobs[j].st = "running"

RescheduleCheck(p) ==
  /\ pc[p] = "check"
  /\ IF JobRunning(rems[cur[p]].job) THEN Return(p, FALSE)
     ELSE Goto(p, "prepare") /\ UNCHANGED locals
  /\ UNCHANGED <<tasks, jobs, rems, occs, known, runs, counts, faults>>

\* prepare_reschedule: only reconcile passes an expected_revision.
Preparable(p) ==
  /\ rems[cur[p]].st \notin Settled
  /\ op[p] = "reconcile" => Fresh(p)
  /\ arg[p] > now

Prepare(p) ==
  LET old == rems[cur[p]]
      row == Rem("pending_reschedule", arg[p], old.job, "none", old.rev + 1)
  IN  /\ pc[p] = "prepare"
      /\ \/ /\ Preparable(p) /\ UNCHANGED faults
            /\ rems' = [rems EXCEPT ![cur[p]] = row]
            /\ Holding(p, "movejob", row)
         \/ ~Preparable(p) /\ Return(p, FALSE) /\ UNCHANGED <<rems, faults>>
         \/ Fault /\ Return(p, FALSE) /\ UNCHANGED rems
      /\ UNCHANGED <<tasks, jobs, occs, known, runs, counts>>

\* The job is moved, or a new one made when there is none; a job that exists and
\* cannot be moved is a conflict.  (A revision conflict of reschedule_job has the
\* outcome of an error of the database.)
MoveTheJob(p) ==
  LET j == copy[p].job
      Made(i) == Rem(copy[p].st, copy[p].at, i, copy[p].fail, copy[p].rev)
  IN  /\ pc[p] = "movejob"
      /\ \/ /\ MoveJob(p, j, copy[p].at) /\ UNCHANGED <<faults, locals>>
            /\ Goto(p, IF Clash(p) THEN "movefail" ELSE "moved")
         \/ /\ j \in Rows /\ ~Movable(j)
            /\ Goto(p, "movefail") /\ known' = Synced(p)
            /\ UNCHANGED <<jobs, faults, locals>>
         \/ /\ j \notin Rows
            /\ \E i \in Jobs : /\ NewJob(p, cur[p], copy[p].at, i)
                               /\ Holding(p, "moved", Made(i))
            /\ UNCHANGED faults
         \/ /\ j \notin Rows /\ NoNewJob(p, cur[p])
            /\ Goto(p, "movefail") /\ UNCHANGED locals
         \/ /\ j \in Rows /\ Fault
            /\ Goto(p, "movefail") /\ UNCHANGED <<jobs, known, locals>>
      /\ UNCHANGED <<tasks, rems, occs, runs, counts>>

RescheduleDone(p) ==
  /\ pc[p] = "moved"
  /\ \/ Write(p, Repaired(copy[p], "scheduled", copy[p].job))
        /\ Return(p, TRUE) /\ UNCHANGED faults
     \/ NotWritten(p) /\ Goto(p, "movefail") /\ UNCHANGED locals
  /\ UNCHANGED <<tasks, jobs, occs, known, runs, counts>>

RescheduleFail(p) ==
  /\ pc[p] = "movefail"
  /\ \/ Write(p, Broken(copy[p], "pending_reschedule", copy[p].job)) /\ UNCHANGED faults
     \/ NotWritten(p)
  /\ Return(p, FALSE)
  /\ UNCHANGED <<tasks, jobs, occs, known, runs, counts>>

-----------------------------------------------------------------------------
(* UserTaskService: complete and cancel coordinate the reminders of the task *)

Target == [complete |-> "completed", cancel_task |-> "cancelled"]

\* _transition reads the task; arg holds the revision read.
TaskCall(p, o, u) ==
  LET decision == Transition(tasks[u], Target[o])
      r == CHOOSE r \in Reminders : TaskOf[r] = u
  IN  /\ decision # "refuse"
      /\ tasks[u].rev <= MaxTaskRev
      /\ Begin(p, o, IF decision = "write" THEN "task" ELSE "list", r, tasks[u].rev, NoRem)
      /\ UNCHANGED <<tasks, jobs, rems, occs, known, runs, faults>>

TaskWrite(p) ==
  LET u == TaskOf[cur[p]]
      copied == [st |-> "active", rev |-> arg[p]]
  IN  /\ pc[p] = "task"
      /\ \/ WriteTask(u, copied, Target[op[p]])
            /\ Goto(p, "list") /\ UNCHANGED <<locals, faults>>
         \/ ~Current(u, copied) /\ Clear(p, "idle") /\ UNCHANGED <<tasks, faults>>
         \/ Fault /\ Clear(p, "idle") /\ UNCHANGED tasks
      /\ UNCHANGED <<jobs, rems, occs, known, runs, counts>>

\* Mutant: only what is scheduled is cancelled.
BugListed(u) == {r \in Reminders : TaskOf[r] = u /\ rems[r].st = "scheduled"}
\* The reminders of task u that can still fire.
Listed(u) == {r \in Reminders : TaskOf[r] = u /\ rems[r].st \notin {"none"} \cup Settled}

\* cancel_for_task works from a list; the answer is a failure if the list cannot
\* be had or any cancellation failed.
TaskList(p) ==
  /\ pc[p] = "list"
  /\ todo' = Set(todo, p, Listed(TaskOf[cur[p]]))
  /\ snap' = Set(snap, p, rems)
  /\ Goto(p, "next")
  /\ UNCHANGED <<op, cur, arg, copy, bad>>
  /\ UNCHANGED <<tasks, jobs, rems, occs, known, runs, counts, faults>>

TakeNext(p) ==
  /\ pc[p] = "next" /\ op[p] # "reconcile"
  /\ \/ \E r \in todo[p] :
          /\ cur' = Set(cur, p, r) /\ todo' = Set(todo, p, todo[p] \ {r})
          /\ Goto(p, "get") /\ UNCHANGED <<op, arg, copy, snap, bad>>
     \/ todo[p] = {} /\ Clear(p, "idle")
  /\ UNCHANGED <<tasks, jobs, rems, occs, known, runs, counts, faults>>

\* A cancellation failed: the reminder is read again, and marked for recovery.
Regain(p) ==
  LET row == rems[cur[p]]
  IN  /\ pc[p] = "regain"
      /\ IF row.st \in Settled THEN Goto(p, "next") /\ UNCHANGED locals
         ELSE Holding(p, "evidence", row)
      /\ UNCHANGED <<tasks, jobs, rems, occs, known, runs, counts, faults>>

Evidence(p) ==
  /\ pc[p] = "evidence"
  /\ \/ Write(p, Broken(copy[p], "pending_cancel", copy[p].job)) /\ UNCHANGED faults
     \/ NotWritten(p)
  /\ Holding(p, "next", NoRem)
  /\ UNCHANGED <<tasks, jobs, occs, known, runs, counts>>

\* update and reopen.
TaskEdit(p, u) ==
  /\ pc[p] = "idle" /\ calls < MaxCalls /\ calls' = calls + 1
  /\ EditTask(u) \/ ReopenTask(u)
  /\ UNCHANGED <<jobs, rems, occs, known, runs, pc, locals, now, claims, faults>>

-----------------------------------------------------------------------------
(* Start of a process: release of expired claims, registry, reconcile *)

\* The owner of a claim is gone: its lease runs out.
Orphaned(j) == jobs[j].st = "running" /\ runs[jobs[j].token].at = "over"

\* Whether the lease has run out by the time of the start is open.  Of two rows
\* of one name _recover_jobs skips the second.
Restart(p) ==
  /\ pc[p] = "down"
  /\ \E S \in SUBSET {j \in Jobs : Orphaned(j)} :
       jobs' = [j \in Jobs |-> IF j \in S THEN AttemptFailedRow(jobs[j]) ELSE jobs[j]]
  /\ known' = [known EXCEPT ![p] =
                 {j \in Rows : \A i \in Rows : i < j => jobs[i].owner # jobs[j].owner}]
  /\ Goto(p, "next") /\ op' = Set(op, p, "reconcile")
  /\ snap' = Set(snap, p, rems)
  /\ todo' = Set(todo, p, {r \in Reminders : rems[r].st # "none"})
  /\ UNCHANGED <<cur, arg, copy, bad>>
  /\ UNCHANGED <<tasks, rems, occs, runs, counts, faults>>

\* Mutant: a reminder still without a job is not looked at.
BugNeedsJob(row) ==
  \/ row.st = "failed" /\ row.fail = "reminder_bridge"
  \/ row.st \in {"scheduled", "triggered"} /\ row.job \notin Rows

\* A reminder of an active task needs its job made or moved again.
NeedsJob(row) ==
  \/ row.st = "pending_schedule"
  \/ row.st = "failed" /\ row.fail = "reminder_bridge"
  \/ row.st \in {"scheduled", "triggered"} /\ row.job \notin Rows
  \/ row.st = "scheduled" /\ jobs[row.job].st \in {"failed", "cancelled"}

\* What reconcile does with a listed row: the transaction that comes next.
Repair(row, u) ==
  IF tasks[u].st \in Terminal THEN IF row.st \in Settled THEN "next" ELSE "get"
  ELSE IF NeedsJob(row) THEN "ensure"
  ELSE CASE row.st = "pending_reschedule" -> "check"
         [] row.st = "pending_cancel" -> "get"
         [] row.st = "cancelled" /\ row.job \in Rows
            /\ jobs[row.job].st \notin {"cancelled", "completed"} -> "drop"
         [] row.st = "triggered" /\ jobs[row.job].st # "completed" -> "revive"
         [] OTHER -> "next"

ReconcileItem(p) ==
  /\ pc[p] = "next" /\ op[p] = "reconcile"
  /\ \E r \in todo[p] :
       /\ cur' = Set(cur, p, r) /\ todo' = Set(todo, p, todo[p] \ {r})
       /\ copy' = Set(copy, p, snap[p][r]) /\ arg' = Set(arg, p, snap[p][r].at)
       /\ \/ /\ Goto(p, Repair(snap[p][r], TaskOf[r])) /\ UNCHANGED <<bad, faults>>
          \/ Goto(p, "next") /\ bad' = Set(bad, p, TRUE) /\ Fault
  /\ UNCHANGED <<op, snap, tasks, jobs, rems, occs, known, runs, counts>>

\* _ensure_job.
ReconcileEnsure(p) ==
  LET j == copy[p].job
      With(i) == /\ Goto(p, "ensured") /\ arg' = Set(arg, p, i)
                 /\ UNCHANGED <<op, cur, copy, todo, snap, bad>>
  IN  /\ pc[p] = "ensure"
      /\ \/ /\ MoveJob(p, j, copy[p].at) /\ UNCHANGED faults
            /\ IF Clash(p) THEN Return(p, FALSE) ELSE With(j)
         \/ /\ ~Movable(j)
            /\ \E i \in Jobs : NewJob(p, cur[p], copy[p].at, i) /\ With(i)
            /\ UNCHANGED faults
         \/ ~Movable(j) /\ NoNewJob(p, cur[p]) /\ Return(p, FALSE)
         \/ Movable(j) /\ Fault /\ Return(p, FALSE) /\ UNCHANGED <<jobs, known>>
      /\ UNCHANGED <<tasks, rems, occs, runs, counts>>

ReconcileMark(p) ==
  LET st == IF copy[p].st = "triggered" THEN "triggered" ELSE "scheduled"
  IN  /\ pc[p] = "ensured"
      /\ \/ /\ Write(p, Repaired(copy[p], st, arg[p])) /\ UNCHANGED faults
            /\ Return(p, TRUE)
         \/ NotWritten(p) /\ Return(p, FALSE)
      /\ UNCHANGED <<tasks, jobs, occs, known, runs, counts>>

\* A job that outlived its reminder is cancelled, or, if the reminder has
\* triggered, run once more to be completed.
ReconcileJob(p) ==
  LET j == copy[p].job
  IN  /\ pc[p] \in {"drop", "revive"}
      /\ \/ /\ IF pc[p] = "drop" THEN StopJob(p, j) ELSE MoveJob(p, j, copy[p].at)
            /\ Return(p, ~Clash(p)) /\ UNCHANGED faults
         \/ /\ pc[p] = "drop" => j \notin Rows
            /\ pc[p] = "revive" => ~Movable(j)
            /\ Return(p, pc[p] = "drop") /\ UNCHANGED <<jobs, known, faults>>
         \/ Fault /\ Return(p, FALSE) /\ UNCHANGED <<jobs, known>>
      /\ UNCHANGED <<tasks, rems, occs, runs, counts>>

ReconcileEnd(p) ==
  /\ pc[p] = "next" /\ op[p] = "reconcile" /\ todo[p] = {}
  /\ Clear(p, "idle")
  /\ UNCHANGED <<tasks, jobs, rems, occs, known, runs, counts, faults>>

-----------------------------------------------------------------------------
(* The scheduler of a process, and ReminderActionHandler.execute *)

Due(j) == jobs[j].st = "retrying" \/ jobs[j].key <= now

Release(p, j) ==
  /\ p \in Tickers /\ pc[p] = "idle" /\ jobs[j].st = "running"
  /\ \/ Orphaned(j) /\ UNCHANGED faults
     \/ ~Orphaned(j) /\ Fault       \* the lease was not renewed in time
  /\ jobs' = [jobs EXCEPT ![j] = AttemptFailedRow(@)]
  /\ UNCHANGED <<tasks, rems, occs, known, runs, pc, locals, counts>>

\* A tick refreshes the registry and claims what is due; a clash ends it.
TickClash(p) ==
  /\ p \in Tickers /\ pc[p] = "idle" /\ Clash(p)
  /\ known' = Synced(p)
  /\ UNCHANGED <<tasks, jobs, rems, occs, runs, pc, locals, counts, faults>>

Claim(p, j) ==
  /\ p \in Tickers /\ pc[p] = "idle" /\ ~Clash(p)
  /\ Runnable(jobs[j]) /\ Due(j)
  /\ claims < MaxClaims /\ claims' = claims + 1
  /\ known' = Synced(p)
  /\ jobs' = [jobs EXCEPT ![j] = ClaimedRow(@, claims + 1)]
  /\ runs' = [t \in 1..(claims + 1) |->
                IF t <= claims THEN runs[t]
                ELSE [p |-> p, job |-> j, key |-> jobs[j].key, at |-> "trigger"]]
  /\ UNCHANGED <<tasks, rems, occs, pc, locals, now, calls, faults>>

Moves(t, label) == runs' = [runs EXCEPT ![t].at = label]

At(t, label) == runs[t].at = label /\ pc[runs[t].p] = "idle"

\* Mutant: the trigger compares neither the instant nor a pending reschedule.
BugTriggerable(r, k) == rems[r].st \in {"scheduled", "failed", "pending_reschedule"}
\* SqliteReminderRepository.trigger: what is still to be fired, and what has been.
Triggerable(r, k) == rems[r].st \in {"scheduled", "failed"} /\ rems[r].at = k
Already(r, k) == rems[r].st = "triggered" /\ occs[r][k] = "triggered"

TriggeredRow(row) == Rem("triggered", row.at, row.job, "none", row.rev + 1)

Trigger(t) ==
  LET r == jobs[runs[t].job].owner
      k == runs[t].key
  IN  /\ At(t, "trigger")
      /\ \/ /\ Triggerable(r, k)
            /\ occs' = [occs EXCEPT ![r][k] = "triggered"]
            /\ rems' = [rems EXCEPT ![r] = TriggeredRow(@)]
            /\ Moves(t, "ok") /\ UNCHANGED faults
         \/ Already(r, k) /\ Moves(t, "ok") /\ UNCHANGED <<rems, occs, faults>>
         \/ /\ ~Triggerable(r, k) /\ ~Already(r, k)      \* ReminderConflictError
            /\ Moves(t, "recheck") /\ UNCHANGED <<rems, occs, faults>>
         \/ Fault /\ Moves(t, "record") /\ UNCHANGED <<rems, occs>>
      /\ UNCHANGED <<tasks, jobs, known, pc, locals, counts>>

Recheck(t) ==
  LET r == jobs[runs[t].job].owner
  IN  /\ At(t, "recheck")
      /\ Moves(t, IF rems[r].st \in {"cancelled", "pending_cancel"} THEN "ok" ELSE "failed")
      /\ UNCHANGED <<tasks, jobs, rems, occs, known, pc, locals, counts, faults>>

\* record_trigger_failure.
Blamed(row) ==
  IF row.st \in {"triggered", "cancelled", "pending_cancel"} THEN row
  ELSE Rem("failed", row.at, row.job, "reminder_handler", row.rev + 1)

Record(t) ==
  LET r == jobs[runs[t].job].owner
      k == runs[t].key
  IN  /\ At(t, "record") /\ Moves(t, "failed")
      /\ \/ /\ occs' = [occs EXCEPT ![r][k] = IF @ = "triggered" THEN @ ELSE "failed"]
            /\ rems' = [rems EXCEPT ![r] = Blamed(@)]
            /\ UNCHANGED faults
         \/ Fault /\ UNCHANGED <<rems, occs>>
      /\ UNCHANGED <<tasks, jobs, known, pc, locals, counts>>

\* finalize_claim, refused when the claim is lost.
Finish(t) ==
  LET j == runs[t].job
      ok == runs[t].at = "ok"
  IN  /\ At(t, "ok") \/ At(t, "failed")
      /\ Moves(t, "over")
      /\ \/ /\ Owned(jobs[j], t) /\ UNCHANGED faults
            /\ jobs' = [jobs EXCEPT ![j] = IF ok THEN SucceededRow(@) ELSE AttemptFailedRow(@)]
         \/ ~Owned(jobs[j], t) /\ UNCHANGED <<jobs, faults>>
         \/ Fault /\ UNCHANGED jobs
      /\ UNCHANGED <<tasks, rems, occs, known, pc, locals, counts>>

-----------------------------------------------------------------------------
\* A process dies with its call, its registry and its handlers.
Crash(p) ==
  /\ pc[p] \notin {"absent", "down"} /\ Fault
  /\ Clear(p, "down")
  /\ known' = [known EXCEPT ![p] = {}]
  /\ runs' = [t \in DOMAIN runs |->
                IF runs[t].p = p THEN [runs[t] EXCEPT !.at = "over"] ELSE runs[t]]
  /\ UNCHANGED <<tasks, jobs, rems, occs, counts>>

\* delete_job of the scheduler's management interface.
DeleteTheJob(p, j) ==
  /\ pc[p] = "idle" /\ calls < MaxCalls /\ calls' = calls + 1
  /\ Deletable(jobs[j])
  /\ jobs' = [jobs EXCEPT ![j] = DeletedRow(@)]
  /\ known' = [known EXCEPT ![p] = @ \ {j}]
  /\ UNCHANGED <<tasks, rems, occs, runs, pc, locals, now, claims, faults>>

Tick ==
  /\ now < MaxTime /\ now' = now + 1
  /\ UNCHANGED <<tasks, jobs, rems, occs, known, runs, pc, locals, claims, calls, faults>>

NewCall(p) ==
  \/ \E r \in Reminders :
       \/ CancelCall(p, r)
       \/ \E k \in Keys : CreateRead(p, r, k) \/ RescheduleCall(p, r, k)
  \/ \E u \in Tasks :
       TaskEdit(p, u) \/ \E o \in {"complete", "cancel_task"} : TaskCall(p, o, u)
  \/ \E j \in Jobs : DeleteTheJob(p, j)

CallStep(p) ==
  \/ CreateInsert(p) \/ CreateJob(p) \/ CreateMark(p) \/ CreateUndo(p) \/ CreateFail(p)
  \/ CancelGet(p) \/ CancelMark(p) \/ CancelTheJob(p) \/ CancelDone(p) \/ CancelFail(p)
  \/ RescheduleCheck(p) \/ Prepare(p) \/ MoveTheJob(p)
  \/ RescheduleDone(p) \/ RescheduleFail(p)
  \/ TaskWrite(p) \/ TaskList(p) \/ TakeNext(p) \/ Regain(p) \/ Evidence(p)
  \/ ReconcileItem(p) \/ ReconcileEnsure(p) \/ ReconcileMark(p)
  \/ ReconcileJob(p) \/ ReconcileEnd(p)

RunStep(t) == Trigger(t) \/ Recheck(t) \/ Record(t) \/ Finish(t)

SchedulerStep(p) == TickClash(p) \/ \E j \in Jobs : Release(p, j) \/ Claim(p, j)

Next ==
  \/ \E p \in Procs : NewCall(p) \/ CallStep(p) \/ SchedulerStep(p) \/ Crash(p) \/ Restart(p)
  \/ \E t \in 1..claims : RunStep(t)
  \/ Tick

Spec == Init /\ [][Next]_vars

\* Time passes, a call that has begun goes on, asyncio runs the handlers and the
\* tick loop of a process that is not busy, and a process that died is started.
Fairness ==
  /\ WF_vars(Tick)
  /\ \A p \in Procs :
       /\ WF_vars(CallStep(p)) /\ WF_vars(Restart(p))
       /\ \A j \in Jobs : WF_vars(Orphaned(j) /\ Release(p, j)) /\ WF_vars(Claim(p, j))
  /\ \A t \in 1..MaxClaims : WF_vars(t \in 1..claims /\ RunStep(t))

FairSpec == Spec /\ Fairness

-----------------------------------------------------------------------------
(* Properties *)

\* However often the job of a reminder runs, whatever is cancelled, rescheduled,
\* recorded or reconciled meanwhile, a reminder is triggered exactly when it has a
\* triggered occurrence, this is the only one, and it is the one it was set to.
OneOccurrence ==
  \A r \in Reminders :
    {k \in Keys : occs[r][k] = "triggered"}
      = IF rems[r].st = "triggered" THEN {rems[r].at} ELSE {}

\* No stale copy, late failure or repair takes a reminder out of a settled state.
SettledIsFinal ==
  [][\A r \in Reminders : rems[r].st \in Settled => rems'[r].st = rems[r].st]_vars

\* A terminal transition of a task that answers success has disarmed every reminder
\* it listed: none of them can fire any more, whoever worked on it meanwhile.
SuccessDisarms ==
  [][\A p \in Procs :
       (op[p] \in {"complete", "cancel_task"} /\ op'[p] = "none" /\ pc[p] = "next"
          /\ pc'[p] # "down" /\ ~bad[p])
       => \A r \in Reminders :
            (TaskOf[r] = TaskOf[cur[p]] /\ snap[p][r].st # "none")
              => rems[r].st \in Settled]_vars

\* No two jobs bear the same name.
UniqueNames == \A i, j \in Rows : jobs[i].owner = jobs[j].owner => i = j

\* The job of reminder r is to fire it, and no attempt has failed yet.
Armed(r) ==
  LET job == jobs[rems[r].job]
  IN  /\ rems[r].st \in {"scheduled", "failed"} /\ rems[r].job \in Rows
      /\ job.key = rems[r].at /\ job.retry = 0
      /\ \/ job.st = "active"
         \/ job.st = "running" /\ runs[job.token].at = "trigger"

\* Only one process uses the databases.
Alone == Cardinality({p \in Procs : pc[p] # "absent"}) = 1

\* In the only process, fewer faults than max_retries lose no reminder: one that is
\* armed fires, unless a call takes it or its job away.
FiresWithinBudget ==
  \A r \in Reminders :
    (Alone /\ Armed(r)) ~> (rems[r].st \notin {"scheduled", "failed"} \/ rems[r].job \notin Rows)

\* In the only process a scheduled reminder always has its job, set to its instant,
\* unless the job was deleted; and no second job bears its name.
ScheduledHasJob ==
  Alone => /\ UniqueNames
           /\ \A r \in Reminders :
                rems[r].st = "scheduled" =>
                  /\ rems[r].job \in Jobs
                  /\ rems[r].job \in Rows => jobs[rems[r].job].key = rems[r].at

\* The startup reconciliation takes up a reminder that a crash left pending, when
\* the job had not been saved yet.
PendingRepaired ==
  \A p \in Procs, r \in Reminders :
    (/\ Alone /\ pc[p] = "down" /\ faults = MaxFaults
     /\ rems[r].st = "pending_schedule" /\ \A j \in Rows : jobs[j].owner # r)
      ~> rems[r].st # "pending_schedule"

=============================================================================
