--------------------------- MODULE SystemLifecycle ---------------------------
(***************************************************************************)
(* The life of the process (core/system): SystemContainer starts the        *)
(* components one after the other, admission lets work in while the system  *)
(* is ready, and one shutdown task, which every caller of shutdown waits    *)
(* for, drains and closes them.  Tasks go on meanwhile as in TaskRuntime,   *)
(* and so do the jobs the scheduler has spawned and the requests the        *)
(* application runtime has let in.                                          *)
(*                                                                          *)
(* A component is in up while it is open.  A database connection is opened  *)
(* by whoever uses it next, whether or not it has been closed before.       *)
(***************************************************************************)
EXTENDS TaskRuntime

CONSTANTS
  Starter,   \* who called start
  Callers,   \* who calls shutdown
  Jobs,      \* bound: jobs that run at a time
  Loads      \* bound: the tasks, those others call on, the callers of shutdown,
             \* whether jobs and requests come, whether components fail and callers
             \* are cancelled, and whether the system has already started

ASSUME LifecycleAssumption ==
  /\ Starter \notin Callers
  /\ \A l \in Loads : /\ l.tasks \cup l.controlled \subseteq Tasks /\ l.callers \subseteq Callers
                      /\ l.ready \in BOOLEAN

VARIABLES
  lc,          \* LifecycleStateMachine
  start,       \* the component start is at, 0 when it is not under way
  startFailed, \* _startup_failed
  shut,        \* where _shutdown_task is, 0 before there is one
  call,        \* caller of shutdown -> idle, waiting, returned or cancelled
  failures,    \* whether shutdown_failures names one
  jobs,        \* job -> idle, running, cancelled: _background_tasks
  request,     \* whether a request of the application runtime is under way
  conn,        \* whether a database connection is open
  load,
  overtaken,   \* history: start was under way when the system began to drain
  outlived     \* history: a request or a step was, when the databases were closed

svars == <<lc, start, startFailed, shut, call, failures, jobs, request, conn>>
vars == <<up, tvars, svars, load, overtaken, outlived>>

\* SystemContainer.start; tick is scheduler_runtime.start.
StartOrder == <<"bus", "stores", "workflow", "scheduler", "tick", "tasks", "apps">>
Components == {StartOrder[n] : n \in DOMAIN StartOrder}
\* _run_shutdown; scheduler_runtime.shutdown, which comes twice, is tick, jobs, scheduler.
CloseOrder == <<"draining", "tick", "jobs", "scheduler", "apps", "tasks", "tick", "jobs",
                "scheduler", "stores", "workflow", "bus", "databases">>
Ended == Len(CloseOrder) + 1
Cut == Len(CloseOrder) + 2
Closing == shut \in DOMAIN CloseOrder

Lifecycle == {"created", "starting", "ready", "draining", "stopped", "failed"}
Final == {"stopped", "failed"}
Waiters == Callers \cup {Starter}

PlatformTypeOK ==
  /\ TaskTypeOK
  /\ up \subseteq Components /\ lc \in Lifecycle /\ load \in Loads
  /\ start \in 0..Len(StartOrder) + 1 /\ shut \in 0..Cut
  /\ call \in [Waiters -> {"idle", "waiting", "returned", "cancelled"}]
  /\ (\E c \in Waiters : call[c] = "waiting") => shut # 0 /\ shut # Cut
  /\ jobs \in [Jobs -> {"idle", "running", "cancelled"}]
  /\ <<startFailed, failures, request, conn, overtaken, outlived>> \in
       BOOLEAN \X BOOLEAN \X BOOLEAN \X BOOLEAN \X BOOLEAN \X BOOLEAN

Init ==
  /\ TaskInit /\ load \in Loads
  /\ lc = (IF load.ready THEN "ready" ELSE "created")
  /\ up = (IF load.ready THEN Components ELSE {}) /\ conn = load.ready
  /\ start = 0 /\ startFailed = FALSE /\ shut = 0 /\ failures = FALSE
  /\ call = [c \in Waiters |-> "idle"]
  /\ jobs = [j \in Jobs |-> "idle"] /\ request = FALSE
  /\ overtaken = FALSE /\ outlived = FALSE

Unseen == UNCHANGED <<tvars, load, overtaken, outlived>>

-----------------------------------------------------------------------------
(* Work *)

\* Mutant: a due job is dispatched without asking the gate.
BugAdmitted == TRUE
\* WorkAdmissionGate.admit at the outer boundary; what was let in may go on.
Admitted == lc = "ready"

\* One tick: the leases of the jobs table, then the due jobs.
Tick ==
  /\ "tick" \in up /\ load.work
  /\ conn' = TRUE
  /\ \E S \in SUBSET Jobs :
       jobs' = [j \in Jobs |-> IF j \in S /\ jobs[j] = "idle" /\ Admitted THEN "running"
                               ELSE jobs[j]]
  /\ Unseen /\ UNCHANGED <<up, lc, start, startFailed, shut, call, failures, request>>

\* A job ends; one that was cancelled leaves its claim to expire.
JobEnds(j) ==
  /\ jobs[j] # "idle" /\ jobs' = [jobs EXCEPT ![j] = "idle"]
  /\ conn' = (conn \/ jobs[j] = "running")
  /\ Unseen /\ UNCHANGED <<up, lc, start, startFailed, shut, call, failures, request>>

\* ApplicationRuntime.execute; nothing waits for it.
Request ==
  /\ load.work
  /\ IF request THEN request' \in BOOLEAN
     ELSE Admitted /\ "apps" \in up /\ request' = TRUE
  /\ conn' = (conn \/ request)
  /\ Unseen /\ UNCHANGED <<up, lc, start, startFailed, shut, call, failures, jobs>>

-----------------------------------------------------------------------------
(* start *)

Start ==
  /\ lc = "created" /\ lc' = "starting" /\ start' = 1
  /\ Unseen /\ UNCHANGED <<up, startFailed, shut, call, failures, jobs, request, conn>>

\* It goes on whatever has become of the state.
StartNext ==
  /\ start \in DOMAIN StartOrder
  /\ up' = up \cup {StartOrder[start]} /\ start' = start + 1
  /\ conn' = (conn \/ StartOrder[start] = "stores")
  /\ Unseen /\ UNCHANGED <<lc, startFailed, shut, call, failures, jobs, request>>

\* What shutdown does first.
Calls(c) ==
  CASE lc \in Final     -> /\ call' = [call EXCEPT ![c] = "returned"] /\ UNCHANGED <<lc, shut>>
    [] lc = "created"   -> /\ call' = [call EXCEPT ![c] = "returned"] /\ lc' = "stopped"
                           /\ UNCHANGED shut
    [] shut = Cut       -> /\ call' = [call EXCEPT ![c] = "cancelled"] /\ UNCHANGED <<lc, shut>>
    [] OTHER            -> /\ call' = [call EXCEPT ![c] = "waiting"] /\ UNCHANGED lc
                           /\ shut' = IF shut = 0 THEN 1 ELSE shut

\* A component cannot be initialised, or the system is not starting any more.
StartFails ==
  /\ \/ start \in DOMAIN StartOrder /\ load.faults
     \/ start = Len(StartOrder) + 1 /\ lc # "starting"
  /\ startFailed' = TRUE /\ start' = 0 /\ Calls(Starter)
  /\ Unseen /\ UNCHANGED <<up, failures, jobs, request, conn>>

\* A start that is cancelled cleans nothing up.
StartCancelled ==
  /\ start # 0 /\ load.faults /\ start' = 0
  /\ Unseen /\ UNCHANGED <<up, lc, startFailed, shut, call, failures, jobs, request, conn>>

Ready ==
  /\ start = Len(StartOrder) + 1 /\ lc = "starting" /\ lc' = "ready" /\ start' = 0
  /\ Unseen /\ UNCHANGED <<up, startFailed, shut, call, failures, jobs, request, conn>>

-----------------------------------------------------------------------------
(* shutdown *)

Shutdown(c) ==
  /\ c \in load.callers /\ call[c] = "idle" /\ Calls(c)
  /\ Unseen /\ UNCHANGED <<up, start, startFailed, failures, jobs, request, conn>>

Returns(c) ==
  /\ call[c] = "waiting" /\ shut = Ended
  /\ call' = [call EXCEPT ![c] = "returned"]
  /\ Unseen /\ UNCHANGED <<up, lc, start, startFailed, shut, failures, jobs, request, conn>>

\* The first action of the shutdown task.
Drain ==
  /\ Closing /\ CloseOrder[shut] = "draining" /\ lc' = "draining" /\ shut' = shut + 1
  /\ overtaken' = (start # 0)
  /\ UNCHANGED <<up, tvars, start, startFailed, call, failures, jobs, request, conn, load, outlived>>

\* The jobs under way are cancelled at once or when the timeout has passed.
CancelJobs ==
  /\ Closing /\ CloseOrder[shut] = "jobs" /\ \E j \in Jobs : jobs[j] = "running"
  /\ jobs' = [j \in Jobs |-> IF jobs[j] = "running" THEN "cancelled" ELSE jobs[j]]
  /\ Unseen /\ UNCHANGED <<up, lc, start, startFailed, shut, call, failures, request, conn>>

\* Mutant: the jobs that were cancelled are not waited for.
BugGathered == TRUE
\* The jobs are gathered before anything else is closed.
Gathered == \A j \in Jobs : jobs[j] = "idle"

\* close_component: one that fails stays open and is named.
Close(ok) ==
  LET c == CloseOrder[shut]
  IN  /\ Closing /\ c \notin {"draining", "databases"}
      /\ c = "jobs" => Gathered
      /\ ok \/ (load.faults /\ c \notin {"tick", "jobs"})
      /\ up' = IF ok THEN up \ {c} ELSE up
      /\ failures' = (failures \/ ~ok)
      /\ active' = IF c = "workflow" /\ ok THEN [f \in Flows |-> Nobody] ELSE active
      /\ shut' = shut + 1
      /\ UNCHANGED <<lc, start, startFailed, call, jobs, request, conn, load, overtaken, outlived>>
      /\ UNCHANGED <<task, runner, delegated, tries, taken, left>>

\* close_all, and the final state with it.
CloseDatabases(ok) ==
  /\ Closing /\ CloseOrder[shut] = "databases" /\ (ok \/ load.faults)
  /\ conn' = (conn /\ ~ok) /\ failures' = (failures \/ ~ok)
  /\ lc' = IF failures' \/ startFailed THEN "failed" ELSE "stopped"
  /\ shut' = Ended /\ outlived' = (request \/ \E t \in Tasks : runner[t].pc = "step")
  /\ UNCHANGED <<up, tvars, start, startFailed, call, jobs, request, load, overtaken>>

\* A caller that is cancelled takes the shutdown task with it, for all that wait;
\* only while the tick is waited for is the cancellation swallowed.
CallerCancelled(c) ==
  /\ call[c] = "waiting" /\ load.faults
  /\ Closing /\ CloseOrder[shut] \notin {"tick", "databases"}
  /\ shut' = Cut
  /\ call' = [d \in Waiters |-> IF call[d] = "waiting" THEN "cancelled" ELSE call[d]]
  /\ jobs' = [j \in Jobs |-> IF CloseOrder[shut] = "jobs" /\ jobs[j] = "running" THEN "cancelled"
                             ELSE jobs[j]]
  /\ Unseen /\ UNCHANGED <<up, lc, start, startFailed, failures, request, conn>>

-----------------------------------------------------------------------------

\* The system may be at rest.
Rest == (lc \in Final \/ shut = Cut \/ load.tasks # {}) /\ UNCHANGED vars

\* A step of run; a step of its workflow may use a database, until it ends or as it does.
TaskGoes(t) ==
  /\ RunSteps(t) \/ (runner[t].pc = "step" /\ UNCHANGED tvars)
  /\ conn' \in {conn, conn \/ runner[t].pc = "step"}
  /\ UNCHANGED <<up, lc, start, startFailed, shut, call, failures, jobs, request>>
  /\ UNCHANGED <<load, overtaken, outlived>>

\* Calls for the tasks.
TaskCalls ==
  /\ \/ \E t \in load.tasks : Create(t, "running")
     \/ \E t \in load.controlled : TaskCall(t)
     \/ \E f \in Flows : CancelFlow(f)
  /\ UNCHANGED <<up, svars, load, overtaken, outlived>>

\* What neither opens nor closes a component.
Works ==
  \/ Start \/ StartCancelled \/ Ready
  \/ Drain \/ CancelJobs \/ \E ok \in BOOLEAN : CloseDatabases(ok)
  \/ \E c \in Waiters : Shutdown(c) \/ Returns(c) \/ CallerCancelled(c)
  \/ Tick \/ Request \/ \E j \in Jobs : JobEnds(j)
  \/ TaskCalls \/ Rest

Next ==
  \/ Works \/ StartNext \/ StartFails \/ \E ok \in BOOLEAN : Close(ok)
  \/ \E t \in load.tasks : TaskGoes(t)

Spec == Init /\ [][Next]_vars

-----------------------------------------------------------------------------
(* Properties *)

\* A job the scheduler has spawned finds the components it works with open to its
\* end, however start, shutdown and failing components come in between.  A call of
\* shutdown that returns has waited for the end, and the end is clean: no job, and
\* unless a component failed or start was overtaken, nothing is open, no tick and
\* no connection but what an accepted request or a step of a task has opened again;
\* and a failure, of start too, is not reported as stopped.
ShutdownOrderly ==
  /\ \A j \in Jobs : jobs[j] # "idle" => {"bus", "stores", "workflow", "scheduler"} \subseteq up
  /\ \A c \in Waiters : call[c] = "returned" => lc \in Final
  /\ lc \in Final =>
       /\ \A j \in Jobs : jobs[j] = "idle"
       /\ ~overtaken => /\ (lc = "stopped" => ~startFailed /\ up = {})
                        /\ (up # {} => failures)
                        /\ (conn => outlived \/ failures)
=============================================================================
