------------------------- MODULE SystemLifecycleProofs -------------------------
(***************************************************************************)
(* What holds of tasks, start and shutdown in every state.  The tasks and   *)
(* the components are two invariants: TasksInv follows each coroutine of    *)
(* run through its awaits; LifecycleInv follows the shutdown task through   *)
(* CloseOrder, with start going on beside it.                               *)
(***************************************************************************)
EXTENDS SystemEntry, Integers, TLAPS

RunnerFields == {"pc", "i", "att", "flow", "step", "bad", "again"}
TaskFields == {"st", "kept", "flag"}

\* How far run has come in the plan of a task, and what the counters say of it.
Progress(t) ==
  LET r == runner[t]
      n == Len(taken[t])
  IN  /\ n <= Len(Plan[t]) /\ \A k \in 1..n : taken[t][k] = <<k, 0>>
      /\ r.i \in Nat \ {0} /\ r.i - 1 <= n
      /\ tries[t] \in [DOMAIN Plan[t] -> Nat]
      /\ \A k \in DOMAIN Plan[t] : /\ tries[t][k] <= Retries[t] + 1
                                   /\ k > r.i => tries[t][k] = 0
      /\ r.pc \in {"idle", "started", "announced"} =>
           n = 0 /\ r.i = 1 /\ \A k \in DOMAIN Plan[t] : tries[t][k] = 0
      /\ r.pc \in InFlow \cup {"retrying"} =>
           r.i = n + 1 /\ r.i \in DOMAIN Plan[t] /\ r.att = tries[t][r.i]
      /\ r.pc = "retrying" => r.att <= Retries[t]
      /\ r.pc = "done" => r.bad = 0

\* What the status of a task and of its delegation says of its progress.
Told(t) ==
  LET n == Len(taken[t])
  IN  /\ task[t].st \in {"failed", "timeout", "retrying"} =>
           /\ runner[t].pc \in Over
           /\ ~Planless(t) => n < Len(Plan[t]) /\ tries[t][n + 1] = Retries[t] + 1
      /\ (task[t].st = "completed" \/ delegated[t] = "completed") => n = Len(Plan[t])

\* A task that was cancelled or destroyed cannot get to its next workflow.
Stopping(t) ==
  /\ left[t] \in Nat
  /\ task[t].st = "absent" => ~task[t].kept /\ left[t] = 0
  /\ left[t] # 0 => runner[t].i <= left[t] /\ (task[t].flag \/ ~task[t].kept)

TaskShape(t) ==
  /\ DOMAIN task[t] = TaskFields /\ DOMAIN runner[t] = RunnerFields
  /\ task[t].kept \in BOOLEAN /\ task[t].flag \in BOOLEAN
  /\ runner[t].pc \in {"idle"} \cup Awaiting \cup Over
  /\ taken[t] \in Seq(Nat \X Nat)

TaskInv(t) == TaskShape(t) /\ Progress(t) /\ Told(t) /\ Stopping(t)

TaskTables ==
  /\ DOMAIN task = Tasks /\ DOMAIN runner = Tasks /\ DOMAIN delegated = Tasks
  /\ DOMAIN tries = Tasks /\ DOMAIN taken = Tasks /\ DOMAIN left = Tasks

TasksInv == TaskTables /\ \A t \in Tasks : TaskInv(t)

-----------------------------------------------------------------------------
Base == {"bus", "stores", "workflow", "scheduler"}
NoJob == \A j \in Jobs : jobs[j] = "idle"

LifecycleTypes ==
  /\ up \subseteq Components /\ lc \in Lifecycle
  /\ start \in 0..Len(StartOrder) + 1 /\ shut \in 0..Cut
  /\ call \in [Waiters -> {"idle", "waiting", "returned", "cancelled"}]
  /\ jobs \in [Jobs -> {"idle", "running", "cancelled"}]
  /\ startFailed \in BOOLEAN /\ failures \in BOOLEAN /\ request \in BOOLEAN
  /\ conn \in BOOLEAN /\ overtaken \in BOOLEAN /\ outlived \in BOOLEAN

\* The state the system is in, by where the shutdown task is.
PhaseInv ==
  /\ lc = "created" => shut = 0 /\ start = 0
  /\ shut = 1 => lc \in {"starting", "ready"}
  /\ shut \in 2..Len(CloseOrder) => lc = "draining"
  /\ shut = Ended => lc \in Final
  /\ lc \in Final => shut \in {0, Ended}
  /\ lc = "draining" => shut \notin {0, 1}

\* Nothing the jobs work with is closed before they are gathered.
JobsInv ==
  /\ lc = "ready" => Base \subseteq up
  /\ lc = "starting" => \A n \in DOMAIN StartOrder : n < start => StartOrder[n] \in up
  /\ (\E j \in Jobs : jobs[j] # "idle") => Base \subseteq up
  /\ lc \in {"created", "starting"} \cup Final => NoJob
  /\ shut \in 4..Ended => NoJob

\* Before start, and after a shutdown that had nothing to do.
UntouchedInv ==
  (lc = "created" \/ (lc \in Final /\ shut = 0)) =>
    /\ up = {} /\ ~conn /\ ~startFailed /\ ~request /\ start = 0

\* What is still open has its turn to come, or has failed to close.
ClosedInv ==
  /\ shut \in 2..Ended /\ ~overtaken =>
       /\ start = 0
       /\ failures \/ \A c \in up : \E k \in shut..Len(CloseOrder) : CloseOrder[k] = c
  /\ shut = Ended /\ ~overtaken =>
       /\ lc = "stopped" => ~startFailed /\ ~failures
       /\ conn => outlived \/ failures
  /\ shut = Ended /\ request => outlived
  /\ lc = "starting" => ~request
  /\ \A c \in Waiters : call[c] = "returned" => lc \in Final

\* A step of a task is under way only where the bus was open, and outlives the
\* databases only if that is noted.
NoStep == \A t \in Tasks : runner[t].pc # "step"
OutlivedInv ==
  /\ lc = "created" \/ (lc \in Final /\ shut = 0) => NoStep
  /\ shut = Ended /\ ~overtaken => NoStep \/ outlived \/ failures

LifecycleInv ==
  LifecycleTypes /\ PhaseInv /\ JobsInv /\ UntouchedInv /\ ClosedInv
-----------------------------------------------------------------------------
(* One await of run *)

\* No other task is touched.
Alone(t) ==
  /\ DOMAIN task' = Tasks /\ DOMAIN runner' = Tasks /\ DOMAIN delegated' = Tasks
  /\ \A u \in Tasks : u # t => /\ task'[u] = task[u] /\ runner'[u] = runner[u]
                               /\ delegated'[u] = delegated[u]

\* The task keeps its registration and its flag, run its place in the plan r.
Placed(t, r) ==
  /\ DOMAIN task'[t] = TaskFields
  /\ task'[t].kept = task[t].kept /\ task'[t].flag = task[t].flag
  /\ DOMAIN runner'[t] = RunnerFields
  /\ runner'[t].i = r.i /\ runner'[t].att = r.att /\ runner'[t].bad = r.bad

\* A delegation is completed only with its task.
DelegationFollows(t) ==
  delegated'[t] = "completed" => delegated[t] = "completed" \/ task'[t].st = "completed"

LEMMA GoesTo ==
  ASSUME TaskTables, NEW t \in Tasks, NEW r, Goes(t, r),
         DOMAIN task' = Tasks, \A u \in Tasks : u # t => task'[u] = task[u]
  PROVE  Alone(t) /\ runner'[t] = r /\ DelegationFollows(t)
<1>1. /\ runner' = [runner EXCEPT ![t] = r]
      /\ delegated' = [delegated EXCEPT ![t] = Reported(t, r)]
  BY DEF Goes
<1>2. Reported(t, r) = "completed" => delegated[t] = "completed" \/ task'[t].st = "completed"
  BY DEF Reported
<1> QED
  BY <1>1, <1>2 DEF TaskTables, Alone, DelegationFollows

LEMMA PublishesTo ==
  ASSUME TaskTables, NEW t \in Tasks, NEW r, NEW pc, DOMAIN r = RunnerFields,
         Publishes(t, r, pc) \/ Raises(t, r), DOMAIN task[t] = TaskFields,
         DOMAIN task' = Tasks, \A u \in Tasks : u # t => task'[u] = task[u],
         DOMAIN task'[t] = TaskFields,
         task'[t].kept = task[t].kept, task'[t].flag = task[t].flag
  PROVE  /\ Alone(t) /\ Placed(t, r) /\ DelegationFollows(t)
         /\ runner'[t].pc \in {pc, "raised"} /\ (Raises(t, r) => runner'[t].pc = "raised")
<1>1. ASSUME NEW to, Goes(t, [r EXCEPT !.pc = to])
      PROVE  Alone(t) /\ Placed(t, r) /\ DelegationFollows(t) /\ runner'[t].pc = to
  <2> DEFINE next == [r EXCEPT !.pc = to]
  <2>1. /\ DOMAIN next = RunnerFields /\ next.pc = to /\ next.i = r.i /\ next.att = r.att
        /\ next.bad = r.bad
    BY DEF RunnerFields
  <2>2. Alone(t) /\ runner'[t] = next /\ DelegationFollows(t)
    BY <1>1, GoesTo
  <2> HIDE DEF next
  <2> QED
    BY <2>1, <2>2 DEF Placed
<1> QED
  BY <1>1 DEF Publishes, Raises

LEMMA MovesTo ==
  ASSUME TaskTables, NEW t \in Tasks, NEW st, NEW r, NEW pc, DOMAIN r = RunnerFields,
         DOMAIN task[t] = TaskFields, Moves(t, st, r, pc)
  PROVE  /\ Alone(t) /\ Placed(t, r) /\ DelegationFollows(t)
         /\ runner'[t].pc \in {pc, "raised"}
         /\ \/ task'[t].st = task[t].st /\ runner'[t].pc = "raised"
            \/ task'[t].st = st /\ May(t, st)
<1>1. CASE ~May(t, st)
  <2>1. task' = task /\ Raises(t, r)
    BY <1>1 DEF Moves
  <2> QED
    BY <2>1, PublishesTo DEF TaskTables
<1>2. CASE May(t, st)
  <2>1. task' = [task EXCEPT ![t].st = st]
    BY <1>2 DEF Moves
  <2>2. Publishes(t, r, pc) \/ Raises(t, r)
    BY <1>2 DEF Moves
  <2>3. /\ DOMAIN task' = Tasks /\ \A u \in Tasks : u # t => task'[u] = task[u]
        /\ task'[t] = [task[t] EXCEPT !.st = st]
    BY <2>1 DEF TaskTables
  <2>4. /\ DOMAIN task'[t] = TaskFields /\ task'[t].st = st
        /\ task'[t].kept = task[t].kept /\ task'[t].flag = task[t].flag
    BY <2>3 DEF TaskFields
  <2>5. /\ Alone(t) /\ Placed(t, r) /\ DelegationFollows(t)
        /\ runner'[t].pc \in {pc, "raised"}
    BY <2>2, <2>3, <2>4, PublishesTo
  <2> QED
    BY <1>2, <2>4, <2>5
<1> QED
  BY <1>1, <1>2

\* An attempt that raises is the last one, or there is one more to come.
LEMMA FlowRaisesTo ==
  ASSUME TaskTables, NEW t \in Tasks, NEW r, NEW outcome, DOMAIN r = RunnerFields,
         DOMAIN task[t] = TaskFields, FlowRaises(t, r, outcome)
  PROVE  /\ Alone(t) /\ Placed(t, r) /\ DelegationFollows(t)
         /\ \/ /\ r.att > Retries[t] /\ runner'[t].pc \in {"ended", "raised"}
               /\ task'[t].st \in {task[t].st, outcome}
            \/ /\ ~(r.att > Retries[t]) /\ runner'[t].pc \in {"retrying", "raised"}
               /\ task'[t].st = task[t].st
<1>1. CASE r.att > Retries[t]
  <2>1. Moves(t, outcome, r, "ended")
    BY <1>1 DEF FlowRaises
  <2> QED
    BY <1>1, <2>1, MovesTo
<1>2. CASE ~(r.att > Retries[t])
  <2>1. task' = task /\ Publishes(t, r, "retrying")
    BY <1>2 DEF FlowRaises
  <2> QED
    BY <1>2, <2>1, PublishesTo DEF TaskTables
<1> QED
  BY <1>1, <1>2

-----------------------------------------------------------------------------
(* One task at a time *)

LEMMA SameTask ==
  ASSUME NEW t, TaskInv(t), task'[t] = task[t], runner'[t] = runner[t],
         delegated'[t] = delegated[t], tries'[t] = tries[t], taken'[t] = taken[t],
         left'[t] = left[t]
  PROVE  TaskInv(t)'
  BY DEF TaskInv, TaskShape, Progress, Told, Planless, Stopping

LEMMA OneTask ==
  ASSUME TasksInv, NEW t \in Tasks, Alone(t), TaskInv(t)',
         DOMAIN tries' = Tasks, DOMAIN taken' = Tasks, DOMAIN left' = Tasks,
         \A u \in Tasks : u # t => /\ tries'[u] = tries[u] /\ taken'[u] = taken[u]
                                   /\ left'[u] = left[u]
  PROVE  TasksInv'
<1>1. TaskTables'
  BY DEF TaskTables, Alone
<1>2. ASSUME NEW u \in Tasks, u # t PROVE TaskInv(u)'
  BY <1>2, SameTask DEF TasksInv, Alone
<1>3. \A u \in Tasks : TaskInv(u)'
  BY <1>2
<1> QED
  BY <1>1, <1>3 DEF TasksInv

\* A task whose run has more to do is neither completed nor failed.
LEMMA LiveTask ==
  ASSUME NEW t \in Tasks, TaskInv(t), runner[t].pc \in InFlow \cup {"retrying"}
  PROVE  /\ task[t].st \notin {"failed", "timeout", "retrying", "completed"}
         /\ delegated[t] # "completed"
         /\ Len(taken[t]) < Len(Plan[t])
         /\ runner[t].i = Len(taken[t]) + 1 /\ runner[t].i \in 1..Len(Plan[t])
         /\ runner[t].att = tries[t][runner[t].i]
<1>1. /\ Len(taken[t]) \in Nat /\ Len(Plan[t]) \in Nat /\ DOMAIN Plan[t] = 1..Len(Plan[t])
  BY TaskAssumption DEF TaskInv, TaskShape
<1>2. runner[t].pc \notin Over
  BY DEF InFlow, Over
<1> QED
  BY <1>1, <1>2 DEF TaskInv, Progress, Told

LEMMA FlowRaisesKeeps ==
  ASSUME TasksInv, NEW t \in Tasks, runner[t].pc \in InFlow,
         NEW outcome \in {"failed", "timeout"}, FlowRaises(t, runner[t], outcome),
         UNCHANGED <<tries, taken, left>>
  PROVE  TasksInv'
<1> DEFINE r == runner[t]
           s == runner'[t]
           n == Len(taken[t])
<1>1. TaskTables /\ TaskInv(t) /\ DOMAIN r = RunnerFields /\ DOMAIN task[t] = TaskFields
  BY DEF TasksInv, TaskInv, TaskShape
<1>2. /\ Alone(t) /\ Placed(t, r) /\ DelegationFollows(t)
      /\ \/ /\ r.att > Retries[t] /\ s.pc \in {"ended", "raised"}
            /\ task'[t].st \in {task[t].st, outcome}
         \/ /\ ~(r.att > Retries[t]) /\ s.pc \in {"retrying", "raised"}
            /\ task'[t].st = task[t].st
  BY <1>1, FlowRaisesTo
<1>3. /\ task[t].st \notin {"failed", "timeout", "retrying", "completed"}
      /\ delegated[t] # "completed" /\ n < Len(Plan[t]) /\ r.i = n + 1
      /\ r.i \in 1..Len(Plan[t]) /\ r.att = tries[t][r.i]
  BY <1>1, LiveTask
<1>4. /\ n \in Nat /\ Len(Plan[t]) \in Nat /\ DOMAIN Plan[t] = 1..Len(Plan[t])
      /\ Retries[t] \in Nat
  BY <1>1, TaskAssumption DEF TaskInv, TaskShape
<1>5. r.att \in Nat /\ r.att <= Retries[t] + 1
  BY <1>1, <1>3, <1>4 DEF TaskInv, Progress
<1>6. tries'[t] = tries[t] /\ taken'[t] = taken[t] /\ left'[t] = left[t]
  OBVIOUS
<1>7. s.pc \in {"ended", "raised", "retrying"} /\ (s.pc = "retrying" => r.att <= Retries[t])
  BY <1>2, <1>4, <1>5
<1>8. TaskShape(t)'
  BY <1>1, <1>2, <1>6, <1>7 DEF TaskInv, TaskShape, Placed, Awaiting, Over
<1>9. Progress(t)'
  <2>1. /\ s.i = r.i /\ s.att = r.att /\ s.bad = r.bad
    BY <1>2 DEF Placed
  <2>2. /\ s.pc \notin {"idle", "started", "announced", "done"} /\ s.pc \notin InFlow
    BY <1>7 DEF InFlow
  <2> QED
    BY <1>1, <1>3, <1>4, <1>6, <1>7, <2>1, <2>2 DEF TaskInv, Progress
<1>10. Told(t)'
  <2>1. delegated'[t] # "completed" /\ task'[t].st # "completed"
    BY <1>2, <1>3 DEF DelegationFollows
  <2>2. task'[t].st \in {"failed", "timeout", "retrying"} =>
          s.pc \in Over /\ tries[t][n + 1] = Retries[t] + 1
    BY <1>2, <1>3, <1>4, <1>5 DEF Over
  <2> QED
    BY <1>3, <1>6, <2>1, <2>2 DEF Told
<1>11. Stopping(t)'
  <2>1. task'[t].st = "absent" => task[t].st = "absent"
    BY <1>2
  <2> QED
    BY <1>1, <1>2, <1>6, <2>1 DEF TaskInv, Stopping, Placed
<1>12. TaskInv(t)'
  BY <1>8, <1>9, <1>10, <1>11 DEF TaskInv
<1> QED
  BY <1>1, <1>2, <1>12, OneTask DEF TaskTables

\* The next attempt at a workflow begins; taken may have grown by what came before.
LEMMA AttemptKeeps ==
  ASSUME TasksInv, NEW t \in Tasks, NEW i, NEW att, Attempt(t, i, att), left' = left,
         DOMAIN taken' = Tasks, \A u \in Tasks : u # t => taken'[u] = taken[u],
         taken'[t] \in Seq(Nat \X Nat), i = Len(taken'[t]) + 1, i \in 1..Len(Plan[t]),
         \A k \in 1..Len(taken'[t]) : taken'[t][k] = <<k, 0>>,
         att = tries[t][i] + 1, att <= Retries[t] + 1,
         \A k \in DOMAIN Plan[t] : k > i => tries[t][k] = 0,
         task[t].st \notin {"failed", "timeout", "retrying", "completed"},
         delegated[t] # "completed",
         left[t] # 0 => i <= left[t]
  PROVE  TasksInv'
<1> DEFINE r == Runner("created", i, att, "ready")
           s == runner'[t]
           n == Len(taken'[t])
<1>1. TaskTables /\ TaskInv(t) /\ DOMAIN task[t] = TaskFields
  BY DEF TasksInv, TaskInv, TaskShape
<1>2. /\ DOMAIN r = RunnerFields /\ r.pc = "created" /\ r.i = i /\ r.att = att /\ r.bad = 0
  BY DEF Runner, RunnerFields
<1>3. /\ n \in Nat /\ Len(Plan[t]) \in Nat /\ DOMAIN Plan[t] = 1..Len(Plan[t])
      /\ Retries[t] \in Nat /\ tries[t] \in [DOMAIN Plan[t] -> Nat] /\ i \in Nat
  <2>1. Len(Plan[t]) \in Nat /\ DOMAIN Plan[t] = 1..Len(Plan[t]) /\ Retries[t] \in Nat
    BY TaskAssumption
  <2>2. tries[t] \in [DOMAIN Plan[t] -> Nat]
    BY <1>1 DEF TaskInv, Progress
  <2>3. n \in Nat
    OBVIOUS
  <2> QED
    BY <2>1, <2>2, <2>3
<1>4. tries' = [tries EXCEPT ![t][i] = @ + 1]
  BY DEF Attempt
<1>5. /\ DOMAIN tries' = Tasks /\ \A u \in Tasks : u # t => tries'[u] = tries[u]
      /\ tries'[t] = [tries[t] EXCEPT ![i] = tries[t][i] + 1]
  BY <1>1, <1>4 DEF TaskTables
<1>6. /\ tries'[t] \in [DOMAIN Plan[t] -> Nat] /\ tries'[t][i] = att
      /\ \A k \in DOMAIN Plan[t] : k # i => tries'[t][k] = tries[t][k]
  <2> DEFINE D == DOMAIN Plan[t]
             f == tries[t]
  <2> HIDE DEF f
  <2>1. i \in D /\ f \in [D -> Nat] /\ f[i] + 1 \in Nat
    <3>1. i \in D /\ f \in [D -> Nat]
      BY <1>3 DEF f
    <3> HIDE DEF D
    <3>2. f[i] \in Nat
      BY <3>1
    <3> QED
      BY <3>1, <3>2
  <2> USE DEF f
  <2>2. tries'[t] \in [DOMAIN Plan[t] -> Nat]
    BY <1>5, <2>1
  <2>3. tries'[t][i] = att /\ \A k \in DOMAIN Plan[t] : k # i => tries'[t][k] = tries[t][k]
    BY <1>5, <2>1
  <2> QED
    BY <2>2, <2>3
<1> HIDE DEF r
<1>7. /\ Alone(t) /\ Placed(t, r) /\ DelegationFollows(t)
      /\ \/ s.pc = "created" /\ task'[t].st = task[t].st
         \/ /\ r.att > Retries[t] /\ s.pc \in {"ended", "raised"}
            /\ task'[t].st \in {task[t].st, "failed"}
         \/ /\ ~(r.att > Retries[t]) /\ s.pc \in {"retrying", "raised"}
            /\ task'[t].st = task[t].st
  <2>1. CASE BusOpen
    <3>1. task' = task /\ Goes(t, r)
      BY <2>1 DEF Attempt, r
    <3>2. Alone(t) /\ s = r /\ DelegationFollows(t)
      BY <1>1, <3>1, GoesTo DEF TaskTables
    <3> QED
      BY <1>1, <1>2, <3>1, <3>2 DEF Placed
  <2>2. CASE ~BusOpen
    <3>1. FlowRaises(t, r, "failed")
      BY <2>2 DEF Attempt, r
    <3> QED
      BY <1>1, <1>2, <3>1, FlowRaisesTo
  <2> QED
    BY <2>1, <2>2
<1>8. /\ s.i = i /\ s.att = att /\ att \in Nat
      /\ s.pc \in {"created", "ended", "raised", "retrying"}
      /\ s.pc = "retrying" => att <= Retries[t]
  <2>1. att \in Nat
    BY <1>6
  <2>2. /\ s.i = i /\ s.att = att /\ s.pc \in {"created", "ended", "raised", "retrying"}
        /\ s.pc = "retrying" => ~(att > Retries[t])
    BY <1>2, <1>7 DEF Placed
  <2> QED
    BY <1>3, <2>1, <2>2
<1>9. TaskShape(t)'
  BY <1>1, <1>7, <1>8 DEF TaskInv, TaskShape, Placed, Awaiting, InFlow, Over
<1>10. Progress(t)'
  <2>1. s.pc \notin {"idle", "started", "announced", "done"}
    BY <1>8
  <2>2. \A k \in DOMAIN Plan[t] : /\ tries'[t][k] <= Retries[t] + 1
                                  /\ k > s.i => tries'[t][k] = 0
    <3>1. \A k \in DOMAIN Plan[t] : tries[t][k] <= Retries[t] + 1
      BY <1>1 DEF TaskInv, Progress
    <3> TAKE k \in DOMAIN Plan[t]
    <3>2. k \in Nat
      BY <1>3
    <3>3. CASE k = i
      BY <1>3, <1>6, <1>8, <3>3
    <3>4. CASE k # i
      BY <1>6, <1>8, <3>1, <3>4
    <3> QED
      BY <3>3, <3>4
  <2>3. n <= Len(Plan[t]) /\ s.i = n + 1 /\ s.i \in DOMAIN Plan[t] /\ s.i \in Nat \ {0}
    BY <1>3, <1>8
  <2> QED
    BY <1>3, <1>6, <1>8, <2>1, <2>2, <2>3 DEF Progress
<1>11. Told(t)'
  <2>1. delegated'[t] # "completed" /\ task'[t].st # "completed"
    BY <1>7 DEF DelegationFollows
  <2>2. task'[t].st \in {"failed", "timeout", "retrying"} =>
          s.pc \in Over /\ tries'[t][n + 1] = Retries[t] + 1
    BY <1>2, <1>3, <1>6, <1>7, <1>8, SMTT(30) DEF Over
  <2>3. n < Len(Plan[t])
    BY <1>3
  <2> QED
    BY <2>1, <2>2, <2>3 DEF Told
<1>12. Stopping(t)'
  <2>1. task'[t].st = "absent" => task[t].st = "absent"
    BY <1>7
  <2> QED
    BY <1>1, <1>7, <1>8, <2>1 DEF TaskInv, Stopping, Placed
<1>13. TaskInv(t)'
  BY <1>9, <1>10, <1>11, <1>12 DEF TaskInv
<1> QED
  BY <1>1, <1>5, <1>7, <1>13, OneTask DEF TaskTables

\* Run ends, or does not get on; what it has taken by then is all there is.
LEMMA EndKeeps ==
  ASSUME TasksInv, NEW t \in Tasks, NEW st \in {"completed", "cancelled", "failed"},
         Alone(t), Placed(t, runner[t]), DelegationFollows(t),
         runner'[t].pc \in Over, task'[t].st \in {task[t].st, st},
         task[t].st \notin {"failed", "timeout", "retrying"},
         st = "failed" => Planless(t),
         UNCHANGED <<tries, left>>, DOMAIN taken' = Tasks,
         \A u \in Tasks : u # t => taken'[u] = taken[u],
         taken'[t] \in Seq(Nat \X Nat), Len(taken'[t]) <= Len(Plan[t]),
         runner[t].i - 1 <= Len(taken'[t]),
         \A k \in 1..Len(taken'[t]) : taken'[t][k] = <<k, 0>>,
         (task'[t].st = "completed" \/ delegated[t] = "completed") =>
           Len(taken'[t]) = Len(Plan[t])
  PROVE  TasksInv'
<1> DEFINE r == runner[t]
           s == runner'[t]
<1>1. TaskTables /\ TaskInv(t) /\ tries'[t] = tries[t] /\ left'[t] = left[t]
  BY DEF TasksInv
<1>2. s.i = r.i /\ s.pc \in {"ended", "raised", "dropped"}
  BY DEF Placed, Over
<1>3. TaskShape(t)'
  BY <1>1, <1>2 DEF TaskInv, TaskShape, Placed, Over
<1>4. Progress(t)'
  <2>1. s.pc \notin InFlow \cup {"retrying", "idle", "started", "announced", "done"}
    BY <1>2 DEF InFlow
  <2> QED
    BY <1>1, <1>2, <2>1 DEF TaskInv, Progress
<1>5. Told(t)'
  BY <1>1 DEF Told, DelegationFollows, Placed, Planless
<1>6. Stopping(t)'
  BY <1>1, <1>2 DEF TaskInv, Stopping, Placed
<1>7. TaskInv(t)'
  BY <1>3, <1>4, <1>5, <1>6 DEF TaskInv
<1> QED
  BY <1>1, <1>7, OneTask DEF TaskTables

\* What comes before the first workflow.
LEMMA StartKeeps ==
  ASSUME TasksInv, NEW t \in Tasks, runner[t].pc \in {"idle", "started"},
         NEW st \in {"ready", "running"}, NEW pc \in {"started", "announced"},
         Moves(t, st, runner[t], pc), UNCHANGED <<tries, taken, left>>
  PROVE  TasksInv'
<1> DEFINE r == runner[t]
           s == runner'[t]
<1>1. /\ TaskTables /\ TaskInv(t) /\ DOMAIN r = RunnerFields /\ DOMAIN task[t] = TaskFields
      /\ tries'[t] = tries[t] /\ taken'[t] = taken[t] /\ left'[t] = left[t]
  BY DEF TasksInv, TaskInv, TaskShape
<1>2. /\ Alone(t) /\ Placed(t, r) /\ DelegationFollows(t)
      /\ s.pc \in {pc, "raised"} /\ task'[t].st \in {task[t].st, st}
  BY <1>1, MovesTo
<1>3. s.i = r.i /\ s.pc \in {"started", "announced", "raised"}
  BY <1>2 DEF Placed
<1>4. TaskShape(t)'
  BY <1>1, <1>2, <1>3 DEF TaskInv, TaskShape, Placed, Over, Awaiting
<1>5. Progress(t)'
  <2>1. s.pc \notin InFlow \cup {"retrying", "done"}
    BY <1>3 DEF InFlow
  <2> QED
    BY <1>1, <1>3, <2>1 DEF TaskInv, Progress
<1>6. Told(t)'
  <2>1. task[t].st \notin {"failed", "timeout", "retrying"}
    BY <1>1 DEF TaskInv, Told, Over
  <2>2. task'[t].st \notin {"failed", "timeout", "retrying"}
    BY <1>2, <2>1
  <2>3. (task'[t].st = "completed" \/ delegated'[t] = "completed") =>
          (task[t].st = "completed" \/ delegated[t] = "completed")
    BY <1>2 DEF DelegationFollows
  <2> QED
    BY <1>1, <2>2, <2>3 DEF TaskInv, Told
<1>7. Stopping(t)'
  BY <1>1, <1>2, <1>3 DEF TaskInv, Stopping, Placed
<1>8. TaskInv(t)'
  BY <1>4, <1>5, <1>6, <1>7 DEF TaskInv
<1> QED
  BY <1>1, <1>2, <1>8, OneTask DEF TaskTables

\* From one await to the next within the workflow.
LEMMA InFlowKeeps ==
  ASSUME TasksInv, NEW t \in Tasks, runner[t].pc \in InFlow, NEW r, Goes(t, r),
         DOMAIN r = RunnerFields, r.pc \in InFlow, r.i = runner[t].i,
         r.att = runner[t].att, r.pc = "done" => r.bad = 0,
         UNCHANGED <<task, tries, taken, left>>
  PROVE  TasksInv'
<1>1. TaskTables /\ TaskInv(t)
  BY DEF TasksInv
<1>2. Alone(t) /\ runner'[t] = r /\ DelegationFollows(t)
  BY <1>1, GoesTo DEF TaskTables
<1>3. TaskShape(t)'
  BY <1>1, <1>2 DEF TaskInv, TaskShape, Awaiting
<1>4. Progress(t)'
  <2>1. r.pc \notin {"idle", "started", "announced", "retrying"}
    BY DEF InFlow
  <2> QED
    BY <1>1, <1>2, <2>1 DEF TaskInv, Progress
<1>5. Told(t)'
  <2>1. /\ task[t].st \notin {"failed", "timeout", "retrying", "completed"}
        /\ delegated[t] # "completed"
    BY <1>1, LiveTask
  <2> QED
    BY <1>2, <2>1 DEF Told, DelegationFollows
<1>6. Stopping(t)'
  BY <1>1, <1>2 DEF TaskInv, Stopping
<1>7. TaskInv(t)'
  BY <1>3, <1>4, <1>5, <1>6 DEF TaskInv
<1> QED
  BY <1>1, <1>2, <1>7, OneTask DEF TaskTables

LEMMA AnnouncedKeeps ==
  ASSUME TasksInv, NEW t \in Tasks, Announced(t)
  PROVE  TasksInv'
<1> DEFINE r == runner[t]
           n == Len(taken[t])
<1>1. /\ TaskTables /\ TaskInv(t) /\ DOMAIN r = RunnerFields /\ DOMAIN task[t] = TaskFields
      /\ r.pc = "announced" /\ taken' = taken /\ left' = left
  BY DEF TasksInv, TaskInv, TaskShape, Announced
<1>2. /\ n = 0 /\ r.i = 1 /\ (\A k \in DOMAIN Plan[t] : tries[t][k] = 0)
      /\ taken[t] \in Seq(Nat \X Nat) /\ n <= Len(Plan[t])
      /\ \A k \in 1..n : taken[t][k] = <<k, 0>>
  BY <1>1 DEF TaskInv, TaskShape, Progress
<1>3. /\ Len(Plan[t]) \in Nat /\ DOMAIN Plan[t] = 1..Len(Plan[t]) /\ Retries[t] \in Nat
      /\ (Plan[t] = <<>> <=> Len(Plan[t]) = 0)
  BY TaskAssumption
<1>4. task[t].st \notin {"failed", "timeout", "retrying"}
  BY <1>1 DEF TaskInv, Told, Over
<1>5. (task[t].st = "completed" \/ delegated[t] = "completed") => n = Len(Plan[t])
  BY <1>1 DEF TaskInv, Told
<1>6. ASSUME NEW st \in {"cancelled", "failed"}, Moves(t, st, r, "ended"),
             st = "failed" => Planless(t), tries' = tries
      PROVE  TasksInv'
  <2>1. /\ Alone(t) /\ Placed(t, r) /\ DelegationFollows(t)
        /\ runner'[t].pc \in Over /\ task'[t].st \in {task[t].st, st}
    BY <1>1, <1>6, MovesTo DEF Over
  <2>2. task'[t].st = "completed" => task[t].st = "completed"
    BY <2>1
  <2>3. r.i - 1 <= n
    BY <1>2
  <2> QED
    BY <1>1, <1>2, <1>4, <1>5, <1>6, <2>1, <2>2, <2>3, EndKeeps DEF TaskTables
<1>7. CASE Plan[t] = <<>> \/ ~task[t].kept
  BY <1>2, <1>6, <1>7 DEF Announced, Planless
<1>8. CASE Plan[t] # <<>> /\ task[t].kept /\ task[t].flag
  <2>1. Proceeds(t, r, 1) /\ 1 <= Len(Plan[t])
    BY <1>3, <1>8 DEF Announced
  <2>2. Moves(t, "cancelled", r, "ended") /\ tries' = tries
    BY <1>3, <1>8, <2>1 DEF Proceeds
  <2> QED
    BY <1>6, <2>2
<1>9. CASE Plan[t] # <<>> /\ task[t].kept /\ ~task[t].flag
  <2>1. Proceeds(t, r, 1) /\ 1 <= Len(Plan[t])
    BY <1>3, <1>9 DEF Announced
  <2>2. Attempt(t, 1, 1)
    BY <1>3, <1>9, <2>1 DEF Proceeds
  <2>3. /\ 1 = Len(taken'[t]) + 1 /\ 1 \in 1..Len(Plan[t])
        /\ 1 = tries[t][1] + 1 /\ 1 <= Retries[t] + 1
    BY <1>1, <1>2, <1>3, <2>1
  <2>4. \A k \in DOMAIN Plan[t] : k > 1 => tries[t][k] = 0
    BY <1>2
  <2>5. /\ task[t].st \notin {"failed", "timeout", "retrying", "completed"}
        /\ delegated[t] # "completed"
    BY <1>2, <1>3, <1>4, <1>5, <2>1
  <2>6. left[t] # 0 => 1 <= left[t]
    BY <1>1 DEF TaskInv, Stopping
  <2>7. /\ DOMAIN taken' = Tasks /\ (\A u \in Tasks : u # t => taken'[u] = taken[u])
        /\ taken'[t] \in Seq(Nat \X Nat) /\ \A k \in 1..Len(taken'[t]) : taken'[t][k] = <<k, 0>>
    BY <1>1, <1>2 DEF TaskTables
  <2> QED
    BY <1>1, <2>2, <2>3, <2>4, <2>5, <2>6, <2>7, AttemptKeeps
<1> QED
  BY <1>7, <1>8, <1>9

\* The result of a workflow is taken only when none of its steps has failed.
LEMMA FlowDoneKeeps ==
  ASSUME TasksInv, NEW t \in Tasks, FlowDone(t)
  PROVE  TasksInv'
<1> DEFINE r == runner[t]
           n == Len(taken[t])
           next == taken'[t]
<1>1. /\ TaskTables /\ TaskInv(t) /\ DOMAIN r = RunnerFields /\ DOMAIN task[t] = TaskFields
      /\ r.pc = "done" /\ left' = left
      /\ taken' = [taken EXCEPT ![t] = Append(taken[t], <<r.i, r.bad>>)]
  BY DEF TasksInv, TaskInv, TaskShape, FlowDone
<1>2. /\ task[t].st \notin {"failed", "timeout", "retrying", "completed"}
      /\ delegated[t] # "completed" /\ n < Len(Plan[t]) /\ r.i = n + 1 /\ r.bad = 0
  BY <1>1, LiveTask DEF InFlow, TaskInv, Progress
<1>3. /\ Len(Plan[t]) \in Nat /\ DOMAIN Plan[t] = 1..Len(Plan[t]) /\ Retries[t] \in Nat
  BY TaskAssumption
<1>4. /\ taken[t] \in Seq(Nat \X Nat) /\ n \in Nat
      /\ \A k \in 1..n : taken[t][k] = <<k, 0>>
  BY <1>1, SMTT(30) DEF TaskInv, TaskShape, Progress
<1>5. /\ DOMAIN taken' = Tasks /\ (\A u \in Tasks : u # t => taken'[u] = taken[u])
      /\ next = Append(taken[t], <<n + 1, 0>>)
  BY <1>1, <1>2 DEF TaskTables
<1>6. <<n + 1, 0>> \in Nat \X Nat
  BY <1>4
<1>7. next \in Seq(Nat \X Nat) /\ Len(next) = n + 1
  BY <1>4, <1>5, <1>6
<1>8. \A k \in 1..Len(next) : next[k] = <<k, 0>>
  BY <1>4, <1>5, <1>6, <1>7
<1>9. Len(next) <= Len(Plan[t]) /\ r.i - 1 <= Len(next)
  BY <1>2, <1>3, <1>4, <1>7
<1>10. ASSUME NEW st \in {"completed", "cancelled"}, Alone(t), Placed(t, r),
              DelegationFollows(t), runner'[t].pc \in Over,
              task'[t].st \in {task[t].st, st}, st = "completed" => Len(next) = Len(Plan[t]),
              tries' = tries
       PROVE  TasksInv'
  <2>1. (task'[t].st = "completed" \/ delegated[t] = "completed") => Len(next) = Len(Plan[t])
    BY <1>2, <1>10
  <2> HIDE DEF next
  <2> QED
    BY <1>1, <1>2, <1>5, <1>7, <1>8, <1>9, <1>10, <2>1, EndKeeps DEF next
<1>11. CASE ~task[t].kept
  <2>1. task' = task /\ tries' = tries /\ Raises(t, r)
    BY <1>11 DEF FlowDone
  <2>2. /\ Alone(t) /\ Placed(t, r) /\ DelegationFollows(t) /\ runner'[t].pc = "raised"
    BY <1>1, <2>1, PublishesTo DEF TaskTables
  <2> QED
    BY <1>10, <2>1, <2>2 DEF Over
<1>12. CASE task[t].kept
  <2>1. Proceeds(t, r, r.i + 1)
    BY <1>12 DEF FlowDone
  <2>2. ASSUME NEW st \in {"completed", "cancelled"}, Moves(t, st, r, "ended"), tries' = tries,
               st = "completed" => Len(next) = Len(Plan[t])
        PROVE  TasksInv'
    <3>1. /\ Alone(t) /\ Placed(t, r) /\ DelegationFollows(t)
          /\ runner'[t].pc \in Over /\ task'[t].st \in {task[t].st, st}
      BY <1>1, <2>2, MovesTo DEF Over
    <3> QED
      BY <1>10, <2>2, <3>1
  <2>3. CASE r.i + 1 > Len(Plan[t])
    <3>1. Moves(t, "completed", r, "ended") /\ tries' = tries
      BY <1>2, <1>3, <1>4, <2>1, <2>3 DEF Proceeds
    <3>2. Len(next) = Len(Plan[t])
      BY <1>2, <1>3, <1>4, <1>7, <2>3, SMTT(30)
    <3> QED
      BY <2>2, <3>1, <3>2
  <2>4. CASE r.i + 1 <= Len(Plan[t]) /\ task[t].flag
    <3>1. Moves(t, "cancelled", r, "ended") /\ tries' = tries
      BY <1>2, <1>3, <1>4, <2>1, <2>4 DEF Proceeds
    <3> QED
      BY <2>2, <3>1
  <2>5. CASE r.i + 1 <= Len(Plan[t]) /\ ~task[t].flag
    <3> DEFINE i == r.i + 1
    <3>1. Attempt(t, i, 1)
      BY <1>2, <1>3, <1>4, <2>1, <2>5 DEF Proceeds
    <3>2. i = Len(next) + 1 /\ i \in 1..Len(Plan[t]) /\ i > r.i
      BY <1>2, <1>3, <1>4, <1>7, <2>5
    <3>3. tries[t][i] = 0 /\ \A k \in DOMAIN Plan[t] : k > i => tries[t][k] = 0
      BY <1>1, <1>2, <1>3, <1>4, <3>2 DEF TaskInv, Progress
    <3>4. left[t] = 0
      BY <1>1, <1>12, <2>5 DEF TaskInv, Stopping
    <3>5. 1 = tries[t][i] + 1 /\ 1 <= Retries[t] + 1
      BY <1>3, <3>3
    <3>6. /\ DOMAIN taken' = Tasks /\ (\A u \in Tasks : u # t => taken'[u] = taken[u])
          /\ taken'[t] \in Seq(Nat \X Nat) /\ i = Len(taken'[t]) + 1
          /\ \A k \in 1..Len(taken'[t]) : taken'[t][k] = <<k, 0>>
      BY <1>5, <1>7, <1>8, <3>2
    <3>7. left' = left /\ (left[t] # 0 => i <= left[t])
      BY <1>1, <3>4
    <3> HIDE DEF i
    <3> QED
      BY <1>2, <3>1, <3>2, <3>3, <3>5, <3>6, <3>7, AttemptKeeps
  <2>6. r.i + 1 > Len(Plan[t]) \/ r.i + 1 <= Len(Plan[t])
    BY <1>2, <1>3, <1>4
  <2>7. task[t].flag \in BOOLEAN
    BY <1>1 DEF TaskInv, TaskShape
  <2> QED
    BY <2>3, <2>4, <2>5, <2>6, <2>7
<1> QED
  BY <1>11, <1>12

LEMMA RetriedKeeps ==
  ASSUME TasksInv, NEW t \in Tasks, Retried(t)
  PROVE  TasksInv'
<1> DEFINE i == runner[t].i
           att == runner[t].att + 1
<1>1. /\ TaskTables /\ TaskInv(t) /\ runner[t].pc = "retrying"
      /\ Attempt(t, i, att) /\ taken' = taken /\ left' = left
  BY DEF TasksInv, Retried
<1>2. /\ task[t].st \notin {"failed", "timeout", "retrying", "completed"}
      /\ delegated[t] # "completed" /\ i = Len(taken[t]) + 1 /\ i \in 1..Len(Plan[t])
      /\ runner[t].att = tries[t][i]
  BY <1>1, LiveTask
<1>3. /\ DOMAIN Plan[t] = 1..Len(Plan[t]) /\ Retries[t] \in Nat
  BY TaskAssumption
<1>4. att = tries[t][i] + 1 /\ att <= Retries[t] + 1
  <2>1. tries[t][i] \in Nat /\ tries[t][i] <= Retries[t]
    BY <1>1, <1>2, <1>3 DEF TaskInv, Progress
  <2> QED
    BY <1>2, <1>3, <2>1
<1>5. \A k \in DOMAIN Plan[t] : k > i => tries[t][k] = 0
  BY <1>1 DEF TaskInv, Progress
<1>6. left[t] # 0 => i <= left[t]
  BY <1>1 DEF TaskInv, Stopping
<1>7. /\ DOMAIN taken' = Tasks /\ (\A u \in Tasks : u # t => taken'[u] = taken[u])
      /\ taken'[t] \in Seq(Nat \X Nat) /\ i = Len(taken'[t]) + 1
      /\ \A k \in 1..Len(taken'[t]) : taken'[t][k] = <<k, 0>>
  BY <1>1, <1>2 DEF TaskTables, TaskInv, TaskShape, Progress
<1> HIDE DEF i, att
<1> QED
  BY <1>1, <1>2, <1>4, <1>5, <1>6, <1>7, AttemptKeeps

LEMMA RunDroppedKeeps ==
  ASSUME TasksInv, NEW t \in Tasks, RunDropped(t)
  PROVE  TasksInv'
<1> DEFINE r == runner[t]
           next == [r EXCEPT !.pc = "dropped"]
<1>1. /\ TaskTables /\ TaskInv(t) /\ DOMAIN r = RunnerFields /\ r.pc \in Awaiting
      /\ task' = task /\ Goes(t, next) /\ UNCHANGED <<tries, taken, left>>
  BY DEF TasksInv, TaskInv, TaskShape, RunDropped
<1>2. /\ DOMAIN next = RunnerFields /\ next.pc = "dropped" /\ next.i = r.i /\ next.att = r.att
      /\ next.bad = r.bad
  BY <1>1 DEF RunnerFields
<1> HIDE DEF next
<1>3. Alone(t) /\ runner'[t] = next /\ DelegationFollows(t)
  BY <1>1, GoesTo DEF TaskTables
<1>4. Placed(t, r) /\ runner'[t].pc \in Over
  BY <1>1, <1>2, <1>3 DEF Placed, TaskInv, TaskShape, Over
<1>5. task[t].st \notin {"failed", "timeout", "retrying"}
  BY <1>1 DEF TaskInv, Told, Over, Awaiting, InFlow
<1>6. /\ DOMAIN taken' = Tasks /\ (\A u \in Tasks : u # t => taken'[u] = taken[u])
      /\ taken'[t] \in Seq(Nat \X Nat) /\ Len(taken'[t]) <= Len(Plan[t])
      /\ r.i - 1 <= Len(taken'[t]) /\ \A k \in 1..Len(taken'[t]) : taken'[t][k] = <<k, 0>>
  BY <1>1 DEF TaskTables, TaskInv, TaskShape, Progress
<1>7. (task'[t].st = "completed" \/ delegated[t] = "completed") => Len(taken'[t]) = Len(Plan[t])
  BY <1>1 DEF TaskInv, Told
<1> QED
  BY <1>1, <1>3, <1>4, <1>5, <1>6, <1>7, EndKeeps

\* Whatever happens to the workflow that is awaited.
LEMMA FlowKeeps ==
  ASSUME TasksInv, NEW t \in Tasks,
         \/ Planned(t) \/ StepBreaks(t) \/ FlowFailed(t) \/ FlowTimeout(t)
         \/ \E ok \in BOOLEAN : StepEnds(t, ok)
  PROVE  TasksInv'
<1> DEFINE r == runner[t]
<1>1. DOMAIN r = RunnerFields
  BY DEF TasksInv, TaskInv, TaskShape
<1>2. CASE Planned(t)
  <2> DEFINE next == [r EXCEPT !.flow = "running", !.pc = "step"]
  <2>1. /\ r.pc \in InFlow /\ UNCHANGED <<tries, taken, left>>
        /\ \/ task' = task /\ Goes(t, next)
           \/ FlowRaises(t, r, "failed")
    BY <1>2 DEF Planned, InFlow
  <2>2. /\ DOMAIN next = RunnerFields /\ next.pc = "step" /\ next.i = r.i /\ next.att = r.att
    BY <1>1 DEF RunnerFields
  <2> HIDE DEF next
  <2>3. next.pc \in InFlow /\ next.pc # "done"
    BY <2>2 DEF InFlow
  <2> QED
    BY <2>1, <2>2, <2>3, InFlowKeeps, FlowRaisesKeeps
<1>3. CASE StepBreaks(t) \/ FlowFailed(t) \/ FlowTimeout(t)
  <2>1. /\ r.pc \in InFlow /\ UNCHANGED <<tries, taken, left>>
        /\ FlowRaises(t, r, "failed") \/ FlowRaises(t, r, "timeout")
    BY <1>3 DEF StepBreaks, FlowFailed, FlowTimeout, InFlow
  <2> QED
    BY <2>1, FlowRaisesKeeps
<1>4. ASSUME NEW ok \in BOOLEAN, StepEnds(t, ok)
      PROVE  TasksInv'
  <2> DEFINE next == [r EXCEPT !.bad = FailedSteps(r, ok), !.again = FALSE]
             tried == [next EXCEPT !.again = TRUE]
             on == [next EXCEPT !.step = @ + 1]
             fin == Finished(next)
  <2>1. /\ r.pc = "step" /\ UNCHANGED <<tries, taken, left>>
        /\ \/ FlowRaises(t, r, "failed")
           \/ task' = task /\ (Goes(t, tried) \/ Goes(t, on) \/ Goes(t, fin))
    BY <1>4 DEF StepEnds
  <2>2. /\ DOMAIN next = RunnerFields /\ next.pc = r.pc /\ next.i = r.i /\ next.att = r.att
    BY <1>1 DEF RunnerFields
  <2> HIDE DEF next
  <2>3. /\ DOMAIN tried = RunnerFields /\ tried.pc = next.pc /\ tried.i = next.i
        /\ tried.att = next.att
    BY <2>2 DEF RunnerFields
  <2>4. /\ DOMAIN on = RunnerFields /\ on.pc = next.pc /\ on.i = next.i /\ on.att = next.att
    BY <2>2 DEF RunnerFields
  <2>5. /\ DOMAIN fin = RunnerFields /\ fin.pc \in {"done", "failed"} /\ fin.i = next.i
        /\ fin.att = next.att /\ (fin.pc = "done" => fin.bad = 0)
    BY <2>2 DEF RunnerFields, Finished
  <2> HIDE DEF tried, on, fin
  <2>6. ASSUME NEW to, Goes(t, to), task' = task, DOMAIN to = RunnerFields, to.i = r.i,
               to.att = r.att, to.pc \in InFlow, to.pc = "done" => to.bad = 0
        PROVE  TasksInv'
    BY <2>1, <2>6, InFlowKeeps DEF InFlow
  <2>7. r.pc \in InFlow /\ "done" \in InFlow /\ "failed" \in InFlow
    BY <2>1 DEF InFlow
  <2>8. CASE task' = task /\ Goes(t, tried)
    BY <2>1, <2>2, <2>3, <2>6, <2>7, <2>8
  <2>9. CASE task' = task /\ Goes(t, on)
    BY <2>1, <2>2, <2>4, <2>6, <2>7, <2>9
  <2>10. CASE task' = task /\ Goes(t, fin)
    BY <2>2, <2>5, <2>6, <2>7, <2>10
  <2>11. CASE FlowRaises(t, r, "failed")
    BY <2>1, <2>7, <2>11, FlowRaisesKeeps
  <2> QED
    BY <2>1, <2>8, <2>9, <2>10, <2>11
<1> QED
  BY <1>2, <1>3, <1>4

LEMMA RunStepsKeep ==
  ASSUME TasksInv, NEW t \in Tasks, RunSteps(t)
  PROVE  TasksInv'
<1>1. CASE Run(t) \/ Started(t)
  BY <1>1, StartKeeps DEF Run, Started
<1>2. CASE Announced(t)
  BY <1>2, AnnouncedKeeps
<1>3. CASE FlowDone(t)
  BY <1>3, FlowDoneKeeps
<1>4. CASE Retried(t)
  BY <1>4, RetriedKeeps
<1>5. CASE RunDropped(t)
  BY <1>5, RunDroppedKeeps
<1>6. CASE \/ Planned(t) \/ StepBreaks(t) \/ FlowFailed(t) \/ FlowTimeout(t)
           \/ \E ok \in BOOLEAN : StepEnds(t, ok)
  BY <1>6, FlowKeeps
<1> QED
  BY <1>1, <1>2, <1>3, <1>4, <1>5, <1>6 DEF RunSteps, RunMoves

-----------------------------------------------------------------------------
(* The calls of others *)

\* A call moves a task to [st, kept, flag] and leaves its run where it is.
LEMMA CallKeeps ==
  ASSUME TasksInv, NEW t \in Tasks, NEW next, task' = [task EXCEPT ![t] = next],
         DOMAIN next = TaskFields, next.kept \in BOOLEAN, next.flag \in BOOLEAN,
         next.st \in {"failed", "timeout", "retrying"} =>
           task[t].st \in {"failed", "timeout", "retrying"} /\ (next.kept => task[t].kept),
         next.st = "completed" => task[t].st = "completed",
         next.st # "absent",
         UNCHANGED <<runner, tries, taken>>, DOMAIN left' = Tasks, DOMAIN delegated' = Tasks,
         \A u \in Tasks : u # t => left'[u] = left[u] /\ delegated'[u] = delegated[u],
         delegated'[t] = "completed" => delegated[t] = "completed",
         left'[t] \in Nat,
         left'[t] # 0 => runner[t].i <= left'[t] /\ (next.flag \/ ~next.kept)
  PROVE  TasksInv'
<1>1. /\ TaskTables /\ TaskInv(t) /\ runner' = runner /\ tries' = tries /\ taken' = taken
  BY DEF TasksInv
<1>2. Alone(t) /\ task'[t] = next
  BY <1>1 DEF TaskTables, Alone
<1>3. TaskShape(t)'
  BY <1>1, <1>2 DEF TaskInv, TaskShape
<1>4. Progress(t)'
  BY <1>1 DEF TaskInv, Progress
<1>5. Told(t)'
  BY <1>1, <1>2 DEF TaskInv, Told, Planless
<1>6. Stopping(t)'
  BY <1>1, <1>2 DEF Stopping
<1>7. TaskInv(t)'
  BY <1>3, <1>4, <1>5, <1>6 DEF TaskInv
<1> QED
  BY <1>1, <1>2, <1>7, OneTask DEF TaskTables

LEMMA CreateKeeps ==
  ASSUME TasksInv, NEW t \in Tasks, NEW d, Create(t, d)
  PROVE  TasksInv'
<1> DEFINE next == [st |-> "created", kept |-> TRUE, flag |-> FALSE]
<1>1. /\ TaskTables /\ TaskInv(t) /\ task[t].st = "absent" /\ d \in {"none", "running"}
      /\ task' = [task EXCEPT ![t] = next] /\ delegated' = [delegated EXCEPT ![t] = d]
      /\ UNCHANGED <<runner, tries, taken, left>>
  BY DEF TasksInv, Create
<1>2. /\ DOMAIN next = TaskFields /\ next.st = "created"
      /\ next.kept \in BOOLEAN /\ next.flag \in BOOLEAN
  BY DEF TaskFields
<1> HIDE DEF next
<1>3. left'[t] = 0
  BY <1>1 DEF TaskInv, Stopping
<1>4. /\ DOMAIN left' = Tasks /\ DOMAIN delegated' = Tasks
      /\ (\A u \in Tasks : u # t => left'[u] = left[u] /\ delegated'[u] = delegated[u])
      /\ delegated'[t] = "completed" => delegated[t] = "completed"
  BY <1>1 DEF TaskTables
<1>5. /\ next.st \in {"failed", "timeout", "retrying"} =>
           task[t].st \in {"failed", "timeout", "retrying"} /\ (next.kept => task[t].kept)
      /\ next.st = "completed" => task[t].st = "completed"
      /\ next.st # "absent"
  BY <1>2
<1>6. left'[t] \in Nat /\ (left'[t] # 0 => runner[t].i <= left'[t] /\ (next.flag \/ ~next.kept))
  BY <1>3
<1> QED
  BY <1>1, <1>2, <1>4, <1>5, <1>6, CallKeeps

LEMMA ControlKeeps ==
  ASSUME TasksInv, NEW t \in Tasks, NEW st, Call(t, st)
  PROVE  TasksInv'
<1> DEFINE next == [task[t] EXCEPT !.st = st]
<1>1. /\ TaskTables /\ TaskInv(t) /\ DOMAIN task[t] = TaskFields
      /\ task[t].kept \in BOOLEAN /\ task[t].flag \in BOOLEAN
      /\ task' = [task EXCEPT ![t] = next]
      /\ UNCHANGED <<runner, delegated, tries, taken, left>>
      /\ st \in {"paused", "running", "retrying"} /\ (st = "retrying" => May(t, st))
  BY DEF TasksInv, TaskInv, TaskShape, Call
<1>2. /\ DOMAIN next = TaskFields /\ next.st = st /\ next.kept = task[t].kept
      /\ next.flag = task[t].flag
  BY <1>1 DEF TaskFields
<1>3. st = "retrying" => task[t].st \in {"failed", "timeout"}
  BY <1>1 DEF May, TaskMoves
<1>4. /\ left'[t] \in Nat
      /\ left'[t] # 0 => runner[t].i <= left'[t] /\ (task[t].flag \/ ~task[t].kept)
  BY <1>1 DEF TaskInv, Stopping
<1> HIDE DEF next
<1> QED
  BY <1>1, <1>2, <1>3, <1>4, CallKeeps DEF TaskTables

LEMMA StopKeeps ==
  ASSUME TasksInv, NEW t \in Tasks, Cancel(t) \/ Destroy(t)
  PROVE  TasksInv'
<1>1. /\ TaskTables /\ TaskInv(t) /\ DOMAIN task[t] = TaskFields
      /\ task[t].kept \in BOOLEAN /\ task[t].flag \in BOOLEAN
  BY DEF TasksInv, TaskInv, TaskShape
<1>2. /\ At(t) \in Nat \ {0} /\ runner[t].i <= At(t)
      /\ left[t] \in Nat /\ (left[t] # 0 => runner[t].i <= left[t])
  BY <1>1 DEF TaskInv, Progress, Stopping, At
<1>3. CASE Cancel(t)
  <2> DEFINE cancelled == task[t].kept /\ May(t, "cancelled")
             st == IF cancelled THEN "cancelled" ELSE task[t].st
             next == [st |-> st, kept |-> task[t].kept, flag |-> TRUE]
             at == IF cancelled THEN At(t) ELSE left[t]
  <2>1. /\ task[t].st # "absent" /\ task' = [task EXCEPT ![t] = next]
        /\ left' = [left EXCEPT ![t] = at]
        /\ UNCHANGED <<runner, delegated, tries, taken>>
    BY <1>3 DEF Cancel
  <2>2. /\ DOMAIN next = TaskFields /\ next.st = st /\ next.kept = task[t].kept
        /\ next.flag /\ next.flag \in BOOLEAN
    BY <1>1 DEF TaskFields
  <2>3. st \in {"cancelled", task[t].st}
    OBVIOUS
  <2>4. at \in Nat /\ (at # 0 => runner[t].i <= at)
    BY <1>2
  <2> HIDE DEF next, st, at
  <2>5. /\ DOMAIN left' = Tasks /\ left'[t] = at /\ \A u \in Tasks : u # t => left'[u] = left[u]
    BY <1>1, <2>1 DEF TaskTables
  <2>6. /\ next.st \in {"failed", "timeout", "retrying"} =>
             task[t].st \in {"failed", "timeout", "retrying"} /\ (next.kept => task[t].kept)
        /\ next.st = "completed" => task[t].st = "completed"
        /\ next.st # "absent"
    BY <2>1, <2>2, <2>3
  <2>7. left'[t] \in Nat /\ (left'[t] # 0 => runner[t].i <= left'[t] /\ (next.flag \/ ~next.kept))
    BY <2>2, <2>4, <2>5
  <2>8. DOMAIN delegated' = Tasks /\ next.kept \in BOOLEAN /\ delegated' = delegated
    BY <1>1, <2>1, <2>2 DEF TaskTables
  <2> QED
    BY <2>1, <2>2, <2>5, <2>6, <2>7, <2>8, CallKeeps
<1>4. CASE Destroy(t)
  <2> DEFINE next == [task[t] EXCEPT !.kept = FALSE, !.flag = FALSE]
  <2>1. /\ task[t].kept /\ task' = [task EXCEPT ![t] = next]
        /\ left' = [left EXCEPT ![t] = At(t)]
        /\ UNCHANGED <<runner, delegated, tries, taken>>
    BY <1>4 DEF Destroy
  <2>2. /\ DOMAIN next = TaskFields /\ next.st = task[t].st /\ ~next.kept
        /\ next.kept \in BOOLEAN /\ next.flag \in BOOLEAN
    BY <1>1 DEF TaskFields
  <2> HIDE DEF next
  <2>3. task[t].st # "absent"
    BY <1>1, <2>1 DEF TaskInv, Stopping
  <2>4. /\ DOMAIN left' = Tasks /\ left'[t] = At(t)
        /\ \A u \in Tasks : u # t => left'[u] = left[u]
    BY <1>1, <2>1 DEF TaskTables
  <2>5. /\ next.st \in {"failed", "timeout", "retrying"} =>
             task[t].st \in {"failed", "timeout", "retrying"} /\ (next.kept => task[t].kept)
        /\ next.st = "completed" => task[t].st = "completed"
        /\ next.st # "absent"
    BY <2>2, <2>3
  <2>6. left'[t] \in Nat /\ (left'[t] # 0 => runner[t].i <= left'[t] /\ (next.flag \/ ~next.kept))
    BY <1>2, <2>2, <2>4
  <2>7. DOMAIN delegated' = Tasks /\ delegated' = delegated
    BY <1>1, <2>1 DEF TaskTables
  <2> QED
    BY <2>1, <2>2, <2>4, <2>5, <2>6, <2>7, CallKeeps
<1> QED
  BY <1>3, <1>4

LEMMA RejectKeeps ==
  ASSUME TasksInv, NEW t \in Tasks, Reject(t)
  PROVE  TasksInv'
<1>1. /\ TaskTables /\ TaskInv(t) /\ delegated' = [delegated EXCEPT ![t] = "rejected"]
      /\ UNCHANGED <<task, runner, tries, taken, left>>
  BY DEF TasksInv, Reject
<1>2. Alone(t) /\ delegated'[t] # "completed"
  BY <1>1 DEF Alone, TaskTables
<1>3. TaskInv(t)'
  BY <1>1, <1>2, SMTT(30) DEF TaskInv, TaskShape, Progress, Told, Planless, Stopping
<1> QED
  BY <1>1, <1>2, <1>3, OneTask DEF TaskTables

LEMMA TaskCallKeeps ==
  ASSUME TasksInv, NEW t \in Tasks, TaskCall(t)
  PROVE  TasksInv'
  BY CreateKeeps, ControlKeeps, StopKeeps, RejectKeeps DEF TaskCall

LEMMA CancelFlowKeeps ==
  ASSUME TasksInv, NEW f, CancelFlow(f)
  PROVE  TasksInv'
<1>0. PICK t : t = active[f]
  OBVIOUS
<1> DEFINE next == [runner[t] EXCEPT !.flow = "cancelled"]
<1>1. /\ TaskTables /\ runner' = [runner EXCEPT ![t] = next]
      /\ UNCHANGED <<task, delegated, tries, taken, left>>
  BY <1>0 DEF TasksInv, CancelFlow
<1>2. CASE t \in Tasks
  <2>1. TaskInv(t) /\ DOMAIN runner[t] = RunnerFields
    BY <1>2 DEF TasksInv, TaskInv, TaskShape
  <2>2. /\ DOMAIN next = RunnerFields /\ next.pc = runner[t].pc /\ next.i = runner[t].i
        /\ next.att = runner[t].att /\ next.bad = runner[t].bad
    BY <2>1 DEF RunnerFields
  <2> HIDE DEF next
  <2>3. Alone(t) /\ runner'[t] = next
    BY <1>1, <1>2 DEF Alone, TaskTables
  <2>4. TaskShape(t)'
    BY <1>1, <2>1, <2>2, <2>3 DEF TaskInv, TaskShape
  <2>5. Progress(t)'
    BY <1>1, <2>1, <2>2, <2>3 DEF TaskInv, Progress
  <2>6. Told(t)' /\ Stopping(t)'
    BY <1>1, <2>1, <2>2, <2>3 DEF TaskInv, Told, Planless, Stopping
  <2>7. TaskInv(t)'
    BY <2>4, <2>5, <2>6 DEF TaskInv
  <2>8. /\ DOMAIN tries' = Tasks /\ DOMAIN taken' = Tasks /\ DOMAIN left' = Tasks
        /\ \A u \in Tasks : tries'[u] = tries[u] /\ taken'[u] = taken[u] /\ left'[u] = left[u]
    BY <1>1 DEF TaskTables
  <2> QED
    BY <1>2, <2>3, <2>7, <2>8, OneTask
<1>3. CASE t \notin Tasks
  <2>1. DOMAIN runner' = Tasks /\ \A u \in Tasks : runner'[u] = runner[u]
    BY <1>1, <1>3 DEF TaskTables
  <2>2. ASSUME NEW u \in Tasks
        PROVE  TaskInv(u)'
    <3>1. TaskInv(u)
      BY DEF TasksInv
    <3> QED
      BY <1>1, <2>1, <3>1, SameTask
  <2> QED
    BY <1>1, <2>1, <2>2 DEF TasksInv, TaskTables
<1> QED
  BY <1>2, <1>3

-----------------------------------------------------------------------------
(* Every step *)

LEMMA TasksBegin == Init => load \in Loads /\ TasksInv
<1> SUFFICES ASSUME Init PROVE TasksInv
  BY DEF Init
<1>1. TaskTables
  BY DEF Init, TaskInit, TaskTables
<1>2. ASSUME NEW t \in Tasks
      PROVE  TaskInv(t)
  <2> DEFINE r == Runner("idle", 1, 0, "none")
  <2>1. /\ task[t] = [st |-> "absent", kept |-> FALSE, flag |-> FALSE]
        /\ runner[t] = r /\ delegated[t] = "none"
        /\ tries[t] = [k \in DOMAIN Plan[t] |-> 0] /\ taken[t] = <<>> /\ left[t] = 0
    BY DEF Init, TaskInit
  <2>2. DOMAIN r = RunnerFields /\ r.pc = "idle" /\ r.i = 1
    BY DEF Runner, RunnerFields
  <2> HIDE DEF r
  <2>3. Plan[t] \in Seq(Flows) /\ Retries[t] \in Nat /\ Len(Plan[t]) \in Nat
    BY TaskAssumption
  <2>4. Len(taken[t]) = 0 /\ taken[t] \in Seq(Nat \X Nat)
    BY <2>1
  <2>5. TaskShape(t)
    BY <2>1, <2>2, <2>4 DEF TaskShape, TaskFields
  <2>6. Progress(t)
    BY <2>1, <2>2, <2>3, <2>4 DEF Progress, InFlow
  <2>7. Told(t) /\ Stopping(t)
    BY <2>1, <2>2, <2>3, <2>4 DEF Told, Stopping
  <2> QED
    BY <2>5, <2>6, <2>7 DEF TaskInv
<1> QED
  BY <1>1, <1>2 DEF TasksInv

\* Start, shutdown and work leave the tasks alone.
LEMMA TasksUntouched ==
  ASSUME TasksInv, UNCHANGED <<task, runner, delegated, tries, taken, left>>
  PROVE  TasksInv'
<1>1. \A t \in Tasks : TaskInv(t)'
  BY SameTask DEF TasksInv
<1> QED
  BY <1>1 DEF TasksInv, TaskTables

LEMMA TasksKeep ==
  ASSUME load \in Loads, TasksInv, [Next]_vars
  PROVE  load' \in Loads /\ TasksInv'
<1>1. \A t \in load.tasks \cup load.controlled : t \in Tasks
  BY LifecycleAssumption
<1>2. CASE UNCHANGED <<task, runner, delegated, tries, taken, left, load>>
  BY <1>2, TasksUntouched
<1>3. ASSUME NEW t \in load.tasks, TaskGoes(t)
      PROVE  load' \in Loads /\ TasksInv'
  BY <1>1, <1>2, <1>3, RunStepsKeep DEF TaskGoes, tvars
<1>4. CASE TaskCalls
  <2>1. ASSUME NEW t \in load.tasks, Create(t, "running"), UNCHANGED load
        PROVE  load' \in Loads /\ TasksInv'
    BY <1>1, <2>1, CreateKeeps
  <2>2. ASSUME NEW t \in load.controlled, TaskCall(t), UNCHANGED load
        PROVE  load' \in Loads /\ TasksInv'
    BY <1>1, <2>2, TaskCallKeeps
  <2>3. ASSUME NEW f \in Flows, CancelFlow(f), UNCHANGED load
        PROVE  load' \in Loads /\ TasksInv'
    BY <2>3, CancelFlowKeeps
  <2> QED
    BY <1>4, <2>1, <2>2, <2>3 DEF TaskCalls
<1>5. CASE StartNext \/ StartFails \/ \E ok \in BOOLEAN : Close(ok)
  BY <1>2, <1>5 DEF StartNext, StartFails, Close, Unseen, tvars
<1>6. CASE Start \/ StartCancelled \/ Ready
  BY <1>2, <1>6 DEF Start, StartCancelled, Ready, Unseen, tvars
<1>7. CASE Drain \/ CancelJobs \/ \E ok \in BOOLEAN : CloseDatabases(ok)
  BY <1>2, <1>7 DEF Drain, CancelJobs, CloseDatabases, Unseen, tvars
<1>8. CASE \E c \in Waiters : Shutdown(c) \/ Returns(c) \/ CallerCancelled(c)
  BY <1>2, <1>8 DEF Shutdown, Returns, CallerCancelled, Unseen, tvars
<1>9. CASE Tick \/ Request \/ \E j \in Jobs : JobEnds(j)
  BY <1>2, <1>9 DEF Tick, Request, JobEnds, Unseen, tvars
<1>10. CASE Rest \/ UNCHANGED vars
  BY <1>2, <1>10 DEF Rest, vars, tvars
<1> QED
  BY <1>3, <1>4, <1>5, <1>6, <1>7, <1>8, <1>9, <1>10 DEF Next, Works

LEMMA OutcomesFollow == TasksInv => TaskOutcomesHold
<1> SUFFICES ASSUME TasksInv, NEW t \in Tasks
             PROVE
               LET n == Len(taken[t])
               IN  /\ \A k \in 1..n : taken[t][k] = <<k, 0>>
                   /\ \A k \in DOMAIN Plan[t] : /\ tries[t][k] <= Retries[t] + 1
                                                /\ tries[t][k] > 0 => n >= k - 1
                   /\ (task[t].st = "completed" \/ delegated[t] = "completed") => n = Len(Plan[t])
                   /\ (task[t].st \in {"failed", "timeout", "retrying"} /\ ~Planless(t)) =>
                        n < Len(Plan[t]) /\ tries[t][n + 1] = Retries[t] + 1
                   /\ left[t] # 0 => \A k \in DOMAIN Plan[t] : k > left[t] => tries[t][k] = 0
  BY DEF TaskOutcomesHold
<1> DEFINE n == Len(taken[t])
<1>1. TaskInv(t) /\ n \in Nat /\ DOMAIN Plan[t] \subseteq Nat
  BY TaskAssumption DEF TasksInv, TaskInv, TaskShape
<1>2. \A k \in DOMAIN Plan[t] : /\ tries[t][k] <= Retries[t] + 1
                                /\ tries[t][k] > 0 => n >= k - 1
  <2> TAKE k \in DOMAIN Plan[t]
  <2>1. /\ runner[t].i \in Nat /\ runner[t].i - 1 <= n /\ tries[t][k] <= Retries[t] + 1
        /\ k > runner[t].i => tries[t][k] = 0
    BY <1>1 DEF TaskInv, Progress
  <2> QED
    BY <1>1, <2>1
<1>3. left[t] # 0 => \A k \in DOMAIN Plan[t] : k > left[t] => tries[t][k] = 0
  <2> SUFFICES ASSUME left[t] # 0, NEW k \in DOMAIN Plan[t], k > left[t]
               PROVE  tries[t][k] = 0
    OBVIOUS
  <2>1. /\ runner[t].i \in Nat /\ left[t] \in Nat /\ runner[t].i <= left[t]
        /\ k > runner[t].i => tries[t][k] = 0
    BY <1>1 DEF TaskInv, Progress, Stopping
  <2> QED
    BY <1>1, <2>1
<1> QED
  BY <1>1, <1>2, <1>3 DEF TaskInv, Progress, Told

\* The run of a task, the counters and the status that is told agree after every await.
THEOREM TasksInvariant == Spec => [](load \in Loads /\ TasksInv)
<1>1. load \in Loads /\ TasksInv /\ [Next]_vars => (load \in Loads /\ TasksInv)'
  BY TasksKeep
<1> QED
  BY <1>1, TasksBegin, PTL DEF Spec

\* What a task and its delegation say is what was done, for any plan, any number of
\* tries and any order of calls, timeouts and a bus that closes.
THEOREM TaskOutcomesAreTrue == Spec => []TaskOutcomesHold
  BY TasksInvariant, OutcomesFollow, PTL

-----------------------------------------------------------------------------
(* The two orders *)

LEMMA StartTurns ==
  /\ Len(StartOrder) = 7 /\ DOMAIN StartOrder = 1..7
  /\ \A n \in 1..7 : StartOrder[n] \in Components
  /\ \A b \in Base : \E n \in 1..7 : StartOrder[n] = b
  /\ Components = {"bus", "stores", "workflow", "scheduler", "tick", "tasks", "apps"}
<1>1. /\ StartOrder[1] = "bus" /\ StartOrder[2] = "stores" /\ StartOrder[3] = "workflow"
      /\ StartOrder[4] = "scheduler" /\ StartOrder[5] = "tick" /\ StartOrder[6] = "tasks"
      /\ StartOrder[7] = "apps" /\ Len(StartOrder) = 7 /\ DOMAIN StartOrder = 1..7
  BY DEF StartOrder
<1>2. \A n \in 1..7 : n \in {1, 2, 3, 4, 5, 6, 7}
  OBVIOUS
<1> QED
  BY <1>1, <1>2 DEF Base, Components

LEMMA CloseTurns ==
  /\ Len(CloseOrder) = 13 /\ DOMAIN CloseOrder = 1..13 /\ Ended = 14 /\ Cut = 15
  /\ CloseOrder[1] = "draining" /\ CloseOrder[2] = "tick" /\ CloseOrder[3] = "jobs"
  /\ CloseOrder[4] = "scheduler" /\ CloseOrder[5] = "apps" /\ CloseOrder[6] = "tasks"
  /\ CloseOrder[7] = "tick" /\ CloseOrder[8] = "jobs" /\ CloseOrder[9] = "scheduler"
  /\ CloseOrder[10] = "stores" /\ CloseOrder[11] = "workflow" /\ CloseOrder[12] = "bus"
  /\ CloseOrder[13] = "databases"
  BY DEF CloseOrder, Ended, Cut

\* What the order of the closing is for: the jobs end before what they work with is
\* closed, and each component has its turn.
LEMMA TurnsOf ==
  /\ \A k \in 1..13 : /\ CloseOrder[k] = "draining" <=> k = 1
                      /\ CloseOrder[k] = "databases" <=> k = 13
                      /\ CloseOrder[k] \in Base => k >= 4
                      /\ k = 3 => CloseOrder[k] = "jobs"
  /\ \A c \in Components : /\ \E k \in 2..13 : CloseOrder[k] = c
                           /\ c \notin {"draining", "jobs", "databases"}
<1>1. \A k \in 1..13 : k \in {1, 2, 3, 4, 5, 6, 7, 8, 9, 10, 11, 12, 13}
  OBVIOUS
<1>2. \A k \in {2, 4, 5, 6, 10, 11, 12} : k \in 2..13
  OBVIOUS
<1>3. \A c \in Components : \E k \in {2, 4, 5, 6, 10, 11, 12} : CloseOrder[k] = c
  BY StartTurns, CloseTurns
<1>4. \A c \in Components : c \notin {"draining", "jobs", "databases"}
  BY StartTurns
<1>5. \A k \in {1, 2, 3, 4, 5, 6, 7, 8, 9, 10, 11, 12, 13} :
        /\ CloseOrder[k] = "draining" <=> k = 1
        /\ CloseOrder[k] = "databases" <=> k = 13
        /\ CloseOrder[k] \in Base => k >= 4
        /\ k = 3 => CloseOrder[k] = "jobs"
  BY CloseTurns DEF Base
<1> QED
  BY <1>1, <1>2, <1>3, <1>4, <1>5

-----------------------------------------------------------------------------
(* One step of start, work or shutdown *)

LEMMA LifecycleBegins == Init => LifecycleInv
<1> SUFFICES ASSUME Init PROVE LifecycleInv
  OBVIOUS
<1>1. load.ready \in BOOLEAN
  BY LifecycleAssumption DEF Init
<1>2. /\ start = 0 /\ startFailed = FALSE /\ shut = 0 /\ failures = FALSE /\ request = FALSE
      /\ overtaken = FALSE /\ outlived = FALSE /\ NoJob
      /\ call = [c \in Waiters |-> "idle"] /\ jobs = [j \in Jobs |-> "idle"]
      /\ conn \in BOOLEAN
      /\ \/ lc = "ready" /\ up = Components
         \/ lc = "created" /\ up = {} /\ ~conn
  <2>1. /\ start = 0 /\ startFailed = FALSE /\ shut = 0 /\ failures = FALSE /\ request = FALSE
        /\ overtaken = FALSE /\ outlived = FALSE /\ NoJob
        /\ call = [c \in Waiters |-> "idle"] /\ jobs = [j \in Jobs |-> "idle"]
    BY DEF Init, NoJob
  <2>2. CASE load.ready
    BY <2>1, <2>2, <1>1, Zenon DEF Init
  <2>3. CASE ~load.ready
    BY <2>1, <2>3, <1>1, Zenon DEF Init
  <2> QED
    BY <2>2, <2>3
<1>3. LifecycleTypes
  <2>1. /\ startFailed \in BOOLEAN /\ failures \in BOOLEAN /\ request \in BOOLEAN
        /\ conn \in BOOLEAN /\ overtaken \in BOOLEAN /\ outlived \in BOOLEAN
    BY <1>2
  <2>2. /\ up \subseteq Components /\ lc \in Lifecycle
        /\ start \in 0..Len(StartOrder) + 1 /\ shut \in 0..Cut
    BY <1>2, StartTurns, CloseTurns DEF Lifecycle
  <2>3. /\ call \in [Waiters -> {"idle", "waiting", "returned", "cancelled"}]
        /\ jobs \in [Jobs -> {"idle", "running", "cancelled"}]
    BY <1>2
  <2> QED
    BY <2>1, <2>2, <2>3 DEF LifecycleTypes
<1>4. PhaseInv
  BY <1>2, CloseTurns DEF PhaseInv, Final
<1>5. JobsInv
  BY <1>2, StartTurns, CloseTurns DEF JobsInv, Final, NoJob, Base
<1>6. UntouchedInv
  BY <1>2 DEF UntouchedInv, Final
<1>7. ClosedInv
  BY <1>2, CloseTurns DEF ClosedInv
<1> QED
  BY <1>3, <1>4, <1>5, <1>6, <1>7 DEF LifecycleInv

LEMMA LifecycleUntouched ==
  ASSUME LifecycleInv, UNCHANGED <<up, svars, overtaken, outlived>>
  PROVE  LifecycleInv'
  BY DEF LifecycleInv, LifecycleTypes, PhaseInv, JobsInv, UntouchedInv, ClosedInv, NoJob, svars

LEMMA TickKeeps == ASSUME LifecycleInv, Tick PROVE LifecycleInv'
<1>1. LifecycleTypes /\ PhaseInv /\ JobsInv /\ UntouchedInv /\ ClosedInv
  BY DEF LifecycleInv
<1>2. /\ "tick" \in up /\ conn' = TRUE
      /\ UNCHANGED <<up, lc, start, startFailed, shut, call, failures, request, overtaken,
                     outlived>>
  BY DEF Tick, Unseen
<1>3. /\ jobs' \in [Jobs -> {"idle", "running", "cancelled"}]
      /\ lc = "ready" \/ jobs' = jobs
  <2>1. PICK S \in SUBSET Jobs :
          jobs' = [j \in Jobs |-> IF j \in S /\ jobs[j] = "idle" /\ Admitted THEN "running"
                                  ELSE jobs[j]]
    BY DEF Tick
  <2>2. jobs \in [Jobs -> {"idle", "running", "cancelled"}]
    BY <1>1 DEF LifecycleTypes
  <2> QED
    BY <2>1, <2>2 DEF Admitted
<1>4. LifecycleTypes'
  BY <1>1, <1>2, <1>3 DEF LifecycleTypes
<1>5. PhaseInv'
  BY <1>1, <1>2 DEF PhaseInv
<1>6. JobsInv'
  <2>1. lc = "ready" => Base \subseteq up /\ shut \notin 4..Ended
    BY <1>1, CloseTurns DEF JobsInv, PhaseInv, LifecycleTypes, Final
  <2> QED
    BY <1>1, <1>2, <1>3, <2>1 DEF JobsInv, NoJob, Final
<1>7. UntouchedInv'
  BY <1>1, <1>2 DEF UntouchedInv
<1>8. ClosedInv'
  <2>1. shut = Ended /\ ~overtaken => failures
    BY <1>1, <1>2, CloseTurns DEF ClosedInv
  <2> QED
    BY <1>1, <1>2, <2>1 DEF ClosedInv
<1> QED
  BY <1>4, <1>5, <1>6, <1>7, <1>8 DEF LifecycleInv

LEMMA JobEndsKeeps == ASSUME LifecycleInv, NEW j \in Jobs, JobEnds(j) PROVE LifecycleInv'
<1>1. LifecycleTypes /\ PhaseInv /\ JobsInv /\ UntouchedInv /\ ClosedInv
  BY DEF LifecycleInv
<1>2. /\ jobs[j] # "idle" /\ jobs' = [jobs EXCEPT ![j] = "idle"]
      /\ conn' = (conn \/ jobs[j] = "running")
      /\ UNCHANGED <<up, lc, start, startFailed, shut, call, failures, request, overtaken,
                     outlived>>
  BY DEF JobEnds, Unseen
<1>3. /\ jobs' \in [Jobs -> {"idle", "running", "cancelled"}]
      /\ \A i \in Jobs : jobs'[i] # "idle" => jobs[i] # "idle"
  BY <1>1, <1>2 DEF LifecycleTypes
<1>4. LifecycleTypes'
  BY <1>1, <1>2, <1>3 DEF LifecycleTypes
<1>5. PhaseInv'
  BY <1>1, <1>2 DEF PhaseInv
<1>6. JobsInv'
  BY <1>1, <1>2, <1>3 DEF JobsInv, NoJob
<1>7. lc \notin {"created", "starting"} \cup Final /\ shut \notin 4..Ended
  BY <1>1, <1>2 DEF JobsInv, NoJob
<1>8. UntouchedInv'
  BY <1>2, <1>7 DEF UntouchedInv
<1>9. ClosedInv'
  <2>1. shut # Ended
    BY <1>7, CloseTurns
  <2> QED
    BY <1>1, <1>2, <2>1 DEF ClosedInv
<1> QED
  BY <1>4, <1>5, <1>6, <1>8, <1>9 DEF LifecycleInv

LEMMA RequestKeeps == ASSUME LifecycleInv, Request PROVE LifecycleInv'
<1>1. LifecycleTypes /\ PhaseInv /\ JobsInv /\ UntouchedInv /\ ClosedInv
  BY DEF LifecycleInv
<1>2. /\ request' \in BOOLEAN /\ conn' = (conn \/ request) /\ (request \/ lc = "ready")
      /\ UNCHANGED <<up, lc, start, startFailed, shut, call, failures, jobs, overtaken, outlived>>
  BY DEF Request, Unseen, Admitted
<1>3. LifecycleTypes'
  BY <1>1, <1>2 DEF LifecycleTypes
<1>4. PhaseInv' /\ JobsInv'
  BY <1>1, <1>2 DEF PhaseInv, JobsInv, NoJob
<1>5. lc \notin {"created"} /\ (lc \in Final => shut # 0)
  BY <1>1, <1>2 DEF UntouchedInv, Final
<1>6. UntouchedInv'
  BY <1>2, <1>5 DEF UntouchedInv
<1>7. ClosedInv'
  <2>1. shut = Ended => outlived
    BY <1>1, <1>2, CloseTurns DEF ClosedInv, PhaseInv, Final
  <2>2. lc # "starting"
    BY <1>1, <1>2 DEF ClosedInv
  <2> QED
    BY <1>1, <1>2, <2>1, <2>2 DEF ClosedInv
<1> QED
  BY <1>3, <1>4, <1>6, <1>7 DEF LifecycleInv

LEMMA StartsKeep == ASSUME LifecycleInv, Start \/ StartNext \/ StartCancelled \/ Ready
                    PROVE  LifecycleInv'
<1>1. LifecycleTypes /\ PhaseInv /\ JobsInv /\ UntouchedInv /\ ClosedInv
  BY DEF LifecycleInv
<1>2. UNCHANGED <<startFailed, shut, call, failures, jobs, request, overtaken, outlived>>
  BY DEF Start, StartNext, StartCancelled, Ready, Unseen
<1>3. CASE Start
  <2>1. /\ lc = "created" /\ lc' = "starting" /\ start' = 1 /\ shut = 0 /\ NoJob /\ ~request
        /\ up' = up /\ conn' = conn
    BY <1>1, <1>3 DEF Start, PhaseInv, JobsInv, UntouchedInv
  <2>2. LifecycleTypes' /\ PhaseInv'
    BY <1>1, <1>2, <2>1, StartTurns, CloseTurns DEF LifecycleTypes, Lifecycle, PhaseInv, Final
  <2>3. JobsInv'
    BY <1>1, <1>2, <2>1, StartTurns, CloseTurns DEF JobsInv, NoJob, Final
  <2>4. UntouchedInv' /\ ClosedInv'
    BY <1>1, <1>2, <2>1, CloseTurns DEF UntouchedInv, ClosedInv, Final
  <2> QED
    BY <2>2, <2>3, <2>4 DEF LifecycleInv
<1>4. CASE StartNext
  <2>1. /\ start \in 1..7 /\ up' = up \cup {StartOrder[start]} /\ start' = start + 1
        /\ conn' \in BOOLEAN /\ lc' = lc /\ StartOrder[start] \in Components
    BY <1>1, <1>4, StartTurns DEF StartNext, LifecycleTypes
  <2>2. lc # "created" /\ ~(lc \in Final /\ shut = 0)
    BY <1>1, <2>1 DEF PhaseInv, UntouchedInv
  <2>3. shut \in 2..Ended => overtaken
    BY <1>1, <2>1 DEF ClosedInv
  <2>4. LifecycleTypes' /\ PhaseInv'
    <3>0. up' \subseteq Components
      BY <1>1, <2>1 DEF LifecycleTypes
    <3>1. start' \in 0..Len(StartOrder) + 1
      BY <2>1, StartTurns
    <3>2. LifecycleTypes'
      BY <1>1, <1>2, <2>1, <3>0, <3>1 DEF LifecycleTypes
    <3>3. PhaseInv'
      BY <1>1, <1>2, <2>1, <2>2 DEF PhaseInv
    <3> QED
      BY <3>2, <3>3
  <2>5. JobsInv'
    <3>1. (lc = "starting" => \A n \in DOMAIN StartOrder : n < start => StartOrder[n] \in up)'
      BY <1>1, <2>1, StartTurns DEF JobsInv
    <3> QED
      BY <1>1, <1>2, <2>1, <3>1 DEF JobsInv, NoJob
  <2>6. UntouchedInv' /\ ClosedInv'
    BY <1>1, <1>2, <2>1, <2>2, <2>3, CloseTurns DEF UntouchedInv, ClosedInv
  <2> QED
    BY <2>4, <2>5, <2>6 DEF LifecycleInv
<1>5. CASE StartCancelled
  <2>1. start # 0 /\ start' = 0 /\ up' = up /\ lc' = lc /\ conn' = conn
    BY <1>5 DEF StartCancelled, Unseen
  <2>2. LifecycleTypes' /\ PhaseInv'
    BY <1>1, <1>2, <2>1, StartTurns DEF LifecycleTypes, PhaseInv
  <2>3. JobsInv'
    BY <1>1, <1>2, <2>1, StartTurns DEF JobsInv, NoJob
  <2>4. UntouchedInv' /\ ClosedInv'
    BY <1>1, <1>2, <2>1 DEF UntouchedInv, ClosedInv
  <2> QED
    BY <2>2, <2>3, <2>4 DEF LifecycleInv
<1>6. CASE Ready
  <2>1. /\ start = 8 /\ lc = "starting" /\ lc' = "ready" /\ start' = 0 /\ up' = up /\ conn' = conn
    BY <1>6, StartTurns DEF Ready, Unseen
  <2>2. shut \in {0, 1, Cut}
    BY <1>1, <2>1, CloseTurns DEF LifecycleTypes, PhaseInv, Final
  <2>3. LifecycleTypes' /\ PhaseInv'
    BY <1>1, <1>2, <2>1, <2>2, StartTurns, CloseTurns
       DEF LifecycleTypes, Lifecycle, PhaseInv, Final
  <2>4. Base \subseteq up
    BY <1>1, <2>1, StartTurns DEF JobsInv
  <2>5. JobsInv'
    BY <1>1, <1>2, <2>1, <2>2, <2>4, StartTurns, CloseTurns DEF JobsInv, NoJob, Final
  <2>6. UntouchedInv' /\ ClosedInv'
    BY <1>1, <1>2, <2>1, <2>2, CloseTurns DEF UntouchedInv, ClosedInv, Final
  <2> QED
    BY <2>3, <2>5, <2>6 DEF LifecycleInv
<1> QED
  BY <1>3, <1>4, <1>5, <1>6

\* A caller comes, or start does when it has failed.
LEMMA CallsKeep ==
  ASSUME LifecycleInv, NEW c \in Waiters, Calls(c), startFailed' \in BOOLEAN,
         \/ start' = start /\ startFailed' = startFailed
         \/ start # 0 /\ start' = 0,
         UNCHANGED <<up, failures, jobs, request, conn, overtaken, outlived>>
  PROVE  LifecycleInv'
<1>1. LifecycleTypes /\ PhaseInv /\ JobsInv /\ UntouchedInv /\ ClosedInv
  BY DEF LifecycleInv
<1>2. /\ lc' \in {lc, "stopped"} /\ shut' \in {shut, 1}
      /\ lc' # lc => lc = "created" /\ shut' = shut
      /\ shut' # shut => shut = 0 /\ lc' = lc /\ lc \in {"starting", "ready"}
      /\ lc = "created" => lc' = "stopped"
  <2>0. lc \in Final \cup {"created"} => shut # Cut
    BY <1>1, CloseTurns DEF PhaseInv
  <2>1. CASE lc \in Final
    BY <2>0, <2>1 DEF Calls, Final
  <2>2. CASE lc = "created"
    BY <2>0, <2>2 DEF Calls, Final
  <2>3. CASE lc \notin Final /\ lc # "created" /\ shut = Cut
    BY <2>3 DEF Calls
  <2>4. CASE lc \notin Final /\ lc # "created" /\ shut # Cut
    <3>1. lc' = lc /\ shut' = IF shut = 0 THEN 1 ELSE shut
      BY <2>4 DEF Calls
    <3>2. shut = 0 => lc \in {"starting", "ready"}
      BY <1>1, <2>4 DEF LifecycleTypes, Lifecycle, Final, PhaseInv
    <3> QED
      BY <2>4, <3>1, <3>2
  <2> QED
    BY <2>1, <2>2, <2>3, <2>4
<1>3. /\ call' \in [Waiters -> {"idle", "waiting", "returned", "cancelled"}]
      /\ \A d \in Waiters : call'[d] = "returned" => call[d] = "returned" \/ lc' \in Final
  <2>1. /\ \E to \in {"returned", "cancelled", "waiting"} :
             call' = [call EXCEPT ![c] = to] /\ (to = "returned" => lc' \in Final)
    BY DEF Calls, Final
  <2> QED
    BY <1>1, <2>1 DEF LifecycleTypes
<1>4. LifecycleTypes'
  BY <1>1, <1>2, <1>3, StartTurns, CloseTurns DEF LifecycleTypes, Lifecycle
<1>5. PhaseInv'
  BY <1>1, <1>2, CloseTurns DEF PhaseInv, Final
<1>6. JobsInv'
  BY <1>1, <1>2, CloseTurns, StartTurns DEF JobsInv, NoJob, Final, LifecycleTypes
<1>7. UntouchedInv'
  BY <1>1, <1>2 DEF UntouchedInv, PhaseInv, Final
<1>8. ClosedInv'
  <2>1. \A d \in Waiters : call'[d] = "returned" => lc' \in Final
    BY <1>1, <1>2, <1>3 DEF ClosedInv, Final
  <2>2. CASE shut' \in 2..Ended
    <3>1. shut' = shut /\ lc' = lc
      BY <1>1, <1>2, <2>2, CloseTurns DEF PhaseInv
    <3>2. (start' = start /\ startFailed' = startFailed) \/ overtaken
      BY <1>1, <2>2, <3>1 DEF ClosedInv
    <3> QED
      BY <1>1, <2>1, <3>1, <3>2 DEF ClosedInv
  <2>3. CASE shut' \notin 2..Ended
    BY <1>1, <1>2, <2>1, <2>3, CloseTurns DEF ClosedInv
  <2> QED
    BY <2>2, <2>3
<1> QED
  BY <1>4, <1>5, <1>6, <1>7, <1>8 DEF LifecycleInv

LEMMA CallersKeep ==
  ASSUME LifecycleInv, StartFails \/ \E c \in Waiters : Shutdown(c) \/ Returns(c)
  PROVE  LifecycleInv'
<1>1. CASE StartFails
  <2>1. /\ start # 0 /\ start' = 0 /\ startFailed' \in BOOLEAN /\ Calls(Starter)
        /\ UNCHANGED <<up, failures, jobs, request, conn, overtaken, outlived>>
    BY <1>1, StartTurns DEF StartFails, Unseen
  <2>2. Starter \in Waiters
    BY DEF Waiters
  <2> QED
    BY <2>1, <2>2, CallsKeep
<1>2. ASSUME NEW c \in Waiters, Shutdown(c) PROVE LifecycleInv'
  <2>1. /\ Calls(c) /\ startFailed' = startFailed /\ start' = start
        /\ UNCHANGED <<up, failures, jobs, request, conn, overtaken, outlived>>
    BY <1>2 DEF Shutdown, Unseen
  <2>2. startFailed' \in BOOLEAN
    BY <2>1 DEF LifecycleInv, LifecycleTypes
  <2> QED
    BY <2>1, <2>2, CallsKeep
<1>3. ASSUME NEW c \in Waiters, Returns(c) PROVE LifecycleInv'
  <2>1. LifecycleTypes /\ PhaseInv /\ JobsInv /\ UntouchedInv /\ ClosedInv
    BY DEF LifecycleInv
  <2>2. /\ shut = Ended /\ call' = [call EXCEPT ![c] = "returned"]
        /\ UNCHANGED <<up, lc, start, startFailed, shut, failures, jobs, request, conn,
                       overtaken, outlived>>
    BY <1>3 DEF Returns, Unseen
  <2>3. lc \in Final
    BY <2>1, <2>2 DEF PhaseInv
  <2>4. LifecycleTypes'
    BY <2>1, <2>2 DEF LifecycleTypes
  <2>5. PhaseInv' /\ JobsInv' /\ UntouchedInv'
    BY <2>1, <2>2 DEF PhaseInv, JobsInv, UntouchedInv, NoJob
  <2>6. ClosedInv'
    BY <2>1, <2>2, <2>3 DEF ClosedInv
  <2> QED
    BY <2>4, <2>5, <2>6 DEF LifecycleInv
<1> QED
  BY <1>1, <1>2, <1>3

LEMMA DrainKeeps == ASSUME LifecycleInv, Drain PROVE LifecycleInv'
<1>1. LifecycleTypes /\ PhaseInv /\ JobsInv /\ UntouchedInv /\ ClosedInv
  BY DEF LifecycleInv
<1>2. /\ shut = 1 /\ shut' = 2 /\ lc' = "draining" /\ overtaken' = (start # 0)
      /\ UNCHANGED <<up, start, startFailed, call, failures, jobs, request, conn, outlived>>
  BY CloseTurns, TurnsOf DEF Drain, Closing
<1>3. lc \in {"starting", "ready"}
  BY <1>1, <1>2 DEF PhaseInv
<1>4. LifecycleTypes'
  BY <1>1, <1>2, CloseTurns DEF LifecycleTypes, Lifecycle
<1>5. PhaseInv'
  BY <1>2, CloseTurns DEF PhaseInv, Final
<1>6. JobsInv'
  BY <1>1, <1>2, CloseTurns DEF JobsInv, NoJob, Final
<1>7. UntouchedInv'
  BY <1>2 DEF UntouchedInv, Final
<1>8. ClosedInv'
  <2>1. \A c \in up : \E k \in 2..13 : CloseOrder[k] = c
    BY <1>1, TurnsOf DEF LifecycleTypes
  <2>2. \A c \in Waiters : call'[c] # "returned"
    BY <1>1, <1>2, <1>3 DEF ClosedInv, Final
  <2>3. ~overtaken' => start' = 0
    BY <1>2, Zenon
  <2>4. shut' = 2 /\ shut' # Ended /\ lc' = "draining" /\ up' = up /\ Len(CloseOrder) = 13
    BY <1>2, CloseTurns
  <2> QED
    BY <2>1, <2>2, <2>3, <2>4 DEF ClosedInv
<1> QED
  BY <1>4, <1>5, <1>6, <1>7, <1>8 DEF LifecycleInv

\* Cancelling a job does not end it.
LEMMA CancelsKeep ==
  ASSUME LifecycleInv, CancelJobs \/ \E c \in Waiters : CallerCancelled(c)
  PROVE  LifecycleInv'
<1>1. LifecycleTypes /\ PhaseInv /\ JobsInv /\ UntouchedInv /\ ClosedInv
  BY DEF LifecycleInv
<1>2. /\ shut \in 1..13 /\ shut' \in {shut, Cut}
      /\ UNCHANGED <<up, lc, start, startFailed, failures, request, conn, overtaken, outlived>>
  BY CloseTurns DEF CancelJobs, CallerCancelled, Closing, Unseen
<1>3. /\ jobs' \in [Jobs -> {"idle", "running", "cancelled"}]
      /\ \A j \in Jobs : jobs'[j] # "idle" => jobs[j] # "idle"
  BY <1>1 DEF CancelJobs, CallerCancelled, LifecycleTypes
<1>4. /\ call' \in [Waiters -> {"idle", "waiting", "returned", "cancelled"}]
      /\ \A c \in Waiters : call'[c] = "returned" => call[c] = "returned"
  BY <1>1 DEF CancelJobs, CallerCancelled, LifecycleTypes
<1>5. LifecycleTypes'
  BY <1>1, <1>2, <1>3, <1>4, CloseTurns DEF LifecycleTypes
<1>6. lc \in {"starting", "ready", "draining"}
  BY <1>1, <1>2, CloseTurns DEF PhaseInv
<1>7. PhaseInv'
  BY <1>1, <1>2, <1>6, CloseTurns DEF PhaseInv, Final
<1>8. JobsInv'
  BY <1>1, <1>2, <1>3, <1>6, CloseTurns DEF JobsInv, NoJob
<1>9. UntouchedInv'
  BY <1>2, <1>6 DEF UntouchedInv, Final
<1>10. ClosedInv'
  BY <1>1, <1>2, <1>4, CloseTurns DEF ClosedInv
<1> QED
  BY <1>5, <1>7, <1>8, <1>9, <1>10 DEF LifecycleInv

LEMMA CloseKeeps == ASSUME LifecycleInv, NEW ok \in BOOLEAN, Close(ok) PROVE LifecycleInv'
<1> DEFINE c == CloseOrder[shut]
<1>1. LifecycleTypes /\ PhaseInv /\ JobsInv /\ UntouchedInv /\ ClosedInv
  BY DEF LifecycleInv
<1>2. /\ shut \in 2..12 /\ shut' = shut + 1 /\ (shut = 3 => NoJob)
      /\ UNCHANGED <<lc, start, startFailed, call, jobs, request, conn, overtaken, outlived>>
  BY CloseTurns, TurnsOf DEF Close, Closing, Gathered, NoJob
<1>3. \/ ok /\ up' = up \ {c} /\ failures' = failures
      \/ ~ok /\ up' = up /\ failures' = TRUE
  <2>1. /\ up' = IF ok THEN up \ {c} ELSE up
        /\ failures' = (failures \/ ~ok) /\ failures \in BOOLEAN
    BY <1>1 DEF Close, LifecycleTypes
  <2>2. CASE ok
    BY <2>1, <2>2, Zenon
  <2>3. CASE ~ok
    BY <2>1, <2>3, Zenon
  <2> QED
    BY <2>2, <2>3
<1>4. lc = "draining" /\ lc' = "draining"
  BY <1>1, <1>2, CloseTurns DEF PhaseInv
<1>5. LifecycleTypes'
  <2>1. up' \subseteq Components /\ failures' \in BOOLEAN
    BY <1>1, <1>3 DEF LifecycleTypes
  <2>2. shut' \in 0..Cut
    BY <1>2, CloseTurns
  <2> QED
    BY <1>1, <1>2, <2>1, <2>2 DEF LifecycleTypes
<1>6. PhaseInv'
  BY <1>2, <1>4, CloseTurns DEF PhaseInv, Final
<1>7. JobsInv'
  <2>1. shut >= 4 => NoJob
    BY <1>1, <1>2, CloseTurns DEF JobsInv
  <2>2. shut < 4 => Base \ {c} = Base
    BY <1>2, TurnsOf
  <2>3. (\E j \in Jobs : jobs[j] # "idle") => Base \subseteq up'
    BY <1>1, <1>2, <1>3, <2>1, <2>2 DEF JobsInv, NoJob
  <2>4. shut' \in 4..Ended => NoJob
    BY <1>2, <2>1
  <2> QED
    BY <1>2, <1>4, <2>3, <2>4 DEF JobsInv, NoJob, Final
<1>8. UntouchedInv'
  BY <1>4 DEF UntouchedInv, Final
<1>9. ClosedInv'
  <2>1. ~overtaken => /\ start = 0
                      /\ failures \/ \A d \in up : \E k \in shut..13 : CloseOrder[k] = d
    BY <1>1, <1>2, CloseTurns DEF ClosedInv
  <2>2. ASSUME ~overtaken', ~failures', NEW d \in up'
        PROVE  \E k \in shut'..13 : CloseOrder[k] = d
    <3>1. d \in up /\ d # c /\ ~failures
      BY <1>3, <2>2
    <3>2. PICK k \in shut..13 : CloseOrder[k] = d
      BY <1>2, <2>1, <2>2, <3>1
    <3>3. k # shut /\ k \in Nat /\ shut \in Nat
      BY <1>2, <3>1, <3>2
    <3> QED
      BY <1>2, <3>2, <3>3
  <2>3. \A d \in Waiters : call'[d] # "returned"
    BY <1>1, <1>2, <1>4 DEF ClosedInv, Final
  <2>4. shut' # Ended /\ Len(CloseOrder) = 13
    BY <1>2, CloseTurns
  <2> QED
    BY <1>2, <1>4, <2>1, <2>2, <2>3, <2>4 DEF ClosedInv
<1> QED
  BY <1>5, <1>6, <1>7, <1>8, <1>9 DEF LifecycleInv

LEMMA CloseDatabasesKeeps ==
  ASSUME LifecycleInv, NEW ok \in BOOLEAN, CloseDatabases(ok)
  PROVE  LifecycleInv'
<1>1. LifecycleTypes /\ PhaseInv /\ JobsInv /\ UntouchedInv /\ ClosedInv
  BY DEF LifecycleInv
<1>2. /\ shut = 13 /\ shut' = Ended /\ Ended = 14
      /\ outlived' \in BOOLEAN /\ (request => outlived')
      /\ UNCHANGED <<up, start, startFailed, call, jobs, request, overtaken>>
  <2>1. /\ Closing /\ CloseOrder[shut] = "databases" /\ shut' = Ended
        /\ UNCHANGED <<up, start, startFailed, call, jobs, request, overtaken>>
    BY DEF CloseDatabases
  <2>2. outlived' \in BOOLEAN /\ (request => outlived')
    BY Zenon DEF CloseDatabases
  <2> QED
    BY <2>1, <2>2, CloseTurns, TurnsOf DEF Closing
<1>3. /\ conn' \in BOOLEAN /\ failures' \in BOOLEAN /\ (conn' => failures')
      /\ (failures => failures')
  <2>1. /\ conn' = (conn /\ ~ok) /\ failures' = (failures \/ ~ok)
        /\ conn \in BOOLEAN /\ failures \in BOOLEAN
    BY <1>1 DEF CloseDatabases, LifecycleTypes
  <2> QED
    BY <2>1
<1>4. lc' \in Final /\ (lc' = "stopped" => ~startFailed' /\ ~failures')
  BY <1>2 DEF CloseDatabases, Final
<1>5. LifecycleTypes'
  <2>1. lc' \in Lifecycle /\ shut' \in 0..Cut
    BY <1>2, <1>4, CloseTurns DEF Lifecycle, Final
  <2> QED
    BY <1>1, <1>2, <1>3, <2>1 DEF LifecycleTypes
<1>6. PhaseInv'
  BY <1>2, <1>4, CloseTurns DEF PhaseInv, Final
<1>7. NoJob
  BY <1>1, <1>2, CloseTurns DEF JobsInv
<1>8. JobsInv'
  BY <1>2, <1>4, <1>7 DEF JobsInv, NoJob, Final
<1>9. UntouchedInv'
  BY <1>2, <1>4 DEF UntouchedInv, Final
<1>10. ClosedInv'
  <2>1. ~overtaken => start = 0 /\ (failures \/ up = {})
    <3>1. \A d \in up : \A k \in 13..13 : CloseOrder[k] # d
      BY <1>1, TurnsOf DEF LifecycleTypes
    <3> QED
      BY <1>1, <1>2, <3>1, CloseTurns DEF ClosedInv
  <2>2. lc' # "starting"
    BY <1>4 DEF Final
  <2> QED
    BY <1>2, <1>3, <1>4, <2>1, <2>2 DEF ClosedInv
<1> QED
  BY <1>5, <1>6, <1>8, <1>9, <1>10 DEF LifecycleInv

-----------------------------------------------------------------------------
\* Where run is to go on, a step is entered from an open bus only.
LEMMA FlowRaisesElsewhere ==
  ASSUME TasksInv, NEW t \in Tasks, NEW r, NEW outcome, DOMAIN r = RunnerFields,
         FlowRaises(t, r, outcome)
  PROVE  Alone(t) /\ runner'[t].pc # "step"
<1>1. TaskTables /\ DOMAIN task[t] = TaskFields
  BY DEF TasksInv, TaskInv, TaskShape
<1> QED
  BY <1>1, FlowRaisesTo

LEMMA RunStepsEnter ==
  ASSUME TasksInv, NEW t \in Tasks, RunSteps(t), NoStep, ~BusOpen
  PROVE  NoStep'
<1> DEFINE r == runner[t]
<1>1. /\ TaskTables /\ DOMAIN task[t] = TaskFields /\ DOMAIN r = RunnerFields
      /\ r.pc # "step"
  BY DEF TasksInv, TaskInv, TaskShape, NoStep
<1>2. SUFFICES Alone(t) /\ runner'[t].pc # "step"
  BY <1>2 DEF NoStep, Alone
<1>3. ASSUME NEW st, NEW pc, pc # "step", Moves(t, st, r, pc)
      PROVE  Alone(t) /\ runner'[t].pc # "step"
  BY <1>1, <1>3, MovesTo
<1>4. ASSUME NEW i, NEW att, Attempt(t, i, att)
      PROVE  Alone(t) /\ runner'[t].pc # "step"
  <2>1. DOMAIN Runner("created", i, att, "ready") = RunnerFields
    BY DEF Runner, RunnerFields
  <2>2. FlowRaises(t, Runner("created", i, att, "ready"), "failed")
    BY <1>4 DEF Attempt
  <2> QED
    BY <2>1, <2>2, FlowRaisesElsewhere
<1>5. ASSUME NEW i, Proceeds(t, r, i)
      PROVE  Alone(t) /\ runner'[t].pc # "step"
  BY <1>3, <1>4, <1>5 DEF Proceeds
<1>6. CASE Run(t) \/ Started(t)
  BY <1>3, <1>6 DEF Run, Started
<1>7. CASE Announced(t)
  BY <1>3, <1>5, <1>7 DEF Announced
<1>8. CASE FlowDone(t)
  <2>1. CASE Proceeds(t, r, r.i + 1)
    BY <1>5, <2>1
  <2>2. CASE task' = task /\ Raises(t, r)
    BY <1>1, <2>2, PublishesTo DEF TaskTables
  <2> QED
    BY <1>8, <2>1, <2>2 DEF FlowDone
<1>9. CASE Retried(t)
  BY <1>4, <1>9 DEF Retried
<1>10. CASE RunDropped(t)
  <2> DEFINE next == [r EXCEPT !.pc = "dropped"]
  <2>1. task' = task /\ Goes(t, next)
    BY <1>10 DEF RunDropped
  <2>2. next.pc = "dropped"
    BY <1>1 DEF RunnerFields
  <2> HIDE DEF next
  <2> QED
    BY <1>1, <2>1, <2>2, GoesTo DEF TaskTables
<1>11. CASE Planned(t) \/ FlowFailed(t) \/ FlowTimeout(t)
  <2>1. FlowRaises(t, r, "failed") \/ FlowRaises(t, r, "timeout")
    BY <1>11 DEF Planned, FlowFailed, FlowTimeout
  <2> QED
    BY <1>1, <2>1, FlowRaisesElsewhere
<1>12. ~StepBreaks(t) /\ \A ok \in BOOLEAN : ~StepEnds(t, ok)
  BY <1>1 DEF StepBreaks, StepEnds
<1> QED
  BY <1>6, <1>7, <1>8, <1>9, <1>10, <1>11, <1>12 DEF RunSteps, RunMoves

LEMMA StepsEnter ==
  ASSUME load \in Loads, TasksInv, [Next]_vars, NoStep, ~BusOpen
  PROVE  NoStep'
<1>1. CASE runner' = runner
  BY <1>1 DEF NoStep
<1>2. ASSUME NEW t \in load.tasks, TaskGoes(t) PROVE NoStep'
  BY <1>1, <1>2, LifecycleAssumption, RunStepsEnter DEF TaskGoes, tvars
<1>3. ASSUME NEW f \in Flows, CancelFlow(f) PROVE NoStep'
  <2>0. PICK t : t = active[f]
    OBVIOUS
  <2>1. runner' = [runner EXCEPT ![t].flow = "cancelled"] /\ DOMAIN runner = Tasks
    BY <1>3, <2>0 DEF CancelFlow, TasksInv, TaskTables
  <2>2. ASSUME NEW u \in Tasks PROVE runner'[u].pc = runner[u].pc
    <3>1. DOMAIN runner[u] = RunnerFields
      BY DEF TasksInv, TaskInv, TaskShape
    <3> QED
      BY <2>1, <3>1 DEF RunnerFields
  <2> QED
    BY <2>2 DEF NoStep
<1>4. CASE TaskCalls
  <2>1. ASSUME NEW t, Create(t, "running") \/ TaskCall(t) PROVE NoStep'
    BY <1>1, <2>1 DEF TaskCall, Create, Call, Cancel, Destroy, Reject
  <2> QED
    BY <1>3, <1>4, <2>1 DEF TaskCalls
<1>5. CASE StartNext \/ StartFails \/ \E ok \in BOOLEAN : Close(ok)
  BY <1>1, <1>5 DEF StartNext, StartFails, Close, Unseen, tvars
<1>6. CASE Start \/ StartCancelled \/ Ready
  BY <1>1, <1>6 DEF Start, StartCancelled, Ready, Unseen, tvars
<1>7. CASE Drain \/ CancelJobs \/ \E ok \in BOOLEAN : CloseDatabases(ok)
  BY <1>1, <1>7 DEF Drain, CancelJobs, CloseDatabases, Unseen, tvars
<1>8. CASE \E c \in Waiters : Shutdown(c) \/ Returns(c) \/ CallerCancelled(c)
  BY <1>1, <1>8 DEF Shutdown, Returns, CallerCancelled, Unseen, tvars
<1>9. CASE Tick \/ Request \/ \E j \in Jobs : JobEnds(j)
  BY <1>1, <1>9 DEF Tick, Request, JobEnds, Unseen, tvars
<1>10. CASE Rest \/ UNCHANGED vars
  BY <1>1, <1>10 DEF Rest, vars, tvars
<1> QED
  BY <1>2, <1>4, <1>5, <1>6, <1>7, <1>8, <1>9, <1>10 DEF Next, Works

LEMMA TaskGoesKeeps ==
  ASSUME LifecycleInv, OutlivedInv, NEW t \in Tasks, TaskGoes(t)
  PROVE  LifecycleInv'
<1>1. LifecycleTypes /\ PhaseInv /\ JobsInv /\ UntouchedInv /\ ClosedInv
  BY DEF LifecycleInv
<1>2. UNCHANGED <<up, lc, start, startFailed, shut, call, failures, jobs, request, overtaken,
                  outlived>>
  BY DEF TaskGoes
<1>3. conn' = conn \/ (conn' = TRUE /\ ~NoStep)
  <2>1. CASE runner[t].pc = "step"
    <3>1. conn' \in {conn, TRUE}
      BY <2>1, <1>1, Zenon DEF TaskGoes, LifecycleTypes
    <3> QED
      BY <2>1, <3>1 DEF NoStep
  <2>2. CASE runner[t].pc # "step"
    BY <2>2, <1>1 DEF TaskGoes, LifecycleTypes
  <2> QED
    BY <2>1, <2>2
<1>4. LifecycleTypes'
  <2>1. conn' \in BOOLEAN
    BY <1>1, <1>3 DEF LifecycleTypes
  <2> QED
    BY <1>1, <1>2, <2>1 DEF LifecycleTypes
<1>5. PhaseInv' /\ JobsInv'
  BY <1>1, <1>2 DEF PhaseInv, JobsInv, NoJob
<1>6. UntouchedInv'
  BY <1>1, <1>2, <1>3 DEF UntouchedInv, OutlivedInv
<1>7. ClosedInv'
  BY <1>1, <1>2, <1>3 DEF ClosedInv, OutlivedInv
<1> QED
  BY <1>4, <1>5, <1>6, <1>7 DEF LifecycleInv

LEMMA LifecycleKeeps ==
  ASSUME load \in Loads, LifecycleInv, OutlivedInv, [Next]_vars
  PROVE  LifecycleInv'
<1>1. CASE TaskCalls \/ Rest \/ UNCHANGED vars
  BY <1>1, LifecycleUntouched DEF TaskCalls, Rest, vars
<1>2. CASE \E t \in load.tasks : TaskGoes(t)
  BY <1>2, LifecycleAssumption, TaskGoesKeeps
<1>3. CASE Start \/ StartNext \/ StartCancelled \/ Ready
  BY <1>3, StartsKeep
<1>4. CASE StartFails \/ \E c \in Waiters : Shutdown(c) \/ Returns(c)
  BY <1>4, CallersKeep
<1>5. CASE CancelJobs \/ \E c \in Waiters : CallerCancelled(c)
  BY <1>5, CancelsKeep
<1>6. CASE Drain \/ \E ok \in BOOLEAN : Close(ok) \/ CloseDatabases(ok)
  BY <1>6, DrainKeeps, CloseKeeps, CloseDatabasesKeeps
<1>7. CASE Tick \/ Request \/ \E j \in Jobs : JobEnds(j)
  BY <1>7, TickKeeps, RequestKeeps, JobEndsKeeps
<1> QED
  BY <1>1, <1>2, <1>3, <1>4, <1>5, <1>6, <1>7 DEF Next, Works

\* Nothing comes back to the state before start, and only the closing of the
\* databases ends the shutdown.
LEMMA PhasesPass ==
  ASSUME LifecycleInv, [Next]_vars
  PROVE  /\ lc' = "created" => lc = "created"
         /\ lc' \in Final /\ shut' = 0 => shut = 0 /\ lc \in Final \cup {"created"}
         /\ shut' = Ended => \/ /\ shut = Ended /\ failures' = failures
                                /\ outlived' = outlived /\ overtaken' = overtaken
                             \/ \E ok \in BOOLEAN : CloseDatabases(ok)
<1>1. PhaseInv /\ LifecycleTypes
  BY DEF LifecycleInv
<1>2. CASE UNCHANGED <<lc, shut, failures, outlived, overtaken>>
  BY <1>2
<1>3. CASE TaskCalls \/ Rest \/ UNCHANGED vars
  BY <1>2, <1>3 DEF TaskCalls, Rest, vars, svars
<1>4. CASE \E t \in load.tasks : TaskGoes(t)
  BY <1>2, <1>4 DEF TaskGoes
<1>5. CASE StartNext \/ StartCancelled \/ Tick \/ Request \/ \E j \in Jobs : JobEnds(j)
  BY <1>2, <1>5 DEF StartNext, StartCancelled, Tick, Request, JobEnds, Unseen
<1>6. CASE CancelJobs \/ \E c \in Waiters : Returns(c)
  BY <1>2, <1>6 DEF CancelJobs, Returns, Unseen
<1>7. CASE Start \/ Ready
  BY <1>7 DEF Start, Ready, Unseen, Final
<1>8. ASSUME NEW c, Calls(c), UNCHANGED <<failures, outlived, overtaken>>
      PROVE  /\ lc' = "created" => lc = "created"
             /\ lc' \in Final /\ shut' = 0 => shut = 0 /\ lc \in Final \cup {"created"}
             /\ shut' = Ended => shut = Ended
  BY <1>1, <1>8, CloseTurns DEF Calls, PhaseInv, Final
<1>9. CASE StartFails \/ \E c \in Waiters : Shutdown(c)
  <2>1. (\E c : Calls(c)) /\ UNCHANGED <<failures, outlived, overtaken>>
    BY <1>9 DEF StartFails, Shutdown, Unseen
  <2> QED
    BY <1>8, <2>1
<1>10. CASE \E c \in Waiters : CallerCancelled(c)
  <2>1. /\ lc' = lc /\ shut' = Cut
        /\ UNCHANGED <<failures, outlived, overtaken>>
    BY <1>10 DEF CallerCancelled, Unseen
  <2> QED
    BY <2>1, CloseTurns DEF Final
<1>11. CASE Drain
  <2>1. lc' = "draining" /\ shut' = 2
    BY <1>11, CloseTurns, TurnsOf DEF Drain, Closing
  <2> QED
    BY <2>1, CloseTurns DEF Final
<1>12. ASSUME NEW ok \in BOOLEAN, Close(ok)
       PROVE  lc' = lc /\ shut' # 0 /\ shut' # Ended
  BY <1>12, CloseTurns, TurnsOf DEF Close, Closing
<1>13. ASSUME NEW ok \in BOOLEAN, CloseDatabases(ok)
       PROVE  lc' # "created" /\ shut' = Ended /\ shut' # 0
  BY <1>13, CloseTurns DEF CloseDatabases
<1> QED
  BY <1>3, <1>4, <1>5, <1>6, <1>7, <1>9, <1>10, <1>11, <1>12, <1>13 DEF Next, Works

LEMMA OutlivedKeeps ==
  ASSUME load \in Loads, TasksInv, LifecycleInv, OutlivedInv, [Next]_vars
  PROVE  OutlivedInv'
<1>1. UntouchedInv /\ ClosedInv
  BY DEF LifecycleInv
<1>2. (lc = "created" \/ (lc \in Final /\ shut = 0) => NoStep)'
  <2> SUFFICES ASSUME lc' = "created" \/ (lc' \in Final /\ shut' = 0) PROVE NoStep'
    OBVIOUS
  <2>1. lc = "created" \/ (lc \in Final /\ shut = 0)
    BY PhasesPass
  <2>2. NoStep /\ ~BusOpen
    BY <1>1, <2>1 DEF OutlivedInv, UntouchedInv, BusOpen
  <2> QED
    BY <2>2, StepsEnter
<1>3. (shut = Ended /\ ~overtaken => NoStep \/ outlived \/ failures)'
  <2> SUFFICES ASSUME shut' = Ended, ~overtaken', ~outlived', ~failures' PROVE NoStep'
    OBVIOUS
  <2>1. CASE /\ shut = Ended /\ failures' = failures
             /\ outlived' = outlived /\ overtaken' = overtaken
    <3>1. NoStep /\ up = {}
      BY <1>1, <2>1, CloseTurns DEF OutlivedInv, ClosedInv
    <3> QED
      BY <3>1, StepsEnter DEF BusOpen
  <2>2. CASE \E ok \in BOOLEAN : CloseDatabases(ok)
    <3>1. outlived' = (request \/ \E t \in Tasks : runner[t].pc = "step") /\ runner' = runner
      BY <2>2 DEF CloseDatabases, tvars
    <3>2. \A t \in Tasks : runner[t].pc # "step"
      BY <3>1, Zenon
    <3> QED
      BY <3>1, <3>2 DEF NoStep
  <2> QED
    BY <2>1, <2>2, PhasesPass
<1> QED
  BY <1>2, <1>3 DEF OutlivedInv

LEMMA OutlivedBegins == Init => OutlivedInv
<1> SUFFICES ASSUME Init PROVE OutlivedInv
  OBVIOUS
<1>1. runner = [t \in Tasks |-> Runner("idle", 1, 0, "none")] /\ shut = 0
  BY DEF Init, TaskInit
<1>2. NoStep
  BY <1>1 DEF NoStep, Runner
<1> QED
  BY <1>1, <1>2, CloseTurns DEF OutlivedInv

LEMMA OrderFollows == LifecycleInv => ShutdownOrderly
<1> SUFFICES ASSUME LifecycleInv PROVE ShutdownOrderly
  OBVIOUS
<1>1. LifecycleTypes /\ PhaseInv /\ JobsInv /\ UntouchedInv /\ ClosedInv
  BY DEF LifecycleInv
<1>2. lc \in Final /\ ~overtaken =>
        /\ (lc = "stopped" => ~startFailed /\ up = {})
        /\ (up # {} => failures)
        /\ (conn => outlived \/ failures)
  <2>1. CASE lc \in Final /\ shut = 0
    BY <1>1, <2>1 DEF UntouchedInv
  <2>2. CASE lc \in Final /\ shut = Ended
    <3>1. ~overtaken => (failures \/ up = {})
      BY <1>1, <2>2, CloseTurns DEF ClosedInv
    <3> QED
      BY <1>1, <2>2, <3>1 DEF ClosedInv
  <2> QED
    BY <1>1, <2>1, <2>2 DEF PhaseInv
<1> QED
  BY <1>1, <1>2 DEF ShutdownOrderly, JobsInv, NoJob, ClosedInv, Base

\* Start, work and shutdown meet in every order and leave the system as it may be.
THEOREM LifecycleInvariant ==
  Spec => [](load \in Loads /\ TasksInv /\ LifecycleInv /\ OutlivedInv)
<1> DEFINE I == load \in Loads /\ TasksInv /\ LifecycleInv /\ OutlivedInv
<1>1. Init => I
  BY TasksBegin, LifecycleBegins, OutlivedBegins
<1>2. I /\ [Next]_vars => I'
  BY TasksKeep, LifecycleKeeps, OutlivedKeeps
<1> QED
  BY <1>1, <1>2, PTL DEF Spec

\* Jobs find what they work with open, and who has waited for shutdown finds it done.
THEOREM ShutdownIsOrderly == Spec => []ShutdownOrderly
  BY LifecycleInvariant, OrderFollows, PTL

-----------------------------------------------------------------------------
(* The agent *)

AgentShape ==
  /\ agent \in {"created", "ready", "running", "idle", "degraded", "error", "destroyed"}
  /\ memoryFailed \in BOOLEAN /\ failed \in BOOLEAN

\* The agent is there from the third stage of start to the eleventh of shutdown.
AgentPhase ==
  /\ lc = "ready" => /\ up = Components /\ start = 0 /\ provider = "ready"
                     /\ agent \in Runnable \cup {"error"}
  /\ lc = "starting" => /\ start > 1 => provider = "ready"
                        /\ start > 3 => agent \in Runnable \cup {"error"}
  /\ shut \in 12..Ended => agent = "destroyed"
  /\ agent = "destroyed" => lc \in {"draining"} \cup Final

\* It is in error from the first request on that failed.
ErrorKept ==
  /\ agent = "error" => failed
  /\ failed => agent \in {"error", "destroyed"}

AgentInv == AgentShape /\ AgentPhase /\ ErrorKept

LEMMA AgentInvBegins == AgentInit => AgentInv
<1> SUFFICES ASSUME AgentInit PROVE AgentInv
  OBVIOUS
<1>1. /\ Init /\ load \in Loads /\ load.ready \in BOOLEAN
      /\ memoryFailed = FALSE /\ failed = FALSE /\ start = 0 /\ shut = 0
  BY LifecycleAssumption DEF AgentInit, Init
<1>2. \/ /\ lc = "ready" /\ up = Components /\ agent = "ready" /\ provider = "ready"
      \/ /\ lc = "created" /\ agent = "created"
  <2>1. CASE load.ready
    BY <2>1, Zenon DEF AgentInit, Init
  <2>2. CASE ~load.ready
    BY <2>2, Zenon DEF AgentInit, Init
  <2> QED
    BY <1>1, <2>1, <2>2
<1>3. AgentShape /\ ErrorKept
  BY <1>1, <1>2 DEF AgentShape, ErrorKept
<1>4. shut \notin 12..Ended
  BY <1>1, CloseTurns
<1>5. AgentPhase
  BY <1>1, <1>2, <1>4 DEF AgentPhase, Runnable
<1> QED
  BY <1>3, <1>5 DEF AgentInv

\* Where a transition leads, and what can not be left.
LEMMA AgentTransitions ==
  ASSUME AgentShape
  PROVE  /\ After(agent, "running") = IF agent \in Runnable THEN "running"
                                      ELSE agent
         /\ After(agent, "error") = IF agent = "destroyed" THEN agent ELSE "error"
         /\ After(After(agent, "running"), "error") =
              IF agent = "destroyed" THEN agent ELSE "error"
         /\ After(agent, "idle") = IF agent = "running" THEN "idle" ELSE agent
         /\ After(agent, "degraded") = IF agent = "running" THEN "degraded" ELSE agent
         /\ Initialized(agent) = IF agent = "created" THEN "ready" ELSE agent
         /\ Destroyed(agent) = "destroyed"
  BY DEF AgentShape, After, AgentMoves, Initialized, Destroyed, Runnable

LEMMA AgentStepKeeps ==
  ASSUME AgentInv, UNCHANGED <<up, lc, start, shut, provider>>, memoryFailed' \in BOOLEAN,
         \/ agent' = agent /\ failed' = failed
         \/ /\ failed' = failed
            /\ agent' \in {After(agent, "running"), After(agent, "idle"), After(agent, "degraded")}
         \/ /\ failed' = TRUE
            /\ agent' \in {After(agent, "error"), After(After(agent, "running"), "error")}
  PROVE  AgentInv'
<1>1. AgentShape /\ AgentPhase /\ ErrorKept
  BY DEF AgentInv
<1>2. \/ agent' = agent /\ failed' = failed
      \/ /\ failed' = failed /\ agent \in Runnable /\ agent' \in Runnable
      \/ /\ failed' = TRUE
         /\ \/ agent = "destroyed" /\ agent' = "destroyed"
            \/ agent # "destroyed" /\ agent' = "error"
  BY <1>1, AgentTransitions DEF Runnable
<1>3. AgentShape'
  BY <1>1, <1>2 DEF AgentShape, Runnable
<1>4. AgentPhase'
  BY <1>1, <1>2 DEF AgentPhase, Runnable
<1>5. ErrorKept'
  BY <1>1, <1>2 DEF ErrorKept, Runnable
<1> QED
  BY <1>3, <1>4, <1>5 DEF AgentInv

LEMMA WorksPass ==
  ASSUME LifecycleInv, Works
  PROVE  /\ up' = up
         /\ lc' = "ready" => \/ lc = "ready" /\ start' \in {start, 0}
                             \/ lc = "starting" /\ start = 8 /\ start' = 0
         /\ lc' = "starting" => \/ lc = "starting" /\ start' \in {start, 0}
                                \/ start' = 1
         /\ shut' \in 12..Ended => shut \in 12..Ended
         /\ lc \in {"draining"} \cup Final => lc' \in {"draining"} \cup Final
<1>1. PhaseInv /\ LifecycleTypes
  BY DEF LifecycleInv
<1>2. CASE UNCHANGED <<up, lc, start, shut>>
  BY <1>2
<1>3. CASE TaskCalls \/ Rest
  BY <1>2, <1>3 DEF TaskCalls, Rest, vars, svars
<1>4. CASE Tick \/ Request \/ \E j \in Jobs : JobEnds(j)
  BY <1>2, <1>4 DEF Tick, Request, JobEnds, Unseen
<1>5. CASE CancelJobs \/ \E c \in Waiters : Returns(c)
  BY <1>2, <1>5 DEF CancelJobs, Returns, Unseen
<1>6. CASE Start \/ StartCancelled
  BY <1>6 DEF Start, StartCancelled, Unseen, Final
<1>7. CASE Ready
  BY <1>7, StartTurns DEF Ready, Unseen, Final
<1>8. CASE \E c \in Waiters : CallerCancelled(c)
  <2>1. UNCHANGED <<up, lc, start>> /\ shut' = Cut
    BY <1>8 DEF CallerCancelled, Unseen
  <2> QED
    BY <2>1, CloseTurns
<1>9. ASSUME NEW c \in Waiters, Shutdown(c)
      PROVE  /\ UNCHANGED <<up, start>> /\ lc' \in {lc, "stopped"} /\ shut' \in {shut, 1}
             /\ lc' # lc => lc = "created"
  BY <1>9 DEF Shutdown, Calls, Unseen
<1>10. CASE Drain
  <2>1. lc' = "draining" /\ shut' = 2 /\ UNCHANGED <<up, start>>
    BY <1>10, CloseTurns, TurnsOf DEF Drain, Closing
  <2> QED
    BY <2>1, CloseTurns
<1>11. ASSUME NEW ok \in BOOLEAN, CloseDatabases(ok)
       PROVE  lc' \in Final /\ shut = 13 /\ UNCHANGED <<up, start>>
  BY <1>11, CloseTurns, TurnsOf DEF CloseDatabases, Closing, Final
<1>12. CASE \E c \in Waiters : Shutdown(c)
  BY <1>9, <1>12, CloseTurns DEF Final
<1>13. CASE \E ok \in BOOLEAN : CloseDatabases(ok)
  BY <1>11, <1>13, CloseTurns DEF Final
<1> QED
  BY <1>3, <1>4, <1>5, <1>6, <1>7, <1>8, <1>10, <1>12, <1>13 DEF Works

LEMMA WorksKeepAgent ==
  ASSUME LifecycleInv, AgentInv, Works, UNCHANGED avars
  PROVE  AgentInv'
<1>1. AgentShape /\ AgentPhase /\ ErrorKept /\ JobsInv /\ LifecycleTypes
  BY DEF AgentInv, LifecycleInv
<1>2. UNCHANGED <<agent, provider, memoryFailed, failed>>
  BY DEF avars
<1>3. AgentShape' /\ ErrorKept'
  BY <1>1, <1>2 DEF AgentShape, ErrorKept
<1>4. lc = "starting" /\ start = 8 => up = Components
  <2>1. lc = "starting" /\ start = 8 => \A n \in 1..7 : StartOrder[n] \in up
    BY <1>1, StartTurns DEF JobsInv
  <2>2. lc = "starting" /\ start = 8 => Components \subseteq up
    BY <2>1, StartTurns DEF Components
  <2> QED
    BY <1>1, <2>2 DEF LifecycleTypes
<1>5. AgentPhase'
  BY <1>1, <1>2, <1>4, WorksPass DEF AgentPhase
<1> QED
  BY <1>3, <1>5 DEF AgentInv

LEMMA OpensKeepAgent ==
  ASSUME LifecycleInv, AgentInv, Opens
  PROVE  AgentInv'
<1>1. AgentShape /\ AgentPhase /\ ErrorKept
  BY DEF AgentInv
<1>2. /\ start \in 1..7 /\ start' = start + 1 /\ UNCHANGED <<lc, shut, memoryFailed, failed>>
      /\ agent' = IF start = 3 THEN Initialized(agent) ELSE agent
      /\ provider' = IF start = 1 THEN "ready" ELSE provider
  <2>1. start \in 1..7
    BY StartTurns DEF Opens, StartNext
  <2>2. \A n \in 1..7 : /\ StartOrder[n] = "bus" <=> n = 1
                        /\ StartOrder[n] = "workflow" <=> n = 3
    <3>1. \A n \in 1..7 : n \in {1, 2, 3, 4, 5, 6, 7}
      OBVIOUS
    <3> QED
      BY <3>1 DEF StartOrder
  <2> QED
    BY <2>1, <2>2, StartTurns DEF Opens, StartNext, Starts, Unseen
<1>3. lc # "ready"
  BY <1>1, <1>2 DEF AgentPhase
<1>4. agent' = agent \/ (agent = "created" /\ agent' = "ready")
  BY <1>1, <1>2, AgentTransitions
<1>5. AgentShape' /\ ErrorKept'
  BY <1>1, <1>2, <1>4 DEF AgentShape, ErrorKept
<1>6. (lc = "starting" => /\ start > 1 => provider = "ready"
                          /\ start > 3 => agent \in Runnable \cup {"error"})'
  <2> SUFFICES ASSUME lc = "starting"
               PROVE  /\ start' > 1 => provider' = "ready"
                      /\ start' > 3 => agent' \in Runnable \cup {"error"}
    BY <1>2
  <2>1. start' > 1 => provider' = "ready"
    BY <1>1, <1>2 DEF AgentPhase
  <2>2. agent # "destroyed"
    BY <1>1 DEF AgentPhase, Final
  <2>3. start' > 3 => agent' \in Runnable \cup {"error"}
    BY <1>1, <1>2, <2>2, AgentTransitions DEF AgentPhase, AgentShape, Runnable
  <2> QED
    BY <2>1, <2>3
<1>7. AgentPhase'
  BY <1>1, <1>2, <1>3, <1>4, <1>6, CloseTurns DEF AgentPhase
<1> QED
  BY <1>5, <1>7 DEF AgentInv

LEMMA OpenFailsKeepsAgent ==
  ASSUME LifecycleInv, AgentInv, OpenFails
  PROVE  AgentInv'
<1>1. AgentShape /\ AgentPhase /\ ErrorKept /\ PhaseInv
  BY DEF AgentInv, LifecycleInv
<1>2. /\ start # 0 /\ start' = 0 /\ UNCHANGED <<up, memoryFailed, failed>>
      /\ lc' \in {lc, "stopped"} /\ shut' \in {shut, 1} /\ (lc' # lc => lc = "created")
      /\ agent' \in {agent, Initialized(agent)}
  BY StartTurns DEF OpenFails, StartFails, Calls, Unseen
<1>3. lc \notin {"created", "ready"}
  BY <1>1, <1>2 DEF AgentPhase, PhaseInv
<1>4. agent' = agent \/ (agent = "created" /\ agent' = "ready")
  BY <1>1, <1>2, AgentTransitions
<1>5. AgentShape' /\ ErrorKept'
  BY <1>1, <1>2, <1>4 DEF AgentShape, ErrorKept
<1>6. AgentPhase'
  BY <1>1, <1>2, <1>3, <1>4, CloseTurns DEF AgentPhase
<1> QED
  BY <1>5, <1>6 DEF AgentInv

LEMMA ClosesKeepAgent ==
  ASSUME LifecycleInv, AgentInv, NEW ok \in BOOLEAN, Closes(ok) \/ ProviderCloses
  PROVE  AgentInv'
<1>1. AgentShape /\ AgentPhase /\ ErrorKept /\ PhaseInv
  BY DEF AgentInv, LifecycleInv
<1>2. CASE ProviderCloses
  <2>1. /\ shut = 12 /\ UNCHANGED <<lc, shut, start, up, agent, memoryFailed, failed>>
    BY <1>2, CloseTurns, TurnsOf DEF ProviderCloses, Closing, vars, svars, Base
  <2>2. lc = "draining"
    BY <1>1, <2>1, CloseTurns DEF PhaseInv
  <2>3. AgentShape' /\ ErrorKept'
    BY <1>1, <2>1 DEF AgentShape, ErrorKept
  <2>4. AgentPhase'
    BY <1>1, <2>1, <2>2 DEF AgentPhase
  <2> QED
    BY <2>3, <2>4 DEF AgentInv
<1>3. CASE Closes(ok)
  <2>1. /\ shut \in 2..12 /\ shut' = shut + 1 /\ UNCHANGED <<lc, start, memoryFailed, failed>>
        /\ agent' = IF CloseOrder[shut] = "workflow" THEN Destroyed(agent) ELSE agent
    BY <1>3, CloseTurns, TurnsOf DEF Closes, Close, Closing
  <2>2. lc = "draining"
    BY <1>1, <2>1, CloseTurns DEF PhaseInv
  <2>3. agent' \in {agent, "destroyed"} /\ (shut = 11 => agent' = "destroyed")
    BY <1>1, <2>1, AgentTransitions, CloseTurns
  <2>4. AgentShape' /\ ErrorKept'
    BY <1>1, <2>1, <2>3 DEF AgentShape, ErrorKept
  <2>5. (shut \in 12..Ended => agent = "destroyed")'
    BY <1>1, <2>1, <2>3, CloseTurns DEF AgentPhase
  <2>6. AgentPhase'
    BY <2>1, <2>2, <2>5 DEF AgentPhase
  <2> QED
    BY <2>4, <2>6 DEF AgentInv
<1> QED
  BY <1>2, <1>3

\* What serves a step leaves start and shutdown alone and moves the agent as it may.
LEMMA FailsMoves ==
  ASSUME NEW t, Fails(t) \/ AgentRaises(t, agent)
  PROVE  /\ Held
         /\ \/ agent' = agent /\ failed' = failed
            \/ agent' = After(agent, "error") /\ failed' = TRUE
  BY DEF Fails, AgentRaises, Inside

LEMMA AgentEndsMoves ==
  ASSUME AgentShape, NEW t, AgentEnds(t)
  PROVE  \/ /\ failed' = failed
            /\ agent' \in {After(agent, "idle"), After(agent, "degraded")}
         \/ failed' = TRUE /\ agent' = After(agent, "error")
<1>1. /\ ask[t] \in {"completed", "degraded", "failed"}
      /\ agent' = After(agent, CASE ask[t] = "completed" -> "idle"
                                 [] ask[t] = "degraded"  -> "degraded"
                                 [] OTHER                -> "error")
      /\ failed' = (failed \/ ask[t] = "failed") /\ failed \in BOOLEAN
  BY DEF AgentEnds, AgentShape
<1>2. CASE ask[t] = "failed"
  <2>1. failed' = TRUE
    BY <1>1, <1>2, Zenon
  <2>2. agent' = After(agent, "error")
    BY <1>1, <1>2
  <2> QED
    BY <2>1, <2>2
<1>3. CASE ask[t] # "failed"
  <2>1. failed' = failed
    BY <1>1, <1>3, Zenon
  <2>2. agent' \in {After(agent, "idle"), After(agent, "degraded")}
    BY <1>1, <1>3
  <2> QED
    BY <2>1, <2>2
<1> QED
  BY <1>2, <1>3

LEMMA StepWorksKeepAgent ==
  ASSUME AgentInv, NEW t, StepWorks(t)
  PROVE  AgentInv'
<1>1. AgentShape
  BY DEF AgentInv
<1>2. ASSUME Held, UNCHANGED provider, memoryFailed' \in BOOLEAN,
             \/ agent' = agent /\ failed' = failed
             \/ /\ failed' = failed
                /\ agent' \in {After(agent, "running"), After(agent, "idle"),
                               After(agent, "degraded")}
             \/ /\ failed' = TRUE
                /\ agent' \in {After(agent, "error"), After(After(agent, "running"), "error")}
      PROVE  AgentInv'
  BY <1>2, AgentStepKeeps DEF Held
<1>3. memoryFailed \in BOOLEAN
  BY <1>1 DEF AgentShape
<1>4. CASE Slept(t) \/ Refused(t) \/ ToolBegins(t) \/ \E ok \in BOOLEAN : ToolEnds(t, ok)
  <2>1. Held /\ UNCHANGED <<agent, provider, memoryFailed, failed>>
    BY <1>4 DEF Slept, Refused, ToolBegins, ToolEnds, Ends, Inside
  <2> QED
    BY <1>2, <1>3, <2>1
<1>5. CASE AgentRefuses(t)
  <2>1. Held /\ UNCHANGED <<agent, provider, memoryFailed, failed>>
    BY <1>5 DEF AgentRefuses, avars
  <2> QED
    BY <1>2, <1>3, <2>1
<1>6. CASE AgentBegins(t)
  <2>1. /\ Held /\ UNCHANGED <<provider, memoryFailed>>
        /\ \/ agent' = After(agent, "running") /\ failed' = failed
           \/ agent' = After(After(agent, "running"), "error") /\ failed' = TRUE
    BY <1>6 DEF AgentBegins, AgentRaises, Inside
  <2> QED
    BY <1>2, <1>3, <2>1
<1>7. CASE Unconfigured(t)
  BY <1>2, <1>3, <1>7, FailsMoves DEF Unconfigured
<1>8. ASSUME NEW ok \in BOOLEAN, NEW found \in BOOLEAN, Retrieves(t, ok, found)
      PROVE  AgentInv'
  <2>1. memoryFailed' \in BOOLEAN /\ provider' = provider
    BY <1>8, Zenon DEF Retrieves
  <2>2. /\ Held
        /\ \/ agent' = agent /\ failed' = failed
           \/ agent' = After(agent, "error") /\ failed' = TRUE
    <3>1. CASE Fails(t)
      BY <3>1, FailsMoves
    <3>2. CASE Inside(t) /\ UNCHANGED <<agent, failed>>
      BY <3>2 DEF Inside
    <3> QED
      BY <1>8, <3>1, <3>2 DEF Retrieves
  <2> QED
    BY <1>2, <2>1, <2>2
<1>9. ASSUME NEW ok \in BOOLEAN, Consults(t, ok) \/ ModelEnds(t, ok)
      PROVE  AgentInv'
  <2>1. /\ Held /\ UNCHANGED <<provider, memoryFailed>>
        /\ \/ agent' = agent /\ failed' = failed
           \/ agent' = After(agent, "error") /\ failed' = TRUE
    <3>1. CASE Fails(t)
      BY <1>9, <3>1, FailsMoves DEF Consults, ModelEnds
    <3>2. CASE Inside(t) /\ UNCHANGED <<agent, failed>>
      BY <1>9, <3>2 DEF Inside, Consults, ModelEnds
    <3> QED
      BY <1>9, <3>1, <3>2 DEF Consults, ModelEnds
  <2> QED
    BY <1>2, <1>3, <2>1
<1>10. ASSUME NEW ok \in BOOLEAN, Saves(t, ok)
       PROVE  AgentInv'
  <2>1. memoryFailed' \in BOOLEAN /\ provider' = provider
    BY <1>10, Zenon DEF Saves
  <2>2. /\ Held
        /\ \/ agent' = agent /\ failed' = failed
           \/ agent' = After(agent, "error") /\ failed' = TRUE
    BY <1>10 DEF Saves, AgentRaises, Inside
  <2> QED
    BY <1>2, <2>1, <2>2
<1>11. CASE Answers(t)
  <2>1. /\ Held /\ UNCHANGED <<provider, memoryFailed>>
        /\ \/ agent' = agent /\ failed' = failed
           \/ agent' = After(agent, "error") /\ failed' = TRUE
    BY <1>11 DEF Answers, AgentRaises, Inside
  <2> QED
    BY <1>2, <1>3, <2>1
<1>12. CASE AgentEnds(t)
  <2>1. Held /\ UNCHANGED <<provider, memoryFailed>>
    BY <1>12 DEF AgentEnds, Ends
  <2> QED
    BY <1>1, <1>2, <1>3, <1>12, <2>1, AgentEndsMoves
<1> QED
  BY <1>4, <1>5, <1>6, <1>7, <1>8, <1>9, <1>10, <1>11, <1>12 DEF StepWorks

LEMMA AgentKeeps ==
  ASSUME LifecycleInv, AgentInv, [AgentNext]_<<vars, avars>>
  PROVE  AgentInv'
<1>1. CASE UNCHANGED <<vars, avars>>
  <2>1. UNCHANGED <<up, lc, start, shut, agent, provider, memoryFailed, failed>>
    BY <1>1 DEF vars, svars, avars
  <2>2. memoryFailed' \in BOOLEAN
    BY <2>1 DEF AgentInv, AgentShape
  <2> QED
    BY <2>1, <2>2, AgentStepKeeps
<1>2. CASE Works /\ UNCHANGED avars
  BY <1>2, WorksKeepAgent
<1>3. CASE Opens \/ OpenFails \/ ProviderCloses \/ \E ok \in BOOLEAN : Closes(ok)
  BY <1>3, OpensKeepAgent, OpenFailsKeepsAgent, ClosesKeepAgent
<1>4. ASSUME NEW t, Between(t) \/ CutOff(t) PROVE AgentInv'
  <2>1. UNCHANGED <<up, lc, start, shut, agent, provider, memoryFailed, failed>>
    BY <1>4 DEF Between, CutOff, Held
  <2>2. memoryFailed' \in BOOLEAN
    BY <2>1 DEF AgentInv, AgentShape
  <2> QED
    BY <2>1, <2>2, AgentStepKeeps
<1> QED
  BY <1>1, <1>2, <1>3, <1>4, StepWorksKeepAgent DEF AgentNext

LEMMA TruthFollows == LifecycleInv /\ AgentInv => AgentTruthful
<1> SUFFICES ASSUME LifecycleInv, AgentInv PROVE AgentTruthful
  OBVIOUS
<1>1. AgentShape /\ AgentPhase /\ ErrorKept
  BY DEF AgentInv
<1>2. ASSUME lc = "ready" PROVE Health = "failed" <=> failed \/ memoryFailed
  <2>1. /\ up = Components /\ provider = "ready" /\ agent \in Runnable \cup {"error"}
        /\ (agent = "error" <=> failed)
    BY <1>1, <1>2 DEF AgentPhase, ErrorKept, Runnable
  <2>2. Health = IF memoryFailed \/ agent = "error" THEN "failed"
                 ELSE IF agent = "degraded" THEN "degraded" ELSE "healthy"
    BY <1>2, <2>1 DEF Health, Final, Runnable
  <2> QED
    BY <2>1, <2>2
<1>3. shut = Ended => agent \notin Runnable
  BY <1>1, CloseTurns DEF AgentPhase, Runnable
<1> QED
  BY <1>2, <1>3 DEF AgentTruthful

-----------------------------------------------------------------------------
(* AgentRuntime implements SystemLifecycle *)

\* However a step is served, the task sees it end, fail, break or go on.
LEMMA StepWorksGoes ==
  ASSUME NEW t, StepWorks(t)
  PROVE  TaskGoes(t)
<1> DEFINE Moved == /\ RunSteps(t) \/ (runner[t].pc = "step" /\ UNCHANGED tvars)
                    /\ Held
<1>1. ASSUME Moved, conn' = conn \/ (runner[t].pc = "step" /\ conn' \in {conn, TRUE})
      PROVE  TaskGoes(t)
  <2>1. conn' \in {conn, conn \/ runner[t].pc = "step"}
    <3>1. CASE runner[t].pc = "step" /\ conn' = TRUE
      BY <3>1, Zenon
    <3>2. CASE conn' = conn
      BY <3>2
    <3> QED
      BY <1>1, <3>1, <3>2
  <2> QED
    BY <1>1, <2>1 DEF TaskGoes, Held
<1>2. ASSUME NEW st, AgentRaises(t, st) PROVE Moved
  BY <1>2 DEF AgentRaises, RunSteps
<1>3. Fails(t) => Moved
  BY <1>2 DEF Fails, Inside
<1>4. Inside(t) => Moved
  BY DEF Inside
<1>5. ASSUME NEW ok, Ends(t, ok), ok \in BOOLEAN PROVE Moved
  BY <1>5 DEF Ends, RunSteps
<1>6. CASE Slept(t) \/ Refused(t) \/ AgentEnds(t) \/ \E ok \in BOOLEAN : ToolEnds(t, ok)
  <2>1. Moved /\ conn' = conn
    BY <1>5, <1>6 DEF Slept, Refused, AgentEnds, ToolEnds
  <2> QED
    BY <1>1, <2>1
<1>7. CASE ToolBegins(t)
  <2>1. Moved /\ conn' = conn
    BY <1>4, <1>7 DEF ToolBegins
  <2> QED
    BY <1>1, <2>1
<1>8. CASE AgentRefuses(t)
  <2>1. Moved /\ conn' = conn
    BY <1>8 DEF AgentRefuses, RunSteps
  <2> QED
    BY <1>1, <2>1
<1>9. CASE AgentBegins(t) \/ Answers(t)
  <2>1. Moved /\ conn' = conn
    BY <1>2, <1>4, <1>9 DEF AgentBegins, Answers
  <2> QED
    BY <1>1, <2>1
<1>10. CASE Unconfigured(t) \/ \E ok \in BOOLEAN : Consults(t, ok) \/ ModelEnds(t, ok)
  <2>1. Moved /\ conn' = conn
    BY <1>3, <1>4, <1>10 DEF Unconfigured, Consults, ModelEnds
  <2> QED
    BY <1>1, <2>1
<1>11. CASE \E ok, found \in BOOLEAN : Retrieves(t, ok, found)
  <2>1. Moved /\ runner[t].pc = "step" /\ conn' \in {conn, TRUE}
    BY <1>3, <1>4, <1>11 DEF Retrieves, Asks
  <2> QED
    BY <1>1, <2>1
<1>12. CASE \E ok \in BOOLEAN : Saves(t, ok)
  <2>1. Moved /\ runner[t].pc = "step" /\ conn' \in {conn, TRUE}
    BY <1>2, <1>4, <1>12 DEF Saves, Asks
  <2> QED
    BY <1>1, <2>1
<1> QED
  BY <1>6, <1>7, <1>8, <1>9, <1>10, <1>11, <1>12 DEF StepWorks

LEMMA AgentNextGoes == [AgentNext]_<<vars, avars>> => [Next]_vars
<1> SUFFICES ASSUME [AgentNext]_<<vars, avars>> PROVE [Next]_vars
  OBVIOUS
<1>1. CASE UNCHANGED <<vars, avars>>
  BY <1>1
<1>2. CASE Works /\ UNCHANGED avars
  BY <1>2 DEF Next
<1>3. CASE Opens \/ OpenFails \/ ProviderCloses \/ \E ok \in BOOLEAN : Closes(ok)
  <2>1. CASE ProviderCloses
    BY <2>1 DEF ProviderCloses
  <2>2. CASE Opens \/ OpenFails \/ \E ok \in BOOLEAN : Closes(ok)
    BY <2>2 DEF Opens, OpenFails, Closes, Next
  <2> QED
    BY <1>3, <2>1, <2>2
<1>4. ASSUME NEW t \in load.tasks, Between(t) \/ CutOff(t) \/ StepWorks(t)
      PROVE  Next
  <2>1. CASE Between(t) \/ CutOff(t)
    <3>1. RunSteps(t) /\ conn' = conn /\ Held
      BY <2>1 DEF Between, CutOff, RunSteps
    <3> QED
      BY <3>1 DEF TaskGoes, Held, Next
  <2>2. CASE StepWorks(t)
    BY <2>2, StepWorksGoes DEF Next
  <2> QED
    BY <1>4, <2>1, <2>2
<1> QED
  BY <1>1, <1>2, <1>3, <1>4 DEF AgentNext

\* The steps of the tasks are calls of the tools and of the agent, and start and
\* shutdown take the agent and its provider with them: what SystemLifecycle allows.
THEOREM AgentImplementsLifecycle == AgentSpec => Spec
<1>1. AgentInit => Init
  BY DEF AgentInit
<1> QED
  BY <1>1, AgentNextGoes, PTL DEF AgentSpec, Spec

THEOREM AgentInvariant ==
  AgentSpec => [](load \in Loads /\ TasksInv /\ LifecycleInv /\ AgentInv)
<1>1. LifecycleInv /\ AgentInv /\ [AgentNext]_<<vars, avars>> => AgentInv'
  BY AgentKeeps
<1> QED
  BY <1>1, AgentInvBegins, AgentImplementsLifecycle, LifecycleInvariant, PTL DEF AgentSpec

\* While the system is ready its health fails with the agent's first failure, or the
\* memory's last, and with nothing else; a closed system serves no request.
THEOREM HealthIsTruthful == AgentSpec => []AgentTruthful
  BY AgentInvariant, TruthFollows, PTL

-----------------------------------------------------------------------------
(* The steps that were done *)

StepCount(t) == Steps[Plan[t][runner[t].i]]

\* The steps done and those that have failed make up the steps behind; one that is
\* tried again counts as failed until it ends.
Answering(t) ==
  LET r == runner[t]
  IN  /\ answered[t] \in Nat /\ r.bad \in Int
      /\ r.pc = "created" => answered[t] = 0 /\ r.bad = 0 /\ r.step = 1 /\ r.again = FALSE
      /\ r.pc = "step" =>
           /\ r.step \in 1..StepCount(t)
           /\ \/ r.again = TRUE /\ answered[t] + r.bad = r.step
              \/ r.again = FALSE /\ answered[t] + r.bad + 1 = r.step
      /\ r.pc = "done" => answered[t] = StepCount(t)

AnsweredInv == answered = [t \in Tasks |-> answered[t]] /\ \A t \in Tasks : Answering(t)

LEMMA AnsweredBegins == AgentInit => AnsweredInv
<1> SUFFICES ASSUME AgentInit PROVE AnsweredInv
  OBVIOUS
<1>1. /\ runner = [t \in Tasks |-> Runner("idle", 1, 0, "none")]
      /\ answered = [t \in Tasks |-> 0]
  BY DEF AgentInit, Init, TaskInit
<1> QED
  BY <1>1 DEF AnsweredInv, Answering, Runner

\* Where run goes between two steps.
LEMMA RunMovesTo ==
  ASSUME TasksInv, NEW t \in Tasks, RunMoves(t)
  PROVE  /\ Alone(t)
         /\ \/ runner'[t].pc \notin {"created", "step", "done"} /\ runner'[t].bad = runner[t].bad
            \/ runner'[t].pc \notin {"created", "step", "done"} /\ runner'[t].bad = 0
            \/ \E i, att : runner'[t] = Runner("created", i, att, "ready")
            \/ /\ runner[t].pc = "created"
               /\ runner'[t] = [runner[t] EXCEPT !.flow = "running", !.pc = "step"]
<1> DEFINE r == runner[t]
           Away(b) == /\ Alone(t) /\ runner'[t].pc \notin {"created", "step", "done"}
                      /\ runner'[t].bad = b
           Begins == Alone(t) /\ \E i, att : runner'[t] = Runner("created", i, att, "ready")
<1>1. /\ TaskTables /\ DOMAIN task[t] = TaskFields /\ DOMAIN r = RunnerFields
  BY DEF TasksInv, TaskInv, TaskShape
<1>3. ASSUME NEW st, NEW pc \in {"started", "announced", "ended"}, Moves(t, st, r, pc)
      PROVE  Away(r.bad)
  BY <1>1, <1>3, MovesTo DEF Placed
<1>4. ASSUME NEW i, NEW att, Attempt(t, i, att)
      PROVE  Away(0) \/ Begins
  <2> DEFINE first == Runner("created", i, att, "ready")
  <2>1. DOMAIN first = RunnerFields /\ first.bad = 0
    BY DEF Runner, RunnerFields
  <2>2. CASE FlowRaises(t, first, "failed")
    <3> HIDE DEF first
    <3> QED
      BY <1>1, <2>1, <2>2, FlowRaisesTo DEF Placed
  <2>3. CASE task' = task /\ Goes(t, first)
    BY <1>1, <2>3, GoesTo DEF TaskTables
  <2> QED
    BY <1>4, <2>2, <2>3 DEF Attempt
<1>5. ASSUME NEW i, Proceeds(t, r, i)
      PROVE  Away(r.bad) \/ Away(0) \/ Begins
  BY <1>3, <1>4, <1>5 DEF Proceeds
<1>6. CASE Run(t) \/ Started(t)
  BY <1>3, <1>6 DEF Run, Started
<1>7. CASE Announced(t)
  BY <1>3, <1>5, <1>7 DEF Announced
<1>8. CASE FlowDone(t)
  <2>1. CASE Proceeds(t, r, r.i + 1)
    BY <1>5, <2>1
  <2>2. CASE task' = task /\ Raises(t, r)
    BY <1>1, <2>2, PublishesTo DEF TaskTables, Placed
  <2> QED
    BY <1>8, <2>1, <2>2 DEF FlowDone
<1>9. CASE Retried(t)
  BY <1>4, <1>9 DEF Retried
<1>10. CASE Planned(t) \/ FlowFailed(t)
  <2>1. CASE FlowRaises(t, r, "failed")
    BY <1>1, <2>1, FlowRaisesTo DEF Placed
  <2>2. CASE /\ r.pc = "created" /\ task' = task
             /\ Goes(t, [r EXCEPT !.flow = "running", !.pc = "step"])
    BY <1>1, <2>2, GoesTo DEF TaskTables
  <2> QED
    BY <1>10, <2>1, <2>2 DEF Planned, FlowFailed
<1> QED
  BY <1>6, <1>7, <1>8, <1>9, <1>10 DEF RunMoves

LEMMA OneAnswered ==
  ASSUME AnsweredInv, NEW t \in Tasks, Alone(t), NEW b \in Nat,
         answered' = [answered EXCEPT ![t] = b], Answering(t)'
  PROVE  AnsweredInv'
<1>1. ASSUME NEW u \in Tasks, u # t PROVE Answering(u)'
  <2>1. runner'[u] = runner[u] /\ answered'[u] = answered[u] /\ Answering(u)
    BY <1>1 DEF AnsweredInv, Alone
  <2> QED
    BY <2>1 DEF Answering, StepCount
<1>2. \A u \in Tasks : Answering(u)'
  BY <1>1
<1>3. answered' = [u \in Tasks |-> answered'[u]]
  BY DEF AnsweredInv
<1> QED
  BY <1>2, <1>3 DEF AnsweredInv

LEMMA BetweenKeepsAnswered ==
  ASSUME TasksInv, AnsweredInv, NEW t \in Tasks, Between(t)
  PROVE  AnsweredInv'
<1> DEFINE b == IF runner'[t].pc = "created" THEN 0 ELSE answered[t]
<1>1. /\ Answering(t) /\ DOMAIN answered = Tasks /\ RunMoves(t) /\ TaskInv(t)
      /\ answered' = [answered EXCEPT ![t] = b]
  BY DEF AnsweredInv, Between, TasksInv
<1>2. answered'[t] = b /\ b \in Nat
  BY <1>1 DEF Answering
<1>3. Alone(t)
  BY RunMovesTo, <1>1
<1>4. Answering(t)'
  <2>1. CASE /\ runner'[t].pc \notin {"created", "step", "done"}
             /\ runner'[t].bad \in {runner[t].bad, 0}
    BY <1>1, <1>2, <2>1 DEF Answering
  <2>2. ASSUME NEW i, NEW att, runner'[t] = Runner("created", i, att, "ready")
        PROVE  Answering(t)'
    BY <1>2, <2>2 DEF Answering, Runner
  <2>3. CASE /\ runner[t].pc = "created"
             /\ runner'[t] = [runner[t] EXCEPT !.flow = "running", !.pc = "step"]
    <3>1. /\ runner'[t].pc = "step" /\ runner'[t].step = 1 /\ runner'[t].bad = 0
          /\ runner'[t].again = FALSE /\ runner'[t].i = runner[t].i
      BY <1>1, <2>3 DEF Answering, TaskInv, TaskShape, RunnerFields
    <3>2. answered'[t] = 0
      BY <1>1, <1>2, <2>3, <3>1 DEF Answering
    <3>3. StepCount(t)' \in Nat \ {0}
      <4>1. runner[t].i \in 1..Len(Plan[t])
        BY <1>1, <2>3, LiveTask DEF InFlow
      <4>2. Plan[t][runner[t].i] \in Flows
        BY <4>1, TaskAssumption
      <4> QED
        BY <3>1, <4>2, TaskAssumption DEF StepCount
    <3> QED
      BY <3>1, <3>2, <3>3 DEF Answering
  <2> QED
    BY <1>1, <2>1, <2>2, <2>3, RunMovesTo
<1> HIDE DEF b
<1> QED
  BY <1>1, <1>2, <1>3, <1>4, OneAnswered

\* A run that leaves its steps behind.
LEMMA LeavesAnswered ==
  ASSUME TasksInv, AnsweredInv, NEW t \in Tasks, NEW outcome, NEW b \in Nat,
         FlowRaises(t, runner[t], outcome), answered' = [answered EXCEPT ![t] = b]
  PROVE  AnsweredInv'
<1>1. /\ TaskTables /\ DOMAIN task[t] = TaskFields /\ DOMAIN runner[t] = RunnerFields
      /\ Answering(t) /\ DOMAIN answered = Tasks
  BY DEF TasksInv, TaskInv, TaskShape, AnsweredInv
<1>2. /\ Alone(t) /\ runner'[t].pc \notin {"created", "step", "done"}
      /\ runner'[t].bad = runner[t].bad
  BY <1>1, FlowRaisesTo DEF Placed
<1>3. Answering(t)'
  BY <1>1, <1>2 DEF Answering
<1> QED
  BY <1>2, <1>3, OneAnswered

\* What a step adds to the steps done is what it takes from those to come.
LEMMA EndsAnswered ==
  ASSUME TasksInv, AnsweredInv, NEW t \in Tasks, NEW ok \in BOOLEAN, Ends(t, ok)
  PROVE  AnsweredInv'
<1> DEFINE r == runner[t]
           b == IF ok THEN answered[t] + 1 ELSE answered[t]
           next == [r EXCEPT !.bad = FailedSteps(r, ok), !.again = FALSE]
           tried == [next EXCEPT !.again = TRUE]
           on == [next EXCEPT !.step = @ + 1]
           fin == Finished(next)
           S == StepCount(t)
<1>1. /\ Answering(t) /\ DOMAIN answered = Tasks /\ DOMAIN r = RunnerFields /\ TaskTables
      /\ r.pc = "step" /\ answered' = [answered EXCEPT ![t] = b]
  BY DEF AnsweredInv, Ends, StepEnds, TasksInv, TaskInv, TaskShape
<1>2. b \in Nat /\ answered'[t] = b
  BY <1>1 DEF Answering
<1>3. \/ FlowRaises(t, r, "failed")
      \/ task' = task /\ ~ok /\ ~r.again /\ Goes(t, tried)
      \/ task' = task /\ (ok \/ r.again) /\ r.step < S /\ Goes(t, on)
      \/ task' = task /\ (ok \/ r.again) /\ ~(r.step < S) /\ Goes(t, fin)
  BY DEF Ends, StepEnds, StepCount
<1>4. /\ r.step \in 1..S /\ r.bad \in Int /\ answered[t] \in Nat
      /\ \/ r.again = TRUE /\ answered[t] + r.bad = r.step
         \/ r.again = FALSE /\ answered[t] + r.bad + 1 = r.step
  BY <1>1 DEF Answering
<1>12. S \in Nat
  <2>1. r.i \in 1..Len(Plan[t])
    BY <1>1, LiveTask DEF InFlow, TasksInv
  <2>2. Plan[t][r.i] \in Flows
    BY <2>1, TaskAssumption
  <2> QED
    BY <2>2, TaskAssumption DEF StepCount
<1>5. /\ DOMAIN next = RunnerFields /\ next.pc = "step" /\ next.step = r.step /\ next.i = r.i
      /\ next.bad = FailedSteps(r, ok) /\ next.again = FALSE
  BY <1>1 DEF RunnerFields
<1>6. /\ FailedSteps(r, ok) \in Int
      /\ ok \/ r.again => b + FailedSteps(r, ok) = r.step
      /\ ~ok /\ ~r.again => b + FailedSteps(r, ok) = r.step
  BY <1>4 DEF FailedSteps
<1> HIDE DEF b, next
<1>7. CASE FlowRaises(t, r, "failed")
  BY <1>1, <1>2, <1>7, LeavesAnswered
<1>8. ASSUME task' = task, Goes(t, tried) \/ Goes(t, on) \/ Goes(t, fin)
      PROVE  /\ Alone(t)
             /\ \/ runner'[t] = tried /\ Goes(t, tried)
                \/ runner'[t] = on /\ Goes(t, on)
                \/ runner'[t] = fin /\ Goes(t, fin)
  <2> HIDE DEF tried, on, fin
  <2> QED
    BY <1>1, <1>8, GoesTo DEF TaskTables
<1>9. CASE task' = task /\ ~ok /\ ~r.again /\ Goes(t, tried)
  <2>1. Alone(t) /\ runner'[t] = tried
    <3> HIDE DEF tried
    <3> QED
      BY <1>1, <1>9, GoesTo DEF TaskTables
  <2>2. /\ runner'[t].pc = "step" /\ runner'[t].step = r.step /\ runner'[t].i = r.i
        /\ runner'[t].bad = FailedSteps(r, ok) /\ runner'[t].again = TRUE
    BY <1>5, <2>1 DEF RunnerFields
  <2>3. Answering(t)'
    BY <1>2, <1>4, <1>6, <1>9, <2>2 DEF Answering, StepCount
  <2> QED
    BY <1>1, <1>2, <2>1, <2>3, OneAnswered
<1>10. CASE task' = task /\ (ok \/ r.again) /\ r.step < S /\ Goes(t, on)
  <2>1. Alone(t) /\ runner'[t] = on
    <3> HIDE DEF on
    <3> QED
      BY <1>1, <1>10, GoesTo DEF TaskTables
  <2>2. /\ runner'[t].pc = "step" /\ runner'[t].step = r.step + 1 /\ runner'[t].i = r.i
        /\ runner'[t].bad = FailedSteps(r, ok) /\ runner'[t].again = FALSE
    BY <1>5, <2>1 DEF RunnerFields
  <2>3. r.step + 1 \in 1..S
    <3> HIDE DEF S, r
    <3> QED
      BY <1>4, <1>10, <1>12
  <2>4. Answering(t)'
    BY <1>2, <1>6, <1>10, <2>2, <2>3 DEF Answering, StepCount
  <2> QED
    BY <1>1, <1>2, <2>1, <2>4, OneAnswered
<1>11. CASE task' = task /\ (ok \/ r.again) /\ ~(r.step < S) /\ Goes(t, fin)
  <2>1. Alone(t) /\ runner'[t] = fin
    <3> HIDE DEF fin
    <3> QED
      BY <1>1, <1>11, GoesTo DEF TaskTables
  <2>2. /\ runner'[t].pc \in {"done", "failed"} /\ runner'[t].i = r.i
        /\ runner'[t].bad = FailedSteps(r, ok)
        /\ runner'[t].pc = "done" => FailedSteps(r, ok) = 0
    BY <1>5, <2>1 DEF Finished, RunnerFields
  <2>3. r.step = S
    <3> HIDE DEF S, r
    <3> QED
      BY <1>4, <1>11, <1>12
  <2>4. Answering(t)'
    BY <1>2, <1>6, <1>11, <2>2, <2>3 DEF Answering, StepCount
  <2> QED
    BY <1>1, <1>2, <2>1, <2>4, OneAnswered
<1> QED
  BY <1>3, <1>7, <1>9, <1>10, <1>11

LEMMA CutOffKeepsAnswered ==
  ASSUME TasksInv, AnsweredInv, NEW t \in Tasks, CutOff(t)
  PROVE  AnsweredInv'
<1>0. /\ TaskTables /\ DOMAIN runner[t] = RunnerFields /\ Answering(t) /\ answered' = answered
      /\ answered = [u \in Tasks |-> answered[u]] /\ answered[t] \in Nat
  BY DEF TasksInv, TaskInv, TaskShape, AnsweredInv, Answering, CutOff
<1>1. /\ TaskTables /\ DOMAIN runner[t] = RunnerFields /\ Answering(t) /\ DOMAIN answered = Tasks
      /\ answered' = [answered EXCEPT ![t] = answered[t]]
      /\ answered[t] \in Nat /\ answered' = answered
  BY <1>0
<1>2. CASE FlowTimeout(t)
  BY <1>1, <1>2, LeavesAnswered DEF FlowTimeout
<1>3. CASE RunDropped(t)
  <2> DEFINE next == [runner[t] EXCEPT !.pc = "dropped"]
  <2>1. task' = task /\ Goes(t, next)
    BY <1>3 DEF RunDropped
  <2>2. next.pc = "dropped" /\ next.bad = runner[t].bad
    BY <1>1 DEF RunnerFields
  <2> HIDE DEF next
  <2>3. Alone(t) /\ runner'[t] = next
    BY <1>1, <2>1, GoesTo DEF TaskTables
  <2>4. Answering(t)'
    BY <1>1, <2>2, <2>3 DEF Answering
  <2> QED
    BY <1>1, <2>3, <2>4, OneAnswered
<1> QED
  BY <1>2, <1>3 DEF CutOff

\* What moves no run, or the state machine of one workflow only.
LEMMA SameAnswered ==
  ASSUME TasksInv, AnsweredInv, answered' = answered,
         \A t \in Tasks : /\ runner'[t].pc = runner[t].pc /\ runner'[t].i = runner[t].i
                          /\ runner'[t].step = runner[t].step /\ runner'[t].bad = runner[t].bad
                          /\ runner'[t].again = runner[t].again
  PROVE  AnsweredInv'
<1>1. ASSUME NEW t \in Tasks PROVE Answering(t)'
  BY <1>1 DEF AnsweredInv, Answering, StepCount
<1> QED
  BY <1>1 DEF AnsweredInv

LEMMA WorksKeepAnswered ==
  ASSUME TasksInv, AnsweredInv, Works, answered' = answered
  PROVE  AnsweredInv'
<1>1. CASE runner' = runner
  BY <1>1, SameAnswered
<1>2. ASSUME NEW f \in Flows, CancelFlow(f) PROVE AnsweredInv'
  <2>0. PICK t : t = active[f]
    OBVIOUS
  <2>1. runner' = [runner EXCEPT ![t].flow = "cancelled"] /\ DOMAIN runner = Tasks
    BY <1>2, <2>0 DEF CancelFlow, TasksInv, TaskTables
  <2>2. ASSUME NEW u \in Tasks
        PROVE  /\ runner'[u].pc = runner[u].pc /\ runner'[u].i = runner[u].i
               /\ runner'[u].step = runner[u].step /\ runner'[u].bad = runner[u].bad
               /\ runner'[u].again = runner[u].again
    <3>1. DOMAIN runner[u] = RunnerFields
      BY DEF TasksInv, TaskInv, TaskShape
    <3> QED
      BY <2>1, <3>1 DEF RunnerFields
  <2> QED
    BY <2>2, SameAnswered
<1>3. CASE TaskCalls
  <2>1. ASSUME NEW t, Create(t, "running") \/ TaskCall(t) PROVE runner' = runner
    BY <2>1 DEF TaskCall, Create, Call, Cancel, Destroy, Reject
  <2> QED
    BY <1>1, <1>2, <1>3, <2>1 DEF TaskCalls
<1>4. CASE Start \/ StartCancelled \/ Ready
  BY <1>1, <1>4 DEF Start, StartCancelled, Ready, Unseen, tvars
<1>5. CASE Drain \/ CancelJobs \/ \E ok \in BOOLEAN : CloseDatabases(ok)
  BY <1>1, <1>5 DEF Drain, CancelJobs, CloseDatabases, Unseen, tvars
<1>6. CASE \E c \in Waiters : Shutdown(c) \/ Returns(c) \/ CallerCancelled(c)
  BY <1>1, <1>6 DEF Shutdown, Returns, CallerCancelled, Unseen, tvars
<1>7. CASE Tick \/ Request \/ \E j \in Jobs : JobEnds(j)
  BY <1>1, <1>7 DEF Tick, Request, JobEnds, Unseen, tvars
<1>8. CASE Rest
  BY <1>1, <1>8 DEF Rest, vars, tvars
<1> QED
  BY <1>3, <1>4, <1>5, <1>6, <1>7, <1>8 DEF Works

LEMMA StepWorksKeepAnswered ==
  ASSUME TasksInv, AnsweredInv, NEW t \in Tasks, StepWorks(t)
  PROVE  AnsweredInv'
<1>0. answered = [u \in Tasks |-> answered[u]] /\ answered[t] \in Nat
  BY DEF AnsweredInv, Answering
<1>1. /\ DOMAIN answered = Tasks /\ answered[t] \in Nat
      /\ answered = [answered EXCEPT ![t] = answered[t]]
  BY <1>0
<1>2. CASE Inside(t) /\ answered' = answered
  BY <1>2, SameAnswered DEF Inside, tvars
<1>3. CASE StepBreaks(t) /\ answered' = answered
  BY <1>1, <1>3, LeavesAnswered DEF StepBreaks
<1>4. ASSUME NEW st, AgentRaises(t, st), answered' = answered PROVE AnsweredInv'
  BY <1>3, <1>4 DEF AgentRaises
<1>5. CASE Fails(t) /\ answered' = answered
  BY <1>2, <1>4, <1>5 DEF Fails
<1>6. CASE Slept(t) \/ Refused(t) \/ AgentEnds(t) \/ \E ok \in BOOLEAN : ToolEnds(t, ok)
  BY <1>6, EndsAnswered DEF Slept, Refused, AgentEnds, ToolEnds
<1>7. CASE ToolBegins(t) \/ AgentRefuses(t)
  BY <1>2, <1>3, <1>7 DEF ToolBegins, AgentRefuses, avars
<1>8. CASE AgentBegins(t) \/ Answers(t)
  BY <1>2, <1>4, <1>8 DEF AgentBegins, Answers
<1>9. CASE Unconfigured(t) \/ \E ok \in BOOLEAN : Consults(t, ok) \/ ModelEnds(t, ok)
  BY <1>2, <1>5, <1>9 DEF Unconfigured, Consults, ModelEnds
<1>10. CASE \E ok, found \in BOOLEAN : Retrieves(t, ok, found)
  BY <1>2, <1>5, <1>10 DEF Retrieves
<1>11. CASE \E ok \in BOOLEAN : Saves(t, ok)
  BY <1>2, <1>4, <1>11 DEF Saves
<1> QED
  BY <1>6, <1>7, <1>8, <1>9, <1>10, <1>11 DEF StepWorks

LEMMA AnsweredKeeps ==
  ASSUME load \in Loads, TasksInv, AnsweredInv, [AgentNext]_<<vars, avars>>
  PROVE  AnsweredInv'
<1>1. CASE runner' = runner /\ answered' = answered
  BY <1>1, SameAnswered
<1>2. CASE UNCHANGED <<vars, avars>>
  BY <1>1, <1>2 DEF vars, tvars, avars
<1>3. CASE Works /\ UNCHANGED avars
  BY <1>3, WorksKeepAnswered DEF avars
<1>4. CASE Opens \/ OpenFails
  BY <1>1, <1>4 DEF Opens, OpenFails, StartNext, StartFails, Unseen, tvars
<1>5. CASE ProviderCloses \/ \E ok \in BOOLEAN : Closes(ok)
  BY <1>1, <1>5 DEF ProviderCloses, Closes, Close, vars, tvars
<1>6. ASSUME NEW t \in load.tasks, Between(t) \/ CutOff(t) \/ StepWorks(t)
      PROVE  AnsweredInv'
  <2>1. t \in Tasks
    BY LifecycleAssumption
  <2> QED
    BY <1>6, <2>1, BetweenKeepsAnswered, CutOffKeepsAnswered, StepWorksKeepAnswered
<1> QED
  BY <1>2, <1>3, <1>4, <1>5, <1>6 DEF AgentNext

\* Each step of a completed workflow was answered, for any plan, tries and timeouts:
\* its tool succeeded, its wait slept, or its agent answered, in whatever status.
THEOREM StepsAreAnswered == AgentSpec => []StepsAnswered
<1>1. load \in Loads /\ TasksInv /\ AnsweredInv /\ [AgentNext]_<<vars, avars>> => AnsweredInv'
  BY AnsweredKeeps
<1>2. AnsweredInv => StepsAnswered
  BY DEF AnsweredInv, Answering, StepCount, StepsAnswered
<1> QED
  BY <1>1, <1>2, AnsweredBegins, AgentInvariant, PTL DEF AgentSpec

\* What a task and its delegation say is what was done, and shutdown is orderly, with
\* the agent and the tools at work.
THEOREM AgentKeepsOrder == AgentSpec => [](TaskOutcomesHold /\ ShutdownOrderly)
  BY AgentImplementsLifecycle, TaskOutcomesAreTrue, ShutdownIsOrderly, PTL

-----------------------------------------------------------------------------
(* The way into the system *)

\* Beneath its surface a process is the system of AgentRuntime: what comes in is a
\* request of it.
LEMMA EntryStepGoes == [EntryNext]_all => [AgentNext]_<<vars, avars>>
<1> SUFFICES ASSUME [EntryNext]_all PROVE [AgentNext]_<<vars, avars>>
  OBVIOUS
<1>1. CASE SystemGoes
  BY <1>1 DEF SystemGoes
<1>2. CASE LoadSettings \/ CreateSystem
  BY <1>2 DEF LoadSettings, CreateSystem, vars, avars
<1>3. (Continues \/ \E v \in Visits : Leaves(v)) => AgentNext
  BY DEF Continues, Leaves, AgentNext, Works
<1>4. Apart => UNCHANGED <<vars, avars>>
  BY DEF Apart
<1>5. ASSUME NEW v \in load.visits, NEW e, NEW badge, Arrive(v, e, badge)
      PROVE  Continues \/ Apart
  BY <1>5 DEF Arrive
<1>6. ASSUME NEW v, NEW e, Operate(v, e) PROVE Continues \/ Apart
  BY <1>6 DEF Operate
<1>7. ASSUME NEW v, Handle(v) PROVE Continues \/ Leaves(v)
  BY <1>7 DEF Handle
<1>8. ASSUME NEW v, NEW ok, Finish(v, ok) \/ Look(v, ok) \/ ProbeEnds(v, ok)
      PROVE  Continues \/ Leaves(v)
  BY <1>8 DEF Finish, Look, ProbeEnds
<1>9. (\E v : Leaves(v)) => AgentNext
  BY DEF Leaves, AgentNext, Works
<1>10. CASE UNCHANGED all
  BY <1>10 DEF all
<1> QED
  BY <1>1, <1>2, <1>3, <1>4, <1>5, <1>6, <1>7, <1>8, <1>9, <1>10 DEF EntryNext

\* Whatever the environment is and whatever is asked, the process runs the system as
\* AgentRuntime says.
THEOREM EntryImplementsAgent == EntrySpec => AgentSpec
<1>1. EntryInit => AgentInit
  BY DEF EntryInit
<1> QED
  BY <1>1, EntryStepGoes, PTL DEF EntrySpec, AgentSpec

\* With the API or a command at work, shutdown is orderly, the tasks are told the
\* truth, and so is who asks for the health.
THEOREM EntryKeepsOrder ==
  EntrySpec => [](TaskOutcomesHold /\ ShutdownOrderly /\ AgentTruthful /\ StepsAnswered)
  BY EntryImplementsAgent, AgentKeepsOrder, HealthIsTruthful, StepsAreAnswered, PTL

\* A system that is ready holds the connections its stores have opened.
ConnInv == lc = "ready" \/ (lc = "starting" /\ start > 2) => conn

LEMMA ConnBegins == Init => ConnInv
<1> SUFFICES ASSUME Init, lc = "ready" \/ (lc = "starting" /\ start > 2) PROVE conn
  BY DEF ConnInv
<1>1. lc = IF load.ready THEN "ready" ELSE "created"
  BY DEF Init
<1>2. load.ready /\ conn = load.ready
  BY <1>1 DEF Init
<1> QED
  BY <1>2

\* A connection is closed with all the others or not at all.
LEMMA ConnLasts ==
  ASSUME LifecycleTypes, conn, [Next]_vars
  PROVE  conn' \/ \E ok \in BOOLEAN : CloseDatabases(ok)
<1>1. CASE UNCHANGED conn
  BY <1>1
<1>2. CASE TaskCalls \/ Rest \/ UNCHANGED vars
  BY <1>1, <1>2 DEF TaskCalls, Rest, vars, svars
<1>3. ASSUME NEW t, TaskGoes(t) PROVE conn'
  <2>1. conn' \in {conn, conn \/ runner[t].pc = "step"}
    BY <1>3 DEF TaskGoes
  <2> QED
    BY <2>1, Zenon
<1>4. CASE StartNext \/ Tick \/ Request \/ \E j \in Jobs : JobEnds(j)
  BY <1>4 DEF StartNext, Tick, Request, JobEnds
<1>5. CASE Start \/ StartCancelled \/ Ready \/ StartFails \/ Drain \/ CancelJobs
  BY <1>1, <1>5 DEF Start, StartCancelled, Ready, StartFails, Drain, CancelJobs
<1>6. CASE \E c \in Waiters : Shutdown(c) \/ Returns(c) \/ CallerCancelled(c)
  BY <1>1, <1>6 DEF Shutdown, Returns, CallerCancelled
<1>7. CASE \E ok \in BOOLEAN : Close(ok)
  BY <1>1, <1>7 DEF Close
<1> QED
  BY <1>2, <1>3, <1>4, <1>5, <1>6, <1>7 DEF Next, Works

LEMMA StoresOpen ==
  ASSUME LifecycleInv, StartNext, lc = "starting", start' > 2, ~(start > 2)
  PROVE  conn'
<1>1. start = 2
  BY StartTurns DEF StartNext, LifecycleInv, LifecycleTypes
<1>2. StartOrder[start] = "stores" /\ conn' = (conn \/ StartOrder[start] = "stores")
  BY <1>1 DEF StartNext, StartOrder
<1> QED
  BY <1>2

LEMMA ConnKeeps ==
  ASSUME load \in Loads, LifecycleInv, ConnInv, [Next]_vars
  PROVE  ConnInv'
<1> SUFFICES ASSUME (lc = "ready" \/ (lc = "starting" /\ start > 2))' PROVE conn'
  BY DEF ConnInv
<1>1. CASE \E ok \in BOOLEAN : CloseDatabases(ok)
  BY <1>1 DEF CloseDatabases
<1>2. CASE lc = "ready" \/ (lc = "starting" /\ start > 2)
  BY <1>1, <1>2, ConnLasts DEF ConnInv, LifecycleInv
<1>3. CASE Works
  <2>1. start \in Nat /\ (start' \in {start, 0} => ~(start' > 2 /\ ~(start > 2)))
    BY StartTurns DEF LifecycleInv, LifecycleTypes
  <2> QED
    BY <1>2, <1>3, <2>1, WorksPass
<1>4. CASE StartNext
  <2>1. lc' = lc
    BY <1>4 DEF StartNext
  <2> QED
    BY <1>2, <1>4, <2>1, StoresOpen
<1>5. CASE StartFails
  <2>1. start' = 0 /\ lc' \in {lc, "stopped"}
    BY <1>5 DEF StartFails, Calls
  <2> QED
    BY <1>2, <2>1
<1>6. ASSUME NEW ok \in BOOLEAN, Close(ok) PROVE conn'
  BY <1>2, <1>6 DEF Close
<1>7. ASSUME NEW t, TaskGoes(t) PROVE conn'
  BY <1>2, <1>7 DEF TaskGoes
<1>8. CASE UNCHANGED vars
  BY <1>2, <1>8 DEF vars, svars
<1> QED
  BY <1>3, <1>4, <1>5, <1>6, <1>7, <1>8 DEF Next

THEOREM StoresAreOpen == Spec => []ConnInv
<1>1. load \in Loads /\ LifecycleInv /\ ConnInv /\ [Next]_vars => ConnInv'
  BY ConnKeeps
<1> QED
  BY <1>1, ConnBegins, LifecycleInvariant, PTL DEF Spec

\* What is known of the process and of a visit v: how far the environment has been
\* looked at, and what an answer says of the services and of the token.
Begun == {"serving", "closing", "closed"}
Reminding == "reminders" \in env.features => "user_tasks" \in env.features
ProcessSound ==
  /\ stage \in {"factory", "made"} \cup Begun => Consistent(env)
  /\ stage \in {"made"} \cup Begun => Reminding
Badged(v) == env.surface = "api" /\ env.auth => visit[v].badge
VisitSound(v) ==
  /\ visit[v].pc = "idle" => visit[v].answer = "none"
  /\ visit[v].pc # "idle" => stage \in Begun
  /\ visit[v].pc \in {"admitted", "running"} =>
       visit[v].at \in DOMAIN Needs /\ visit[v].answer = "none" /\ Badged(v)
  /\ visit[v].pc \in Probing => visit[v].answer = "none" /\ visit[v].at = "ready"
  /\ visit[v].answer = "disabled" =>
       visit[v].at \in DOMAIN Needs /\ Needs[visit[v].at] \notin Services(env)
  /\ visit[v].answer = "ok" => Badged(v) \/ visit[v].at = "ready"
EntryInv == EntryTypeOK /\ ProcessSound /\ \A v \in Visits : VisitSound(v)

LEMMA EntryBegins == EntryInit => EntryInv
<1> SUFFICES ASSUME EntryInit PROVE EntryInv
  OBVIOUS
<1>1. load \in Loads
  BY DEF EntryInit, AgentInit, Init
<1>2. load.envs \subseteq Environments
  BY <1>1, EntryAssumption
<1>3. stage \in {"alone", "settings"} /\ visit = [v \in Visits |-> Unasked] /\ env \in Environments
  BY <1>2 DEF EntryInit
<1>4. EntryTypeOK
  BY <1>3 DEF EntryTypeOK, Unasked, Endpoints
<1>5. ProcessSound
  BY <1>3 DEF ProcessSound, Begun
<1>6. \A v \in Visits : VisitSound(v)
  BY <1>3 DEF VisitSound, Unasked, Probing
<1> QED
  BY <1>4, <1>5, <1>6 DEF EntryInv

\* The stages follow one another; only the settings and the factory let it begin.
LEMMA LivedTurns ==
  ASSUME Lived
  PROVE  \/ stage' = stage
         \/ stage \in {"made"} \cup Begun /\ stage' \in Begun
  BY DEF Lived, Begun

LEMMA SystemKeepsEntry ==
  ASSUME EntryInv, SystemGoes
  PROVE  EntryInv'
<1>1. env' = env /\ visit' = visit
  BY DEF SystemGoes
<1>2. \/ stage' = stage
      \/ stage \in {"made"} \cup Begun /\ stage' \in Begun
  BY LivedTurns DEF SystemGoes
<1>3. EntryTypeOK'
  BY <1>1, <1>2 DEF EntryInv, EntryTypeOK, Begun
<1>4. ProcessSound'
  BY <1>1, <1>2 DEF EntryInv, ProcessSound, Begun, Reminding, Consistent, ProviderMode
<1>5. ASSUME NEW v \in Visits PROVE VisitSound(v)'
  <2>1. VisitSound(v) /\ visit'[v] = visit[v]
    BY <1>1 DEF EntryInv
  <2>2. stage \in Begun => stage' \in Begun
    BY <1>2
  <2>3. Services(env)' = Services(env) /\ (Badged(v)' <=> Badged(v))
    BY <1>1 DEF Services, Badged
  <2> QED
    BY <1>1, <2>1, <2>2, <2>3 DEF VisitSound
<1> QED
  BY <1>3, <1>4, <1>5 DEF EntryInv

VisitRecords ==
  [at     : Endpoints \cup {"none"}, badge : BOOLEAN,
   pc     : {"idle", "admitted", "running", "answered"} \cup Probing,
   answer : {"none", "ok", "failed", "unauthenticated", "unavailable", "disabled"}]

\* A visit goes on; the process and the other visits do not.
VisitStep(v, r) ==
  UNCHANGED <<env, stage>> /\ r \in VisitRecords /\ visit' = [visit EXCEPT ![v] = r]

LEMMA VisitGoes ==
  ASSUME EntryInv, NEW v \in Visits, NEW r, VisitStep(v, r), VisitSound(v)'
  PROVE  EntryInv'
<1>1. env' = env /\ stage' = stage /\ r \in VisitRecords /\ visit' = [visit EXCEPT ![v] = r]
  BY DEF VisitStep
<1>2. EntryTypeOK'
  BY <1>1 DEF EntryInv, EntryTypeOK, VisitRecords
<1>3. ProcessSound'
  BY <1>1 DEF EntryInv, ProcessSound, Begun, Reminding, Consistent, ProviderMode
<1>4. ASSUME NEW u \in Visits PROVE VisitSound(u)'
  <2>1. CASE u = v
    BY <2>1
  <2>2. CASE u # v
    <3>1. VisitSound(u) /\ visit'[u] = visit[u]
      BY <1>1, <2>2 DEF EntryInv, EntryTypeOK, Probing
    <3>2. Services(env)' = Services(env) /\ (Badged(u)' <=> Badged(u))
      BY <1>1, <3>1 DEF Services, Badged
    <3> QED
      BY <1>1, <3>1, <3>2 DEF VisitSound
  <2> QED
    BY <2>1, <2>2
<1> QED
  BY <1>2, <1>3, <1>4 DEF EntryInv

LEMMA NeedsKnown ==
  /\ DOMAIN Needs = Endpoints \ {"workflows", "ready"}
  /\ \A e \in DOMAIN Needs : Needs[e] \in
       {"records", "applications", "user_tasks", "daily_review", "reminders", "reminder_inbox",
        "reminder_management"}
  BY DEF Needs, Endpoints

LEMMA ArriveKeeps ==
  ASSUME EntryInv, NEW v \in Visits, NEW e \in Endpoints, NEW badge \in BOOLEAN,
         Arrive(v, e, badge)
  PROVE  EntryInv'
<1>1. UNCHANGED <<env, stage>> /\ stage \in Begun
  BY DEF Arrive, Continues, Apart, Begun
<1>2. PICK pc, answer :
        /\ visit' = [visit EXCEPT ![v] = [at |-> e, badge |-> badge, pc |-> pc, answer |-> answer]]
        /\ \/ pc = "answered" /\ answer \in {"unauthenticated", "unavailable"}
           \/ pc = "answered" /\ answer = "ok" /\ (env.auth => badge \/ e = "ready")
           \/ pc \in {"probing", "unwell"} /\ answer = "none" /\ e = "ready"
           \/ /\ pc = "admitted" /\ answer = "none" /\ e \notin {"workflows", "ready"}
              /\ env.auth => badge
  <2> DEFINE Says(pc, answer) ==
        visit' = [visit EXCEPT ![v] = [at |-> e, badge |-> badge, pc |-> pc, answer |-> answer]]
  <2>1. CASE e # "ready" /\ ~Authenticated(badge)
    <3>1. Says("answered", "unauthenticated")
      BY <2>1 DEF Arrive
    <3> QED
      BY <3>1
  <2>2. CASE ~(e # "ready" /\ ~Authenticated(badge)) /\ e = "workflows"
    <3>1. Says("answered", "ok")
      BY <2>2 DEF Arrive
    <3> QED
      BY <2>2, <3>1 DEF Authenticated
  <2>3. CASE ~(e # "ready" /\ ~Authenticated(badge)) /\ e # "workflows" /\ (stage = "closed" \/ lc # "ready")
    <3>1. Says("answered", "unavailable")
      BY <2>3 DEF Arrive
    <3> QED
      BY <3>1
  <2>4. CASE ~(e # "ready" /\ ~Authenticated(badge)) /\ e # "workflows" /\ ~(stage = "closed" \/ lc # "ready")
    <3>1. Says(IF e # "ready" THEN "admitted" ELSE IF FirstLook THEN "probing" ELSE "unwell",
               "none")
      BY <2>4 DEF Arrive
    <3> QED
      BY <2>4, <3>1 DEF Authenticated
  <2> QED
    BY <2>1, <2>2, <2>3, <2>4
<1> DEFINE r == [at |-> e, badge |-> badge, pc |-> pc, answer |-> answer]
<1>3. r \in VisitRecords
  BY <1>2 DEF VisitRecords, Probing
<1>4. visit'[v] = r
  BY <1>2 DEF EntryInv, EntryTypeOK, Probing
<1>5. VisitSound(v)'
  BY <1>1, <1>2, <1>4, NeedsKnown DEF VisitSound, Badged, Probing
<1>6. VisitStep(v, r)
  BY <1>1, <1>2, <1>3 DEF VisitStep
<1> QED
  BY <1>5, <1>6, VisitGoes

LEMMA OperateKeeps ==
  ASSUME EntryInv, NEW v \in Visits, NEW e \in DOMAIN Needs, Operate(v, e)
  PROVE  EntryInv'
<1>1. UNCHANGED <<env, stage>> /\ stage \in Begun /\ env.surface = "cli"
  BY DEF Operate, Continues, Apart, Begun
<1>2. PICK pc, answer :
        /\ visit' = [visit EXCEPT ![v] = [at |-> e, badge |-> FALSE, pc |-> pc, answer |-> answer]]
        /\ \/ pc = "answered" /\ answer = "disabled" /\ Needs[e] \notin Services(env)
           \/ pc = "running" /\ answer = "none"
  BY DEF Operate
<1> DEFINE r == [at |-> e, badge |-> FALSE, pc |-> pc, answer |-> answer]
<1>3. r \in VisitRecords
  BY <1>2, NeedsKnown DEF VisitRecords, Probing
<1>4. visit'[v] = r
  BY <1>2 DEF EntryInv, EntryTypeOK, Probing
<1>5. Services(env)' = Services(env)
  BY <1>1 DEF Services
<1>6. VisitSound(v)'
  BY <1>1, <1>2, <1>4, <1>5 DEF VisitSound, Badged, Probing
<1>7. VisitStep(v, r)
  BY <1>1, <1>2, <1>3 DEF VisitStep
<1> QED
  BY <1>6, <1>7, VisitGoes

\* A visit that runs goes on to be handled or is answered.
LEMMA VisitAnswered ==
  ASSUME EntryInv, NEW v \in Visits, UNCHANGED <<env, stage>>,
         visit[v].pc \in {"admitted", "running"} \cup Probing, NEW pc, NEW answer,
         visit' = [visit EXCEPT ![v].pc = pc, ![v].answer = answer],
         \/ pc = "answered" /\ answer \in {"ok", "failed", "unavailable"}
         \/ /\ pc = "answered" /\ answer = "disabled" /\ visit[v].at \in DOMAIN Needs
            /\ Needs[visit[v].at] \notin Services(env)
         \/ pc = "running" /\ answer = "none" /\ visit[v].pc = "admitted"
         \/ pc \in {"looked", "unwell"} /\ answer = "none" /\ visit[v].pc = "probing"
  PROVE  EntryInv'
<1>1. VisitSound(v) /\ visit[v] \in VisitRecords
  BY DEF EntryInv, EntryTypeOK, VisitRecords
<1> DEFINE r == [visit[v] EXCEPT !.pc = pc, !.answer = answer]
<1>2. r \in VisitRecords /\ r.pc = pc /\ r.answer = answer /\ r.at = visit[v].at
      /\ r.badge = visit[v].badge
  BY <1>1 DEF VisitRecords, Probing
<1>3. visit' = [visit EXCEPT ![v] = r] /\ visit'[v] = r
  BY DEF EntryInv, EntryTypeOK, Probing
<1>4. Services(env)' = Services(env)
  BY DEF Services
<1>5. VisitSound(v)'
  BY <1>1, <1>2, <1>3, <1>4 DEF VisitSound, Badged, Probing
<1>6. VisitStep(v, r)
  BY <1>2, <1>3 DEF VisitStep
<1> QED
  BY <1>5, <1>6, VisitGoes

LEMMA VisitorsKeep ==
  ASSUME EntryInv, NEW v \in Visits,
         Handle(v) \/ \E ok \in BOOLEAN : Finish(v, ok) \/ Look(v, ok) \/ ProbeEnds(v, ok)
  PROVE  EntryInv'
<1>1. VisitSound(v) /\ visit[v] = [visit[v] EXCEPT !.answer = visit[v].answer]
  BY DEF EntryInv, EntryTypeOK, Probing
<1>2. CASE Handle(v)
  <2>1. UNCHANGED <<env, stage>> /\ visit[v].pc = "admitted" /\ visit[v].at \in DOMAIN Needs
    BY <1>1, <1>2 DEF Handle, Continues, Leaves, VisitSound
  <2>2. CASE visit[v].at \notin Unlooked /\ Needs[visit[v].at] \notin Services(env)
    <3>1. Answer(v, "disabled")
      BY <1>2, <2>2 DEF Handle
    <3> QED
      BY <2>1, <2>2, <3>1, VisitAnswered DEF Answer
  <2>3. CASE Answer(v, "unavailable")
    BY <2>1, <2>3, VisitAnswered DEF Answer
  <2>4. CASE Becomes(v, "running")
    <3>1. visit[v].answer = "none"
      BY <1>1, <2>1 DEF VisitSound
    <3>2. visit' = [visit EXCEPT ![v].pc = "running", ![v].answer = "none"]
      BY <2>4, <3>1 DEF Becomes, EntryInv, EntryTypeOK
    <3> QED
      BY <2>1, <3>2, VisitAnswered
  <2> QED
    BY <1>2, <2>2, <2>3, <2>4 DEF Handle
<1>3. ASSUME NEW ok \in BOOLEAN, Finish(v, ok) \/ ProbeEnds(v, ok) PROVE EntryInv'
  <2>1. UNCHANGED <<env, stage>> /\ visit[v].pc \in {"running"} \cup Probing
    BY <1>3 DEF Finish, ProbeEnds, Leaves, Probing
  <2>2. \E answer \in {"ok", "failed", "unavailable"} : Answer(v, answer)
    BY <1>3 DEF Finish, ProbeEnds
  <2> QED
    BY <2>1, <2>2, VisitAnswered DEF Answer
<1>4. ASSUME NEW ok \in BOOLEAN, Look(v, ok) PROVE EntryInv'
  <2>1. UNCHANGED <<env, stage>> /\ visit[v].pc = "probing" /\ visit[v].answer = "none"
    BY <1>1, <1>4 DEF Look, Continues, VisitSound, Probing
  <2>2. PICK pc \in {"looked", "unwell"} : Becomes(v, pc)
    BY <1>4 DEF Look
  <2>3. visit' = [visit EXCEPT ![v].pc = pc, ![v].answer = "none"]
    BY <2>1, <2>2 DEF Becomes, EntryInv, EntryTypeOK
  <2> QED
    BY <2>1, <2>2, <2>3, VisitAnswered DEF Probing
<1> QED
  BY <1>2, <1>3, <1>4

LEMMA EntryKeeps ==
  ASSUME load \in Loads, EntryInv, [EntryNext]_all
  PROVE  EntryInv'
<1>1. load.visits \subseteq Visits
  BY EntryAssumption
<1>2. CASE SystemGoes
  BY <1>2, SystemKeepsEntry
<1>3. CASE LoadSettings \/ CreateSystem
  <2>1. env' = env /\ visit' = visit /\ stage \in {"settings", "factory"}
        /\ stage' \in {"factory", "made", "refused"}
    BY <1>3 DEF LoadSettings, CreateSystem
  <2>2. EntryTypeOK'
    BY <2>1 DEF EntryInv, EntryTypeOK
  <2>3. (stage' # "refused" => Consistent(env)) /\ (stage' = "made" => Reminding)
    BY <1>3, <2>1 DEF LoadSettings, CreateSystem, EntryInv, ProcessSound, Reminding
  <2>4. ProcessSound'
    BY <2>1, <2>3 DEF ProcessSound, Begun, Reminding, Consistent, ProviderMode
  <2>5. ASSUME NEW v \in Visits PROVE VisitSound(v)'
    <3>1. VisitSound(v) /\ visit'[v] = visit[v] /\ visit[v].pc = "idle"
      BY <2>1 DEF EntryInv, VisitSound, Begun
    <3> QED
      BY <3>1 DEF VisitSound
  <2> QED
    BY <2>2, <2>4, <2>5 DEF EntryInv
<1>4. ASSUME NEW v \in load.visits, NEW e \in Endpoints, NEW badge \in BOOLEAN, Arrive(v, e, badge)
      PROVE  EntryInv'
  BY <1>1, <1>4, ArriveKeeps
<1>5. ASSUME NEW v \in load.visits, NEW e \in DOMAIN Needs, Operate(v, e)
      PROVE  EntryInv'
  BY <1>1, <1>5, OperateKeeps
<1>6. ASSUME NEW v \in load.visits,
             Handle(v) \/ \E ok \in BOOLEAN : Finish(v, ok) \/ Look(v, ok) \/ ProbeEnds(v, ok)
      PROVE  EntryInv'
  BY <1>1, <1>6, VisitorsKeep
<1>7. CASE UNCHANGED all
  <2>1. env' = env /\ stage' = stage /\ visit' = visit
    BY <1>7 DEF all, evars
  <2> QED
    BY <2>1 DEF EntryInv, EntryTypeOK, ProcessSound, VisitSound, Badged, Services, Consistent,
                ProviderMode, Reminding
<1> QED
  BY <1>2, <1>3, <1>4, <1>5, <1>6, <1>7 DEF EntryNext

THEOREM EntryInvariant ==
  EntrySpec => [](LifecycleInv /\ AgentInv /\ ConnInv /\ EntryInv)
<1>1. load \in Loads /\ EntryInv /\ [EntryNext]_all => EntryInv'
  BY EntryKeeps
<1> QED
  BY <1>1, EntryBegins, EntryImplementsAgent, AgentInvariant, AgentImplementsLifecycle,
     StoresAreOpen, PTL DEF EntrySpec

\* With the reminders there are the tasks; with the scheduler they can be managed.
LEMMA ServicesThere ==
  ASSUME EntryInv, lc = "ready", AgentInv, ConnInv, stage \in Begun,
         "reminders" \in env.features => "scheduler" \in env.features
  PROVE  Usable
<1>1. up = Components /\ conn /\ provider = "ready"
  BY DEF AgentInv, AgentPhase, ConnInv
<1>2. Reminding
  BY DEF EntryInv, ProcessSound
<1> QED
  BY <1>1, <1>2 DEF Usable, Reminding, Needs, Services

\* What the daily profile accepts is a system its user can use.
THEOREM DailyProfileHolds == EntrySpec => []ProfileHolds
<1>1. LifecycleInv /\ AgentInv /\ ConnInv /\ EntryInv => ProfileHolds
  <2> SUFFICES ASSUME LifecycleInv, AgentInv, ConnInv, EntryInv, env.profile = "daily",
                      stage \in Begun
               PROVE  /\ lc = "ready" => Usable /\ (SystemHealth(env) = "failed" => failed \/ memoryFailed)
                      /\ \A v \in Visits :
                           /\ visit[v].answer # "disabled"
                           /\ env.surface = "api" /\ visit[v].answer = "ok"
                                => visit[v].badge \/ visit[v].at = "ready"
    BY DEF ProfileHolds, Begun
  <2>1. DailyFeatures \subseteq env.features /\ env.auth
    BY DEF EntryInv, ProcessSound, Consistent
  <2>2. "scheduler" \in env.features
    BY <2>1 DEF DailyFeatures
  <2>3. lc = "ready" => Usable
    BY <2>2, ServicesThere
  <2>4. lc = "ready" /\ SystemHealth(env) = "failed" => failed \/ memoryFailed
    BY <2>2, TruthFollows DEF SystemHealth, Bridged, AgentTruthful
  <2>5. ASSUME NEW v \in Visits
        PROVE  /\ visit[v].answer # "disabled"
               /\ env.surface = "api" /\ visit[v].answer = "ok" => visit[v].badge \/ visit[v].at = "ready"
    <3>1. VisitSound(v)
      BY DEF EntryInv
    <3>2. \A e \in DOMAIN Needs : Needs[e] \in Services(env)
      BY <2>1, NeedsKnown DEF DailyFeatures, Services
    <3> QED
      BY <2>1, <3>1, <3>2 DEF VisitSound, Badged
  <2> QED
    BY <2>3, <2>4, <2>5
<1> QED
  BY <1>1, EntryInvariant, PTL

\* The API says it is ready only while it is.
THEOREM ReadinessIsHonest == EntrySpec => ReadinessHonest
<1> DEFINE Honest == \A v \in Visits : (visit[v].pc = "looked" /\ visit'[v].answer = "ok") => Usable
<1>1. LifecycleInv /\ AgentInv /\ ConnInv /\ EntryInv /\ [EntryNext]_all => Honest
  <2> SUFFICES ASSUME LifecycleInv, AgentInv, ConnInv, EntryInv, [EntryNext]_all, NEW v \in Visits,
                      visit[v].pc = "looked", visit'[v].answer = "ok"
               PROVE  Usable
    OBVIOUS
  <2>1. visit[v].answer = "none" /\ stage \in Begun /\ DOMAIN visit = Visits
    BY DEF EntryInv, VisitSound, EntryTypeOK, Probing
  <2>2. visit' # visit
    BY <2>1
  <2>3. ASSUME NEW u \in load.visits, visit[u].pc # "looked", NEW r, visit' = [visit EXCEPT ![u] = r]
        PROVE  FALSE
    BY <2>1, <2>3
  <2>4. ASSUME NEW u, NEW ok \in BOOLEAN, ProbeEnds(u, ok) PROVE Usable
    <3>1. u = v /\ LastLook(env)
      BY <2>1, <2>4 DEF ProbeEnds, Answer
    <3>2. lc = "ready" /\ ("reminders" \in env.features => "scheduler" \in env.features)
      BY <3>1 DEF LastLook, Bridged
    <3> QED
      BY <2>1, <3>2, ServicesThere
  <2>5. CASE SystemGoes \/ LoadSettings \/ CreateSystem
    BY <2>2, <2>5 DEF SystemGoes, LoadSettings, CreateSystem
  <2>6. ASSUME NEW u, NEW e, NEW badge, Arrive(u, e, badge) PROVE Usable
    BY <2>1, <2>6 DEF Arrive
  <2>7. ASSUME NEW u, NEW e, Operate(u, e) PROVE Usable
    BY <2>1, <2>7 DEF Operate
  <2>8. ASSUME NEW u, NEW ok, Handle(u) \/ Finish(u, ok) \/ Look(u, ok) PROVE Usable
    <3>1. visit[u].pc # "looked"
      BY <2>8 DEF Handle, Finish, Look
    <3>2. visit'[v] = visit[v]
      BY <2>1, <2>8, <3>1 DEF Handle, Finish, Look, Answer, Becomes
    <3> QED
      BY <2>1, <3>2
  <2> QED
    BY <2>2, <2>4, <2>5, <2>6, <2>7, <2>8 DEF EntryNext, all, evars
<1> QED
  BY <1>1, EntryInvariant, PTL DEF EntrySpec, ReadinessHonest

=============================================================================
