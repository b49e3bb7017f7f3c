----------------------------- MODULE TaskRuntime -----------------------------
(***************************************************************************)
(* Tasks made of workflows: core/task/runtime, core/workflow/runtime with   *)
(* its executor, and the delegation that waits for them                     *)
(* (core/coordination/delegation).                                          *)
(*                                                                          *)
(* run is one coroutine per task.  It goes from one await to the next: a    *)
(* publication on the bus, which raises when the bus has stopped, or a step *)
(* of a workflow.  In between come the other calls: pause, resume, cancel,  *)
(* retry and destroy of the task, cancel of the workflow, the two timeouts. *)
(* A workflow run has a state machine of its own, which cancel finds by the *)
(* identifier of the workflow.  Publications that follow each other with    *)
(* nothing in between are one await.                                        *)
(***************************************************************************)
EXTENDS Naturals, Sequences

CONSTANTS
  Tasks,
  Flows,        \* workflow identifiers
  Plan,         \* task -> its workflow_names
  Steps,        \* workflow -> the number of its steps
  Retries,      \* task -> its max_retries
  Nobody

ASSUME TaskAssumption ==
  /\ Plan \in [Tasks -> Seq(Flows)]
  /\ Steps \in [Flows -> Nat \ {0}] /\ Retries \in [Tasks -> Nat]
  /\ Nobody \notin Tasks

VARIABLES
  up,        \* components of the system that are open
  task,      \* task -> state machine, whether it is still registered, cancel flag
  runner,    \* task -> the coroutine of run and of the workflow it awaits
  active,    \* WorkflowRuntime._active: workflow -> the task whose run came last
  delegated, \* task -> DelegationStatus
  tries,     \* history: task -> how often each workflow was begun
  taken,     \* history: task -> the workflows whose result was taken, in order, with
             \* the steps of theirs that had failed
  left       \* history: task -> the workflow it was at when it was cancelled or
             \* destroyed, 0 if neither

tvars == <<task, runner, active, delegated, tries, taken, left>>

TaskStatus == {"absent", "created", "ready", "running", "paused", "completed",
               "failed", "timeout", "retrying", "cancelled"}
FlowStatus == {"none", "ready", "running", "completed", "failed", "cancelled"}

\* _VALID_TRANSITIONS of task/state; waiting is never entered.
TaskMoves(st) ==
  CASE st = "created"  -> {"ready", "cancelled"}
    [] st = "ready"    -> {"running", "cancelled"}
    [] st = "running"  -> {"paused", "completed", "failed", "timeout", "cancelled"}
    [] st = "paused"   -> {"running", "cancelled"}
    [] st \in {"failed", "timeout"} -> {"retrying"}
    [] st = "retrying" -> {"running", "failed", "cancelled"}
    [] OTHER           -> {}
May(t, st) == st \in TaskMoves(task[t].st)

\* _VALID_TRANSITIONS of workflow/state, as far as cancel goes.
FlowCancellable == {"ready", "running"}

\* Where run waits: for a publication before the workflow (started, announced), in the
\* workflow (created, step, done, failed), before it is tried again (retrying).
InFlow == {"created", "step", "done", "failed"}
Awaiting == {"started", "announced", "retrying"} \cup InFlow
Over == {"ended", "raised", "dropped"}

Runner(pc, i, att, flow) ==
  [pc |-> pc, i |-> i, att |-> att, flow |-> flow, step |-> 1, bad |-> 0, again |-> FALSE]

TaskTypeOK ==
  /\ \A t \in Tasks :
       /\ task[t].st \in TaskStatus /\ task[t].kept \in BOOLEAN /\ task[t].flag \in BOOLEAN
       /\ runner[t].pc \in {"idle"} \cup Awaiting \cup Over
       /\ runner[t].pc \in InFlow => /\ runner[t].i \in DOMAIN Plan[t]
                                     /\ runner[t].flow \in FlowStatus \ {"none"}
       /\ runner[t].bad \in 0..runner[t].step
       /\ runner[t].pc = "step" => runner[t].step \in 1..Steps[Plan[t][runner[t].i]]
       /\ tries[t] \in [DOMAIN Plan[t] -> Nat] /\ Len(taken[t]) <= Len(Plan[t])
       /\ left[t] \in 0..Len(Plan[t]) + 1
       /\ delegated[t] \in {"none", "running", "completed", "failed", "timeout", "rejected"}
  /\ active \in [Flows -> Tasks \cup {Nobody}]

TaskInit ==
  /\ task = [t \in Tasks |-> [st |-> "absent", kept |-> FALSE, flag |-> FALSE]]
  /\ runner = [t \in Tasks |-> Runner("idle", 1, 0, "none")]
  /\ active = [f \in Flows |-> Nobody]
  /\ delegated = [t \in Tasks |-> "none"]
  /\ tries = [t \in Tasks |-> [k \in DOMAIN Plan[t] |-> 0]]
  /\ taken = [t \in Tasks |-> <<>>]
  /\ left = [t \in Tasks |-> 0]

-----------------------------------------------------------------------------
(* The coroutine of run *)

BusOpen == "bus" \in up

\* What delegate makes of the end of run.
Reported(t, r) ==
  CASE delegated[t] = "none" -> "none"
    [] r.pc = "dropped" -> "timeout"
    [] r.pc = "ended" -> IF task'[t].st = "completed" THEN "completed" ELSE "failed"
    [] r.pc = "raised" -> "failed"
    [] OTHER -> delegated[t]

Goes(t, r) ==
  /\ runner' = [runner EXCEPT ![t] = r]
  /\ delegated' = [delegated EXCEPT ![t] = Reported(t, r)]

\* The next await is a publication.
Publishes(t, r, pc) == Goes(t, [r EXCEPT !.pc = IF BusOpen THEN pc ELSE "raised"])
Raises(t, r) == Goes(t, [r EXCEPT !.pc = "raised"])

\* sm.transition and manager.set_status: either may raise; then what is published.
Moves(t, st, r, pc) ==
  IF ~May(t, st) THEN UNCHANGED task /\ Raises(t, r)
  ELSE /\ task' = [task EXCEPT ![t].st = st]
       /\ IF task[t].kept THEN Publishes(t, r, pc) ELSE Raises(t, r)

\* Mutant: the result of a workflow whose steps failed is taken for a success.
BugFinished(r) == [r EXCEPT !.flow = "completed", !.pc = "done"]
\* The end of the executor's loop.
Finished(r) ==
  IF r.bad = 0 THEN [r EXCEPT !.flow = "completed", !.pc = "done"]
  ELSE [r EXCEPT !.flow = "failed", !.pc = "failed"]

\* An attempt at a workflow raises or its result is not completed.
FlowRaises(t, r, outcome) ==
  IF r.att > Retries[t] THEN Moves(t, outcome, r, "ended")
  ELSE UNCHANGED task /\ Publishes(t, r, "retrying")

\* WorkflowRuntime.run up to its first publication.
Attempt(t, i, att) ==
  LET r == Runner("created", i, att, "ready")
  IN  /\ active' = [active EXCEPT ![Plan[t][i]] = t]
      /\ tries' = [tries EXCEPT ![t][i] = @ + 1]
      /\ IF BusOpen THEN UNCHANGED task /\ Goes(t, r) ELSE FlowRaises(t, r, "failed")

\* The head of the loop over the workflows.
Proceeds(t, r, i) ==
  CASE i > Len(Plan[t]) -> Moves(t, "completed", r, "ended") /\ UNCHANGED <<active, tries>>
    [] i <= Len(Plan[t]) /\ task[t].flag ->
         Moves(t, "cancelled", r, "ended") /\ UNCHANGED <<active, tries>>
    [] OTHER -> Attempt(t, i, 1)

Run(t) ==
  /\ runner[t].pc = "idle" /\ task[t].kept /\ task[t].st = "created"
  /\ Moves(t, "ready", runner[t], "started")
  /\ UNCHANGED <<active, tries, taken, left>>

Started(t) ==
  /\ runner[t].pc = "started" /\ Moves(t, "running", runner[t], "announced")
  /\ UNCHANGED <<active, tries, taken, left>>

\* The plan is in the task's context, which destroy removes: an empty one fails
\* without being tried.
Announced(t) ==
  /\ runner[t].pc = "announced"
  /\ IF Plan[t] = <<>> \/ ~task[t].kept
     THEN Moves(t, "failed", runner[t], "ended") /\ UNCHANGED <<active, tries>>
     ELSE Proceeds(t, runner[t], 1)
  /\ UNCHANGED <<taken, left>>

\* Planning; a workflow cancelled meanwhile raises.
Planned(t) ==
  /\ runner[t].pc = "created"
  /\ IF runner[t].flow = "ready" /\ BusOpen
     THEN UNCHANGED task /\ Goes(t, [runner[t] EXCEPT !.flow = "running", !.pc = "step"])
     ELSE FlowRaises(t, runner[t], "failed")
  /\ UNCHANGED <<active, tries, taken, left>>

\* The steps that have failed: a step counts once, and no more if its second try succeeds.
FailedSteps(r, ok) ==
  IF ok /\ r.again THEN r.bad - 1 ELSE IF ~ok /\ ~r.again THEN r.bad + 1 ELSE r.bad

\* A step succeeds or fails; one that failed is tried once more, and the
\* following steps are executed whatever came of it.
StepEnds(t, ok) ==
  LET r    == runner[t]
      next == [r EXCEPT !.bad = FailedSteps(r, ok), !.again = FALSE]
  IN  /\ r.pc = "step"
      /\ CASE ~BusOpen -> FlowRaises(t, r, "failed")
           [] BusOpen /\ ~ok /\ ~r.again ->
                UNCHANGED task /\ Goes(t, [next EXCEPT !.again = TRUE])
           [] BusOpen /\ (ok \/ r.again) /\ r.step < Steps[Plan[t][r.i]] ->
                UNCHANGED task /\ Goes(t, [next EXCEPT !.step = @ + 1])
           [] OTHER -> IF r.flow = "running" THEN UNCHANGED task /\ Goes(t, Finished(next))
                       ELSE FlowRaises(t, r, "failed")
      /\ UNCHANGED <<active, tries, taken, left>>

\* An exception that is not a StepExecutionError.
StepBreaks(t) ==
  /\ runner[t].pc = "step" /\ ~runner[t].again
  /\ FlowRaises(t, runner[t], "failed")
  /\ UNCHANGED <<active, tries, taken, left>>

FlowFailed(t) ==
  /\ runner[t].pc = "failed" /\ FlowRaises(t, runner[t], "failed")
  /\ UNCHANGED <<active, tries, taken, left>>

\* The result is taken, the checkpoint saved and the status set once more.
FlowDone(t) ==
  LET r == runner[t]
  IN  /\ r.pc = "done"
      /\ taken' = [taken EXCEPT ![t] = Append(@, <<r.i, r.bad>>)]
      /\ IF task[t].kept THEN Proceeds(t, r, r.i + 1)
         ELSE UNCHANGED <<task, active, tries>> /\ Raises(t, r)
      /\ UNCHANGED left

Retried(t) ==
  /\ runner[t].pc = "retrying" /\ Attempt(t, runner[t].i, runner[t].att + 1)
  /\ UNCHANGED <<taken, left>>

\* wait_for around the workflow; its state machine stays as it is.
FlowTimeout(t) ==
  /\ runner[t].pc \in InFlow /\ FlowRaises(t, runner[t], "timeout")
  /\ UNCHANGED <<active, tries, taken, left>>
\* wait_for around run, in delegate: the task keeps the status it has.
RunDropped(t) ==
  /\ runner[t].pc \in Awaiting
  /\ UNCHANGED task /\ Goes(t, [runner[t] EXCEPT !.pc = "dropped"])
  /\ UNCHANGED <<active, tries, taken, left>>

\* What run does of its own accord between two steps.
RunMoves(t) ==
  \/ Run(t) \/ Started(t) \/ Announced(t) \/ Planned(t)
  \/ FlowFailed(t) \/ FlowDone(t) \/ Retried(t)

RunSteps(t) ==
  \/ RunMoves(t) \/ StepBreaks(t) \/ \E ok \in BOOLEAN : StepEnds(t, ok)
  \/ FlowTimeout(t) \/ RunDropped(t)

-----------------------------------------------------------------------------
(* The calls of others *)

\* create_task, by delegate or directly.
Create(t, d) ==
  /\ BusOpen /\ task[t].st = "absent" /\ d \in {"none", "running"}
  /\ task' = [task EXCEPT ![t] = [st |-> "created", kept |-> TRUE, flag |-> FALSE]]
  /\ delegated' = [delegated EXCEPT ![t] = d]
  /\ UNCHANGED <<runner, active, tries, taken, left>>

\* pause, resume and retry: they move the state machine and nothing else.
Call(t, st) ==
  /\ task[t].kept
  /\ \/ st = "paused" /\ May(t, st)
     \/ st = "running" /\ task[t].st = "paused"
     \/ st = "retrying" /\ May(t, st)
  /\ task' = [task EXCEPT ![t].st = st]
  /\ UNCHANGED <<runner, active, delegated, tries, taken, left>>

At(t) == IF left[t] # 0 THEN left[t] ELSE runner[t].i

\* The flag is set first; of a task that may not be cancelled the rest raises, of
\* one that is not registered there is no rest.
Cancel(t) ==
  LET cancelled == task[t].kept /\ May(t, "cancelled")
  IN  /\ task[t].st # "absent" /\ (cancelled \/ ~task[t].flag)
      /\ task' = [task EXCEPT ![t] = [st |-> IF cancelled THEN "cancelled" ELSE task[t].st,
                                       kept |-> task[t].kept, flag |-> TRUE]]
      /\ left' = [left EXCEPT ![t] = IF cancelled THEN At(t) ELSE @]
      /\ UNCHANGED <<runner, active, delegated, tries, taken>>

\* The coroutine keeps its own reference to the state machine.
Destroy(t) ==
  /\ task[t].kept
  /\ task' = [task EXCEPT ![t] = [@ EXCEPT !.kept = FALSE, !.flag = FALSE]]
  /\ left' = [left EXCEPT ![t] = At(t)]
  /\ UNCHANGED <<runner, active, delegated, tries, taken>>

\* WorkflowRuntime.cancel: the state machine of the run that came last, which may
\* be over.
CancelFlow(f) ==
  LET t == active[f]
  IN  /\ t # Nobody /\ runner[t].pc \in InFlow /\ Plan[t][runner[t].i] = f
      /\ runner[t].flow \in FlowCancellable
      /\ runner' = [runner EXCEPT ![t].flow = "cancelled"]
      /\ UNCHANGED <<task, active, delegated, tries, taken, left>>

\* TaskDelegator.cancel asks the runtime to cancel the delegation's own identifier,
\* which no task has.
Reject(t) ==
  /\ delegated[t] # "none"
  /\ delegated' = [delegated EXCEPT ![t] = "rejected"]
  /\ UNCHANGED <<task, runner, active, tries, taken, left>>

TaskCall(t) ==
  \/ \E d \in {"none", "running"} : Create(t, d)
  \/ \E st \in {"paused", "running", "retrying"} : Call(t, st)
  \/ Cancel(t) \/ Destroy(t) \/ Reject(t)

-----------------------------------------------------------------------------
(* Properties *)

\* A task that has no plan, or was destroyed before run read it.
Planless(t) ==
  Plan[t] = <<>> \/ (~task[t].kept /\ \A k \in DOMAIN Plan[t] : tries[t][k] = 0)

\* What a task and its delegation say is what was done, although it is paused,
\* cancelled or destroyed, times out or loses the bus at any await: completed,
\* when each workflow has completed with all its steps, in order; failed or timed out, when
\* one was tried as often as it may be and all before it completed, or when run found
\* no plan.  A task that was cancelled or destroyed begins no further workflow.
TaskOutcomesHold ==
  \A t \in Tasks :
    LET n == Len(taken[t])
    IN  /\ \A k \in 1..n : taken[t][k] = <<k, 0>>
        /\ \A k \in DOMAIN Plan[t] : /\ tries[t][k] <= Retries[t] + 1
                                     /\ tries[t][k] > 0 => n >= k - 1
        /\ (task[t].st = "completed" \/ delegated[t] = "completed") => n = Len(Plan[t])
        /\ (task[t].st \in {"failed", "timeout", "retrying"} /\ ~Planless(t)) =>
             n < Len(Plan[t]) /\ tries[t][n + 1] = Retries[t] + 1
        /\ left[t] # 0 => \A k \in DOMAIN Plan[t] : k > left[t] => tries[t][k] = 0
=============================================================================
