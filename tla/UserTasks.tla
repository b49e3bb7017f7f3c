------------------------------ MODULE UserTasks ------------------------------
(***************************************************************************)
(* The canonical user tasks (core/user_tasks).  UserTaskRepository.update   *)
(* writes a whole row under the revision the caller has read, so an         *)
(* operation of the service is a read, a decision on the copy, and a write  *)
(* that is refused when the row has moved on.  A row is its status and its  *)
(* revision; title, dates and metadata are left out.                        *)
(***************************************************************************)
EXTENDS Naturals

CONSTANTS Tasks, MaxTaskRev   \* bound: no edit or reopen at that revision

VARIABLE tasks                \* table user_tasks: id -> [st, rev]

Terminal == {"completed", "cancelled"}
TaskRow == [st : {"active"} \cup Terminal, rev : 1..(MaxTaskRev + 1)]

TasksInit == tasks = [u \in Tasks |-> [st |-> "active", rev |-> 1]]

\* UPDATE user_tasks ... WHERE id=? AND revision=?
Current(u, copy) == tasks[u].rev = copy.rev

WriteTask(u, copy, st) ==
  /\ Current(u, copy)
  /\ tasks' = [tasks EXCEPT ![u] = [st |-> st, rev |-> copy.rev + 1]]

\* update: only an active task is edited.
EditTask(u) ==
  /\ tasks[u].st = "active" /\ tasks[u].rev < MaxTaskRev
  /\ WriteTask(u, tasks[u], "active")

\* reopen: a terminal task is active again; its reminders are not looked at.
ReopenTask(u) ==
  /\ tasks[u].st \in Terminal /\ tasks[u].rev < MaxTaskRev
  /\ WriteTask(u, tasks[u], "active")

\* What _transition decides on the row it has read.
Transition(copy, target) ==
  IF copy.st = target THEN "repeat"           \* coordinate the reminders again
  ELSE IF copy.st = "active" THEN "write"
  ELSE "refuse"
=============================================================================
