--------------------------- MODULE InboxResolution ---------------------------
(***************************************************************************)
(* Unified Inbox (core/inbox): a captured item is resolved exactly once,   *)
(* into a user task, a reminder, a work log, a waiting-for, a note or      *)
(* nothing (dismissed).  The target lives in another SQLite file than the  *)
(* item, so InboxService._resolve is a saga: take the durable claim,       *)
(* create the target, record it on the claim, and complete item and claim  *)
(* in one transaction.  Every repository method is one transaction, hence  *)
(* one atomic step.  API workers, CLI commands and the assistant are       *)
(* processes on the same files; the asyncio lock of an item excludes only  *)
(* the callers of one process.  A process may crash between any two steps. *)
(*                                                                         *)
(* A target is named by a number: Reserved stands for the identifier       *)
(* derived from the item (user task, work log, waiting-for); the k-th      *)
(* reminder created for the item has the fresh identifier k.               *)
(*                                                                         *)
(* A reminder's job bears the reminder's name in a third database.  Each   *)
(* process refuses a job whose name is in its own registry, a copy of that *)
(* table it reads at its start and in its tick loop: the table itself does *)
(* not keep names apart.  When jobs fall due, and what firing them does,   *)
(* is the subject of ReminderSaga.                                         *)
(*                                                                         *)
(* Revisions of items and claims are left out: each update compares the    *)
(* revision inside the BEGIN IMMEDIATE transaction that read it.           *)
(***************************************************************************)
EXTENDS Integers, Sequences

CONSTANTS
  Items,      \* captured inbox items
  Callers,    \* requests that may be in progress at the same time
  Hosts,      \* processes with an InboxService on the same files
  Host,       \* the process each caller runs in
  Kinds,      \* the resolution types callers ask for
  Intents,    \* what a reminder says and when (hashed into intent_hash)
  \* Bound of the model.
  MaxFaults   \* crashes and failing database or event calls

ReservedKinds == {"user_task", "work_log", "waiting_for"}
ExternalKinds == ReservedKinds \cup {"reminder"}
ResolvedType  == ExternalKinds \cup {"note", "dismissed"}

ASSUME InboxAssumption ==
  /\ Host \in [Callers -> Hosts]
  /\ Kinds \subseteq ResolvedType
  /\ MaxFaults \in Nat

VARIABLES
  items,      \* table inbox_items
  claims,     \* table inbox_resolution_claims
  targets,    \* item -> kinds of reserved-id targets that exist for it
  backing,    \* item -> the reminder's backing user task (revision 0: none)
  reminders,  \* item -> the reminders created for it, in order
  jobs,       \* table scheduler_jobs: reminder k of an item, and who saved it
  known,      \* process -> the reminders whose job names its registry holds
  calls,      \* caller -> where its _resolve is, or its last answer
  up,         \* the processes that are running
  faults      \* faults so far

vars == <<items, claims, targets, backing, reminders, jobs, known, calls, up, faults>>

scheduling == <<reminders, jobs, known>>

stores == <<items, claims, targets, backing, reminders, jobs>>

-----------------------------------------------------------------------------
(* Rows and calls.                                                         *)

None     == -1
Reserved == 0
TargetId == Nat \cup {None}

InboxStatus == {"pending", "resolved", "dismissed"}

\* States of a claim, and "none" while there is no row for the item.
ClaimState == {"none", "claimed", "target_created", "completed"}

ItemRow == [status : InboxStatus, type : ResolvedType \cup {"none"}, target : TargetId]

ClaimRow == [state : ClaimState, type : ResolvedType \cup {"none"}, target : TargetId]

NewItem == [status |-> "pending", type |-> "none", target |-> None]
NoClaim == [state |-> "none", type |-> "none", target |-> None]

ReminderStatus == {"pending_schedule", "scheduled", "failed"}

\* A reminder's row: its status, and whether it names its job.
Reminder == [st : ReminderStatus, job : BOOLEAN]

NewReminder == [st |-> "pending_schedule", job |-> FALSE]
Scheduled   == [st |-> "scheduled", job |-> TRUE]

\* Steps of bridge.create: what goes wrong at one of them is handled inside.
BridgeSteps == {"insert", "job", "schedule", "undo", "failjob", "fail"}

CreateSteps == {"create", "task", "match", "report", "note"} \cup BridgeSteps
BusySteps   == {"get", "read", "record", "complete"} \cup CreateSteps
Answers     == {"resolved", "already_resolved", "failed"}

\* A call of _resolve.  target and rev are what the steps so far have read
\* or made: the target's identifier and the backing task's revision.
Call == [at     : BusySteps \cup Answers \cup {"idle"},
         item   : Items \cup {"none"},
         type   : ResolvedType \cup {"none"},
         intent : Intents \cup {"none"},
         target : TargetId,
         rev    : Nat]

IdleCall == [at |-> "idle", item |-> "none", type |-> "none", intent |-> "none",
             target |-> None, rev |-> 0]

\* The user task behind a reminder; revision 0 while there is none.
Task   == [rev : Nat, intent : Intents \cup {"none"}]
NoTask == [rev |-> 0, intent |-> "none"]

Busy(c) == calls[c].at \in BusySteps

TypeOK ==
  /\ items     \in [Items -> ItemRow]
  /\ claims    \in [Items -> ClaimRow]
  /\ targets   \in [Items -> SUBSET ReservedKinds]
  /\ backing   \in [Items -> Task]
  /\ reminders \in [Items -> Seq(Reminder)]
  /\ jobs      \subseteq Items \X Nat \X Hosts
  /\ known     \in [Hosts -> SUBSET (Items \X Nat)]
  /\ calls     \in [Callers -> Call]
  /\ up        \subseteq Hosts
  /\ faults    \in 0..MaxFaults

Init ==
  /\ items     = [i \in Items |-> NewItem]
  /\ claims    = [i \in Items |-> NoClaim]
  /\ targets   = [i \in Items |-> {}]
  /\ backing   = [i \in Items |-> NoTask]
  /\ reminders = [i \in Items |-> <<>>]
  /\ jobs      = {}
  /\ known     = [h \in Hosts |-> {}]
  /\ calls     = [c \in Callers |-> IdleCall]
  /\ up        = Hosts
  /\ faults    = 0

-----------------------------------------------------------------------------
(* What one transaction does to the rows.                                  *)

\* The claim a new saga inserts: the reserved identifier is on it from the
\* start; a reminder's is not known yet; notes and dismissals have none.
ReservedTarget(type) == IF type \in ReservedKinds THEN Reserved ELSE None

Claimed(type) == [state |-> "claimed", type |-> type, target |-> ReservedTarget(type)]

\* claim_resolution: insert the claim if there is none, else return it.
ClaimOf(i, type) == IF claims[i].state = "none" THEN Claimed(type) ELSE claims[i]

\* record_target_created accepts the target.
Recordable(i, type, target) ==
  /\ claims[i].type = type
  /\ claims[i].state = "claimed" \/ claims[i].target = target

\* Plausible slips: the identifier is not stored; a recorded claim is rewritten.
BugRecordedNoTarget(i, target) ==
  IF claims[i].state = "claimed"
  THEN [state |-> "target_created", type |-> claims[i].type, target |-> claims[i].target]
  ELSE claims[i]

BugRecordedAgain(i, target) ==
  [state |-> "target_created", type |-> claims[i].type, target |-> target]

Recorded(i, target) ==
  IF claims[i].state = "claimed"
  THEN [state |-> "target_created", type |-> claims[i].type, target |-> target]
  ELSE claims[i]

BugFinalStatus(type) == type

FinalStatus(type) == IF type = "dismissed" THEN "dismissed" ELSE "resolved"

\* complete_resolution accepts the item and the claim.
Completable(i, type) ==
  /\ claims[i].type = type
  /\ type \in ExternalKinds => claims[i].state \in {"target_created", "completed"}
  /\ \/ items[i].status = "pending"
     \/ items[i] = [status |-> FinalStatus(type), type |-> type, target |-> claims[i].target]

CompletedItem(i, type) ==
  IF items[i].status = "pending"
  THEN [status |-> FinalStatus(type), type |-> type, target |-> claims[i].target]
  ELSE items[i]

CompletedClaim(i) == [state |-> "completed", type |-> claims[i].type, target |-> claims[i].target]

-----------------------------------------------------------------------------
(* Reminders and their jobs.                                               *)

\* The names in the table, and whether two rows bear the same one.
Names == {<<j[1], j[2]>> : j \in jobs}
Clash == \E j, k \in jobs : j # k /\ <<j[1], j[2]>> = <<k[1], k[2]>>

\* What the registry of h may hold once it has read the table again: every
\* name, or, when the rows of one name stop it halfway, some of them.
Refreshed(h) == IF Clash THEN {K \in SUBSET Names : known[h] \subseteq K} ELSE {Names}

\* Reconciliation looks after this reminder (a failed one: by reminder_bridge).
NeedsJob(r) == r.st \in {"pending_schedule", "failed"}

\* _ensure_job gets a job for reminder k of i where the registry holds the
\* names K: the one the row names is armed again, which ends with a refresh
\* of the registry; else one is made, which a taken name prevents.
Ensurable(i, k, K) ==
  IF reminders[i][k].job THEN ~Clash ELSE <<i, k>> \notin K

Created == UNION {{i} \X DOMAIN reminders[i] : i \in Items}

\* A plausible slip: failed reminders are left alone.
BugDue(K) ==
  {n \in Created : /\ reminders[n[1]][n[2]].st = "pending_schedule"
                  /\ Ensurable(n[1], n[2], K)}

\* The reminders a reconciliation can give their job.
Due(K) ==
  {n \in Created : NeedsJob(reminders[n[1]][n[2]]) /\ Ensurable(n[1], n[2], K)}

-----------------------------------------------------------------------------
(* Calls.                                                                  *)

Fault ==
  /\ faults < MaxFaults
  /\ faults' = faults + 1

\* bridge.reconcile in process h, whose registry holds the names K: every due
\* reminder has its job saved and is marked.  One is passed over when its job
\* is to be armed again and a name saved here meanwhile is a second row of
\* that name; a fault costs reminders their job or only their mark.
\* One step of the model: ReminderSaga interleaves it with what others do.
Reconcile(h, K) ==
  \E saved \in SUBSET Due(K) : \E marked \in SUBSET saved :
    LET new == {n \in saved : ~reminders[n[1]][n[2]].job}
    IN  /\ jobs' = jobs \cup {<<n[1], n[2], h>> : n \in new}
        /\ known' = [known EXCEPT ![h] = K \cup new]
        /\ reminders' = [i \in Items |-> [k \in DOMAIN reminders[i] |->
                           IF <<i, k>> \in marked THEN Scheduled ELSE reminders[i][k]]]
        /\ \/ /\ saved = Due(K)
              /\ IF Clash' THEN new \subseteq marked ELSE marked = saved
              /\ UNCHANGED faults
           \/ Fault

\* The call of c goes on at another step with what it has read or made.
Continue(c, at, target, rev) ==
  calls' = [calls EXCEPT ![c] =
              [at |-> at, item |-> calls[c].item, type |-> calls[c].type,
               intent |-> calls[c].intent, target |-> target, rev |-> rev]]

GoTo(c, at) == Continue(c, at, calls[c].target, calls[c].rev)

\* The call ends; what it had read is dropped with it.
Answer(c, answer) ==
  calls' = [calls EXCEPT ![c] =
              [at |-> answer, item |-> calls[c].item, type |-> calls[c].type,
               intent |-> "none", target |-> None, rev |-> 0]]

\* _raise_claim_conflict when the claim is of another type or completed,
\* a retryable failure otherwise.
Refused(c) ==
  LET claim == claims[calls[c].item]
  IN  IF claim.type # calls[c].type \/ claim.state = "completed"
      THEN "already_resolved" ELSE "failed"

BugLocked(c, i) == FALSE

\* The asyncio lock of the item, held from claim_resolution to the answer.
Locked(c, i) == \E d \in Callers \ {c} : Host[d] = Host[c] /\ Busy(d) /\ calls[d].item = i

\* A work log or waiting-for that is already there is returned again.
ReturnCompleted == {"work_log", "waiting_for"}

\* Plausible slips: the claim's type is not compared, or only after the
\* shortcut for completed claims.
BugAfterClaimAnyType(claim, type) ==
  IF claim.state = "completed" THEN "already_resolved" ELSE "get"

BugAfterClaimShortcut(claim, type) ==
  IF claim.state = "completed" /\ type \in ReturnCompleted THEN "resolved"
  ELSE IF claim.type # type \/ claim.state = "completed" THEN "already_resolved" ELSE "get"

\* Where a call stands after claim_resolution returned claim.
AfterClaim(claim, type) ==
  CASE claim.type # type                                -> "already_resolved"
    [] claim.type = type /\ claim.state # "completed"   -> "get"
    [] /\ claim.type = type /\ claim.state = "completed"
       /\ type \in ReturnCompleted                      -> "resolved"
    [] /\ claim.type = type /\ claim.state = "completed"
       /\ type \notin ReturnCompleted                   -> "already_resolved"

\* resolve_to_* enters _resolve and takes or finds the claim.
Claim(c, i, type, intent) ==
  /\ Host[c] \in up
  /\ ~Busy(c)
  /\ ~Locked(c, i)
  /\ claims' = [claims EXCEPT ![i] = ClaimOf(i, type)]
  /\ calls' = [calls EXCEPT ![c] =
                 [at |-> AfterClaim(ClaimOf(i, type), type), item |-> i, type |-> type,
                  intent |-> intent, target |-> None, rev |-> 0]]
  /\ UNCHANGED <<items, targets, backing, scheduling, up, faults>>

Get(c) ==
  /\ calls[c].at = "get"
  /\ IF items[calls[c].item].status = "pending"
     THEN GoTo(c, "read")
     ELSE Answer(c, "already_resolved")
  /\ UNCHANGED <<stores, known, up, faults>>

\* The claim is read again: only a claim without target calls create_target.
Read(c) ==
  /\ calls[c].at = "read"
  /\ GoTo(c, IF \/ calls[c].type \notin ExternalKinds
                \/ claims[calls[c].item].state # "claimed"
             THEN "complete"
             ELSE IF calls[c].type = "reminder" THEN "task" ELSE "create")
  /\ UNCHANGED <<stores, known, up, faults>>

\* create of resolve_to_task, _to_work_log and _to_waiting_for: insert under
\* the reserved identifier, or find what is already stored under it.
Create(c) ==
  /\ calls[c].at = "create"
  /\ targets' = [targets EXCEPT ![calls[c].item] = @ \cup {calls[c].type}]
  /\ \/ /\ Continue(c, "record", Reserved, 0)
        /\ UNCHANGED faults
     \/ Fault /\ Answer(c, "failed")   \* publishing the event raised
  /\ UNCHANGED <<items, claims, backing, scheduling, up>>

\* create of resolve_to_reminder, first part: the backing user task under
\* the identifier derived from the idempotency key.
CreateTask(c) ==
  LET i == calls[c].item
      task == IF backing[i].rev = 0 THEN [rev |-> 1, intent |-> calls[c].intent] ELSE backing[i]
  IN  /\ calls[c].at = "task"
      /\ backing' = [backing EXCEPT ![i] = task]
      /\ \/ /\ task.intent = calls[c].intent
            /\ Continue(c, "match", None, task.rev)
            /\ UNCHANGED faults
         \/ /\ task.intent # calls[c].intent   \* reminder.idempotency_conflict
            /\ Answer(c, "failed")
            /\ UNCHANGED faults
         \/ Fault /\ Answer(c, "failed")
      /\ UNCHANGED <<items, claims, targets, scheduling, up>>

\* Second part: the reminder of this intent, if one was created before.  A
\* failed one is reconciled and read again; one without a job fails the call.
Match(c) ==
  LET i == calls[c].item
      found == reminders[i]
  IN  /\ calls[c].at = "match"
      /\ \/ /\ found = <<>>
            /\ GoTo(c, "insert")
            /\ UNCHANGED <<scheduling, faults>>
         \/ /\ found # <<>>
            /\ IF found[1].st = "failed" THEN Reconcile(Host[c], known[Host[c]])
               ELSE UNCHANGED <<scheduling, faults>>
            /\ IF reminders'[i][1].st # "failed" /\ reminders'[i][1].job
               THEN Continue(c, "note", 1, calls[c].rev)
               ELSE Answer(c, "failed")
      /\ UNCHANGED <<items, claims, targets, backing, up>>

\* The metadata update of the backing task, if its revision is the one read.
TaskUpdated(c) ==
  IF backing[calls[c].item].rev = calls[c].rev
  THEN [backing EXCEPT ![calls[c].item] =
          [rev |-> calls[c].rev + 1, intent |-> backing[calls[c].item].intent]]
  ELSE backing

\* bridge.create: the reminder's row first, ...
Insert(c) ==
  LET i == calls[c].item
  IN  /\ calls[c].at = "insert"
      /\ \/ /\ reminders' = [reminders EXCEPT ![i] = Append(@, NewReminder)]
            /\ Continue(c, "job", Len(reminders[i]) + 1, calls[c].rev)
            /\ UNCHANGED faults
         \/ Fault /\ GoTo(c, "report") /\ UNCHANGED reminders
      /\ UNCHANGED <<items, claims, targets, backing, jobs, known, up>>

\* ... then its scheduler job, if no job of that name is registered, ...
SaveJob(c) ==
  LET name == <<calls[c].item, calls[c].target>>
      h == Host[c]
  IN  /\ calls[c].at = "job"
      /\ \/ /\ name \notin known[h]
            /\ jobs' = jobs \cup {<<name[1], name[2], h>>}
            /\ known' = [known EXCEPT ![h] = @ \cup {name}]
            /\ GoTo(c, "schedule")
            /\ UNCHANGED faults
         \/ /\ name \in known[h]   \* JobAlreadyExistsError
            /\ GoTo(c, "fail")
            /\ UNCHANGED <<jobs, known, faults>>
         \/ Fault /\ GoTo(c, "fail") /\ UNCHANGED <<jobs, known>>
      /\ UNCHANGED <<items, claims, targets, backing, reminders, up>>

\* The reminder's row still is as this call has inserted it.
StillNew(c) == reminders[calls[c].item][calls[c].target] = NewReminder

Marked(c, row) ==
  reminders' = [reminders EXCEPT ![calls[c].item] =
                  [reminders[calls[c].item] EXCEPT ![calls[c].target] = row]]

\* ... and its status, unless reconciliation has changed the row meanwhile.
MarkScheduled(c) ==
  /\ calls[c].at = "schedule"
  /\ \/ StillNew(c) /\ Marked(c, Scheduled) /\ GoTo(c, "note") /\ UNCHANGED faults
     \/ ~StillNew(c) /\ GoTo(c, "undo") /\ UNCHANGED <<reminders, faults>>
     \/ Fault /\ GoTo(c, "undo") /\ UNCHANGED reminders
  /\ UNCHANGED <<items, claims, targets, backing, jobs, known, up>>

\* Compensation: the call's own job is cancelled (its row keeps the name), ...
CancelJob(c) ==
  /\ calls[c].at = "undo"
  /\ \/ /\ \E K \in Refreshed(Host[c]) : known' = [known EXCEPT ![Host[c]] = K]
        /\ UNCHANGED faults
     \/ Fault /\ UNCHANGED known
  /\ GoTo(c, "failjob")
  /\ UNCHANGED <<items, claims, targets, backing, reminders, jobs, up>>

\* ... and the row is marked failed, if it still can be.
MarkFailed(c) ==
  /\ calls[c].at \in {"fail", "failjob"}
  /\ \/ /\ StillNew(c)
        /\ Marked(c, [st |-> "failed", job |-> calls[c].at = "failjob"])
        /\ UNCHANGED faults
     \/ ~StillNew(c) /\ UNCHANGED <<reminders, faults>>
     \/ Fault /\ UNCHANGED reminders
  /\ GoTo(c, "report")
  /\ UNCHANGED <<items, claims, targets, backing, jobs, known, up>>

\* _record_failure of the failed bridge.create.
Report(c) ==
  /\ calls[c].at = "report"
  /\ backing' = TaskUpdated(c)
  /\ Answer(c, "failed")
  /\ UNCHANGED <<items, claims, targets, scheduling, up, faults>>

\* _record_scheduled: compare-and-swap on the backing task's revision.
Note(c) ==
  /\ calls[c].at = "note"
  /\ backing' = TaskUpdated(c)
  /\ \/ /\ backing[calls[c].item].rev = calls[c].rev
        /\ GoTo(c, "record")
        /\ UNCHANGED faults
     \/ /\ backing[calls[c].item].rev # calls[c].rev
        /\ Answer(c, "failed")
        /\ UNCHANGED faults
     \/ Fault /\ Answer(c, "failed")
  /\ UNCHANGED <<items, claims, targets, scheduling, up>>

RecordTarget(c) ==
  LET i == calls[c].item
  IN  /\ calls[c].at = "record"
      /\ \/ /\ Recordable(i, calls[c].type, calls[c].target)
            /\ claims' = [claims EXCEPT ![i] = Recorded(i, calls[c].target)]
            /\ GoTo(c, "complete")
         \/ /\ ~Recordable(i, calls[c].type, calls[c].target)
            /\ Answer(c, Refused(c))
            /\ UNCHANGED claims
      /\ UNCHANGED <<items, targets, backing, scheduling, up, faults>>

\* complete_resolution writes item and claim together.  The event that follows
\* is not guarded: when it raises, the caller of a committed resolution fails.
Complete(c) ==
  LET i == calls[c].item
      type == calls[c].type
  IN  /\ calls[c].at = "complete"
      /\ \/ /\ Completable(i, type)
            /\ items' = [items EXCEPT ![i] = CompletedItem(i, type)]
            /\ claims' = [claims EXCEPT ![i] = CompletedClaim(i)]
            /\ \/ Answer(c, "resolved") /\ UNCHANGED faults
               \/ Fault /\ Answer(c, "failed")
         \/ /\ ~Completable(i, type)
            /\ Answer(c, Refused(c))
            /\ UNCHANGED <<items, claims, faults>>
      /\ UNCHANGED <<targets, backing, scheduling, up>>

\* A transaction rolls back or a dependency raises: nothing was written.
StepFails(c) ==
  /\ Busy(c)
  /\ calls[c].at \notin BridgeSteps
  /\ Fault
  /\ Answer(c, "failed")
  /\ UNCHANGED <<stores, known, up>>

\* The tick loop of a process reads the job table again.
Tick(h) ==
  /\ h \in up
  /\ \E K \in Refreshed(h) : known' = [known EXCEPT ![h] = K]
  /\ UNCHANGED <<stores, calls, up, faults>>

\* A process dies with all its calls and its registry.
Crash(h) ==
  /\ h \in up
  /\ Fault
  /\ up' = up \ {h}
  /\ known' = [known EXCEPT ![h] = {}]
  /\ calls' = [c \in Callers |->
                 IF Host[c] = h /\ Busy(c) THEN IdleCall ELSE calls[c]]
  /\ UNCHANGED stores

\* A process ends in good order, such as a CLI command that is done.
Stop(h) ==
  /\ h \in up
  /\ \A c \in Callers : Host[c] = h => ~Busy(c)
  /\ up' = up \ {h}
  /\ known' = [known EXCEPT ![h] = {}]
  /\ UNCHANGED <<stores, calls, faults>>

\* A process starts (again): it registers every job of the table (the first of
\* two rows with one name) and reconciles before calls are served.
Start(h) ==
  /\ h \in Hosts \ up
  /\ up' = up \cup {h}
  /\ Reconcile(h, Names)
  /\ UNCHANGED <<items, claims, targets, backing, calls>>

Step(c) ==
  \/ Get(c) \/ Read(c) \/ Create(c) \/ CreateTask(c) \/ Match(c)
  \/ Insert(c) \/ SaveJob(c) \/ MarkScheduled(c)
  \/ CancelJob(c) \/ MarkFailed(c) \/ Report(c)
  \/ Note(c) \/ RecordTarget(c) \/ Complete(c)

Next ==
  \/ \E c \in Callers, i \in Items, type \in Kinds, intent \in Intents :
       Claim(c, i, type, intent)
  \/ \E c \in Callers : Step(c) \/ StepFails(c)
  \/ \E h \in Hosts : Tick(h) \/ Crash(h) \/ Stop(h) \/ Start(h)

Spec == Init /\ [][Next]_vars

\* A call that was admitted runs on to its next step.
Fairness == \A c \in Callers : WF_vars(Step(c))

FairSpec == Spec /\ Fairness

-----------------------------------------------------------------------------
(* Properties.                                                             *)

\* Whatever exists outside the inbox on behalf of an item is of the type its
\* durable claim names: the claim is taken before any target is written, and
\* a caller that lost the race for the type writes nothing (ADR-052).
NoOrphanTarget ==
  \A i \in Items :
    /\ targets[i] \subseteq {claims[i].type}
    /\ backing[i].rev > 0 \/ reminders[i] # <<>> => claims[i].type = "reminder"

\* Item and claim agree although callers crash, retry and race between the
\* transactions: the item is final exactly when the claim is completed, with
\* the claim's type and target, and that target was really created.
ResolutionCoherent ==
  \A i \in Items :
    /\ items[i].status # "pending" <=> claims[i].state = "completed"
    /\ items[i].status # "pending" =>
         items[i] = [status |-> FinalStatus(claims[i].type), type |-> claims[i].type,
                     target |-> claims[i].target]
    /\ claims[i].state \in {"target_created", "completed"} =>
         /\ claims[i].type \in ReservedKinds => claims[i].type \in targets[i]
         /\ claims[i].type = "reminder" => claims[i].target \in 1..Len(reminders[i])

AnswerHolds(c) ==
  LET i == calls[c].item
      type == calls[c].type
  IN  /\ calls[c].at = "resolved" =>
           items[i].type = type /\ items[i].status = FinalStatus(type)
      /\ calls[c].at = "already_resolved" =>
           claims[i].type # type \/ claims[i].state = "completed"

\* What _resolve told a caller remains true: a success means the item is
\* final with the caller's type, an already_resolved answer means another
\* type owns the item or the resolution is over.
AnswersHold == \A c \in Callers : AnswerHolds(c)

\* An item has at most one reminder, whatever crashes and retries happen.
\* The lookup by intent_hash and the insert are separate transactions, so
\* this rests on the per-item lock: it holds for the callers of one process.
OneReminder == \A i \in Items : Len(reminders[i]) <= 1

ClaimRank(state) ==
  CASE state = "none" -> 0 [] state = "claimed" -> 1
    [] state = "target_created" -> 2 [] state = "completed" -> 3

\* A claim never changes its type, never moves back, and never exchanges the
\* target it has recorded; a final item is never written again.
ClaimsAdvance ==
  [][\A i \in Items :
       /\ ClaimRank(claims[i].state) <= ClaimRank(claims[i].state')
       /\ claims[i].state # "none" => claims[i].type' = claims[i].type
       /\ claims[i].state \in {"target_created", "completed"} =>
            claims[i].target' = claims[i].target
       /\ items[i].status # "pending" => items[i]' = items[i]]_vars

\* The same request again: of the claim's type and, once the backing task of
\* a reminder exists, of its intent.
Retry(i) ==
  \E c \in Callers, intent \in Intents :
    /\ claims[i].state # "none"
    /\ backing[i].rev > 0 => intent = backing[i].intent
    /\ Claim(c, i, claims[i].type, intent)

\* The reminder a repeated request finds has no job of its own and can get
\* none, now or at a later start: the name is taken by a job whose mark was
\* lost, or two rows of one name stop every attempt to arm its job again.
Stuck(i) ==
  /\ reminders[i] # <<>>
  /\ NeedsJob(reminders[i][1])
  /\ ~Ensurable(i, 1, Names)

\* An item whose resolution broke off at any point is finished by repeating
\* the request, without touching the claim by hand (ADR-052), provided new
\* processes are started now and then (a reminder that is still to be
\* scheduled gets its job only from the reconciliation at a start), with one
\* exception the code does make: the job of its reminder was saved and the
\* mark was lost, in a crash or because another process saved the name too.
\* Then the claim can be neither finished nor released.
RetryFinishes ==
  \A i \in Items :
    /\ []<><<Retry(i)>>_vars
    /\ []<><<\E h \in Hosts : Start(h)>>_vars
    => <>(items[i].status # "pending") \/ <>[]Stuck(i)
=============================================================================
