# Formal models of AI-Lab OS

AI-Lab OS is a local-first assistant written with asyncio and SQLite. API
workers, CLI commands and the assistant are separate processes that open the
same database files, so the facts they share (jobs, inbox items, reminders)
are protected by transactions, leases, claims and revisions and not by memory.
The modules here model that core, TLC checks it on small instances, and TLAPS
proves the central invariants for every instance.

## Inventory

| Component | State | Operations | What is hard |
|---|---|---|---|
| Scheduler (`core/scheduler`) | tables `jobs`, `job_runs`; per process a registry, background tasks, renewal tasks | schedule, pause, resume, delete, cancel, reschedule_one_shot; tick: release expired claims, sync, dispatch; run job, renew, finalize; start, shutdown | several processes on one table; leases that expire under a live owner; a clock read once per tick; crash between handler and finalize |
| Scheduler registry | in-memory jobs by id and name | register, replace, unregister | unique names are checked in memory only |
| Unified Inbox (`core/inbox`) | tables `inbox_items`, `inbox_resolution_claims`; per process a lock per item | capture, list, resolve to six kinds of target | the target is in another database: claim, create, record, complete is a saga that may break anywhere and be repeated by another process |
| Reminders (`core/reminders`) | tables of reminders and occurrences, plus a scheduler job and a user task per reminder | create, reschedule, cancel, trigger, reconcile, natural-language create | three stores without a common transaction; compensation and reconciliation |
| User tasks (`core/user_tasks`) | user task rows with revisions; reminder coordination | create, update, complete, cancel, reopen | a terminal transition first cancels reminders in another database, one by one |
| Waiting-for (`core/waiting_for`) | rows with revisions, one event per change | create, record_follow_up, snooze, resolve, cancel, reopen, list | compare-and-swap on a copy; row and event history must agree |
| Work log (`core/work_log`) | insert-only rows in the episodic memory table, beside rows of older versions | create, create from inbox, get, list | three identifiers for one row; rows that name no complete workspace; filing again under a reserved identifier |
| Trusted interaction (`core/interaction`) | interaction rows, transitions, idempotency keys | create, preview, confirm, approve, cancel, expire, execute, verify, recover | execution gap: EXECUTING is written before the external port is called |
| Lifecycle and admission (`core/system`) | lifecycle state, one shutdown task, accepted-work scopes | start, shutdown, admit | shutdown overtakes start; cancelled callers; components that fail; work admitted just before draining |
| Database layer (`core/database`) | connections | lease, transaction, migration | the atomic transaction every other component relies on |
| Task and workflow runtimes, delegation (`core/task`, `core/workflow`, `core/coordination`) | state machines by task and by workflow, cancel flags, checkpoints | create, run, pause, resume, cancel, retry, destroy; delegate | calls at every await of `run`; two timeouts; a bus that stops |
| Message bus (`core/bus`) | subscribers, running flag | publish, subscribe, stop | publish raises once it has stopped |
| Daily review (`core/daily_review`), agenda (`core/agenda`) | none (read models) | get; list by view | five sources read page by page, without a snapshot; the agenda reads one page of some |
| CEO assistant (`applications/ceo_assistant`) | none | run: decide an intent and an effect, serve it | what is announced and what is done are read from the text separately, with other callers at the same rows |
| Agent, memory, knowledge, providers, tools (`core/agents`, `core/memory`, `core/knowledge`, `core/providers`, `core/tools`) | one agent with a status, one model provider with a status, the last failure of the memory | run a request: retrieve, search, ask the model, save; call a tool; initialize, shutdown, health | all tasks share the one agent; requests end in any order, are cut off by timeouts and meet a shutdown; failures are swallowed on the way |
| Trusted ingress pilot (`applications/pilot_001_ingress_bridge`, `trusted_interaction_adapter`) | issuance journal, signing keys, verifier projection, evidence and challenges | preview, confirm; issue, accept; rotate, project | a message confirms one preview once, though it is redelivered, keys rotate and calls race |
| Settings and factory (`core/system/settings`, `factory`), API and CLI (`api`, `cli`) | the settings, the container and its optional services, one answer per request | load settings, create the system, start, serve requests, probes or one command, shut down | features that are switched independently and need each other; requests at every point of the lifecycle; a health that outlives its state |
| Other applications | none or session state | - | - |

Interactions: the reminder bridge creates scheduler jobs whose handler triggers
the reminder; the inbox creates user tasks, reminders, work logs and
waiting-fors; user tasks cancel reminders; every service publishes events on the
bus after its commit.

Properties that make a component correct: a job attempt has one owner at a time,
is counted once and closed once (scheduler); an item is resolved once, into one
target of the claimed type, and a broken-off resolution can be finished (inbox);
a reminder that is due and not cancelled fires once (reminders); an interaction
is executed at most once and its outcome is verified before it counts
(interaction).

## Modules

| Module | Models |
|---|---|
| `SchedulerClaims` | scheduler runtime and persistence of several processes |
| `RunLedger` | abstract specification: what the scheduler promises about runs |
| `JobTable` | abstract specification: how a row of `jobs` may change, shared by `SchedulerClaims` (which implements it) and `ReminderSaga` (which is built on it) |
| `InboxResolution` | `InboxService._resolve`, its repository, and reminder creation as the saga uses it |
| `UserTasks`, `ReminderSaga` | task rows; reminder bridge, service, repository, handler and management with the scheduler's table, the registry of each process and the coordination of tasks and reminders |
| `WaitingFor`, `WorkLog`, `DailyReview` | the waiting-for service with its history; the work log with its projection of older rows; the daily review and the agenda, which page through five sources that are written meanwhile |
| `CeoAssistant` | over `DailyReview`: the rules that give a request its intent and effect, and the handlers that serve it |
| `TaskRuntime`, `SystemLifecycle` | tasks made of workflows, delegation; start, shutdown and admission of the process around them |
| `AgentRuntime` | over `SystemLifecycle`: what the steps of a workflow do with the agent, the memory, the knowledge base, the model and the tools, and the health of the system |
| `SystemEntry` | over `AgentRuntime`: the process around the container, from its settings through the factory to the API or a command, and the requests it answers |
| `Interaction` | `InteractionService`, its repository and its ports |
| `TrustedIngress` | the ingress pilot over `Interaction`: its two writing tools, the issuer, keys, evidence and challenges |
| `GatewayLauncher` | the launcher of the pilot's gateway, the hardened process it starts and the evidence file between them |
| `InteractionContract` | abstract specification: what an interaction promises about its external action |
| `MC...` | instances for TLC |
| `SchedulerClaimsProofs`, `InboxResolutionProofs`, `InteractionProofs`, `TrustedIngressProofs`, `ReminderSagaProofs`, `CeoAssistantProofs`, `SystemLifecycleProofs`, `GatewayLauncherProofs` | theorems and proofs |

Operators whose name starts with `Bug` are slips of the code that the properties
are meant to catch; no specification uses them.

### SchedulerClaims

A row of `jobs` is a record (status, run_at, next_run_at, retry_count,
run_count, claim_token, claim_expires_at, revision), a row of `job_runs` is
found under its claim token. A worker is a live `_run_job` task together with
the copy of the job it computes from. Each method of `SchedulerPersistence` is
one action or one part of an action, since each is one transaction. A runtime's
tick is split where other processes can come between (`TickStart` reads the
clock and releases expired claims, `TickSync` reads the table, `DispatchClaim`
or `DispatchSkip` handle one due job each); so is a management call (`CallRead`,
then `CallWrite` or `CallConflict`). Jobs have names of their own here; that the refresh
of the registry raises when two rows bear one name (runtime.py:648) is part of
`ReminderSaga` and `InboxResolution`, where such rows come from.

Time is discrete and relative: a stored instant is the time left until it, and a
process that read its clock earlier compares with an older reading (`age`, at
most `MaxStall`). So a stalled process can write leases that are already over,
which the code can do as well. `Stop` is a crash or shutdown at any point;
`FinalizeError`, `RenewError` and `TickAbort` are database errors.

`RunLedger` is the promise: a job has at most one open run, a run is closed once
with one verdict. `SchedulerClaims` implements it under the mapping that reads
the book off `job_runs`.

### InboxResolution

An item, its claim, the targets that exist for it, and one record per caller
with the step its `_resolve` is at. The steps are the repository transactions:
`Claim` (claim_resolution, with the early answers of `_resolve`), `Get`, `Read`,
`Create` for the kinds with a reserved identifier, or `CreateTask`, `Match`,
`Insert`, `SaveJob`, `MarkScheduled`, `Note` for a reminder, then `RecordTarget` and
`Complete`. What goes wrong inside the bridge's create is compensated there:
`CancelJob`, `MarkFailed`, `Report`. `StepFails` is an error of any other step that wrote
nothing, `Crash` ends a process at any point, `Stop` in good order. The lock of
an item is `Locked`: it excludes only callers of the same process. Revisions of
items and claims are left out because each update compares the revision within
the immediate transaction that read it; the revision of a reminder's backing task
is read and compared in different transactions and is therefore modelled. 
`jobs` is the scheduler's table, which does not keep names apart, and `known` the names
each process has in its registry, which does: `SaveJob` is refused when the name is taken
there. `Tick` reads the table again, `Start` does so and then runs the bridge's
reconciliation, which `Match` runs too for a reminder that failed. `Reconcile` gives their
job to the reminders that can have one (`Due`), with a fault to some of them, or the job
without the mark; it is one step here, and `ReminderSaga` interleaves it. `Stuck` is the
reminder that can have none. When a job falls due, and what firing it does, is the
subject of `ReminderSaga`.

### Interaction

An aggregate (`rows`: lifecycle state, revision, the consent it is under, the
outcome so far), its previews, the idempotency claims, and one record per call in
progress with the aggregate as the call read it. A call is a chain of steps, one
per place where others can come between: `Lookup` (the idempotency row), `Read`
(aggregate, facts and checks; `ReadRecover` and `Reread` for recover), the awaited
port or authority (`Authorize`, `ExecutePort`, `VerifyPort`, `CanonicalCommit`) and
the transaction (`Write...`, `Observe`, `Reconcile`, `Finish`), which is
`Transition`: compare the revision, write, claim the key, or change nothing.
`start_execution` writes twice, once before and once after the port. `Crash` ends
a call at any step. Previews are named by their revision; identity checks, audit
rows and failure texts are left out.

`world` is what the ports really did. They are external and modelled from what the
service expects of them: an action that the execution port rejects or fails did not
take place, after any other answer or an exception it may or may not have; the
verifier confirms, with evidence, only what took place; the commit authority may
fail before or after it recorded. `EvidenceTrue` and `ImplementsContract` rest on
that honesty of rejections and verifications. The adapters wired by default are
disabled ports that always raise, which is one of the modelled outcomes.

`InteractionContract` is the promise: an action is asked for at most once and only
for a started interaction; success is reported only of an action that took place;
what is failed, cancelled or expired never took place and never will. `Interaction`
implements it under the mapping of the lifecycle states to phases (`PhaseOf`).

### TrustedIngress

Extends `Interaction`. Either callers use the domain at will, as before
(`load.pilot = FALSE`), or only the pilot's tools are there. The preview tool is a
chain: create, preview at the revision of the creation, draw a challenge, store it
(`PreviewTool`, `PreviewCreated`, `DrawChallenge`, `StoreChallenge`); its repetition
answers from the claims of `Interaction` and shows one more challenge, the newest of
which counts. The confirm tool checks (`Checks`), calls `confirm`, and
`TrustedConfirm` is `WriteConfirm` with the consumption of evidence and challenge in
the same transaction. `tools` holds what a tool carries from one step to the next;
the domain call inside it is the caller's `calls` entry.

The issuer is another process: `Deliver` looks in its journal and signs, or returns the
first envelope again; `Accept` verifies and inserts the row. `Rotate` and `Project` are
the two halves of a rotation, `InitKeys` is the bootstrap that repairs a broken one.
Attempts to confirm that a check refuses change nothing and are left out. The cached
keys of a verifier are a part of the projection, which it reads again when a key is
unknown, so the model looks keys up in the projection. Texts are taken from a set of
two, so that challenges collide; an attempt may quote any message.

### UserTasks and ReminderSaga

A reminder is three rows in two databases: its task, its own row and the job that
fires it. `ReminderSaga` composes the task rows (`UserTasks`), the reminders and the
jobs (`JobTable`, whose operators are the row updates of the scheduler) with the
processes that work on them: one call per process, as a chain of steps that are the
transactions of `ReminderBridge` (create, reschedule, cancel, cancel_for_task,
reconcile) and of the task coordination; the scheduler's ticks; and the handler's
trigger, which commits the occurrence and the status at once. Each process has a
registry of job names that is refreshed from the table by its ticks. What becomes of
the process is `load`: one that crashes, or a server next to a command line.

`JobTable` keeps of the scheduler what a reminder depends on: claims, attempts and the
retry budget. `ImplementsJobTable` shows that the full scheduler steps only so.

### WaitingFor, WorkLog and DailyReview

A waiting-for item is its row and its events; a call reads, decides on that copy and
writes row and event in one transaction, which the revision guards.

A row of the work log is what decides how it is shown: the look of its identifier, the
workspace it names (one, or none completely), the dates it has, whether something can
serve as its subject. `Readable` is the projection of a row of an older version, which
makes nothing up; `Visible`, `Owned` and `Found` are the three queries that list and get
are made of. Rows 4 and 5 of the instance are made from inbox items, row 5 under the
identifier the inbox has noted in older versions. `told` remembers what was given out.

The review walks one source after the other with offset and limit; each page is a
transaction of its own and the sources are written in between. `partial` remembers which
writes came behind the walk: a row already read that leaves the list or moves in it
shifts the rows that follow across the page boundary. The agenda is the same walk with
the queries of its view (`AgendaQueries`), without a selection (`Reported`), and with one
page only of reminders and waiting-for items (`OnePage`), which it filters afterwards;
`partial` holds those sources when more rows match than the page has. `ReviewComplete`
says that the answer is complete and right for everything else, in the order of its
reasons. `Decisions` is the table that suggests actions for what is reported; it knows
section and reason only, and `HintsAccepted` says that the store would accept them
(`Accepted`). A pending item of the inbox may be claimed by another resolution meanwhile,
which `InboxResolution` treats: then every other kind that is suggested is refused.
`LogsHold` and `ReviewHolds` join the two promises of the work log and of the review.

### CeoAssistant

A text is the sequence of the keywords in it; `Contained` says which keywords contain
others, since the code searches for substrings. `Rules` is `decide_intent`: the first
rule that fits gives intent and effect. Each handler is an action on the stores of
`DailyReview`, through the operations those modules have; an operation on a waiting-for
item is three steps (`LookAtItem`, `ActOnItem`, `FinishItem`), between which another
caller may write it. The rules lower the text first and the handlers do not, so an
identifier in capitals is one for the rules only, and the handler answers with
candidates (`ShowCandidates`).

### TaskRuntime and SystemLifecycle

`run` is a coroutine that goes from one await to the next; `runner` is where it waits
and the state machine of the workflow it awaits. Between two awaits come pause,
resume, cancel, retry, destroy, the cancel of a workflow (which finds the state machine
of the run that came last), both timeouts, and the end of the bus. `SystemLifecycle`
EXTENDS it: `start` brings the components up in order, `shutdown` makes one task that all
callers wait for and that closes them in order, jobs and requests are let in while the
state is ready. A request of the application runtime is waited for by nobody.

What the model says about the code, and no document contradicts: a shutdown that
overtakes start leaves open what start opens afterwards (its last transition then
raises); a start that is cancelled cleans nothing up; a caller of shutdown that is
cancelled cancels the shared task, so the system stays in DRAINING, unless it is just
waiting for the tick, where the cancellation is swallowed; an accepted request may open a
connection after close_all. `TaskRuntime.shutdown` only sets flags that exist already;
pause stops nothing, so a task may complete while paused, which raises; resume and retry
change the state and start no run; a delegation that times out leaves its task running
for ever; a task destroyed while its start is announced has lost its plan and fails
without having been tried; `TaskDelegator.cancel` passes its own identifier, which no task has, and the
status it sets is overwritten by the end of the run. The properties are stated so that
they hold nevertheless, and the histories `overtaken`, `outlived` and `left` say where the
exceptions are.

### AgentRuntime

EXTENDS `SystemLifecycle` and says what a step of a workflow is (`StepType`): it waits, calls
a tool, or asks the agent. `ask` is the await at which the call for the present step of a task
stands; the agent's chain is `AgentBegins` (started), `Retrieves`, `Consults` (search, and the
provider's readiness), `ModelEnds`, `Saves`, `Answers`, `AgentEnds`, and each may fail into the
executor's `except` (`Fails`) or, when a publication raises, out of it (`AgentRaises`). The
retries of the model's client are inside `ModelEnds`. `AgentMoves` is the transition table of
the agent; `After` is a transition that is silently not made when the table forbids it.
`Opens`, `OpenFails`, `ProviderCloses` and `Closes` are the start and the shutdown of
`SystemLifecycle` with what they do to the agent and the provider; `Between` and `CutOff` are
the moves of a run between its steps and the timeouts that cut a request off. `Health` is the
status of `SystemContainer.health` over what is modelled. Every other component is taken to be
as healthy as its being open says.

What the model says about the code: the workflow does not look at the status of the agent's
response, so a request that failed counts as a completed step. FAILURE_SEMANTICS.md (line 103)
asks that the failure of a dependency is never returned as success; with the default settings
(`enable_knowledge` false, while the workflow asks for knowledge) every step that asks the agent
fails and the workflow completes. The history `hollow` keeps the tasks with such a step, and
`system_failed_step` shows one that is reported as completed (`NoFakeSuccess`).
`StepsAnswered` says what does hold: no step of a completed workflow was skipped, each was
answered, in whatever status; and the truth about the agent is in `Health`, which stays
failed. The health of the scheduler, which fails after several failed ticks, is not part of
`Health`. An agent that
failed stays in ERROR until the system is started again, since the table has no way back; a
degraded answer goes unseen when another request has ended meanwhile (IDLE to DEGRADED is not
in the table); a request that is cut off leaves the agent RUNNING, which is a status in which
it serves. Tools are called by workflow steps only: nothing puts tool calls into the variables
that the agent reads them from.

### SystemEntry

EXTENDS `AgentRuntime` with the process that owns the container. An environment is what the
code tells apart in the variables it reads: which features are on, which parts of a model's
configuration are there, which values are wrong. `LoadSettings` and `CreateSystem` accept or
refuse it (`Consistent`, `Secured`, `WorkspaceFits`, `Configured`); `Services` says which
services of the container are then there. `Lived` ties the stages of the process to the
lifecycle: start follows the factory, and shutdown comes once, after the system has served.
With `stage` "alone" the container is used directly, as its tests do, with several callers
of shutdown and without requests.

A visit is a request, a probe of readiness or the operation of a command. `Arrive` is what
happens before the handler (token, admission), `Handle` and `Operate` take the service the
endpoint needs (`Needs`) or say that it is switched off, `Finish` and `ProbeEnds` answer. A
probe looks at the provider and the agent when it arrives (`FirstLook`), at the memory once
the scheduler has answered (`Look`), and at the lifecycle and what is open when the health
is put together (`LastLook`); the system moves on in between.
While one is under way it is the `Request` of `SystemLifecycle`. An endpoint stands for all
that need the same service; what the handler does in there is modelled in the module of the
service.

What the model says about the code: requests are not awaited by shutdown, so one that was
admitted may find the connections closed and fails. POST `/workflows/{name}/run` answers
that the workflow has started, whatever the name and the state of the system, and starts
nothing. Reminders without a scheduler are accepted outside the daily profile: they can be
asked for and not managed, creating one fails, and the health fails (`SystemHealth`), so
that such a system is never ready for the probe.

### GatewayLauncher

One action per step of `run_pilot_gateway` at which the launcher waits or fails, one per
step of `run_hardened_module` in the gateway. Reading the evidence file, polling the
process and looking into `/proc` are separate actions, so that the gateway moves in
between; each stage of the evidence replaces the one before. When the interpreter is a
wrapper (`direct` is false), the process that the launcher polls and stops is not the one
that writes, and its evidence is refused because of the pid. Two things the model shows
that are not failures of a property: the signals of the launcher reach the wrapper only,
so that a final process behind it may survive a launch that failed; and a module that
returns before the launcher has looked leaves the stage `returned`, which is never
accepted, so that such a launch fails when its deadline has passed or the exit is seen.

## Runs

| Run | Instance | Shows |
|---|---|---|
| `scheduler_claims` | 2 processes; 1 one-shot job with stalls and faults, or 2 jobs, limit 1, with management calls against execution | lease exclusivity, attempt numbers, retry budget; claimed rows are not disturbed; completed is final; the claims a process holds keep the limit; refinement of `RunLedger` and `JobTable` |
| `scheduler_live` | fairness | attempts close; one-shot jobs settle |
| `inbox_race` | 1 item, 2 processes, 4 kinds, 2 intents, 1 fault, fairness | no orphan target, item and claim agree, answers stay true, claims only advance; repeating the request finishes it, unless the reminder's job was saved and the mark lost |
| `inbox_duplicate` | 1 item, 2 processes, no faults | expected violation, see below |
| `interaction_consent` | 1 interaction, 2 callers, 2 previews, a clock; the pilot with 2 interactions and 1 message, 1 interaction and 2 messages, 1 message with a rotation and a fault | an action is executed under the consent to its own preview; a confirmation has exactly one message of the owner; accepted evidence stays verifiable |
| `interaction_recovery` | 1 interaction, 2 callers, 1 fault, fairness | refinement of `InteractionContract` with crashes, uncertain and late outcomes, cancel and retried recoveries; answers own their keys; evidence is true; an action that took place ends in success |
| `interaction_claim` | 1 interaction, 2 callers, no faults | expected violation, see below |
| `reminder_saga` | 1 reminder and its task; one process that crashes, or two side by side; fairness | at most one occurrence, at its instant; settled reminders stay settled; a success answer disarms; a live deployment fires within the retry budget and repairs what is pending |
| `daily_review` | 3 rows in one source at a time, pages of 2, the review and five agenda views; two callers on one waiting-for item; 3 created or filed work logs beside 2 older rows of every form; one request out of all pairs of 57 keywords | the answer is complete but for rows behind the walk and beyond a single page, and what it suggests can be done; history and row agree; a record given out stays and is found by its workspace only; a request changes what was announced |
| `gateway_launch` | one launch with every failure, interruption and timeout | announcements are true, the project is removed in time |
| `system_drain` | start and shutdown with 2 jobs, requests, faults; a task of two workflows under all calls; two tasks on one workflow; two tasks that ask the agent while it fails and the system shuts down; a process with one of 39 environments and a visit, with the daily profile and two visits, or one and faults | an accepted profile gives what it promises, and the readiness that is reported is there; jobs do not outlive their components; the end is reported as it was; tasks say what was done; health is failed exactly when the agent or the memory has failed; each step of a completed workflow was answered |
| `system_failed_step` | one task whose workflow asks the agent, with faults | expected violation, see below |

Bounds. Two processes are enough for every race of two transactions; the third
party in the scheduler is time. One job (or item) is enough where jobs do not
interact; the concurrency limit needs two. So `scheduler_claims` explores one job with
every fault, stall and one call (`Alone`), and two jobs with two calls and no fault
(`Calm`). Faults are bounded so that behaviours end; one is enough for a saga to break off
at each of its steps, and two or three, where there is a recovery of its own, for a crash in
the middle of it. `MaxClaims`, `MaxRev` and `MaxCalls` only cut histories
that repeat.

`DailyReview`, `ReminderSaga`, `SystemEntry` and `TrustedIngress` choose a `load` in the initial state: a
few small scenarios in one run, instead of their product. Three rows and pages of two
give a full page, a last page and a row to shift across the boundary. All pairs of
keywords let every two rules compete for a text; the texts of three and more words are
those that carry an operation through. One request is enough, since the assistant keeps
nothing between two.

The environments of `SystemEntry` are the daily profile, each of its settings changed or left
out, and systems without a profile in every combination of tasks, reminders and scheduler and
with every way a provider can be configured (`AllEnvironments`). Visits touch each other only
through the databases they keep in use, so that two are enough.

In `Interaction` keys belong to an operation and are used in order, since their names
do not matter; `Calls` says how many each caller has for an operation. The clock has
two instants, before and after the expiry of a preview. A client names the revision
it sees, and it becomes stale on the way, or it repeats an earlier request.

Fairness. A started coroutine is resumed by its event loop (weak fairness of its
steps); a running scheduler process keeps ticking and time passes. Nothing is
assumed of callers: `RetryFinishes` has "the request is repeated for ever, and
processes are started for ever" as its hypothesis, and one exception, `Stuck`: the
reminder's job was saved and the mark was lost, in a crash or because another process saved
the name too. `RecoveryFinishes` assumes that
somebody keeps calling recover for a started interaction (strong fairness): the
service has no recovery worker, and its documentation says so.
`interaction_recovery` uses `RecoverySpec`, the domain without `ConsentStep`: its kinds
need no confirmation and its clock stands still, so those steps are disabled in it;
`interaction_consent` exercises them.

`ReminderSaga` assumes weak fairness of the steps of a process that is up, of its
ticks and of the handler, and that a process that is down is started again.
`SystemLifecycle` states safety only; that it cannot get stuck is the deadlock check.
So does `GatewayLauncher`, whose loop has a deadline and whose waits have timeouts.

Findings. `inbox_duplicate`: ADR-052 says that a same-type race yields at most one
target because all parties use the same deterministic key, and that the asyncio
lock is no correctness boundary. For reminders the deterministic key only names
the backing user task. The reminder itself is looked up and inserted in separate
transactions, so two processes can each insert one; the second is left behind
with a scheduler job of its own. `OneReminderInOneProcess` proves that within one process,
where the lock applies, there is never a second reminder.

`interaction_claim`: ARCH-001 (line 443) says that the owner of a recovery must claim it
with a compare-and-swap so that nobody compensates concurrently. `verify` and `recover`
claim nothing: two of them can both be about to complete the canonical commit, and the
revision decides only afterwards which of them is recorded. `interaction_recovery`
shows what remains true nevertheless: the aggregate succeeds once, on true evidence.

`system_failed_step`: FAILURE_SEMANTICS.md (line 103) forbids that the failure of a
dependency is returned as success. `_execute_agent_step` returns the answer of the agent
without a look at its status, and the agent answers a request that failed instead of
raising. The run shows a task that is completed although the agent failed its step.

Seven remarks that are no findings of a run. RFC 029 (line 189) has a retrying reminder that is
due soon suggest rescheduling, and the table of hints has that row; the review reports such a
reminder as retrying, which is more urgent, so nothing is ever suggested for it (`Decisions`). RFC-022 (line 21) gives the words that create
a reminder priority over others that appear in its title; `decide_intent` does, but
`_handle_task` looks for the words of a list first, so that a request to be reminded to
look something up is announced as a write and lists the tasks (`ListsTasks`). ADR-073 (decision 5) wants freshness
checked in the transaction of the confirmation; `confirm` checks both expiry times
before it, and the transaction compares statuses and revisions only, so a
confirmation that was checked in time may be written a little late (`Checks`,
`Consumable`). RFC 028 (lines 292 and 451) wants sources
that could not be read to be named in the review; rows that slip past a page are not, as
`DailyReview` shows when `partial` is ignored, nor is what the agenda leaves behind its
single page. REMINDER_SCHEDULER_BRIDGE.md (line 47)
says that reconcile repairs a reminder that is still to be scheduled; when its job was
saved and the status was not, the name of the job is taken and it does not, until the job
has fired. ADR-052 (line 51) says that a new process can always go on with a resolution that
failed; in the same case it cannot (`Stuck` in `RetryFinishes`), and not after the job has
fired either, since a triggered reminder names no job and the repeated request refuses that:
the item can be neither resolved nor dismissed. RFC-012 (line 61) says that
`max_concurrent_jobs` limits the tasks that run at the same time; a handler that lost its
lease runs on uncounted, so the limit is of the claims held (`ConcurrencyLimit`).

## Proofs

Safety and refinement are proved for every value of the constants; liveness under
fairness stays with TLC (the provers do not treat ENABLED). No module with a theorem
reaches a RECURSIVE operator. Theorems about the type of a module are the ground of the
others; every strengthened invariant was an invariant of the module's runs before it was
proved.

`SchedulerClaimsProofs` proves every safety property of the module, for all sets of jobs
and processes, all bounds and all durations that satisfy the named assumptions:
`TypeCorrect`, `ClaimsCorrect` (with `ClaimsMatchRuns` and `LeaseExclusive`),
`RetriesBounded`, `CopiesFresh` (`OwnerCopyFresh`, of the retry and run counts; the run checks both as `ClaimsHold`,
`ClaimsAreTrue`), `CompletedStays`, `AttemptsCounted`,
`ConcurrencyBounded` (of the claims held) and the two refinements, `SchedulerImplementsLedger` and
`SchedulerImplementsJobTable`. The inductive invariant `ClaimInv` is `ClaimsMatchRuns` (a
token on a job is a running row of that job, and conversely), `WorkersConsistent` (a
worker works for the job of its token) and `LeaseExclusive`. It makes the simulation of
the ledger go through: opening a run needs that no other run of the job is open. The
other results need what a copy that was read earlier still says about the row. `RowMove`
lists how one step may change a row (the steps of `JobTable`, with the revision);
`CopyInv` says that a worker's or a call's copy has the row's revision and fields, or a
smaller revision, so that compare-and-swap decides; `BlankInv` and `SeenInv` say what
rows, runs and dispatch lists hold before they are first used. Each action owes only its
`RowMove`, from which `RowInv` and the refinement follow.

`InboxResolutionProofs`: `InboxTypeCorrect`, `ResolutionCorrect` (with
`ResolutionCoherent`, `NoOrphanTarget` and `AnswersHold`) and `ClaimsOnlyAdvance`, for all
items, callers and keys. Neither `NoOrphanTarget` nor
`ResolutionCoherent` is inductive: whether a store write is safe depends on what
the caller that makes it learned from the stores several steps earlier. The
inductive invariant `InboxInv` therefore adds, for every caller, `CallOK`: what its
position in the saga says about the claim, the target and the item. The proof has
two halves. `Advances` says the stores only ever move forward in a step (a claim
gains a target and then completes; a target, once created, stays), and the lemma
`Frame` says that what a caller knows survives any advance made by somebody else.
Each action then owes only its own caller's new knowledge and `Advances`, and
`Combine` puts the two together. `LockExcludes` proves that the asyncio lock keeps two
calls of one process out of the saga of one item. `OneReminderInOneProcess` draws the
conclusion under its hypothesis `OneProcess`, which is what the docs of the reminder
orchestration assume: between the lookup by intent and the insert nobody else inserts
(`NothingYet`). Without the hypothesis the property is false, as the finding shows.

`ReminderSagaProofs`: `SagaTypeCorrect`, `TriggeredOnce` (`OneOccurrence`) and
`SettledStays` (`SettledIsFinal`), for all reminders, callers, processes and bounds. The
argument is the optimistic lock on the reminder. `SagaInv` adds to the type: `RowGood`
(what the status of a row says about its revision, job and occurrences), `JobInv` (a job
of the table belongs to the reminder it names), `CallOK` (every copy of a row held by a
call, a handler or a list has the row's revision and content, or a smaller revision;
what the position of the call says about the copy) and `OneCreator` (one call at most
creates a given reminder). An action that writes a row passes its revision check only
with a current copy, so what was checked on the copy holds of the row; for everybody
else the row's revision grew. `ScheduledJobsThere` (`ScheduledHasJob`) is about the only
process: nobody comes and nobody leaves (`LoneBefore`), so every step is its own
(`LoneSteps`), and `LoneInv` can say of its call what no call of several processes may
rely on: the job a call has in hand bears the reminder's name and is set to its instant
when a row is about to be written that says so (`CallHas`), the list of the
reconciliation is the table except for what it has dealt with (`ListHas`), its registry
is the table (`NamesKnown`), so that a name it does not find is a new one. Between calls
the handlers and the tick loop keep the name and the instant of every job (`CalmTables`)
and schedule no reminder anew (`DisarmedTables`). A second process breaks each of these
facts, and then `ScheduledHasJob` claims nothing.

`InteractionProofs`: `InteractionTypeCorrect` and `InteractionImplementsContract`, for
all interactions, callers, keys, preview kinds and port answers. The refinement is not
inductive by itself: that the port is not called twice depends on which calls hold an
intent, and that SUCCEEDED is true depends on what a call was told several steps
earlier. `InteractionInv` adds four facts. `RowsOK`: what the lifecycle state says
about the world. `CallsOK`: a call's copy of the aggregate is the current one or has a
smaller revision (so the compare-and-swap of `Transition` decides whether what it
checked still holds), and what its step says about the world. `OnePort`: at most one
call of an interaction is about to ask the execution port. `ClaimsOK`: a claim names
the interaction it was made for. Each action is shown to keep the invariant and to
change aggregates and world only as `Advance` allows (a legal lifecycle move, a new
row, the one port call, a recorded commit); `OthersKnow` says that what the other calls
know survives a move, and `AdvanceIsContract` maps each form of `Advance` to a step of
the contract. The proof rests on the ports' honesty stated above, as the model does.

The same module proves the other three promises on top of `InteractionInv`:
`ExecutesWithConsent` (`ExecutionAuthorized`), `EvidenceIsTrue` (`EvidenceTrue`) and
`AnswersAreKept` (`AnswersHold`). `ExecutionAuthorized` is about a port call that lies in
the past, and about a preview, a confirmation and an approval that other calls wrote before
it. `ConsentInv` therefore says of each row which consent its state implies and that the
port's preview is the current one (`ProperRows`), of each claim that what it settled is
still so (`ClaimsTrue`), and of each call what its position implies (`CallsKnow`). One
lemma, `Together`, needs of an action only that previews and rows `Grow` (a preview keeps
its plan, a row its settled state) and what its own call learns.

`TrustedIngressProofs`: `AcceptedStaysVerifiable`, for all messages, callers, keys and
rotations: rows keep the envelope they were inserted with and the projection only grows;
the invariant adds that there is a row for every message. The pilot's tools ask the domain
what no client of `Interaction` would (a preview at revision 1 of whatever a key made),
and confirm in a transaction of their own, so what was proved of `Spec` does not carry
over by itself. `DomainHolds` shows that `InteractionInv` and `ConsentInv` hold under
`IngressSpec` all the same; `PilotExecutesWithConsent` and `PilotImplementsContract`
follow. `OwnerConfirms` (`OwnerConfirmed`) needs three more parts. `ChannelInv`: the
journal has the time of a message's first delivery, and stored evidence that is unused is
the journal's envelope, so freshness that the confirm tool checked on the envelope is
freshness of the message. `ToolChecked`: what a confirm tool that waits for its call has
checked and no later step can undo. `Consumptions`: a preview is confirmed with one
message and one challenge, or has consumed none - so that the transaction, which finds
both unused, leaves exactly one of each. `CallMove` lists how a call can change under its
tool; each action owes its `CallMove` and, if it writes previews, evidence or challenges,
what the writing means for `Consumptions`.

`CeoAssistantProofs`, for all items, callers, texts and loads of the stores: every step of
the assistant, of the review and of the other callers does to the waiting-for tables and
to the work log one of the few things `WaitingFor` and `WorkLog` define (`WaitingStep`,
`LogStep`), so that `HistoryIsTrue` (`HistoryReplays`), `RecordsStay` (`RecordsKept`) and
`LogsAreScoped` (`LogsScoped`), together `LogsAreTrue` (`LogsHold`), are proved against those. The invariant adds that the copy a
caller of the waiting-for service holds is the row, unless its revision is behind, and was
fit for the operation; that a row is the empty one until it is inserted; and that no row
shown under an identifier of its own lacks a part of its workspace. That last is so of the
rows that are there before only by `LoadAssumption`: the services have never written such a
row. `EffectsHold` (`EffectHolds`) compares two readings of the text: if the first rule
that fits (it exists, the last one always does) announces a question about tasks, the
handler finds one of the words for a list too, because lowering the text makes and hides
none of them; for the other intents the assertion of the effect contract is enough. The
assistant is a caller nobody else acts as while a request is under way
(`AssistantAssumption`). `ReviewIsComplete` (`ReviewComplete`) holds for any number of
rows, any page size and any number of writes before and between the pages. A row's place
in the list of its query is the number of rows that come before it (`Place`); that there is
one row for every place is counted out with the facts about injections into an interval
(`RanksNumber`), so the rows of a page are those with a place in its range (`PageIs`) and
the walk is past those before it (`Passed`). `RankMoves` is the heart: when one row is
written that was not among the first `offset`, no other row comes to stand among them that
was not there, so nothing the walk has not seen can slip behind it. `WalkInv` says that of
an object nobody has written all has been found or nothing, and all once the walk is past
its row (`Accounted`); for that its candidates must come from one query only, because the
queries of one source share no row (`OneQuery`). The proof needs the tables to be finite
(`ReviewAssumption`). `ReviewIsSound` (`ReviewHolds`) adds what is suggested: by `WalkInv` a
candidate that is reported of an untouched object is one its row still gives
(`ReportedStands`), and no row that leads to an entry of the table is in a state its store
would refuse (`HintsFollow`).

`SystemLifecycleProofs`: `TaskOutcomesAreTrue` (`TaskOutcomesHold`), for all tasks, plans
and retries, and `ShutdownIsOrderly` (`ShutdownOrderly`), for all jobs, callers and loads. `TasksInv` says of each task how far
`run` has come when it waits (`Progress`: which workflows have been taken, how often the
present one was begun, that it is the next one), what a status allows to conclude (`Told`:
failed, timed out and retrying are only entered when `run` is over, because resume and
retry start no run), and that a task that is cancelled or destroyed has its flag set or is
not registered, which `run` finds at the head of its loop (`Stopping`). One lemma per await
of `run` and one, `CallKeeps`, for all calls from outside. `LifecycleInv` says what state
the system is in by where the shutdown task is (`PhaseInv`), that nothing jobs work with is
closed before they have been gathered (`JobsInv`), and that what is still open has its turn
to come or has failed to close (`ClosedInv`), unless start was overtaken. Of the two orders
the proof uses little (`TurnsOf`): the jobs come third, the components they need later, and
each component has a turn.

The same module proves what the agent adds. `AgentImplementsLifecycle` maps every step of
`AgentSpec` to one of `Spec` or a stutter: a step of a task either ends as `StepEnds` or
`StepBreaks` do, or leaves the run where it is. So the invariants above hold of the composed
system (`AgentKeepsOrder`) and are at hand for its own. `HealthIsTruthful` (`AgentTruthful`)
rests on how the agent's status follows from the place of start and shutdown (`AgentPhase`)
and from `failed` (`ErrorKept`), for any number of requests at once; it must hold before the system is ready, and after each
part of a close. `StepsAreAnswered` (`StepsAnswered`) balances the steps counted as failed, those
answered and the index of the present one (`Answering`): the second try takes back the failure that
the first has counted.

And what the process adds. `EntryImplementsAgent` maps every step of `EntrySpec` to one of
`AgentSpec` or a stutter (what comes in is a `Request`), so all of the above holds with the
API or a command at work (`EntryKeepsOrder`). `DailyProfileHolds` (`ProfileHolds`) and
`ReadinessIsHonest` (`ReadinessHonest`) hold for every set of environments. They need that
a system which is ready has its connections (`StoresAreOpen`, by the place of the stores in
the order of start), that a process which has begun was found consistent (`ProcessSound`),
and what the answer of a visit says of the services and the token (`VisitSound`); `Usable`
then follows from `AgentPhase`. `ReadinessIsHonest` does not ask for a profile: that
reminders without a scheduler are never called ready is a consequence of the health.

`GatewayLauncherProofs`: `AnnouncementsAreTrue` (`LaunchTruthful`) and `LaunchesCleanUp`
(`NothingLeft`). The launcher acts on evidence that may be replaced before it has looked at
the process, so the invariant says what each stage of the file and each position of the
launcher imply about the gateway (`GatewayCoherent`, `PlaceCoherent`): these facts are stable,
since a process that is hardened stays so and a module that has begun has begun.

## Not modelled, and the plan

Every safety property that a passing run checks is proved for all constants (`OneReminder`
for one process, as far as it holds); liveness is only model-checked.

Not modelled: the contents, ranking and ingestion of memory and knowledge; what the
assistant extracts from a text beside its keywords; signatures
and bindings of the ingress pilot; the orchestrator
of coordination; tags, targets and references of older work logs; the models, codes and
wording of API and CLI; scripts. Of the modelled components PROJECT.json says what is left out.
