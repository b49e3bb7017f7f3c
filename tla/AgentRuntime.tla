----------------------------- MODULE AgentRuntime -----------------------------
(* What the steps of a workflow do: the WorkflowExecutor hands each to the    *)
(* tools, to the one agent of the system or to a timer.  The agent            *)
(* (DefaultAgentRuntime, AgentExecutor) asks the memory, the knowledge base   *)
(* and the model, and keeps the exchange in memory.  All tasks share it.      *)
EXTENDS SystemLifecycle

CONSTANTS
  StepType,   \* workflow -> its steps' types
  KnowledgeOn \* settings.enable_knowledge

ASSUME AgentAssumption ==
  /\ \A f \in Flows : DOMAIN StepType[f] = 1..Steps[f]
  /\ KnowledgeOn \in BOOLEAN

VARIABLES
  agent,        \* AgentInfo.status
  provider,     \* ProviderInfo.status of the model's provider
  memoryFailed, \* whether MemoryManager._last_failure is set
  ask,          \* task -> where the call for its present step waits
  answered,     \* history: task -> the steps of its present attempt that were answered
  hollow,       \* history: the tasks whose present attempt has the answer of a failed request
  failed        \* history: a request of the agent failed or raised

avars == <<agent, provider, memoryFailed, ask, answered, hollow, failed>>

AgentStatus == {"created", "initialized", "ready", "running", "idle", "degraded", "error",
                "stopped", "destroyed"}
\* A publication (started, stored, completed, degraded, failed), the knowledge base,
\* the model, the memory once there is an answer, a tool.
Waits == {"none", "started", "knowledge", "model", "answered", "stored", "completed",
          "degraded", "failed", "tool"}

\* Mutant: an idle agent cannot go to error.
BugAgentMoves(st) ==
  CASE st = "created"     -> {"initialized", "error", "destroyed"}
    [] st = "initialized" -> {"ready", "error", "destroyed"}
    [] st \in {"ready", "degraded"} -> {"running", "stopped", "error", "destroyed"}
    [] st = "idle"        -> {"running", "stopped", "destroyed"}
    [] st = "running"     -> {"idle", "degraded", "error", "stopped"}
    [] st = "stopped"     -> {"destroyed"}
    [] st = "error"       -> {"stopped", "destroyed"}
    [] OTHER              -> {}
\* VALID_TRANSITIONS of agents/lifecycle.
AgentMoves(st) ==
  CASE st = "created"     -> {"initialized", "error", "destroyed"}
    [] st = "initialized" -> {"ready", "error", "destroyed"}
    [] st \in {"ready", "idle", "degraded"} -> {"running", "stopped", "error", "destroyed"}
    [] st = "running"     -> {"idle", "degraded", "error", "stopped"}
    [] st = "stopped"     -> {"destroyed"}
    [] st = "error"       -> {"stopped", "destroyed"}
    [] OTHER              -> {}
\* A transition that is not allowed is not made, and nobody is told.
After(st, target) == IF target \in AgentMoves(st) THEN target ELSE st
Runnable == {"ready", "idle", "degraded", "running"}

Initialized(st) == After(After(st, "initialized"), "ready")
Destroyed(st) == After(IF st \in {"destroyed", "stopped"} THEN st ELSE After(st, "stopped"),
                       "destroyed")

AgentTypeOK ==
  /\ agent \in AgentStatus
  /\ provider \in {"uninitialized", "ready", "unavailable", "shutdown"}
  /\ memoryFailed \in BOOLEAN /\ failed \in BOOLEAN
  /\ ask \in [Tasks -> Waits] /\ answered \in [Tasks -> Nat] /\ hollow \subseteq Tasks

AgentInit ==
  /\ Init
  /\ agent = (IF load.ready THEN "ready" ELSE "created")
  /\ provider = (IF load.ready THEN "ready" ELSE "uninitialized")
  /\ memoryFailed = FALSE /\ failed = FALSE
  /\ ask = [t \in Tasks |-> "none"] /\ answered = [t \in Tasks |-> 0] /\ hollow = {}

-----------------------------------------------------------------------------
(* Start and shutdown *)

Starts(c) == start \in DOMAIN StartOrder /\ StartOrder[start] = c

Opens ==
  /\ StartNext
  /\ agent' = IF Starts("workflow") THEN Initialized(agent) ELSE agent
  /\ provider' = IF Starts("bus") THEN "ready" ELSE provider
  /\ UNCHANGED <<memoryFailed, ask, answered, hollow, failed>>

\* What fails may be a provider, or what comes after the agent.
OpenFails ==
  /\ StartFails
  /\ provider' \in {provider} \cup (IF Starts("bus") THEN {"ready", "unavailable"} ELSE {})
  /\ agent' \in {agent} \cup (IF Starts("workflow") THEN {Initialized(agent)} ELSE {})
  /\ UNCHANGED <<memoryFailed, ask, answered, hollow, failed>>

\* The providers are shut down before the bus, and are whatever that makes of them.
ProviderCloses ==
  /\ Closing /\ CloseOrder[shut] = "bus" /\ provider # "shutdown"
  /\ provider' = "shutdown"
  /\ UNCHANGED <<vars, agent, memoryFailed, ask, answered, hollow, failed>>

\* The agent is destroyed after the workflow runtime, whether or not that can be closed.
Closes(ok) ==
  /\ Close(ok)
  /\ CloseOrder[shut] = "bus" => provider = "shutdown"
  /\ agent' = IF CloseOrder[shut] = "workflow" THEN Destroyed(agent) ELSE agent
  /\ UNCHANGED <<provider, memoryFailed, ask, answered, hollow, failed>>

-----------------------------------------------------------------------------
(* The steps of a workflow *)

Held == UNCHANGED <<up, lc, start, startFailed, shut, call, failures, jobs, request, load,
                    overtaken, outlived>>
Inside(t) == runner[t].pc = "step" /\ UNCHANGED tvars /\ Held

Type(t) == StepType[Plan[t][runner[t].i]][runner[t].step]
Asks(t, w) == runner[t].pc = "step" /\ ask[t] = w
Waiting(t, w) == ask' = [ask EXCEPT ![t] = w]
\* A step is done or has failed; whatever it asked for is over.
Ends(t, ok) ==
  /\ StepEnds(t, ok) /\ Held /\ Waiting(t, "none")
  /\ answered' = [answered EXCEPT ![t] = IF ok THEN @ + 1 ELSE @]

\* Between two steps; an attempt at a workflow begins with none done.
Between(t) ==
  /\ RunMoves(t) /\ Held
  /\ answered' = [answered EXCEPT ![t] = IF runner'[t].pc = "created" THEN 0 ELSE @]
  /\ hollow' = hollow \ {u \in {t} : runner'[u].pc = "created"}
  /\ UNCHANGED <<conn, agent, provider, memoryFailed, ask, failed>>

\* A timeout leaves the agent as it is, running.
CutOff(t) ==
  /\ FlowTimeout(t) \/ RunDropped(t)
  /\ Held /\ Waiting(t, "none")
  /\ UNCHANGED <<conn, agent, provider, memoryFailed, answered, hollow, failed>>

Slept(t) ==
  /\ Asks(t, "none") /\ Type(t) = "wait" /\ Ends(t, TRUE)
  /\ UNCHANGED <<conn, agent, provider, memoryFailed, hollow, failed>>

\* An unknown type of step; a tool that is not registered, is disabled, needs another
\* permission or other arguments.
Refused(t) ==
  /\ Asks(t, "none") /\ Type(t) \notin {"wait", "agent_call"} /\ Ends(t, FALSE)
  /\ UNCHANGED <<conn, agent, provider, memoryFailed, hollow, failed>>

ToolBegins(t) ==
  /\ Asks(t, "none") /\ Type(t) = "tool_call" /\ Inside(t) /\ Waiting(t, "tool")
  /\ UNCHANGED <<conn, agent, provider, memoryFailed, answered, hollow, failed>>

\* Mutant: the failure of a tool is not raised.
BugToolEnds(t, ok) ==
  /\ Asks(t, "tool") /\ StepEnds(t, TRUE) /\ Held /\ Waiting(t, "none")
  /\ answered' = [answered EXCEPT ![t] = IF ok THEN @ + 1 ELSE @]
  /\ UNCHANGED <<conn, agent, provider, memoryFailed, hollow, failed>>
\* A tool answers, fails or times out.
ToolEnds(t, ok) ==
  /\ Asks(t, "tool") /\ Ends(t, ok)
  /\ UNCHANGED <<conn, agent, provider, memoryFailed, hollow, failed>>

-----------------------------------------------------------------------------
(* DefaultAgentRuntime.run *)

AgentRefuses(t) ==
  /\ Asks(t, "none") /\ Type(t) = "agent_call" /\ agent \notin Runnable
  /\ StepBreaks(t) /\ Held
  /\ UNCHANGED <<conn, avars>>

\* A publication raises: run passes the exception on.
AgentRaises(t, st) ==
  /\ agent' = After(st, "error") /\ failed' = TRUE
  /\ StepBreaks(t) /\ Held /\ Waiting(t, "none")
\* The executor's except: the failure is published and becomes the response.
Fails(t) ==
  IF BusOpen THEN Inside(t) /\ Waiting(t, "failed") /\ UNCHANGED <<agent, failed>>
  ELSE AgentRaises(t, agent)

\* Nothing else asks whether another request is running.
AgentBegins(t) ==
  /\ Asks(t, "none") /\ Type(t) = "agent_call" /\ agent \in Runnable
  /\ IF BusOpen THEN /\ agent' = After(agent, "running")
                     /\ Inside(t) /\ Waiting(t, "started") /\ UNCHANGED failed
     ELSE AgentRaises(t, After(agent, "running"))
  /\ UNCHANGED <<conn, provider, memoryFailed, answered, hollow>>

\* The workflow executor asks for knowledge, configured or not.
Unconfigured(t) ==
  /\ Asks(t, "started") /\ ~KnowledgeOn /\ Fails(t)
  /\ UNCHANGED <<conn, provider, memoryFailed, answered, hollow>>

\* MemoryManager.retrieve; what was found is published.
Retrieves(t, ok, found) ==
  /\ Asks(t, "started") /\ KnowledgeOn
  /\ memoryFailed' = ~(ok /\ (found => BusOpen))
  /\ conn' \in {conn, TRUE} /\ (ok => conn')
  /\ IF memoryFailed' THEN Fails(t)
     ELSE Inside(t) /\ Waiting(t, "knowledge") /\ UNCHANGED <<agent, failed>>
  /\ UNCHANGED <<provider, answered, hollow>>

\* The search, and what asking the model begins with.
Consults(t, ok) ==
  /\ Asks(t, "knowledge")
  /\ IF ok /\ provider = "ready"
     THEN Inside(t) /\ Waiting(t, "model") /\ UNCHANGED <<agent, failed>>
     ELSE Fails(t)
  /\ UNCHANGED <<conn, provider, memoryFailed, answered, hollow>>

\* The model answers or has been asked often enough.
ModelEnds(t, ok) ==
  /\ Asks(t, "model")
  /\ IF ok THEN Inside(t) /\ Waiting(t, "answered") /\ UNCHANGED <<agent, failed>>
     ELSE Fails(t)
  /\ UNCHANGED <<conn, provider, memoryFailed, answered, hollow>>

\* The exchange is saved and that published; an answer that cannot be kept is degraded.
Saves(t, ok) ==
  /\ Asks(t, "answered")
  /\ memoryFailed' = ~(ok /\ BusOpen)
  /\ conn' \in {conn, TRUE} /\ (ok => conn')
  /\ IF BusOpen THEN /\ Inside(t) /\ Waiting(t, IF ok THEN "stored" ELSE "degraded")
                     /\ UNCHANGED <<agent, failed>>
     ELSE AgentRaises(t, agent)
  /\ UNCHANGED <<provider, answered, hollow>>

Answers(t) ==
  /\ Asks(t, "stored")
  /\ IF BusOpen THEN Inside(t) /\ Waiting(t, "completed") /\ UNCHANGED <<agent, failed>>
     ELSE AgentRaises(t, agent)
  /\ UNCHANGED <<conn, provider, memoryFailed, answered, hollow>>

\* The response, and the step with it: the workflow does not look at its status.
AgentEnds(t) ==
  /\ ask[t] \in {"completed", "degraded", "failed"}
  /\ agent' = After(agent, CASE ask[t] = "completed" -> "idle"
                             [] ask[t] = "degraded"  -> "degraded"
                             [] OTHER                -> "error")
  /\ failed' = (failed \/ ask[t] = "failed")
  /\ hollow' = hollow \cup {u \in {t} : ask[u] = "failed"}
  /\ Ends(t, TRUE)
  /\ UNCHANGED <<conn, provider, memoryFailed>>

-----------------------------------------------------------------------------

StepWorks(t) ==
  \/ Slept(t) \/ Refused(t) \/ ToolBegins(t) \/ \E ok \in BOOLEAN : ToolEnds(t, ok)
  \/ AgentRefuses(t) \/ AgentBegins(t) \/ Unconfigured(t)
  \/ \E ok, found \in BOOLEAN : Retrieves(t, ok, found)
  \/ \E ok \in BOOLEAN : Consults(t, ok) \/ ModelEnds(t, ok) \/ Saves(t, ok)
  \/ Answers(t) \/ AgentEnds(t)

AgentNext ==
  \/ Works /\ UNCHANGED avars
  \/ Opens \/ OpenFails \/ ProviderCloses \/ \E ok \in BOOLEAN : Closes(ok)
  \/ \E t \in load.tasks : Between(t) \/ CutOff(t) \/ StepWorks(t)

AgentSpec == AgentInit /\ [][AgentNext]_<<vars, avars>>

-----------------------------------------------------------------------------
(* Properties *)

\* The status of SystemContainer.health, as far as it depends on what is modelled.
Health ==
  CASE lc = "created"  -> "not_initialized"
    [] lc = "starting" -> "starting"
    [] lc = "draining" -> "degraded"
    [] lc \in Final    -> lc
    [] OTHER ->
         IF \/ up # Components \/ provider # "ready" \/ memoryFailed
            \/ agent \in {"created", "initialized", "error", "stopped", "destroyed"}
         THEN "failed" ELSE IF agent = "degraded" THEN "degraded" ELSE "healthy"

\* However many requests the agent serves at once, and in whatever order they end:
\* while the system is ready its health is failed if one of them has failed, or the
\* memory when it was used last, and for no other reason; an agent that failed stays
\* failed until the system is started again.  Once the system has been closed no
\* request begins any more.
AgentTruthful ==
  /\ lc = "ready" => (Health = "failed" <=> failed \/ memoryFailed)
  /\ shut = Ended => agent \notin Runnable

\* Each step of a workflow that is done was answered: a tool that failed, or was
\* refused, does not count, a second try counts once, and what an attempt that was
\* given up did is not counted for the next.  The answer of the agent counts whatever
\* its status, as the workflow executor has it.
StepsAnswered ==
  \A t \in Tasks : runner[t].pc = "done" => answered[t] = Steps[Plan[t][runner[t].i]]

\* What the architecture says under No Fake Success: a dependency that failed does not
\* return success.  No workflow is completed with a step whose agent answered that its
\* request failed.
NoFakeSuccess == \A t \in Tasks : runner[t].pc = "done" => t \notin hollow
=============================================================================
