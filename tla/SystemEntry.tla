----------------------------- MODULE SystemEntry -----------------------------
(***************************************************************************)
(* The way into the system: a process reads its settings from the           *)
(* environment, the factory builds the services they ask for, and the API   *)
(* (api/app, api/routes) or a command (cli/runtime, cli/ceo) starts the     *)
(* system, uses it and shuts it down.  Under it the system goes on as in    *)
(* AgentRuntime; a visit, which is a request of the API, a probe of its     *)
(* health or the operation of a command, is a request of SystemLifecycle.   *)
(*                                                                          *)
(* A setting is what the code tells apart: a feature is on, a part of the   *)
(* model's configuration is there, a value is wrong.                        *)
(***************************************************************************)
EXTENDS AgentRuntime

CONSTANTS
  Environments, \* bound: the environments a process may find
  Visits        \* bound: the requests of one process

Features == {"user_tasks", "daily_review", "reminders", "scheduler", "knowledge",
             "coordination", "api"}

EnvironmentType ==
  [surface  : {"api", "cli"},
   profile  : {"none", "daily", "other"},          \* AI_LAB_PROFILE
   explicit : BOOLEAN,                             \* every setting of the profile is given
   mode     : {"unset", "real", "mock", "test", "invalid", "other"},
   model    : SUBSET {"key", "placeholder", "url", "model", "embedding", "chroma"},
   features : SUBSET Features,
   auth     : BOOLEAN, token : BOOLEAN,
   wrong    : SUBSET {"timezone", "tick", "paths", "bind", "workspace", "origins", "override"}]

ASSUME EntryAssumption ==
  /\ Environments \subseteq EnvironmentType
  /\ \A l \in Loads : l.envs \subseteq Environments /\ l.visits \subseteq Visits

VARIABLES
  env,   \* the environment
  stage, \* how far the process is; alone if the container is used directly
  visit  \* visit -> what is asked, whether with the token, where it is and its answer

evars == <<env, stage, visit>>
all == <<vars, avars, evars>>

\* What is asked; an endpoint stands for all that need the same service.
Endpoints == {"chat", "tasks", "reminders", "remind", "manage", "review", "records",
              "workflows", "ready"}
Unasked == [at |-> "none", badge |-> FALSE, pc |-> "idle", answer |-> "none"]
\* A probe waits for the first awaits of the health, for the rest of them, or has
\* found something amiss.
Probing == {"probing", "looked", "unwell"}
UnderWay == {v \in Visits : visit[v].pc \in {"admitted", "running"} \cup Probing}

EntryTypeOK ==
  /\ env \in Environments
  /\ stage \in {"alone", "settings", "factory", "made", "serving", "closing", "closed", "refused"}
  /\ visit \in [Visits -> [at     : Endpoints \cup {"none"}, badge : BOOLEAN,
                           pc     : {"idle", "admitted", "running", "answered"} \cup Probing,
                           answer : {"none", "ok", "failed", "unauthenticated", "unavailable",
                                     "disabled"}]]

EntryInit ==
  /\ AgentInit
  /\ env \in load.envs /\ stage = (IF load.ready \/ load.visits = {} THEN "alone" ELSE "settings")
  /\ visit = [v \in Visits |-> Unasked]

-----------------------------------------------------------------------------
(* Settings *)

\* No mock is chosen implicitly; what is given explicitly is taken as it is.
ProviderMode(e) ==
  IF e.mode # "unset" THEN e.mode
  ELSE IF {"key", "url", "model"} \subseteq e.model THEN "real" ELSE "invalid"

\* Mutant: the scheduler has been forgotten.
BugDailyFeatures == {"user_tasks", "daily_review", "reminders", "api"}
\* required_flags; the other two must be off.
DailyFeatures == {"user_tasks", "daily_review", "reminders", "scheduler", "api"}

\* SystemSettings.__post_init__.
Consistent(e) ==
  /\ ProviderMode(e) # "other" /\ e.wrong \cap {"timezone", "tick"} = {}
  /\ e.profile # "other"
  /\ e.profile = "daily" =>
       /\ e.wrong \cap {"paths", "bind", "workspace"} = {}
       /\ ProviderMode(e) # "invalid"
       /\ DailyFeatures \subseteq e.features
       /\ e.features \cap {"knowledge", "coordination"} = {}
       /\ e.auth /\ e.token

\* ApiSecurityConfig.
Secured(e) == (e.auth => e.token) /\ "origins" \notin e.wrong
\* workspace_from_settings: what a command is given in place of a setting.
WorkspaceFits(e) == "override" \notin e.wrong
SurfaceAccepts(e) == IF e.surface = "api" THEN Secured(e) ELSE WorkspaceFits(e)

\* load_system_settings, and what the API and the commands do first.
LoadSettings ==
  /\ stage = "settings"
  /\ stage' = IF /\ env.profile = "daily" => env.explicit
                 /\ Consistent(env) /\ SurfaceAccepts(env)
              THEN "factory" ELSE "refused"
  /\ UNCHANGED <<vars, avars, env, visit>>

-----------------------------------------------------------------------------
(* The factory *)

\* _validate_provider_settings and _configure_providers.
Configured(e) ==
  /\ ProviderMode(e) # "invalid"
  /\ ProviderMode(e) = "real" =>
       /\ {"key", "placeholder"} \cap e.model # {} /\ {"url", "model"} \subseteq e.model
       /\ "knowledge" \in e.features => {"embedding", "chroma"} \subseteq e.model

\* The services of the container that are not None; records are those always there.
Services(e) ==
  {"records", "applications"} \cup (e.features \ {"api"})
    \cup (IF {"reminders", "scheduler"} \subseteq e.features
          THEN {"reminder_inbox", "reminder_management"} ELSE {})

\* create_system.
CreateSystem ==
  /\ stage = "factory"
  /\ stage' = IF Configured(env) /\ ("reminders" \in env.features => "user_tasks" \in env.features)
              THEN "made" ELSE "refused"
  /\ UNCHANGED <<vars, avars, env, visit>>

-----------------------------------------------------------------------------
(* The system goes on *)

Asked(c) == call[c] = "idle" /\ call'[c] # "idle"
Served == env.surface = "api" \/ \E v \in Visits : visit[v].pc = "answered"

\* The lifespan of the API, and the commands: the system is started once, and shut
\* down when it has served.
Lived ==
  CASE \E c \in Callers : Asked(c) ->
         stage = "serving" /\ Served /\ stage' = "closing"
    [] lc = "starting" /\ lc' = "ready" ->
         stage = "made" /\ stage' = "serving"
    [] \E c \in Callers : call[c] = "waiting" /\ call'[c] = "returned" ->
         stage = "closing" /\ stage' = "closed"
    [] OTHER -> (start' # 0 => stage = "made") /\ UNCHANGED stage

\* What the system does of its own accord; a scheduler that is off has no jobs.
SystemGoes ==
  /\ AgentNext /\ UNCHANGED <<env, visit>>
  /\ IF stage = "alone" THEN UNCHANGED stage
     ELSE /\ Lived /\ request' = request
          /\ "scheduler" \notin Services(env) => jobs' = jobs

-----------------------------------------------------------------------------
(* Visits *)

\* The service an endpoint takes from the container.
Needs ==
  [chat |-> "applications", tasks |-> "user_tasks", reminders |-> "reminder_inbox",
   remind |-> "reminders", manage |-> "reminder_management", review |-> "daily_review",
   records |-> "records"]

Becomes(v, pc) == visit' = [visit EXCEPT ![v].pc = pc]
Answer(v, answer) == visit' = [visit EXCEPT ![v].pc = "answered", ![v].answer = answer]
\* A visit is under way, or ends; it may use the databases until then.
Continues == Request /\ request' /\ UNCHANGED <<avars, env, stage>>
Leaves(v) == Request /\ request' = (UnderWay # {v}) /\ UNCHANGED <<avars, env, stage>>
Apart == UNCHANGED <<vars, avars, env, stage>>

\* What the health looks at before its first await: the provider and the agent.
FirstLook == provider = "ready" /\ agent \in {"ready", "running", "idle"}

\* Authenticator.validate.
Authenticated(badge) == env.auth => badge
\* require_auth and get_system, before the handler is called; health asks for neither.
\* The name of a workflow is answered without a look at the system.
Arrive(v, e, badge) ==
  /\ env.surface = "api" /\ stage \in {"serving", "closing", "closed"} /\ visit[v].pc = "idle"
  /\ LET Says(pc, answer) ==
           visit' = [visit EXCEPT ![v] = [at |-> e, badge |-> badge, pc |-> pc, answer |-> answer]]
     IN  IF e # "ready" /\ ~Authenticated(badge) THEN Says("answered", "unauthenticated") /\ Apart
         ELSE IF e = "workflows" THEN Says("answered", "ok") /\ Apart
         ELSE IF stage = "closed" \/ lc # "ready" THEN Says("answered", "unavailable") /\ Apart
         ELSE /\ Says(IF e # "ready" THEN "admitted" ELSE IF FirstLook THEN "probing" ELSE "unwell",
                      "none")
              /\ Continues

\* The handlers of the records take their service without a look whether it is there.
Unlooked == {"records"}
\* The others find a service that is off not there, and execute asks the gate again.
Handle(v) ==
  /\ visit[v].pc = "admitted"
  /\ IF visit[v].at \notin Unlooked /\ Needs[visit[v].at] \notin Services(env) THEN Answer(v, "disabled") /\ Leaves(v)
     ELSE IF visit[v].at = "chat" /\ lc # "ready" THEN Answer(v, "unavailable") /\ Leaves(v)
     ELSE Becomes(v, "running") /\ Continues

\* A command takes the service itself, one after the other.
Operate(v, e) ==
  /\ env.surface = "cli" /\ stage = "serving" /\ lc = "ready"
  /\ visit[v].pc = "idle" /\ UnderWay = {}
  /\ LET Says(pc, answer) ==
           visit' = [visit EXCEPT ![v] = [at |-> e, badge |-> FALSE, pc |-> pc, answer |-> answer]]
     IN  IF Needs[e] \notin Services(env) THEN Says("answered", "disabled") /\ Apart
         ELSE Says("running", "none") /\ Continues

\* A reminder cannot be created without the scheduler.
Finish(v, ok) ==
  /\ visit[v].pc = "running"
  /\ ok /\ visit[v].at = "remind" => "scheduler" \in Services(env)
  /\ Answer(v, IF ok THEN "ok" ELSE "failed") /\ Leaves(v)

\* The bridge of reminders is failed without a scheduler.
Bridged(e) == "reminders" \in e.features => "scheduler" \in e.features
\* SystemContainer.health where nothing comes in between.
SystemHealth(e) == IF lc = "ready" /\ ~Bridged(e) THEN "failed" ELSE Health

\* The memory is asked once the scheduler has answered, before the stores are.
Look(v, ok) ==
  /\ visit[v].pc = "probing" /\ (ok \/ load.faults)
  /\ Becomes(v, IF ok /\ ~memoryFailed THEN "looked" ELSE "unwell") /\ Continues

\* Mutant: the lifecycle is the one of the beginning.
BugLastLook(e) == up = Components /\ Bridged(e)
\* What the health looks at when it is put together: the lifecycle once more, and
\* whether each component is open.
LastLook(e) == lc = "ready" /\ up = Components /\ Bridged(e)

\* /health/ready answers; what else goes wrong is reported.
ProbeEnds(v, ok) ==
  /\ visit[v].pc \in {"looked", "unwell"} /\ (ok \/ load.faults)
  /\ Answer(v, IF ok /\ visit[v].pc = "looked" /\ LastLook(env) THEN "ok" ELSE "unavailable")
  /\ Leaves(v)

-----------------------------------------------------------------------------

\* A process that could not begin, or whose start was interrupted.
Stuck == stage = "refused" \/ (lc = "starting" /\ start = 0)

EntryNext ==
  \/ SystemGoes \/ LoadSettings \/ CreateSystem
  \/ \E v \in load.visits :
       \/ \E e \in Endpoints, badge \in BOOLEAN : Arrive(v, e, badge)
       \/ \E e \in DOMAIN Needs \ {"tasks", "remind"} : Operate(v, e)
       \/ Handle(v) \/ \E ok \in BOOLEAN : Finish(v, ok) \/ Look(v, ok) \/ ProbeEnds(v, ok)
  \/ Stuck /\ UNCHANGED all

EntrySpec == EntryInit /\ [][EntryNext]_all

-----------------------------------------------------------------------------
(* Properties *)

\* What a system that is ready for its user has: everything is open, and what is
\* switched on finds its service.
Usable ==
  /\ lc = "ready" /\ up = Components /\ conn /\ provider = "ready"
  /\ "user_tasks" \in env.features => Needs["tasks"] \in Services(env)
  /\ "reminders" \in env.features =>
       {Needs[e] : e \in {"tasks", "reminders", "remind", "manage"}} \subseteq Services(env)

\* An environment the daily profile accepts gives, once the system is ready, one that
\* is usable and not failed unless the agent or the memory is: no endpoint and no
\* command finds its service switched off, and no visit of the API is answered without
\* the token.
ProfileHolds ==
  env.profile = "daily" /\ stage \in {"serving", "closing", "closed"} =>
    /\ lc = "ready" => Usable /\ (SystemHealth(env) = "failed" => failed \/ memoryFailed)
    /\ \A v \in Visits :
         /\ visit[v].answer # "disabled"
         /\ env.surface = "api" /\ visit[v].answer = "ok" => visit[v].badge \/ visit[v].at = "ready"

\* The API calls itself ready only while it is, although its health is put together
\* from looks at different times: at the answer the system has not begun to drain, and
\* what is switched on can be used.
ReadinessHonest ==
  [][\A v \in Visits : (visit[v].pc = "looked" /\ visit'[v].answer = "ok") => Usable]_all
=============================================================================
