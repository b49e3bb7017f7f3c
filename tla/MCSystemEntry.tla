---------------------------- MODULE MCSystemEntry -----------------------------
(* An instance of SystemEntry, and with it of AgentRuntime, SystemLifecycle   *)
(* and TaskRuntime, for TLC.  The container alone: start and shutdown with    *)
(* jobs, requests and failing components; a task of two workflows that is     *)
(* paused, cancelled, destroyed and loses the bus; two tasks at one workflow; *)
(* two that ask the agent.  And the process, for each of a set of             *)
(* environments, with one request; for the daily profile with two of them, or *)
(* with failing components.                                                   *)
EXTENDS SystemEntry, TLC

CONSTANTS t1, t2, t3, t4, t5, f1, f2, f3, c1, c2, v1, v2

TaskPlan == (t1 :> <<f1, f2>>) @@ (t2 :> <<f2>>) @@ (t3 :> <<f2>>)
              @@ (t4 :> <<f3>>) @@ (t5 :> <<f3>>)
FlowSteps == (f1 :> 2) @@ (f2 :> 1) @@ (f3 :> 1)
FlowStepTypes == (f1 :> <<"tool_call", "wait">>) @@ (f2 :> <<"wait">>) @@ (f3 :> <<"agent_call">>)
TaskRetries == (t1 :> 1) @@ (t2 :> 1) @@ (t3 :> 0) @@ (t4 :> 0) @@ (t5 :> 0)

\* The daily profile as the documentation gives it, and what can be otherwise.
Daily ==
  [surface |-> "api", profile |-> "daily", explicit |-> TRUE, mode |-> "mock", model |-> {},
   features |-> {"user_tasks", "daily_review", "reminders", "scheduler", "api"},
   auth |-> TRUE, token |-> TRUE, wrong |-> {}]
DailyOnes ==
  {Daily, [Daily EXCEPT !.surface = "cli"], [Daily EXCEPT !.explicit = FALSE],
   [Daily EXCEPT !.auth = FALSE], [Daily EXCEPT !.token = FALSE], [Daily EXCEPT !.mode = "invalid"],
   [Daily EXCEPT !.mode = "real", !.model = {"placeholder", "url", "model"}]}
    \cup {[Daily EXCEPT !.features = @ \ {f}] : f \in Features}
    \cup {[Daily EXCEPT !.features = @ \cup {f}] : f \in {"knowledge", "coordination"}}
    \cup {[Daily EXCEPT !.wrong = {w}] : w \in {"timezone", "paths", "bind", "workspace", "origins"}}
\* Without a profile: the features in every combination that matters, and the providers.
Plain == [Daily EXCEPT !.profile = "none", !.explicit = FALSE, !.features = {}]
PlainOnes ==
  {[Plain EXCEPT !.features = S] : S \in SUBSET {"user_tasks", "reminders", "scheduler"}}
    \cup {[Plain EXCEPT !.auth = FALSE, !.wrong = {"bind"}, !.profile = p] : p \in {"none", "other"}}
    \cup {[Plain EXCEPT !.surface = "cli", !.features = {"user_tasks", "reminders"}, !.wrong = w] :
            w \in {{}, {"override"}}}
    \cup {[Plain EXCEPT !.mode = "unset", !.model = M, !.features = {"knowledge"}] :
            M \in {{}, {"key", "url"}, {"placeholder", "url", "model"}, {"key", "url", "model"},
                   {"key", "url", "model", "embedding", "chroma"}}}
    \cup {[Plain EXCEPT !.mode = m] : m \in {"real", "test", "other"}}
AllEnvironments == DailyOnes \cup PlainOnes

Shutdowns ==
  [tasks |-> {}, controlled |-> {}, callers |-> {c1, c2}, work |-> TRUE, faults |-> TRUE,
   ready |-> FALSE, envs |-> {Daily}, visits |-> {}]
OneTask ==
  [tasks |-> {t1}, controlled |-> {t1}, callers |-> {c1}, work |-> FALSE, faults |-> FALSE,
   ready |-> TRUE, envs |-> {Daily}, visits |-> {}]
TwoTasks ==
  [tasks |-> {t2, t3}, controlled |-> {}, callers |-> {}, work |-> FALSE, faults |-> FALSE,
   ready |-> TRUE, envs |-> {Daily}, visits |-> {}]
AgentTasks ==
  [tasks |-> {t4, t5}, controlled |-> {}, callers |-> {c1}, work |-> FALSE, faults |-> FALSE,
   ready |-> TRUE, envs |-> {Daily}, visits |-> {}]
Processes ==
  [tasks |-> {}, controlled |-> {}, callers |-> {c1}, work |-> TRUE, faults |-> FALSE,
   ready |-> FALSE, envs |-> AllEnvironments, visits |-> {v1}]
FaultyProcess ==
  [tasks |-> {}, controlled |-> {}, callers |-> {c1}, work |-> TRUE, faults |-> TRUE,
   ready |-> FALSE, envs |-> {Daily}, visits |-> {v1}]
TwoVisits ==
  [tasks |-> {}, controlled |-> {}, callers |-> {c1}, work |-> TRUE, faults |-> FALSE,
   ready |-> FALSE, envs |-> {Daily}, visits |-> {v1, v2}]
AgentLoads == {AgentTasks}
AllLoads == {Shutdowns, OneTask, TwoTasks, AgentTasks, Processes, FaultyProcess, TwoVisits}
=============================================================================
