--------------------------- MODULE GatewayLauncher ---------------------------
(***************************************************************************)
(* The launch of the pilot's gateway                                        *)
(* (applications/pilot_001_ingress_bridge): the launcher prepares a         *)
(* temporary project, checks the tools and the hardening, starts the        *)
(* gateway and watches it; the gateway (process_isolation) hardens itself,  *)
(* enters the target module and says how far it has come in an evidence     *)
(* file, each time replacing what it said before.                           *)
(*                                                                          *)
(* The launcher looks at the file and at the process one after the other,   *)
(* so the gateway moves in between.  The interpreter may be a wrapper that  *)
(* starts the final process as its child: then the process the launcher     *)
(* polls and stops is not the one that writes.                              *)
(***************************************************************************)
EXTENDS Naturals

VARIABLES
  entryOnly,  \* runtime_entry_only
  direct,     \* the process that is spawned is the final one
  pc,         \* where run_pilot_gateway is
  outcome,    \* open, ok, failed: how it will end
  project,    \* whether the temporary project is there
  final,      \* the final process: how far it is, and its exit code
  dumpable,   \* whether the kernel lets others look into it
  wrapper,    \* whether the wrapper is alive
  evidence,   \* the stage in the evidence file, missing before there is one
  told,       \* the runtime evidence has been announced
  observed,   \* module_started of the bootstrap
  entered,    \* history: the target module has begun
  unclean,    \* history: the project could not be prepared or removed
  abandoned   \* history: the gateway was not waited for to its end

lvars == <<pc, outcome, project, told, unclean, abandoned>>
gvars == <<final, dumpable, wrapper, evidence, observed, entered>>
vars == <<entryOnly, direct, lvars, gvars>>

Stages == {"missing", "dispatching", "module_started", "returned"}
Watching == {"read", "poll", "inspect", "pause", "observe", "wait"}
Stopping == {"stop", "terminated", "killed"}
Launching == {"prepare", "resolve", "check", "spawn"} \cup Watching \cup Stopping \cup {"cleanup"}
Alive == {"starting", "hardened", "dispatched", "running", "returning"}

TypeOK ==
  /\ entryOnly \in BOOLEAN /\ direct \in BOOLEAN
  /\ pc \in Launching \cup {"done"} /\ outcome \in {"open", "ok", "failed"}
  /\ project \in BOOLEAN /\ told \in BOOLEAN /\ unclean \in BOOLEAN /\ abandoned \in BOOLEAN
  /\ final \in [st : {"none", "exited"} \cup Alive, code : {0, 1}] /\ dumpable \in BOOLEAN
  /\ wrapper \in BOOLEAN /\ evidence \in Stages /\ observed \in BOOLEAN /\ entered \in BOOLEAN

Init ==
  /\ entryOnly \in BOOLEAN /\ direct \in BOOLEAN
  /\ pc = "prepare" /\ outcome = "open" /\ project = FALSE /\ told = FALSE
  /\ unclean = FALSE /\ abandoned = FALSE
  /\ final = [st |-> "none", code |-> 0] /\ dumpable = TRUE /\ wrapper = FALSE
  /\ evidence = "missing" /\ observed = FALSE /\ entered = FALSE

-----------------------------------------------------------------------------
(* The launcher *)

\* gateway.poll() is not None; a wrapper ends no earlier than its child unless stopped.
Exited == IF direct THEN final.st \notin Alive ELSE ~wrapper

Goes(where) == pc' = where /\ UNCHANGED outcome
Fails(where) == pc' = where /\ outcome' = "failed"

\* A project that cannot be prepared stays as far as it has come.
Prepare(ok) ==
  /\ pc = "prepare" /\ project' = TRUE
  /\ IF ok THEN Goes("resolve") /\ UNCHANGED unclean ELSE Fails("done") /\ unclean' = TRUE
  /\ UNCHANGED <<entryOnly, direct, told, abandoned, gvars>>

\* The model's namespace is exactly the four tools.
Resolve(ok) ==
  /\ pc = "resolve" /\ IF ok THEN Goes("check") ELSE Fails("cleanup")
  /\ UNCHANGED <<entryOnly, direct, project, told, unclean, abandoned, gvars>>

\* The bootstrap checks itself in a process of its own.
Check(ok) ==
  /\ pc = "check" /\ IF ok THEN Goes("spawn") ELSE Fails("cleanup")
  /\ UNCHANGED <<entryOnly, direct, project, told, unclean, abandoned, gvars>>

Spawn(ok) ==
  /\ pc = "spawn"
  /\ IF ok THEN /\ Goes("read") /\ final' = [final EXCEPT !.st = "starting"]
                /\ wrapper' = ~direct
     ELSE Fails("cleanup") /\ UNCHANGED <<final, wrapper>>
  /\ UNCHANGED <<entryOnly, direct, project, told, unclean, abandoned, dumpable, evidence, observed,
                 entered>>

\* Mutant: a record made before the module has begun is taken.
BugStarted == evidence # "missing"
\* The stage that proves that the module has begun.
Started == evidence = "module_started"

\* One look at the file; only the final process writes it, under its own pid.
ReadEvidence ==
  /\ pc = "read"
  /\ CASE evidence # "missing" /\ ~direct -> Fails("stop")
       [] Started /\ direct -> Goes("inspect")
       [] OTHER -> Goes("poll")
  /\ UNCHANGED <<entryOnly, direct, project, told, unclean, abandoned, gvars>>

\* The deadline of wait_for_runtime_evidence.
EvidenceTimeout ==
  /\ pc = "read" /\ Fails("stop")
  /\ UNCHANGED <<entryOnly, direct, project, told, unclean, abandoned, gvars>>

Poll ==
  /\ pc = "poll" /\ IF Exited THEN Fails("stop") ELSE Goes("read")
  /\ UNCHANGED <<entryOnly, direct, project, told, unclean, abandoned, gvars>>

\* What the evidence says of the module, its file and the hardening, and a first look
\* at the process; after a pause a second one.
Inspect(ok) ==
  /\ pc = "inspect" /\ IF ok /\ ~Exited THEN Goes("pause") ELSE Fails("stop")
  /\ UNCHANGED <<entryOnly, direct, project, told, unclean, abandoned, gvars>>

Pause ==
  /\ pc = "pause" /\ IF Exited THEN Fails("stop") ELSE Goes("observe")
  /\ UNCHANGED <<entryOnly, direct, project, told, unclean, abandoned, gvars>>

\* The kernel refuses to let the launcher look into the process.
Refused == final.st \in Alive /\ ~dumpable

Observe(ok) ==
  /\ pc = "observe"
  /\ IF ok /\ Refused
     THEN /\ told' = TRUE
          /\ IF entryOnly THEN pc' = "stop" /\ outcome' = "ok" ELSE Goes("wait")
     ELSE Fails("stop") /\ UNCHANGED told
  /\ UNCHANGED <<entryOnly, direct, project, unclean, abandoned, gvars>>

Waited ==
  /\ pc = "wait" /\ Exited /\ pc' = "stop"
  /\ outcome' = IF final.code = 0 THEN "ok" ELSE "failed"
  /\ UNCHANGED <<entryOnly, direct, project, told, unclean, abandoned, gvars>>

-----------------------------------------------------------------------------
(* The end of a launch *)

\* Mutant: the project is removed without looking whether the gateway still runs.
BugStop == pc = "stop" /\ Goes("cleanup")
\* The finally clause: a gateway that runs is asked to end, then killed.
Stop == pc = "stop" /\ Goes(IF Exited THEN "cleanup" ELSE "terminated")

Stops ==
  /\ \/ Stop
     \/ pc \in {"terminated", "killed"} /\ Exited /\ Goes("cleanup")
     \/ pc = "terminated" /\ Goes("killed")
  /\ UNCHANGED <<entryOnly, direct, project, told, unclean, abandoned, gvars>>

\* The killed process is not gone in time.
KillTimeout ==
  /\ pc = "killed" /\ ~Exited /\ Fails("cleanup") /\ abandoned' = TRUE
  /\ UNCHANGED <<entryOnly, direct, project, told, unclean, gvars>>

\* The operator interrupts; in the finally clause nothing catches it.
Interrupt ==
  /\ pc \in Launching \ {"prepare", "cleanup"}
  /\ Fails(IF pc \in Watching THEN "stop" ELSE "cleanup")
  /\ abandoned' = (abandoned \/ (pc \in Stopping /\ ~Exited))
  /\ UNCHANGED <<entryOnly, direct, project, told, unclean, gvars>>

Cleanup(ok) ==
  /\ pc = "cleanup" /\ pc' = "done"
  /\ IF ok THEN project' = FALSE /\ UNCHANGED <<outcome, unclean>>
     ELSE UNCHANGED project /\ outcome' = "failed" /\ unclean' = TRUE
  /\ UNCHANGED <<entryOnly, direct, told, abandoned, gvars>>

-----------------------------------------------------------------------------
(* The gateway *)

\* With the final process the wrapper ends.
Exits(code) == final' = [st |-> "exited", code |-> code] /\ wrapper' = FALSE
Reaches(st) == final' = [final EXCEPT !.st = st] /\ UNCHANGED wrapper

\* Evidence is best effort: a record that cannot be written is left out.
Records(stage) == evidence' \in {stage, evidence}

Harden(ok) ==
  /\ final.st = "starting"
  /\ IF ok THEN Reaches("hardened") /\ dumpable' = FALSE ELSE Exits(1) /\ UNCHANGED dumpable
  /\ UNCHANGED <<entryOnly, direct, lvars, evidence, observed, entered>>

Dispatch(ok) ==
  /\ final.st = "hardened"
  /\ IF ok THEN Reaches("dispatched") /\ Records("dispatching") ELSE Exits(1) /\ UNCHANGED evidence
  /\ UNCHANGED <<entryOnly, direct, lvars, dumpable, observed, entered>>

\* The first frame of the module; one whose file is not the one resolved goes unseen.
EnterModule(seen) ==
  /\ final.st = "dispatched" /\ Reaches("running") /\ entered' = TRUE /\ observed' = seen
  /\ IF seen THEN Records("module_started") ELSE UNCHANGED evidence
  /\ UNCHANGED <<entryOnly, direct, lvars, dumpable>>

Return ==
  /\ final.st = "running"
  /\ IF observed THEN Reaches("returning") /\ Records("returned") ELSE Exits(1) /\ UNCHANGED evidence
  /\ UNCHANGED <<entryOnly, direct, lvars, dumpable, observed, entered>>

\* It ends: returned, of its own accord, by a signal, or because it is terminated.
Exit(code) ==
  /\ final.st \in Alive /\ Exits(code)
  /\ final.st = "returning" \/ code = 1 \/ final.st = "running"
  /\ UNCHANGED <<entryOnly, direct, lvars, dumpable, evidence, observed, entered>>

\* The signals reach the wrapper only.
WrapperStopped ==
  /\ wrapper /\ pc \in {"terminated", "killed", "cleanup", "done"} /\ wrapper' = FALSE
  /\ UNCHANGED <<entryOnly, direct, lvars, dumpable, final, evidence, observed, entered>>

Gateway ==
  \/ \E ok \in BOOLEAN : Harden(ok) \/ Dispatch(ok) \/ EnterModule(ok)
  \/ Return \/ WrapperStopped \/ \E code \in {0, 1} : Exit(code)

Launcher ==
  \/ \E ok \in BOOLEAN : Prepare(ok) \/ Resolve(ok) \/ Check(ok) \/ Spawn(ok) \/ Inspect(ok)
                         \/ Observe(ok) \/ Cleanup(ok)
  \/ ReadEvidence \/ Poll \/ Pause \/ Waited \/ Stops

Next ==
  \/ Launcher \/ Gateway \/ EvidenceTimeout \/ KillTimeout \/ Interrupt
  \/ pc = "done" /\ UNCHANGED vars

Spec == Init /\ [][Next]_vars

-----------------------------------------------------------------------------
(* Properties *)

\* What a launch announces is so, whatever the gateway does between the looks at
\* its file and at its process: the process it has spawned hardened itself and has
\* begun the module.  It ends well only with an announcement.
LaunchTruthful ==
  /\ told => direct /\ entered /\ ~dumpable
  /\ outcome = "ok" => told
  /\ (outcome = "ok" /\ ~entryOnly) => final.st = "exited" /\ final.code = 0

\* No project is removed under a gateway that runs, and none is left behind, unless
\* the gateway was abandoned or a file operation failed; an abandoned gateway or a
\* project that is left is reported.
NothingLeft ==
  /\ (~project /\ final.st \in Alive /\ direct) => abandoned
  /\ pc = "done" /\ project => unclean
  /\ (abandoned \/ unclean) => outcome = "failed"
=============================================================================
