------------------------ MODULE GatewayLauncherProofs ------------------------
(***************************************************************************)
(* Proofs about GatewayLauncher.  The inductive invariant says what the      *)
(* launcher's place means for the gateway: that it has begun the module      *)
(* where the launcher inspects it, and that it has ended, or is abandoned,   *)
(* where the project is removed.                                             *)
(***************************************************************************)
EXTENDS GatewayLauncher, TLAPS

\* The two parts of TypeOK.
Flags ==
  /\ entryOnly \in BOOLEAN /\ direct \in BOOLEAN /\ project \in BOOLEAN /\ told \in BOOLEAN
  /\ unclean \in BOOLEAN /\ abandoned \in BOOLEAN /\ dumpable \in BOOLEAN /\ wrapper \in BOOLEAN
  /\ observed \in BOOLEAN /\ entered \in BOOLEAN
Places ==
  /\ pc \in Launching \cup {"done"} /\ outcome \in {"open", "ok", "failed"}
  /\ final \in [st : {"none", "exited"} \cup Alive, code : {0, 1}] /\ evidence \in Stages

\* How far the gateway is, and what of it the file shows.
GatewayCoherent ==
  /\ evidence \in {"module_started", "returned"} => entered
  /\ evidence # "missing" \/ entered => final.st # "none" /\ ~dumpable
  /\ final.st \in {"running", "returning"} => entered
  /\ final.st \in {"hardened", "dispatched", "running", "returning"} => ~dumpable

\* What each place of the launcher means.
PlaceCoherent ==
  /\ pc \in {"prepare", "resolve", "check", "spawn"} => final.st = "none"
  /\ pc \in {"inspect", "pause", "observe"} => direct /\ entered
  /\ pc = "wait" => told
  /\ pc \in {"prepare", "resolve", "check", "spawn"} \cup Watching =>
       outcome = "open" /\ ~abandoned
  /\ pc \in Stopping => ~abandoned
  /\ pc # "done" => ~unclean
  /\ pc \notin {"prepare", "done"} => project
  /\ pc = "cleanup" /\ direct /\ final.st \in Alive => abandoned

LauncherInv == TypeOK /\ GatewayCoherent /\ PlaceCoherent /\ LaunchTruthful /\ NothingLeft

-----------------------------------------------------------------------------

LEMMA LauncherInitially == Init => LauncherInv
<1> USE DEF Init, Launching, Watching, Stopping, Alive, Stages
<1>1. Init => TypeOK
  <2>1. Init => Flags
    BY Zenon DEF Flags
  <2>2. Init => Places
    BY DEF Places
  <2>3. QED
    BY <2>1, <2>2 DEF TypeOK, Flags, Places
<1>2. Init => GatewayCoherent
  BY DEF GatewayCoherent
<1>3. Init => PlaceCoherent
  BY DEF PlaceCoherent
<1>4. Init => LaunchTruthful
  BY DEF LaunchTruthful
<1>5. Init => NothingLeft
  BY DEF NothingLeft
<1>6. QED
  BY <1>1, <1>2, <1>3, <1>4, <1>5 DEF LauncherInv

LEMMA LauncherSteps == LauncherInv /\ [Next]_vars => LauncherInv'
<1> SUFFICES ASSUME LauncherInv, [Next]_vars PROVE LauncherInv'
  OBVIOUS
<1> USE DEF LauncherInv, TypeOK, GatewayCoherent, PlaceCoherent, LaunchTruthful, NothingLeft,
         vars, lvars, gvars, Launching, Watching, Stopping, Alive, Stages, Goes, Fails, Exited,
         Started, Refused, Stop, Exits, Reaches, Records
<1>1. ASSUME NEW ok \in BOOLEAN, Prepare(ok) PROVE LauncherInv'
  BY <1>1, ZenonT(40) DEF Prepare
<1>2. ASSUME NEW ok \in BOOLEAN, Resolve(ok) PROVE LauncherInv'
  BY <1>2 DEF Resolve
<1>3. ASSUME NEW ok \in BOOLEAN, Check(ok) PROVE LauncherInv'
  BY <1>3 DEF Check
<1>4. ASSUME NEW ok \in BOOLEAN, Spawn(ok) PROVE LauncherInv'
  BY <1>4 DEF Spawn
<1>5. ASSUME NEW ok \in BOOLEAN, Inspect(ok) PROVE LauncherInv'
  BY <1>5 DEF Inspect
<1>6. ASSUME NEW ok \in BOOLEAN, Observe(ok) PROVE LauncherInv'
  <2>1. TypeOK'
    <3>1. Flags'
      BY <1>6, Zenon DEF Observe, Flags
    <3>2. Places'
      BY <1>6 DEF Observe, Places
    <3>3. QED
      BY <3>1, <3>2 DEF Flags, Places
  <2>2. GatewayCoherent'
    BY <1>6 DEF Observe
  <2>3. PlaceCoherent'
    BY <1>6 DEF Observe
  <2>4. LaunchTruthful'
    BY <1>6 DEF Observe
  <2>5. NothingLeft'
    BY <1>6 DEF Observe
  <2>6. QED
    BY <2>1, <2>2, <2>3, <2>4, <2>5
<1>7. ASSUME NEW ok \in BOOLEAN, Cleanup(ok) PROVE LauncherInv'
  <2>1. TypeOK'
    <3>1. Flags'
      BY <1>7, Zenon DEF Cleanup, Flags
    <3>2. Places'
      BY <1>7 DEF Cleanup, Places
    <3>3. QED
      BY <3>1, <3>2 DEF Flags, Places
  <2>2. GatewayCoherent'
    BY <1>7 DEF Cleanup
  <2>3. PlaceCoherent'
    BY <1>7 DEF Cleanup
  <2>4. LaunchTruthful'
    BY <1>7 DEF Cleanup
  <2>5. NothingLeft'
    BY <1>7 DEF Cleanup
  <2>6. QED
    BY <2>1, <2>2, <2>3, <2>4, <2>5
<1>8. ASSUME NEW ok \in BOOLEAN, Harden(ok) PROVE LauncherInv'
  <2>1. TypeOK'
    <3>1. Flags'
      BY <1>8, Zenon DEF Harden, Flags
    <3>2. Places'
      BY <1>8 DEF Harden, Places
    <3>3. QED
      BY <3>1, <3>2 DEF Flags, Places
  <2>2. GatewayCoherent'
    BY <1>8 DEF Harden
  <2>3. PlaceCoherent'
    BY <1>8 DEF Harden
  <2>4. LaunchTruthful'
    BY <1>8 DEF Harden
  <2>5. NothingLeft'
    BY <1>8 DEF Harden
  <2>6. QED
    BY <2>1, <2>2, <2>3, <2>4, <2>5
<1>9. ASSUME NEW ok \in BOOLEAN, Dispatch(ok) PROVE LauncherInv'
  <2>1. TypeOK'
    <3>1. Flags'
      BY <1>9, Zenon DEF Dispatch, Flags
    <3>2. Places'
      BY <1>9 DEF Dispatch, Places
    <3>3. QED
      BY <3>1, <3>2 DEF Flags, Places
  <2>2. GatewayCoherent'
    BY <1>9 DEF Dispatch
  <2>3. PlaceCoherent'
    BY <1>9 DEF Dispatch
  <2>4. LaunchTruthful'
    BY <1>9 DEF Dispatch
  <2>5. NothingLeft'
    BY <1>9 DEF Dispatch
  <2>6. QED
    BY <2>1, <2>2, <2>3, <2>4, <2>5
<1>10. ASSUME NEW ok \in BOOLEAN, EnterModule(ok) PROVE LauncherInv'
  BY <1>10 DEF EnterModule
<1>11. ASSUME NEW code \in {0, 1}, Exit(code) PROVE LauncherInv'
  <2>1. TypeOK'
    <3>1. Flags'
      BY <1>11, Zenon DEF Exit, Flags
    <3>2. Places'
      BY <1>11 DEF Exit, Places
    <3>3. QED
      BY <3>1, <3>2 DEF Flags, Places
  <2>2. GatewayCoherent'
    BY <1>11 DEF Exit
  <2>3. PlaceCoherent'
    BY <1>11 DEF Exit
  <2>4. LaunchTruthful'
    BY <1>11 DEF Exit
  <2>5. NothingLeft'
    BY <1>11 DEF Exit
  <2>6. QED
    BY <2>1, <2>2, <2>3, <2>4, <2>5
<1>12. CASE ReadEvidence
  BY <1>12 DEF ReadEvidence
<1>13. CASE Poll
  BY <1>13 DEF Poll
<1>14. CASE Pause
  BY <1>14 DEF Pause
<1>15. CASE Waited
  BY <1>15 DEF Waited
<1>16. CASE Stops
  BY <1>16 DEF Stops
<1>17. CASE Return
  <2>1. TypeOK'
    <3>1. Flags'
      BY <1>17, Zenon DEF Return, Flags
    <3>2. Places'
      BY <1>17 DEF Return, Places
    <3>3. QED
      BY <3>1, <3>2 DEF Flags, Places
  <2>2. GatewayCoherent'
    BY <1>17 DEF Return
  <2>3. PlaceCoherent'
    BY <1>17 DEF Return
  <2>4. LaunchTruthful'
    BY <1>17 DEF Return
  <2>5. NothingLeft'
    BY <1>17 DEF Return
  <2>6. QED
    BY <2>1, <2>2, <2>3, <2>4, <2>5
<1>18. CASE WrapperStopped
  <2>1. TypeOK'
    <3>1. Flags'
      BY <1>18, Zenon DEF WrapperStopped, Flags
    <3>2. Places'
      BY <1>18 DEF WrapperStopped, Places
    <3>3. QED
      BY <3>1, <3>2 DEF Flags, Places
  <2>2. GatewayCoherent'
    BY <1>18 DEF WrapperStopped
  <2>3. PlaceCoherent'
    BY <1>18 DEF WrapperStopped
  <2>4. LaunchTruthful'
    BY <1>18 DEF WrapperStopped
  <2>5. NothingLeft'
    BY <1>18 DEF WrapperStopped
  <2>6. QED
    BY <2>1, <2>2, <2>3, <2>4, <2>5
<1>19. CASE EvidenceTimeout
  BY <1>19 DEF EvidenceTimeout
<1>20. CASE KillTimeout
  BY <1>20 DEF KillTimeout
<1>21. CASE Interrupt
  BY <1>21 DEF Interrupt
<1>22. CASE UNCHANGED vars
  BY <1>22
<1>23. QED
  BY <1>1, <1>2, <1>3, <1>4, <1>5, <1>6, <1>7, <1>8, <1>9, <1>10, <1>11, <1>12, <1>13, <1>14, <1>15, <1>16, <1>17, <1>18, <1>19, <1>20, <1>21, <1>22 DEF Next, Launcher, Gateway

\* The fields of a launch have their types.
THEOREM LauncherTypeCorrect == Spec => []TypeOK
<1>1. LauncherInv => TypeOK
  BY DEF LauncherInv
<1>2. QED
  BY LauncherInitially, LauncherSteps, <1>1, PTL DEF Spec

\* What run_actual_gateway announces of the process it has spawned is so, whichever
\* process the interpreter is, whatever it records and whenever it ends: it has
\* hardened itself and begun the module; and a launch ends well only announced.
THEOREM AnnouncementsAreTrue == Spec => []LaunchTruthful
<1>1. LauncherInv => LaunchTruthful
  BY DEF LauncherInv
<1>2. QED
  BY LauncherInitially, LauncherSteps, <1>1, PTL DEF Spec

\* run_pilot_gateway removes no project under a gateway that runs and leaves none
\* behind, but where it was interrupted while it stopped the gateway, the killed
\* process did not end or a file operation failed; and then it fails.
THEOREM LaunchesCleanUp == Spec => []NothingLeft
<1>1. LauncherInv => NothingLeft
  BY DEF LauncherInv
<1>2. QED
  BY LauncherInitially, LauncherSteps, <1>1, PTL DEF Spec
=============================================================================
