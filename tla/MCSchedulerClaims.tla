-------------------------- MODULE MCSchedulerClaims --------------------------
(* Model values for the scheduler: a one-shot job, an interval job.         *)
EXTENDS SchedulerClaims, TLC

CONSTANTS remind, poll, r1, r2

OneJob == {remind}
TwoJobs == {remind, poll}
OneShotOnly == {remind}
OneRuntime == {r1}
TwoRuntimes == {r1, r2}
Soon == {1}
NowOrSoon == {0, 1}

\* What the run of the claims explores: one job through crashes, stalls and lost
\* updates with one management call; and two jobs, of which a worker of a runtime
\* serves one at a time, with calls that follow one another and no fault.
Alone == jobs[poll].status = "absent" /\ calls <= 1

Calm ==
  /\ faults = 0 /\ claims <= 2
  /\ \A r \in Runtimes : procs[r].age = 0
  /\ jobs[remind].rev + jobs[poll].rev <= 5

Focus == Alone \/ Calm

RuntimeSymmetry == Permutations(TwoRuntimes)
=============================================================================
