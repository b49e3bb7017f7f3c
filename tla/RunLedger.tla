------------------------------ MODULE RunLedger ------------------------------
(***************************************************************************)
(* What the scheduler promises about job executions, whoever performs them *)
(* and whatever crashes: a book of runs, in which a job has at most one    *)
(* open run, a run is closed once, with one verdict, and stays closed.     *)
(* SchedulerClaims is shown to implement it.                               *)
(***************************************************************************)
CONSTANT Jobs

VARIABLE book   \* run number -> [job, status]

Verdicts == {"success", "failed"}

OpenRuns(j) == {t \in DOMAIN book : book[t].job = j /\ book[t].status = "running"}

Init == DOMAIN book = {}

\* A run of j starts.
Open(j) ==
  /\ OpenRuns(j) = {}
  /\ \E t \in (DOMAIN book') \ DOMAIN book :
       book' = [u \in DOMAIN book \cup {t} |->
                    IF u = t THEN [job |-> j, status |-> "running"] ELSE book[u]]

\* The runs T, of which nobody else has disposed, get a verdict.
Close(T) ==
  /\ \A t \in T : book[t].status = "running"
  /\ \E v \in Verdicts :
       book' = [t \in DOMAIN book |->
                 IF t \in T THEN [book[t] EXCEPT !.status = v] ELSE book[t]]

\* The history of j is dropped, only while none of its runs is open.
Purge(j) ==
  /\ OpenRuns(j) = {}
  /\ book' = [t \in DOMAIN book |->
               IF book[t].job = j THEN [book[t] EXCEPT !.status = "purged"] ELSE book[t]]

Next == \/ \E j \in Jobs : Open(j) \/ Purge(j)
        \/ \E T \in SUBSET DOMAIN book : Close(T)

Spec == Init /\ [][Next]_book
=============================================================================
