---------------------------- MODULE MCReminderSaga ----------------------------
(* Instances of ReminderSaga for TLC.                                        *)
EXTENDS ReminderSaga, TLC

CONSTANTS p1, p2, a, b, errand

OneTask == [r \in Reminders |-> errand]
Instants == 1..MaxTime

\* One process that may crash; a server and a command line side by side.
Deployed == {[procs |-> {p1}, calls |-> 3, faults |-> 1],
             [procs |-> {p1, p2}, calls |-> 2, faults |-> 0]}
=============================================================================
