-------------------------- MODULE ReminderSagaProofs --------------------------
(***************************************************************************)
(* A reminder fires at most once and is never taken out of a settled        *)
(* state, for any number of processes, reminders, jobs, calls and faults.   *)
(*                                                                          *)
(* The argument is the optimistic lock of the reminders table.  Every write *)
(* raises the revision, so a row a call still holds is either the row of    *)
(* the table or older (Same), and a write compared with the revision starts *)
(* from the row the call has decided on.  What is left are the writes that  *)
(* compare no revision: the trigger, its failure record, the preparation of *)
(* a reschedule and the insert, which look at the row of the table itself.  *)
(***************************************************************************)
EXTENDS ReminderSaga, FiniteSetTheorems, TLAPS

\* A row of the table, or a copy of one.
RowGood(row) ==
  /\ row.st = "none" <=> row.rev = 0
  /\ row.st # "none" => row.at \in Keys
  /\ row.st = "none" => row.at = 0

\* row is a copy of the row of r: the one in the table or an older one.
Same(row, r) ==
  /\ row.rev <= rems[r].rev
  /\ row.rev = rems[r].rev => row.st = rems[r].st /\ row.at = rems[r].at

CreatePcs == {"insert", "newjob", "schedule", "undo", "fail"}

\* The transactions at which a call has no reminder in the table.
FreePcs == {"absent", "down", "idle", "insert", "task", "list", "next"}

\* Those at which copy is the row the coming writes are decided on.
Repairing == {"ensure", "ensured"}
Holders == {"newjob", "schedule", "undo", "fail", "mark", "canceljob", "cancelled",
            "cancelfail", "movejob", "moved", "movefail", "evidence"} \cup Repairing

\* What the argument of a call is at each transaction.
ArgGood(l, a) ==
  /\ l \in {"insert", "newjob"} => a \in Keys
  /\ l \in {"check", "prepare"} => a \in 0..MaxTime
  /\ l \in {"schedule", "undo", "ensured"} => a \in Jobs
  /\ l = "fail" => a \in Jobs \cup {NoJob}
  /\ l = "task" => a \in 1..MaxTaskRev

OpGood(l, o) ==
  /\ o = "create" <=> l \in CreatePcs
  /\ o = "none" <=> l \in {"absent", "down", "idle"}
  /\ l \in {"task", "list", "regain", "evidence"} => o \in {"complete", "cancel_task"}

ControlOK(p) == OpGood(pc[p], op[p]) /\ ArgGood(pc[p], arg[p])

HeldOK(p) ==
  /\ RowGood(copy[p])
  /\ pc[p] = "insert" => rems[cur[p]].st = "none"
  /\ pc[p] \notin FreePcs => rems[cur[p]].st # "none"
  /\ pc[p] \in Holders =>
       Same(copy[p], cur[p]) /\ copy[p].st \notin {"none", "cancelled"}
  /\ pc[p] \in Holders \ Repairing => copy[p].st # "triggered"
  /\ pc[p] = "revive" => copy[p].st # "none"

ListOK(p) ==
  /\ \A r \in todo[p] : rems[r].st # "none"
  /\ \A r \in Reminders : RowGood(snap[p][r]) /\ Same(snap[p][r], r)

CallOK(p) == ControlOK(p) /\ HeldOK(p) /\ ListOK(p)

\* Identifiers are fresh: a reminder is created by one call.
OneCreator ==
  \A p, q \in Procs :
    op[p] = "create" /\ op[q] = "create" /\ cur[p] = cur[q] => p = q

\* A job has a name in the table; one that can run has a retry left.
JobOK(j) ==
  /\ jobs[j].st # "absent" => rems[jobs[j].owner].st # "none"
  /\ jobs[j].st \in Waiting \cup {"running"} => jobs[j].retry < MaxRetries

JobInv ==
  /\ \A j \in Jobs : JobOK(j)
  /\ \A t \in 1..claims : jobs[runs[t].job].st # "absent"

RemInv == (\A r \in Reminders : RowGood(rems[r])) /\ OneOccurrence

SagaInv ==
  /\ TypeOK /\ RemInv /\ JobInv
  /\ \A p \in Procs : CallOK(p)
  /\ OneCreator

-----------------------------------------------------------------------------
(* The table of reminders *)

\* A row is replaced by one of the next revision, which is triggered exactly when
\* the old one is, and cancelled if the old one is.
Raised(row, new) ==
  /\ new \in RemRow /\ RowGood(new)
  /\ new.rev = row.rev + 1
  /\ new.st = "triggered" <=> row.st = "triggered"
  /\ row.st = "triggered" => new.at = row.at
  /\ row.st = "cancelled" => new.st = "cancelled"

\* What a step may do to the reminders.
Older == \A r \in Reminders :
           \/ rems'[r] = rems[r]
           \/ rems'[r].rev > rems[r].rev /\ rems'[r].st # "none"
SettledKept == \A r \in Reminders : rems[r].st \in Settled => rems'[r].st = rems[r].st

RemStep ==
  /\ RemInv'
  /\ Older /\ SettledKept
  /\ rems' \in [Reminders -> RemRow]
  /\ occs' \in [Reminders -> [Keys -> {"none", "failed", "triggered"}]]

\* Nothing is written.
LEMMA NoWrite ==
  ASSUME TypeOK, RemInv, UNCHANGED <<rems, occs>>
  PROVE  RemStep
BY DEF RemStep, RemInv, OneOccurrence, Older, SettledKept, TypeOK

\* A row is raised.
LEMMA RaisedWrite ==
  ASSUME TypeOK, RemInv, NEW r \in Reminders, NEW new, Raised(rems[r], new),
         rems' = [rems EXCEPT ![r] = new], occs' = occs
  PROVE  RemStep
<1>1. rems \in [Reminders -> RemRow] /\ rems' \in [Reminders -> RemRow]
  BY DEF TypeOK, Raised
<1>2. rems'[r] = new /\ \A q \in Reminders \ {r} : rems'[q] = rems[q]
  BY <1>1
<1>3. \A q \in Reminders : RowGood(rems'[q])
  BY <1>2 DEF RemInv, Raised
<1>4. OneOccurrence'
  <2> SUFFICES ASSUME NEW q \in Reminders
               PROVE  {k \in Keys : occs[q][k] = "triggered"}
                        = IF rems'[q].st = "triggered" THEN {rems'[q].at} ELSE {}
    BY DEF OneOccurrence
  <2>1. {k \in Keys : occs[q][k] = "triggered"}
          = IF rems[q].st = "triggered" THEN {rems[q].at} ELSE {}
    BY DEF RemInv, OneOccurrence
  <2>2. CASE q = r
    <3>1. CASE rems[q].st = "triggered"
      BY <2>1, <2>2, <1>2, <3>1 DEF Raised
    <3>2. CASE rems[q].st # "triggered"
      BY <2>1, <2>2, <1>2, <3>2 DEF Raised
    <3> QED
      BY <3>1, <3>2
  <2>3. CASE q # r
    BY <2>1, <2>3, <1>2
  <2> QED
    BY <2>2, <2>3
<1>5. rems[r].rev \in Nat /\ new.rev = rems[r].rev + 1 /\ new.st # "none"
  BY <1>1 DEF Raised, RowGood, RemRow
<1>6. Older
  BY <1>2, <1>5 DEF Older
<1>7. SettledKept
  BY <1>2 DEF SettledKept, Raised, Settled
<1> QED
  BY <1>1, <1>3, <1>4, <1>6, <1>7 DEF RemStep, RemInv, TypeOK

\* SqliteReminderRepository.update by a call that holds the row it decided on.
LEMMA HeldWrite ==
  ASSUME TypeOK, RemInv, NEW p \in Procs, CallOK(p), pc[p] \in Holders, NEW new,
         Write(p, new), new \in RemRow, new.rev = copy[p].rev + 1, new.at = copy[p].at,
         new.st \notin {"none", "triggered"} \/ (new.st = "triggered" /\ copy[p].st = "triggered"),
         copy[p].st = "triggered" => new.st = "triggered",
         UNCHANGED occs
  PROVE  RemStep
<1>1. cur[p] \in Reminders /\ copy[p] \in RemRow
  BY DEF TypeOK
<1>2. rems[cur[p]].rev = copy[p].rev /\ rems' = [rems EXCEPT ![cur[p]] = new]
  BY DEF Write, Fresh
<1>3. rems[cur[p]].st = copy[p].st /\ rems[cur[p]].at = copy[p].at
  BY <1>2 DEF CallOK, ControlOK, HeldOK, Same
<1>4. copy[p].st \notin {"none", "cancelled"} /\ RowGood(copy[p])
  BY DEF CallOK, ControlOK, HeldOK
<1>5. copy[p].rev \in Nat /\ new.rev # 0
  BY <1>1 DEF RemRow
<1>6. Raised(rems[cur[p]], new)
  BY <1>2, <1>3, <1>4, <1>5 DEF Raised, RowGood
<1> QED
  BY <1>1, <1>2, <1>6, RaisedWrite
\* The rows a call writes over the one it holds.
LEMMA NewRows ==
  ASSUME NEW row \in RemRow, NEW st \in RemStatus, NEW j \in Jobs \cup {NoJob}
  PROVE  \A new \in {Moved(row, st), Repaired(row, st, j), Broken(row, st, j)} :
           new \in RemRow /\ new.rev = row.rev + 1 /\ new.at = row.at /\ new.st = st
BY DEF Moved, Repaired, Broken, Rem, RemRow

\* Each call holds a typed row, the name of a reminder and, where it is to save one,
\* a job.
LEMMA HeldTypes ==
  ASSUME TypeOK, NEW p \in Procs
  PROVE  /\ copy[p] \in RemRow /\ cur[p] \in Reminders /\ copy[p].job \in Jobs \cup {NoJob}
         /\ rems[cur[p]] \in RemRow /\ arg[p] \in Nat
BY DEF TypeOK, RemRow

\* A write of a call that holds its row, or none.
LEMMA HeldStep ==
  ASSUME TypeOK, RemInv, NEW p \in Procs, CallOK(p), pc[p] \in Holders,
         NEW st \in RemStatus \ {"none", "triggered"}, copy[p].st # "triggered",
         NEW j \in Jobs \cup {NoJob},
         NEW new \in {Moved(copy[p], st), Repaired(copy[p], st, j), Broken(copy[p], st, j)},
         Write(p, new) \/ UNCHANGED rems, UNCHANGED occs
  PROVE  RemStep
<1>1. CASE UNCHANGED rems
  BY <1>1, NoWrite
<1>2. CASE Write(p, new)
  <2>1. new \in RemRow /\ new.rev = copy[p].rev + 1 /\ new.at = copy[p].at /\ new.st = st
    BY HeldTypes, NewRows
  <2> QED
    BY <1>2, <2>1, HeldWrite
<1> QED
  BY <1>1, <1>2

\* The writes of the repairs of reconcile keep a triggered reminder triggered.
LEMMA MarkStep ==
  ASSUME TypeOK, RemInv, NEW p \in Procs, CallOK(p), ReconcileMark(p)
  PROVE  RemStep
<1> DEFINE st == IF copy[p].st = "triggered" THEN "triggered" ELSE "scheduled"
           new == Repaired(copy[p], st, arg[p])
<1>1. pc[p] \in Holders /\ arg[p] \in Jobs \cup {NoJob} /\ st \in RemStatus
  BY DEF ReconcileMark, CallOK, ControlOK, HeldOK, ArgGood, Holders, Repairing, RemStatus
<1>2. Write(p, new) \/ UNCHANGED rems
  BY DEF ReconcileMark, NotWritten
<1>3. UNCHANGED occs
  BY DEF ReconcileMark
<1>4. new \in RemRow /\ new.rev = copy[p].rev + 1 /\ new.at = copy[p].at /\ new.st = st
  BY <1>1, HeldTypes, NewRows
<1>5. CASE Write(p, new)
  <2>1. \/ new.st \notin {"none", "triggered"}
        \/ new.st = "triggered" /\ copy[p].st = "triggered"
    BY <1>4
  <2>2. copy[p].st = "triggered" => new.st = "triggered"
    BY <1>4
  <2> HIDE DEF new
  <2> QED
    BY <1>1, <1>3, <1>4, <1>5, <2>1, <2>2, HeldWrite
<1> QED
  BY <1>2, <1>3, <1>5, NoWrite

LEMMA InsertStep ==
  ASSUME TypeOK, RemInv, NEW p \in Procs, CallOK(p), CreateInsert(p)
  PROVE  RemStep
<1> DEFINE new == Rem("pending_schedule", arg[p], NoJob, "none", 1)
<1>1. UNCHANGED occs /\ (UNCHANGED rems \/ rems' = [rems EXCEPT ![cur[p]] = new])
  BY DEF CreateInsert
<1>2. arg[p] \in Keys /\ rems[cur[p]].st = "none"
  BY DEF CreateInsert, CallOK, ControlOK, HeldOK, ArgGood
<1>3. rems[cur[p]].rev = 0 /\ cur[p] \in Reminders
  BY <1>2, HeldTypes DEF RemInv, RowGood
<1>4. Raised(rems[cur[p]], new)
  BY <1>2, <1>3, SagaAssumption DEF Raised, RowGood, Rem, RemRow, RemStatus
<1> HIDE DEF new
<1> QED
  BY <1>1, <1>3, <1>4, RaisedWrite, NoWrite

\* prepare_reschedule looks at the row of the table.
LEMMA PrepareStep ==
  ASSUME TypeOK, RemInv, NEW p \in Procs, CallOK(p), Prepare(p)
  PROVE  RemStep
<1> DEFINE old == rems[cur[p]]
           new == Rem("pending_reschedule", arg[p], old.job, "none", old.rev + 1)
<1>1. UNCHANGED occs
  BY DEF Prepare
<1>2. UNCHANGED rems \/ (Preparable(p) /\ rems' = [rems EXCEPT ![cur[p]] = new])
  BY DEF Prepare
<1>3. CASE Preparable(p) /\ rems' = [rems EXCEPT ![cur[p]] = new]
  <2>1. arg[p] \in 0..MaxTime /\ arg[p] > now /\ now \in Nat /\ old.st \notin Settled
    BY <1>3 DEF Prepare, CallOK, ControlOK, HeldOK, ArgGood, Preparable, TypeOK
  <2>2. arg[p] \in Keys /\ old \in RemRow /\ cur[p] \in Reminders
    BY <2>1, HeldTypes, SagaAssumption
  <2>3. Raised(old, new)
    BY <2>1, <2>2, SagaAssumption DEF Raised, RowGood, Rem, RemRow, RemStatus, Settled
  <2> HIDE DEF new
  <2> QED
    BY <1>1, <1>3, <2>2, <2>3, RaisedWrite
<1> QED
  BY <1>1, <1>2, <1>3, NoWrite
-----------------------------------------------------------------------------
(* The handler of a claimed job *)

LEMMA RunTypes ==
  ASSUME TypeOK, JobInv, NEW t \in 1..claims
  PROVE  /\ runs[t] \in Run /\ runs[t].job \in Jobs /\ runs[t].key \in Keys
         /\ jobs[runs[t].job].owner \in Reminders
         /\ rems[jobs[runs[t].job].owner].st # "none"
<1>1. runs[t] \in Run /\ runs[t].job \in Jobs /\ runs[t].key \in Keys
  BY DEF TypeOK, Run
<1>2. jobs[runs[t].job] \in JobRow
  BY <1>1 DEF TypeOK
<1>3. jobs[runs[t].job].st # "absent" /\ JobOK(runs[t].job)
  BY <1>1 DEF JobInv
<1> QED
  BY <1>1, <1>2, <1>3 DEF JobOK, JobRow

\* The one write that triggers a reminder: its instant is the one it was set to,
\* and no other has been.
LEMMA TriggerWrite ==
  ASSUME TypeOK, RemInv, NEW r \in Reminders, NEW k \in Keys, Triggerable(r, k),
         occs' = [occs EXCEPT ![r][k] = "triggered"],
         rems' = [rems EXCEPT ![r] = TriggeredRow(@)]
  PROVE  RemStep
<1> DEFINE new == TriggeredRow(rems[r])
<1>1. rems \in [Reminders -> RemRow] /\ rems[r] \in RemRow
  BY DEF TypeOK
<1>2. rems[r].st \in {"scheduled", "failed"} /\ rems[r].at = k
  BY DEF Triggerable
<1>3. new \in RemRow /\ new.st = "triggered" /\ new.at = k /\ new.rev = rems[r].rev + 1
  BY <1>1, <1>2 DEF TriggeredRow, Rem, RemRow, RemStatus
<1>4. rems' = [rems EXCEPT ![r] = new]
  OBVIOUS
<1> HIDE DEF new
<1>5. rems' \in [Reminders -> RemRow]
  BY <1>1, <1>3, <1>4
<1>6. rems'[r] = new /\ \A q \in Reminders \ {r} : rems'[q] = rems[q]
  BY <1>1, <1>4
<1>7. occs \in [Reminders -> [Keys -> {"none", "failed", "triggered"}]]
  BY DEF TypeOK
<1>8. occs' \in [Reminders -> [Keys -> {"none", "failed", "triggered"}]]
  BY <1>7
<1>9. /\ occs'[r] = [occs[r] EXCEPT ![k] = "triggered"]
      /\ \A q \in Reminders \ {r} : occs'[q] = occs[q]
  BY <1>7
<1>10. rems[r].rev \in Nat
  BY <1>1 DEF RemRow
<1>11. \A q \in Reminders : RowGood(rems'[q])
  BY <1>3, <1>6, <1>10 DEF RemInv, RowGood
<1>12. OneOccurrence'
  <2> SUFFICES ASSUME NEW q \in Reminders
               PROVE  {i \in Keys : occs'[q][i] = "triggered"}
                        = IF rems'[q].st = "triggered" THEN {rems'[q].at} ELSE {}
    BY DEF OneOccurrence
  <2>1. {i \in Keys : occs[q][i] = "triggered"}
          = IF rems[q].st = "triggered" THEN {rems[q].at} ELSE {}
    BY DEF RemInv, OneOccurrence
  <2>2. CASE q = r
    <3>1. \A i \in Keys : occs[r][i] # "triggered"
      BY <2>1, <2>2, <1>2
    <3>2. \A i \in Keys : occs'[r][i] = "triggered" <=> i = k
      BY <3>1, <1>7, <1>9
    <3> QED
      BY <3>2, <2>2, <1>3, <1>6
  <2>3. CASE q # r
    BY <2>1, <2>3, <1>6, <1>9
  <2> QED
    BY <2>2, <2>3
<1>13. Older /\ SettledKept
  BY <1>2, <1>3, <1>6, <1>10 DEF Older, SettledKept, Settled
<1> QED
  BY <1>5, <1>8, <1>11, <1>12, <1>13 DEF RemStep, RemInv

LEMMA TriggerStep ==
  ASSUME TypeOK, RemInv, JobInv, NEW t \in 1..claims, Trigger(t)
  PROVE  RemStep
<1> DEFINE r == jobs[runs[t].job].owner
           k == runs[t].key
<1>1. r \in Reminders /\ k \in Keys
  BY RunTypes
<1>2. \/ UNCHANGED <<rems, occs>>
      \/ /\ Triggerable(r, k)
         /\ occs' = [occs EXCEPT ![r][k] = "triggered"]
         /\ rems' = [rems EXCEPT ![r] = TriggeredRow(@)]
  BY DEF Trigger
<1> HIDE DEF r, k
<1> QED
  BY <1>1, <1>2, NoWrite, TriggerWrite

\* The failure of an attempt is recorded on a reminder that is not settled, and as
\* an occurrence only where none has been triggered.
LEMMA RecordWrite ==
  ASSUME TypeOK, RemInv, NEW r \in Reminders, NEW k \in Keys, rems[r].st # "none",
         occs' = [occs EXCEPT ![r][k] = IF @ = "triggered" THEN @ ELSE "failed"],
         rems' = [rems EXCEPT ![r] = Blamed(@)]
  PROVE  RemStep
<1> DEFINE new == Blamed(rems[r])
<1>1. rems \in [Reminders -> RemRow] /\ rems[r] \in RemRow /\ RowGood(rems[r])
  BY DEF TypeOK, RemInv
<1>2. rems' = [rems EXCEPT ![r] = new]
  OBVIOUS
<1>3. new = rems[r] \/ Raised(rems[r], new)
  BY <1>1 DEF Blamed, Raised, Rem, RemRow, RowGood, RemStatus
<1> HIDE DEF new
<1>4. new \in RemRow
  BY <1>1, <1>3 DEF Raised
<1>5. rems' \in [Reminders -> RemRow]
  BY <1>1, <1>2, <1>4
<1>6. rems'[r] = new /\ \A q \in Reminders \ {r} : rems'[q] = rems[q]
  BY <1>1, <1>2
<1>7. occs \in [Reminders -> [Keys -> {"none", "failed", "triggered"}]]
  BY DEF TypeOK
<1>8. occs' \in [Reminders -> [Keys -> {"none", "failed", "triggered"}]]
  BY <1>7
<1>9. \A q \in Reminders, i \in Keys : occs'[q][i] = "triggered" <=> occs[q][i] = "triggered"
  BY <1>7
<1>10. /\ new.st = "triggered" <=> rems[r].st = "triggered"
       /\ rems[r].st = "triggered" => new.at = rems[r].at
       /\ rems[r].st = "cancelled" => new.st = "cancelled"
       /\ RowGood(new)
  BY <1>1, <1>3 DEF Raised
<1>11. new = rems[r] \/ (new.rev = rems[r].rev + 1 /\ rems[r].rev \in Nat)
  BY <1>1, <1>3 DEF Raised, RemRow
<1>12. new.st # "none"
  BY <1>10, <1>11 DEF RowGood
<1>13. \A q \in Reminders : RowGood(rems'[q])
  BY <1>6, <1>10 DEF RemInv
<1>14. OneOccurrence'
  <2> SUFFICES ASSUME NEW q \in Reminders
               PROVE  {i \in Keys : occs'[q][i] = "triggered"}
                        = IF rems'[q].st = "triggered" THEN {rems'[q].at} ELSE {}
    BY DEF OneOccurrence
  <2>1. {i \in Keys : occs[q][i] = "triggered"}
          = IF rems[q].st = "triggered" THEN {rems[q].at} ELSE {}
    BY DEF RemInv, OneOccurrence
  <2>2. {i \in Keys : occs'[q][i] = "triggered"} = {i \in Keys : occs[q][i] = "triggered"}
    BY <1>9
  <2>3. (rems'[q].st = "triggered" <=> rems[q].st = "triggered")
        /\ (rems[q].st = "triggered" => rems'[q].at = rems[q].at)
    BY <1>6, <1>10
  <2> QED
    BY <2>1, <2>2, <2>3
<1>15. Older /\ SettledKept
  BY <1>6, <1>10, <1>11, <1>12 DEF Older, SettledKept, Settled
<1> QED
  BY <1>5, <1>8, <1>13, <1>14, <1>15 DEF RemStep, RemInv

LEMMA RecordStep ==
  ASSUME TypeOK, RemInv, JobInv, NEW t \in 1..claims, Record(t)
  PROVE  RemStep
<1> DEFINE r == jobs[runs[t].job].owner
           k == runs[t].key
<1>1. r \in Reminders /\ k \in Keys /\ rems[r].st # "none"
  BY RunTypes
<1>2. \/ UNCHANGED <<rems, occs>>
      \/ /\ occs' = [occs EXCEPT ![r][k] = IF @ = "triggered" THEN @ ELSE "failed"]
         /\ rems' = [rems EXCEPT ![r] = Blamed(@)]
  BY DEF Record
<1> HIDE DEF r, k
<1> QED
  BY <1>1, <1>2, NoWrite, RecordWrite
-----------------------------------------------------------------------------
(* Every step *)

LEMMA CallRems ==
  ASSUME TypeOK, RemInv, NEW p \in Procs, CallOK(p), CallStep(p)
  PROVE  RemStep
<1>1. CASE CreateMark(p)
  <2>1. pc[p] = "schedule" /\ UNCHANGED occs
    BY <1>1 DEF CreateMark
  <2>2. Write(p, Repaired(copy[p], "scheduled", arg[p])) \/ UNCHANGED rems
    BY <1>1 DEF CreateMark, NotWritten
  <2>3. pc[p] \in Holders \ Repairing
    BY <2>1 DEF Holders, Repairing
  <2>4. copy[p].st # "triggered" /\ arg[p] \in Jobs \cup {NoJob}
    BY <2>1, <2>3, HeldTypes DEF CallOK, ControlOK, HeldOK, ArgGood
  <2>5. "scheduled" \in RemStatus \ {"none", "triggered"}
    BY DEF RemStatus
  <2> QED
    BY <2>1, <2>2, <2>3, <2>4, <2>5, HeldStep
<1>2. CASE CreateFail(p)
  <2>1. pc[p] = "fail" /\ UNCHANGED occs
    BY <1>2 DEF CreateFail
  <2>2. Write(p, Broken(copy[p], "failed", arg[p])) \/ UNCHANGED rems
    BY <1>2 DEF CreateFail, NotWritten
  <2>3. pc[p] \in Holders \ Repairing
    BY <2>1 DEF Holders, Repairing
  <2>4. copy[p].st # "triggered" /\ arg[p] \in Jobs \cup {NoJob}
    BY <2>1, <2>3, HeldTypes DEF CallOK, ControlOK, HeldOK, ArgGood
  <2>5. "failed" \in RemStatus \ {"none", "triggered"}
    BY DEF RemStatus
  <2> QED
    BY <2>1, <2>2, <2>3, <2>4, <2>5, HeldStep
<1>3. CASE CancelMark(p)
  <2>1. pc[p] = "mark" /\ UNCHANGED occs
    BY <1>3 DEF CancelMark
  <2>2. Write(p, Moved(copy[p], "pending_cancel")) \/ UNCHANGED rems
    BY <1>3 DEF CancelMark, NotWritten
  <2>3. pc[p] \in Holders \ Repairing
    BY <2>1 DEF Holders, Repairing
  <2>4. copy[p].st # "triggered" /\ copy[p].job \in Jobs \cup {NoJob}
    BY <2>1, <2>3, HeldTypes DEF CallOK, ControlOK, HeldOK, ArgGood
  <2>5. "pending_cancel" \in RemStatus \ {"none", "triggered"}
    BY DEF RemStatus
  <2> QED
    BY <2>1, <2>2, <2>3, <2>4, <2>5, HeldStep
<1>4. CASE CancelDone(p)
  <2>1. pc[p] = "cancelled" /\ UNCHANGED occs
    BY <1>4 DEF CancelDone
  <2>2. Write(p, Repaired(copy[p], "cancelled", copy[p].job)) \/ UNCHANGED rems
    BY <1>4 DEF CancelDone, NotWritten
  <2>3. pc[p] \in Holders \ Repairing
    BY <2>1 DEF Holders, Repairing
  <2>4. copy[p].st # "triggered" /\ copy[p].job \in Jobs \cup {NoJob}
    BY <2>1, <2>3, HeldTypes DEF CallOK, ControlOK, HeldOK, ArgGood
  <2>5. "cancelled" \in RemStatus \ {"none", "triggered"}
    BY DEF RemStatus
  <2> QED
    BY <2>1, <2>2, <2>3, <2>4, <2>5, HeldStep
<1>5. CASE CancelFail(p)
  <2>1. pc[p] = "cancelfail" /\ UNCHANGED occs
    BY <1>5 DEF CancelFail
  <2>2. Write(p, Broken(copy[p], "pending_cancel", copy[p].job)) \/ UNCHANGED rems
    BY <1>5 DEF CancelFail, NotWritten
  <2>3. pc[p] \in Holders \ Repairing
    BY <2>1 DEF Holders, Repairing
  <2>4. copy[p].st # "triggered" /\ copy[p].job \in Jobs \cup {NoJob}
    BY <2>1, <2>3, HeldTypes DEF CallOK, ControlOK, HeldOK, ArgGood
  <2>5. "pending_cancel" \in RemStatus \ {"none", "triggered"}
    BY DEF RemStatus
  <2> QED
    BY <2>1, <2>2, <2>3, <2>4, <2>5, HeldStep
<1>6. CASE RescheduleDone(p)
  <2>1. pc[p] = "moved" /\ UNCHANGED occs
    BY <1>6 DEF RescheduleDone
  <2>2. Write(p, Repaired(copy[p], "scheduled", copy[p].job)) \/ UNCHANGED rems
    BY <1>6 DEF RescheduleDone, NotWritten
  <2>3. pc[p] \in Holders \ Repairing
    BY <2>1 DEF Holders, Repairing
  <2>4. copy[p].st # "triggered" /\ copy[p].job \in Jobs \cup {NoJob}
    BY <2>1, <2>3, HeldTypes DEF CallOK, ControlOK, HeldOK, ArgGood
  <2>5. "scheduled" \in RemStatus \ {"none", "triggered"}
    BY DEF RemStatus
  <2> QED
    BY <2>1, <2>2, <2>3, <2>4, <2>5, HeldStep
<1>7. CASE RescheduleFail(p)
  <2>1. pc[p] = "movefail" /\ UNCHANGED occs
    BY <1>7 DEF RescheduleFail
  <2>2. Write(p, Broken(copy[p], "pending_reschedule", copy[p].job)) \/ UNCHANGED rems
    BY <1>7 DEF RescheduleFail, NotWritten
  <2>3. pc[p] \in Holders \ Repairing
    BY <2>1 DEF Holders, Repairing
  <2>4. copy[p].st # "triggered" /\ copy[p].job \in Jobs \cup {NoJob}
    BY <2>1, <2>3, HeldTypes DEF CallOK, ControlOK, HeldOK, ArgGood
  <2>5. "pending_reschedule" \in RemStatus \ {"none", "triggered"}
    BY DEF RemStatus
  <2> QED
    BY <2>1, <2>2, <2>3, <2>4, <2>5, HeldStep
<1>8. CASE Evidence(p)
  <2>1. pc[p] = "evidence" /\ UNCHANGED occs
    BY <1>8 DEF Evidence
  <2>2. Write(p, Broken(copy[p], "pending_cancel", copy[p].job)) \/ UNCHANGED rems
    BY <1>8 DEF Evidence, NotWritten
  <2>3. pc[p] \in Holders \ Repairing
    BY <2>1 DEF Holders, Repairing
  <2>4. copy[p].st # "triggered" /\ copy[p].job \in Jobs \cup {NoJob}
    BY <2>1, <2>3, HeldTypes DEF CallOK, ControlOK, HeldOK, ArgGood
  <2>5. "pending_cancel" \in RemStatus \ {"none", "triggered"}
    BY DEF RemStatus
  <2> QED
    BY <2>1, <2>2, <2>3, <2>4, <2>5, HeldStep
<1>9. CASE CreateInsert(p) \/ Prepare(p) \/ ReconcileMark(p)
  BY <1>9, InsertStep, PrepareStep, MarkStep
<1>10. CASE \/ CreateJob(p) \/ CreateUndo(p) \/ CancelGet(p) \/ CancelTheJob(p)
            \/ RescheduleCheck(p) \/ MoveTheJob(p)
  BY <1>10, NoWrite DEF CreateJob, CreateUndo, CancelGet, CancelTheJob, RescheduleCheck,
     MoveTheJob
<1>11. CASE \/ TaskWrite(p) \/ TaskList(p) \/ TakeNext(p) \/ Regain(p)
            \/ ReconcileItem(p) \/ ReconcileEnsure(p) \/ ReconcileJob(p) \/ ReconcileEnd(p)
  BY <1>11, NoWrite DEF TaskWrite, TaskList, TakeNext, Regain, ReconcileItem,
     ReconcileEnsure, ReconcileJob, ReconcileEnd
<1> QED
  BY <1>1, <1>2, <1>3, <1>4, <1>5, <1>6, <1>7, <1>8, <1>9, <1>10, <1>11 DEF CallStep

LEMMA RemsStep == SagaInv /\ [Next]_vars => RemStep
<1> SUFFICES ASSUME SagaInv, [Next]_vars PROVE RemStep
  OBVIOUS
<1>1. TypeOK /\ RemInv /\ JobInv /\ \A p \in Procs : CallOK(p)
  BY DEF SagaInv
<1>2. ASSUME NEW p \in Procs, CallStep(p) PROVE RemStep
  BY <1>1, <1>2, CallRems
<1>3. ASSUME NEW p \in Procs, NewCall(p) PROVE UNCHANGED <<rems, occs>>
  BY <1>3 DEF NewCall, CancelCall, CreateRead, RescheduleCall, TaskEdit, TaskCall, DeleteTheJob
<1>4. ASSUME NEW p \in Procs, SchedulerStep(p) \/ Crash(p) \/ Restart(p)
      PROVE  UNCHANGED <<rems, occs>>
  BY <1>4 DEF SchedulerStep, TickClash, Release, Claim, Crash, Restart
<1>5. ASSUME NEW t \in 1..claims, RunStep(t) PROVE RemStep
  <2>1. CASE Trigger(t) \/ Record(t)
    BY <1>1, <2>1, TriggerStep, RecordStep
  <2>2. CASE Recheck(t) \/ Finish(t)
    BY <1>1, <2>2, NoWrite DEF Recheck, Finish
  <2> QED
    BY <1>5, <2>1, <2>2 DEF RunStep
<1>6. CASE Tick \/ UNCHANGED vars
  BY <1>1, <1>6, NoWrite DEF Tick, vars
<1> QED
  BY <1>1, <1>2, <1>3, <1>4, <1>5, <1>6, NoWrite DEF Next
-----------------------------------------------------------------------------
(* The jobs and their executions *)

\* What is written to the table of jobs: a row with the name of a reminder of the
\* table, with a retry left if it can still run.
JobWritten(row) ==
  /\ row \in JobRow /\ row.st # "absent" /\ rems[row.owner].st # "none"
  /\ row.st \in Waiting \cup {"running"} => row.retry < MaxRetries

JobsStep ==
  /\ jobs' \in [Jobs -> JobRow]
  /\ \A j \in Jobs : jobs'[j] = jobs[j] \/ JobWritten(jobs'[j])
  /\ known' \in [Procs -> SUBSET Jobs]

LEMMA NoToken0 == NoToken \in 0..MaxClaims /\ MaxRetries \in Nat \ {0} /\ MaxClaims \in Nat
BY SagaAssumption DEF NoToken

\* The steps of JobTable write such rows.
LEMMA RowsWritten ==
  ASSUME TypeOK, JobInv, NEW j \in Jobs, jobs[j].st # "absent"
  PROVE  /\ JobWritten(CancelledRow(jobs[j]))
         /\ \A k \in Keys : JobWritten(RescheduledRow(jobs[j], k))
         /\ JobWritten(DeletedRow(jobs[j])) /\ JobWritten(SucceededRow(jobs[j]))
         /\ jobs[j].st = "running" => JobWritten(AttemptFailedRow(jobs[j]))
         /\ Runnable(jobs[j]) => \A t \in 1..MaxClaims : JobWritten(ClaimedRow(jobs[j], t))
<1>1. jobs[j] \in JobRow /\ rems[jobs[j].owner].st # "none"
  BY DEF TypeOK, JobInv, JobOK
<1>2. jobs[j].st \in Waiting \cup {"running"} => jobs[j].retry < MaxRetries
  BY DEF JobInv, JobOK
<1>3. /\ jobs[j].owner \in Reminders /\ jobs[j].key \in Keys
      /\ jobs[j].retry \in 0..MaxRetries /\ jobs[j].retry \in Nat
  BY <1>1, NoToken0 DEF JobRow
<1>4. JobWritten(CancelledRow(jobs[j]))
  BY <1>1, <1>3, NoToken0 DEF JobWritten, CancelledRow, To, Row, JobRow, Waiting
<1>5. \A k \in Keys : JobWritten(RescheduledRow(jobs[j], k))
  BY <1>1, <1>3, NoToken0 DEF JobWritten, RescheduledRow, Row, JobRow
<1>6. JobWritten(DeletedRow(jobs[j])) /\ JobWritten(SucceededRow(jobs[j]))
  BY <1>1, <1>3, NoToken0 DEF JobWritten, DeletedRow, SucceededRow, Row, JobRow, Waiting
<1>7. ASSUME jobs[j].st = "running" PROVE JobWritten(AttemptFailedRow(jobs[j]))
  BY <1>1, <1>2, <1>3, <1>7, NoToken0 DEF JobWritten, AttemptFailedRow, Row, JobRow, Waiting
<1>8. ASSUME Runnable(jobs[j]), NEW t \in 1..MaxClaims
      PROVE  JobWritten(ClaimedRow(jobs[j], t))
  BY <1>1, <1>2, <1>3, <1>8, NoToken0 DEF JobWritten, Runnable, ClaimedRow, Row, JobRow, Waiting
<1> QED
  BY <1>4, <1>5, <1>6, <1>7, <1>8

LEMMA SavedWritten ==
  ASSUME NEW r \in Reminders, rems[r].st # "none", NEW k \in Keys
  PROVE  JobWritten(SavedRow(r, k))
BY NoToken0 DEF JobWritten, SavedRow, Row, JobRow

LEMMA OneJobWritten ==
  ASSUME TypeOK, NEW j \in Jobs, NEW row, JobWritten(row), jobs' = [jobs EXCEPT ![j] = row],
         known' \in [Procs -> SUBSET Jobs]
  PROVE  JobsStep
<1>1. row \in JobRow /\ jobs \in [Jobs -> JobRow]
  BY DEF JobWritten, TypeOK
<1>2. jobs' \in [Jobs -> JobRow]
  BY <1>1
<1>3. jobs'[j] = row /\ \A i \in Jobs \ {j} : jobs'[i] = jobs[i]
  BY <1>1
<1> QED
  BY <1>2, <1>3 DEF JobsStep

LEMMA NoJobWritten ==
  ASSUME TypeOK, UNCHANGED jobs, known' \in [Procs -> SUBSET Jobs]
  PROVE  JobsStep
BY DEF JobsStep, TypeOK

\* A refresh of the registry.
LEMMA SyncedType ==
  ASSUME TypeOK, NEW p \in Procs
  PROVE  Synced(p) \in [Procs -> SUBSET Jobs]
<1>1. Rows \subseteq Jobs
  BY DEF Rows
<1>2. known \in [Procs -> SUBSET Jobs]
  BY DEF TypeOK
<1> QED
  BY <1>1, <1>2 DEF Synced

LEMMA NewJobStep ==
  ASSUME TypeOK, NEW p \in Procs, NEW r \in Reminders, rems[r].st # "none",
         NEW k \in Keys, NEW j \in Jobs, NewJob(p, r, k, j)
  PROVE  JobsStep
<1>1. known \in [Procs -> SUBSET Jobs]
  BY DEF TypeOK
<1>2. jobs' = [jobs EXCEPT ![j] = SavedRow(r, k)]
  BY DEF NewJob
<1>3. known' \in [Procs -> SUBSET Jobs]
  BY <1>1 DEF NewJob
<1> QED
  BY <1>2, <1>3, SavedWritten, OneJobWritten

LEMMA MoveJobStep ==
  ASSUME TypeOK, JobInv, NEW p \in Procs, NEW j, NEW k \in Keys, MoveJob(p, j, k)
  PROVE  JobsStep
<1>1. j \in Jobs /\ jobs[j].st # "absent"
  BY DEF MoveJob, Movable, Rows, Present
<1>2. jobs' = [jobs EXCEPT ![j] = RescheduledRow(jobs[j], k)] /\ known' = Synced(p)
  BY DEF MoveJob
<1> QED
  BY <1>1, <1>2, SyncedType, RowsWritten, OneJobWritten

LEMMA StopJobStep ==
  ASSUME TypeOK, JobInv, NEW p \in Procs, NEW j, StopJob(p, j)
  PROVE  JobsStep
<1>1. j \in Jobs /\ jobs[j].st # "absent"
  BY DEF StopJob, Rows, Present
<1>2. known' = Synced(p)
  BY DEF StopJob
<1>3. UNCHANGED jobs \/ jobs' = [jobs EXCEPT ![j] = CancelledRow(jobs[j])]
  BY DEF StopJob
<1> QED
  BY <1>1, <1>2, <1>3, SyncedType, RowsWritten, OneJobWritten, NoJobWritten
\* The instant a call sets a job to is one of a row of the table.
LEMMA HeldInstant ==
  ASSUME NEW p \in Procs, CallOK(p), pc[p] \in Holders \cup {"revive"}
  PROVE  copy[p].at \in Keys /\ rems[cur[p]].st # "none"
BY DEF CallOK, ControlOK, HeldOK, RowGood, Holders, Repairing, FreePcs

LEMMA SameJobs ==
  ASSUME TypeOK, UNCHANGED <<jobs, known>>
  PROVE  JobsStep
BY NoJobWritten DEF TypeOK

LEMMA CallJobs ==
  ASSUME TypeOK, JobInv, NEW p \in Procs, CallOK(p), CallStep(p)
  PROVE  JobsStep
<1>1. CASE CreateJob(p)
  <2>1. pc[p] = "newjob"
    BY <1>1 DEF CreateJob
  <2>2. arg[p] \in Keys /\ cur[p] \in Reminders /\ rems[cur[p]].st # "none"
    BY <2>1, HeldTypes DEF CallOK, ControlOK, HeldOK, ArgGood, FreePcs
  <2>3. (\E j \in Jobs : NewJob(p, cur[p], arg[p], j)) \/ UNCHANGED <<jobs, known>>
    BY <1>1 DEF CreateJob, NoNewJob
  <2> QED
    BY <2>2, <2>3, NewJobStep, SameJobs
<1>2. CASE CreateUndo(p)
  <2>1. StopJob(p, arg[p]) \/ UNCHANGED <<jobs, known>>
    BY <1>2 DEF CreateUndo
  <2> QED
    BY <2>1, StopJobStep, SameJobs
<1>3. CASE CancelTheJob(p)
  <2>1. StopJob(p, copy[p].job) \/ UNCHANGED <<jobs, known>>
    BY <1>3 DEF CancelTheJob
  <2> QED
    BY <2>1, StopJobStep, SameJobs
<1>4. CASE MoveTheJob(p)
  <2>1. pc[p] = "movejob"
    BY <1>4 DEF MoveTheJob
  <2>2. copy[p].at \in Keys /\ cur[p] \in Reminders /\ rems[cur[p]].st # "none"
    BY <2>1, HeldInstant, HeldTypes DEF Holders
  <2>3. \/ MoveJob(p, copy[p].job, copy[p].at)
        \/ UNCHANGED jobs /\ known' = Synced(p)
        \/ \E j \in Jobs : NewJob(p, cur[p], copy[p].at, j)
        \/ UNCHANGED <<jobs, known>>
    BY <1>4 DEF MoveTheJob, NoNewJob
  <2>4. CASE UNCHANGED jobs /\ known' = Synced(p)
    BY <2>4, SyncedType, NoJobWritten
  <2> QED
    BY <2>2, <2>3, <2>4, MoveJobStep, NewJobStep, SameJobs
<1>5. CASE ReconcileEnsure(p)
  <2>1. pc[p] = "ensure"
    BY <1>5 DEF ReconcileEnsure
  <2>2. copy[p].at \in Keys /\ cur[p] \in Reminders /\ rems[cur[p]].st # "none"
    BY <2>1, HeldInstant, HeldTypes DEF Holders, Repairing
  <2>3. \/ MoveJob(p, copy[p].job, copy[p].at)
        \/ \E j \in Jobs : NewJob(p, cur[p], copy[p].at, j)
        \/ UNCHANGED <<jobs, known>>
    BY <1>5 DEF ReconcileEnsure, NoNewJob
  <2> QED
    BY <2>2, <2>3, MoveJobStep, NewJobStep, SameJobs
<1>6. CASE ReconcileJob(p)
  <2>1. \/ StopJob(p, copy[p].job)
        \/ pc[p] = "revive" /\ MoveJob(p, copy[p].job, copy[p].at)
        \/ UNCHANGED <<jobs, known>>
    BY <1>6 DEF ReconcileJob
  <2>2. pc[p] = "revive" => copy[p].at \in Keys
    BY HeldInstant
  <2> QED
    BY <2>1, <2>2, MoveJobStep, StopJobStep, SameJobs
<1>7. CASE \/ CreateInsert(p) \/ CreateMark(p) \/ CreateFail(p) \/ CancelGet(p)
           \/ CancelMark(p) \/ CancelDone(p) \/ CancelFail(p) \/ RescheduleCheck(p)
           \/ Prepare(p) \/ RescheduleDone(p) \/ RescheduleFail(p)
  BY <1>7, SameJobs DEF CreateInsert, CreateMark, CreateFail, CancelGet, CancelMark,
     CancelDone, CancelFail, RescheduleCheck, Prepare, RescheduleDone, RescheduleFail
<1>8. CASE \/ TaskWrite(p) \/ TaskList(p) \/ TakeNext(p) \/ Regain(p) \/ Evidence(p)
           \/ ReconcileItem(p) \/ ReconcileMark(p) \/ ReconcileEnd(p)
  BY <1>8, SameJobs DEF TaskWrite, TaskList, TakeNext, Regain, Evidence, ReconcileItem,
     ReconcileMark, ReconcileEnd
<1> QED
  BY <1>1, <1>2, <1>3, <1>4, <1>5, <1>6, <1>7, <1>8 DEF CallStep

\* What a step may do to the handler executions: each is of a job that has been saved.
RunsStep ==
  /\ claims' \in 0..MaxClaims /\ runs' \in [1..claims' -> Run]
  /\ \A t \in 1..claims' : jobs[runs'[t].job].st # "absent"

LEMMA SameRuns ==
  ASSUME TypeOK, JobInv, UNCHANGED <<runs, claims>>
  PROVE  RunsStep
BY DEF RunsStep, TypeOK, JobInv

LEMMA SchedulerJobs ==
  ASSUME TypeOK, JobInv, NEW p \in Procs, SchedulerStep(p)
  PROVE  JobsStep /\ RunsStep
<1>1. CASE TickClash(p)
  <2>1. UNCHANGED <<jobs, runs, claims>> /\ known' = Synced(p)
    BY <1>1 DEF TickClash, counts
  <2> QED
    BY <2>1, SyncedType, NoJobWritten, SameRuns
<1>2. ASSUME NEW j \in Jobs, Release(p, j) PROVE JobsStep /\ RunsStep
  <2>1. jobs[j].st = "running" /\ jobs[j].st # "absent" /\ UNCHANGED <<known, runs, claims>>
    BY <1>2 DEF Release, counts
  <2>2. jobs' = [jobs EXCEPT ![j] = AttemptFailedRow(jobs[j])]
    BY <1>2 DEF Release
  <2>3. known' \in [Procs -> SUBSET Jobs]
    BY <2>1 DEF TypeOK
  <2> QED
    BY <2>1, <2>2, <2>3, RowsWritten, OneJobWritten, SameRuns
<1>3. ASSUME NEW j \in Jobs, Claim(p, j) PROVE JobsStep /\ RunsStep
  <2>1. /\ Runnable(jobs[j]) /\ jobs[j].st # "absent" /\ known' = Synced(p)
        /\ claims < MaxClaims /\ claims' = claims + 1 /\ claims \in 0..MaxClaims
    BY <1>3 DEF Claim, Runnable, TypeOK
  <2>2. claims + 1 \in 1..MaxClaims /\ claims' \in 0..MaxClaims /\ claims \in Nat
    BY <2>1, NoToken0
  <2>3. jobs' = [jobs EXCEPT ![j] = ClaimedRow(jobs[j], claims + 1)]
    BY <1>3 DEF Claim
  <2>4. JobsStep
    BY <2>1, <2>2, <2>3, SyncedType, RowsWritten, OneJobWritten
  <2> DEFINE run == [p |-> p, job |-> j, key |-> jobs[j].key, at |-> "trigger"]
  <2>5. runs' = [t \in 1..(claims + 1) |-> IF t <= claims THEN runs[t] ELSE run]
    BY <1>3 DEF Claim
  <2>6. run \in Run /\ run.job = j
    BY DEF Run, TypeOK, JobRow
  <2> HIDE DEF run
  <2>7. runs \in [1..claims -> Run]
    BY DEF TypeOK
  <2>8. ASSUME NEW t \in 1..(claims + 1)
        PROVE  runs'[t] \in Run /\ jobs[runs'[t].job].st # "absent"
    <3>1. CASE t <= claims
      <4>1. t \in 1..claims /\ runs'[t] = runs[t]
        BY <3>1, <2>5, <2>2
      <4> QED
        BY <4>1, <2>7 DEF JobInv
    <3>2. CASE ~(t <= claims)
      BY <3>2, <2>1, <2>5, <2>6
    <3> QED
      BY <3>1, <3>2
  <2>9. runs' \in [1..(claims + 1) -> Run]
    BY <2>5, <2>8
  <2> QED
    BY <2>1, <2>2, <2>4, <2>8, <2>9 DEF RunsStep
<1> QED
  BY <1>1, <1>2, <1>3 DEF SchedulerStep
LEMMA MovesRun ==
  ASSUME TypeOK, JobInv, NEW t \in 1..claims, UNCHANGED claims,
         NEW label \in {"trigger", "recheck", "record", "ok", "failed", "over"}, Moves(t, label)
  PROVE  RunsStep
<1>1. runs \in [1..claims -> Run] /\ runs' = [runs EXCEPT ![t].at = label]
  BY DEF TypeOK, Moves
<1>2. \A u \in 1..claims : runs'[u] \in Run /\ runs'[u].job = runs[u].job
  BY <1>1 DEF Run
<1>3. runs' \in [1..claims -> Run]
  BY <1>1, <1>2
<1> QED
  BY <1>2, <1>3 DEF RunsStep, TypeOK, JobInv

LEMMA RunJobs ==
  ASSUME TypeOK, JobInv, NEW t \in 1..claims, RunStep(t)
  PROVE  JobsStep /\ RunsStep
<1>1. UNCHANGED claims
  BY DEF RunStep, Trigger, Recheck, Record, Finish, counts
<1>2. CASE Trigger(t) \/ Recheck(t) \/ Record(t)
  <2>1. \E label \in {"trigger", "recheck", "record", "ok", "failed", "over"} : Moves(t, label)
    BY <1>2 DEF Trigger, Recheck, Record
  <2>2. UNCHANGED <<jobs, known>>
    BY <1>2 DEF Trigger, Recheck, Record
  <2> QED
    BY <1>1, <2>1, <2>2, MovesRun, SameJobs
<1>3. CASE Finish(t)
  <2> DEFINE j == runs[t].job
  <2>1. RunsStep
    BY <1>1, <1>3, MovesRun DEF Finish
  <2>2. j \in Jobs
    BY RunTypes
  <2>3. UNCHANGED known /\ known' \in [Procs -> SUBSET Jobs]
    BY <1>3 DEF Finish, TypeOK
  <2>4. \/ UNCHANGED jobs
        \/ /\ jobs[j].st = "running"
           /\ \/ jobs' = [jobs EXCEPT ![j] = SucceededRow(jobs[j])]
              \/ jobs' = [jobs EXCEPT ![j] = AttemptFailedRow(jobs[j])]
    BY <1>3 DEF Finish, Owned
  <2> HIDE DEF j
  <2>5. JobsStep
    BY <2>2, <2>3, <2>4, RowsWritten, OneJobWritten, SameJobs
  <2> QED
    BY <2>1, <2>5
<1> QED
  BY <1>2, <1>3 DEF RunStep

\* The claims of a process that dies, and those a start finds expired.
LEMMA CrashJobs ==
  ASSUME TypeOK, JobInv, NEW p \in Procs, Crash(p)
  PROVE  JobsStep /\ RunsStep
<1>1. UNCHANGED <<jobs, claims>> /\ known' = [known EXCEPT ![p] = {}]
  BY DEF Crash, counts
<1>2. known' \in [Procs -> SUBSET Jobs]
  BY <1>1 DEF TypeOK
<1>3. runs \in [1..claims -> Run] /\ DOMAIN runs = 1..claims
  BY DEF TypeOK
<1>4. runs' = [t \in 1..claims |->
                 IF runs[t].p = p THEN [runs[t] EXCEPT !.at = "over"] ELSE runs[t]]
  BY <1>3 DEF Crash
<1>5. \A t \in 1..claims : runs'[t] \in Run /\ runs'[t].job = runs[t].job
  BY <1>3, <1>4 DEF Run
<1>6. RunsStep
  BY <1>1, <1>4, <1>5 DEF RunsStep, TypeOK, JobInv
<1> QED
  BY <1>1, <1>2, <1>6, NoJobWritten

LEMMA RestartJobs ==
  ASSUME TypeOK, JobInv, NEW p \in Procs, Restart(p)
  PROVE  JobsStep /\ RunsStep
<1>1. RunsStep
  BY SameRuns DEF Restart, counts
<1>2. PICK S \in SUBSET {j \in Jobs : Orphaned(j)} :
        jobs' = [j \in Jobs |-> IF j \in S THEN AttemptFailedRow(jobs[j]) ELSE jobs[j]]
  BY DEF Restart
<1>3. \A j \in S : JobWritten(AttemptFailedRow(jobs[j]))
  BY RowsWritten DEF Orphaned
<1>4. \A j \in Jobs : jobs'[j] = jobs[j] \/ JobWritten(jobs'[j])
  BY <1>2, <1>3
<1>5. \A j \in Jobs : jobs'[j] \in JobRow
  BY <1>4 DEF JobWritten, TypeOK
<1>6. jobs' \in [Jobs -> JobRow]
  BY <1>2, <1>5
<1>7. Rows \subseteq Jobs /\ known \in [Procs -> SUBSET Jobs]
  BY DEF Rows, TypeOK
<1>8. known' \in [Procs -> SUBSET Jobs]
  BY <1>7 DEF Restart
<1> QED
  BY <1>1, <1>4, <1>6, <1>8 DEF JobsStep

LEMMA NewCallJobs ==
  ASSUME TypeOK, JobInv, NEW p \in Procs, NewCall(p)
  PROVE  JobsStep
<1>1. ASSUME NEW j \in Jobs, DeleteTheJob(p, j) PROVE JobsStep
  <2>1. jobs[j].st # "absent" /\ jobs' = [jobs EXCEPT ![j] = DeletedRow(jobs[j])]
    BY <1>1 DEF DeleteTheJob, Deletable, Present
  <2>2. known \in [Procs -> SUBSET Jobs]
    BY DEF TypeOK
  <2>3. known' \in [Procs -> SUBSET Jobs]
    BY <1>1, <2>2 DEF DeleteTheJob
  <2> QED
    BY <2>1, <2>3, RowsWritten, OneJobWritten
<1>2. (\E j \in Jobs : DeleteTheJob(p, j)) \/ UNCHANGED <<jobs, known>>
  BY DEF NewCall, CancelCall, CreateRead, RescheduleCall, TaskEdit, TaskCall
<1> QED
  BY <1>1, <1>2, SameJobs

LEMMA JobsAndRuns == SagaInv /\ [Next]_vars => JobsStep /\ RunsStep
<1> SUFFICES ASSUME SagaInv, [Next]_vars PROVE JobsStep /\ RunsStep
  OBVIOUS
<1>1. TypeOK /\ JobInv /\ \A p \in Procs : CallOK(p)
  BY DEF SagaInv
<1>2. ASSUME NEW p \in Procs, CallStep(p) PROVE UNCHANGED <<runs, claims>>
  <2>1. CASE \/ CreateInsert(p) \/ CreateJob(p) \/ CreateMark(p) \/ CreateUndo(p)
             \/ CreateFail(p) \/ CancelGet(p) \/ CancelMark(p) \/ CancelTheJob(p)
             \/ CancelDone(p) \/ CancelFail(p) \/ RescheduleCheck(p) \/ Prepare(p)
             \/ MoveTheJob(p) \/ RescheduleDone(p) \/ RescheduleFail(p)
    BY <2>1 DEF CreateInsert, CreateJob, CreateMark, CreateUndo, CreateFail, CancelGet,
       CancelMark, CancelTheJob, CancelDone, CancelFail, RescheduleCheck, Prepare, MoveTheJob,
       RescheduleDone, RescheduleFail, counts
  <2>2. CASE \/ TaskWrite(p) \/ TaskList(p) \/ TakeNext(p) \/ Regain(p) \/ Evidence(p)
             \/ ReconcileItem(p) \/ ReconcileEnsure(p) \/ ReconcileMark(p)
             \/ ReconcileJob(p) \/ ReconcileEnd(p)
    BY <2>2 DEF TaskWrite, TaskList, TakeNext, Regain, Evidence, ReconcileItem,
       ReconcileEnsure, ReconcileMark, ReconcileJob, ReconcileEnd, counts
  <2> QED
    BY <1>2, <2>1, <2>2 DEF CallStep
<1>3. ASSUME NEW p \in Procs, CallStep(p) PROVE JobsStep /\ RunsStep
  BY <1>1, <1>2, <1>3, CallJobs, SameRuns
<1>4. ASSUME NEW p \in Procs, NewCall(p) PROVE UNCHANGED <<runs, claims>>
  BY <1>4 DEF NewCall, CancelCall, CreateRead, RescheduleCall, TaskEdit, TaskCall,
     DeleteTheJob, Begin
<1>5. ASSUME NEW p \in Procs, NewCall(p) PROVE JobsStep /\ RunsStep
  BY <1>1, <1>4, <1>5, NewCallJobs, SameRuns
<1>6. ASSUME NEW p \in Procs, SchedulerStep(p) \/ Crash(p) \/ Restart(p)
      PROVE  JobsStep /\ RunsStep
  BY <1>1, <1>6, SchedulerJobs, CrashJobs, RestartJobs
<1>7. ASSUME NEW t \in 1..claims, RunStep(t) PROVE JobsStep /\ RunsStep
  BY <1>1, <1>7, RunJobs
<1>8. CASE Tick \/ UNCHANGED vars
  BY <1>1, <1>8, SameJobs, SameRuns DEF Tick, vars, counts
<1> QED
  BY <1>3, <1>5, <1>6, <1>7, <1>8 DEF Next

\* The jobs keep the name of a reminder of the table.
LEMMA JobInvStep ==
  ASSUME TypeOK, JobInv, JobsStep, RunsStep, RemStep
  PROVE  JobInv'
<1>1. \A r \in Reminders : rems[r].st # "none" => rems'[r].st # "none"
  BY DEF RemStep, Older
<1>2. ASSUME NEW j \in Jobs PROVE JobOK(j)' /\ (jobs[j].st # "absent" => jobs'[j].st # "absent")
  <2>1. CASE jobs'[j] = jobs[j]
    <3>1. jobs[j].owner \in Reminders
      BY DEF TypeOK, JobRow
    <3> QED
      BY <1>1, <2>1, <3>1 DEF JobInv, JobOK
  <2>2. CASE JobWritten(jobs'[j])
    <3>1. jobs'[j].owner \in Reminders
      BY <2>2 DEF JobWritten, JobRow
    <3> QED
      BY <1>1, <2>2, <3>1 DEF JobWritten, JobOK
  <2> QED
    BY <2>1, <2>2 DEF JobsStep
<1>3. \A t \in 1..claims' : runs'[t].job \in Jobs /\ jobs[runs'[t].job].st # "absent"
  BY DEF RunsStep, Run
<1> QED
  BY <1>2, <1>3 DEF JobInv
-----------------------------------------------------------------------------
(* The calls *)

LocalsOK ==
  /\ pc \in [Procs -> Pcs] /\ op \in [Procs -> Ops]
  /\ cur \in [Procs -> Reminders] /\ arg \in [Procs -> Nat]
  /\ copy \in [Procs -> RemRow] /\ snap \in [Procs -> [Reminders -> RemRow]]
  /\ todo \in [Procs -> SUBSET Reminders] /\ bad \in [Procs -> BOOLEAN]

\* The call of q is not touched.
SameCall(q) ==
  /\ pc'[q] = pc[q] /\ op'[q] = op[q] /\ cur'[q] = cur[q] /\ arg'[q] = arg[q]
  /\ copy'[q] = copy[q] /\ todo'[q] = todo[q] /\ snap'[q] = snap[q]

\* A step of the call of p, which does not begin a creation.
CallMoves(p) ==
  /\ LocalsOK' /\ CallOK(p)'
  /\ \A q \in Procs \ {p} : SameCall(q)
  /\ op'[p] = "create" => op[p] = "create" /\ cur'[p] = cur[p]

LEMMA AnyReminder == (CHOOSE r \in Reminders : TRUE) \in Reminders
BY SagaAssumption

LEMMA NoRemGood ==
  NoRem \in RemRow /\ RowGood(NoRem) /\ NoRem.st = "none" /\ NoRem.rev = 0 /\ NoRem.at = 0
BY SagaAssumption DEF NoRem, Rem, RemRow, RowGood, RemStatus

LEMMA RemRev ==
  ASSUME RemStep, NEW r \in Reminders
  PROVE  rems'[r].rev \in Nat /\ RowGood(rems'[r]) /\ rems'[r] \in RemRow
BY DEF RemStep, RemInv, RemRow

\* A copy of a row, or an older one, stays one.
LEMMA SameKept ==
  ASSUME TypeOK, RemStep, NEW row \in RemRow, NEW r \in Reminders, Same(row, r)
  PROVE  row.rev <= rems'[r].rev
         /\ (row.rev = rems'[r].rev => row.st = rems'[r].st /\ row.at = rems'[r].at)
<1>1. rems[r].rev \in Nat /\ rems'[r].rev \in Nat /\ row.rev \in Nat
  BY RemRev DEF TypeOK, RemRow
<1>2. rems'[r] = rems[r] \/ rems'[r].rev > rems[r].rev
  BY DEF RemStep, Older
<1> QED
  BY <1>1, <1>2 DEF Same

\* The copy a call holds, and the list it works from, while it neither takes a new
\* row nor makes a new list.
LEMMA ListKept ==
  ASSUME TypeOK, RemStep, NEW p \in Procs, ListOK(p), todo'[p] \subseteq todo[p],
         snap'[p] = snap[p]
  PROVE  ListOK(p)'
<1>1. \A r \in Reminders : rems[r].st # "none" => rems'[r].st # "none"
  BY DEF RemStep, Older
<1>2. todo[p] \subseteq Reminders /\ \A r \in Reminders : snap[p][r] \in RemRow
  BY DEF TypeOK
<1>3. \A r \in todo'[p] : rems'[r].st # "none"
  BY <1>1, <1>2 DEF ListOK
<1>4. ASSUME NEW r \in Reminders PROVE RowGood(snap'[p][r]) /\ Same(snap[p][r], r)
  BY DEF ListOK
<1> QED
  BY <1>2, <1>3, <1>4, SameKept DEF ListOK, Same

\* A call that nobody touches.
LEMMA OtherCall ==
  ASSUME TypeOK, RemStep, NEW q \in Procs, CallOK(q), SameCall(q),
         pc[q] = "insert" => rems'[cur[q]] = rems[cur[q]]
  PROVE  CallOK(q)'
<1>1. ListOK(q)'
  BY ListKept DEF CallOK, SameCall
<1>2. ControlOK(q)'
  BY DEF CallOK, ControlOK, SameCall, OpGood, ArgGood
<1>3. copy[q] \in RemRow /\ cur[q] \in Reminders
  BY HeldTypes
<1>4. pc[q] \in Holders => Same(copy[q], cur[q])'
  BY <1>3, SameKept DEF CallOK, HeldOK, SameCall, Same
<1>5. rems[cur[q]].st # "none" => rems'[cur[q]].st # "none"
  BY <1>3 DEF RemStep, Older
<1>6. HeldOK(q)'
  BY <1>4, <1>5 DEF CallOK, HeldOK, SameCall, RowGood, FreePcs, Holders, Repairing
<1> QED
  BY <1>1, <1>2, <1>6 DEF CallOK

\* The ends of a call.
LEMMA ClearMoves ==
  ASSUME TypeOK, RemStep, NEW p \in Procs, NEW label \in {"idle", "down"}, Clear(p, label)
  PROVE  CallMoves(p)
<1> DEFINE some == CHOOSE r \in Reminders : TRUE
<1>1. some \in Reminders
  BY AnyReminder
<1>2. /\ pc' = [pc EXCEPT ![p] = label] /\ op' = [op EXCEPT ![p] = "none"]
      /\ cur' = [cur EXCEPT ![p] = some] /\ arg' = [arg EXCEPT ![p] = 0]
      /\ copy' = [copy EXCEPT ![p] = NoRem] /\ todo' = [todo EXCEPT ![p] = {}]
      /\ bad' = [bad EXCEPT ![p] = FALSE]
      /\ snap' = [snap EXCEPT ![p] = [r \in Reminders |-> NoRem]]
  BY DEF Clear, Goto, Set
<1> HIDE DEF some
<1>3. LocalsOK
  BY DEF TypeOK, LocalsOK
<1>4. LocalsOK'
  BY <1>1, <1>2, <1>3, NoRemGood DEF LocalsOK, Pcs, Ops
<1>5. \A q \in Procs \ {p} : SameCall(q)
  BY <1>2, <1>3 DEF LocalsOK, SameCall
<1>6. /\ pc'[p] = label /\ op'[p] = "none" /\ arg'[p] = 0 /\ copy'[p] = NoRem
      /\ todo'[p] = {} /\ snap'[p] = [r \in Reminders |-> NoRem]
  BY <1>2, <1>3 DEF LocalsOK
<1>7. ControlOK(p)'
  BY <1>6 DEF ControlOK, OpGood, ArgGood, CreatePcs
<1>8. HeldOK(p)'
  BY <1>6, NoRemGood DEF HeldOK, FreePcs, Holders, Repairing
<1>9. ASSUME NEW r \in Reminders PROVE RowGood(snap'[p][r]) /\ Same(snap[p][r], r)'
  BY <1>6, NoRemGood, RemRev DEF Same, RowGood
<1>10. ListOK(p)'
  BY <1>6, <1>9 DEF ListOK
<1> QED
  BY <1>4, <1>5, <1>6, <1>7, <1>8, <1>10 DEF CallMoves, CallOK

LEMMA GotoFrame ==
  ASSUME TypeOK, NEW p \in Procs, NEW label \in Pcs, Goto(p, label), NEW a \in Nat,
         arg' = Set(arg, p, a), UNCHANGED <<op, cur, copy, todo, snap, bad>>
  PROVE  /\ LocalsOK' /\ pc'[p] = label /\ arg'[p] = a
         /\ \A q \in Procs \ {p} : SameCall(q)
BY DEF TypeOK, LocalsOK, Goto, Set, SameCall

LEMMA GotoLocals ==
  ASSUME TypeOK, NEW p \in Procs, UNCHANGED locals
  PROVE  arg' = Set(arg, p, arg[p]) /\ UNCHANGED <<op, cur, copy, todo, snap, bad>>
BY DEF TypeOK, locals, Set

\* A call that goes on with the row it holds.
LEMMA KeptMoves ==
  ASSUME TypeOK, RemStep, NEW p \in Procs, CallOK(p), pc[p] \in Holders,
         NEW label \in Holders, Goto(p, label), pc[p] \in Repairing => label \in Repairing,
         NEW a \in Nat, arg' = Set(arg, p, a), UNCHANGED <<op, cur, copy, todo, snap, bad>>,
         OpGood(label, op[p]), ArgGood(label, a)
  PROVE  CallMoves(p)
<1>1. label \in Pcs
  BY DEF Holders, Repairing, Pcs
<1>2. /\ LocalsOK' /\ pc'[p] = label /\ arg'[p] = a
      /\ \A q \in Procs \ {p} : SameCall(q)
  BY <1>1, GotoFrame
<1>3. ListOK(p)'
  BY ListKept DEF CallOK
<1>4. ControlOK(p)'
  BY <1>2 DEF ControlOK
<1>5. copy[p] \in RemRow /\ cur[p] \in Reminders
  BY HeldTypes
<1>6. Same(copy[p], cur[p])'
  BY <1>5, SameKept DEF CallOK, HeldOK, Same
<1>7. rems'[cur[p]].st # "none"
  BY <1>5, HeldInstant DEF RemStep, Older
<1>8. HeldOK(p)'
  BY <1>2, <1>6, <1>7 DEF CallOK, HeldOK, RowGood, FreePcs, Holders, Repairing
<1> QED
  BY <1>2, <1>3, <1>4, <1>8 DEF CallMoves, CallOK
\* A call that goes on to a transaction for which it needs no copy.
LEMMA LooseMoves ==
  ASSUME TypeOK, RemStep, NEW p \in Procs, CallOK(p),
         NEW label \in Pcs \ (Holders \cup {"insert", "revive"}), Goto(p, label),
         UNCHANGED <<op, arg, cur>>, copy' = copy \/ copy' = Set(copy, p, NoRem),
         todo' = todo, snap' = snap, bad' \in [Procs -> BOOLEAN],
         OpGood(label, op[p]), ArgGood(label, arg[p]),
         label \notin FreePcs => rems[cur[p]].st # "none"
  PROVE  CallMoves(p)
<1>1. LocalsOK /\ RowGood(copy[p]) /\ cur[p] \in Reminders
  BY DEF TypeOK, LocalsOK, CallOK, HeldOK
<1>2. copy' \in [Procs -> RemRow] /\ RowGood(copy'[p])
      /\ \A q \in Procs \ {p} : copy'[q] = copy[q]
  BY <1>1, NoRemGood DEF Set, LocalsOK
<1>3. /\ pc' \in [Procs -> Pcs] /\ pc'[p] = label
      /\ \A q \in Procs \ {p} : pc'[q] = pc[q]
  BY <1>1 DEF LocalsOK, Goto
<1>4. LocalsOK' /\ \A q \in Procs \ {p} : SameCall(q)
  BY <1>1, <1>2, <1>3 DEF LocalsOK, SameCall
<1>5. ListOK(p)'
  BY ListKept DEF CallOK
<1>6. ControlOK(p)'
  BY <1>3 DEF ControlOK
<1>7. rems[cur[p]].st # "none" => rems'[cur[p]].st # "none"
  BY <1>1 DEF RemStep, Older
<1>8. HeldOK(p)'
  BY <1>2, <1>3, <1>7 DEF HeldOK, RowGood
<1> QED
  BY <1>3, <1>4, <1>5, <1>6, <1>8 DEF CallMoves, CallOK

\* A call that takes the row of the table.
LEMMA FreshMoves ==
  ASSUME TypeOK, RemStep, NEW p \in Procs, CallOK(p), NEW label \in Holders, NEW row \in RemRow,
         Holding(p, label, row), row.rev = rems'[cur[p]].rev, row.st = rems'[cur[p]].st,
         row.at = rems'[cur[p]].at, row.st \notin {"none", "triggered", "cancelled"},
         OpGood(label, op[p]), ArgGood(label, arg[p])
  PROVE  CallMoves(p)
<1>1. LocalsOK /\ cur[p] \in Reminders /\ label \in Pcs
  BY DEF TypeOK, LocalsOK, Holders, Repairing, Pcs
<1>2. /\ pc' = [pc EXCEPT ![p] = label] /\ copy' = [copy EXCEPT ![p] = row]
      /\ UNCHANGED <<op, cur, arg, todo, snap, bad>>
  BY DEF Holding, Goto, Set
<1>3. LocalsOK' /\ pc'[p] = label /\ copy'[p] = row
  BY <1>1, <1>2 DEF LocalsOK
<1>4. \A q \in Procs \ {p} : SameCall(q)
  BY <1>1, <1>2 DEF LocalsOK, SameCall
<1>5. ListOK(p)'
  BY <1>2, ListKept DEF CallOK
<1>6. ControlOK(p)'
  BY <1>2, <1>3 DEF ControlOK
<1>7. RowGood(row) /\ row.rev \in Nat
  BY <1>1, RemRev DEF RowGood
<1>8. HeldOK(p)'
  BY <1>2, <1>3, <1>7 DEF HeldOK, RowGood, FreePcs, Same, Holders, Repairing
<1> QED
  BY <1>2, <1>3, <1>4, <1>5, <1>6, <1>8 DEF CallMoves, CallOK

\* A bridge operation returns.
LEMMA ReturnMoves ==
  ASSUME TypeOK, RemStep, NEW p \in Procs, CallOK(p), rems[cur[p]].st # "none",
         pc[p] \notin CreatePcs, NEW ok \in BOOLEAN, Return(p, ok)
  PROVE  CallMoves(p)
<1>1. CASE op[p] \in {"complete", "cancel_task", "reconcile"}
  <2> DEFINE label == IF ok \/ op[p] = "reconcile" THEN "next" ELSE "regain"
  <2>1. /\ Goto(p, label) /\ copy' = Set(copy, p, NoRem) /\ bad' = Set(bad, p, bad[p] \/ ~ok)
        /\ UNCHANGED <<op, cur, arg, todo, snap>>
    BY <1>1 DEF Return
  <2>2. label \in Pcs \ (Holders \cup {"insert", "revive"})
    BY DEF Pcs, Holders, Repairing
  <2>3. bad \in [Procs -> BOOLEAN]
    BY DEF TypeOK
  <2>4. bad' \in [Procs -> BOOLEAN]
    BY <2>1, <2>3 DEF Set
  <2>5. OpGood(label, op[p]) /\ ArgGood(label, arg[p])
    BY <1>1 DEF OpGood, ArgGood, CreatePcs
  <2> HIDE DEF label
  <2> QED
    BY <2>1, <2>2, <2>4, <2>5, LooseMoves
<1>2. CASE op[p] \notin {"complete", "cancel_task", "reconcile"}
  BY <1>2, ClearMoves DEF Return
<1> QED
  BY <1>1, <1>2
LEMMA Written ==
  ASSUME TypeOK, NEW p \in Procs, NEW row, rems' = [rems EXCEPT ![cur[p]] = row]
  PROVE  rems'[cur[p]] = row
BY DEF TypeOK

\* The control of a call that holds its row, and of its next transaction.
LEMMA HeldControl ==
  ASSUME NEW p \in Procs, CallOK(p)
  PROVE  /\ pc[p] \in CreatePcs => op[p] = "create"
         /\ pc[p] \in Pcs \ (CreatePcs \cup {"absent", "down", "idle"})
              => op[p] \notin {"create", "none"}
BY DEF CallOK, ControlOK, OpGood

\* ReminderSchedulerBridge.create.
LEMMA CreateMoves ==
  ASSUME TypeOK, RemStep, NEW p \in Procs, CallOK(p),
         \/ CreateInsert(p) \/ CreateJob(p) \/ CreateMark(p) \/ CreateUndo(p) \/ CreateFail(p)
  PROVE  CallMoves(p)
<1>0. /\ pc[p] \in CreatePcs => op[p] = "create"
      /\ arg[p] \in Nat /\ cur[p] \in Reminders
  BY HeldControl, HeldTypes
<1>1. CASE CreateInsert(p)
  <2> DEFINE row == Rem("pending_schedule", arg[p], NoJob, "none", 1)
  <2>1. CASE rems' = [rems EXCEPT ![cur[p]] = row] /\ Holding(p, "newjob", row)
    <3>1. pc[p] = "insert" /\ arg[p] \in Keys
      BY <1>1 DEF CreateInsert, CallOK, ControlOK, ArgGood
    <3>2. rems'[cur[p]] = row
      BY <2>1, Written
    <3>3. row \in RemRow /\ row.st \notin {"none", "triggered", "cancelled"}
      BY <1>0, <3>2, RemRev DEF Rem
    <3>4. OpGood("newjob", op[p]) /\ ArgGood("newjob", arg[p]) /\ "newjob" \in Holders
      BY <1>0, <3>1 DEF OpGood, ArgGood, CreatePcs, Holders
    <3> HIDE DEF row
    <3> QED
      BY <2>1, <3>2, <3>3, <3>4, FreshMoves
  <2>2. CASE Clear(p, "idle")
    BY <2>2, ClearMoves
  <2> QED
    BY <1>1, <2>1, <2>2 DEF CreateInsert
<1>2. CASE CreateJob(p)
  <2>1. pc[p] = "newjob" /\ pc[p] \in Holders \ Repairing
    BY <1>2 DEF CreateJob, Holders, Repairing
  <2>2. \/ \E j \in Jobs : Goto(p, "schedule") /\ arg' = Set(arg, p, j)
        \/ Goto(p, "fail") /\ arg' = Set(arg, p, NoJob)
    BY <1>2 DEF CreateJob
  <2>3. UNCHANGED <<op, cur, copy, todo, snap, bad>>
    BY <1>2 DEF CreateJob
  <2>4. \A j \in Jobs : j \in Nat /\ ArgGood("schedule", j)
    BY SagaAssumption DEF ArgGood
  <2>5. NoJob \in Nat /\ ArgGood("fail", NoJob)
    BY DEF ArgGood, NoJob
  <2>6. OpGood("schedule", op[p]) /\ OpGood("fail", op[p]) /\ {"schedule", "fail"} \subseteq Holders
    BY <1>0, <2>1 DEF OpGood, CreatePcs, Holders
  <2> QED
    BY <2>1, <2>2, <2>3, <2>4, <2>5, <2>6, KeptMoves
<1>3. CASE CreateMark(p)
  <2>1. pc[p] = "schedule" /\ pc[p] \in Holders \ Repairing /\ arg[p] \in Jobs
    BY <1>3 DEF CreateMark, Holders, Repairing, CallOK, ControlOK, ArgGood
  <2>2. Clear(p, "idle") \/ (Goto(p, "undo") /\ UNCHANGED locals)
    BY <1>3 DEF CreateMark
  <2>3. ArgGood("undo", arg[p]) /\ OpGood("undo", op[p]) /\ "undo" \in Holders
    BY <1>0, <2>1 DEF ArgGood, OpGood, CreatePcs, Holders
  <2> QED
    BY <1>0, <2>1, <2>2, <2>3, ClearMoves, GotoLocals, KeptMoves
<1>4. CASE CreateUndo(p)
  <2>1. pc[p] = "undo" /\ pc[p] \in Holders \ Repairing /\ arg[p] \in Jobs
    BY <1>4 DEF CreateUndo, Holders, Repairing, CallOK, ControlOK, ArgGood
  <2>2. Goto(p, "fail") /\ UNCHANGED locals
    BY <1>4 DEF CreateUndo
  <2>3. ArgGood("fail", arg[p]) /\ OpGood("fail", op[p]) /\ "fail" \in Holders
    BY <1>0, <2>1 DEF ArgGood, OpGood, CreatePcs, Holders
  <2> QED
    BY <1>0, <2>1, <2>2, <2>3, GotoLocals, KeptMoves
<1>5. CASE CreateFail(p)
  BY <1>5, ClearMoves DEF CreateFail
<1> QED
  BY <1>1, <1>2, <1>3, <1>4, <1>5

\* ReminderSchedulerBridge.cancel.
LEMMA CancelMoves ==
  ASSUME TypeOK, RemStep, NEW p \in Procs, CallOK(p),
         \/ CancelGet(p) \/ CancelMark(p) \/ CancelTheJob(p) \/ CancelDone(p) \/ CancelFail(p)
  PROVE  CallMoves(p)
<1>1. /\ pc[p] \in {"get", "mark", "canceljob", "cancelled", "cancelfail"}
      /\ pc[p] \notin CreatePcs \cup FreePcs
  BY DEF CancelGet, CancelMark, CancelTheJob, CancelDone, CancelFail, CreatePcs, FreePcs
<1>2. rems[cur[p]].st # "none" /\ cur[p] \in Reminders /\ arg[p] \in Nat /\ copy[p] \in RemRow
  BY <1>1, HeldTypes DEF CallOK, HeldOK
<1>3. \A label \in {"mark", "canceljob", "cancelled", "cancelfail"} :
        label \in Holders /\ OpGood(label, op[p]) /\ ArgGood(label, arg[p])
  BY <1>1 DEF CallOK, ControlOK, OpGood, ArgGood, CreatePcs, Holders
<1>4. \A ok \in BOOLEAN : Return(p, ok) => CallMoves(p)
  BY <1>1, <1>2, ReturnMoves
<1>5. ASSUME pc[p] \in Holders \ Repairing,
             NEW label \in {"cancelled", "cancelfail"}, Goto(p, label), UNCHANGED locals
      PROVE  CallMoves(p)
  BY <1>2, <1>3, <1>5, GotoLocals, KeptMoves
<1>6. CASE CancelGet(p)
  <2>1. UNCHANGED rems
    BY <1>6 DEF CancelGet
  <2>2. rems[cur[p]] \in RemRow
    BY <1>2 DEF TypeOK
  <2>3. CASE rems[cur[p]].st \notin Settled /\ Holding(p, "mark", rems[cur[p]])
    BY <1>2, <1>3, <2>1, <2>2, <2>3, FreshMoves DEF Settled
  <2>4. CASE Return(p, rems[cur[p]].st = "cancelled")
    BY <1>4, <2>4
  <2> QED
    BY <1>6, <2>3, <2>4 DEF CancelGet
<1>7. CASE CancelMark(p)
  <2> DEFINE row == Moved(copy[p], "pending_cancel")
  <2>1. CASE Write(p, row) /\ Holding(p, "canceljob", row)
    <3>1. rems'[cur[p]] = row
      BY <2>1, Written DEF Write
    <3>2. row \in RemRow /\ row.st \notin {"none", "triggered", "cancelled"}
      BY <1>2, <3>1, RemRev DEF Moved, Rem
    <3> HIDE DEF row
    <3> QED
      BY <1>3, <2>1, <3>1, <3>2, FreshMoves
  <2>2. CASE Return(p, FALSE)
    BY <1>4, <2>2
  <2> QED
    BY <1>7, <2>1, <2>2 DEF CancelMark
<1>8. CASE CancelTheJob(p)
  <2>1. pc[p] \in Holders \ Repairing
    BY <1>8 DEF CancelTheJob, Holders, Repairing
  <2>2. UNCHANGED locals /\ (Goto(p, "cancelled") \/ Goto(p, "cancelfail"))
    BY <1>8 DEF CancelTheJob
  <2> QED
    BY <1>5, <2>1, <2>2
<1>9. CASE CancelDone(p)
  <2>1. pc[p] \in Holders \ Repairing
    BY <1>9 DEF CancelDone, Holders, Repairing
  <2>2. Return(p, TRUE) \/ (Goto(p, "cancelfail") /\ UNCHANGED locals)
    BY <1>9 DEF CancelDone
  <2> QED
    BY <1>4, <1>5, <2>1, <2>2
<1>10. CASE CancelFail(p)
  BY <1>4, <1>10 DEF CancelFail
<1> QED
  BY <1>6, <1>7, <1>8, <1>9, <1>10

\* The row a call holds is given another job.
LEMMA RejobbedMoves ==
  ASSUME TypeOK, RemStep, NEW p \in Procs, CallOK(p), pc[p] \in Holders \ Repairing,
         NEW label \in Holders, NEW i \in Jobs,
         Holding(p, label, Rem(copy[p].st, copy[p].at, i, copy[p].fail, copy[p].rev)),
         OpGood(label, op[p]), ArgGood(label, arg[p])
  PROVE  CallMoves(p)
<1> DEFINE row == Rem(copy[p].st, copy[p].at, i, copy[p].fail, copy[p].rev)
<1>1. LocalsOK /\ cur[p] \in Reminders /\ label \in Pcs /\ copy[p] \in RemRow
  BY DEF TypeOK, LocalsOK, Holders, Repairing, Pcs
<1>2. row \in RemRow /\ row.st = copy[p].st /\ row.at = copy[p].at /\ row.rev = copy[p].rev
  BY <1>1 DEF RemRow, Rem
<1>3. Holding(p, label, row)
  OBVIOUS
<1> HIDE DEF row
<1>4. /\ pc' = [pc EXCEPT ![p] = label] /\ copy' = [copy EXCEPT ![p] = row]
      /\ UNCHANGED <<op, cur, arg, todo, snap, bad>>
  BY <1>3 DEF Holding, Goto, Set
<1>5. LocalsOK' /\ pc'[p] = label /\ copy'[p] = row
  BY <1>1, <1>2, <1>4 DEF LocalsOK
<1>6. \A q \in Procs \ {p} : SameCall(q)
  BY <1>1, <1>4 DEF LocalsOK, SameCall
<1>7. ListOK(p)'
  BY <1>4, ListKept DEF CallOK
<1>8. ControlOK(p)'
  BY <1>4, <1>5 DEF ControlOK
<1>9. rems'[cur[p]].st # "none"
  BY <1>1, HeldInstant DEF RemStep, Older
<1>10. Same(copy[p], cur[p]) /\ copy[p].st \notin {"none", "triggered", "cancelled"}
       /\ RowGood(copy[p])
  BY DEF CallOK, HeldOK
<1>11. Same(copy[p], cur[p])'
  BY <1>1, <1>2, <1>4, <1>5, <1>10, SameKept DEF Same
<1>12. HeldOK(p)'
  BY <1>2, <1>4, <1>5, <1>9, <1>10, <1>11 DEF HeldOK, RowGood, FreePcs, Holders, Repairing
<1> QED
  BY <1>4, <1>5, <1>6, <1>7, <1>8, <1>12 DEF CallMoves, CallOK

\* ReminderSchedulerBridge.reschedule.
LEMMA RescheduleMoves ==
  ASSUME TypeOK, RemStep, NEW p \in Procs, CallOK(p),
         \/ RescheduleCheck(p) \/ Prepare(p) \/ MoveTheJob(p) \/ RescheduleDone(p)
         \/ RescheduleFail(p)
  PROVE  CallMoves(p)
<1>1. /\ pc[p] \in {"check", "prepare", "movejob", "moved", "movefail"}
      /\ pc[p] \notin CreatePcs \cup FreePcs
  BY DEF RescheduleCheck, Prepare, MoveTheJob, RescheduleDone, RescheduleFail, CreatePcs, FreePcs
<1>2. rems[cur[p]].st # "none" /\ cur[p] \in Reminders /\ arg[p] \in Nat /\ copy[p] \in RemRow
  BY <1>1, HeldTypes DEF CallOK, HeldOK
<1>3. \A label \in {"movejob", "moved", "movefail"} :
        label \in Holders /\ OpGood(label, op[p]) /\ ArgGood(label, arg[p])
  BY <1>1 DEF CallOK, ControlOK, OpGood, ArgGood, CreatePcs, Holders
<1>4. \A ok \in BOOLEAN : Return(p, ok) => CallMoves(p)
  BY <1>1, <1>2, ReturnMoves
<1>5. ASSUME pc[p] \in Holders \ Repairing,
             NEW label \in {"moved", "movefail"}, Goto(p, label), UNCHANGED locals
      PROVE  CallMoves(p)
  BY <1>2, <1>3, <1>5, GotoLocals, KeptMoves
<1>6. CASE RescheduleCheck(p)
  <2>1. Return(p, FALSE) \/ (Goto(p, "prepare") /\ UNCHANGED locals)
    BY <1>6 DEF RescheduleCheck
  <2>2. CASE Goto(p, "prepare") /\ UNCHANGED locals
    <3>1. pc[p] = "check" /\ "prepare" \in Pcs \ (Holders \cup {"insert", "revive"})
      BY <1>6 DEF RescheduleCheck, Pcs, Holders, Repairing
    <3>2. OpGood("prepare", op[p]) /\ ArgGood("prepare", arg[p])
      BY <3>1 DEF CallOK, ControlOK, OpGood, ArgGood, CreatePcs
    <3>3. UNCHANGED <<op, arg, cur, copy, todo, snap, bad>> /\ bad \in [Procs -> BOOLEAN]
      BY <2>2 DEF locals, TypeOK
    <3> QED
      BY <1>2, <2>2, <3>1, <3>2, <3>3, LooseMoves
  <2> QED
    BY <1>4, <2>1, <2>2
<1>7. CASE Prepare(p)
  <2> DEFINE row == Rem("pending_reschedule", arg[p], rems[cur[p]].job, "none",
                        rems[cur[p]].rev + 1)
  <2>1. CASE rems' = [rems EXCEPT ![cur[p]] = row] /\ Holding(p, "movejob", row)
    <3>1. rems'[cur[p]] = row
      BY <2>1, Written
    <3>2. row \in RemRow /\ row.st \notin {"none", "triggered", "cancelled"}
      BY <1>2, <3>1, RemRev DEF Rem
    <3> HIDE DEF row
    <3> QED
      BY <1>3, <2>1, <3>1, <3>2, FreshMoves
  <2>2. CASE Return(p, FALSE)
    BY <1>4, <2>2
  <2> QED
    BY <1>7, <2>1, <2>2 DEF Prepare
<1>8. CASE MoveTheJob(p)
  <2>1. pc[p] \in Holders \ Repairing /\ UNCHANGED rems
    BY <1>8 DEF MoveTheJob, Holders, Repairing
  <2>2. CASE UNCHANGED locals /\ (Goto(p, "moved") \/ Goto(p, "movefail"))
    BY <1>5, <2>1, <2>2
  <2>3. ASSUME NEW i \in Jobs,
               Holding(p, "moved", Rem(copy[p].st, copy[p].at, i, copy[p].fail, copy[p].rev))
        PROVE  CallMoves(p)
    BY <1>1, <1>2, <1>3, <1>8, <2>1, <2>3, RejobbedMoves
  <2> QED
    BY <1>8, <2>2, <2>3 DEF MoveTheJob
<1>9. CASE RescheduleDone(p)
  <2>1. pc[p] \in Holders \ Repairing
    BY <1>9 DEF RescheduleDone, Holders, Repairing
  <2>2. Return(p, TRUE) \/ (Goto(p, "movefail") /\ UNCHANGED locals)
    BY <1>9 DEF RescheduleDone
  <2> QED
    BY <1>4, <1>5, <2>1, <2>2
<1>10. CASE RescheduleFail(p)
  BY <1>4, <1>10 DEF RescheduleFail
<1> QED
  BY <1>6, <1>7, <1>8, <1>9, <1>10
\* A call that lists the reminders, or takes one from its list.
LEMMA FrameOf ==
  ASSUME TypeOK, NEW p \in Procs, NEW label \in Pcs, Goto(p, label),
         NEW o \in Ops, op' = Set(op, p, o), NEW r \in Reminders, cur' = Set(cur, p, r),
         NEW a \in Nat, arg' = Set(arg, p, a), NEW row \in RemRow, copy' = Set(copy, p, row),
         NEW list \in SUBSET Reminders, todo' = Set(todo, p, list),
         NEW rows \in [Reminders -> RemRow], snap' = Set(snap, p, rows),
         bad' \in [Procs -> BOOLEAN]
  PROVE  /\ LocalsOK' /\ \A q \in Procs \ {p} : SameCall(q)
         /\ pc'[p] = label /\ op'[p] = o /\ cur'[p] = r /\ arg'[p] = a /\ copy'[p] = row
         /\ todo'[p] = list /\ snap'[p] = rows
BY DEF TypeOK, LocalsOK, Goto, Set, SameCall

LEMMA Kept ==
  ASSUME TypeOK, NEW p \in Procs
  PROVE  /\ op = Set(op, p, op[p]) /\ cur = Set(cur, p, cur[p]) /\ arg = Set(arg, p, arg[p])
         /\ copy = Set(copy, p, copy[p]) /\ todo = Set(todo, p, todo[p])
         /\ snap = Set(snap, p, snap[p]) /\ bad \in [Procs -> BOOLEAN]
         /\ op[p] \in Ops /\ cur[p] \in Reminders /\ arg[p] \in Nat /\ copy[p] \in RemRow
         /\ todo[p] \in SUBSET Reminders /\ snap[p] \in [Reminders -> RemRow]
BY DEF TypeOK, Set

\* The whole table is read.
LEMMA Listing ==
  ASSUME TypeOK, RemInv, UNCHANGED rems, NEW p \in Procs, snap'[p] = rems,
         \A r \in todo'[p] : rems[r].st # "none"
  PROVE  ListOK(p)'
<1>1. \A r \in Reminders : RowGood(rems[r]) /\ rems[r].rev \in Nat
  BY DEF RemInv, TypeOK, RemRow
<1> QED
  BY <1>1 DEF ListOK, Same, RowGood

LEMMA TaskMoves ==
  ASSUME TypeOK, RemInv, RemStep, NEW p \in Procs, CallOK(p),
         \/ TaskWrite(p) \/ TaskList(p) \/ TakeNext(p) \/ Regain(p) \/ Evidence(p)
  PROVE  CallMoves(p)
<1>1. pc[p] \in {"task", "list", "next", "regain", "evidence"}
  BY DEF TaskWrite, TaskList, TakeNext, Regain, Evidence
<1>2. op[p] \notin {"none", "create"}
  BY <1>1 DEF CallOK, ControlOK, OpGood, CreatePcs
<1>3. \A label \in {"list", "next", "get"} :
        label \in Pcs \ (Holders \cup {"insert", "revive"}) /\ ArgGood(label, arg[p])
  BY DEF Pcs, Holders, Repairing, ArgGood
<1>4. OpGood("next", op[p]) /\ OpGood("get", op[p])
  BY <1>2 DEF OpGood, CreatePcs
<1>5. bad \in [Procs -> BOOLEAN]
  BY DEF TypeOK
<1>6. CASE TaskWrite(p)
  <2>1. CASE Goto(p, "list") /\ UNCHANGED locals
    <3>1. OpGood("list", op[p]) /\ "list" \in FreePcs
      BY <1>6 DEF TaskWrite, CallOK, ControlOK, OpGood, CreatePcs, FreePcs
    <3>2. UNCHANGED <<op, arg, cur, copy, todo, snap, bad>>
      BY <2>1 DEF locals
    <3> QED
      BY <1>3, <1>5, <2>1, <3>1, <3>2, LooseMoves
  <2>2. CASE Clear(p, "idle")
    BY <2>2, ClearMoves
  <2> QED
    BY <1>6, <2>1, <2>2 DEF TaskWrite
<1>7. CASE TaskList(p)
  <2> DEFINE list == Listed(TaskOf[cur[p]])
  <2>1. list \in SUBSET Reminders /\ \A r \in list : rems[r].st # "none"
    BY DEF Listed
  <2>2. /\ Goto(p, "next") /\ todo' = Set(todo, p, list) /\ snap' = Set(snap, p, rems)
        /\ UNCHANGED <<op, cur, arg, copy, bad, rems>>
    BY <1>7 DEF TaskList
  <2>3. rems \in [Reminders -> RemRow]
    BY DEF TypeOK
  <2> HIDE DEF list
  <2>4. /\ LocalsOK' /\ \A q \in Procs \ {p} : SameCall(q)
        /\ pc'[p] = "next" /\ op'[p] = op[p] /\ cur'[p] = cur[p] /\ arg'[p] = arg[p]
        /\ copy'[p] = copy[p] /\ todo'[p] = list /\ snap'[p] = rems
    BY <1>3, <2>1, <2>2, <2>3, FrameOf, Kept
  <2>5. ListOK(p)'
    BY <2>1, <2>2, <2>4, Listing
  <2>6. ControlOK(p)'
    BY <1>3, <1>4, <2>4 DEF ControlOK
  <2>7. HeldOK(p)'
    BY <2>4 DEF CallOK, HeldOK, RowGood, FreePcs, Holders, Repairing
  <2> QED
    BY <2>4, <2>5, <2>6, <2>7 DEF CallMoves, CallOK
<1>8. CASE TakeNext(p)
  <2>1. ASSUME NEW r \in todo[p], cur' = Set(cur, p, r), todo' = Set(todo, p, todo[p] \ {r}),
               Goto(p, "get"), UNCHANGED <<op, arg, copy, snap, bad>>
        PROVE  CallMoves(p)
    <3>1. r \in Reminders /\ rems[r].st # "none" /\ rems'[r].st # "none"
      BY DEF TypeOK, CallOK, ListOK, RemStep, Older
    <3>2. todo[p] \ {r} \in SUBSET Reminders /\ "get" \in Pcs
      BY Kept, <1>3
    <3> DEFINE rest == todo[p] \ {r}
    <3>3. /\ op' = Set(op, p, op[p]) /\ cur' = Set(cur, p, r) /\ arg' = Set(arg, p, arg[p])
          /\ copy' = Set(copy, p, copy[p]) /\ todo' = Set(todo, p, rest)
          /\ snap' = Set(snap, p, snap[p]) /\ bad' \in [Procs -> BOOLEAN]
      BY <2>1, Kept
    <3> HIDE DEF rest
    <3>4. /\ LocalsOK' /\ \A q \in Procs \ {p} : SameCall(q)
          /\ pc'[p] = "get" /\ op'[p] = op[p] /\ cur'[p] = r /\ arg'[p] = arg[p]
          /\ copy'[p] = copy[p] /\ todo'[p] = rest /\ snap'[p] = snap[p]
      <4>1. op[p] \in Ops /\ arg[p] \in Nat /\ copy[p] \in RemRow
            /\ rest \in SUBSET Reminders /\ snap[p] \in [Reminders -> RemRow]
        BY <3>2, Kept DEF rest
      <4> QED
        BY <2>1, <3>1, <3>2, <3>3, <4>1 DEF TypeOK, LocalsOK, Goto, Set, SameCall
    <3>5. /\ LocalsOK' /\ \A q \in Procs \ {p} : SameCall(q)
          /\ pc'[p] = "get" /\ op'[p] = op[p] /\ cur'[p] = r /\ arg'[p] = arg[p]
          /\ copy'[p] = copy[p] /\ todo'[p] = todo[p] \ {r} /\ snap'[p] = snap[p]
      BY <3>4 DEF rest
    <3>6. ListOK(p)'
      BY <3>5, ListKept DEF CallOK
    <3>7. ControlOK(p)'
      BY <1>3, <1>4, <3>5 DEF ControlOK
    <3>8. HeldOK(p)'
      BY <3>1, <3>5 DEF CallOK, HeldOK, RowGood, FreePcs, Holders, Repairing
    <3> QED
      BY <1>2, <3>5, <3>6, <3>7, <3>8 DEF CallMoves, CallOK
  <2>2. CASE Clear(p, "idle")
    BY <2>2, ClearMoves
  <2> QED
    BY <1>8, <2>1, <2>2 DEF TakeNext
<1>9. CASE Regain(p)
  <2>1. pc[p] = "regain" /\ UNCHANGED rems
    BY <1>9 DEF Regain
  <2>2. rems[cur[p]].st # "none" /\ rems[cur[p]] \in RemRow
    BY <2>1, HeldTypes DEF CallOK, HeldOK, FreePcs
  <2>3. CASE Goto(p, "next") /\ UNCHANGED locals
    <3>1. UNCHANGED <<op, arg, cur, copy, todo, snap, bad>> /\ "next" \in FreePcs
      BY <2>3 DEF locals, FreePcs
    <3> QED
      BY <1>3, <1>4, <1>5, <2>3, <3>1, LooseMoves
  <2>4. CASE rems[cur[p]].st \notin Settled /\ Holding(p, "evidence", rems[cur[p]])
    <3>1. OpGood("evidence", op[p]) /\ ArgGood("evidence", arg[p]) /\ "evidence" \in Holders
      BY <2>1 DEF CallOK, ControlOK, OpGood, ArgGood, CreatePcs, Holders
    <3> QED
      BY <2>1, <2>2, <2>4, <3>1, FreshMoves DEF Settled
  <2> QED
    BY <1>9, <2>3, <2>4 DEF Regain
<1>10. CASE Evidence(p)
  <2>1. /\ Goto(p, "next") /\ copy' = Set(copy, p, NoRem)
        /\ UNCHANGED <<op, cur, arg, todo, snap, bad>> /\ "next" \in FreePcs
    BY <1>10 DEF Evidence, Holding, FreePcs
  <2> QED
    BY <1>3, <1>4, <1>5, <2>1, LooseMoves
<1> QED
  BY <1>6, <1>7, <1>8, <1>9, <1>10
\* What reconcile goes on to with a row it has listed.
LEMMA RepairLabels ==
  ASSUME NEW row, NEW u
  PROVE  /\ Repair(row, u) \in {"get", "next", "ensure", "check", "drop", "revive"}
         /\ Repair(row, u) = "ensure" => row.st \notin {"none", "cancelled"}
         /\ Repair(row, u) = "revive" => row.st = "triggered"
BY DEF Repair, NeedsJob

LEMMA ItemMoves ==
  ASSUME TypeOK, RemInv, RemStep, NEW p \in Procs, CallOK(p), ReconcileItem(p)
  PROVE  CallMoves(p)
<1>1. op[p] = "reconcile" /\ op[p] \in Ops
  BY Kept DEF ReconcileItem
<1>2. PICK r \in todo[p] :
        /\ cur' = Set(cur, p, r) /\ todo' = Set(todo, p, todo[p] \ {r})
        /\ copy' = Set(copy, p, snap[p][r]) /\ arg' = Set(arg, p, snap[p][r].at)
        /\ \/ Goto(p, Repair(snap[p][r], TaskOf[r])) /\ UNCHANGED bad
           \/ Goto(p, "next") /\ bad' = Set(bad, p, TRUE)
  BY DEF ReconcileItem
<1>3. UNCHANGED <<op, snap>>
  BY DEF ReconcileItem
<1> DEFINE row == snap[p][r]
           rest == todo[p] \ {r}
<1>4. /\ r \in Reminders /\ rems'[r].st # "none" /\ row \in RemRow /\ RowGood(row)
      /\ Same(row, r) /\ rest \in SUBSET Reminders /\ rest \subseteq todo[p]
  BY DEF TypeOK, CallOK, ListOK, RemStep, Older
<1>5. row.at \in 0..MaxTime /\ row.at \in Nat
  BY <1>4, SagaAssumption DEF RemRow
<1>6. PICK label \in {"get", "next", "ensure", "check", "drop", "revive"} :
        /\ Goto(p, label)
        /\ label = "ensure" => row.st \notin {"none", "cancelled"}
        /\ label = "revive" => row.st = "triggered"
  BY <1>2, RepairLabels
<1>7. bad \in [Procs -> BOOLEAN]
  BY Kept
<1>8. bad' \in [Procs -> BOOLEAN]
  BY <1>2, <1>7 DEF Set
<1>9. /\ cur' = Set(cur, p, r) /\ todo' = Set(todo, p, rest)
      /\ copy' = Set(copy, p, row) /\ arg' = Set(arg, p, row.at)
  BY <1>2
<1>10. row.rev <= rems'[r].rev
       /\ (row.rev = rems'[r].rev => row.st = rems'[r].st /\ row.at = rems'[r].at)
  BY <1>4, SameKept
<1> HIDE DEF row, rest
<1>11. label \in Pcs
  BY DEF Pcs
<1>12. /\ LocalsOK' /\ \A q \in Procs \ {p} : SameCall(q)
       /\ pc'[p] = label /\ op'[p] = op[p] /\ cur'[p] = r /\ arg'[p] = row.at
       /\ copy'[p] = row /\ todo'[p] = rest /\ snap'[p] = snap[p]
  BY <1>3, <1>4, <1>5, <1>6, <1>8, <1>9, <1>11 DEF TypeOK, LocalsOK, Goto, Set, SameCall
<1>13. ListOK(p)'
  BY <1>4, <1>12, ListKept DEF CallOK
<1>14. ControlOK(p)'
  BY <1>1, <1>5, <1>12 DEF ControlOK, OpGood, ArgGood, CreatePcs
<1>15. HeldOK(p)'
  BY <1>4, <1>6, <1>10, <1>12 DEF HeldOK, RowGood, Same, FreePcs, Holders, Repairing
<1> QED
  BY <1>1, <1>12, <1>13, <1>14, <1>15 DEF CallMoves, CallOK

LEMMA ReconcileMoves ==
  ASSUME TypeOK, RemInv, RemStep, NEW p \in Procs, CallOK(p),
         \/ ReconcileItem(p) \/ ReconcileEnsure(p) \/ ReconcileMark(p) \/ ReconcileJob(p)
         \/ ReconcileEnd(p)
  PROVE  CallMoves(p)
<1>1. ASSUME pc[p] \in {"ensure", "ensured", "drop", "revive"}, NEW ok \in BOOLEAN, Return(p, ok)
      PROVE  CallMoves(p)
  <2>1. pc[p] \notin CreatePcs \cup FreePcs
    BY <1>1 DEF CreatePcs, FreePcs
  <2>2. rems[cur[p]].st # "none"
    BY <2>1 DEF CallOK, HeldOK
  <2> QED
    BY <1>1, <2>1, <2>2, ReturnMoves
<1>2. CASE ReconcileEnsure(p)
  <2>1. pc[p] = "ensure" /\ pc[p] \in Holders /\ "ensured" \in Holders \cap Repairing
    BY <1>2 DEF ReconcileEnsure, Holders, Repairing
  <2>2. ASSUME NEW i \in Jobs, Goto(p, "ensured"), arg' = Set(arg, p, i),
               UNCHANGED <<op, cur, copy, todo, snap, bad>>
        PROVE  CallMoves(p)
    <3>1. i \in Nat /\ ArgGood("ensured", i)
      BY SagaAssumption DEF ArgGood
    <3>2. OpGood("ensured", op[p])
      BY <2>1 DEF CallOK, ControlOK, OpGood, CreatePcs
    <3> QED
      BY <2>1, <2>2, <3>1, <3>2, KeptMoves
  <2>3. \/ Return(p, FALSE)
        \/ \E i \in Jobs : /\ Goto(p, "ensured") /\ arg' = Set(arg, p, i)
                           /\ UNCHANGED <<op, cur, copy, todo, snap, bad>>
    BY <1>2 DEF ReconcileEnsure, MoveJob, Movable, Rows
  <2> QED
    BY <1>1, <2>1, <2>2, <2>3
<1>3. CASE ReconcileMark(p)
  <2>1. pc[p] = "ensured" /\ (Return(p, TRUE) \/ Return(p, FALSE))
    BY <1>3 DEF ReconcileMark
  <2> QED
    BY <1>1, <2>1
<1>4. CASE ReconcileJob(p)
  <2>1. pc[p] \in {"drop", "revive"} /\ \E ok \in BOOLEAN : Return(p, ok)
    BY <1>4 DEF ReconcileJob
  <2> QED
    BY <1>1, <2>1
<1>5. CASE ReconcileEnd(p)
  BY <1>5, ClearMoves DEF ReconcileEnd
<1> QED
  BY <1>2, <1>3, <1>4, <1>5, ItemMoves
-----------------------------------------------------------------------------
(* Calls that begin, and processes that start and die *)

LEMMA BeginMoves ==
  ASSUME TypeOK, RemStep, UNCHANGED rems, NEW p \in Procs, CallOK(p), NEW o \in Ops,
         NEW label \in Pcs \ (Holders \cup {"revive"}), NEW r \in Reminders, NEW a \in Nat,
         Begin(p, o, label, r, a, NoRem), OpGood(label, o), ArgGood(label, a),
         label = "insert" => rems[r].st = "none",
         label \notin FreePcs => rems[r].st # "none"
  PROVE  /\ LocalsOK' /\ CallOK(p)' /\ \A q \in Procs \ {p} : SameCall(q)
         /\ op'[p] = o /\ cur'[p] = r
<1>1. /\ Goto(p, label) /\ op' = Set(op, p, o) /\ cur' = Set(cur, p, r) /\ arg' = Set(arg, p, a)
      /\ copy' = Set(copy, p, NoRem) /\ UNCHANGED <<todo, snap, bad>>
  BY DEF Begin
<1>2. /\ LocalsOK' /\ \A q \in Procs \ {p} : SameCall(q)
      /\ pc'[p] = label /\ op'[p] = o /\ cur'[p] = r /\ arg'[p] = a /\ copy'[p] = NoRem
  BY <1>1, NoRemGood DEF TypeOK, LocalsOK, Goto, Set, SameCall
<1>3. ListOK(p)'
  BY <1>1, ListKept DEF CallOK
<1>4. ControlOK(p)'
  BY <1>2 DEF ControlOK
<1>5. HeldOK(p)'
  BY <1>2, NoRemGood DEF HeldOK, RowGood
<1> QED
  BY <1>2, <1>3, <1>4, <1>5 DEF CallOK

\* create finds no other call that creates this reminder.
LEMMA CreatorOK ==
  ASSUME TypeOK, OneCreator, NEW p \in Procs, \A q \in Procs \ {p} : SameCall(q),
         op'[p] = "create" => \A q \in Procs \ {p} : op[q] = "create" => cur[q] # cur'[p]
  PROVE  OneCreator'
BY DEF OneCreator, SameCall

LEMMA NewCallMoves ==
  ASSUME TypeOK, RemInv, RemStep, NEW p \in Procs, CallOK(p), OneCreator, NEW r \in Reminders,
         NEW k \in Keys, NEW u \in Tasks, NEW o \in {"complete", "cancel_task"},
         CancelCall(p, r) \/ CreateRead(p, r, k) \/ RescheduleCall(p, r, k) \/ TaskCall(p, o, u)
  PROVE  /\ LocalsOK' /\ CallOK(p)' /\ \A q \in Procs \ {p} : SameCall(q)
         /\ OneCreator'
<1>1. \A l \in {"insert", "get", "check", "task", "list"} : l \in Pcs \ (Holders \cup {"revive"})
  BY DEF Pcs, Holders, Repairing
<1>2. k \in Nat /\ k \in 0..MaxTime /\ 0 \in Nat
  BY SagaAssumption
<1>3. CASE CancelCall(p, r)
  <2>1. /\ Begin(p, "cancel", "get", r, 0, NoRem) /\ UNCHANGED rems /\ rems[r].st # "none"
        /\ OpGood("get", "cancel") /\ ArgGood("get", 0) /\ "cancel" \in Ops
    BY <1>3 DEF CancelCall, OpGood, ArgGood, CreatePcs, Ops
  <2> QED
    BY <1>1, <1>2, <2>1, BeginMoves, CreatorOK
<1>4. CASE CreateRead(p, r, k)
  <2>1. /\ Begin(p, "create", "insert", r, k, NoRem) /\ UNCHANGED rems /\ rems[r].st = "none"
        /\ OpGood("insert", "create") /\ ArgGood("insert", k) /\ "create" \in Ops
        /\ "insert" \in FreePcs
    BY <1>4 DEF CreateRead, OpGood, ArgGood, CreatePcs, Ops, FreePcs
  <2>2. \A q \in Procs : op[q] = "create" => cur[q] # r
    BY <1>4 DEF CreateRead
  <2> QED
    BY <1>1, <1>2, <2>1, <2>2, BeginMoves, CreatorOK
<1>5. CASE RescheduleCall(p, r, k)
  <2>1. /\ Begin(p, "reschedule", "check", r, k, NoRem) /\ UNCHANGED rems /\ rems[r].st # "none"
        /\ OpGood("check", "reschedule") /\ ArgGood("check", k) /\ "reschedule" \in Ops
    BY <1>2, <1>5 DEF RescheduleCall, OpGood, ArgGood, CreatePcs, Ops
  <2> QED
    BY <1>1, <1>2, <2>1, BeginMoves, CreatorOK
<1>6. CASE TaskCall(p, o, u)
  <2> DEFINE any == CHOOSE i \in Reminders : TaskOf[i] = u
  <2>1. any \in Reminders
    BY SagaAssumption
  <2>2. tasks[u].rev \in 1..(MaxTaskRev + 1) /\ tasks[u].rev <= MaxTaskRev /\ MaxTaskRev \in Nat
    BY <1>6, SagaAssumption DEF TaskCall, TypeOK, TaskRow
  <2>3. tasks[u].rev \in Nat /\ tasks[u].rev \in 1..MaxTaskRev
    BY <2>2
  <2>4. UNCHANGED rems /\ \E l \in {"task", "list"} : Begin(p, o, l, any, tasks[u].rev, NoRem)
    BY <1>6 DEF TaskCall
  <2> HIDE DEF any
  <2>5. \A l \in {"task", "list"} :
          OpGood(l, o) /\ ArgGood(l, tasks[u].rev) /\ o \in Ops /\ l \in FreePcs
    BY <2>3 DEF OpGood, ArgGood, CreatePcs, Ops, FreePcs
  <2>6. o # "create"
    OBVIOUS
  <2>7. PICK l \in {"task", "list"} : Begin(p, o, l, any, tasks[u].rev, NoRem)
    BY <2>4
  <2>8. l \in Pcs \ (Holders \cup {"revive"}) /\ l # "insert"
    BY <1>1
  <2>9. /\ LocalsOK' /\ CallOK(p)' /\ \A q \in Procs \ {p} : SameCall(q)
        /\ op'[p] = o
    BY <2>1, <2>3, <2>4, <2>5, <2>7, <2>8, BeginMoves
  <2> QED
    BY <2>6, <2>9, CreatorOK
<1> QED
  BY <1>3, <1>4, <1>5, <1>6

LEMMA RestartMoves ==
  ASSUME TypeOK, RemInv, RemStep, NEW p \in Procs, CallOK(p), Restart(p)
  PROVE  CallMoves(p)
<1> DEFINE list == {r \in Reminders : rems[r].st # "none"}
<1>1. /\ Goto(p, "next") /\ op' = Set(op, p, "reconcile") /\ snap' = Set(snap, p, rems)
      /\ todo' = Set(todo, p, list) /\ UNCHANGED <<cur, arg, copy, bad, rems>>
  BY DEF Restart
<1>2. list \in SUBSET Reminders /\ \A r \in list : rems[r].st # "none"
  OBVIOUS
<1>3. rems \in [Reminders -> RemRow]
  BY DEF TypeOK
<1> HIDE DEF list
<1>4. /\ LocalsOK' /\ \A q \in Procs \ {p} : SameCall(q)
      /\ pc'[p] = "next" /\ op'[p] = "reconcile" /\ copy'[p] = copy[p]
      /\ todo'[p] = list /\ snap'[p] = rems
  BY <1>1, <1>2, <1>3 DEF TypeOK, LocalsOK, Goto, Set, SameCall, Pcs, Ops
<1>5. ListOK(p)'
  BY <1>1, <1>2, <1>4, Listing
<1>6. ControlOK(p)'
  BY <1>4 DEF ControlOK, OpGood, ArgGood, CreatePcs
<1>7. HeldOK(p)'
  BY <1>4 DEF CallOK, HeldOK, RowGood, FreePcs, Holders, Repairing
<1> QED
  BY <1>4, <1>5, <1>6, <1>7 DEF CallMoves, CallOK

LEMMA CallStepMoves ==
  ASSUME TypeOK, RemInv, RemStep, NEW p \in Procs, CallOK(p), CallStep(p)
  PROVE  CallMoves(p)
BY CreateMoves, CancelMoves, RescheduleMoves, TaskMoves, ReconcileMoves DEF CallStep

\* A call writes the row of its own reminder, which is in the table unless the call
\* inserts it.
LEMMA CallWrites ==
  ASSUME TypeOK, NEW p \in Procs, CallOK(p), CallStep(p)
  PROVE  \/ UNCHANGED rems
         \/ /\ pc[p] = "insert" \/ rems[cur[p]].st # "none"
            /\ \A r \in Reminders \ {cur[p]} : rems'[r] = rems[r]
<1>1. \/ UNCHANGED rems
      \/ /\ pc[p] \notin FreePcs \/ pc[p] = "insert"
         /\ \E row : rems' = [rems EXCEPT ![cur[p]] = row]
  <2>1. CASE \/ CreateInsert(p) \/ CreateJob(p) \/ CreateMark(p) \/ CreateUndo(p)
             \/ CreateFail(p) \/ CancelGet(p) \/ CancelMark(p) \/ CancelTheJob(p)
    BY <2>1 DEF CreateInsert, CreateJob, CreateMark, CreateUndo, CreateFail, CancelGet,
       CancelMark, CancelTheJob, Write, NotWritten, FreePcs
  <2>2. CASE \/ CancelDone(p) \/ CancelFail(p) \/ RescheduleCheck(p) \/ Prepare(p)
             \/ MoveTheJob(p) \/ RescheduleDone(p) \/ RescheduleFail(p)
    BY <2>2 DEF CancelDone, CancelFail, RescheduleCheck, Prepare, MoveTheJob,
       RescheduleDone, RescheduleFail, Write, NotWritten, FreePcs
  <2>3. CASE \/ TaskWrite(p) \/ TaskList(p) \/ TakeNext(p) \/ Regain(p) \/ Evidence(p)
             \/ ReconcileItem(p) \/ ReconcileEnsure(p) \/ ReconcileMark(p)
             \/ ReconcileJob(p) \/ ReconcileEnd(p)
    BY <2>3 DEF TaskWrite, TaskList, TakeNext, Regain, Evidence, ReconcileItem,
       ReconcileEnsure, ReconcileMark, ReconcileJob, ReconcileEnd, Write, NotWritten, FreePcs
  <2> QED
    BY <2>1, <2>2, <2>3 DEF CallStep
<1>2. rems \in [Reminders -> RemRow]
  BY DEF TypeOK
<1>3. pc[p] \notin FreePcs => rems[cur[p]].st # "none"
  BY DEF CallOK, HeldOK
<1> QED
  BY <1>1, <1>2, <1>3
\* The handlers write no reminder that is not in the table.
LEMMA RunWrites ==
  ASSUME TypeOK, JobInv, NEW t \in 1..claims, RunStep(t)
  PROVE  \A r \in Reminders : rems[r].st = "none" => rems'[r] = rems[r]
<1> DEFINE x == jobs[runs[t].job].owner
<1>1. rems[x].st # "none"
  BY RunTypes
<1>2. UNCHANGED rems \/ \E row : rems' = [rems EXCEPT ![x] = row]
  BY DEF RunStep, Trigger, Recheck, Record, Finish
<1>3. rems \in [Reminders -> RemRow]
  BY DEF TypeOK
<1> HIDE DEF x
<1> QED
  BY <1>1, <1>2, <1>3

\* The calls after a step of one of them, given that no other loses its reminder.
LEMMA Together ==
  ASSUME SagaInv, RemStep, NEW p \in Procs,
         LocalsOK', CallOK(p)', \A q \in Procs \ {p} : SameCall(q),
         \A q \in Procs \ {p} : pc[q] = "insert" => rems'[cur[q]] = rems[cur[q]]
  PROVE  LocalsOK' /\ \A q \in Procs : CallOK(q)'
<1>1. ASSUME NEW q \in Procs, q # p PROVE CallOK(q)'
  BY <1>1, OtherCall DEF SagaInv
<1> QED
  BY <1>1

LEMMA Untouched ==
  ASSUME SagaInv, RemStep, UNCHANGED <<pc, locals>>,
         \A r \in Reminders : rems[r].st = "none" => rems'[r] = rems[r]
  PROVE  LocalsOK' /\ (\A q \in Procs : CallOK(q)') /\ OneCreator'
<1>1. LocalsOK'
  BY DEF SagaInv, TypeOK, LocalsOK, locals
<1>2. ASSUME NEW q \in Procs PROVE CallOK(q)'
  <2>1. TypeOK /\ CallOK(q) /\ SameCall(q) /\ cur[q] \in Reminders
    BY HeldTypes DEF SagaInv, SameCall, locals
  <2>2. pc[q] = "insert" => rems'[cur[q]] = rems[cur[q]]
    BY <2>1 DEF CallOK, HeldOK
  <2> QED
    BY <2>1, <2>2, OtherCall
<1>3. OneCreator'
  BY DEF SagaInv, OneCreator, locals
<1> QED
  BY <1>1, <1>2, <1>3

LEMMA CallsStep ==
  ASSUME SagaInv, RemStep, [Next]_vars
  PROVE  LocalsOK' /\ (\A q \in Procs : CallOK(q)') /\ OneCreator'
<1>1. /\ TypeOK /\ RemInv /\ JobInv /\ OneCreator
      /\ \A p \in Procs : CallOK(p)
  BY DEF SagaInv
<1>2. ASSUME NEW p \in Procs, CallMoves(p),
             \A q \in Procs \ {p} : pc[q] = "insert" => rems'[cur[q]] = rems[cur[q]]
      PROVE  LocalsOK' /\ (\A q \in Procs : CallOK(q)') /\ OneCreator'
  <2>1. LocalsOK' /\ CallOK(p)' /\ \A q \in Procs \ {p} : SameCall(q)
    BY <1>2 DEF CallMoves
  <2>2. OneCreator'
    BY <1>1, <1>2, <2>1 DEF CallMoves, OneCreator, SameCall
  <2> QED
    BY <1>2, <2>1, <2>2, Together
<1>3. ASSUME NEW p \in Procs, CallStep(p)
      PROVE  LocalsOK' /\ (\A q \in Procs : CallOK(q)') /\ OneCreator'
  <2>1. CallMoves(p)
    BY <1>1, <1>3, CallStepMoves
  <2>2. ASSUME NEW q \in Procs \ {p}, pc[q] = "insert" PROVE rems'[cur[q]] = rems[cur[q]]
    <3>1. rems[cur[q]].st = "none" /\ op[q] = "create" /\ cur[q] \in Reminders
      BY <1>1, <2>2, HeldTypes DEF CallOK, HeldOK, ControlOK, OpGood, CreatePcs
    <3>2. pc[p] = "insert" => op[p] = "create"
      BY <1>1 DEF CallOK, ControlOK, OpGood, CreatePcs
    <3>3. pc[p] = "insert" => cur[q] # cur[p]
      BY <1>1, <3>1, <3>2 DEF OneCreator
    <3> QED
      BY <1>1, <1>3, <3>1, <3>3, CallWrites
  <2> QED
    BY <1>2, <2>1, <2>2
<1>4. ASSUME NEW p \in Procs, NewCall(p)
      PROVE  LocalsOK' /\ (\A q \in Procs : CallOK(q)') /\ OneCreator'
  <2>1. UNCHANGED rems
    BY <1>4 DEF NewCall, CancelCall, CreateRead, RescheduleCall, TaskEdit, TaskCall, DeleteTheJob
  <2>2. CASE (\E u \in Tasks : TaskEdit(p, u)) \/ (\E j \in Jobs : DeleteTheJob(p, j))
    <3>1. UNCHANGED <<pc, locals>>
      BY <2>2 DEF TaskEdit, DeleteTheJob
    <3> QED
      BY <2>1, <3>1, Untouched
  <2>3. ASSUME NEW r \in Reminders, NEW k \in Keys, NEW u \in Tasks,
               NEW o \in {"complete", "cancel_task"},
               \/ CancelCall(p, r) \/ CreateRead(p, r, k) \/ RescheduleCall(p, r, k)
               \/ TaskCall(p, o, u)
        PROVE  LocalsOK' /\ (\A q \in Procs : CallOK(q)') /\ OneCreator'
    <3>1. /\ LocalsOK' /\ CallOK(p)' /\ \A q \in Procs \ {p} : SameCall(q)
          /\ OneCreator'
      BY <1>1, <2>3, NewCallMoves
    <3> QED
      BY <2>1, <3>1, Together
  <2>4. (\E r \in Reminders : TRUE) /\ (\E k \in Keys : TRUE)
    BY SagaAssumption
  <2>5. \/ \E u \in Tasks : TaskEdit(p, u)
        \/ \E j \in Jobs : DeleteTheJob(p, j)
        \/ \E r \in Reminders : CancelCall(p, r)
        \/ \E r \in Reminders, k \in Keys : CreateRead(p, r, k) \/ RescheduleCall(p, r, k)
        \/ \E u \in Tasks, o \in {"complete", "cancel_task"} : TaskCall(p, o, u)
    BY <1>4 DEF NewCall
  <2>6. \A r \in Reminders : TaskOf[r] \in Tasks
    BY SagaAssumption
  <2>7. ASSUME NEW r \in Reminders, CancelCall(p, r)
        PROVE  LocalsOK' /\ (\A q \in Procs : CallOK(q)') /\ OneCreator'
    BY <2>3, <2>4, <2>6, <2>7
  <2>8. ASSUME NEW r \in Reminders, NEW k \in Keys, CreateRead(p, r, k) \/ RescheduleCall(p, r, k)
        PROVE  LocalsOK' /\ (\A q \in Procs : CallOK(q)') /\ OneCreator'
    BY <2>3, <2>6, <2>8
  <2>9. ASSUME NEW u \in Tasks, NEW o \in {"complete", "cancel_task"}, TaskCall(p, o, u)
        PROVE  LocalsOK' /\ (\A q \in Procs : CallOK(q)') /\ OneCreator'
    BY <2>3, <2>4, <2>9
  <2> QED
    BY <2>2, <2>5, <2>7, <2>8, <2>9
<1>5. ASSUME NEW p \in Procs, Crash(p) \/ Restart(p)
      PROVE  LocalsOK' /\ (\A q \in Procs : CallOK(q)') /\ OneCreator'
  <2>1. UNCHANGED rems
    BY <1>5 DEF Crash, Restart
  <2>2. CallMoves(p)
    BY <1>1, <1>5, ClearMoves, RestartMoves DEF Crash
  <2> QED
    BY <1>2, <2>1, <2>2
<1>6. ASSUME NEW p \in Procs, SchedulerStep(p)
      PROVE  LocalsOK' /\ (\A q \in Procs : CallOK(q)') /\ OneCreator'
  <2>1. UNCHANGED <<rems, pc, locals>>
    BY <1>6 DEF SchedulerStep, TickClash, Release, Claim
  <2> QED
    BY <2>1, Untouched
<1>7. ASSUME NEW t \in 1..claims, RunStep(t)
      PROVE  LocalsOK' /\ (\A q \in Procs : CallOK(q)') /\ OneCreator'
  <2>1. UNCHANGED <<pc, locals>>
    BY <1>7 DEF RunStep, Trigger, Recheck, Record, Finish
  <2> QED
    BY <1>1, <1>7, <2>1, RunWrites, Untouched
<1>8. CASE Tick \/ UNCHANGED vars
  BY <1>8, Untouched DEF Tick, vars
<1> QED
  BY <1>3, <1>4, <1>5, <1>6, <1>7, <1>8 DEF Next
-----------------------------------------------------------------------------
(* The user tasks, the clock and the bounds *)

LEMMA TaskTypes ==
  ASSUME TypeOK, \A p \in Procs : CallOK(p), [Next]_vars
  PROVE  tasks' \in [Tasks -> TaskRow]
<1>1. tasks \in [Tasks -> TaskRow] /\ MaxTaskRev \in Nat
  BY SagaAssumption DEF TypeOK
<1>2. ASSUME NEW u \in Tasks, EditTask(u) \/ ReopenTask(u) PROVE tasks' \in [Tasks -> TaskRow]
  BY <1>1, <1>2 DEF EditTask, ReopenTask, WriteTask, TaskRow
<1>3. ASSUME NEW p \in Procs, TaskWrite(p) PROVE tasks' \in [Tasks -> TaskRow]
  <2> DEFINE u == TaskOf[cur[p]]
             copied == [st |-> "active", rev |-> arg[p]]
  <2>1. arg[p] \in 1..MaxTaskRev /\ op[p] \in {"complete", "cancel_task"}
    BY <1>3 DEF TaskWrite, CallOK, ControlOK, OpGood, ArgGood
  <2>2. Target[op[p]] \in Terminal
    BY <2>1 DEF Target, Terminal
  <2>3. WriteTask(u, copied, Target[op[p]]) \/ UNCHANGED tasks
    BY <1>3 DEF TaskWrite
  <2>4. u \in Tasks
    BY HeldTypes, SagaAssumption
  <2> HIDE DEF u
  <2>5. CASE WriteTask(u, copied, Target[op[p]])
    <3>1. tasks' = [tasks EXCEPT ![u] = [st |-> Target[op[p]], rev |-> arg[p] + 1]]
      BY <2>5 DEF WriteTask
    <3>2. [st |-> Target[op[p]], rev |-> arg[p] + 1] \in TaskRow
      BY <1>1, <2>1, <2>2 DEF TaskRow
    <3> QED
      BY <1>1, <2>4, <3>1, <3>2
  <2> QED
    BY <1>1, <2>3, <2>5
<1>4. ASSUME NEW p \in Procs, CallStep(p), ~TaskWrite(p) PROVE UNCHANGED tasks
  <2>1. CASE \/ CreateInsert(p) \/ CreateJob(p) \/ CreateMark(p) \/ CreateUndo(p)
             \/ CreateFail(p) \/ CancelGet(p) \/ CancelMark(p) \/ CancelTheJob(p)
             \/ CancelDone(p) \/ CancelFail(p) \/ RescheduleCheck(p) \/ Prepare(p)
    BY <2>1 DEF CreateInsert, CreateJob, CreateMark, CreateUndo, CreateFail, CancelGet,
       CancelMark, CancelTheJob, CancelDone, CancelFail, RescheduleCheck, Prepare
  <2>2. CASE \/ MoveTheJob(p) \/ RescheduleDone(p) \/ RescheduleFail(p)
             \/ TaskList(p) \/ TakeNext(p) \/ Regain(p) \/ Evidence(p)
             \/ ReconcileItem(p) \/ ReconcileEnsure(p) \/ ReconcileMark(p)
             \/ ReconcileJob(p) \/ ReconcileEnd(p)
    BY <2>2 DEF MoveTheJob, RescheduleDone, RescheduleFail, TaskList, TakeNext, Regain,
       Evidence, ReconcileItem, ReconcileEnsure, ReconcileMark, ReconcileJob, ReconcileEnd
  <2> QED
    BY <1>4, <2>1, <2>2 DEF CallStep
<1>5. ASSUME NEW p \in Procs, NewCall(p)
      PROVE  (\E u \in Tasks : EditTask(u) \/ ReopenTask(u)) \/ UNCHANGED tasks
  BY <1>5 DEF NewCall, CancelCall, CreateRead, RescheduleCall, TaskEdit, TaskCall, DeleteTheJob
<1>6. ASSUME NEW p \in Procs, SchedulerStep(p) \/ Crash(p) \/ Restart(p) PROVE UNCHANGED tasks
  BY <1>6 DEF SchedulerStep, TickClash, Release, Claim, Crash, Restart
<1>7. ASSUME NEW t \in 1..claims, RunStep(t) PROVE UNCHANGED tasks
  BY <1>7 DEF RunStep, Trigger, Recheck, Record, Finish
<1>8. CASE Tick \/ UNCHANGED vars
  BY <1>1, <1>8 DEF Tick, vars
<1> QED
  BY <1>1, <1>2, <1>3, <1>4, <1>5, <1>6, <1>7, <1>8 DEF Next

Counters == now \in 0..MaxTime /\ calls \in 0..MaxCalls /\ faults \in 0..MaxFaults

LEMMA FaultCount ==
  ASSUME Counters, Fault \/ UNCHANGED faults
  PROVE  faults' \in 0..MaxFaults
BY SagaAssumption DEF Counters, Fault

LEMMA CounterTypes ==
  ASSUME TypeOK, [Next]_vars
  PROVE  Counters'
<1>1. Counters
  BY DEF TypeOK, Counters
<1>2. ASSUME NEW p \in Procs, CallStep(p)
      PROVE  UNCHANGED <<now, calls>> /\ (Fault \/ UNCHANGED faults)
  <2>1. CASE CreateInsert(p) \/ CreateJob(p) \/ CreateMark(p) \/ CreateUndo(p) \/ CreateFail(p)
    BY <2>1 DEF CreateInsert, CreateJob, CreateMark, CreateUndo, CreateFail, NoNewJob,
       NotWritten, counts
  <2>2. CASE \/ CancelGet(p) \/ CancelMark(p) \/ CancelTheJob(p) \/ CancelDone(p)
             \/ CancelFail(p)
    BY <2>2 DEF CancelGet, CancelMark, CancelTheJob, CancelDone, CancelFail, NotWritten, counts
  <2>3. CASE \/ RescheduleCheck(p) \/ Prepare(p) \/ MoveTheJob(p) \/ RescheduleDone(p)
             \/ RescheduleFail(p)
    BY <2>3 DEF RescheduleCheck, Prepare, MoveTheJob, RescheduleDone, RescheduleFail,
       NoNewJob, NotWritten, counts
  <2>4. CASE TaskWrite(p) \/ TaskList(p) \/ TakeNext(p) \/ Regain(p) \/ Evidence(p)
    BY <2>4 DEF TaskWrite, TaskList, TakeNext, Regain, Evidence, NotWritten, counts
  <2>5. CASE \/ ReconcileItem(p) \/ ReconcileEnsure(p) \/ ReconcileMark(p)
             \/ ReconcileJob(p) \/ ReconcileEnd(p)
    BY <2>5 DEF ReconcileItem, ReconcileEnsure, ReconcileMark, ReconcileJob, ReconcileEnd,
       NoNewJob, NotWritten, counts
  <2> QED
    BY <1>2, <2>1, <2>2, <2>3, <2>4, <2>5 DEF CallStep
<1>3. ASSUME NEW p \in Procs, NewCall(p)
      PROVE  UNCHANGED <<now, faults>> /\ calls < MaxCalls /\ calls' = calls + 1
  BY <1>3 DEF NewCall, CancelCall, CreateRead, RescheduleCall, TaskEdit, TaskCall,
     DeleteTheJob, Begin
<1>4. ASSUME NEW p \in Procs, SchedulerStep(p) \/ Crash(p) \/ Restart(p)
      PROVE  UNCHANGED <<now, calls>> /\ (Fault \/ UNCHANGED faults)
  BY <1>4 DEF SchedulerStep, TickClash, Release, Claim, Crash, Restart, counts
<1>5. ASSUME NEW t \in 1..claims, RunStep(t)
      PROVE  UNCHANGED <<now, calls>> /\ (Fault \/ UNCHANGED faults)
  BY <1>5 DEF RunStep, Trigger, Recheck, Record, Finish, counts
<1>6. CASE UNCHANGED vars
  BY <1>1, <1>6 DEF vars, counts, Counters
<1>7. CASE Tick
  BY <1>1, <1>7, SagaAssumption DEF Tick, Counters
<1>8. ASSUME UNCHANGED <<now, calls>>, Fault \/ UNCHANGED faults PROVE Counters'
  BY <1>1, <1>8, FaultCount DEF Counters
<1>9. ASSUME UNCHANGED <<now, faults>>, calls < MaxCalls, calls' = calls + 1 PROVE Counters'
  BY <1>1, <1>9, SagaAssumption DEF Counters
<1> QED
  BY <1>2, <1>3, <1>4, <1>5, <1>6, <1>7, <1>8, <1>9 DEF Next

-----------------------------------------------------------------------------
(* The theorems *)

LEMMA SagaInit == Init => SagaInv
<1> SUFFICES ASSUME Init PROVE SagaInv
  OBVIOUS
<1> DEFINE some == CHOOSE r \in Reminders : TRUE
<1>1. some \in Reminders /\ 1 \in Keys /\ MaxTime \in Nat
  BY AnyReminder, SagaAssumption
<1>2. /\ jobs = [j \in Jobs |-> Row("absent", some, 1, 0, NoToken)]
      /\ cur = [p \in Procs |-> some]
      /\ rems = [r \in Reminders |-> NoRem]
      /\ occs = [r \in Reminders |-> [k \in Keys |-> "none"]]
      /\ known = [p \in Procs |-> {}] /\ runs = <<>> /\ claims = 0 /\ now = 0
      /\ op = [p \in Procs |-> "none"] /\ arg = [p \in Procs |-> 0]
      /\ copy = [p \in Procs |-> NoRem] /\ todo = [p \in Procs |-> {}]
      /\ snap = [p \in Procs |-> [r \in Reminders |-> NoRem]]
      /\ bad = [p \in Procs |-> FALSE] /\ pc \in [Procs -> {"idle", "down", "absent"}]
  BY DEF Init
<1>3. tasks \in [Tasks -> TaskRow]
  BY SagaAssumption DEF Init, TasksInit, TaskRow
<1>4. calls \in 0..MaxCalls /\ faults \in 0..MaxFaults
  BY SagaAssumption DEF Init
<1> HIDE DEF some
<1>5. Row("absent", some, 1, 0, NoToken) \in JobRow
  BY <1>1, NoToken0 DEF Row, JobRow
<1>6. runs \in [1..claims -> Run] /\ claims \in 0..MaxClaims
  BY <1>2, NoToken0
<1>7. TypeOK
  BY <1>1, <1>2, <1>3, <1>4, <1>5, <1>6, NoRemGood DEF TypeOK, Pcs, Ops
<1>8. RemInv
  BY <1>2, NoRemGood DEF RemInv, OneOccurrence
<1>9. JobInv
  BY <1>2 DEF JobInv, JobOK, Row, Waiting
<1>10. ASSUME NEW p \in Procs PROVE CallOK(p)
  <2>1. /\ pc[p] \in {"idle", "down", "absent"} /\ op[p] = "none" /\ arg[p] = 0
        /\ copy[p] = NoRem /\ todo[p] = {} /\ snap[p] = rems
    BY <1>2
  <2>2. ControlOK(p)
    BY <2>1 DEF ControlOK, OpGood, ArgGood, CreatePcs
  <2>3. HeldOK(p)
    BY <2>1, NoRemGood DEF HeldOK, FreePcs, Holders, Repairing
  <2>4. ListOK(p)
    BY <1>2, <2>1, NoRemGood DEF ListOK, Same
  <2> QED
    BY <2>2, <2>3, <2>4 DEF CallOK
<1>11. OneCreator
  BY <1>2 DEF OneCreator
<1> QED
  BY <1>7, <1>8, <1>9, <1>10, <1>11 DEF SagaInv

LEMMA SagaStep == SagaInv /\ [Next]_vars => SagaInv' /\ SettledKept
<1> SUFFICES ASSUME SagaInv, [Next]_vars PROVE SagaInv' /\ SettledKept
  OBVIOUS
<1>1. RemStep
  BY RemsStep
<1>2. JobsStep /\ RunsStep
  BY JobsAndRuns
<1>3. LocalsOK' /\ (\A p \in Procs : CallOK(p)') /\ OneCreator'
  BY <1>1, CallsStep
<1>4. tasks' \in [Tasks -> TaskRow] /\ Counters'
  BY TaskTypes, CounterTypes DEF SagaInv
<1>5. TypeOK'
  BY <1>1, <1>2, <1>3, <1>4 DEF TypeOK, RemStep, JobsStep, RunsStep, LocalsOK, Counters
<1>6. JobInv'
  BY <1>1, <1>2, JobInvStep DEF SagaInv
<1> QED
  BY <1>1, <1>3, <1>5, <1>6 DEF SagaInv, RemStep

\* For any number of processes, reminders and faults: every variable stays in its
\* type, the revisions and the bounded retries of the jobs among them.
THEOREM SagaTypeCorrect == Spec => []TypeOK
<1>1. SagaInv => TypeOK
  BY DEF SagaInv
<1> QED
  BY <1>1, SagaInit, SagaStep, PTL DEF Spec

\* A reminder is triggered exactly when it has a triggered occurrence, this is the
\* only one, and it is the one it was set to, whatever crashes, fails or is repaired.
THEOREM TriggeredOnce == Spec => []OneOccurrence
<1>1. SagaInv => OneOccurrence
  BY DEF SagaInv, RemInv
<1> QED
  BY <1>1, SagaInit, SagaStep, PTL DEF Spec

\* No stale copy, late failure or repair takes a reminder out of a settled state.
THEOREM SettledStays == Spec => SettledIsFinal
<1>1. SagaInv /\ [Next]_vars
        => [\A r \in Reminders : rems[r].st \in Settled => rems'[r].st = rems[r].st]_vars
  BY SagaStep DEF SettledKept
<1> QED
  BY <1>1, SagaInit, SagaStep, PTL DEF Spec, SettledIsFinal

-----------------------------------------------------------------------------
(***************************************************************************)
(* The only process                                                         *)
(*                                                                          *)
(* While one process uses the databases, a scheduled reminder has its job.  *)
(* The call it is making is the only one that writes reminders or jobs, so  *)
(* the row and the job it has in hand are those of the tables up to what it *)
(* has written itself (CallHas), the list its reconciliation works from is  *)
(* the table (ListHas), and so is its registry (NamesKnown).  The scheduler *)
(* interferes only between calls.                                           *)
(***************************************************************************)

\* Job j, if it is one, bears the name of r; it is set to k, unless it was deleted.
Belongs(j, r) == j \in Jobs => jobs[j].st # "absent" /\ jobs[j].owner = r
SetTo(j, k) == j \in Jobs /\ (j \in Rows => jobs[j].key = k)

TablesAgree ==
  \A r \in Reminders :
    /\ Belongs(rems[r].job, r)
    /\ rems[r].st = "scheduled" => SetTo(rems[r].job, rems[r].at)

\* The registry of p is the table.
NamesKnown(p) == UniqueNames /\ (pc[p] # "down" => known[p] = Rows)

CallHas(p) ==
  /\ pc[p] \in Holders \cup {"drop", "revive"} => Belongs(copy[p].job, cur[p])
  /\ pc[p] \in {"schedule", "undo", "fail", "ensured"} => Belongs(arg[p], cur[p])
  /\ pc[p] = "newjob" => arg[p] = copy[p].at
  /\ pc[p] \in {"schedule", "ensured"} => SetTo(arg[p], copy[p].at)
  /\ pc[p] = "moved" => SetTo(copy[p].job, copy[p].at)
  /\ pc[p] \in {"ensure", "revive", "movejob"} => copy[p].at = rems[cur[p]].at

ListHas(p) ==
  op[p] = "reconcile" =>
    \A r \in todo[p] : snap[p][r] = rems[r] /\ (pc[p] # "next" => cur[p] # r)

\* p is the process that is there.
Lone(p) == pc[p] # "absent" /\ \A q \in Procs : q # p => pc[q] = "absent"

LoneInv ==
  \A p \in Procs : Lone(p) => TablesAgree /\ NamesKnown(p) /\ CallHas(p) /\ ListHas(p)

-----------------------------------------------------------------------------
(* Who is there *)

LEMMA AloneIsLone == Alone => \E p \in Procs : Lone(p)
<1> DEFINE S == {p \in Procs : pc[p] # "absent"}
<1> SUFFICES ASSUME Alone PROVE \E p \in Procs : Lone(p)
  OBVIOUS
<1>1. IsFiniteSet(S)
  BY SagaAssumption, FS_Subset
<1>2. Cardinality(S) = 1
  BY DEF Alone
<1>3. \E x : S = {x}
  BY <1>1, <1>2, FS_Singleton
<1> QED
  BY <1>3 DEF Lone

\* Where a call is after a step.
LEMMA Labels ==
  ASSUME NEW p \in Procs
  PROVE  /\ \A l, row : Holding(p, l, row) => Goto(p, l)
         /\ \A l : Clear(p, l) => Goto(p, l)
         /\ \A ok \in BOOLEAN :
              Return(p, ok) => Goto(p, "next") \/ Goto(p, "regain") \/ Goto(p, "idle")
<1>1. \A l, row : Holding(p, l, row) => Goto(p, l)
  BY DEF Holding
<1>2. \A l : Clear(p, l) => Goto(p, l)
  BY DEF Clear
<1>3. ASSUME NEW ok \in BOOLEAN, Return(p, ok)
      PROVE  Goto(p, "next") \/ Goto(p, "regain") \/ Goto(p, "idle")
  BY <1>2, <1>3 DEF Return
<1> QED
  BY <1>1, <1>2, <1>3

\* A call goes on or ends; it has begun before.
Here == Pcs \ {"absent", "down"}
Goes(p) == pc[p] \in Here /\ \E l \in Here : Goto(p, l)

LEMMA GoesOn ==
  ASSUME TypeOK, NEW p \in Procs, CallStep(p)
  PROVE  Goes(p) /\ pc[p] # "idle"
<1>0. {"idle", "next", "regain"} \subseteq Here
  BY DEF Here, Pcs
<1>1. CASE CreateInsert(p) \/ CreateJob(p) \/ CreateMark(p) \/ CreateUndo(p) \/ CreateFail(p)
  BY <1>1, Labels
     DEF CreateInsert, CreateJob, CreateMark, CreateUndo, CreateFail, Goes, Here, Pcs
<1>2. CASE CancelGet(p) \/ CancelMark(p) \/ CancelDone(p) \/ CancelFail(p)
  BY <1>2, Labels DEF CancelGet, CancelMark, CancelDone, CancelFail, Goes, Here, Pcs
<1>3. CASE CancelTheJob(p)
  BY <1>3, Labels DEF CancelTheJob, Goes, Here, Pcs
<1>4. CASE RescheduleCheck(p) \/ Prepare(p) \/ RescheduleDone(p) \/ RescheduleFail(p)
  BY <1>4, Labels DEF RescheduleCheck, Prepare, RescheduleDone, RescheduleFail, Goes, Here, Pcs
<1>5. CASE MoveTheJob(p)
  BY <1>5, Labels DEF MoveTheJob, Goes, Here, Pcs
<1>6. CASE TaskWrite(p) \/ TaskList(p) \/ TakeNext(p) \/ Regain(p) \/ Evidence(p)
  BY <1>6, Labels DEF TaskWrite, TaskList, TakeNext, Regain, Evidence, Goes, Here, Pcs
<1>7. CASE ReconcileItem(p)
  <2>1. \A row, u : Repair(row, u) \in Here
    BY RepairLabels DEF Here, Pcs
  <2> QED
    BY <1>7, <2>1, Labels DEF ReconcileItem, Goes, Here, Pcs
<1>8. CASE ReconcileEnsure(p) \/ ReconcileMark(p) \/ ReconcileJob(p) \/ ReconcileEnd(p)
  BY <1>8, Labels
     DEF ReconcileEnsure, ReconcileMark, ReconcileJob, ReconcileEnd, Goes, Here, Pcs
<1> QED
  BY <1>1, <1>2, <1>3, <1>4, <1>5, <1>6, <1>7, <1>8 DEF CallStep

LEMMA NewCallBegins ==
  ASSUME TypeOK, NEW p \in Procs, NewCall(p)
  PROVE  pc[p] = "idle" /\ (pc' = pc \/ \E l \in Here : Goto(p, l))
<1> DEFINE Begun == pc[p] = "idle" /\ (pc' = pc \/ \E l \in Here : Goto(p, l))
<1>1. {"insert", "get", "check", "task", "list"} \subseteq Here
  BY DEF Here, Pcs
<1>2. ASSUME NEW o, NEW l \in Here, NEW r, NEW a, NEW row, Begin(p, o, l, r, a, row)
      PROVE  Begun
  BY <1>2 DEF Begin
<1> HIDE DEF Begun
<1>3. ASSUME NEW r \in Reminders, CancelCall(p, r) PROVE Begun
  BY <1>1, <1>2, <1>3 DEF CancelCall
<1>4. ASSUME NEW r \in Reminders, NEW k \in Keys, CreateRead(p, r, k) PROVE Begun
  BY <1>1, <1>2, <1>4 DEF CreateRead
<1>5. ASSUME NEW r \in Reminders, NEW k \in Keys, RescheduleCall(p, r, k) PROVE Begun
  BY <1>1, <1>2, <1>5 DEF RescheduleCall
<1>6. ASSUME NEW u \in Tasks, NEW o \in {"complete", "cancel_task"}, TaskCall(p, o, u)
      PROVE  Begun
  BY <1>1, <1>2, <1>6 DEF TaskCall
<1>7. ASSUME NEW u \in Tasks, TaskEdit(p, u) PROVE Begun
  BY <1>7 DEF TaskEdit, Begun
<1>8. ASSUME NEW j \in Jobs, DeleteTheJob(p, j) PROVE Begun
  BY <1>8 DEF DeleteTheJob, Begun
<1>9. Begun
  BY <1>3, <1>4, <1>5, <1>6, <1>7, <1>8 DEF NewCall
<1> QED
  BY <1>9 DEF Begun

\* What makes a step: a process that is there, a run of a process at rest, or time.
LEMMA WhoSteps ==
  ASSUME TypeOK, [Next]_vars
  PROVE  \/ \E p \in Procs : /\ \/ NewCall(p) \/ CallStep(p) \/ Crash(p) \/ Restart(p)
                                \/ pc[p] = "idle" /\ SchedulerStep(p) /\ pc' = pc
                             /\ pc[p] # "absent"
                             /\ pc' = pc \/ \E l \in Pcs \ {"absent"} : Goto(p, l)
         \/ /\ \E t \in 1..claims : RunStep(t) /\ runs[t].p \in Procs /\ pc[runs[t].p] = "idle"
            /\ pc' = pc
         \/ Tick /\ pc' = pc
         \/ UNCHANGED vars /\ pc' = pc
<1>0. Here \subseteq Pcs \ {"absent"} /\ {"down", "next"} \subseteq Pcs \ {"absent"}
  BY DEF Here, Pcs
<1>1. ASSUME NEW p \in Procs, NewCall(p)
      PROVE  pc[p] # "absent" /\ (pc' = pc \/ \E l \in Pcs \ {"absent"} : Goto(p, l))
  BY <1>0, <1>1, NewCallBegins
<1>2. ASSUME NEW p \in Procs, CallStep(p)
      PROVE  pc[p] # "absent" /\ \E l \in Pcs \ {"absent"} : Goto(p, l)
  BY <1>0, <1>2, GoesOn DEF Goes, Here
<1>3. ASSUME NEW p \in Procs, SchedulerStep(p) PROVE pc[p] = "idle" /\ pc' = pc
  BY <1>3 DEF SchedulerStep, TickClash, Release, Claim
<1>4. ASSUME NEW p \in Procs, Crash(p)
      PROVE  pc[p] # "absent" /\ \E l \in Pcs \ {"absent"} : Goto(p, l)
  BY <1>0, <1>4, Labels DEF Crash
<1>5. ASSUME NEW p \in Procs, Restart(p)
      PROVE  pc[p] # "absent" /\ \E l \in Pcs \ {"absent"} : Goto(p, l)
  BY <1>0, <1>5 DEF Restart
<1>6. ASSUME NEW t \in 1..claims, RunStep(t)
      PROVE  runs[t].p \in Procs /\ pc[runs[t].p] = "idle" /\ pc' = pc
  <2>1. runs[t].p \in Procs
    BY DEF TypeOK, Run
  <2> QED
    BY <1>6, <2>1 DEF RunStep, Trigger, Recheck, Record, Finish, At
<1>7. Tick \/ UNCHANGED vars => pc' = pc
  BY DEF Tick, vars
<1> QED
  BY <1>1, <1>2, <1>3, <1>4, <1>5, <1>6, <1>7 DEF Next

\* Nobody comes and nobody leaves.
LEMMA LoneBefore ==
  ASSUME TypeOK, [Next]_vars, NEW p \in Procs, Lone(p)'
  PROVE  Lone(p)
<1>1. \A q \in Procs : pc'[q] = "absent" <=> pc[q] = "absent"
  BY WhoSteps DEF Goto, TypeOK
<1> QED
  BY <1>1 DEF Lone

\* The only process makes every step.
LEMMA LoneSteps ==
  ASSUME TypeOK, [Next]_vars, NEW p \in Procs, Lone(p)
  PROVE  \/ NewCall(p) \/ CallStep(p) \/ Crash(p) \/ Restart(p)
         \/ pc[p] = "idle" /\ SchedulerStep(p)
         \/ pc[p] = "idle" /\ \E t \in 1..claims : RunStep(t)
         \/ Tick \/ UNCHANGED vars
BY WhoSteps DEF Lone

-----------------------------------------------------------------------------
(* The jobs and the registry of the only process *)

\* A job keeps its name, and all but j0 their instant.
Touches(j0) ==
  \A j \in Jobs :
    /\ jobs[j].st # "absent" => jobs'[j].st # "absent" /\ jobs'[j].owner = jobs[j].owner
    /\ j # j0 => jobs'[j].key = jobs[j].key /\ (Present(jobs'[j]) => Present(jobs[j]))

Registered(p) == UniqueNames /\ known[p] = Rows

LEMMA NoJobIsNone == NoJob \notin Jobs
BY SagaAssumption DEF NoJob

LEMMA BelongsOn ==
  ASSUME NEW j0, Touches(j0), NEW j, NEW r, Belongs(j, r)
  PROVE  Belongs(j, r)'
BY DEF Touches, Belongs

LEMMA SetOn ==
  ASSUME NEW j0, Touches(j0), NEW j, j # j0, NEW k, SetTo(j, k)
  PROVE  SetTo(j, k)'
BY DEF Touches, SetTo, Rows

LEMMA Untouching == ASSUME UNCHANGED jobs PROVE \A j0 : Touches(j0)
BY DEF Touches

\* A row goes on without a new instant.
LEMMA OneCalm ==
  ASSUME TypeOK, NEW j \in Rows, NEW row, jobs' = [jobs EXCEPT ![j] = row],
         row.owner = jobs[j].owner, row.key = jobs[j].key, Present(row), UniqueNames
  PROVE  Touches(NoJob) /\ Rows' = Rows /\ UniqueNames'
<1>1. /\ jobs'[j] = row /\ \A i \in Jobs : i # j => jobs'[i] = jobs[i]
      /\ j \in Jobs /\ Present(jobs[j])
  BY DEF TypeOK, Rows
<1>2. Touches(NoJob)
  BY <1>1 DEF Touches, Present
<1>3. Rows' = Rows
  BY <1>1 DEF Rows
<1>4. \A i \in Jobs : jobs'[i].owner = jobs[i].owner
  BY <1>1
<1>5. UniqueNames'
  BY <1>3, <1>4 DEF UniqueNames, Rows
<1> QED
  BY <1>2, <1>3, <1>5

LEMMA CalmRows ==
  ASSUME NEW row, Present(row)
  PROVE  \A new \in {CancelledRow(row), SucceededRow(row), AttemptFailedRow(row)} :
           new.owner = row.owner /\ new.key = row.key /\ Present(new)
BY DEF CancelledRow, To, SucceededRow, AttemptFailedRow, Row, Present

\* A refresh of a registry that is the table changes nothing.
LEMMA Refreshed ==
  ASSUME TypeOK, NEW p \in Procs, Registered(p)
  PROVE  ~Clash(p) /\ Synced(p) = [known EXCEPT ![p] = Rows] /\ Synced(p)[p] = Rows
<1>1. ~Clash(p)
  BY DEF Registered, Clash, Taken
<1> QED
  BY <1>1 DEF Synced, TypeOK

LEMMA Stops ==
  ASSUME TypeOK, NEW p \in Procs, Registered(p), NEW j, StopJob(p, j)
  PROVE  Touches(NoJob) /\ Registered(p)'
<1>1. j \in Rows /\ known' = Synced(p) /\ known'[p] = Rows /\ UniqueNames /\ Present(jobs[j])
  BY Refreshed DEF StopJob, Registered, Rows
<1>2. CASE jobs' = jobs
  BY <1>1, <1>2, Untouching DEF Registered, UniqueNames, Rows
<1>3. CASE jobs' = [jobs EXCEPT ![j] = CancelledRow(jobs[j])]
  <2>1. Touches(NoJob) /\ Rows' = Rows /\ UniqueNames'
    BY <1>1, <1>3, CalmRows, OneCalm
  <2> QED
    BY <1>1, <2>1 DEF Registered
<1> QED
  BY <1>2, <1>3 DEF StopJob

LEMMA Sets ==
  ASSUME TypeOK, NEW p \in Procs, Registered(p), NEW j, NEW k, MoveJob(p, j, k)
  PROVE  /\ Touches(j) /\ Registered(p)' /\ ~Clash(p)
         /\ SetTo(j, k)' /\ j \in Jobs /\ jobs[j].st # "absent"
<1> DEFINE row == RescheduledRow(jobs[j], k)
<1>1. /\ j \in Rows /\ known' = Synced(p) /\ known'[p] = Rows /\ UniqueNames /\ ~Clash(p)
      /\ jobs' = [jobs EXCEPT ![j] = row] /\ j \in Jobs /\ Present(jobs[j])
  BY Refreshed DEF MoveJob, Movable, Registered, Rows
<1>2. row.owner = jobs[j].owner /\ row.key = k /\ row.st = "active"
  BY DEF RescheduledRow, Row
<1> HIDE DEF row
<1>3. jobs'[j] = row /\ \A i \in Jobs : i # j => jobs'[i] = jobs[i]
  BY <1>1 DEF TypeOK
<1>4. Touches(j)
  BY <1>1, <1>2, <1>3 DEF Touches, Present
<1>5. Rows' = Rows
  BY <1>1, <1>2, <1>3 DEF Rows, Present
<1>6. \A i \in Jobs : jobs'[i].owner = jobs[i].owner
  BY <1>2, <1>3
<1>7. Registered(p)'
  BY <1>1, <1>5, <1>6 DEF Registered, UniqueNames, Rows
<1>8. SetTo(j, k)'
  BY <1>1, <1>2, <1>3 DEF SetTo
<1> QED
  BY <1>1, <1>4, <1>7, <1>8 DEF Present

\* A name that no job in the registry has is new.
LEMMA Makes ==
  ASSUME TypeOK, NEW p \in Procs, Registered(p), NEW r, NEW k, NEW j \in Jobs,
         NewJob(p, r, k, j)
  PROVE  /\ Touches(j) /\ Registered(p)'
         /\ Belongs(j, r)' /\ SetTo(j, k)' /\ jobs[j].st = "absent"
<1> DEFINE row == SavedRow(r, k)
<1>1. /\ jobs[j].st = "absent" /\ jobs' = [jobs EXCEPT ![j] = row]
      /\ known'[p] = known[p] \cup {j} /\ known[p] = Rows /\ UniqueNames
      /\ \A i \in Rows : jobs[i].owner # r
  BY DEF NewJob, Named, Registered, TypeOK
<1>2. row.owner = r /\ row.key = k /\ row.st = "active"
  BY DEF SavedRow, Row
<1> HIDE DEF row
<1>3. jobs'[j] = row /\ \A i \in Jobs : i # j => jobs'[i] = jobs[i]
  BY <1>1 DEF TypeOK
<1>4. Touches(j)
  BY <1>1, <1>3 DEF Touches
<1>5. Rows' = Rows \cup {j}
  BY <1>1, <1>2, <1>3 DEF Rows, Present
<1>6. j \notin Rows /\ \A i \in Rows : i \in Jobs /\ i # j /\ jobs'[i].owner = jobs[i].owner
  BY <1>1, <1>3 DEF Rows, Present
<1>7. Registered(p)'
  BY <1>1, <1>2, <1>3, <1>5, <1>6 DEF Registered, UniqueNames
<1>8. Belongs(j, r)' /\ SetTo(j, k)'
  BY <1>2, <1>3 DEF Belongs, SetTo
<1> QED
  BY <1>1, <1>4, <1>7, <1>8

\* The reminders and their jobs after a write of row to reminder r0.
LEMMA TablesWritten ==
  ASSUME TypeOK, TablesAgree, UNCHANGED jobs, NEW r0 \in Reminders, NEW row,
         rems' = [rems EXCEPT ![r0] = row], Belongs(row.job, r0),
         row.st = "scheduled" => SetTo(row.job, row.at)
  PROVE  TablesAgree'
<1>1. rems'[r0] = row /\ \A r \in Reminders : r # r0 => rems'[r] = rems[r]
  BY DEF TypeOK
<1>2. \A r \in Reminders : /\ Belongs(rems'[r].job, r)
                           /\ rems'[r].st = "scheduled" => SetTo(rems'[r].job, rems'[r].at)
  BY <1>1 DEF TablesAgree
<1>3. \A j, x : (Belongs(j, x)' <=> Belongs(j, x)) /\ (SetTo(j, x)' <=> SetTo(j, x))
  BY DEF Belongs, SetTo, Rows
<1> QED
  BY <1>2, <1>3 DEF TablesAgree, Belongs, SetTo, Rows

\* After a step of the job j0 of reminder r0.
LEMMA TablesTouched ==
  ASSUME TypeOK, TablesAgree, UNCHANGED rems, NEW j0, Touches(j0), NEW r0 \in Reminders,
         j0 \in Jobs => jobs[j0].st = "absent" \/ jobs[j0].owner = r0,
         j0 \in Jobs /\ jobs[j0].st # "absent" => SetTo(j0, rems[r0].at)'
  PROVE  TablesAgree'
<1> SUFFICES ASSUME NEW r \in Reminders
             PROVE  /\ Belongs(rems[r].job, r)'
                    /\ rems[r].st = "scheduled" => SetTo(rems[r].job, rems[r].at)'
  BY DEF TablesAgree
<1> DEFINE row == rems[r]
<1>1. /\ Belongs(rems[r].job, r)
      /\ rems[r].st = "scheduled" => SetTo(rems[r].job, rems[r].at)
  BY DEF TablesAgree
<1>2. PICK j, k : j = rems[r].job /\ k = rems[r].at
  OBVIOUS
<1>3. Belongs(j, r)'
  BY <1>1, <1>2, BelongsOn
<1>4. ASSUME rems[r].st = "scheduled" PROVE SetTo(j, k)'
  <2>1. CASE j # j0
    BY <1>1, <1>2, <1>4, <2>1, SetOn
  <2>2. CASE j = j0
    <3>1. j \in Jobs
      BY <1>1, <1>2, <1>4 DEF SetTo
    <3>2. r = r0
      BY <1>1, <1>2, <2>2, <3>1 DEF Belongs
    <3>3. SetTo(j0, rems[r0].at)'
      BY <1>1, <1>2, <2>2, <3>1 DEF Belongs
    <3> QED
      BY <1>2, <2>2, <3>2, <3>3 DEF SetTo, Rows
  <2> QED
    BY <2>1, <2>2
<1> QED
  BY <1>2, <1>3, <1>4 DEF Belongs, SetTo, Rows

-----------------------------------------------------------------------------
(* The call of the only process *)

LoneOK(p) == TablesAgree /\ NamesKnown(p) /\ CallHas(p) /\ ListHas(p)

\* At these the call has decided on nothing.
Quiet == {"absent", "down", "idle", "insert", "get", "check", "prepare",
          "task", "list", "next", "regain"}

\* A call that goes on with its list keeps it.
Onward(p) ==
  op'[p] = "reconcile" =>
    op[p] = "reconcile" /\ cur'[p] = cur[p] /\ todo'[p] = todo[p] /\ snap'[p] = snap[p]

LEMMA KeepsList ==
  ASSUME TypeOK, NEW p \in Procs
  PROVE  /\ \A l, row : Holding(p, l, row) => Onward(p)
         /\ \A l : Clear(p, l) => Onward(p)
         /\ \A ok : Return(p, ok) => Onward(p)
         /\ UNCHANGED <<op, cur, todo, snap>> => Onward(p)
<1>1. UNCHANGED <<op, cur, todo, snap>> => Onward(p)
  BY DEF Onward
<1>2. \A l, row : Holding(p, l, row) => Onward(p)
  BY <1>1 DEF Holding
<1>3. ASSUME NEW l, Clear(p, l) PROVE Onward(p)
  <2>1. op'[p] = "none"
    BY <1>3 DEF Clear, Set, TypeOK
  <2> QED
    BY <2>1 DEF Onward
<1>4. ASSUME NEW ok, Return(p, ok) PROVE Onward(p)
  BY <1>1, <1>3, <1>4 DEF Return
<1> QED
  BY <1>1, <1>2, <1>3, <1>4

LEMMA ListStays ==
  ASSUME NEW p \in Procs, ListHas(p), Onward(p), pc[p] # "next",
         \A r \in Reminders : r # cur[p] => rems'[r] = rems[r],
         todo[p] \subseteq Reminders
  PROVE  ListHas(p)'
<1> SUFFICES ASSUME op'[p] = "reconcile", NEW r \in todo'[p]
             PROVE  snap'[p][r] = rems'[r] /\ cur'[p] # r
  BY DEF ListHas
<1>1. /\ op[p] = "reconcile" /\ cur'[p] = cur[p] /\ snap'[p] = snap[p]
      /\ r \in todo[p] /\ r \in Reminders
  BY DEF Onward
<1>2. snap[p][r] = rems[r] /\ cur[p] # r
  BY <1>1 DEF ListHas
<1> QED
  BY <1>1, <1>2

\* A call that has decided on nothing, or returned, holds nothing.
LEMMA QuietCall == ASSUME NEW p \in Procs, pc'[p] \in Quiet PROVE CallHas(p)'
BY DEF Quiet, CallHas, Holders, Repairing

LEMMA QuietSteps ==
  ASSUME TypeOK, NEW p \in Procs
  PROVE  /\ \A l \in Quiet : Goto(p, l) => CallHas(p)'
         /\ \A l \in Quiet : Clear(p, l) => CallHas(p)'
         /\ \A row : \A l \in Quiet : Holding(p, l, row) => CallHas(p)'
         /\ \A ok \in BOOLEAN : Return(p, ok) => CallHas(p)'
<1>1. \A l \in Quiet : Goto(p, l) => CallHas(p)'
  BY QuietCall DEF Goto, TypeOK
<1>2. {"next", "regain", "idle"} \subseteq Quiet
  BY DEF Quiet
<1> QED
  BY <1>1, <1>2, Labels

\* It takes a row in hand.
LEMMA HoldingHas ==
  ASSUME TypeOK, NEW p \in Procs, NEW row, NEW l, Holding(p, l, row),
         l \in {"newjob", "mark", "canceljob", "movejob", "moved", "evidence"},
         NEW j, j = row.job, NEW k, k = row.at, NEW r, r = cur[p],
         Belongs(j, r)',
         l = "newjob" => arg[p] = k,
         l = "moved" => SetTo(j, k)',
         l = "movejob" => k = rems'[r].at
  PROVE  CallHas(p)'
<1>1. pc'[p] = l /\ copy'[p] = row /\ arg'[p] = arg[p] /\ cur'[p] = cur[p]
  BY DEF Holding, Goto, Set, TypeOK
<1>2. Belongs(copy[p].job, cur[p])'
  BY <1>1 DEF Belongs
<1>3. l = "moved" => SetTo(copy[p].job, copy[p].at)'
  BY <1>1 DEF SetTo, Rows
<1> QED
  BY <1>1, <1>2, <1>3 DEF CallHas

\* It goes on with the row in hand.
LEMMA GotoHas ==
  ASSUME TypeOK, NEW p \in Procs, CallHas(p), NEW l, Goto(p, l), UNCHANGED locals,
         NEW j0, Touches(j0), pc[p] \in Holders,
         \/ l \in {"cancelled", "cancelfail", "movefail"}
         \/ l \in {"undo", "fail"} /\ pc[p] \in {"schedule", "undo"}
         \/ l = "moved" /\ \A j, k : j = copy[p].job /\ k = copy[p].at => SetTo(j, k)'
  PROVE  CallHas(p)'
<1>1. /\ pc'[p] = l /\ copy'[p] = copy[p] /\ arg'[p] = arg[p] /\ cur'[p] = cur[p]
  BY DEF Goto, locals, TypeOK
<1>2. PICK j, i, r : j = copy[p].job /\ i = arg[p] /\ r = cur[p]
  OBVIOUS
<1>3. Belongs(j, r)'
  BY <1>2, BelongsOn DEF CallHas
<1>4. Belongs(copy[p].job, cur[p])'
  BY <1>1, <1>2, <1>3 DEF Belongs
<1>5. l \in {"undo", "fail"} => Belongs(i, r)'
  BY <1>2, BelongsOn DEF CallHas
<1>6. l \in {"undo", "fail"} => Belongs(arg[p], cur[p])'
  BY <1>1, <1>2, <1>5 DEF Belongs
<1>7. l = "moved" => SetTo(copy[p].job, copy[p].at)'
  <2>1. PICK k : k = copy[p].at
    OBVIOUS
  <2>2. l = "moved" => SetTo(j, k)'
    BY <1>2, <2>1
  <2> QED
    BY <1>1, <1>2, <2>1, <2>2 DEF SetTo, Rows
<1> QED
  BY <1>1, <1>4, <1>6, <1>7 DEF CallHas

\* Its registry is left alone.
LEMMA NamesStay ==
  ASSUME NEW p \in Procs, NamesKnown(p), pc[p] # "down", UNCHANGED <<jobs, known>>
  PROVE  Registered(p) /\ NamesKnown(p)'
BY DEF NamesKnown, Registered, UniqueNames, Rows

\* A step of a call that leaves jobs alone: what is left to show is the tables and
\* what the call has in hand.
LEMMA TableStep ==
  ASSUME TypeOK, NEW p \in Procs, LoneOK(p), CallStep(p), UNCHANGED <<jobs, known>>,
         Onward(p), pc[p] # "next", TablesAgree', CallHas(p)',
         \A r \in Reminders : r # cur[p] => rems'[r] = rems[r]
  PROVE  LoneOK(p)'
<1>1. pc[p] # "down" /\ todo[p] \subseteq Reminders
  BY GoesOn DEF Goes, Here, TypeOK
<1>2. NamesKnown(p)'
  BY <1>1, NamesStay DEF LoneOK
<1>3. ListHas(p)'
  BY <1>1, ListStays DEF LoneOK
<1> QED
  BY <1>2, <1>3 DEF LoneOK

\* A step of a call that leaves the reminders alone.
LEMMA JobStep ==
  ASSUME TypeOK, NEW p \in Procs, LoneOK(p), CallStep(p), UNCHANGED rems,
         Onward(p), pc[p] # "next", TablesAgree', CallHas(p)', Registered(p)'
  PROVE  LoneOK(p)'
<1>1. pc[p] # "down" /\ todo[p] \subseteq Reminders
  BY GoesOn DEF Goes, Here, TypeOK
<1>2. NamesKnown(p)'
  BY DEF NamesKnown, Registered
<1>3. ListHas(p)'
  BY <1>1, ListStays DEF LoneOK
<1> QED
  BY <1>2, <1>3 DEF LoneOK

\* The tables after a write of row, or none.
LEMMA WrittenTables ==
  ASSUME TypeOK, NEW p \in Procs, TablesAgree, UNCHANGED jobs, NEW row,
         \/ rems' = [rems EXCEPT ![cur[p]] = row]
         \/ UNCHANGED rems,
         Belongs(row.job, cur[p]), row.st = "scheduled" => SetTo(row.job, row.at)
  PROVE  TablesAgree' /\ \A r \in Reminders : r # cur[p] => rems'[r] = rems[r]
<1>0. cur[p] \in Reminders
  BY DEF TypeOK
<1>1. CASE rems' = [rems EXCEPT ![cur[p]] = row]
  BY <1>0, <1>1, TablesWritten DEF TypeOK
<1>2. CASE UNCHANGED rems
  BY <1>2 DEF TablesAgree, Belongs, SetTo, Rows
<1> QED
  BY <1>1, <1>2

LEMMA SameTables ==
  ASSUME TablesAgree, UNCHANGED <<rems, jobs>>
  PROVE  TablesAgree' /\ \A j, r : (Belongs(j, r)' <=> Belongs(j, r))
                                   /\ (SetTo(j, r)' <=> SetTo(j, r))
BY DEF TablesAgree, Belongs, SetTo, Rows

\* The rows the calls write.
LEMMA RowsBuilt ==
  ASSUME NEW row, NEW st, NEW j
  PROVE  /\ Moved(row, st).job = row.job /\ Moved(row, st).at = row.at
         /\ Moved(row, st).st = st
         /\ Repaired(row, st, j).job = j /\ Repaired(row, st, j).at = row.at
         /\ Repaired(row, st, j).st = st
         /\ Broken(row, st, j).job = j /\ Broken(row, st, j).at = row.at
         /\ Broken(row, st, j).st = st
BY DEF Moved, Repaired, Broken, Rem

LEMMA NobodysJob == \A r : Belongs(NoJob, r)
BY NoJobIsNone DEF Belongs

LEMMA InsertLone ==
  ASSUME TypeOK, NEW p \in Procs, LoneOK(p), CreateInsert(p) PROVE LoneOK(p)'
<1> DEFINE row == Rem("pending_schedule", arg[p], NoJob, "none", 1)
<1>1. row.job = NoJob /\ row.at = arg[p] /\ row.st = "pending_schedule"
  BY DEF Rem
<1>2. /\ pc[p] = "insert" /\ UNCHANGED <<jobs, known>>
      /\ rems' = [rems EXCEPT ![cur[p]] = row] \/ UNCHANGED rems
      /\ Holding(p, "newjob", row) \/ Clear(p, "idle")
  BY DEF CreateInsert
<1> HIDE DEF row
<1>3. TablesAgree' /\ \A r \in Reminders : r # cur[p] => rems'[r] = rems[r]
  <2>1. Belongs(row.job, cur[p]) /\ (row.st = "scheduled" => SetTo(row.job, row.at))
    BY <1>1, NobodysJob
  <2> QED
    BY <1>2, <2>1, WrittenTables DEF LoneOK
<1>4. CallHas(p)'
  <2>1. CASE Clear(p, "idle")
    BY <2>1, QuietSteps DEF Quiet
  <2>2. CASE Holding(p, "newjob", row)
    <3>1. PICK j, k, r : j = row.job /\ k = row.at /\ r = cur[p]
      OBVIOUS
    <3>2. Belongs(j, r)' /\ arg[p] = k
      BY <1>1, <3>1, NoJobIsNone DEF Belongs
    <3> QED
      BY <2>2, <3>1, <3>2, HoldingHas
  <2> QED
    BY <1>2, <2>1, <2>2
<1>5. CallStep(p) /\ Onward(p)
  BY <1>2, KeepsList DEF CallStep
<1> QED
  BY <1>2, <1>3, <1>4, <1>5, TableStep

\* The writes that end a call, or the operation it is in.
EndingWrite(p, row) ==
  /\ rems' = [rems EXCEPT ![cur[p]] = row] \/ UNCHANGED rems
  /\ Belongs(row.job, cur[p]) /\ (row.st = "scheduled" => SetTo(row.job, row.at))
  /\ pc[p] # "next" /\ CallStep(p) /\ UNCHANGED <<jobs, known>>
  /\ \/ \E ok \in BOOLEAN : Return(p, ok)
     \/ Clear(p, "idle") \/ Holding(p, "next", NoRem)
     \/ /\ pc[p] \in Holders /\ UNCHANGED locals
        /\ \E l \in {"undo", "cancelfail", "movefail"} :
             Goto(p, l) /\ (l = "undo" => pc[p] = "schedule")

LEMMA EndingWrites ==
  ASSUME TypeOK, NEW p \in Procs, LoneOK(p), NEW row, EndingWrite(p, row)
  PROVE  LoneOK(p)'
<1>1. TablesAgree' /\ \A r \in Reminders : r # cur[p] => rems'[r] = rems[r]
  BY WrittenTables DEF EndingWrite, LoneOK
<1>2. CallHas(p)' /\ Onward(p)
  <2>0. {"idle", "next"} \subseteq Quiet
    BY DEF Quiet
  <2>1. CASE \E ok \in BOOLEAN : Return(p, ok)
    BY <2>1, QuietSteps, KeepsList
  <2>2. CASE Clear(p, "idle") \/ Holding(p, "next", NoRem)
    BY <2>0, <2>2, QuietSteps, KeepsList
  <2>3. CASE /\ pc[p] \in Holders /\ UNCHANGED locals
             /\ \E l \in {"undo", "cancelfail", "movefail"} :
                  Goto(p, l) /\ (l = "undo" => pc[p] = "schedule")
    <3>1. PICK l \in {"undo", "cancelfail", "movefail"} :
                 Goto(p, l) /\ (l = "undo" => pc[p] = "schedule")
      BY <2>3
    <3>2. Touches(NoJob) /\ CallHas(p)
      BY Untouching DEF EndingWrite, LoneOK
    <3>3. CallHas(p)'
      BY <2>3, <3>1, <3>2, GotoHas
    <3> QED
      BY <2>3, <3>3, KeepsList DEF locals
  <2> QED
    BY <2>1, <2>2, <2>3 DEF EndingWrite
<1> QED
  BY <1>1, <1>2, TableStep DEF EndingWrite

LEMMA WritesLone ==
  ASSUME TypeOK, NEW p \in Procs, LoneOK(p),
         \/ CreateMark(p) \/ CreateFail(p) \/ CancelDone(p) \/ CancelFail(p)
         \/ RescheduleDone(p) \/ RescheduleFail(p) \/ Evidence(p) \/ ReconcileMark(p)
  PROVE  LoneOK(p)'
<1>0. CallStep(p) /\ CallHas(p)
  BY DEF CallStep, LoneOK
<1>1. CASE CreateMark(p)
  <2> DEFINE row == Repaired(copy[p], "scheduled", arg[p])
  <2>1. row.job = arg[p] /\ row.at = copy[p].at
    BY RowsBuilt
  <2>2. pc[p] = "schedule"
    BY <1>1 DEF CreateMark
  <2>3. Belongs(arg[p], cur[p]) /\ SetTo(arg[p], copy[p].at)
    BY <1>0, <2>2 DEF CallHas
  <2>4. EndingWrite(p, row)
    BY <1>0, <1>1, <2>1, <2>2, <2>3
       DEF CreateMark, EndingWrite, Write, NotWritten, Holders, Repairing
  <2> QED
    BY <2>4, EndingWrites
<1>2. CASE CreateFail(p)
  <2> DEFINE row == Broken(copy[p], "failed", arg[p])
  <2>1. row.job = arg[p] /\ row.at = copy[p].at /\ row.st = "failed"
    BY RowsBuilt
  <2>2. pc[p] = "fail" /\ Belongs(arg[p], cur[p])
    BY <1>0, <1>2 DEF CreateFail, CallHas
  <2>4. EndingWrite(p, row)
    BY <1>0, <1>2, <2>1, <2>2 DEF CreateFail, EndingWrite, Write, NotWritten
  <2> QED
    BY <2>4, EndingWrites
<1>3. CASE CancelDone(p)
  <2> DEFINE row == Repaired(copy[p], "cancelled", copy[p].job)
  <2>1. row.job = copy[p].job /\ row.at = copy[p].at /\ row.st = "cancelled"
    BY RowsBuilt
  <2>2. pc[p] = "cancelled" /\ Belongs(copy[p].job, cur[p])
    BY <1>0, <1>3 DEF CancelDone, CallHas, Holders, Repairing
  <2>4. EndingWrite(p, row)
    BY <1>0, <1>3, <2>1, <2>2
       DEF CancelDone, EndingWrite, Write, NotWritten, Holders, Repairing
  <2> QED
    BY <2>4, EndingWrites
<1>4. CASE CancelFail(p)
  <2> DEFINE row == Broken(copy[p], "pending_cancel", copy[p].job)
  <2>1. row.job = copy[p].job /\ row.at = copy[p].at /\ row.st = "pending_cancel"
    BY RowsBuilt
  <2>2. pc[p] = "cancelfail" /\ Belongs(copy[p].job, cur[p])
    BY <1>0, <1>4 DEF CancelFail, CallHas, Holders, Repairing
  <2>4. EndingWrite(p, row)
    BY <1>0, <1>4, <2>1, <2>2 DEF CancelFail, EndingWrite, Write, NotWritten
  <2> QED
    BY <2>4, EndingWrites
<1>5. CASE RescheduleDone(p)
  <2> DEFINE row == Repaired(copy[p], "scheduled", copy[p].job)
  <2>1. row.job = copy[p].job /\ row.at = copy[p].at
    BY RowsBuilt
  <2>2. pc[p] = "moved" /\ Belongs(copy[p].job, cur[p]) /\ SetTo(copy[p].job, copy[p].at)
    BY <1>0, <1>5 DEF RescheduleDone, CallHas, Holders, Repairing
  <2>4. EndingWrite(p, row)
    BY <1>0, <1>5, <2>1, <2>2
       DEF RescheduleDone, EndingWrite, Write, NotWritten, Holders, Repairing
  <2> QED
    BY <2>4, EndingWrites
<1>6. CASE RescheduleFail(p)
  <2> DEFINE row == Broken(copy[p], "pending_reschedule", copy[p].job)
  <2>1. row.job = copy[p].job /\ row.at = copy[p].at /\ row.st = "pending_reschedule"
    BY RowsBuilt
  <2>2. pc[p] = "movefail" /\ Belongs(copy[p].job, cur[p])
    BY <1>0, <1>6 DEF RescheduleFail, CallHas, Holders, Repairing
  <2>4. EndingWrite(p, row)
    BY <1>0, <1>6, <2>1, <2>2 DEF RescheduleFail, EndingWrite, Write, NotWritten
  <2> QED
    BY <2>4, EndingWrites
<1>7. CASE Evidence(p)
  <2> DEFINE row == Broken(copy[p], "pending_cancel", copy[p].job)
  <2>1. row.job = copy[p].job /\ row.at = copy[p].at /\ row.st = "pending_cancel"
    BY RowsBuilt
  <2>2. pc[p] = "evidence" /\ Belongs(copy[p].job, cur[p])
    BY <1>0, <1>7 DEF Evidence, CallHas, Holders, Repairing
  <2>4. EndingWrite(p, row)
    BY <1>0, <1>7, <2>1, <2>2 DEF Evidence, EndingWrite, Write, NotWritten
  <2> QED
    BY <2>4, EndingWrites
<1>8. CASE ReconcileMark(p)
  <2> DEFINE row == Repaired(copy[p], IF copy[p].st = "triggered" THEN "triggered"
                                      ELSE "scheduled", arg[p])
  <2>1. row.job = arg[p] /\ row.at = copy[p].at
    BY RowsBuilt
  <2>2. pc[p] = "ensured" /\ Belongs(arg[p], cur[p]) /\ SetTo(arg[p], copy[p].at)
    BY <1>0, <1>8 DEF ReconcileMark, CallHas
  <2>4. EndingWrite(p, row)
    BY <1>0, <1>8, <2>1, <2>2 DEF ReconcileMark, EndingWrite, Write, NotWritten
  <2> QED
    BY <2>4, EndingWrites
<1> QED
  BY <1>1, <1>2, <1>3, <1>4, <1>5, <1>6, <1>7, <1>8

LEMMA MarkLone ==
  ASSUME TypeOK, NEW p \in Procs, LoneOK(p), CancelMark(p) PROVE LoneOK(p)'
<1> DEFINE row == Moved(copy[p], "pending_cancel")
<1>1. row.job = copy[p].job /\ row.at = copy[p].at /\ row.st = "pending_cancel"
  BY RowsBuilt
<1>2. pc[p] = "mark" /\ CallStep(p) /\ UNCHANGED <<jobs, known>>
  BY DEF CancelMark, CallStep
<1>3. Belongs(copy[p].job, cur[p])
  BY <1>2 DEF LoneOK, CallHas, Holders, Repairing
<1>4. \/ NotWritten(p) /\ Return(p, FALSE)
      \/ rems' = [rems EXCEPT ![cur[p]] = row] /\ Holding(p, "canceljob", row)
  BY DEF CancelMark, Write
<1> HIDE DEF row
<1>5. CASE NotWritten(p) /\ Return(p, FALSE)
  <2>1. EndingWrite(p, row)
    BY <1>1, <1>2, <1>3, <1>5 DEF EndingWrite, NotWritten
  <2> QED
    BY <2>1, EndingWrites
<1>6. CASE rems' = [rems EXCEPT ![cur[p]] = row] /\ Holding(p, "canceljob", row)
  <2>1. TablesAgree' /\ \A r \in Reminders : r # cur[p] => rems'[r] = rems[r]
    BY <1>1, <1>2, <1>3, <1>6, WrittenTables DEF LoneOK
  <2>2. PICK j, k, r : j = row.job /\ k = row.at /\ r = cur[p]
    OBVIOUS
  <2>3. Belongs(j, r)'
    BY <1>1, <1>2, <1>3, <2>2 DEF Belongs
  <2>4. CallHas(p)'
    BY <1>6, <2>2, <2>3, HoldingHas
  <2> QED
    BY <1>2, <1>6, <2>1, <2>4, KeepsList, TableStep
<1> QED
  BY <1>4, <1>5, <1>6

LEMMA PrepareLone ==
  ASSUME TypeOK, NEW p \in Procs, LoneOK(p), Prepare(p) PROVE LoneOK(p)'
<1> DEFINE row == Rem("pending_reschedule", arg[p], rems[cur[p]].job, "none",
                      rems[cur[p]].rev + 1)
<1>1. row.job = rems[cur[p]].job /\ row.at = arg[p] /\ row.st = "pending_reschedule"
  BY DEF Rem
<1>2. /\ pc[p] = "prepare" /\ CallStep(p) /\ UNCHANGED <<jobs, known>>
      /\ cur[p] \in Reminders
  BY DEF Prepare, CallStep, TypeOK
<1>3. Belongs(rems[cur[p]].job, cur[p])
  BY <1>2 DEF LoneOK, TablesAgree
<1>4. \/ UNCHANGED rems /\ Return(p, FALSE)
      \/ rems' = [rems EXCEPT ![cur[p]] = row] /\ Holding(p, "movejob", row)
  BY DEF Prepare
<1> HIDE DEF row
<1>5. CASE UNCHANGED rems /\ Return(p, FALSE)
  <2>1. EndingWrite(p, row)
    BY <1>1, <1>2, <1>3, <1>5 DEF EndingWrite
  <2> QED
    BY <2>1, EndingWrites
<1>6. CASE rems' = [rems EXCEPT ![cur[p]] = row] /\ Holding(p, "movejob", row)
  <2>1. TablesAgree' /\ \A r \in Reminders : r # cur[p] => rems'[r] = rems[r]
    BY <1>1, <1>2, <1>3, <1>6, WrittenTables DEF LoneOK
  <2>2. PICK j, k, r : j = row.job /\ k = row.at /\ r = cur[p]
    OBVIOUS
  <2>3. Belongs(j, r)'
    BY <1>1, <1>2, <1>3, <2>2 DEF Belongs
  <2>4. k = rems'[r].at
    BY <1>2, <1>6, <2>2 DEF TypeOK
  <2>5. CallHas(p)'
    <3>1. PICK l : l = "movejob"
      OBVIOUS
    <3>2. /\ Holding(p, l, row) /\ (l = "newjob" => arg[p] = k)
          /\ (l = "moved" => SetTo(j, k)') /\ (l = "movejob" => k = rems'[r].at)
          /\ l \in {"newjob", "mark", "canceljob", "movejob", "moved", "evidence"}
      BY <1>6, <2>4, <3>1
    <3> QED
      BY <2>2, <2>3, <3>2, HoldingHas
  <2> QED
    BY <1>2, <1>6, <2>1, <2>5, KeepsList, TableStep
<1> QED
  BY <1>4, <1>5, <1>6

\* A step that touches neither reminders nor jobs.
LEMMA ControlStep ==
  ASSUME TypeOK, NEW p \in Procs, LoneOK(p), CallStep(p), UNCHANGED <<rems, jobs, known>>,
         CallHas(p)', ListHas(p)'
  PROVE  LoneOK(p)'
<1>1. pc[p] # "down"
  BY GoesOn DEF Goes, Here
<1> QED
  BY <1>1, NamesStay, SameTables DEF LoneOK

LEMMA TakenLone ==
  ASSUME TypeOK, NEW p \in Procs, LoneOK(p), ReconcileItem(p) PROVE LoneOK(p)'
<1>1. /\ pc[p] = "next" /\ op[p] = "reconcile" /\ UNCHANGED <<rems, jobs, known, op, snap>>
      /\ CallStep(p)
  BY DEF ReconcileItem, CallStep
<1>2. PICK r \in todo[p] :
        /\ cur' = Set(cur, p, r) /\ todo' = Set(todo, p, todo[p] \ {r})
        /\ copy' = Set(copy, p, snap[p][r])
        /\ Goto(p, Repair(snap[p][r], TaskOf[r])) \/ Goto(p, "next")
  BY DEF ReconcileItem
<1>3. r \in Reminders /\ todo[p] \subseteq Reminders
  BY DEF TypeOK
<1>4. /\ cur'[p] = r /\ todo'[p] = todo[p] \ {r} /\ copy'[p] = snap[p][r]
      /\ snap[p][r] = rems[r]
  BY <1>1, <1>2 DEF TypeOK, Set, LoneOK, ListHas
<1>5. ListHas(p)'
  <2>1. \A q \in todo[p] : snap[p][q] = rems[q]
    BY <1>1 DEF LoneOK, ListHas
  <2> QED
    BY <1>1, <1>4, <2>1 DEF ListHas
<1>6. pc'[p] \in {"next", "get", "check", "ensure", "drop", "revive"}
  BY <1>2, RepairLabels DEF Goto, TypeOK
<1>7. CallHas(p)'
  <2>1. PICK j : j = rems[r].job
    OBVIOUS
  <2>2. Belongs(j, r)'
    BY <1>1, <1>3, <2>1 DEF LoneOK, TablesAgree, Belongs
  <2>3. Belongs(copy[p].job, cur[p])'
    BY <1>4, <2>1, <2>2 DEF Belongs
  <2>4. copy'[p].at = rems'[cur'[p]].at
    BY <1>1, <1>4
  <2> QED
    BY <1>6, <2>3, <2>4 DEF CallHas
<1> QED
  BY <1>1, <1>5, <1>7, ControlStep

LEMMA ControlLone ==
  ASSUME TypeOK, NEW p \in Procs, LoneOK(p), CallOK(p),
         \/ CancelGet(p) \/ RescheduleCheck(p) \/ TaskWrite(p) \/ TaskList(p)
         \/ TakeNext(p) \/ Regain(p) \/ ReconcileEnd(p)
  PROVE  LoneOK(p)'
<1>0. /\ CallStep(p) /\ UNCHANGED <<rems, jobs, known>>
      /\ cur[p] \in Reminders /\ todo[p] \subseteq Reminders
      /\ {"prepare", "list", "next", "idle", "get"} \subseteq Quiet
  BY DEF CallStep, CancelGet, RescheduleCheck, TaskWrite, TaskList, TakeNext, Regain,
         ReconcileEnd, TypeOK, Quiet
<1>1. \A q \in Reminders : Belongs(rems[q].job, q)
  BY DEF LoneOK, TablesAgree
<1>2. ASSUME NEW l \in {"mark", "evidence"}, Holding(p, l, rems[cur[p]])
      PROVE  CallHas(p)'
  <2>1. PICK row, j, k, r : row = rems[cur[p]] /\ j = row.job /\ k = row.at /\ r = cur[p]
    OBVIOUS
  <2>2. Belongs(j, r)'
    BY <1>0, <1>1, <2>1 DEF Belongs
  <2> QED
    BY <1>2, <2>1, <2>2, HoldingHas
<1>3. CASE CancelGet(p) \/ RescheduleCheck(p) \/ Regain(p) \/ TaskWrite(p)
  <2>1. CallHas(p)'
    BY <1>0, <1>2, <1>3, QuietSteps
       DEF CancelGet, RescheduleCheck, Regain, TaskWrite
  <2>2. Onward(p) /\ pc[p] # "next"
    BY <1>3, KeepsList DEF CancelGet, RescheduleCheck, Regain, TaskWrite, locals
  <2>3. ListHas(p)'
    BY <1>0, <2>2, ListStays DEF LoneOK
  <2> QED
    BY <1>0, <2>1, <2>3, ControlStep
<1>4. CASE TaskList(p) \/ TakeNext(p) \/ ReconcileEnd(p)
  <2>1. CallHas(p)'
    BY <1>0, <1>4, QuietSteps DEF TaskList, TakeNext, ReconcileEnd
  <2>2. op'[p] # "reconcile"
    BY <1>4 DEF TaskList, TakeNext, ReconcileEnd, Clear, Set, TypeOK, CallOK, ControlOK, OpGood
  <2>3. ListHas(p)'
    BY <2>2 DEF ListHas
  <2> QED
    BY <1>0, <2>1, <2>3, ControlStep
<1> QED
  BY <1>3, <1>4

-----------------------------------------------------------------------------
(* The steps of the only process that touch a job *)

LEMMA MakesTables ==
  ASSUME TypeOK, NEW p \in Procs, TablesAgree, Registered(p), UNCHANGED rems,
         NEW r \in Reminders, NEW k, NEW j \in Jobs, NewJob(p, r, k, j)
  PROVE  TablesAgree' /\ Registered(p)' /\ Touches(j) /\ Belongs(j, r)' /\ SetTo(j, k)'
<1>1. Touches(j) /\ Registered(p)' /\ Belongs(j, r)' /\ SetTo(j, k)' /\ jobs[j].st = "absent"
  BY Makes
<1>2. TablesAgree'
  BY <1>1, TablesTouched
<1> QED
  BY <1>1, <1>2

LEMMA SetsTables ==
  ASSUME TypeOK, NEW p \in Procs, TablesAgree, Registered(p), UNCHANGED rems,
         NEW r \in Reminders, NEW j, Belongs(j, r), NEW k, k = rems[r].at,
         MoveJob(p, j, k)
  PROVE  /\ TablesAgree' /\ Registered(p)' /\ Touches(j) /\ SetTo(j, k)' /\ ~Clash(p)
         /\ j \in Jobs
<1>1. /\ Touches(j) /\ Registered(p)' /\ SetTo(j, k)' /\ ~Clash(p)
      /\ j \in Jobs /\ jobs[j].st # "absent"
  BY Sets
<1>2. SetTo(j, rems[r].at)'
  BY <1>1 DEF SetTo, Rows
<1>3. jobs[j].owner = r
  BY <1>1 DEF Belongs
<1>4. TablesAgree'
  BY <1>1, <1>2, <1>3, TablesTouched
<1> QED
  BY <1>1, <1>4

LEMMA StopsTables ==
  ASSUME TypeOK, NEW p \in Procs, TablesAgree, Registered(p), UNCHANGED rems,
         NEW j, StopJob(p, j)
  PROVE  TablesAgree' /\ Registered(p)' /\ Touches(NoJob)
<1>1. Touches(NoJob) /\ Registered(p)'
  BY Stops
<1>2. \E r : r \in Reminders
  BY SagaAssumption
<1>3. TablesAgree'
  BY <1>1, <1>2, NoJobIsNone, TablesTouched
<1> QED
  BY <1>1, <1>3

\* Nothing is done to a job; the registry is perhaps refreshed.
LEMMA JobsLeft ==
  ASSUME TypeOK, NEW p \in Procs, TablesAgree, Registered(p), UNCHANGED <<rems, jobs>>,
         known' = known \/ known' = Synced(p)
  PROVE  TablesAgree' /\ Registered(p)' /\ Touches(NoJob)
<1>1. known'[p] = Rows
  BY Refreshed DEF Registered
<1>2. Registered(p)'
  BY <1>1 DEF Registered, UniqueNames, Rows
<1> QED
  BY <1>2, SameTables, Untouching

\* At a step of its call its registry is the table.
LEMMA CallRegistered ==
  ASSUME TypeOK, NEW p \in Procs, LoneOK(p), CallStep(p)
  PROVE  Registered(p) /\ TablesAgree /\ CallHas(p) /\ cur[p] \in Reminders
<1>1. pc[p] # "down"
  BY GoesOn DEF Goes, Here
<1> QED
  BY <1>1 DEF LoneOK, NamesKnown, Registered, TypeOK

\* The argument is the job made or set, or none.
LEMMA ArgHas ==
  ASSUME TypeOK, NEW p \in Procs, CallHas(p), NEW l \in {"schedule", "fail", "ensured"},
         Goto(p, l), NEW i, arg' = Set(arg, p, i), UNCHANGED <<cur, copy>>,
         pc[p] \in Holders, NEW j0, Touches(j0), Belongs(i, cur[p])',
         NEW k, k = copy[p].at, l # "fail" => SetTo(i, k)'
  PROVE  CallHas(p)'
<1>1. /\ pc'[p] = l /\ arg'[p] = i /\ copy'[p] = copy[p] /\ cur'[p] = cur[p]
  BY DEF Goto, Set, TypeOK
<1>2. PICK j, r : j = copy[p].job /\ r = cur[p]
  OBVIOUS
<1>3. Belongs(j, r)'
  BY <1>2, BelongsOn DEF CallHas
<1>4. Belongs(copy[p].job, cur[p])'
  BY <1>1, <1>2, <1>3 DEF Belongs
<1>5. Belongs(arg[p], cur[p])'
  BY <1>1 DEF Belongs
<1>6. l # "fail" => SetTo(arg[p], copy[p].at)'
  BY <1>1 DEF SetTo, Rows
<1> QED
  BY <1>1, <1>4, <1>5, <1>6 DEF CallHas

LEMMA CreateJobLone ==
  ASSUME TypeOK, NEW p \in Procs, LoneOK(p), CreateJob(p) PROVE LoneOK(p)'
<1>1. CallStep(p) /\ pc[p] = "newjob" /\ UNCHANGED <<rems, cur, copy, op, todo, snap>>
  BY DEF CallStep, CreateJob
<1>2. Registered(p) /\ TablesAgree /\ CallHas(p) /\ cur[p] \in Reminders
  BY <1>1, CallRegistered
<1>3. pc[p] \in Holders /\ arg[p] = copy[p].at
  BY <1>1, <1>2 DEF Holders, CallHas
<1>4. PICK r, k : r = cur[p] /\ k = arg[p]
  OBVIOUS
<1>5. CASE \E j \in Jobs : NewJob(p, cur[p], arg[p], j) /\ Goto(p, "schedule")
                            /\ arg' = Set(arg, p, j)
  <2>1. PICK j \in Jobs : NewJob(p, r, k, j) /\ Goto(p, "schedule") /\ arg' = Set(arg, p, j)
    BY <1>4, <1>5
  <2>2. TablesAgree' /\ Registered(p)' /\ Touches(j) /\ Belongs(j, r)' /\ SetTo(j, k)'
    BY <1>1, <1>2, <1>4, <2>1, MakesTables
  <2>3. Belongs(j, cur[p])'
    BY <1>1, <1>4, <2>2 DEF Belongs
  <2>4. CallHas(p)'
    BY <1>1, <1>2, <1>3, <1>4, <2>1, <2>2, <2>3, ArgHas
  <2> QED
    BY <1>1, <2>2, <2>4, KeepsList, JobStep
<1>6. CASE UNCHANGED <<jobs, known>> /\ Goto(p, "fail") /\ arg' = Set(arg, p, NoJob)
  <2>1. TablesAgree' /\ Registered(p)' /\ Touches(NoJob)
    BY <1>1, <1>2, <1>6, JobsLeft
  <2>2. Belongs(NoJob, cur[p])'
    BY NoJobIsNone DEF Belongs
  <2>3. CallHas(p)'
    BY <1>1, <1>2, <1>3, <1>4, <1>6, <2>1, <2>2, ArgHas
  <2> QED
    BY <1>1, <2>1, <2>3, KeepsList, JobStep
<1> QED
  BY <1>5, <1>6 DEF CreateJob, NoNewJob

LEMMA UndoLone ==
  ASSUME TypeOK, NEW p \in Procs, LoneOK(p), CreateUndo(p) PROVE LoneOK(p)'
<1>1. /\ CallStep(p) /\ pc[p] = "undo" /\ UNCHANGED rems /\ UNCHANGED locals
      /\ Goto(p, "fail")
      /\ StopJob(p, arg[p]) \/ UNCHANGED <<jobs, known>>
  BY DEF CallStep, CreateUndo
<1>2. Registered(p) /\ TablesAgree /\ CallHas(p)
  BY <1>1, CallRegistered
<1>3. TablesAgree' /\ Registered(p)' /\ Touches(NoJob)
  BY <1>1, <1>2, StopsTables, JobsLeft
<1>4. CallHas(p)'
  <2>1. PICK l : l = "fail"
    OBVIOUS
  <2>2. /\ Goto(p, l) /\ pc[p] \in Holders
        /\ l \in {"undo", "fail"} /\ pc[p] \in {"schedule", "undo"}
    BY <1>1, <2>1 DEF Holders
  <2> QED
    BY <1>1, <1>2, <1>3, <2>2, GotoHas
<1> QED
  BY <1>1, <1>3, <1>4, KeepsList, JobStep DEF locals

LEMMA CancelJobLone ==
  ASSUME TypeOK, NEW p \in Procs, LoneOK(p), CancelTheJob(p) PROVE LoneOK(p)'
<1>1. /\ CallStep(p) /\ pc[p] = "canceljob" /\ UNCHANGED rems /\ UNCHANGED locals
      /\ Goto(p, "cancelled") \/ Goto(p, "cancelfail")
      /\ StopJob(p, copy[p].job) \/ UNCHANGED <<jobs, known>>
  BY DEF CallStep, CancelTheJob
<1>2. Registered(p) /\ TablesAgree /\ CallHas(p)
  BY <1>1, CallRegistered
<1>3. TablesAgree' /\ Registered(p)' /\ Touches(NoJob)
  BY <1>1, <1>2, StopsTables, JobsLeft
<1>4. CallHas(p)'
  BY <1>1, <1>2, <1>3, GotoHas DEF Holders
<1> QED
  BY <1>1, <1>3, <1>4, KeepsList, JobStep DEF locals

LEMMA MoveJobLone ==
  ASSUME TypeOK, NEW p \in Procs, LoneOK(p), MoveTheJob(p) PROVE LoneOK(p)'
<1>1. CallStep(p) /\ pc[p] = "movejob" /\ UNCHANGED rems
  BY DEF CallStep, MoveTheJob
<1>2. Registered(p) /\ TablesAgree /\ CallHas(p) /\ cur[p] \in Reminders
  BY <1>1, CallRegistered
<1>3. PICK r, j, k : r = cur[p] /\ j = copy[p].job /\ k = copy[p].at
  OBVIOUS
<1>4. pc[p] \in Holders /\ Belongs(j, r) /\ k = rems[r].at /\ r \in Reminders
  BY <1>1, <1>2, <1>3 DEF CallHas, Holders
<1>5. CASE /\ MoveJob(p, j, k) /\ UNCHANGED locals
           /\ Goto(p, IF Clash(p) THEN "movefail" ELSE "moved")
  <2>1. TablesAgree' /\ Registered(p)' /\ Touches(j) /\ SetTo(j, k)'
    BY <1>1, <1>2, <1>4, <1>5, SetsTables
  <2>2. CallHas(p)'
    <3>1. \A i, m : i = copy[p].job /\ m = copy[p].at => SetTo(i, m)'
      BY <1>3, <2>1
    <3>2. PICK l : l \in {"movefail", "moved"} /\ Goto(p, l)
      BY <1>5
    <3> QED
      BY <1>2, <1>4, <1>5, <2>1, <3>1, <3>2, GotoHas
  <2> QED
    BY <1>1, <1>5, <2>1, <2>2, KeepsList, JobStep DEF locals
<1>6. CASE /\ UNCHANGED jobs
           /\ known' = known \/ known' = Synced(p)
           /\ Goto(p, "movefail") /\ UNCHANGED locals
  <2>1. TablesAgree' /\ Registered(p)' /\ Touches(NoJob)
    BY <1>1, <1>2, <1>6, JobsLeft
  <2>2. CallHas(p)'
    BY <1>2, <1>4, <1>6, <2>1, GotoHas
  <2> QED
    BY <1>1, <1>6, <2>1, <2>2, KeepsList, JobStep DEF locals
<1>7. ASSUME NEW i \in Jobs, NewJob(p, r, k, i),
             Holding(p, "moved", Rem(copy[p].st, copy[p].at, i, copy[p].fail, copy[p].rev))
      PROVE  LoneOK(p)'
  <2>1. TablesAgree' /\ Registered(p)' /\ Touches(i) /\ Belongs(i, r)' /\ SetTo(i, k)'
    BY <1>1, <1>2, <1>4, <1>7, MakesTables
  <2>2. PICK row : row = Rem(copy[p].st, copy[p].at, i, copy[p].fail, copy[p].rev)
    OBVIOUS
  <2>3. i = row.job /\ k = row.at /\ Holding(p, "moved", row)
    BY <1>3, <1>7, <2>2 DEF Rem
  <2>4. CallHas(p)'
    BY <1>3, <2>1, <2>3, HoldingHas
  <2> QED
    BY <1>1, <2>1, <2>3, <2>4, KeepsList, JobStep
<1>8. \/ /\ MoveJob(p, j, k) /\ UNCHANGED locals
         /\ Goto(p, IF Clash(p) THEN "movefail" ELSE "moved")
      \/ /\ UNCHANGED jobs
         /\ known' = known \/ known' = Synced(p)
         /\ Goto(p, "movefail") /\ UNCHANGED locals
      \/ \E i \in Jobs :
           /\ NewJob(p, r, k, i)
           /\ Holding(p, "moved", Rem(copy[p].st, copy[p].at, i, copy[p].fail, copy[p].rev))
  BY <1>3 DEF MoveTheJob, NoNewJob
<1> QED
  BY <1>5, <1>6, <1>7, <1>8

LEMMA EnsureLone ==
  ASSUME TypeOK, NEW p \in Procs, LoneOK(p), ReconcileEnsure(p) PROVE LoneOK(p)'
<1>1. CallStep(p) /\ pc[p] = "ensure" /\ UNCHANGED rems
  BY DEF CallStep, ReconcileEnsure
<1>2. Registered(p) /\ TablesAgree /\ CallHas(p) /\ cur[p] \in Reminders
  BY <1>1, CallRegistered
<1>3. PICK r, j, k : r = cur[p] /\ j = copy[p].job /\ k = copy[p].at
  OBVIOUS
<1>4. pc[p] \in Holders /\ Belongs(j, r) /\ k = rems[r].at /\ r \in Reminders
  BY <1>1, <1>2, <1>3 DEF CallHas, Holders, Repairing
<1>5. ASSUME NEW i, TablesAgree', Registered(p)', NEW j0, Touches(j0),
             Belongs(i, r)', SetTo(i, k)',
             Goto(p, "ensured"), arg' = Set(arg, p, i),
             UNCHANGED <<op, cur, copy, todo, snap, bad>>
      PROVE  LoneOK(p)'
  <2>1. Belongs(i, cur[p])'
    BY <1>3, <1>5 DEF Belongs
  <2>2. CallHas(p)'
    BY <1>2, <1>3, <1>4, <1>5, <2>1, ArgHas
  <2> QED
    BY <1>1, <1>5, <2>2, KeepsList, JobStep
<1>6. ASSUME TablesAgree', Registered(p)', Return(p, FALSE) PROVE LoneOK(p)'
  BY <1>1, <1>6, QuietSteps, KeepsList, JobStep
<1>7. CASE /\ MoveJob(p, j, k)
           /\ IF Clash(p) THEN Return(p, FALSE)
              ELSE /\ Goto(p, "ensured") /\ arg' = Set(arg, p, j)
                   /\ UNCHANGED <<op, cur, copy, todo, snap, bad>>
  <2>1. /\ TablesAgree' /\ Registered(p)' /\ Touches(j) /\ SetTo(j, k)' /\ ~Clash(p)
    BY <1>1, <1>2, <1>4, <1>7, SetsTables
  <2>2. Belongs(j, r)'
    BY <1>4, <2>1, BelongsOn
  <2> QED
    BY <1>5, <1>7, <2>1, <2>2
<1>8. CASE \E i \in Jobs : /\ NewJob(p, r, k, i)
                           /\ Goto(p, "ensured") /\ arg' = Set(arg, p, i)
                           /\ UNCHANGED <<op, cur, copy, todo, snap, bad>>
  <2>1. PICK i \in Jobs : /\ NewJob(p, r, k, i)
                          /\ Goto(p, "ensured") /\ arg' = Set(arg, p, i)
                          /\ UNCHANGED <<op, cur, copy, todo, snap, bad>>
    BY <1>8
  <2>2. TablesAgree' /\ Registered(p)' /\ Touches(i) /\ Belongs(i, r)' /\ SetTo(i, k)'
    BY <1>1, <1>2, <1>4, <2>1, MakesTables
  <2> QED
    BY <1>5, <2>1, <2>2
<1>9. CASE UNCHANGED <<jobs, known>> /\ Return(p, FALSE)
  BY <1>1, <1>2, <1>6, <1>9, JobsLeft
<1> QED
  BY <1>3, <1>7, <1>8, <1>9 DEF ReconcileEnsure, NoNewJob

LEMMA RepairJobLone ==
  ASSUME TypeOK, NEW p \in Procs, LoneOK(p), ReconcileJob(p) PROVE LoneOK(p)'
<1>1. CallStep(p) /\ pc[p] \in {"drop", "revive"} /\ UNCHANGED rems
  BY DEF CallStep, ReconcileJob
<1>2. Registered(p) /\ TablesAgree /\ CallHas(p) /\ cur[p] \in Reminders
  BY <1>1, CallRegistered
<1>3. PICK r, j, k : r = cur[p] /\ j = copy[p].job /\ k = copy[p].at
  OBVIOUS
<1>4. Belongs(j, r) /\ r \in Reminders /\ (pc[p] = "revive" => k = rems[r].at)
  BY <1>1, <1>2, <1>3 DEF CallHas
<1>5. \E ok \in BOOLEAN : Return(p, ok)
  BY DEF ReconcileJob
<1>6. \/ pc[p] = "drop" /\ StopJob(p, j)
      \/ pc[p] = "revive" /\ MoveJob(p, j, k)
      \/ UNCHANGED <<jobs, known>>
  BY <1>1, <1>3 DEF ReconcileJob
<1>7. TablesAgree' /\ Registered(p)'
  BY <1>1, <1>2, <1>4, <1>6, StopsTables, SetsTables, JobsLeft
<1> QED
  BY <1>1, <1>5, <1>7, QuietSteps, KeepsList, JobStep

LEMMA CallLone ==
  ASSUME TypeOK, NEW p \in Procs, LoneOK(p), CallOK(p), CallStep(p)
  PROVE  LoneOK(p)'
<1>1. CASE \/ CreateInsert(p) \/ CreateJob(p) \/ CreateMark(p) \/ CreateUndo(p)
           \/ CreateFail(p)
  BY <1>1, InsertLone, CreateJobLone, WritesLone, UndoLone
<1>2. CASE \/ CancelGet(p) \/ CancelMark(p) \/ CancelTheJob(p) \/ CancelDone(p)
           \/ CancelFail(p)
  BY <1>2, ControlLone, MarkLone, CancelJobLone, WritesLone
<1>3. CASE \/ RescheduleCheck(p) \/ Prepare(p) \/ MoveTheJob(p)
           \/ RescheduleDone(p) \/ RescheduleFail(p)
  BY <1>3, ControlLone, PrepareLone, MoveJobLone, WritesLone
<1>4. CASE \/ TaskWrite(p) \/ TaskList(p) \/ TakeNext(p) \/ Regain(p) \/ Evidence(p)
  BY <1>4, ControlLone, WritesLone
<1>5. CASE \/ ReconcileItem(p) \/ ReconcileEnsure(p) \/ ReconcileMark(p)
           \/ ReconcileJob(p) \/ ReconcileEnd(p)
  BY <1>5, TakenLone, EnsureLone, WritesLone, RepairJobLone, ControlLone
<1> QED
  BY <1>1, <1>2, <1>3, <1>4, <1>5 DEF CallStep

-----------------------------------------------------------------------------
(* The steps at which the only process has no call *)

\* What is left to show when no call is in hand afterwards.
LEMMA IdleStep ==
  ASSUME NEW p \in Procs, TablesAgree', NamesKnown(p)', pc'[p] \in Quiet,
         op'[p] # "reconcile"
  PROVE  LoneOK(p)'
BY QuietCall DEF LoneOK, ListHas

LEMMA IdleAgain ==
  ASSUME TypeOK, NEW p \in Procs, CallOK(p), pc[p] = "idle", UNCHANGED <<pc, op>>
  PROVE  pc'[p] \in Quiet /\ op'[p] # "reconcile"
BY DEF CallOK, ControlOK, OpGood, Quiet

LEMMA IdleRegistered ==
  ASSUME NEW p \in Procs, LoneOK(p), pc[p] = "idle"
  PROVE  TablesAgree /\ Registered(p)
BY DEF LoneOK, NamesKnown, Registered

\* The jobs go on without a new instant.
LEMMA CalmTables ==
  ASSUME TypeOK, TablesAgree, UNCHANGED rems, Touches(NoJob) PROVE TablesAgree'
<1>1. \E r : r \in Reminders
  BY SagaAssumption
<1> QED
  BY <1>1, NoJobIsNone, TablesTouched

\* Reminders keep their jobs, and none is scheduled anew.
LEMMA DisarmedTables ==
  ASSUME TablesAgree, UNCHANGED jobs,
         \A r \in Reminders : \/ rems'[r] = rems[r]
                              \/ rems'[r].job = rems[r].job /\ rems'[r].st # "scheduled"
  PROVE  TablesAgree'
<1>1. \A r \in Reminders : Belongs(rems'[r].job, r)
  BY DEF TablesAgree
<1>2. \A r \in Reminders : rems'[r].st = "scheduled" => SetTo(rems'[r].job, rems'[r].at)
  BY DEF TablesAgree
<1> QED
  BY <1>1, <1>2 DEF TablesAgree, Belongs, SetTo, Rows

LEMMA NewCallLone ==
  ASSUME TypeOK, NEW p \in Procs, LoneOK(p), CallOK(p), NewCall(p)
  PROVE  LoneOK(p)'
<1>0. pc[p] = "idle" /\ TablesAgree /\ Registered(p)
  BY NewCallBegins, IdleRegistered
<1>1. ASSUME UNCHANGED <<rems, jobs, known>>, pc'[p] \in Quiet, op'[p] # "reconcile"
      PROVE  LoneOK(p)'
  <2>1. TablesAgree' /\ NamesKnown(p)'
    BY <1>0, <1>1, SameTables DEF NamesKnown, Registered, UniqueNames, Rows
  <2> QED
    BY <1>1, <2>1, IdleStep
<1>2. ASSUME NEW o \in Ops \ {"reconcile"}, NEW l \in Quiet, NEW r, NEW a,
             NEW row, Begin(p, o, l, r, a, row), UNCHANGED <<rems, jobs, known>>
      PROVE  LoneOK(p)'
  <2>1. pc'[p] = l /\ op'[p] = o
    BY <1>2 DEF Begin, Goto, Set, TypeOK
  <2> QED
    BY <1>1, <1>2, <2>1
<1>3. /\ {"get", "insert", "check", "task", "list"} \subseteq Quiet
      /\ {"create", "cancel", "reschedule", "complete", "cancel_task"}
           \subseteq Ops \ {"reconcile"}
  BY DEF Quiet, Ops
<1>4. ASSUME NEW r \in Reminders, CancelCall(p, r) PROVE LoneOK(p)'
  BY <1>2, <1>3, <1>4 DEF CancelCall
<1>5. ASSUME NEW r \in Reminders, NEW k \in Keys, CreateRead(p, r, k) PROVE LoneOK(p)'
  BY <1>2, <1>3, <1>5 DEF CreateRead
<1>6. ASSUME NEW r \in Reminders, NEW k \in Keys, RescheduleCall(p, r, k) PROVE LoneOK(p)'
  BY <1>2, <1>3, <1>6 DEF RescheduleCall
<1>7. ASSUME NEW u \in Tasks, NEW o \in {"complete", "cancel_task"}, TaskCall(p, o, u)
      PROVE  LoneOK(p)'
  BY <1>2, <1>3, <1>7 DEF TaskCall
<1>8. ASSUME NEW u \in Tasks, TaskEdit(p, u) PROVE LoneOK(p)'
  BY <1>0, <1>1, <1>8, IdleAgain DEF TaskEdit, locals
<1>9. ASSUME NEW j \in Jobs, DeleteTheJob(p, j) PROVE LoneOK(p)'
  <2>1. /\ jobs' = [jobs EXCEPT ![j] = DeletedRow(jobs[j])] /\ Present(jobs[j])
        /\ known'[p] = known[p] \ {j} /\ UNCHANGED <<rems, pc, op>>
    BY <1>9 DEF DeleteTheJob, Deletable, TypeOK, locals
  <2>2. PICK row : row = DeletedRow(jobs[j])
    OBVIOUS
  <2>3. row.st = "deleted" /\ row.owner = jobs[j].owner /\ row.key = jobs[j].key
    BY <2>2 DEF DeletedRow, Row
  <2>4. jobs'[j] = row /\ \A i \in Jobs : i # j => jobs'[i] = jobs[i]
    BY <2>1, <2>2 DEF TypeOK
  <2>5. Touches(NoJob)
    BY <2>3, <2>4 DEF Touches, Present
  <2>6. Rows' = Rows \ {j} /\ \A i \in Rows : i \in Jobs
    BY <2>3, <2>4 DEF Rows, Present
  <2>7. \A i \in Jobs : jobs'[i].owner = jobs[i].owner
    BY <2>3, <2>4
  <2>8. NamesKnown(p)'
    BY <1>0, <2>1, <2>6, <2>7 DEF NamesKnown, Registered, UniqueNames
  <2> QED
    BY <1>0, <2>1, <2>5, <2>8, CalmTables, IdleAgain, IdleStep
<1> QED
  BY <1>4, <1>5, <1>6, <1>7, <1>8, <1>9 DEF NewCall

LEMMA SchedulerLone ==
  ASSUME TypeOK, NEW p \in Procs, LoneOK(p), CallOK(p), SchedulerStep(p)
  PROVE  LoneOK(p)'
<1>1. pc[p] = "idle" /\ UNCHANGED <<rems, pc, op>>
  BY DEF SchedulerStep, TickClash, Release, Claim, locals
<1>2. TablesAgree /\ Registered(p) /\ UniqueNames
  BY <1>1, IdleRegistered DEF Registered
<1>3. ~TickClash(p)
  BY <1>2, Refreshed DEF TickClash
<1>4. ASSUME NEW j \in Rows, NEW row, jobs' = [jobs EXCEPT ![j] = row],
             row.owner = jobs[j].owner, row.key = jobs[j].key, Present(row),
             known'[p] = Rows
      PROVE  LoneOK(p)'
  <2>1. Touches(NoJob) /\ Rows' = Rows /\ UniqueNames'
    BY <1>2, <1>4, OneCalm
  <2>2. TablesAgree' /\ NamesKnown(p)'
    BY <1>1, <1>2, <1>4, <2>1, CalmTables DEF NamesKnown
  <2> QED
    BY <1>1, <2>2, IdleAgain, IdleStep
<1>5. ASSUME NEW j \in Jobs, Release(p, j) PROVE LoneOK(p)'
  <2>1. /\ jobs' = [jobs EXCEPT ![j] = AttemptFailedRow(jobs[j])] /\ UNCHANGED known
        /\ j \in Rows /\ Present(jobs[j])
    BY <1>5 DEF Release, Rows, Present
  <2>2. PICK row : row = AttemptFailedRow(jobs[j])
    OBVIOUS
  <2>3. row.owner = jobs[j].owner /\ row.key = jobs[j].key /\ Present(row)
    BY <2>1, <2>2, CalmRows
  <2> QED
    BY <1>2, <1>4, <2>1, <2>2, <2>3 DEF Registered
<1>6. ASSUME NEW j \in Jobs, Claim(p, j) PROVE LoneOK(p)'
  <2>1. /\ jobs' = [jobs EXCEPT ![j] = ClaimedRow(jobs[j], claims + 1)]
        /\ known' = Synced(p) /\ j \in Rows
    BY <1>6 DEF Claim, Runnable, Rows, Present
  <2>2. PICK row : row = ClaimedRow(jobs[j], claims + 1)
    OBVIOUS
  <2>3. row.owner = jobs[j].owner /\ row.key = jobs[j].key /\ Present(row)
    BY <2>2 DEF ClaimedRow, Row, Present
  <2> QED
    BY <1>2, <1>4, <2>1, <2>2, <2>3, Refreshed
<1> QED
  BY <1>3, <1>5, <1>6 DEF SchedulerStep

LEMMA RunLone ==
  ASSUME SagaInv, NEW p \in Procs, LoneOK(p), pc[p] = "idle", NEW t \in 1..claims, RunStep(t)
  PROVE  LoneOK(p)'
<1>0. /\ TypeOK /\ JobInv /\ CallOK(p) /\ TablesAgree /\ Registered(p)
  BY IdleRegistered DEF SagaInv
<1>1. /\ jobs[runs[t].job].owner \in Reminders /\ runs[t].job \in Jobs
      /\ rems \in [Reminders -> RemRow]
  BY <1>0, RunTypes DEF TypeOK
<1>2. UNCHANGED <<pc, op, known>>
  BY DEF RunStep, Trigger, Recheck, Record, Finish, locals
<1>3. ASSUME TablesAgree', Rows' = Rows, UniqueNames' PROVE LoneOK(p)'
  BY <1>0, <1>2, <1>3, IdleAgain, IdleStep DEF NamesKnown, Registered
<1>4. ASSUME UNCHANGED jobs,
             \A r \in Reminders : \/ rems'[r] = rems[r]
                                  \/ rems'[r].job = rems[r].job /\ rems'[r].st # "scheduled"
      PROVE  LoneOK(p)'
  <2>1. TablesAgree' /\ Rows' = Rows /\ UniqueNames'
    BY <1>0, <1>4, DisarmedTables DEF Registered, UniqueNames, Rows
  <2> QED
    BY <1>3, <2>1
<1>5. CASE Trigger(t) \/ Recheck(t)
  <2>0. PICK r \in Reminders :
          rems' = [rems EXCEPT ![r] = TriggeredRow(rems[r])] \/ UNCHANGED rems
    BY <1>1, <1>5 DEF Trigger, Recheck
  <2>1. PICK row : row = TriggeredRow(rems[r])
    OBVIOUS
  <2>2. row.job = rems[r].job /\ row.st = "triggered"
    BY <2>1 DEF TriggeredRow, Rem
  <2> QED
    BY <1>1, <1>4, <1>5, <2>0, <2>1, <2>2 DEF Trigger, Recheck
<1>6. CASE Record(t)
  <2>0. PICK r \in Reminders :
          rems' = [rems EXCEPT ![r] = Blamed(rems[r])] \/ UNCHANGED rems
    BY <1>1, <1>6 DEF Record
  <2>1. PICK row : row = Blamed(rems[r])
    OBVIOUS
  <2>2. row = rems[r] \/ (row.job = rems[r].job /\ row.st = "failed")
    BY <2>1 DEF Blamed, Rem
  <2> QED
    BY <1>1, <1>4, <1>6, <2>0, <2>1, <2>2 DEF Record
<1>7. CASE Finish(t)
  <2>1. PICK j \in Jobs : j = runs[t].job
    BY <1>1
  <2>2. UNCHANGED rems
    BY <1>7 DEF Finish
  <2>3. CASE UNCHANGED jobs
    BY <1>4, <2>2, <2>3
  <2>4. ASSUME Owned(jobs[j], t),
               NEW row \in {SucceededRow(jobs[j]), AttemptFailedRow(jobs[j])},
               jobs' = [jobs EXCEPT ![j] = row]
        PROVE  LoneOK(p)'
    <3>1. j \in Rows /\ Present(jobs[j])
      BY <2>4 DEF Owned, Rows, Present
    <3>2. row.owner = jobs[j].owner /\ row.key = jobs[j].key /\ Present(row)
      BY <3>1, CalmRows
    <3>3. Touches(NoJob) /\ Rows' = Rows /\ UniqueNames'
      BY <1>0, <2>4, <3>1, <3>2, OneCalm DEF Registered
    <3> QED
      BY <1>0, <1>3, <2>2, <3>3, CalmTables
  <2> QED
    BY <1>7, <2>1, <2>3, <2>4 DEF Finish
<1> QED
  BY <1>5, <1>6, <1>7 DEF RunStep

LEMMA CrashLone ==
  ASSUME TypeOK, NEW p \in Procs, LoneOK(p), Crash(p) PROVE LoneOK(p)'
<1>1. UNCHANGED <<jobs, rems>> /\ pc'[p] = "down" /\ op'[p] = "none"
  BY DEF Crash, Clear, Goto, Set, TypeOK
<1>2. TablesAgree'
  BY <1>1, SameTables DEF LoneOK
<1>3. NamesKnown(p)'
  BY <1>1 DEF LoneOK, NamesKnown, UniqueNames, Rows
<1> QED
  BY <1>1, <1>2, <1>3, IdleStep DEF Quiet

\* The registry is filled from the table, the list with the reminders as they are.
LEMMA RestartLone ==
  ASSUME TypeOK, NEW p \in Procs, LoneOK(p), Restart(p) PROVE LoneOK(p)'
<1>1. /\ UNCHANGED rems /\ pc'[p] = "next" /\ snap'[p] = rems /\ todo'[p] \subseteq Reminders
  BY DEF Restart, Goto, Set, TypeOK
<1>2. PICK S \in SUBSET {j \in Jobs : Orphaned(j)} :
        jobs' = [j \in Jobs |-> IF j \in S THEN AttemptFailedRow(jobs[j]) ELSE jobs[j]]
  BY DEF Restart
<1>3. ASSUME NEW j \in Jobs
      PROVE  /\ jobs'[j].owner = jobs[j].owner /\ jobs'[j].key = jobs[j].key
             /\ Present(jobs'[j]) <=> Present(jobs[j])
             /\ jobs[j].st # "absent" => jobs'[j].st # "absent"
  <2>1. CASE j \in S
    <3>1. jobs'[j] = AttemptFailedRow(jobs[j]) /\ Present(jobs[j])
      BY <1>2, <2>1 DEF Orphaned, Present
    <3> QED
      BY <3>1 DEF AttemptFailedRow, Row, Present
  <2>2. CASE j \notin S
    BY <1>2, <2>2
  <2> QED
    BY <2>1, <2>2
<1>4. Touches(NoJob)
  BY <1>3 DEF Touches
<1>5. Rows' = Rows
  BY <1>3 DEF Rows
<1>6. UniqueNames /\ \A i \in Rows : i \in Jobs /\ i \in Nat
  BY SagaAssumption DEF LoneOK, NamesKnown, Rows
<1>7. UniqueNames'
  BY <1>3, <1>5, <1>6 DEF UniqueNames
<1>8. known'[p] = Rows
  <2>1. known'[p] = {j \in Rows : \A i \in Rows : i < j => jobs[i].owner # jobs[j].owner}
    BY DEF Restart, TypeOK
  <2>2. \A i, j \in Rows : i < j => jobs[i].owner # jobs[j].owner
    BY <1>6 DEF UniqueNames
  <2> QED
    BY <2>1, <2>2
<1>9. TablesAgree'
  BY <1>1, <1>4, CalmTables DEF LoneOK
<1>10. NamesKnown(p)'
  BY <1>5, <1>7, <1>8 DEF NamesKnown
<1>11. CallHas(p)'
  BY <1>1, QuietCall DEF Quiet
<1>12. ListHas(p)'
  BY <1>1 DEF ListHas
<1> QED
  BY <1>9, <1>10, <1>11, <1>12 DEF LoneOK

-----------------------------------------------------------------------------
(* The theorem *)

LEMMA LoneInit == Init => LoneInv
<1> SUFFICES ASSUME Init, NEW p \in Procs PROVE LoneOK(p)
  BY DEF LoneInv, LoneOK
<1>1. /\ \A j \in Jobs : jobs[j].st = "absent"
      /\ \A r \in Reminders : rems[r].job = NoJob /\ rems[r].st = "none"
      /\ known[p] = {} /\ op[p] = "none" /\ pc[p] \in {"idle", "down", "absent"}
  BY DEF Init, Row, NoRem, Rem
<1>2. Rows = {}
  BY <1>1 DEF Rows, Present
<1>3. TablesAgree
  BY <1>1, NobodysJob DEF TablesAgree
<1>4. NamesKnown(p)
  BY <1>1, <1>2 DEF NamesKnown, UniqueNames
<1>5. CallHas(p) /\ ListHas(p)
  BY <1>1 DEF CallHas, ListHas, Holders, Repairing
<1> QED
  BY <1>3, <1>4, <1>5 DEF LoneOK

LEMMA LoneStep == SagaInv /\ LoneInv /\ [Next]_vars => LoneInv'
<1> SUFFICES ASSUME SagaInv, LoneInv, [Next]_vars, NEW p \in Procs, Lone(p)' PROVE LoneOK(p)'
  BY DEF LoneInv, LoneOK
<1>1. TypeOK /\ CallOK(p)
  BY DEF SagaInv
<1>2. Lone(p)
  BY <1>1, LoneBefore
<1>3. LoneOK(p)
  BY <1>2 DEF LoneInv, LoneOK
<1>4. CASE NewCall(p) \/ CallStep(p)
  BY <1>1, <1>3, <1>4, NewCallLone, CallLone
<1>5. CASE pc[p] = "idle" /\ SchedulerStep(p)
  BY <1>1, <1>3, <1>5, SchedulerLone
<1>6. CASE pc[p] = "idle" /\ \E t \in 1..claims : RunStep(t)
  BY <1>3, <1>6, RunLone
<1>7. CASE Crash(p) \/ Restart(p)
  BY <1>1, <1>3, <1>7, CrashLone, RestartLone
<1>8. CASE Tick \/ UNCHANGED vars
  <2>1. UNCHANGED <<jobs, rems, known, pc, op, cur, arg, copy, todo, snap>>
    BY <1>8 DEF Tick, vars, locals
  <2> QED
    BY <1>3, <2>1 DEF LoneOK, TablesAgree, NamesKnown, CallHas, ListHas, Belongs, SetTo,
                      UniqueNames, Rows
<1> QED
  BY <1>1, <1>2, <1>4, <1>5, <1>6, <1>7, <1>8, LoneSteps

\* In the only process a scheduled reminder always has its job, set to its instant,
\* unless the job was deleted; and no second job bears its name: whatever crashes or
\* fails between the transactions of a call, and whatever the reconciliation repairs.
THEOREM ScheduledJobsThere == Spec => []ScheduledHasJob
<1>1. Init => SagaInv /\ LoneInv
  BY SagaInit, LoneInit
<1>2. SagaInv /\ LoneInv /\ [Next]_vars => SagaInv' /\ LoneInv'
  BY SagaStep, LoneStep
<1>3. LoneInv => ScheduledHasJob
  <2> SUFFICES ASSUME LoneInv, Alone
               PROVE  /\ UniqueNames
                      /\ \A r \in Reminders :
                           rems[r].st = "scheduled" =>
                             /\ rems[r].job \in Jobs
                             /\ rems[r].job \in Rows => jobs[rems[r].job].key = rems[r].at
    BY DEF ScheduledHasJob
  <2>1. PICK p \in Procs : Lone(p)
    BY AloneIsLone
  <2>2. TablesAgree /\ UniqueNames
    BY <2>1 DEF LoneInv, NamesKnown
  <2> QED
    BY <2>2 DEF TablesAgree, SetTo
<1> QED
  BY <1>1, <1>2, <1>3, PTL DEF Spec
=============================================================================
