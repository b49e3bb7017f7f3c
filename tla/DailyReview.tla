----------------------------- MODULE DailyReview -----------------------------
(***************************************************************************)
(* The daily review (core/daily_review) and the agenda (core/agenda): one   *)
(* answer put together from sources that other processes go on writing.     *)
(* There is no snapshot: each source is walked page by page, by offset, a   *)
(* transaction per page, user tasks in a walk per state of theirs.  What a  *)
(* page shows becomes candidates; of the candidates of one object the       *)
(* review keeps the most urgent.  The agenda reads the sources its view     *)
(* asks for, and of reminders and waiting-for items no second page.         *)
(*                                                                          *)
(* The sources are written by their own operations: waiting-for items as in *)
(* WaitingFor, work logs as in WorkLog, tasks as in UserTasks with their    *)
(* due date, and the others by the transactions that change what their list *)
(* query returns.  want, touched and partial are history, kept for the      *)
(* property only.                                                           *)
(***************************************************************************)
EXTENDS WaitingFor, UserTasks, WorkLog, SequencesExt

CONSTANTS
  Reminders, Captures,  \* identifiers, in the order of their creation
  PageSize,    \* rows of one page
  Loads        \* bound: who writes what before and during the review: the source,
               \* the rows, the callers that overlap, how often, the dates they set;
               \* the scopes of work logs and those of older versions; the rows that
               \* are there before; and who reads

ASSUME ReviewAssumption ==
  /\ Tasks \cup Items \cup Logs \cup Reminders \cup Captures \subseteq Nat
  /\ \A S \in {Tasks, Items, Logs, Reminders, Captures} : IsFiniteSet(S)
  /\ PageSize \in Nat \ {0}

\* The rows that are there before: only a row of an older version may not name its
\* workspace completely.
ASSUME LoadAssumption ==
  \A l \in Loads :
    /\ l.dates \subseteq Instants \cup {NoDate} /\ l.scopes \subseteq Scopes
    /\ l.callers \subseteq Callers /\ (l.source = "waiting_for" => l.ids \subseteq Items)
    /\ l.logs \subseteq [Logs -> LogRow]
    /\ \A rows \in l.logs, i \in Logs :
         /\ rows[i].st = "none" => rows[i] = NoLog
         /\ rows[i].scope = "incomplete" =>
              IF i \in DOMAIN Derived THEN Derived[i].alias ELSE ~rows[i].canonical

VARIABLES
  due,        \* user_tasks.due_at
  reminders,  \* reminder inbox: id -> [st, at]
  inbox,      \* inbox items: id -> status
  young,      \* inbox items captured after as_of
  walk,       \* the query the review is at, 0 before it starts
  offset, pages, found,       \* of _walk_pages and _evaluate
  load, writes,
  want, touched, partial    \* history

stores == <<items, history, held, tasks, due, logs, reminders, inbox, young, told>>
review == <<walk, offset, pages, found>>
story == <<want, touched, partial>>
vars == <<stores, review, story, load, writes>>

Query(s, filter) == [source |-> s, filter |-> filter]
Waiting == Query("waiting_for", "all")

\* The sources in the order in which they are read, and the filter of their query.
ReviewQueries ==
  <<Query("work_log", "all"), Waiting, Query("reminder", "all"), Query("inbox", "pending"),
    Query("user_task", "completed"), Query("user_task", "cancelled"),
    Query("user_task", "overdue"), Query("user_task", "due_soon")>>

\* _collect, by the view of the agenda.
AgendaQueries ==
  [today     |-> <<Query("reminder", "today"), Query("user_task", "due_today"),
                   Query("work_log", "all"), Waiting>>,
   next      |-> <<Query("reminder", "pending"), Query("user_task", "due_soon"), Waiting>>,
   attention |-> <<Query("reminder", "attention"), Query("user_task", "overdue"), Waiting>>,
   completed |-> <<Query("reminder", "triggered"), Query("work_log", "completed"), Waiting>>,
   all       |-> <<Query("reminder", "all"), Query("user_task", "active"),
                   Query("user_task", "completed"), Query("user_task", "cancelled"),
                   Query("work_log", "all"), Waiting>>]

Views == DOMAIN AgendaQueries
Reviewing == load.reader = "review"
Queries == IF load.reader \in Views THEN AgendaQueries[load.reader] ELSE ReviewQueries
Sources == {"work_log", "waiting_for", "reminder", "inbox", "user_task"}

Done == Len(Queries) + 1
Failed == Len(Queries) + 2
Walking == walk \in DOMAIN Queries

ReminderStatus == {"none", "scheduled", "retrying", "failed", "triggered", "cancelled"}
InboxStatus == {"none", "pending", "processed", "dismissed"}
Dated(S) == [st : S, at : Instants]

Candidate == [source : Sources, id : Nat, section : 0..5, severity : {10, 20, 40, 50, 100}]

ReviewTypeOK ==
  /\ WaitingForTypeOK
  /\ tasks \in [Tasks -> TaskRow] /\ due \in [Tasks -> Instants \cup {NoDate}]
  /\ logs \in [Logs -> LogRow] /\ reminders \in [Reminders -> Dated(ReminderStatus)]
  /\ inbox \in [Captures -> InboxStatus] /\ young \subseteq Captures
  /\ walk \in 0..Failed /\ offset \in Nat
  /\ Walking => offset <= PageSize * Cardinality(pages)
  /\ \A c \in found \cup want : c \in Candidate
  /\ load \in Loads /\ writes \in 0..load.writes

Init ==
  /\ load \in Loads /\ writes = 0
  /\ WaitingForInit(load.stock) /\ TasksInit
  /\ due \in [Tasks -> IF load.source = "user_task" THEN load.dates ELSE {NoDate}]
  /\ logs \in load.logs /\ told = {}
  /\ reminders = [i \in Reminders |-> IF i \in load.stock THEN [st |-> "scheduled", at |-> Soon]
                                                        ELSE [st |-> "none", at |-> Past]]
  /\ inbox = [i \in Captures |-> IF i \in load.stock THEN "pending" ELSE "none"] /\ young = {}
  /\ walk = 0 /\ offset = 0 /\ pages = {} /\ found = {}
  /\ want = {} /\ touched = {} /\ partial = {}

-----------------------------------------------------------------------------
(* The list queries of the sources *)

\* The rows a query returns.
MatchingReminders(f) ==
  {i \in Reminders : LET r == reminders[i] IN
     CASE f = "today"     -> r.st # "none" /\ r.at # Later
       [] f = "pending"   -> r.st \in {"scheduled", "retrying"}
       [] f = "attention" -> r.st \in {"failed", "retrying"}
       [] f = "triggered" -> r.st = "triggered"
       [] OTHER           -> r.st # "none"}

MatchingTasks(f) ==
  {u \in Tasks :
     CASE f = "overdue"   -> tasks[u].st = "active" /\ due[u] = Past
       [] f = "due_soon"  -> tasks[u].st = "active" /\ due[u] = Soon
       [] f = "due_today" -> tasks[u].st = "active" /\ due[u] \in {Past, Soon}
       [] OTHER           -> tasks[u].st = f}

Matching(q) ==
  CASE q.source = "work_log"    -> {i \in Listed("default") : q.filter \in {"all", logs[i].st}}
    [] q.source = "waiting_for" -> {i \in Items : items[i].st # "absent"}
    [] q.source = "reminder"    -> MatchingReminders(q.filter)
    [] q.source = "inbox"       -> {i \in Captures : inbox[i] = "pending"}
    [] q.source = "user_task"   -> MatchingTasks(q.filter)

\* Their order: newest first, or by date with the identifier to decide.
Precedes(q, i, j) ==
  LET Earlier(x, y) == x < y \/ (x = y /\ i < j)
  IN  CASE q.source = "work_log"    -> ~Earlier(OccurredAt(logs[i]), OccurredAt(logs[j])) /\ i # j
        [] q.source = "inbox"       -> i > j
        [] q.source = "reminder"    -> Earlier(reminders[i].at, reminders[j].at)
        [] q.source = "waiting_for" -> \/ items[i].review < items[j].review
                                       \/ /\ items[i].review = items[j].review
                                          /\ Earlier(items[i].expected, items[j].expected)
        [] OTHER                    -> Earlier(due[i], due[j])

List(q) ==
  LET M == Matching(q)
  IN  [k \in 1..Cardinality(M) |->
         CHOOSE i \in M : Cardinality({j \in M : Precedes(q, j, i)}) = k - 1]

\* LIMIT and OFFSET.
PageAt(list) ==
  SubSeq(list, offset + 1, IF offset + PageSize < Len(list) THEN offset + PageSize ELSE Len(list))

\* Of reminders and waiting-for items the agenda asks for one page only.
OnePage(q) == ~Reviewing /\ q.source \in {"reminder", "waiting_for"}

\* Mutant: LIMIT fetches no row beyond the page to tell whether more follow.
BugMore(q, list) == FALSE
\* One row beyond the page is fetched; of user tasks, a full page may have more.
More(q, list) ==
  /\ ~OnePage(q)
  /\ IF q.source = "user_task" THEN Len(PageAt(list)) = PageSize
                               ELSE Len(list) > offset + PageSize

-----------------------------------------------------------------------------
(* What a row of a page is reported as *)

Blocked == 0
FollowUps == 1
InProgress == 2
Completed == 3
Informational == 4
PendingInbox == 5

Entry(q, i, section, severity) ==
  [source |-> q.source, id |-> i, section |-> section, severity |-> severity]

\* The candidates a row gives: pairs of a section and a severity.
LogReasons(row) ==
  {<<CASE row.st = "blocked" -> Blocked [] row.st = "in_progress" -> InProgress
       [] row.st = "completed" -> Completed [] OTHER -> Informational, 100>>}

WaitingReasons(row) ==
  (IF row.st = "resolved" THEN {<<Completed, 100>>} ELSE {})
  \cup (IF row.st = "cancelled" THEN {<<Informational, 100>>} ELSE {})
  \cup (IF row.st = "open" /\ row.expected = Past THEN {<<FollowUps, 10>>} ELSE {})
  \cup (IF row.st = "open" /\ row.review = Past THEN {<<FollowUps, 20>>} ELSE {})

ReminderReasons(row) ==
  (IF row.st = "triggered" THEN {<<Completed, 100>>} ELSE {})
  \cup (IF row.st = "failed" THEN {<<FollowUps, 10>>} ELSE {})
  \cup (IF row.st = "retrying" THEN {<<FollowUps, 20>>} ELSE {})
  \cup (IF row.st \in {"scheduled", "retrying"} /\ row.at = Soon
        THEN {<<FollowUps, 40>>} ELSE {})

\* An item captured after as_of is left out.
InboxReasons(i) == IF i \in young THEN {} ELSE {<<PendingInbox, 50>>}

TaskReasons(f) ==
  {CASE f = "completed" -> <<Completed, 100>> [] f = "cancelled" -> <<Informational, 100>>
     [] f = "overdue" -> <<FollowUps, 10>> [] OTHER -> <<FollowUps, 40>>}

ReviewReasons(q, i) ==
  CASE q.source = "work_log"    -> LogReasons(logs[i])
    [] q.source = "waiting_for" -> WaitingReasons(items[i])
    [] q.source = "reminder"    -> ReminderReasons(reminders[i])
    [] q.source = "inbox"       -> InboxReasons(i)
    [] OTHER                    -> TaskReasons(q.filter)

\* The kinds of agenda items.
AS_ATTENTION == 0
AS_ACTION == 1
AS_EVENT == 2
AS_COMPLETED == 3

AgendaLog(row) ==
  {CASE row.st = "completed" -> AS_COMPLETED [] row.st = "blocked" -> AS_ATTENTION
     [] row.st = "in_progress" -> AS_ACTION [] OTHER -> AS_EVENT}

\* _waiting_for_items: the items a view takes from the page, and as what.
AttentionDue(row) == row.st = "open" /\ (row.expected = Past \/ row.review = Past)
AgendaWaiting(row) ==
  LET live   == IF AttentionDue(row) THEN AS_ATTENTION ELSE AS_ACTION
      within(D) == row.st = "open" /\ (row.review \in D \/ row.expected \in D)
      ended  == row.st \in {"resolved", "cancelled"}
  IN  CASE load.reader = "today"     -> IF within({Past, Soon}) THEN {live} ELSE {}
        [] load.reader = "next"      -> IF within({Soon}) THEN {live} ELSE {}
        [] load.reader = "attention" -> IF AttentionDue(row) THEN {AS_ATTENTION} ELSE {}
        [] load.reader = "completed" -> IF ended THEN {AS_COMPLETED} ELSE {}
        [] load.reader = "all"       -> {IF ended THEN AS_COMPLETED ELSE live}

\* _reminder_today, _reminder_actions, _reminder_attention, ...
AgendaReminder(f, row) ==
  LET kind == CASE row.st \in {"scheduled", "retrying"} -> AS_ACTION
                [] row.st = "triggered" -> AS_EVENT [] row.st = "failed" -> AS_ATTENTION
                [] OTHER -> AS_COMPLETED
  IN  CASE f = "today"     -> IF row.st = "cancelled" THEN {} ELSE {kind}
        [] f = "pending"   -> IF row.at = Soon THEN {AS_ACTION} ELSE {}
        [] f = "attention" -> {AS_ATTENTION}
        [] f = "triggered" -> {AS_COMPLETED}
        [] OTHER           -> {kind}

AgendaTask(f) ==
  {CASE f = "overdue" -> AS_ATTENTION [] f \in Terminal -> AS_COMPLETED [] OTHER -> AS_ACTION}

AgendaKinds(q, i) ==
  CASE q.source = "work_log"    -> AgendaLog(logs[i])
    [] q.source = "waiting_for" -> AgendaWaiting(items[i])
    [] q.source = "reminder"    -> AgendaReminder(q.filter, reminders[i])
    [] OTHER                    -> AgendaTask(q.filter)

Reasons(q, i) == IF Reviewing THEN ReviewReasons(q, i) ELSE AgendaKinds(q, i) \X {100}

Candidates(q, rows) == UNION {{Entry(q, i, x[1], x[2]) : x \in Reasons(q, i)} : i \in rows}

MoreUrgent(c, d) ==
  c.section < d.section \/ (c.section = d.section /\ c.severity < d.severity)

\* _finalize: of the candidates of one object the most urgent is reported.
Selected(C) ==
  {c \in C : ~\E d \in C : d.source = c.source /\ d.id = c.id /\ MoreUrgent(d, c)}

\* The agenda puts what it has found one after the other.
Reported(C) == IF Reviewing THEN Selected(C) ELSE C

Report == Reported(found)

-----------------------------------------------------------------------------
(* DailyReviewService.get, DailyAgendaService.list *)

Everything == UNION {Candidates(q, Matching(q)) : q \in {Queries[n] : n \in DOMAIN Queries}}

\* as_of is taken, and what ought to be reported then.
Start ==
  /\ walk = 0 /\ load.reader \in Views \cup {"review"} /\ walk' = 1
  /\ offset' = 0 /\ pages' = {} /\ found' = {}
  /\ want' = Reported(Everything)
  /\ UNCHANGED <<stores, touched, partial, load, writes>>

\* One turn of _walk_pages: a page that was there before fails the review, and so
\* does a work log that cannot be shown.
ReadPage ==
  LET q == Queries[walk]
      list == List(q)
      page == PageAt(list)
      repeated == Reviewing /\ page # <<>> /\ page \in pages
      unreadable == q.source = "work_log" /\ ListFails("default")
  IN  /\ Walking
      /\ IF repeated \/ unreadable
         THEN walk' = Failed /\ UNCHANGED <<offset, pages, found>>
         ELSE /\ found' = found \cup Candidates(q, Range(page))
              /\ IF More(q, list)
                 THEN /\ offset' = offset + Len(page) /\ pages' = pages \cup {page}
                      /\ UNCHANGED walk
                 ELSE walk' = walk + 1 /\ offset' = 0 /\ pages' = {}
      /\ partial' = IF OnePage(q) /\ Len(list) > PageSize THEN partial \cup {q.source}
                                                            ELSE partial
      /\ UNCHANGED <<stores, want, touched, load, writes>>

\* A source that cannot be read fails the review, or the agenda once it has read
\* the others.
SourceFails ==
  /\ Walking /\ walk' = Failed
  /\ UNCHANGED <<stores, offset, pages, found, story, load, writes>>

-----------------------------------------------------------------------------
(* The writers *)

\* A row of source s is written.  What the walk shows of s is partial when the row
\* had been read by the walk under way.
Written(s, i) ==
  LET q == Queries[walk]
      list == List(q)
  IN  /\ s = load.source /\ i \in load.ids
      /\ walk < Done /\ writes < load.writes /\ writes' = writes + 1
      /\ touched' = IF Walking THEN touched \cup {<<s, i>>} ELSE touched
      /\ partial' = IF /\ Walking /\ q.source = s
                       /\ i \in {list[k] : k \in 1..Len(list) \cap 1..offset}
                    THEN partial \cup {s} ELSE partial
      /\ UNCHANGED <<review, want, load>>

Record(i, w, st, at) ==
  /\ Written("work_log", i) /\ CreateLog(w, i, st, at)
  /\ UNCHANGED <<items, history, held, tasks, due, reminders, inbox, young>>

File(i, w) ==
  /\ Written("work_log", i) /\ FileLog(w, i)
  /\ UNCHANGED <<items, history, held, tasks, due, reminders, inbox, young>>

\* A new reminder, its retries and its end, and a new date for it.
ReminderMoves == {<<"none", "scheduled">>, <<"scheduled", "scheduled">>,
                  <<"scheduled", "retrying">>, <<"retrying", "retrying">>,
                  <<"retrying", "failed">>, <<"failed", "scheduled">>,
                  <<"scheduled", "triggered">>, <<"retrying", "triggered">>,
                  <<"scheduled", "cancelled">>}
SetReminder(i, st, at) ==
  /\ <<reminders[i].st, st>> \in ReminderMoves
  /\ reminders[i].st # "none" /\ st # "scheduled" => at = reminders[i].at
  /\ reminders' = [reminders EXCEPT ![i] = [st |-> st, at |-> at]]

Remind(i, st, at) ==
  /\ Written("reminder", i) /\ SetReminder(i, st, at)
  /\ UNCHANGED <<items, history, held, tasks, due, logs, inbox, young, told>>

CaptureItem(i) ==
  /\ inbox[i] = "none" /\ \A j \in Captures : j < i => inbox[j] # "none"
  /\ inbox' = [inbox EXCEPT ![i] = "pending"]

Capture(i) ==
  /\ Written("inbox", i) /\ CaptureItem(i)
  /\ young' = IF walk = 0 THEN young ELSE young \cup {i}
  /\ UNCHANGED <<items, history, held, tasks, due, logs, reminders, told>>

SettleItem(i, st) == inbox[i] = "pending" /\ inbox' = [inbox EXCEPT ![i] = st]

Process(i, st) ==
  /\ Written("inbox", i) /\ SettleItem(i, st)
  /\ UNCHANGED <<items, history, held, tasks, due, logs, reminders, young, told>>

Edit(u, d) ==
  /\ Written("user_task", u)
  /\ EditTask(u) /\ due' = [due EXCEPT ![u] = d]
  /\ UNCHANGED <<items, history, held, logs, reminders, inbox, young, told>>

Finish(u, st) ==
  /\ Written("user_task", u)
  /\ Transition(tasks[u], st) = "write" /\ WriteTask(u, tasks[u], st)
  /\ UNCHANGED <<items, history, held, due, logs, reminders, inbox, young, told>>

Reopen(u) ==
  /\ Written("user_task", u) /\ ReopenTask(u)
  /\ UNCHANGED <<items, history, held, due, logs, reminders, inbox, young, told>>

Others == <<tasks, due, logs, reminders, inbox, young, told>>

Await(i, to, expected) ==
  Written("waiting_for", i) /\ CreateItem(i, to, expected) /\ UNCHANGED Others

Reply(c) ==
  \/ /\ load.source = "waiting_for" /\ c \in load.callers /\ walk < Done /\ writes < load.writes
     /\ \E i \in load.ids, o \in Operations, to \in load.dates \cup {NoDate} : ReadItem(c, i, o, to)
     /\ UNCHANGED <<Others, review, story, load, writes>>
  \/ GiveUp(c) /\ UNCHANGED <<Others, review, story, load, writes>>
  \/ WriteItem(c) /\ Written("waiting_for", held[c].item) /\ UNCHANGED Others

Next ==
  \/ Start \/ ReadPage \/ SourceFails
  \/ \E i \in Logs, w \in load.scopes :
       \/ File(i, w)
       \/ \E st \in LogStatus \ {"none"}, at \in load.dates : Record(i, w, st, at)
  \/ \E i \in Reminders, st \in ReminderStatus, at \in load.dates : Remind(i, st, at)
  \/ \E i \in Captures : Capture(i) \/ \E st \in {"processed", "dismissed"} : Process(i, st)
  \/ \E u \in Tasks : \/ Reopen(u) \/ \E st \in Terminal : Finish(u, st)
                      \/ \E d \in load.dates : Edit(u, d)
  \/ \E i \in Items, to \in load.dates, x \in {Past, NoDate} : Await(i, to, x)
  \/ \E c \in Callers : Reply(c)

Spec == Init /\ [][Next]_vars

-----------------------------------------------------------------------------
(* What the review suggests *)

\* Mutant: what has been read before it was done is suggested whatever it is now.
BugDecisions(c) ==
  CASE c.source = "user_task"   -> {"complete"}
    [] c.source = "waiting_for" -> {"follow_up"}
    [] OTHER                    -> {}
\* _DECISIONS, by what the candidate was made of.  A reminder that is retried is reported
\* as that, and nothing is suggested for it even when it is due soon.
Decisions(c) ==
  CASE c.source = "user_task" /\ c.section = FollowUps ->
         {"complete"} \cup (IF c.severity = 10 THEN {"cancel"} ELSE {})
    [] c.source = "waiting_for" /\ c.section = FollowUps -> {"follow_up"}
    [] c.source = "reminder" /\ c.section = FollowUps /\ c.severity # 20 -> {"reschedule"}
    [] c.source = "inbox" -> {"resolve", "dismiss"}
    [] OTHER -> {}

\* build_action_hints, of the review as it was put together.
Suggestions == UNION {{c} \X Decisions(c) : c \in Report}

\* What the source makes of an action for the row as it is.
Accepted(c, action) ==
  CASE action = "complete"   -> Transition(tasks[c.id], "completed") = "write"
    [] action = "cancel"     -> Transition(tasks[c.id], "cancelled") = "write"
    [] action = "follow_up"  -> Allowed("follow_up", items[c.id])
    [] action = "reschedule" -> reminders[c.id].st \notin {"none", "triggered", "cancelled"}
    [] OTHER                 -> inbox[c.id] = "pending"

-----------------------------------------------------------------------------
(* Properties *)

Of(C, s, i) == {c \in C : c.source = s /\ c.id = i}

Ids == Tasks \cup Items \cup Logs \cup Reminders \cup Captures

\* Every object that nobody wrote while the answer was put together is reported
\* as it stood, once and in its most urgent section, although other objects come,
\* move and go between the pages.  Only when an object the walk had already read
\* is written can the rows behind it slip past the next page: then what is
\* reported of the others is still right, but some may be missing.  So it is with the
\* agenda, which also leaves out what no longer fits on the one page it reads.
ReviewComplete ==
  walk = Done =>
    \A s \in Sources, i \in Ids :
      <<s, i>> \notin touched =>
        IF s \in partial THEN Of(Report, s, i) \subseteq Of(want, s, i)
                           ELSE Of(Report, s, i) = Of(want, s, i)

\* What is suggested for an object that nobody wrote while the review was put together
\* is an action its own store accepts, though the review only knows what it is reported
\* as.  (Of an item of the inbox, as long as no other resolution has claimed it.)
HintsAccepted ==
  walk = Done /\ Reviewing =>
    \A s \in Sources, i \in Ids :
      <<s, i>> \notin touched =>
        \A h \in Suggestions : h[1] \in Of(Report, s, i) => Accepted(h[1], h[2])

\* What the review says is so, and what it suggests can be done.
ReviewHolds == ReviewComplete /\ HintsAccepted
=============================================================================
