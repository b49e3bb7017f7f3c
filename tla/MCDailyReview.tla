---------------------------- MODULE MCDailyReview ----------------------------
(* An instance of CeoAssistant, and DailyReview in it, for TLC: one source  *)
(* is written at a time.                                                    *)
EXTENDS CeoAssistant, TLC

CONSTANTS c1, c2

Load(reader, s, ids, callers, n, dates) ==
  [reader |-> reader, source |-> s, ids |-> ids, callers |-> callers, writes |-> n,
   dates |-> dates, stock |-> {}, scopes |-> {"default"}, logs |-> {[i \in Logs |-> NoLog]}]

\* Two pages of rows of each source; and two callers at one waiting-for item.
OneSource ==
  {Load("review", "work_log", 1..3, {}, 3, {Past}),
   Load("review", "reminder", 1..3, {}, 4, {Soon}),
   Load("review", "inbox", 1..3, {}, 5, {NoDate}),
   Load("review", "user_task", 1..3, {}, 2, {Past, Soon}),
   [Load("review", "waiting_for", 1..3, {c1}, 3, {Past}) EXCEPT !.stock = {1}],
   Load("none", "waiting_for", {1}, {c1, c2}, 5, {NoDate, Later})}

\* Views of the agenda, with a source each: one that is walked, one that is not.
Agendas ==
  {Load("all", "user_task", 1..3, {}, 2, {Past, Soon}),
   Load("today", "user_task", 1..3, {}, 2, {Soon, Later}),
   Load("completed", "work_log", 1..3, {}, 3, {Past}),
   Load("today", "reminder", 1..3, {}, 4, {Soon, Later}),
   Load("attention", "reminder", 1..3, {}, 4, {Soon}),
   Load("next", "waiting_for", 1..3, {c1}, 3, {Past, Soon})}

\* Rows 4 and 5 become of inbox items; 5 under the identifier older versions gave it.
FromInbox == (4 :> [alias |-> FALSE, item |-> 1]) @@ (5 :> [alias |-> TRUE, item |-> 2])

\* A row of an older version, and one the inbox has noted.
OlderRow(scope, item, dates, titled) ==
  [st |-> "informational", scope |-> scope, dates |-> dates, titled |-> titled,
   item |-> item, canonical |-> FALSE]
OlderScopes == Scopes \cup {"incomplete"}
OlderDates == {<<Missing, Past, Past>>, <<Missing, Missing, Past>>, <<Unclear, Past, Past>>}
Memories == {OlderRow(w, 0, d, r) : w \in OlderScopes, d \in OlderDates, r \in BOOLEAN}
Filed == {NoLog} \cup {OlderRow(w, x, <<Past, Missing, Past>>, TRUE) : w \in OlderScopes, x \in {0, 2}}
With(a, b) == [i \in Logs |-> CASE i = 3 -> a [] i = 5 -> b [] OTHER -> NoLog]
OlderLogs == {With(a, b) : a \in Memories, b \in Filed}
Older ==
  [Load("none", "work_log", {1, 4, 5}, {}, 3, {Past}) EXCEPT
     !.scopes = Scopes, !.logs = OlderLogs]
Unreadable ==
  [Load("completed", "work_log", {1}, {}, 1, {Past}) EXCEPT
     !.logs = {With(OlderRow("incomplete", 0, <<Past, Missing, Past>>, FALSE), NoLog)}]

\* One request, next to a caller that writes the item it may name.
Asking == [Load("assistant", "waiting_for", {1}, {c1}, 1, {Soon}) EXCEPT !.stock = {1}]

AllLoads == OneSource \cup Agendas \cup {Older, Unreadable, Asking}

\* All pairs of words, and what takes more to be done.
Words ==
  DOMAIN Contained \cup
  {"view", "wait", "chase", "wf_", "WF_ID", "remind", "which", "today", "what", "work_records",
   "record", "reply", "other_day", "task", "cancel", "inbox_id", "rem_id", "ut_id", "resolve",
   "reopen", "move_to", "change_to", "query", "list", "brief", "sum_up", "yesterday", "inbox_q",
   "note", "decide", "explain", "did", "question", "blocked", "going"}
Longer ==
  {<<"inbox_id", "make_waiting", "wait", "reply", "time">>,
   <<"wf_id", "move_to", "time">>, <<"move_to", "wf_id", "time">>, <<"wf_id", "move_to", "remind", "time">>,
   <<"remind_me", "time", "task">>, <<"remind_me", "view", "time">>, <<"remember", "time", "query">>,
   <<"remind", "rem_id", "change_to", "time">>, <<"cancel", "remind", "rem_id">>,
   <<"cancel", "wf_id", "remind">>, <<"cancel_task", "ut_id", "remind_me", "time">>,
   <<"finish_task", "ut_id", "list">>, <<"task", "done", "ut_id">>, <<"did", "going", "question">>,
   <<"view", "work_records", "did">>, <<"today", "yesterday", "brief">>}
Asks == {<<w>> : w \in Words} \cup {<<v, w>> : v \in Words, w \in Words} \cup Longer
=============================================================================
