---------------------------- MODULE CeoAssistant ----------------------------
(***************************************************************************)
(* The CEO assistant (applications/ceo_assistant): a request in words is    *)
(* given an intent and an effect by the first rule that fits, and the       *)
(* handler of the intent, which looks at the words once more and for other  *)
(* words, calls the services.  It works on the stores of DailyReview while  *)
(* other callers write them.                                                *)
(*                                                                          *)
(* A text is the sequence of the words in it that some rule or handler      *)
(* looks for, apart from each other; one name stands for keywords that      *)
(* always count the same.  What else is extracted from a text, and the      *)
(* wording of answers, are left out; an identifier in a text names the      *)
(* first row of its store.                                                  *)
(***************************************************************************)
EXTENDS DailyReview

CONSTANTS
  Texts,     \* the texts users write
  Assistant  \* the assistant, as a caller of the waiting-for service

\* The row that an identifier in a text names.
First == 1

ASSUME AssistantAssumption ==
  /\ Assistant \in Callers /\ First \in Items
  /\ \A l \in Loads : l.reader = "assistant" => Assistant \notin l.callers

VARIABLES
  request,   \* the request under way
  created    \* rows added to tables that are not modelled: tasks, decisions

avars == <<request, created>>

-----------------------------------------------------------------------------
(* Words *)

\* The keywords a word contains, itself apart: "remind me" contains "remind".
Contained ==
  [waiting_q       |-> {"view", "wait"},             \* show what is waited for
   chase_history   |-> {"chase"},
   wf_id           |-> {"wf_"},
   remind_me       |-> {"remind"},
   remember        |-> {"remind_me"},                \* counts like it, without "remind"
   my_reminders    |-> {"view", "remind"},
   view_reminder   |-> {"view", "remind"},
   which_reminders |-> {"which", "remind"},
   today_what      |-> {"today", "what"},
   agenda          |-> {"today", "what"},
   work_journal    |-> {"work_records", "record"},
   no_reply        |-> {"reply"},
   who_replies     |-> {"reply"},
   make_waiting    |-> {"wait"},
   time            |-> {"other_day"},                \* tomorrow, or a date, at an hour
   finish_task     |-> {"task", "finish"},
   done            |-> {"finish"},
   cancel_task     |-> {"cancel", "task"}]

Keywords(w) == {w} \cup (IF w \in DOMAIN Contained THEN Contained[w] ELSE {})

\* What handlers see, and what the rules see, which lower the text first: an
\* identifier in capitals, or one that a letter precedes, is for handlers none.
Said(t) == UNION {Keywords(t[k]) : k \in DOMAIN t}
Lower(t) == [k \in DOMAIN t |-> IF t[k] = "WF_ID" THEN "wf_id" ELSE t[k]]

\* _is_reminder_list_query, is_work_log_query
IsReminderList(t, says) ==
  \/ t = <<"today_what">> \/ says \cap {"my_reminders", "which_reminders"} # {}
  \/ {"remind", "which"} \subseteq says
IsWorkLogQuery(says) == "work_records" \in says /\ says \cap {"view", "query", "which", "list"} # {}

\* A request for the review.  Its date must be given, or be missing from a request
\* of the generic form; another date, or two, is refused.
NamesReview(says) ==
  "brief" \in says \/ ("sum_up" \in says /\ says \cap {"today", "yesterday"} # {})
ReviewDated(t) ==
  LET says == Said(t)
  IN  /\ "other_day" \notin says /\ ~({"today", "yesterday"} \subseteq says)
      /\ says \cap {"today", "yesterday"} # {} \/ t = <<"brief">>

\* extract_waiting_for_capture_content, extract_inbox_capture_content
CapturesWait(says, starts) ==
  /\ says \cap {"view", "which", "who_replies"} = {}
  /\ \/ "wait" \in starts /\ "reply" \in says
     \/ "no_reply" \in says
     \/ "note" \in starts /\ "wait" \in says
CapturesNote(t) == t[1] = "note" /\ Len(t) > 1

\* _is_explicit_work_log
IsWorkLog(t, says) == "did" \in says /\ t[Len(t)] # "question"

-----------------------------------------------------------------------------
(* decide_intent *)

Rule(if, intent, effect) == [if |-> if, intent |-> intent, effect |-> effect]

\* The words that make a request about tasks a request for their list.
ListWords == {"view", "what", "list", "query"}

\* The rules, in their order; the last one always fits.
Rules(text) ==
  LET t      == Lower(text)
      says   == Said(t)
      starts == Keywords(t[1])
      item   == "wf_id" \in says
  IN
  <<Rule({"inbox_id", "make_waiting"} \subseteq says, "waiting_for_confirm", "write"),
    Rule({"chase_history", "wf_"} \subseteq says, "waiting_for_history", "read"),
    Rule({"waiting_q", "wf_"} \subseteq says, "waiting_for_detail", "read"),
    Rule("waiting_q" \in says, "waiting_for_list", "read"),
    Rule("view" \in starts /\ "wf_" \in says, "waiting_for_detail", "read"),
    Rule(item /\ "chase" \in starts, "waiting_for_follow_up", "write"),
    Rule(item /\ "move_to" \in says /\ "remind" \notin says, "waiting_for_snooze", "write"),
    Rule(item /\ "resolve" \in starts, "waiting_for_resolve", "write"),
    Rule(item /\ "reopen" \in starts, "waiting_for_reopen", "write"),
    Rule("remind" \in says /\ "cancel" \in starts, "reminder_cancel", "write"),
    Rule("remind_me" \in says, "task", "write"),
    Rule("remind" \in says /\ says \cap {"move_to", "change_to"} # {},
         "reminder_reschedule", "write"),
    Rule(item /\ "cancel" \in starts, "waiting_for_cancel", "write"),
    Rule(IsReminderList(t, says), "reminder_list", "read"),
    Rule(IsWorkLogQuery(says), "work_log_query", "read"),
    Rule(NamesReview(says), "brief", "read"),
    Rule("agenda" \in says, "daily_agenda", "read"),
    Rule(t = <<"inbox_q">>, "inbox_list", "read"),
    Rule("view_reminder" \in starts, "reminder_detail", "read"),
    Rule("record" \in starts, "work_log", "write"),
    Rule(CapturesWait(says, starts), "waiting_for_capture", "write"),
    Rule(CapturesNote(t), "inbox_capture", "write"),
    Rule("decide" \in says, "decision", "write"),
    Rule("task" \in says, "task", IF ListWords \cap says # {} THEN "read" ELSE "write"),
    Rule(says \cap {"explain", "query"} # {}, "knowledge", "read"),
    Rule(IsWorkLog(t, says), "work_log", "write"),
    Rule(TRUE, "chat", "chat")>>

Decision(t) ==
  LET rules == Rules(t)
  IN  rules[CHOOSE k \in DOMAIN rules : rules[k].if /\ \A j \in 1..(k - 1) : ~rules[j].if]

-----------------------------------------------------------------------------
(* run *)

LifecycleOp ==
  [waiting_for_follow_up |-> "follow_up", waiting_for_snooze |-> "snooze",
   waiting_for_resolve |-> "resolve", waiting_for_cancel |-> "cancel",
   waiting_for_reopen |-> "reopen"]

\* What each intent that writes is about; the others only read.
Announced ==
  LET Life == {"waiting_for"}
  IN  [waiting_for_follow_up |-> Life, waiting_for_snooze |-> Life,
       waiting_for_resolve |-> Life, waiting_for_cancel |-> Life, waiting_for_reopen |-> Life,
       waiting_for_confirm |-> {"inbox", "waiting_for"},
       inbox_capture |-> {"inbox"}, waiting_for_capture |-> {"inbox"},
       reminder_cancel |-> {"reminder"}, reminder_reschedule |-> {"reminder"},
       work_log |-> {"work_log"}, decision |-> {"decision"},
       task |-> {"user_task", "reminder"}]

\* _assert_effect_contract
Contract(d) ==
  CASE d.intent = "task" -> d.effect \in {"read", "write"}
    [] d.intent = "chat" -> d.effect = "chat"
    [] OTHER             -> d.effect = IF d.intent \in DOMAIN Announced THEN "write" ELSE "read"

Nothing(stage) ==
  [text |-> <<>>, intent |-> "none", effect |-> "none", stage |-> stage, rev |-> 0]
Idle == Nothing("idle")

Asked(I) == request.stage = "asked" /\ request.intent \in I
Says(w) == w \in Said(request.text)
Answered == request' = Nothing("answered")

Askable == IF load.reader = "assistant" /\ request = Idle THEN Texts ELSE {}
Ask(t) ==
  LET d == Decision(t)
  IN  /\ Contract(d)
      /\ request' = [text |-> t, intent |-> d.intent, effect |-> d.effect,
                     stage |-> "asked", rev |-> 0]
      /\ UNCHANGED <<vars, created>>

\* The services refuse or fail, or something the handler needs is not in the text.
Refused ==
  /\ request.stage \in {"asked", "seen", "acting"} /\ Answered
  /\ IF held[Assistant] # Nobody THEN GiveUp(Assistant) ELSE UNCHANGED wvars
  /\ UNCHANGED <<Others, review, story, load, writes, created>>

-----------------------------------------------------------------------------
(* The handlers *)

Beside == <<review, story, load, writes>>

Shown == Answered /\ UNCHANGED <<vars, created>>

\* What only reads: items, records, the review, the agenda, knowledge, and talk.
ShowItems ==
  Asked({"inbox_list", "waiting_for_list", "waiting_for_detail", "waiting_for_history"}) /\ Shown
ShowRecords == Asked({"reminder_list", "work_log_query"}) /\ Shown
ShowReminder == Asked({"reminder_detail"}) /\ Shown
ShowReview == Asked({"brief"}) /\ ReviewDated(request.text) /\ Shown
ShowAgenda == Asked({"daily_agenda"}) /\ Shown
ShowKnowledge == Asked({"knowledge"}) /\ Shown
Talk == Asked({"chat"}) /\ Shown

\* For an operation on no item that the handler sees, the items to choose from.
ShowCandidates == Asked(DOMAIN LifecycleOp) /\ ~Says("wf_id") /\ Shown

\* _handle_inbox_capture, _handle_waiting_for_capture: nothing but an inbox item.
CaptureText ==
  /\ Asked({"inbox_capture", "waiting_for_capture"})
  /\ \E i \in Captures : CaptureItem(i)
  /\ UNCHANGED <<wvars, tasks, due, logs, reminders, young, told>>
  /\ Answered /\ UNCHANGED <<Beside, created>>

\* _handle_waiting_for_confirm: whom to wait for, for what and until when is in the
\* text, or it is refused; the inbox item becomes a new waiting-for item.
Confirm ==
  /\ Asked({"waiting_for_confirm"}) /\ Says("reply") /\ Says("time")
  /\ SettleItem(First, "processed") /\ \E j \in Items : CreateItem(j, Soon, NoDate)
  /\ UNCHANGED <<tasks, due, logs, reminders, young, told>>
  /\ Answered /\ UNCHANGED <<Beside, created>>

\* _handle_waiting_for_lifecycle: get, for the revision that is then expected ...
LookAtItem ==
  /\ Asked(DOMAIN LifecycleOp) /\ Says("wf_id") /\ items[First].st # "absent"
  /\ request' = [request EXCEPT !.stage = "seen", !.rev = items[First].rev]
  /\ UNCHANGED <<vars, created>>

\* ... and the operation, which reads again ...
ActOnItem ==
  /\ request.stage = "seen" /\ items[First].rev = request.rev
  /\ request.intent = "waiting_for_snooze" => Says("time")
  /\ ReadItem(Assistant, First, LifecycleOp[request.intent],
              IF request.intent = "waiting_for_snooze" THEN Soon ELSE NoDate)
  /\ request' = [request EXCEPT !.stage = "acting"]
  /\ UNCHANGED <<Others, Beside, created>>

\* ... and writes.
FinishItem ==
  /\ request.stage = "acting" /\ WriteItem(Assistant)
  /\ Answered /\ UNCHANGED <<Others, Beside, created>>

\* _handle_work_log: the status is in the words.
WriteLog ==
  /\ Asked({"work_log"})
  /\ \E i \in Logs :
       CreateLog("default", i, CASE Says("blocked") \/ Says("wait") -> "blocked"
                                 [] Says("going") -> "in_progress"
                                 [] OTHER -> "completed", Past)
  /\ UNCHANGED <<wvars, tasks, due, reminders, inbox, young>>
  /\ Answered /\ UNCHANGED <<Beside, created>>

\* _reminder_target: by identifier or by title; one that fits no or several is refused.
Target(i) == Says("rem_id") => i = First

CancelReminder ==
  /\ Asked({"reminder_cancel"})
  /\ \E i \in Reminders : Target(i) /\ SetReminder(i, "cancelled", reminders[i].at)
  /\ UNCHANGED <<wvars, tasks, due, logs, inbox, young, told>>
  /\ Answered /\ UNCHANGED <<Beside, created>>

MoveReminder ==
  /\ Asked({"reminder_reschedule"}) /\ Says("time")
  /\ \E i \in Reminders :
       Target(i) /\ reminders[i].st # "none" /\ SetReminder(i, "scheduled", Later)
  /\ UNCHANGED <<wvars, tasks, due, logs, inbox, young, told>>
  /\ Answered /\ UNCHANGED <<Beside, created>>

\* Mutant: one of the words for a list is not looked for.
BugListsTasks == request.text # <<>> /\ (ListWords \ {"query"}) \cap Said(request.text) # {}
\* _handle_task: a listing first, whatever else the text says, ...
ListsTasks == request.text # <<>> /\ ListWords \cap Said(request.text) # {}

ShowTasks ==
  Asked({"task"}) /\ ListsTasks /\ Shown

\* ... then the end of a task, which must be named, ...
EndTask ==
  /\ Asked({"task"}) /\ ~ListsTasks /\ Says("ut_id")
  /\ Says("finish") \/ Says("cancel_task")
  /\ LET st == IF Says("finish") THEN "completed" ELSE "cancelled"
     IN  Transition(tasks[First], st) = "write" /\ WriteTask(First, tasks[First], st)
  /\ UNCHANGED <<wvars, due, logs, reminders, inbox, young, told>>
  /\ Answered /\ UNCHANGED <<Beside, created>>

\* ... and else a new task, with a reminder when one is asked for, at a time.
NewTask ==
  /\ Asked({"task"}) /\ ~ListsTasks /\ ~Says("finish") /\ ~Says("cancel_task")
  /\ IF Says("remind_me")
     THEN Says("time") /\ \E i \in Reminders :
            reminders[i].st = "none" /\ SetReminder(i, "scheduled", Soon)
     ELSE UNCHANGED reminders
  /\ created' = created \cup {"user_task"}
  /\ UNCHANGED <<wvars, tasks, due, logs, inbox, young, told>>
  /\ Answered /\ UNCHANGED Beside

\* _handle_decision: a memory.
SaveDecision ==
  /\ Asked({"decision"}) /\ created' = created \cup {"decision"}
  /\ Answered /\ UNCHANGED vars

-----------------------------------------------------------------------------
AssistantInit == Init /\ request = Idle /\ created = {}

AssistantNext ==
  \/ Start /\ UNCHANGED avars
  \/ ReadPage /\ UNCHANGED avars
  \/ SourceFails /\ UNCHANGED avars
  \/ \E i \in Logs, w \in load.scopes :
       \/ File(i, w) /\ UNCHANGED avars
       \/ \E st \in LogStatus \ {"none"}, at \in load.dates :
            Record(i, w, st, at) /\ UNCHANGED avars
  \/ \E i \in Reminders, st \in ReminderStatus, at \in load.dates :
       Remind(i, st, at) /\ UNCHANGED avars
  \/ \E i \in Captures :
       \/ Capture(i) /\ UNCHANGED avars
       \/ \E st \in {"processed", "dismissed"} : Process(i, st) /\ UNCHANGED avars
  \/ \E u \in Tasks :
       \/ Reopen(u) /\ UNCHANGED avars
       \/ \E st \in Terminal : Finish(u, st) /\ UNCHANGED avars
       \/ \E d \in load.dates : Edit(u, d) /\ UNCHANGED avars
  \/ \E i \in Items, to \in load.dates, x \in {Past, NoDate} :
       Await(i, to, x) /\ UNCHANGED avars
  \/ \E c \in load.callers : Reply(c) /\ UNCHANGED avars
  \/ \E t \in Askable : Ask(t)
  \/ Refused \/ ShowItems \/ ShowRecords \/ ShowReminder \/ ShowReview \/ ShowAgenda
  \/ ShowKnowledge \/ Talk \/ ShowCandidates \/ CaptureText \/ Confirm
  \/ LookAtItem \/ ActOnItem \/ FinishItem
  \/ WriteLog \/ CancelReminder \/ MoveReminder
  \/ ShowTasks \/ EndTask \/ NewTask \/ SaveDecision

AssistantSpec == AssistantInit /\ [][AssistantNext]_<<vars, avars>>

-----------------------------------------------------------------------------
(* Properties *)

\* The stores a step changes.
Changed ==
  {s \in Sources \cup {"decision"} :
     CASE s = "waiting_for" -> items' # items \/ history' # history
       [] s = "inbox"       -> inbox' # inbox
       [] s = "reminder"    -> reminders' # reminders
       [] s = "work_log"    -> logs' # logs
       [] s = "user_task"   -> tasks' # tasks \/ ("user_task" \in created' \ created)
       [] s = "decision"    -> "decision" \in created' \ created}

\* A request changes nothing but what it was announced to write, and nothing at all
\* when it was announced as a question or as talk, although the rules that announce
\* it and the handlers that act read the text separately.  An operation on a
\* waiting-for item is done on the revision the assistant had looked at.
EffectHolds ==
  [][request' # request =>
       /\ Changed \subseteq IF request.effect = "write" THEN Announced[request.intent] ELSE {}
       /\ items'[First] # items[First] => items[First].rev = request.rev]_<<vars, avars>>
=============================================================================
