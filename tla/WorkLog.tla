------------------------------- MODULE WorkLog -------------------------------
(***************************************************************************)
(* The work log (core/work_log): records kept as rows of the episodic       *)
(* memory table, which older versions filled with rows of their own making. *)
(* A row is inserted and never written again.  What a reader sees of it is a *)
(* projection under an identifier that may differ from the row's: wl_ rows  *)
(* keep theirs, rows of older versions are shown as wl_legacy_ and the hash *)
(* of theirs, and of these the rows an inbox item became can also be asked  *)
(* for by the identifier the inbox has noted, inbox_wl_.                    *)
(*                                                                          *)
(* The text, tags, target and context references of a record are left out.  *)
(***************************************************************************)
EXTENDS Naturals

CONSTANTS
  Logs,       \* row identifiers
  Derived     \* those made from an inbox item: id -> [alias, item], alias when it
              \* is inbox_wl_ and not wl_

ASSUME DerivedAssumption ==
  /\ DOMAIN Derived \subseteq Logs
  /\ \A i \in DOMAIN Derived : Derived[i] \in [alias : BOOLEAN, item : Nat \ {0}]

VARIABLES
  logs,       \* table episodic_memories, rows of type work_log
  told        \* history: the records given out, under the name and scope given

lvars == <<logs, told>>

LogStatus == {"none", "blocked", "in_progress", "completed", "informational"}

\* The workspaces; a row of an older version may not name its own completely.
Scopes == {"default", "other"}

\* How the identifier of a row looks.
Canonical(i) == IF i \in DOMAIN Derived THEN ~Derived[i].alias ELSE logs[i].canonical
Alias(i) == i \in DOMAIN Derived /\ Derived[i].alias

\* A date that is not there, or no date; a local time that there was twice, or never.
Missing == 0
Unclear == 5

LogRow == [st : LogStatus, scope : Scopes \cup {"incomplete"},
           dates : [1..3 -> 0..5],  \* occurred_at, date, timestamp
           titled : BOOLEAN,        \* has a subject, or a text to take it from
           item : Nat,              \* inbox_item_id with source inbox, 0 for none
           canonical : BOOLEAN]

Log(st, at, scope, item) ==
  [st |-> st, scope |-> scope, dates |-> <<at, Missing, at>>, titled |-> TRUE,
   item |-> item, canonical |-> TRUE]
NoLog == Log("none", 1, "default", 0)

-----------------------------------------------------------------------------
(* The repository *)

\* _legacy_occurred_at: the first of the dates that is one.
OccurredAt(row) ==
  LET D == {k \in 1..3 : row.dates[k] # Missing}
  IN  IF D = {} THEN Missing ELSE row.dates[CHOOSE k \in D : \A j \in D : k <= j]

\* What a row of an older version needs to be shown; nothing is made up for it.
Readable(row) ==
  /\ row.titled
  /\ OccurredAt(row) \notin {Missing, Unclear}
  /\ row.dates[3] \notin {Missing, Unclear}

\* Mutant: a row without a complete workspace is shown to everyone.
BugVisible(w, i) == logs[i].st # "none" /\ logs[i].scope \in {w, "incomplete"}
\* _visible_rows_sql: the rows of a workspace; to the default one belong also those
\* that name no workspace, or only a part of one.
Visible(w, i) ==
  /\ logs[i].st # "none"
  /\ logs[i].scope = w \/ (logs[i].scope = "incomplete" /\ w = "default")

\* The same with require_complete_workspace.
Owned(w, i) == Visible(w, i) /\ logs[i].scope # "incomplete"

\* list: one row that cannot be shown safely fails the whole query.
ListFails(w) == \E i \in Logs : Visible(w, i) /\ ~Readable(logs[i])
Listed(w) == {i \in Logs : Visible(w, i)}

\* The identifier a record is shown under.
NameOf(i) == [legacy |-> ~Canonical(i), id |-> i]

\* What the inbox noted proves itself: the row is what became of that very item.
Proven(i) == logs[i].item # 0 /\ logs[i].item = Derived[i].item

\* get: whether an identifier leads to a record of a workspace.  One that is derived
\* from the row's identifier is looked for among all rows a list would show.
Found(w, name) ==
  LET i == name.id
  IN  /\ IF name.legacy THEN Visible(w, i) ELSE Owned(w, i)
      /\ Readable(logs[i])
      /\ name.legacy \/ Canonical(i) \/ (Alias(i) /\ Proven(i))

\* INSERT: an identifier that exists is a conflict.
Taken(i) == logs[i].st # "none"

Insert(i, row) == logs' = [logs EXCEPT ![i] = row]

-----------------------------------------------------------------------------
(* WorkLogService *)

Tell(w, i) == told' = told \cup {[scope |-> w, name |-> NameOf(i), row |-> logs'[i]]}

\* create: an identifier is drawn, and drawn again while it is taken.
CreateLog(w, i, st, at) ==
  /\ i \notin DOMAIN Derived /\ ~Taken(i)
  /\ Insert(i, Log(st, at, w, 0)) /\ Tell(w, i)

\* create_from_inbox: under the identifier the inbox has reserved.  When it is taken,
\* by a call before this one, the row is read and must be of the same item.
FileLog(w, i) ==
  /\ i \in DOMAIN Derived
  /\ IF Taken(i)
     THEN /\ Found(w, [legacy |-> FALSE, id |-> i]) /\ logs[i].item = Derived[i].item
          /\ UNCHANGED logs
     ELSE Insert(i, Log("completed", 1, w, Derived[i].item))
  /\ Tell(w, i)

-----------------------------------------------------------------------------
(* Properties *)

\* A record that was given out is there for good, the same and under the same
\* identifier, whatever is created, filed again or was there before.
RecordsKept == \A t \in told : t.row = logs[t.name.id] /\ Found(t.scope, t.name)

\* Listing and asking agree, in every workspace: what a list shows is found under
\* the identifier it is shown with, what is found would be listed, the identifier
\* the inbox has noted leads to the same record, and no record is seen from two
\* workspaces.
LogsScoped ==
  \A i \in Logs : Taken(i) =>
    /\ \A w \in Scopes :
         /\ ~ListFails(w) => (Visible(w, i) <=> Found(w, NameOf(i)))
         /\ Found(w, [legacy |-> FALSE, id |-> i]) => Found(w, [legacy |-> TRUE, id |-> i])
    /\ ~(Found("default", NameOf(i)) /\ Found("other", NameOf(i)))

\* Who was told of a record finds it again, where it may be seen and nowhere else.
LogsHold == RecordsKept /\ LogsScoped
=============================================================================
