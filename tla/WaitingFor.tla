------------------------------ MODULE WaitingFor ------------------------------
(***************************************************************************)
(* The waiting-for items (core/waiting_for): a snapshot row per item and an *)
(* append-only history of its events, in one database.                      *)
(*                                                                          *)
(* An operation reads the row (get), decides on that copy, and then writes  *)
(* the new row and its event in one transaction, which is refused when the  *)
(* row has moved on or the event's sequence number is taken.  Callers of    *)
(* several processes come in between.  held is the copy a caller decides    *)
(* on.  The event bus is told after the commit and its failure only shows   *)
(* in health, so it is left out.                                            *)
(***************************************************************************)
EXTENDS Naturals, Sequences

CONSTANTS
  Items,        \* item identifiers, in the order of their creation
  Callers,
  MaxRevision   \* bound: a row at this revision is not written any more

\* Instants, as the services tell them apart: before now, within the next day,
\* later; no date at all sorts last.
Past == 1
Soon == 2
Later == 3
NoDate == 4
Instants == {Past, Soon, Later}

ItemStatus == {"absent", "open", "resolved", "cancelled"}
ItemRow == [st : ItemStatus, review : Instants \cup {NoDate},
            expected : {Past, NoDate}, rev : Nat]

Item(st, review, expected, rev) ==
  [st |-> st, review |-> review, expected |-> expected, rev |-> rev]

Absent == Item("absent", NoDate, NoDate, 0)

Operations == {"follow_up", "snooze", "resolve", "cancel", "reopen"}

\* to is next_review_at of the request; from what the row had before it.
Event(seq, type, from, to) == [seq |-> seq, type |-> type, from |-> from, to |-> to]

Nobody == [item |-> 0, op |-> "none", to |-> NoDate, copy |-> Absent]

VARIABLES
  items,     \* table waiting_for_items
  history,   \* table waiting_for_events: item -> events in the order of insertion
  held       \* caller -> the operation it is in, with the row it has read

wvars == <<items, history, held>>

WaitingForTypeOK ==
  /\ items \in [Items -> ItemRow]
  /\ \A i \in Items : /\ Len(history[i]) <= MaxRevision
                      /\ items[i].st = "absent" <=> history[i] = <<>>
  /\ \A c \in Callers : held[c] # Nobody =>
       /\ held[c].item \in Items /\ held[c].op \in Operations
       /\ held[c].copy \in ItemRow /\ held[c].copy.rev \in 1..items[held[c].item].rev

\* stock: the items that are there already.
WaitingForInit(stock) ==
  /\ items = [i \in Items |-> IF i \in stock THEN Item("open", Soon, NoDate, 1) ELSE Absent]
  /\ history = [i \in Items |->
       IF i \in stock THEN <<Event(1, "create", NoDate, NoDate)>> ELSE <<>>]
  /\ held = [c \in Callers |-> Nobody]

-----------------------------------------------------------------------------
\* create: the first row and event; an identifier that exists is a conflict.
CreateItem(i, review, expected) ==
  /\ items[i].st = "absent" /\ \A j \in Items : j < i => items[j].st # "absent"
  /\ items' = [items EXCEPT ![i] = Item("open", review, expected, 1)]
  /\ history' = [history EXCEPT ![i] = <<Event(1, "create", NoDate, NoDate)>>]
  /\ UNCHANGED held

\* _require_open, and its opposite in reopen.
Allowed(o, row) == IF o = "reopen" THEN row.st # "open" ELSE row.st = "open"

\* The row an operation leaves.
Updated(o, row, to) ==
  LET st     == CASE o = "resolve" -> "resolved" [] o = "cancel" -> "cancelled"
                  [] OTHER -> "open"
      review == CASE o \in {"resolve", "cancel"} -> NoDate
                  [] o = "follow_up" /\ to = NoDate -> row.review
                  [] OTHER -> to
  IN  Item(st, review, row.expected, row.rev + 1)

\* get, and the checks on the copy.  expected_revision is the revision of a row
\* the caller has seen: one that is not the copy's ends the call here.
ReadItem(c, i, o, to) ==
  /\ held[c] = Nobody /\ items[i].st # "absent" /\ items[i].rev < MaxRevision
  /\ Allowed(o, items[i])
  /\ o = "snooze" => to # NoDate
  /\ o \in {"resolve", "cancel"} => to = NoDate
  /\ held' = [held EXCEPT ![c] = [item |-> i, op |-> o, to |-> to, copy |-> items[i]]]
  /\ UNCHANGED <<items, history>>

\* Mutant: neither the revision nor the sequence number is compared.
BugCommits(i, copy) == TRUE
\* UPDATE ... WHERE revision=?, and UNIQUE(waiting_for_id, sequence).
Commits(i, copy) ==
  /\ items[i].rev = copy.rev
  /\ \A k \in DOMAIN history[i] : history[i][k].seq # copy.rev + 1

WriteItem(c) ==
  LET i == held[c].item
      copy == held[c].copy
      dated == held[c].op \in {"follow_up", "snooze"} /\ held[c].to # NoDate
  IN  /\ held[c] # Nobody /\ Commits(i, copy)
      /\ items' = [items EXCEPT ![i] = Updated(held[c].op, copy, held[c].to)]
      /\ history' = [history EXCEPT ![i] =
           Append(@, Event(copy.rev + 1, held[c].op,
                           IF dated THEN copy.review ELSE NoDate,
                           IF dated THEN held[c].to ELSE NoDate))]
      /\ held' = [held EXCEPT ![c] = Nobody]

\* The write is refused, the database fails, or the caller dies.
GiveUp(c) ==
  /\ held[c] # Nobody /\ held' = [held EXCEPT ![c] = Nobody]
  /\ UNCHANGED <<items, history>>

-----------------------------------------------------------------------------
\* The status after an event.
Outcome(type) ==
  CASE type = "resolve" -> "resolved" [] type = "cancel" -> "cancelled" [] OTHER -> "open"

\* The history of an item is the story of its row, although callers overlap: numbered
\* without gap, each event possible after the one before, each new review date
\* replacing the one the event before had set, and the last one giving the row.
HistoryReplays ==
  \A i \in Items :
    LET h == history[i]
    IN  /\ items[i].rev = Len(h)
        /\ h # <<>> => items[i].st = Outcome(h[Len(h)].type)
        /\ \A k \in DOMAIN h :
             /\ h[k].seq = k
             /\ (h[k].type = "create") <=> (k = 1)
             /\ k > 1 =>
                  /\ (h[k].type = "reopen") <=> (Outcome(h[k-1].type) # "open")
                  /\ (h[k].to # NoDate /\ h[k-1].to # NoDate) => h[k].from = h[k-1].to
        /\ (h # <<>> /\ h[Len(h)].to # NoDate) => items[i].review = h[Len(h)].to
=============================================================================
