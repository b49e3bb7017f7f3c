-------------------------- MODULE CeoAssistantProofs --------------------------
(***************************************************************************)
(* What holds of the stores of the assistant whoever writes them.  Every    *)
(* step does to the waiting-for tables and to the work log one of the few   *)
(* things WaitingFor and WorkLog define (WaitingStep, LogStep), so the      *)
(* invariants of the two stores are proved against those alone.  The review *)
(* and the agenda are proved complete from where a row stands in the list   *)
(* of its query (Place), and from how a write moves the others (RankMoves). *)
(***************************************************************************)
EXTENDS CeoAssistant, FiniteSetTheorems, NaturalsInduction, SequenceTheorems,
  WellFoundedInduction, TLAPS

Dates == Instants \cup {NoDate}

EventRow == [seq : Nat, type : Operations \cup {"create"}, from : Dates, to : Dates]

\* An operation under way: it was allowed on the copy, and the copy is the row as
\* long as nobody else has written it.
CopyHolds(h, rows) ==
  h.copy.rev <= rows[h.item].rev /\ (h.copy.rev = rows[h.item].rev => h.copy = rows[h.item])

InHand(h) ==
  /\ h.item \in Items /\ h.op \in Operations /\ h.to \in Dates /\ h.copy \in ItemRow
  /\ h.copy.st # "absent" /\ Allowed(h.op, h.copy)
  /\ h.op = "snooze" => h.to # NoDate
  /\ h.op \in {"resolve", "cancel"} => h.to = NoDate
  /\ CopyHolds(h, items)

RowsOK ==
  /\ items \in [Items -> ItemRow]
  /\ history \in [Items -> Seq(EventRow)]
  /\ \A i \in Items : /\ items[i].st = "absent" <=> history[i] = <<>>
                      /\ items[i].st = "absent" => items[i] = Absent

WaitingInv ==
  /\ RowsOK
  /\ DOMAIN held = Callers
  /\ \A c \in Callers : held[c] # Nobody => InHand(held[c])
  /\ HistoryReplays

\* What became of an identifier; the records given out.
LogInv ==
  /\ logs \in [Logs -> LogRow]
  /\ \A i \in Logs : /\ ~Taken(i) => logs[i] = NoLog
                     /\ Canonical(i) => logs[i].scope # "incomplete"
  /\ \A t \in told :
       /\ t.name.id \in Logs /\ Taken(t.name.id)
       /\ t.row = logs[t.name.id] /\ Found(t.scope, t.name)

\* The request under way: what was announced for its intent, and that one announced
\* as a question about tasks is one for their list; the row it has looked at.
RequestInv ==
  /\ DOMAIN request = {"text", "intent", "effect", "stage", "rev"}
  /\ request # Idle => load.reader = "assistant"
  /\ request.stage \in {"idle", "asked", "seen", "acting", "answered"}
  /\ request.stage \in {"asked", "seen", "acting"} =>
       /\ request.effect # "write" => request.intent \notin DOMAIN Announced \ {"task"}
       /\ request.intent = "task" /\ request.effect # "write" => ListsTasks
  /\ request.stage = "asked" => request.rev = 0
  /\ request.stage \in {"seen", "acting"} => request.intent \in DOMAIN LifecycleOp
  /\ request.stage = "acting" =>
       /\ held[Assistant] # Nobody /\ held[Assistant].item = First
       /\ held[Assistant].copy.rev = request.rev

AssistantInv == load \in Loads /\ WaitingInv /\ LogInv /\ RequestInv

-----------------------------------------------------------------------------
(* What a step does to the two stores *)

WaitingStep ==
  \/ UNCHANGED wvars
  \/ \E i \in Items, to \in Dates, x \in {Past, NoDate} : CreateItem(i, to, x)
  \/ \E c \in Callers :
       \/ \E i \in Items, o \in Operations, to \in Dates : ReadItem(c, i, o, to)
       \/ WriteItem(c) \/ GiveUp(c)

LogStep ==
  \/ UNCHANGED lvars
  \/ \E i \in Logs, w \in Scopes :
       \/ FileLog(w, i)
       \/ \E st \in LogStatus \ {"none"}, at \in Dates : CreateLog(w, i, st, at)

-----------------------------------------------------------------------------
(* The history of one item *)

Replays(row, h) ==
  /\ row.rev = Len(h)
  /\ h # <<>> => row.st = Outcome(h[Len(h)].type)
  /\ \A k \in DOMAIN h :
       /\ h[k].seq = k
       /\ (h[k].type = "create") <=> (k = 1)
       /\ k > 1 =>
            /\ (h[k].type = "reopen") <=> (Outcome(h[k-1].type) # "open")
            /\ (h[k].to # NoDate /\ h[k-1].to # NoDate) => h[k].from = h[k-1].to
  /\ (h # <<>> /\ h[Len(h)].to # NoDate) => row.review = h[Len(h)].to

LEMMA HistoryByItem == HistoryReplays <=> \A i \in Items : Replays(items[i], history[i])
  BY DEF HistoryReplays, Replays

LEMMA OutcomeOfReplay ==
  ASSUME NEW row, NEW h \in Seq(EventRow), Replays(row, h), h # <<>>
  PROVE  /\ Len(h) \in Nat \ {0} /\ h[Len(h)] \in EventRow
         /\ row.st = Outcome(h[Len(h)].type) /\ row.st \in ItemStatus \ {"absent"}
<1>1. Len(h) \in Nat \ {0} /\ h[Len(h)] \in EventRow
  OBVIOUS
<1>2. row.st = Outcome(h[Len(h)].type)
  BY DEF Replays
<1>3. Outcome(h[Len(h)].type) \in {"open", "resolved", "cancelled"}
  BY DEF Outcome
<1> QED
  BY <1>1, <1>2, <1>3 DEF ItemStatus

\* An event that may follow the last one, with the row it gives.
LEMMA AppendReplays ==
  ASSUME NEW row, NEW next, NEW h \in Seq(EventRow), NEW e \in EventRow,
         Replays(row, h), h # <<>>,
         e.seq = row.rev + 1, next.rev = row.rev + 1, e.type # "create",
         next.st = Outcome(e.type),
         (e.type = "reopen") <=> (row.st # "open"),
         e.to # NoDate => e.from = row.review /\ next.review = e.to
  PROVE  Replays(next, Append(h, e))
<1> DEFINE g == Append(h, e)
<1>1. /\ Len(h) \in Nat \ {0} /\ Len(g) = Len(h) + 1 /\ g # <<>>
      /\ DOMAIN g = 1..(Len(h) + 1) /\ DOMAIN h = 1..Len(h)
      /\ g[Len(h) + 1] = e /\ \A k \in 1..Len(h) : g[k] = h[k]
  OBVIOUS
<1> HIDE DEF g
<1>2. next.rev = Len(g) /\ next.st = Outcome(g[Len(g)].type)
  BY <1>1 DEF Replays
<1>3. g[Len(g)].to # NoDate => next.review = g[Len(g)].to
  BY <1>1
<1>4. ASSUME NEW k \in DOMAIN g
      PROVE  /\ g[k].seq = k
             /\ (g[k].type = "create") <=> (k = 1)
             /\ k > 1 =>
                  /\ (g[k].type = "reopen") <=> (Outcome(g[k-1].type) # "open")
                  /\ (g[k].to # NoDate /\ g[k-1].to # NoDate) => g[k].from = g[k-1].to
  <2>1. CASE k = Len(h) + 1
    <3>1. g[k] = e /\ g[k-1] = h[Len(h)] /\ k > 1
      BY <1>1, <2>1
    <3>2. row.st = Outcome(h[Len(h)].type) /\ e.seq = k
      BY <1>1, <2>1 DEF Replays
    <3>3. (e.to # NoDate /\ h[Len(h)].to # NoDate) => e.from = h[Len(h)].to
      BY DEF Replays
    <3> QED
      BY <3>1, <3>2, <3>3
  <2>2. CASE k \in 1..Len(h)
    <3>1. g[k] = h[k] /\ (k > 1 => g[k-1] = h[k-1]) /\ k \in DOMAIN h
      BY <1>1, <2>2
    <3> QED
      BY <3>1 DEF Replays
  <2> QED
    BY <1>1, <2>1, <2>2
<1> QED
  BY <1>2, <1>3, <1>4 DEF g, Replays
-----------------------------------------------------------------------------
(* The waiting-for tables *)

LEMMA UpdatedRow ==
  ASSUME NEW o \in Operations, NEW row \in ItemRow, NEW to \in Dates,
         o \in {"resolve", "cancel"} => to = NoDate
  PROVE  /\ Updated(o, row, to) \in ItemRow
         /\ Updated(o, row, to).st = Outcome(o) /\ Updated(o, row, to).st # "absent"
         /\ Updated(o, row, to).rev = row.rev + 1
         /\ (o \in {"follow_up", "snooze"} /\ to # NoDate) => Updated(o, row, to).review = to
<1> DEFINE st     == CASE o = "resolve" -> "resolved" [] o = "cancel" -> "cancelled"
                       [] OTHER -> "open"
           date == CASE o \in {"resolve", "cancel"} -> NoDate
                     [] o = "follow_up" /\ to = NoDate -> row.review
                     [] OTHER -> to
<1>1. Updated(o, row, to) = Item(st, date, row.expected, row.rev + 1)
  BY DEF Updated
<1>2. st \in {"open", "resolved", "cancelled"} /\ st = Outcome(o)
  BY DEF Outcome
<1>3. /\ date \in Dates
      /\ (o \in {"follow_up", "snooze"} /\ to # NoDate) => date = to
  BY DEF ItemRow, Dates
<1> HIDE DEF st, date
<1>4. row.expected \in {Past, NoDate} /\ row.rev + 1 \in Nat
  BY DEF ItemRow
<1> QED
  BY <1>1, <1>2, <1>3, <1>4 DEF Item, ItemRow, ItemStatus, Dates

\* A row that is new or moves on by one revision leaves the others and the copies that
\* callers hold as they were.
LEMMA RowMoves ==
  ASSUME WaitingInv, NEW i \in Items, NEW row \in ItemRow, NEW h \in Seq(EventRow),
         items' = [items EXCEPT ![i] = row], history' = [history EXCEPT ![i] = h],
         row.st # "absent", h # <<>>, row.rev > items[i].rev, Replays(row, h)
  PROVE  /\ RowsOK'
         /\ HistoryReplays'
         /\ \A c \in Callers : held[c] # Nobody => CopyHolds(held[c], items')
<1>1. items \in [Items -> ItemRow] /\ history \in [Items -> Seq(EventRow)]
  BY DEF WaitingInv, RowsOK
<1>2. items'[i] = row /\ history'[i] = h
  BY <1>1
<1>3. \A j \in Items : j # i => items'[j] = items[j] /\ history'[j] = history[j]
  BY <1>1
<1>4. items' \in [Items -> ItemRow] /\ history' \in [Items -> Seq(EventRow)]
  BY <1>1
<1>5. \A j \in Items : /\ items'[j].st = "absent" <=> history'[j] = <<>>
                       /\ items'[j].st = "absent" => items'[j] = Absent
  BY <1>2, <1>3 DEF WaitingInv, RowsOK
<1>6. \A j \in Items : Replays(items'[j], history'[j])
  BY <1>2, <1>3, HistoryByItem DEF WaitingInv, RowsOK
<1>7. HistoryReplays'
  BY <1>6 DEF HistoryReplays, Replays
<1>8. ASSUME NEW c \in Callers, held[c] # Nobody
      PROVE  CopyHolds(held[c], items')
  <2> DEFINE j == held[c].item
             copy == held[c].copy
  <2>1. InHand(held[c])
    BY <1>8 DEF WaitingInv, RowsOK
  <2>2. j \in Items /\ copy.rev \in Nat /\ items[j].rev \in Nat /\ row.rev \in Nat
    BY <1>1, <2>1 DEF InHand, CopyHolds, ItemRow
  <2>3. CASE j = i
    BY <1>2, <2>1, <2>2, <2>3 DEF InHand, CopyHolds
  <2>4. CASE j # i
    BY <1>3, <2>1, <2>2, <2>4 DEF InHand, CopyHolds
  <2> QED
    BY <2>3, <2>4
<1>9. RowsOK'
  BY <1>4, <1>5 DEF RowsOK
<1> QED
  BY <1>7, <1>8, <1>9

LEMMA CreateKeeps ==
  ASSUME WaitingInv, NEW i \in Items, NEW to \in Dates, NEW x \in {Past, NoDate},
         CreateItem(i, to, x)
  PROVE  WaitingInv'
<1> DEFINE row == Item("open", to, x, 1)
           e == Event(1, "create", NoDate, NoDate)
<1>1. row \in ItemRow /\ row.st = "open" /\ row.rev = 1
  BY DEF Item, ItemRow, ItemStatus, Dates
<1>2. e \in EventRow /\ e.seq = 1 /\ e.type = "create" /\ e.to = NoDate
  BY DEF Event, EventRow, Dates
<1>3. items[i].rev = 0
  <2>1. items[i] = Absent
    BY DEF CreateItem, WaitingInv, RowsOK
  <2> QED
    BY <2>1 DEF Absent, Item
<1>4. /\ items' = [items EXCEPT ![i] = row] /\ history' = [history EXCEPT ![i] = <<e>>]
      /\ held' = held
  BY DEF CreateItem
<1> HIDE DEF row, e
<1>5. /\ <<e>> \in Seq(EventRow) /\ <<e>> # <<>> /\ Len(<<e>>) = 1 /\ DOMAIN <<e>> = 1..1
      /\ <<e>>[1] = e
  BY <1>2
<1>6. Replays(row, <<e>>)
  <2>1. Outcome("create") = "open"
    BY DEF Outcome
  <2> QED
    BY <1>1, <1>2, <1>5, <2>1 DEF Replays
<1>7. row.st # "absent" /\ row.rev > items[i].rev
  BY <1>1, <1>3
<1>8. /\ RowsOK'
      /\ HistoryReplays'
      /\ \A c \in Callers : held[c] # Nobody => CopyHolds(held[c], items')
  BY <1>1, <1>4, <1>5, <1>6, <1>7, RowMoves
<1>9. \A c \in Callers : held'[c] # Nobody => InHand(held[c])'
  BY <1>4, <1>8 DEF WaitingInv, RowsOK, InHand
<1> QED
  BY <1>4, <1>8, <1>9 DEF WaitingInv, RowsOK

LEMMA ReadKeeps ==
  ASSUME WaitingInv, NEW c \in Callers, NEW i \in Items, NEW o \in Operations,
         NEW to \in Dates, ReadItem(c, i, o, to)
  PROVE  WaitingInv'
<1> DEFINE k == [item |-> i, op |-> o, to |-> to, copy |-> items[i]]
<1>1. k.item = i /\ k.op = o /\ k.to = to /\ k.copy = items[i]
  OBVIOUS
<1>2. held' = [held EXCEPT ![c] = k] /\ UNCHANGED <<items, history>>
  BY DEF ReadItem
<1> HIDE DEF k
<1>3. items[i] \in ItemRow /\ items[i].rev \in Nat
  BY DEF WaitingInv, RowsOK, ItemRow
<1>4. InHand(k)
  BY <1>1, <1>3 DEF InHand, CopyHolds, ReadItem
<1>5. \A d \in Callers : held'[d] # Nobody => InHand(held'[d])
  BY <1>2, <1>4 DEF WaitingInv, RowsOK
<1>6. \A d \in Callers : held'[d] # Nobody => InHand(held[d])'
  BY <1>2, <1>5 DEF InHand
<1>7. DOMAIN held' = Callers
  BY <1>2 DEF WaitingInv, RowsOK
<1> QED
  BY <1>2, <1>6, <1>7 DEF WaitingInv, RowsOK, HistoryReplays

LEMMA GiveUpKeeps ==
  ASSUME WaitingInv, NEW c \in Callers, GiveUp(c)
  PROVE  WaitingInv'
<1>1. held' = [held EXCEPT ![c] = Nobody] /\ UNCHANGED <<items, history>>
  BY DEF GiveUp
<1>2. DOMAIN held' = Callers /\ \A d \in Callers : held'[d] # Nobody => held'[d] = held[d]
  BY <1>1 DEF WaitingInv, RowsOK
<1>3. \A d \in Callers : held'[d] # Nobody => InHand(held[d])'
  BY <1>1, <1>2 DEF WaitingInv, RowsOK, InHand
<1> QED
  BY <1>1, <1>2, <1>3 DEF WaitingInv, RowsOK, HistoryReplays

\* The write goes through only on the copy that is still the row.
LEMMA WriteKeeps ==
  ASSUME WaitingInv, NEW c \in Callers, WriteItem(c)
  PROVE  WaitingInv'
<1> DEFINE i == held[c].item
           o == held[c].op
           to == held[c].to
           copy == held[c].copy
           dated == o \in {"follow_up", "snooze"} /\ to # NoDate
           row == Updated(o, copy, to)
           e == Event(copy.rev + 1, o, IF dated THEN copy.review ELSE NoDate,
                                       IF dated THEN to ELSE NoDate)
<1>1. held[c] # Nobody /\ InHand(held[c])
  BY DEF WriteItem, WaitingInv, RowsOK
<1>2. /\ i \in Items /\ o \in Operations /\ to \in Dates /\ copy \in ItemRow
      /\ copy = items[i] /\ copy.st # "absent" /\ Allowed(o, copy)
      /\ o \in {"resolve", "cancel"} => to = NoDate
  BY <1>1 DEF InHand, CopyHolds, WriteItem, Commits
<1>3. /\ row \in ItemRow /\ row.st = Outcome(o) /\ row.st # "absent"
      /\ row.rev = copy.rev + 1 /\ (dated => row.review = to)
  BY <1>2, UpdatedRow
<1>4. copy.rev \in Nat /\ copy.review \in Dates
  BY <1>2 DEF ItemRow, Dates
<1>5. /\ e \in EventRow /\ e.seq = copy.rev + 1 /\ e.type = o
      /\ e.to # NoDate => dated /\ e.to = to /\ e.from = copy.review
  <2>1. NoDate \in Dates /\ o \in Operations \cup {"create"} /\ copy.rev + 1 \in Nat
    BY <1>2, <1>4 DEF Dates
  <2>2. CASE dated
    BY <1>2, <1>4, <2>1, <2>2 DEF Event, EventRow
  <2>3. CASE ~dated
    BY <1>2, <1>4, <2>1, <2>3 DEF Event, EventRow
  <2> QED
    BY <2>2, <2>3
<1>6. /\ items' = [items EXCEPT ![i] = row]
      /\ history' = [history EXCEPT ![i] = Append(@, e)]
      /\ held' = [held EXCEPT ![c] = Nobody]
  BY DEF WriteItem
<1>7. history[i] \in Seq(EventRow) /\ history[i] # <<>> /\ Replays(items[i], history[i])
  BY <1>2, HistoryByItem DEF WaitingInv, RowsOK
<1>8. /\ o # "create" /\ ((o = "reopen") <=> (copy.st # "open"))
  BY <1>2 DEF Allowed, Operations
<1> HIDE DEF row, e
<1>9. Replays(row, Append(history[i], e))
  BY <1>2, <1>3, <1>5, <1>7, <1>8, AppendReplays
<1>10. /\ Append(history[i], e) \in Seq(EventRow) /\ Append(history[i], e) # <<>>
       /\ history' = [history EXCEPT ![i] = Append(history[i], e)]
       /\ row.rev > items[i].rev
  BY <1>2, <1>3, <1>4, <1>5, <1>6, <1>7, SMTT(30)
<1>11. DOMAIN held' = Callers /\ \A d \in Callers : held'[d] # Nobody => held'[d] = held[d]
  BY <1>6 DEF WaitingInv, RowsOK
<1>12. /\ RowsOK'
       /\ HistoryReplays'
       /\ \A d \in Callers : held[d] # Nobody => CopyHolds(held[d], items')
  BY <1>2, <1>3, <1>6, <1>9, <1>10, RowMoves
<1>13. \A d \in Callers : held'[d] # Nobody => InHand(held[d])'
  BY <1>11, <1>12 DEF WaitingInv, RowsOK, InHand
<1> QED
  BY <1>11, <1>12, <1>13 DEF WaitingInv, RowsOK

LEMMA WaitingKept ==
  ASSUME WaitingInv, WaitingStep
  PROVE  WaitingInv'
<1>1. CASE UNCHANGED wvars
  BY <1>1 DEF WaitingInv, RowsOK, wvars, InHand, CopyHolds, HistoryReplays
<1> QED
  BY <1>1, CreateKeeps, ReadKeeps, WriteKeeps, GiveUpKeeps DEF WaitingStep
-----------------------------------------------------------------------------
(* The work log *)

\* A row the service makes can be shown.
LEMMA LogReadable ==
  ASSUME NEW st \in LogStatus, NEW at \in Dates, NEW w \in Scopes, NEW x \in Nat
  PROVE  Log(st, at, w, x) \in LogRow /\ Readable(Log(st, at, w, x))
<1> DEFINE row == Log(st, at, w, x)
           D == {k \in 1..3 : row.dates[k] # Missing}
<1>1. /\ row.st = st /\ row.scope = w /\ row.item = x /\ row.canonical = TRUE
      /\ row.titled = TRUE /\ row.dates = <<at, Missing, at>>
  BY DEF Log
<1>2. at \in 1..4
  BY DEF Dates, Instants, Past, Soon, Later, NoDate
<1>3. /\ row.dates[1] = at /\ row.dates[3] = at
      /\ row.dates \in [1..3 -> 0..5]
  BY <1>1, <1>2 DEF Missing
<1>4. row \in LogRow
  <2>1. ASSUME NEW d \in [1..3 -> 0..5]
        PROVE  [st |-> st, scope |-> w, dates |-> d, titled |-> TRUE, item |-> x,
                canonical |-> TRUE] \in LogRow
    BY DEF LogRow
  <2>2. <<at, Missing, at>> \in [1..3 -> 0..5]
    BY <1>2 DEF Missing
  <2> QED
    BY <2>1, <2>2 DEF Log
<1> HIDE DEF row
<1>5. 1 \in D /\ D # {} /\ \A k \in D : k \in 1..3
  BY <1>2, <1>3 DEF Missing
<1>6. (CHOOSE k \in D : \A j \in D : k <= j) = 1
  <2> DEFINE k == CHOOSE k \in D : \A j \in D : k <= j
  <2>1. \A j \in D : 1 <= j
    BY <1>5
  <2>2. k \in D /\ \A j \in D : k <= j
    BY <1>5, <2>1
  <2> HIDE DEF k
  <2>3. k <= 1 /\ 1 <= k /\ k \in 1..3
    BY <1>5, <2>1, <2>2
  <2>4. k = 1
    BY <2>3
  <2> QED
    BY <2>4 DEF k
<1>7. OccurredAt(row) = at
  BY <1>3, <1>5, <1>6 DEF OccurredAt
<1>8. Readable(row)
  BY <1>1, <1>2, <1>3, <1>7 DEF Readable, Missing, Unclear
<1> QED
  BY <1>1, <1>4, <1>8 DEF row

\* What is found under the identifier the inbox has noted is found under the one it is
\* shown with.
LEMMA FoundEitherWay ==
  ASSUME NEW w, NEW i, Found(w, [legacy |-> FALSE, id |-> i])
  PROVE  Found(w, [legacy |-> TRUE, id |-> i])
  BY DEF Found, Owned

LEMMA FoundAsShown ==
  ASSUME NEW w, NEW i, Visible(w, i), Readable(logs[i]),
         Canonical(i) => logs[i].scope # "incomplete"
  PROVE  Found(w, NameOf(i))
<1>1. CASE Canonical(i)
  BY <1>1 DEF Found, NameOf, Owned
<1>2. CASE ~Canonical(i)
  BY <1>2 DEF Found, NameOf
<1> QED
  BY <1>1, <1>2

LEMMA ScopedByInvariant == LogInv => LogsScoped
<1> SUFFICES ASSUME LogInv, NEW i \in Logs, Taken(i)
             PROVE  /\ \A w \in Scopes :
                         /\ ~ListFails(w) => (Visible(w, i) <=> Found(w, NameOf(i)))
                         /\ Found(w, [legacy |-> FALSE, id |-> i]) =>
                              Found(w, [legacy |-> TRUE, id |-> i])
                    /\ ~(Found("default", NameOf(i)) /\ Found("other", NameOf(i)))
  BY DEF LogsScoped
<1>1. Canonical(i) => logs[i].scope # "incomplete"
  BY DEF LogInv
<1>2. \A w : Found(w, NameOf(i)) => Visible(w, i)
  BY DEF Found, NameOf, Owned
<1>3. ASSUME NEW w \in Scopes, ~ListFails(w)
      PROVE  Visible(w, i) <=> Found(w, NameOf(i))
  <2>1. Visible(w, i) => Readable(logs[i])
    BY <1>3 DEF ListFails
  <2> QED
    BY <1>1, <1>2, <2>1, FoundAsShown
<1>4. ~(Visible("default", i) /\ Visible("other", i))
  BY DEF Visible
<1> QED
  BY <1>2, <1>3, <1>4, FoundEitherWay

-----------------------------------------------------------------------------
\* A row that is inserted is there under its identifier, and nothing else changes.
LEMMA InsertKeeps ==
  ASSUME LogInv, NEW i \in Logs, NEW w \in Scopes, NEW row \in LogRow, ~Taken(i),
         Insert(i, row), Tell(w, i), row.st # "none", row.scope = w, Readable(row),
         row.canonical = TRUE
  PROVE  LogInv'
<1>1. logs \in [Logs -> LogRow] /\ logs' = [logs EXCEPT ![i] = row]
  BY DEF LogInv, Insert
<1>2. logs'[i] = row /\ \A j \in Logs : j # i => logs'[j] = logs[j]
  BY <1>1
<1>3. logs' \in [Logs -> LogRow]
  BY <1>1
<1>4. w # "incomplete"
  BY DEF Scopes
<1>5. \A j \in Logs : /\ ~Taken(j)' => logs'[j] = NoLog
                      /\ Canonical(j)' => logs'[j].scope # "incomplete"
  <2> TAKE j \in Logs
  <2>1. CASE j = i
    BY <1>2, <1>4, <2>1 DEF Taken
  <2>2. CASE j # i
    <3>1. Taken(j)' <=> Taken(j)
      BY <1>2, <2>2 DEF Taken
    <3>2. Canonical(j)' <=> Canonical(j)
      BY <1>2, <2>2 DEF Canonical
    <3> QED
      BY <1>2, <2>2, <3>1, <3>2 DEF LogInv
  <2> QED
    BY <2>1, <2>2
<1>6. ASSUME NEW t \in told
      PROVE  /\ t.name.id \in Logs /\ Taken(t.name.id)'
             /\ t.row = logs'[t.name.id] /\ Found(t.scope, t.name)'
  <2> DEFINE j == t.name.id
  <2>1. j \in Logs /\ Taken(j) /\ t.row = logs[j] /\ Found(t.scope, t.name)
    BY DEF LogInv
  <2>2. j # i /\ logs'[j] = logs[j]
    BY <1>2, <2>1
  <2> QED
    BY <2>1, <2>2 DEF Taken, Found, Visible, Owned, Canonical, Alias, Proven
<1>7. DEFINE n == NameOf(i)
             t == [scope |-> w, name |-> n, row |-> logs'[i]]
<1>8. /\ told' = told \cup {t} /\ t.scope = w /\ t.name = n /\ t.row = logs'[i]
      /\ n.id = i /\ n.legacy = ~Canonical(i)
  BY DEF Tell, NameOf
<1> HIDE DEF n, t
<1>9. Canonical(i) <=> Canonical(i)'
  <2>1. logs[i].canonical = TRUE
    BY DEF LogInv, NoLog, Log
  <2> QED
    BY <1>2, <2>1 DEF Canonical
<1>10. Visible(w, i)' /\ Owned(w, i)' /\ Taken(i)' /\ Readable(logs'[i])
  BY <1>2, <1>4 DEF Visible, Owned, Taken
<1>11. ASSUME NEW m, m.id = i, m.legacy = ~Canonical(i)
       PROVE  Found(w, m)'
  <2>1. CASE Canonical(i)
    BY <1>9, <1>10, <1>11, <2>1 DEF Found
  <2>2. CASE ~Canonical(i)
    BY <1>9, <1>10, <1>11, <2>2 DEF Found
  <2> QED
    BY <2>1, <2>2
<1>12. \A x \in told' :
         /\ x.name.id \in Logs /\ Taken(x.name.id)'
         /\ x.row = logs'[x.name.id] /\ Found(x.scope, x.name)'
  <2> TAKE x \in told'
  <2>1. CASE x \in told
    BY <1>6, <2>1
  <2>2. CASE x = t
    <3>1. x.name.id = i /\ x.name.legacy = ~Canonical(i) /\ x.scope = w /\ x.row = logs'[i]
      BY <1>8, <2>2
    <3>2. Found(w, x.name)'
      BY <1>11, <3>1
    <3>3. Taken(x.name.id)'
      BY <1>10, <3>1
    <3> QED
      BY <3>1, <3>2, <3>3
  <2> QED
    BY <1>8, <2>1, <2>2
<1> QED
  BY <1>3, <1>5, <1>12 DEF LogInv

LEMMA CreateLogKeeps ==
  ASSUME LogInv, NEW i \in Logs, NEW w \in Scopes, NEW st \in LogStatus \ {"none"},
         NEW at \in Dates, CreateLog(w, i, st, at)
  PROVE  LogInv'
<1>1. ~Taken(i) /\ Insert(i, Log(st, at, w, 0)) /\ Tell(w, i)
  BY DEF CreateLog
<1>2. /\ Log(st, at, w, 0) \in LogRow /\ Readable(Log(st, at, w, 0))
      /\ Log(st, at, w, 0).st = st /\ Log(st, at, w, 0).scope = w
      /\ Log(st, at, w, 0).canonical = TRUE
  <2>1. st \in LogStatus /\ 0 \in Nat
    OBVIOUS
  <2>2. Log(st, at, w, 0) \in LogRow /\ Readable(Log(st, at, w, 0))
    BY <2>1, LogReadable
  <2> QED
    BY <2>2 DEF Log
<1> QED
  BY <1>1, <1>2, InsertKeeps

\* Filed again, the row that is there is given out once more.
LEMMA FileLogKeeps ==
  ASSUME LogInv, NEW i \in Logs, NEW w \in Scopes, FileLog(w, i)
  PROVE  LogInv'
<1>1. CASE ~Taken(i)
  <2> DEFINE x == Derived[i].item
             row == Log("completed", 1, w, x)
  <2>1. x \in Nat
    BY DerivedAssumption DEF FileLog
  <2>2. 1 \in Dates /\ "completed" \in LogStatus
    BY DEF Dates, Instants, Past, LogStatus
  <2>3. row \in LogRow /\ Readable(row)
    BY <2>1, <2>2, LogReadable
  <2>4. row.st = "completed" /\ row.scope = w /\ row.canonical = TRUE
    BY DEF Log
  <2>5. Insert(i, row) /\ Tell(w, i)
    BY <1>1 DEF FileLog
  <2> HIDE DEF row
  <2> QED
    BY <1>1, <2>3, <2>4, <2>5, InsertKeeps
<1>2. CASE Taken(i)
  <2>1. Found(w, [legacy |-> FALSE, id |-> i]) /\ logs' = logs /\ Tell(w, i)
    BY <1>2 DEF FileLog
  <2>2. Visible(w, i) /\ Readable(logs[i])
    BY <2>1 DEF Found, Owned
  <2>3. Found(w, NameOf(i))
    BY <2>2, FoundAsShown DEF LogInv
  <2> DEFINE t == [scope |-> w, name |-> NameOf(i), row |-> logs[i]]
  <2>4. told' = told \cup {t} /\ t.scope = w /\ t.name = NameOf(i) /\ t.row = logs[i]
    BY <2>1 DEF Tell
  <2>5. NameOf(i).id = i
    BY DEF NameOf
  <2> HIDE DEF t
  <2>6. \A x \in told' :
          /\ x.name.id \in Logs /\ Taken(x.name.id)
          /\ x.row = logs[x.name.id] /\ Found(x.scope, x.name)
    BY <1>2, <2>3, <2>4, <2>5 DEF LogInv
  <2> QED
    BY <2>1, <2>6 DEF LogInv, Taken, Canonical, Found, Visible, Owned, Alias, Proven
<1> QED
  BY <1>1, <1>2

LEMMA LogsKept ==
  ASSUME LogInv, LogStep
  PROVE  LogInv'
<1>1. CASE UNCHANGED lvars
  BY <1>1 DEF LogInv, lvars, Taken, Canonical, Found, Visible, Owned, Alias, Proven
<1> QED
  BY <1>1, CreateLogKeeps, FileLogKeeps DEF LogStep

LEMMA RecordsByInvariant == LogInv => RecordsKept
  BY DEF LogInv, RecordsKept

-----------------------------------------------------------------------------
(* The steps, each as what it does to the two stores *)

LEMMA LoadFacts ==
  ASSUME load \in Loads
  PROVE  /\ load.dates \subseteq Dates /\ load.scopes \subseteq Scopes
         /\ load.callers \subseteq Callers
         /\ load.source = "waiting_for" => load.ids \subseteq Items
         /\ load.reader = "assistant" => Assistant \notin load.callers
  BY LoadAssumption, AssistantAssumption DEF Dates

LEMMA ReplyStep ==
  ASSUME load \in Loads, NEW c \in load.callers, Reply(c)
  PROVE  WaitingStep /\ UNCHANGED lvars /\ load' = load
<1>1. c \in Callers /\ load.dates \cup {NoDate} \subseteq Dates
  BY LoadFacts DEF Dates
<1>2. /\ UNCHANGED lvars /\ load' = load
  BY DEF Reply, Others, Written, lvars
<1>3. CASE load.source = "waiting_for" /\ \E i \in load.ids, o \in Operations,
             to \in load.dates \cup {NoDate} : ReadItem(c, i, o, to)
  BY <1>1, <1>2, <1>3, LoadFacts DEF WaitingStep
<1> QED
  BY <1>1, <1>2, <1>3 DEF Reply, WaitingStep

\* The other callers.
OtherStep ==
  \/ Start \/ ReadPage \/ SourceFails
  \/ \E i \in Logs, w \in load.scopes :
       \/ File(i, w)
       \/ \E st \in LogStatus \ {"none"}, at \in load.dates : Record(i, w, st, at)
  \/ \E i \in Reminders, st \in ReminderStatus, at \in load.dates : Remind(i, st, at)
  \/ \E i \in Captures : Capture(i) \/ \E st \in {"processed", "dismissed"} : Process(i, st)
  \/ \E u \in Tasks : \/ Reopen(u) \/ \E st \in Terminal : Finish(u, st)
                      \/ \E d \in load.dates : Edit(u, d)
  \/ \E i \in Items, to \in load.dates, x \in {Past, NoDate} : Await(i, to, x)
  \/ \E c \in load.callers : Reply(c)

\* The steps of the request.
RequestStep ==
  \/ \E t \in Askable : Ask(t)
  \/ Refused \/ ShowItems \/ ShowRecords \/ ShowReminder \/ ShowReview \/ ShowAgenda
  \/ ShowKnowledge \/ Talk \/ ShowCandidates \/ CaptureText \/ Confirm
  \/ LookAtItem \/ ActOnItem \/ FinishItem
  \/ WriteLog \/ CancelReminder \/ MoveReminder
  \/ ShowTasks \/ EndTask \/ NewTask \/ SaveDecision

LEMMA TwoKinds == AssistantNext => (OtherStep /\ UNCHANGED avars) \/ RequestStep
  BY DEF AssistantNext, OtherStep, RequestStep

LEMMA OthersOnStores ==
  ASSUME load \in Loads, OtherStep
  PROVE  WaitingStep /\ LogStep /\ load' = load
<1>1. CASE Start \/ ReadPage \/ SourceFails
  BY <1>1 DEF Start, ReadPage, SourceFails, stores, WaitingStep, LogStep, wvars, lvars
<1>2. ASSUME NEW i \in Logs, NEW w \in load.scopes, File(i, w)
      PROVE  WaitingStep /\ LogStep /\ load' = load
  BY <1>2, LoadFacts DEF File, Written, WaitingStep, LogStep, wvars
<1>3. ASSUME NEW i \in Logs, NEW w \in load.scopes, NEW st \in LogStatus \ {"none"},
             NEW at \in load.dates, Record(i, w, st, at)
      PROVE  WaitingStep /\ LogStep /\ load' = load
  BY <1>3, LoadFacts DEF Record, Written, WaitingStep, LogStep, wvars
<1>4. ASSUME NEW i, NEW st, NEW at, Remind(i, st, at)
      PROVE  WaitingStep /\ LogStep /\ load' = load
  BY <1>4 DEF Remind, Written, WaitingStep, LogStep, wvars, lvars
<1>5. ASSUME NEW i, NEW st, Capture(i) \/ Process(i, st)
      PROVE  WaitingStep /\ LogStep /\ load' = load
  BY <1>5 DEF Capture, Process, Written, WaitingStep, LogStep, wvars, lvars
<1>6. ASSUME NEW u, NEW st, NEW d, Reopen(u) \/ Finish(u, st) \/ Edit(u, d)
      PROVE  WaitingStep /\ LogStep /\ load' = load
  BY <1>6 DEF Reopen, Finish, Edit, Written, WaitingStep, LogStep, wvars, lvars
<1>7. ASSUME NEW i \in Items, NEW to \in load.dates, NEW x \in {Past, NoDate},
             Await(i, to, x)
      PROVE  WaitingStep /\ LogStep /\ load' = load
  BY <1>7, LoadFacts DEF Await, Others, Written, WaitingStep, LogStep, lvars
<1>8. ASSUME NEW c \in load.callers, Reply(c)
      PROVE  WaitingStep /\ LogStep /\ load' = load
  BY <1>8, ReplyStep DEF LogStep
<1> QED
  BY <1>1, <1>2, <1>3, <1>4, <1>5, <1>6, <1>7, <1>8 DEF OtherStep

-----------------------------------------------------------------------------
(* The rules *)

\* The first of a sequence of rules of which the last one fits.
LEMMA FirstRule ==
  ASSUME NEW n \in Nat \ {0}, NEW rules, rules[n].if
  PROVE  \E k \in 1..n : rules[k].if /\ \A j \in 1..(k - 1) : ~rules[j].if
<1> DEFINE S == {k \in 1..n : rules[k].if}
<1>1. S \subseteq Nat /\ S # {}
  OBVIOUS
<1>2. PICK k \in S : \A j \in S : ~(<<j, k>> \in OpToRel(<, Nat))
  BY <1>1, NatLessThanWellFounded, WFMin
<1>3. \A j \in S : ~(j < k)
  BY <1>1, <1>2 DEF OpToRel
<1>4. \A j \in 1..(k - 1) : ~rules[j].if
  <2> SUFFICES ASSUME NEW j \in 1..(k - 1), rules[j].if PROVE FALSE
    OBVIOUS
  <2>1. j \in 1..n /\ j < k
    OBVIOUS
  <2> QED
    BY <1>3, <2>1
<1> QED
  BY <1>4

LEMMA AnnouncedIs ==
  /\ DOMAIN Announced =
       DOMAIN LifecycleOp \cup
       {"waiting_for_confirm", "inbox_capture", "waiting_for_capture", "reminder_cancel",
        "reminder_reschedule", "work_log", "decision", "task"}
  /\ \A i \in DOMAIN LifecycleOp : Announced[i] = {"waiting_for"}
  /\ Announced["waiting_for_confirm"] = {"inbox", "waiting_for"}
  /\ Announced["inbox_capture"] = {"inbox"} /\ Announced["waiting_for_capture"] = {"inbox"}
  /\ Announced["reminder_cancel"] = {"reminder"}
  /\ Announced["reminder_reschedule"] = {"reminder"}
  /\ Announced["work_log"] = {"work_log"} /\ Announced["decision"] = {"decision"}
  /\ Announced["task"] = {"user_task", "reminder"}
  BY DEF Announced, LifecycleOp

\* Lowered, a text says no other of the words for a list.
LEMMA LowerLists ==
  ASSUME NEW t, ListWords \cap Said(Lower(t)) # {}
  PROVE  t # <<>> /\ ListWords \cap Said(t) # {}
<1>1. PICK w \in ListWords : w \in Said(Lower(t))
  OBVIOUS
<1>2. PICK k \in DOMAIN Lower(t) : w \in Keywords(Lower(t)[k])
  BY <1>1 DEF Said
<1>3. k \in DOMAIN t /\ Lower(t)[k] = IF t[k] = "WF_ID" THEN "wf_id" ELSE t[k]
  BY <1>2 DEF Lower
<1>4. t[k] # "WF_ID"
  <2> SUFFICES ASSUME t[k] = "WF_ID" PROVE FALSE
    OBVIOUS
  <2>1. w \in Keywords("wf_id")
    BY <1>2, <1>3
  <2>2. Keywords("wf_id") = {"wf_id", "wf_"}
    BY DEF Keywords, Contained
  <2> QED
    BY <2>1, <2>2 DEF ListWords
<1>5. w \in Said(t)
  BY <1>2, <1>3, <1>4 DEF Said
<1> QED
  BY <1>3, <1>5

\* Of all the rules only the one for tasks announces a question about tasks.
LEMMA TaskRules ==
  ASSUME NEW t, NEW k \in 1..27, Rules(t)[k].intent = "task", Rules(t)[k].effect # "write"
  PROVE  ListWords \cap Said(Lower(t)) # {}
  BY DEF Rules, Rule

LEMMA LastRule == \A t : Rules(t)[27].if /\ DOMAIN Rules(t) = 1..27
  BY DEF Rules, Rule

LEMMA DecidedOnTasks ==
  ASSUME NEW t, Decision(t).intent = "task", Decision(t).effect # "write"
  PROVE  t # <<>> /\ ListWords \cap Said(t) # {}
<1> DEFINE rules == Rules(t)
           fits(k) == rules[k].if /\ \A j \in 1..(k - 1) : ~rules[j].if
           k == CHOOSE k \in DOMAIN rules : fits(k)
<1>1. DOMAIN rules = 1..27 /\ rules[27].if
  BY LastRule
<1>2. Decision(t) = rules[k]
  BY DEF Decision
<1> HIDE DEF rules
<1>3. \E j \in 1..27 : fits(j)
  BY <1>1, FirstRule
<1>4. k \in 1..27
  BY <1>1, <1>3
<1> HIDE DEF k
<1>5. ListWords \cap Said(Lower(t)) # {}
  BY <1>2, <1>4, TaskRules DEF rules
<1> QED
  BY <1>5, LowerLists

\* What an intent writes was announced to be written, tasks apart.
LEMMA ContractHolds ==
  ASSUME NEW d, Contract(d), d.effect # "write"
  PROVE  d.intent \notin DOMAIN Announced \ {"task"}
<1>1. "chat" \notin DOMAIN Announced
  BY AnnouncedIs DEF LifecycleOp
<1> QED
  BY <1>1 DEF Contract

-----------------------------------------------------------------------------
(* The request under way *)

LEMMA RequestOnStores ==
  ASSUME load \in Loads, RequestInv, RequestStep
  PROVE  WaitingStep /\ LogStep /\ load' = load
<1>1. ASSUME UNCHANGED vars PROVE WaitingStep /\ LogStep /\ load' = load
  BY <1>1 DEF vars, stores, WaitingStep, LogStep, wvars, lvars
<1>2. ASSUME NEW t, Ask(t) PROVE WaitingStep /\ LogStep /\ load' = load
  BY <1>1, <1>2 DEF Ask
<1>3. CASE \/ ShowItems \/ ShowRecords \/ ShowReminder \/ ShowReview \/ ShowAgenda
           \/ ShowKnowledge \/ Talk \/ ShowCandidates \/ LookAtItem \/ ShowTasks
           \/ SaveDecision
  BY <1>1, <1>3 DEF ShowItems, ShowRecords, ShowReminder, ShowReview, ShowAgenda,
     ShowKnowledge, Talk, ShowCandidates, LookAtItem, ShowTasks, SaveDecision, Shown
<1>4. CASE Refused
  BY <1>4, AssistantAssumption DEF Refused, Others, WaitingStep, LogStep, lvars
<1>5. CASE CaptureText \/ CancelReminder \/ MoveReminder \/ EndTask \/ NewTask
  BY <1>5 DEF CaptureText, CancelReminder, MoveReminder, EndTask, NewTask, Beside,
     WaitingStep, LogStep, lvars
<1>6. CASE Confirm
  <2>1. Soon \in Dates /\ NoDate \in {Past, NoDate}
    BY DEF Dates, Instants
  <2>2. PICK j \in Items : CreateItem(j, Soon, NoDate)
    BY <1>6 DEF Confirm
  <2> QED
    BY <1>6, <2>1, <2>2 DEF Confirm, Beside, WaitingStep, LogStep, lvars
<1>7. CASE ActOnItem
  <2> DEFINE o == LifecycleOp[request.intent]
             to == IF request.intent = "waiting_for_snooze" THEN Soon ELSE NoDate
  <2>1. o \in Operations
    BY <1>7 DEF ActOnItem, RequestInv, LifecycleOp, Operations
  <2>2. to \in Dates
    BY DEF Dates, Instants
  <2>3. ReadItem(Assistant, First, o, to)
    BY <1>7 DEF ActOnItem
  <2>4. UNCHANGED lvars /\ load' = load
    BY <1>7 DEF ActOnItem, Others, Beside, lvars
  <2> HIDE DEF o, to
  <2> QED
    BY <2>1, <2>2, <2>3, <2>4, AssistantAssumption DEF WaitingStep, LogStep
<1>8. CASE FinishItem
  BY <1>8, AssistantAssumption DEF FinishItem, Others, Beside, WaitingStep, LogStep, lvars
<1>9. CASE WriteLog
  <2>1. "default" \in Scopes /\ Past \in Dates
    BY DEF Scopes, Dates, Instants
  <2> DEFINE st == CASE Says("blocked") \/ Says("wait") -> "blocked"
                     [] Says("going") -> "in_progress"
                     [] OTHER -> "completed"
  <2>2. st \in LogStatus \ {"none"}
    BY DEF LogStatus
  <2>3. PICK i \in Logs : CreateLog("default", i, st, Past)
    BY <1>9 DEF WriteLog
  <2> HIDE DEF st
  <2> QED
    BY <1>9, <2>1, <2>2, <2>3 DEF WriteLog, Beside, WaitingStep, LogStep
<1> QED
  BY <1>2, <1>3, <1>4, <1>5, <1>6, <1>7, <1>8, <1>9 DEF RequestStep

\* While a request is under way nobody else acts as the assistant.
LEMMA OthersLeaveTheCopy ==
  ASSUME load \in Loads, load.reader = "assistant", DOMAIN held = Callers, OtherStep
  PROVE  held'[Assistant] = held[Assistant]
<1>1. CASE \E c \in load.callers : Reply(c)
  <2>1. PICK c \in load.callers : Reply(c)
    BY <1>1
  <2>2. c # Assistant /\ c \in Callers /\ Assistant \in Callers
    BY <2>1, LoadFacts, AssistantAssumption
  <2> QED
    BY <2>1, <2>2 DEF Reply, ReadItem, GiveUp, WriteItem
<1>2. CASE \E i \in Items, to \in load.dates, x \in {Past, NoDate} : Await(i, to, x)
  BY <1>2 DEF Await, CreateItem
<1>3. ASSUME UNCHANGED stores PROVE held' = held
  BY <1>3 DEF stores
<1>4. CASE Start \/ ReadPage \/ SourceFails
  BY <1>3, <1>4 DEF Start, ReadPage, SourceFails
<1>5. ASSUME NEW i, NEW w, NEW st, NEW at, File(i, w) \/ Record(i, w, st, at)
      PROVE  held' = held
  BY <1>5 DEF File, Record
<1>6. ASSUME NEW i, NEW st, NEW at, Remind(i, st, at) \/ Capture(i) \/ Process(i, st)
      PROVE  held' = held
  BY <1>6 DEF Remind, Capture, Process
<1>7. ASSUME NEW u, NEW st, NEW d, Reopen(u) \/ Finish(u, st) \/ Edit(u, d)
      PROVE  held' = held
  BY <1>7 DEF Reopen, Finish, Edit
<1> QED
  BY <1>1, <1>2, <1>4, <1>5, <1>6, <1>7 DEF OtherStep

LEMMA OthersKeepRequest ==
  ASSUME load \in Loads, DOMAIN held = Callers, RequestInv, OtherStep, UNCHANGED avars
  PROVE  RequestInv'
<1>1. request' = request /\ load' = load
  BY OthersOnStores DEF avars
<1>2. request.stage = "acting" => held'[Assistant] = held[Assistant]
  BY OthersLeaveTheCopy DEF RequestInv, Idle, Nothing
<1>3. ListsTasks' <=> ListsTasks
  BY <1>1 DEF ListsTasks
<1> QED
  BY <1>1, <1>2, <1>3 DEF RequestInv

LEMMA AnsweredKeeps ==
  ASSUME RequestInv, load' = load, request # Idle, Answered
  PROVE  RequestInv'
<1>1. /\ DOMAIN request' = {"text", "intent", "effect", "stage", "rev"}
      /\ request'.stage = "answered"
  BY DEF Answered, Nothing
<1>2. load.reader = "assistant"
  BY DEF RequestInv
<1> QED
  BY <1>1, <1>2 DEF RequestInv

LEMMA AskKeeps ==
  ASSUME RequestInv, load' = load, NEW t \in Askable, Ask(t)
  PROVE  RequestInv'
<1> DEFINE d == Decision(t)
<1>1. /\ request'.text = t /\ request'.intent = d.intent /\ request'.effect = d.effect
      /\ request'.stage = "asked" /\ request'.rev = 0
      /\ DOMAIN request' = {"text", "intent", "effect", "stage", "rev"}
  BY DEF Ask
<1>2. load.reader = "assistant" /\ Contract(d)
  BY DEF Askable, Ask
<1>3. d.effect # "write" => d.intent \notin DOMAIN Announced \ {"task"}
  BY <1>2, ContractHolds
<1>4. d.intent = "task" /\ d.effect # "write" => ListsTasks'
  BY <1>1, DecidedOnTasks DEF ListsTasks
<1> HIDE DEF d
<1> QED
  BY <1>1, <1>2, <1>3, <1>4 DEF RequestInv

LEMMA LookKeeps ==
  ASSUME RequestInv, load' = load, LookAtItem
  PROVE  RequestInv'
<1>1. /\ request.stage = "asked" /\ request.intent \in DOMAIN LifecycleOp
      /\ request' = [request EXCEPT !.stage = "seen", !.rev = items[First].rev]
  BY DEF LookAtItem, Asked
<1>2. /\ DOMAIN request' = DOMAIN request
      /\ request'.text = request.text /\ request'.intent = request.intent
      /\ request'.effect = request.effect /\ request'.stage = "seen"
  BY <1>1 DEF RequestInv
<1>3. ListsTasks' <=> ListsTasks
  BY <1>2 DEF ListsTasks
<1>4. load.reader = "assistant"
  BY <1>1 DEF RequestInv, Idle, Nothing
<1> QED
  BY <1>1, <1>2, <1>3, <1>4 DEF RequestInv

LEMMA ActKeeps ==
  ASSUME RequestInv, load' = load, DOMAIN held = Callers, ActOnItem
  PROVE  RequestInv'
<1>1. /\ request.stage = "seen" /\ items[First].rev = request.rev
      /\ request' = [request EXCEPT !.stage = "acting"]
  BY DEF ActOnItem
<1>2. /\ DOMAIN request' = DOMAIN request
      /\ request'.text = request.text /\ request'.intent = request.intent
      /\ request'.effect = request.effect /\ request'.stage = "acting"
      /\ request'.rev = request.rev
  BY <1>1 DEF RequestInv
<1>3. ListsTasks' <=> ListsTasks
  BY <1>2 DEF ListsTasks
<1>4. load.reader = "assistant"
  BY <1>1 DEF RequestInv, Idle, Nothing
<1> DEFINE o == LifecycleOp[request.intent]
           to == IF request.intent = "waiting_for_snooze" THEN Soon ELSE NoDate
           k == [item |-> First, op |-> o, to |-> to, copy |-> items[First]]
<1>5. o # "none"
  BY <1>1 DEF RequestInv, LifecycleOp
<1>6. held' = [held EXCEPT ![Assistant] = k]
  BY DEF ActOnItem, ReadItem
<1>7. k.item = First /\ k.copy = items[First] /\ k # Nobody
  BY <1>5 DEF Nobody
<1> HIDE DEF k, o, to
<1>8. /\ held'[Assistant] # Nobody /\ held'[Assistant].item = First
      /\ held'[Assistant].copy.rev = request'.rev
  BY <1>1, <1>2, <1>6, <1>7, AssistantAssumption
<1> QED
  BY <1>1, <1>2, <1>3, <1>4, <1>8 DEF RequestInv

LEMMA RequestKept ==
  ASSUME RequestInv, load' = load, DOMAIN held = Callers, RequestStep
  PROVE  RequestInv'
<1>1. ASSUME NEW t \in Askable, Ask(t) PROVE RequestInv'
  BY <1>1, AskKeeps
<1>2. ASSUME request.stage \in {"asked", "seen", "acting"}, Answered PROVE RequestInv'
  <2>1. request # Idle
    BY <1>2 DEF Idle, Nothing
  <2> QED
    BY <1>2, <2>1, AnsweredKeeps
<1>3. CASE \/ Refused \/ ShowItems \/ ShowRecords \/ ShowReminder \/ ShowReview
           \/ ShowAgenda \/ ShowKnowledge \/ Talk \/ ShowCandidates
  BY <1>2, <1>3 DEF Refused, ShowItems, ShowRecords, ShowReminder, ShowReview, ShowAgenda,
     ShowKnowledge, Talk, ShowCandidates, Shown, Asked
<1>4. CASE \/ CaptureText \/ Confirm \/ FinishItem \/ WriteLog \/ CancelReminder
           \/ MoveReminder \/ ShowTasks \/ EndTask \/ NewTask \/ SaveDecision
  BY <1>2, <1>4 DEF CaptureText, Confirm, FinishItem, WriteLog, CancelReminder,
     MoveReminder, ShowTasks, EndTask, NewTask, SaveDecision, Shown, Asked
<1> QED
  BY <1>1, <1>3, <1>4, LookKeeps, ActKeeps DEF RequestStep

-----------------------------------------------------------------------------
(* The invariant *)

LEMMA StartsWell == AssistantInit => AssistantInv
<1> SUFFICES ASSUME AssistantInit PROVE AssistantInv
  OBVIOUS
<1>1. load \in Loads
  BY DEF AssistantInit, Init
<1> DEFINE first == Event(1, "create", NoDate, NoDate)
           new == Item("open", Soon, NoDate, 1)
<1>2. WaitingInv
  <2>1. /\ new \in ItemRow /\ new.st = "open" /\ new.rev = 1
        /\ Absent \in ItemRow /\ Absent.st = "absent" /\ Absent.rev = 0
    BY DEF Item, Absent, ItemRow, ItemStatus, Instants
  <2>2. first \in EventRow /\ first.seq = 1 /\ first.type = "create" /\ first.to = NoDate
    BY DEF Event, EventRow, Dates
  <2>3. /\ items = [i \in Items |-> IF i \in load.stock THEN new ELSE Absent]
        /\ history = [i \in Items |-> IF i \in load.stock THEN <<first>> ELSE <<>>]
        /\ held = [c \in Callers |-> Nobody]
    BY DEF AssistantInit, Init, WaitingForInit
  <2> HIDE DEF first, new
  <2>4. /\ <<first>> \in Seq(EventRow) /\ <<first>> # <<>> /\ Len(<<first>>) = 1
        /\ DOMAIN <<first>> = 1..1 /\ <<first>>[1] = first /\ <<>> \in Seq(EventRow)
    BY <2>2
  <2>5. Replays(new, <<first>>)
    <3>1. Outcome("create") = "open"
      BY DEF Outcome
    <3> QED
      BY <2>1, <2>2, <2>4, <3>1 DEF Replays
  <2>6. Replays(Absent, <<>>)
    BY <2>1 DEF Replays
  <2>7. \A i \in Items : Replays(items[i], history[i])
    BY <2>3, <2>5, <2>6
  <2>8. HistoryReplays
    BY <2>7, HistoryByItem
  <2>9. RowsOK
    BY <2>1, <2>3, <2>4 DEF RowsOK
  <2> QED
    BY <2>3, <2>8, <2>9 DEF WaitingInv
<1>3. LogInv
  <2>1. logs \in load.logs /\ told = {}
    BY DEF AssistantInit, Init
  <2>2. /\ logs \in [Logs -> LogRow]
        /\ \A i \in Logs : /\ logs[i].st = "none" => logs[i] = NoLog
                           /\ logs[i].scope = "incomplete" =>
                                IF i \in DOMAIN Derived THEN Derived[i].alias
                                                         ELSE ~logs[i].canonical
    BY <1>1, <2>1, LoadAssumption
  <2> QED
    BY <2>1, <2>2 DEF LogInv, Taken, Canonical
<1>4. RequestInv
  <2>1. /\ request = Idle /\ request.stage = "idle"
        /\ DOMAIN request = {"text", "intent", "effect", "stage", "rev"}
    BY DEF AssistantInit, Idle, Nothing
  <2> QED
    BY <2>1 DEF RequestInv
<1> QED
  BY <1>1, <1>2, <1>3, <1>4 DEF AssistantInv

LEMMA InvariantKept == AssistantInv /\ [AssistantNext]_<<vars, avars>> => AssistantInv'
<1> SUFFICES ASSUME AssistantInv, [AssistantNext]_<<vars, avars>> PROVE AssistantInv'
  OBVIOUS
<1>1. load \in Loads /\ WaitingInv /\ LogInv /\ RequestInv /\ DOMAIN held = Callers
  BY DEF AssistantInv, WaitingInv
<1>2. ASSUME WaitingStep, LogStep, load' = load, RequestInv' PROVE AssistantInv'
  BY <1>1, <1>2, WaitingKept, LogsKept DEF AssistantInv
<1>3. CASE OtherStep /\ UNCHANGED avars
  BY <1>1, <1>2, <1>3, OthersOnStores, OthersKeepRequest
<1>4. CASE RequestStep
  BY <1>1, <1>2, <1>4, RequestOnStores, RequestKept
<1>5. CASE UNCHANGED <<vars, avars>>
  <2>1. UNCHANGED wvars /\ UNCHANGED lvars /\ request' = request /\ load' = load
    BY <1>5 DEF vars, avars, stores, wvars, lvars
  <2>2. RequestInv'
    BY <1>1, <2>1 DEF RequestInv, ListsTasks, wvars
  <2> QED
    BY <1>2, <2>1, <2>2 DEF WaitingStep, LogStep
<1> QED
  BY <1>3, <1>4, <1>5, TwoKinds

\* The stores and the request are as AssistantInv has them in every state.
THEOREM AssistantInvariant == AssistantSpec => []AssistantInv
  BY StartsWell, InvariantKept, PTL DEF AssistantSpec

-----------------------------------------------------------------------------
(* What follows *)

\* The history of a waiting-for item is the story of its row, however many callers of
\* however many processes read the row, decide and write over each other: a write
\* that the transaction of the repository lets through was decided on the row as it is.
THEOREM HistoryIsTrue == AssistantSpec => []HistoryReplays
<1>1. AssistantInv => HistoryReplays
  BY DEF AssistantInv, WaitingInv
<1> QED
  BY <1>1, AssistantInvariant, PTL

\* A work record that was given out stays, the same and under the same identifier.
THEOREM RecordsStay == AssistantSpec => []RecordsKept
<1>1. AssistantInv => RecordsKept
  BY RecordsByInvariant DEF AssistantInv
<1> QED
  BY <1>1, AssistantInvariant, PTL

\* Listing and asking for work records agree, and no record is seen from two
\* workspaces, whatever rows older versions have left.
THEOREM LogsAreScoped == AssistantSpec => []LogsScoped
<1>1. AssistantInv => LogsScoped
  BY ScopedByInvariant DEF AssistantInv
<1> QED
  BY <1>1, AssistantInvariant, PTL

\* Work records are kept as they were told and seen by their workspace only.
THEOREM LogsAreTrue == AssistantSpec => []LogsHold
  BY RecordsStay, LogsAreScoped, PTL DEF LogsHold

-----------------------------------------------------------------------------
(* What a request changes *)

\* A store that is not written is not among the changed ones.
LEMMA ChangedStores ==
  /\ Changed \subseteq Sources \cup {"decision"}
  /\ items' = items /\ history' = history => "waiting_for" \notin Changed
  /\ inbox' = inbox => "inbox" \notin Changed
  /\ reminders' = reminders => "reminder" \notin Changed
  /\ logs' = logs => "work_log" \notin Changed
  /\ tasks' = tasks /\ "user_task" \notin created' \ created => "user_task" \notin Changed
  /\ "decision" \notin created' \ created => "decision" \notin Changed
  BY DEF Changed, Sources

LEMMA NothingChanges ==
  ASSUME UNCHANGED <<items, history, inbox, reminders, logs, tasks, created>>
  PROVE  Changed = {}
  BY ChangedStores DEF Sources

\* The part of EffectHolds a step has to meet.
Announces ==
  /\ Changed \subseteq IF request.effect = "write" THEN Announced[request.intent] ELSE {}
  /\ items'[First] # items[First] => items[First].rev = request.rev

LEMMA QuietStep ==
  ASSUME UNCHANGED <<items, history, inbox, reminders, logs, tasks, created>>
  PROVE  Announces
  BY NothingChanges DEF Announces

LEMMA AnnouncedWrites ==
  ASSUME RequestInv, request.stage \in {"asked", "seen", "acting"},
         request.intent \in DOMAIN Announced,
         request.intent = "task" => ~ListsTasks,
         Changed \subseteq Announced[request.intent],
         items'[First] # items[First] => items[First].rev = request.rev
  PROVE  Announces
<1>1. request.effect = "write"
  BY DEF RequestInv
<1> QED
  BY <1>1 DEF Announces

\* The steps that end a request, but for those that write.
LEMMA QuietRequest ==
  ASSUME \/ \E t \in Askable : Ask(t)
         \/ Refused \/ ShowItems \/ ShowRecords \/ ShowReminder \/ ShowReview \/ ShowAgenda
         \/ ShowKnowledge \/ Talk \/ ShowCandidates \/ LookAtItem \/ ActOnItem \/ ShowTasks
  PROVE  Announces
<1>1. ASSUME UNCHANGED <<vars, created>> PROVE Announces
  BY <1>1, QuietStep DEF vars, stores
<1>2. CASE Refused
  BY <1>2, QuietStep DEF Refused, Others, GiveUp, wvars
<1>3. CASE ActOnItem
  BY <1>3, QuietStep DEF ActOnItem, ReadItem, Others
<1> QED
  BY <1>1, <1>2, <1>3 DEF Ask, ShowItems, ShowRecords, ShowReminder, ShowReview, ShowAgenda,
     ShowKnowledge, Talk, ShowCandidates, LookAtItem, ShowTasks, Shown

LEMMA RequestAnnounces ==
  ASSUME AssistantInv, RequestStep
  PROVE  Announces
<1>1. RequestInv /\ WaitingInv
  BY DEF AssistantInv
<1>2. CASE CaptureText
  <2>1. /\ request.stage = "asked" /\ request.intent \in {"inbox_capture", "waiting_for_capture"}
        /\ UNCHANGED <<items, history, reminders, logs, tasks, created>>
    BY <1>2 DEF CaptureText, Asked, wvars
  <2>2. Changed \subseteq {"inbox"}
    BY <2>1, ChangedStores DEF Sources
  <2> QED
    BY <1>1, <2>1, <2>2, AnnouncedIs, AnnouncedWrites
<1>3. CASE Confirm
  <2>1. /\ request.stage = "asked" /\ request.intent = "waiting_for_confirm"
        /\ UNCHANGED <<reminders, logs, tasks, created>>
    BY <1>3 DEF Confirm, Asked, Beside
  <2>2. Changed \subseteq {"inbox", "waiting_for"}
    BY <2>1, ChangedStores DEF Sources
  <2>3. request.rev = 0
    BY <1>1, <2>1 DEF RequestInv
  <2>4. PICK j \in Items : CreateItem(j, Soon, NoDate)
    BY <1>3 DEF Confirm
  <2>5. items[j] = Absent /\ \A i \in Items : i # j => items'[i] = items[i]
    BY <1>1, <2>4 DEF CreateItem, WaitingInv, RowsOK
  <2>6. items'[First] # items[First] => items[First].rev = request.rev
    BY <2>3, <2>5, AssistantAssumption DEF Absent, Item
  <2> QED
    BY <1>1, <2>1, <2>2, <2>6, AnnouncedIs, AnnouncedWrites
<1>4. CASE FinishItem
  <2>1. /\ request.stage = "acting" /\ request.intent \in DOMAIN LifecycleOp
        /\ UNCHANGED <<inbox, reminders, logs, tasks, created>>
        /\ held[Assistant].item = First /\ held[Assistant].copy.rev = request.rev
    BY <1>1, <1>4 DEF FinishItem, RequestInv, Others
  <2>2. Changed \subseteq {"waiting_for"}
    BY <2>1, ChangedStores DEF Sources
  <2>3. items[First].rev = request.rev
    BY <1>4, <2>1 DEF FinishItem, WriteItem, Commits
  <2>4. request.intent # "task"
    BY <2>1 DEF LifecycleOp
  <2> QED
    BY <1>1, <2>1, <2>2, <2>3, <2>4, AnnouncedIs, AnnouncedWrites
<1>5. CASE WriteLog
  <2>1. /\ request.stage = "asked" /\ request.intent = "work_log"
        /\ UNCHANGED <<items, history, inbox, reminders, tasks, created>>
    BY <1>5 DEF WriteLog, Asked, wvars, Beside
  <2>2. Changed \subseteq {"work_log"}
    BY <2>1, ChangedStores DEF Sources
  <2> QED
    BY <1>1, <2>1, <2>2, AnnouncedIs, AnnouncedWrites
<1>6. CASE CancelReminder \/ MoveReminder
  <2>1. /\ request.stage = "asked"
        /\ request.intent \in {"reminder_cancel", "reminder_reschedule"}
        /\ UNCHANGED <<items, history, inbox, logs, tasks, created>>
    BY <1>6 DEF CancelReminder, MoveReminder, Asked, wvars, Beside
  <2>2. Changed \subseteq {"reminder"}
    BY <2>1, ChangedStores DEF Sources
  <2> QED
    BY <1>1, <2>1, <2>2, AnnouncedIs, AnnouncedWrites
<1>7. CASE EndTask \/ NewTask
  <2>1. /\ request.stage = "asked" /\ request.intent = "task" /\ ~ListsTasks
        /\ UNCHANGED <<items, history, inbox, logs>>
        /\ "decision" \notin created' \ created
    BY <1>7 DEF EndTask, NewTask, Asked, wvars, Beside
  <2>2. Changed \subseteq {"user_task", "reminder"}
    BY <2>1, ChangedStores DEF Sources
  <2> QED
    BY <1>1, <2>1, <2>2, AnnouncedIs, AnnouncedWrites
<1>8. CASE SaveDecision
  <2>1. /\ request.stage = "asked" /\ request.intent = "decision"
        /\ UNCHANGED <<items, history, inbox, reminders, logs, tasks>>
        /\ "user_task" \notin created' \ created
    BY <1>8 DEF SaveDecision, Asked, vars, stores
  <2>2. Changed \subseteq {"decision"}
    BY <2>1, ChangedStores DEF Sources
  <2> QED
    BY <1>1, <2>1, <2>2, AnnouncedIs, AnnouncedWrites
<1> QED
  BY <1>2, <1>3, <1>4, <1>5, <1>6, <1>7, <1>8, QuietRequest DEF RequestStep

\* A request changes only what it was announced to write, and nothing when it was
\* announced as a question or as talk; an operation on a waiting-for item is done on
\* the revision the assistant had looked at.  The rules of decide_intent and the
\* handlers read the text apart, and disagree about no request that writes.
THEOREM EffectsHold == AssistantSpec => EffectHolds
<1> DEFINE Held ==
      request' # request =>
        /\ Changed \subseteq IF request.effect = "write" THEN Announced[request.intent] ELSE {}
        /\ items'[First] # items[First] => items[First].rev = request.rev
<1>1. AssistantInv /\ [AssistantNext]_<<vars, avars>> => [Held]_<<vars, avars>>
  <2> SUFFICES ASSUME AssistantInv, AssistantNext, request' # request PROVE Announces
    BY DEF Announces
  <2>1. RequestStep
    BY TwoKinds DEF avars
  <2> QED
    BY <2>1, RequestAnnounces
<1> QED
  BY <1>1, AssistantInvariant, PTL DEF AssistantSpec, EffectHolds

-----------------------------------------------------------------------------
(* The list of a query *)

\* How many rows of M come before i.
Ahead(M, R, i) == {j \in M : <<j, i>> \in R}
Rank(M, R, i) == Cardinality(Ahead(M, R, i))

Orders(R, M) ==
  /\ \A i \in M : <<i, i>> \notin R
  /\ \A i, j \in M : i # j => <<i, j>> \in R \/ <<j, i>> \in R
  /\ \A i, j, k \in M : <<i, j>> \in R /\ <<j, k>> \in R => <<i, k>> \in R

LEMMA AheadIsFinite ==
  ASSUME NEW M, IsFiniteSet(M), NEW R, NEW i
  PROVE  IsFiniteSet(Ahead(M, R, i)) /\ Rank(M, R, i) \in Nat
<1>1. Ahead(M, R, i) \in SUBSET M
  BY DEF Ahead
<1> QED
  BY <1>1, FS_Subset, FS_CardinalityType DEF Rank

LEMMA RankGrows ==
  ASSUME NEW M, IsFiniteSet(M), NEW R, Orders(R, M), NEW i \in M, NEW j \in M, <<i, j>> \in R
  PROVE  Rank(M, R, i) < Rank(M, R, j)
<1>1. Ahead(M, R, i) \in SUBSET Ahead(M, R, j)
  BY DEF Ahead, Orders
<1>2. i \in Ahead(M, R, j) /\ i \notin Ahead(M, R, i)
  BY DEF Ahead, Orders
<1>3. IsFiniteSet(Ahead(M, R, j)) /\ Rank(M, R, i) \in Nat /\ Rank(M, R, j) \in Nat
  BY AheadIsFinite
<1>4. Cardinality(Ahead(M, R, i)) <= Cardinality(Ahead(M, R, j))
  BY <1>1, <1>3, FS_Subset
<1>5. Cardinality(Ahead(M, R, i)) # Cardinality(Ahead(M, R, j))
  BY <1>1, <1>2, <1>3, FS_Subset
<1> QED
  BY <1>3, <1>4, <1>5 DEF Rank

LEMMA RankBound ==
  ASSUME NEW M, IsFiniteSet(M), NEW R, Orders(R, M), NEW i \in M
  PROVE  Rank(M, R, i) \in 0..(Cardinality(M) - 1)
<1>1. Ahead(M, R, i) \in SUBSET M /\ Ahead(M, R, i) # M
  BY DEF Ahead, Orders
<1>2. Rank(M, R, i) \in Nat /\ Cardinality(M) \in Nat
  BY AheadIsFinite, FS_CardinalityType
<1>3. Cardinality(Ahead(M, R, i)) <= Cardinality(M)
      /\ Cardinality(Ahead(M, R, i)) # Cardinality(M)
  BY <1>1, FS_Subset
<1> QED
  BY <1>2, <1>3 DEF Rank

\* Counting what comes before numbers the rows.
LEMMA RanksNumber ==
  ASSUME NEW M, IsFiniteSet(M), NEW R, Orders(R, M)
  PROVE  /\ \A i, j \in M : Rank(M, R, i) = Rank(M, R, j) => i = j
         /\ \A k \in 1..Cardinality(M) : \E i \in M : Rank(M, R, i) = k - 1
<1> DEFINE n == Cardinality(M)
           f == [i \in M |-> Rank(M, R, i) + 1]
<1>1. n \in Nat
  BY FS_CardinalityType
<1>2. ASSUME NEW i \in M, NEW j \in M, Rank(M, R, i) = Rank(M, R, j) PROVE i = j
  <2>1. \A a, b \in M : Rank(M, R, a) \in Nat
    BY AheadIsFinite
  <2>2. <<i, j>> \in R => Rank(M, R, i) < Rank(M, R, j)
    BY RankGrows
  <2>3. <<j, i>> \in R => Rank(M, R, j) < Rank(M, R, i)
    BY RankGrows
  <2> QED
    BY <1>2, <2>1, <2>2, <2>3 DEF Orders
<1>3. \A i \in M : Rank(M, R, i) \in 0..(n - 1)
  BY RankBound
<1>4. f \in [M -> 1..n]
  BY <1>1, <1>3
<1>5. \A i, j \in M : f[i] = f[j] => i = j
  BY <1>2, <1>3
<1>6. f \in Injection(M, 1..n)
  BY <1>4, <1>5 DEF Injection, IsInjective
<1>7. IsFiniteSet(1..n) /\ Cardinality(1..n) = n
  BY <1>1, FS_Interval
<1>8. f \in Surjection(M, 1..n)
  BY <1>6, <1>7, FS_Injection
<1>9. \A k \in 1..n : \E i \in M : f[i] = k
  BY <1>8 DEF Surjection
<1>10. ASSUME NEW k \in 1..n PROVE \E i \in M : Rank(M, R, i) = k - 1
  <2>1. PICK i \in M : f[i] = k
    BY <1>9
  <2> QED
    BY <1>3, <2>1
<1> QED
  BY <1>2, <1>10

\* One row is written, perhaps moved: no other comes to stand among the first o that
\* was not, unless the row was one of them itself.
LEMMA RankMoves ==
  ASSUME NEW M, NEW N, IsFiniteSet(M), IsFiniteSet(N), NEW R, NEW S, Orders(R, M), NEW x,
         M \ {x} = N \ {x},
         \A i, j \in M \ {x} : <<i, j>> \in R <=> <<i, j>> \in S,
         NEW o \in Nat, x \in M => Rank(M, R, x) >= o,
         NEW i \in N, i # x, Rank(N, S, i) < o
  PROVE  i \in M /\ Rank(M, R, i) < o
<1> DEFINE A == Ahead(M, R, i)
           B == Ahead(N, S, i)
<1>1. i \in M /\ A \ {x} = B \ {x}
  BY DEF Ahead
<1>2. /\ IsFiniteSet(A) /\ IsFiniteSet(B)
      /\ Cardinality(A) \in Nat /\ Cardinality(B) \in Nat
      /\ Cardinality(A) = Rank(M, R, i) /\ Cardinality(B) = Rank(N, S, i)
  BY AheadIsFinite DEF Rank
<1>3. Cardinality(B \ {x}) <= Cardinality(B)
  BY <1>2, FS_Subset
<1>4. CASE x \notin A
  <2>1. A \ {x} = A
    BY <1>4
  <2> HIDE DEF A, B
  <2> QED
    BY <1>1, <1>2, <1>3, <2>1
<1>5. CASE x \in A
  <2>1. Cardinality(A \ {x}) = Cardinality(A) - 1
    BY <1>2, <1>5, FS_RemoveElement
  <2>2. x \in M /\ <<x, i>> \in R
    BY <1>5 DEF Ahead
  <2>3. Rank(M, R, x) < Rank(M, R, i)
    BY <1>1, <2>2, RankGrows
  <2>4. Rank(M, R, x) \in Nat
    BY AheadIsFinite
  <2> HIDE DEF A, B
  <2> QED
    BY <1>1, <1>2, <1>3, <2>1, <2>2, <2>3, <2>4, SMTT(30)
<1> QED
  BY <1>4, <1>5

\* The order of a query, on the rows it returns.
Sorting(q) == {ij \in Matching(q) \X Matching(q) : Precedes(q, ij[1], ij[2])}

Sorted(q) == IsFiniteSet(Matching(q)) /\ Orders(Sorting(q), Matching(q))

Place(q, i) == Rank(Matching(q), Sorting(q), i)

LEMMA ListIs ==
  ASSUME NEW q, Sorted(q)
  PROVE  /\ Len(List(q)) = Cardinality(Matching(q)) /\ Len(List(q)) \in Nat
         /\ List(q) \in Seq(Matching(q))
         /\ \A k \in 1..Len(List(q)) : Place(q, List(q)[k]) = k - 1
         /\ \A i \in Matching(q) : /\ Place(q, i) \in 0..(Len(List(q)) - 1)
                                   /\ List(q)[Place(q, i) + 1] = i
<1> DEFINE M == Matching(q)
           n == Cardinality(M)
           At(k) == CHOOSE i \in M : Cardinality({j \in M : Precedes(q, j, i)}) = k - 1
<1>1. IsFiniteSet(M) /\ Orders(Sorting(q), M)
  BY DEF Sorted
<1>2. n \in Nat
  BY <1>1, FS_CardinalityType
<1>3. \A i \in M : Cardinality({j \in M : Precedes(q, j, i)}) = Place(q, i)
  <2>1. \A i \in M : {j \in M : Precedes(q, j, i)} = Ahead(M, Sorting(q), i)
    BY DEF Ahead, Sorting
  <2> QED
    BY <2>1 DEF Place, Rank
<1>4. List(q) = [k \in 1..n |-> At(k)]
  BY DEF List
<1>5. ASSUME NEW k \in 1..n PROVE At(k) \in M /\ Place(q, At(k)) = k - 1
  <2>1. \E i \in M : Place(q, i) = k - 1
    BY <1>1, RanksNumber DEF Place
  <2>2. \E i \in M : Cardinality({j \in M : Precedes(q, j, i)}) = k - 1
    BY <1>3, <2>1
  <2>3. At(k) \in M /\ Cardinality({j \in M : Precedes(q, j, At(k))}) = k - 1
    BY <2>2
  <2> QED
    BY <1>3, <2>3
<1>6. \A i \in M : Place(q, i) \in 0..(n - 1)
  BY <1>1, RankBound DEF Place
<1>7. \A i, j \in M : Place(q, i) = Place(q, j) => i = j
  BY <1>1, RanksNumber DEF Place
<1> HIDE DEF M, n, At
<1>8. List(q) \in Seq(M) /\ Len(List(q)) = n
  BY <1>2, <1>4, <1>5
<1>9. \A k \in 1..n : List(q)[k] = At(k)
  BY <1>4
<1>10. ASSUME NEW i \in M PROVE List(q)[Place(q, i) + 1] = i
  <2>1. Place(q, i) + 1 \in 1..n
    BY <1>2, <1>6
  <2>2. PICK k \in 1..n : k = Place(q, i) + 1
    BY <2>1
  <2>3. At(k) \in M /\ Place(q, At(k)) = Place(q, i)
    BY <1>5, <1>6, <2>2
  <2> QED
    BY <1>7, <1>9, <2>2, <2>3
<1> QED
  BY <1>2, <1>5, <1>6, <1>8, <1>9, <1>10 DEF M, n

\* The first o rows.
FirstRows(q, o) == {List(q)[k] : k \in 1..Len(List(q)) \cap 1..o}

LEMMA FirstRowsAre ==
  ASSUME NEW q, Sorted(q), NEW o \in Nat
  PROVE  FirstRows(q, o) = {i \in Matching(q) : Place(q, i) < o}
<1> DEFINE L == List(q)
<1>1. /\ Len(L) \in Nat /\ L \in Seq(Matching(q))
      /\ \A k \in 1..Len(L) : L[k] \in Matching(q) /\ Place(q, L[k]) = k - 1
      /\ \A i \in Matching(q) : Place(q, i) \in 0..(Len(L) - 1) /\ L[Place(q, i) + 1] = i
  BY ListIs
<1> HIDE DEF L
<1>2. ASSUME NEW k \in 1..Len(L) \cap 1..o PROVE L[k] \in Matching(q) /\ Place(q, L[k]) < o
  BY <1>1
<1>3. ASSUME NEW i \in Matching(q), Place(q, i) < o
      PROVE  \E k \in 1..Len(L) \cap 1..o : L[k] = i
  <2>1. Place(q, i) + 1 \in 1..Len(L) \cap 1..o
    BY <1>1, <1>3
  <2> QED
    BY <1>1, <2>1
<1> QED
  BY <1>2, <1>3 DEF FirstRows, L

\* LIMIT and OFFSET.
LEMMA CutOut ==
  ASSUME NEW T, NEW L \in Seq(T), NEW o \in Nat, NEW s \in Nat \ {0}, NEW page,
         page = SubSeq(L, o + 1, IF o + s < Len(L) THEN o + s ELSE Len(L))
  PROVE  /\ Len(page) \in Nat /\ DOMAIN page = 1..Len(page)
         /\ o + s <= Len(L) => Len(page) = s
         /\ o + s > Len(L) => Len(page) < s
         /\ \A k \in 1..Len(page) : page[k] = L[o + k] /\ o + k \in 1..Len(L) /\ k <= s
         /\ \A k \in 1..Len(L) : k > o /\ k <= o + s => k - o \in 1..Len(page)
<1>1. PICK m, n : m = Len(L) /\ n = IF o + s < Len(L) THEN o + s ELSE Len(L)
  OBVIOUS
<1>2. /\ m \in Nat /\ n \in Nat /\ n <= m /\ n <= o + s
      /\ o + s <= m => n = o + s
      /\ o + s > m => n = m
  BY <1>1
<1>3. /\ page \in Seq(T)
      /\ Len(page) = IF o + 1 <= n THEN n - (o + 1) + 1 ELSE 0
      /\ \A k \in 1..(n - (o + 1) + 1) : page[k] = L[(o + 1) + k - 1]
  <2>1. \A k \in (o + 1)..n : L[k] \in T
    BY <1>1, <1>2
  <2>2. o + 1 \in Int /\ n \in Int
    BY <1>2
  <2> QED
    <3>1. page = SubSeq(L, o + 1, n)
      BY <1>1
    <3>2. PICK a : a = o + 1
      OBVIOUS
    <3>3. /\ SubSeq(L, a, n) \in Seq(T)
          /\ Len(SubSeq(L, a, n)) = IF a <= n THEN n - a + 1 ELSE 0
          /\ \A k \in 1..(n - a + 1) : SubSeq(L, a, n)[k] = L[a + k - 1]
      BY <2>1, <2>2, <3>2, SubSeqProperties
    <3> QED
      BY <3>1, <3>2, <3>3
<1>4. DOMAIN page = 1..Len(page) /\ Len(page) \in Nat
  BY <1>3
<1>5. ASSUME NEW k \in 1..Len(page)
      PROVE  page[k] = L[o + k] /\ o + k \in 1..m /\ k <= s
  <2>1. k \in 1..(n - (o + 1) + 1)
    BY <1>2, <1>3
  <2>2. page[k] = L[(o + 1) + k - 1]
    BY <1>3, <2>1
  <2>3. (o + 1) + k - 1 = o + k /\ o + k \in 1..m /\ k <= s
    BY <1>2, <2>1
  <2> QED
    BY <2>2, <2>3
<1> QED
  BY <1>1, <1>2, <1>3, <1>4, <1>5

\* The rows of a page.
LEMMA PageIs ==
  ASSUME NEW q, Sorted(q), offset \in Nat, NEW page, page = PageAt(List(q))
  PROVE  /\ Len(page) \in Nat
         /\ Range(page) = {i \in Matching(q) :
                             Place(q, i) >= offset /\ Place(q, i) < offset + PageSize}
         /\ offset + PageSize <= Len(List(q)) => Len(page) = PageSize
         /\ offset + PageSize > Len(List(q)) => Len(page) < PageSize
<1>1. PICK L : L = List(q)
  OBVIOUS
<1>2. /\ Len(L) \in Nat /\ L \in Seq(Matching(q)) /\ PageSize \in Nat \ {0}
      /\ \A k \in 1..Len(L) : L[k] \in Matching(q) /\ Place(q, L[k]) = k - 1
      /\ \A i \in Matching(q) : Place(q, i) \in 0..(Len(L) - 1) /\ L[Place(q, i) + 1] = i
  BY <1>1, ListIs, ReviewAssumption
<1>3. /\ Len(page) \in Nat /\ DOMAIN page = 1..Len(page)
      /\ offset + PageSize <= Len(L) => Len(page) = PageSize
      /\ offset + PageSize > Len(L) => Len(page) < PageSize
      /\ \A k \in 1..Len(page) :
           page[k] = L[offset + k] /\ offset + k \in 1..Len(L) /\ k <= PageSize
      /\ \A k \in 1..Len(L) : k > offset /\ k <= offset + PageSize => k - offset \in 1..Len(page)
  <2>1. page = SubSeq(L, offset + 1, IF offset + PageSize < Len(L) THEN offset + PageSize
                                                                   ELSE Len(L))
    BY <1>1 DEF PageAt
  <2>2. PICK s, o, T : s = PageSize /\ o = offset /\ T = Matching(q)
    OBVIOUS
  <2>3. /\ L \in Seq(T) /\ s \in Nat \ {0} /\ o \in Nat
        /\ page = SubSeq(L, o + 1, IF o + s < Len(L) THEN o + s ELSE Len(L))
    BY <1>2, <2>1, <2>2
  <2> HIDE <2>1
  <2>4. /\ Len(page) \in Nat /\ DOMAIN page = 1..Len(page)
        /\ o + s <= Len(L) => Len(page) = s
        /\ o + s > Len(L) => Len(page) < s
        /\ \A k \in 1..Len(page) : page[k] = L[o + k] /\ o + k \in 1..Len(L) /\ k <= s
        /\ \A k \in 1..Len(L) : k > o /\ k <= o + s => k - o \in 1..Len(page)
    BY <2>3, CutOut
  <2> QED
    BY <2>2, <2>4
<1>4. ASSUME NEW k \in 1..Len(page)
      PROVE  /\ page[k] \in Matching(q) /\ Place(q, page[k]) >= offset
             /\ Place(q, page[k]) < offset + PageSize
  <2>1. page[k] = L[offset + k] /\ offset + k \in 1..Len(L) /\ k <= PageSize
    BY <1>3
  <2>2. L[offset + k] \in Matching(q) /\ Place(q, L[offset + k]) = offset + k - 1
    <3>1. \A n \in 1..Len(L) : L[n] \in Matching(q) /\ Place(q, L[n]) = n - 1
      BY <1>2
    <3>2. offset + k \in 1..Len(L)
      BY <2>1
    <3>3. PICK n : n = offset + k
      OBVIOUS
    <3>4. n \in 1..Len(L)
      BY <3>2, <3>3
    <3>5. L[n] \in Matching(q) /\ Place(q, L[n]) = n - 1
      BY <3>1, <3>4
    <3> QED
      BY <3>3, <3>5
  <2>3. page[k] \in Matching(q) /\ Place(q, page[k]) = offset + k - 1
    BY <2>1, <2>2
  <2>4. PICK x : x = offset + k - 1
    OBVIOUS
  <2>5. x >= offset /\ x < offset + PageSize
    <3>1. k \in Nat /\ k >= 1 /\ k <= PageSize /\ PageSize \in Nat
      <4>1. Len(page) \in Nat
        BY <1>3
      <4>2. k \in Nat /\ k >= 1
        BY <4>1
      <4>3. PageSize \in Nat
        BY ReviewAssumption
      <4> QED
        BY <2>1, <4>2, <4>3
    <3> QED
      BY <2>4, <3>1
  <2> QED
    BY <2>3, <2>4, <2>5
<1>5. ASSUME NEW i \in Matching(q), Place(q, i) >= offset, Place(q, i) < offset + PageSize
      PROVE  \E k \in 1..Len(page) : page[k] = i
  <2>1. PICK k : k = Place(q, i) + 1
    OBVIOUS
  <2>2. k \in 1..Len(L) /\ L[k] = i
    BY <1>2, <2>1
  <2>3. k > offset /\ k <= offset + PageSize
    BY <1>2, <1>5, <2>1
  <2>4. k - offset \in 1..Len(page)
    BY <1>3, <2>2, <2>3
  <2>5. page[k - offset] = L[offset + (k - offset)]
    BY <1>3, <2>4
  <2>6. offset + (k - offset) = k
    BY <2>2
  <2> QED
    BY <2>2, <2>4, <2>5, <2>6
<1>6. Range(page) = {page[k] : k \in 1..Len(page)}
  BY <1>3 DEF Range
<1> QED
  BY <1>1, <1>3, <1>4, <1>5, <1>6

\* Rows sorted by two keys and the identifier, and newest first.
Sooner(v, w, i, j) ==
  \/ v[i] < v[j]
  \/ v[i] = v[j] /\ (w[i] < w[j] \/ (w[i] = w[j] /\ i < j))

LEMMA ByTwoKeys ==
  ASSUME NEW M, M \subseteq Nat, NEW R, NEW v, NEW w, \A i \in M : v[i] \in Nat,
         \A i \in M : w[i] \in Nat, \A i, j \in M : <<i, j>> \in R <=> Sooner(v, w, i, j)
  PROVE  Orders(R, M)
<1>1. \A i \in M : <<i, i>> \notin R
  BY DEF Sooner
<1>2. \A i, j \in M : i # j => <<i, j>> \in R \/ <<j, i>> \in R
  BY DEF Sooner
<1>3. ASSUME NEW i \in M, NEW j \in M, NEW k \in M, <<i, j>> \in R, <<j, k>> \in R
      PROVE  <<i, k>> \in R
  BY <1>3 DEF Sooner
<1> QED
  BY <1>1, <1>2, <1>3 DEF Orders

LEMMA NewestFirst ==
  ASSUME NEW M, M \subseteq Nat, NEW R, NEW v, \A i \in M : v[i] \in Nat,
         \A i, j \in M : <<i, j>> \in R <=> v[j] < v[i] \/ (v[i] = v[j] /\ j < i)
  PROVE  Orders(R, M)
<1>1. \A i \in M : <<i, i>> \notin R
  OBVIOUS
<1>2. \A i, j \in M : i # j => <<i, j>> \in R \/ <<j, i>> \in R
  OBVIOUS
<1>3. ASSUME NEW i \in M, NEW j \in M, NEW k \in M, <<i, j>> \in R, <<j, k>> \in R
      PROVE  <<i, k>> \in R
  BY <1>3
<1> QED
  BY <1>1, <1>2, <1>3 DEF Orders

LEMMA OccurredIsDate == ASSUME NEW row \in LogRow PROVE OccurredAt(row) \in Nat
<1> DEFINE D == {k \in 1..3 : row.dates[k] # Missing}
<1>1. row.dates \in [1..3 -> 0..5]
  BY DEF LogRow
<1>2. CASE D = {}
  BY <1>2 DEF OccurredAt, Missing
<1>3. CASE D # {}
  <2>1. \E k \in D : \A j \in D : k <= j
    <3>1. PICK k \in D : TRUE
      BY <1>3
    <3>2. CASE 1 \in D
      BY <3>2
    <3>3. CASE 1 \notin D /\ 2 \in D
      BY <3>3
    <3>4. CASE 1 \notin D /\ 2 \notin D
      BY <3>1, <3>4
    <3> QED
      BY <3>2, <3>3, <3>4
  <2>2. (CHOOSE k \in D : \A j \in D : k <= j) \in D
    BY <2>1
  <2> HIDE DEF D
  <2>3. \A k \in D : k \in 1..3
    BY DEF D
  <2>4. PICK m : m = CHOOSE k \in D : \A j \in D : k <= j
    OBVIOUS
  <2>5. m \in 1..3
    BY <2>2, <2>3, <2>4, Zenon
  <2>6. row.dates[m] \in 0..5
    BY <1>1, <2>5, Zenon
  <2>7. OccurredAt(row) = row.dates[m]
    BY <1>3, <2>4, Zenon DEF OccurredAt, D
  <2> QED
    BY <2>6, <2>7
<1> QED
  BY <1>2, <1>3

\* What the tables hold.
TablesOK ==
  /\ items \in [Items -> ItemRow] /\ logs \in [Logs -> LogRow]
  /\ DOMAIN tasks = Tasks /\ due \in [Tasks -> Dates]
  /\ reminders \in [Reminders -> [st : ReminderStatus, at : Dates]]
  /\ DOMAIN inbox = Captures

Home == [work_log |-> Logs, waiting_for |-> Items, reminder |-> Reminders,
         inbox |-> Captures, user_task |-> Tasks]

LEMMA MatchingAtHome ==
  ASSUME NEW q, q.source \in Sources
  PROVE  /\ Matching(q) \in SUBSET Home[q.source] /\ Home[q.source] \subseteq Ids
         /\ Home[q.source] \subseteq Nat /\ IsFiniteSet(Matching(q))
<1>1. Matching(q) \in SUBSET Home[q.source]
  BY DEF Matching, Sources, Home, Listed, MatchingReminders, MatchingTasks
<1>2. Home[q.source] \in {Tasks, Items, Logs, Reminders, Captures}
  BY DEF Sources, Home
<1>3. Home[q.source] \subseteq Ids /\ Home[q.source] \subseteq Nat
  BY <1>2, ReviewAssumption DEF Ids
<1>4. IsFiniteSet(Matching(q))
  BY <1>1, <1>2, ReviewAssumption, FS_Subset
<1> QED
  BY <1>1, <1>3, <1>4

LEMMA QueriesSorted ==
  ASSUME TablesOK, NEW q, q.source \in Sources
  PROVE  Sorted(q)
<1> DEFINE M == Matching(q)
<1>1. M \subseteq Nat /\ IsFiniteSet(M) /\ M \in SUBSET Home[q.source]
  BY MatchingAtHome
<1>2. \A i, j \in M : <<i, j>> \in Sorting(q) <=> Precedes(q, i, j)
  BY DEF Sorting
<1> HIDE DEF M
<1>3. CASE q.source = "work_log"
  <2> DEFINE v == [i \in M |-> OccurredAt(logs[i])]
  <2>1. \A i \in M : v[i] \in Nat
    BY <1>1, <1>3, OccurredIsDate DEF Home, TablesOK
  <2>2. \A i, j \in M : Precedes(q, i, j) <=> v[j] < v[i] \/ (v[i] = v[j] /\ j < i)
    BY <1>1, <1>3, <2>1 DEF Precedes
  <2> HIDE DEF v
  <2>3. Orders(Sorting(q), M)
    BY <1>1, <1>2, <2>1, <2>2, NewestFirst
  <2> QED
    BY <1>1, <2>3 DEF Sorted, M
<1>4. CASE q.source = "inbox"
  <2> DEFINE v == [i \in M |-> 0]
  <2>1. \A i \in M : v[i] \in Nat
    OBVIOUS
  <2>2. \A i, j \in M : Precedes(q, i, j) <=> v[j] < v[i] \/ (v[i] = v[j] /\ j < i)
    BY <1>1, <1>4 DEF Precedes
  <2> HIDE DEF v
  <2>3. Orders(Sorting(q), M)
    BY <1>1, <1>2, <2>1, <2>2, NewestFirst
  <2> QED
    BY <1>1, <2>3 DEF Sorted, M
<1>5. CASE q.source = "waiting_for"
  <2> DEFINE v == [i \in M |-> items[i].review]
             w == [i \in M |-> items[i].expected]
  <2>1. \A i \in M : v[i] \in Nat /\ w[i] \in Nat
    BY <1>1, <1>5 DEF Home, TablesOK, ItemRow, Instants, Past, Soon, Later, NoDate
  <2>2. \A i, j \in M : Precedes(q, i, j) <=> Sooner(v, w, i, j)
    BY <1>1, <1>5 DEF Precedes, Sooner
  <2> HIDE DEF v, w
  <2>3. PICK R : R = Sorting(q)
    OBVIOUS
  <2>4. \A i, j \in M : <<i, j>> \in R <=> Sooner(v, w, i, j)
    BY <1>2, <2>2, <2>3
  <2>5. M \subseteq Nat /\ (\A i \in M : v[i] \in Nat) /\ (\A i \in M : w[i] \in Nat)
    BY <1>1, <2>1
  <2>6. Orders(R, M)
    BY <2>4, <2>5, ByTwoKeys
  <2> QED
    BY <1>1, <2>3, <2>6 DEF Sorted, M
<1>6. CASE q.source \in {"reminder", "user_task"}
  <2> DEFINE v == [i \in M |-> IF q.source = "reminder" THEN reminders[i].at ELSE due[i]]
             w == [i \in M |-> 0]
  <2>1. \A i \in M : v[i] \in Nat /\ w[i] \in Nat
    BY <1>1, <1>6 DEF Home, TablesOK, Dates, Instants, Past, Soon, Later, NoDate
  <2>2. \A i, j \in M : Precedes(q, i, j) <=> Sooner(v, w, i, j)
    BY <1>1, <1>6, <2>1 DEF Precedes, Sooner
  <2> HIDE DEF v, w
  <2>3. PICK R : R = Sorting(q)
    OBVIOUS
  <2>4. \A i, j \in M : <<i, j>> \in R <=> Sooner(v, w, i, j)
    BY <1>2, <2>2, <2>3
  <2>5. M \subseteq Nat /\ (\A i \in M : v[i] \in Nat) /\ (\A i \in M : w[i] \in Nat)
    BY <1>1, <2>1
  <2>6. Orders(R, M)
    BY <2>4, <2>5, ByTwoKeys
  <2> QED
    BY <1>1, <2>3, <2>6 DEF Sorted, M
<1> QED
  BY <1>3, <1>4, <1>5, <1>6 DEF Sources

-----------------------------------------------------------------------------
(* What the answer holds of one object *)

LEMMA QueryFacts ==
  /\ Len(Queries) \in Nat /\ DOMAIN Queries = 1..Len(Queries)
  /\ \A n \in DOMAIN Queries : Queries[n].source \in Sources
<1> USE DEF Query, Waiting, Sources
<1>1. CASE load.reader \notin Views
  <2>1. Queries = ReviewQueries
    BY <1>1 DEF Queries
  <2> QED
    BY <2>1 DEF ReviewQueries
<1>2. CASE load.reader \in Views
  <2>1. load.reader \in {"today", "next", "attention", "completed", "all"}
    BY <1>2 DEF Views, AgendaQueries
  <2>2. Queries = AgendaQueries[load.reader]
    BY <1>2 DEF Queries
  <2>3. CASE load.reader = "today"
    BY <2>2, <2>3 DEF AgendaQueries
  <2>4. CASE load.reader = "next"
    BY <2>2, <2>4 DEF AgendaQueries
  <2>5. CASE load.reader = "attention"
    BY <2>2, <2>5 DEF AgendaQueries
  <2>6. CASE load.reader = "completed"
    BY <2>2, <2>6 DEF AgendaQueries
  <2>7. CASE load.reader = "all"
    BY <2>2, <2>7 DEF AgendaQueries
  <2> QED
    BY <2>1, <2>3, <2>4, <2>5, <2>6, <2>7
<1> QED
  BY <1>1, <1>2

\* Queries of one source: only of user tasks are there several, by the state of the
\* task or by how its date compares.
Filters == {"completed", "cancelled", "overdue", "due_soon"}
Apart(Q) ==
  \A m, n \in DOMAIN Q : m # n /\ Q[m].source = Q[n].source =>
    /\ Q[m].source = "user_task" /\ Q[m].filter # Q[n].filter
    /\ \/ Q[m].filter \in Filters /\ Q[n].filter \in Filters
       \/ /\ Q[m].filter \in {"active", "completed", "cancelled"}
          /\ Q[n].filter \in {"active", "completed", "cancelled"}

LEMMA QueriesApart == Apart(Queries)
<1> USE DEF Query, Waiting
<1>1. CASE load.reader \notin Views
  <2>1. Queries = ReviewQueries
    BY <1>1 DEF Queries
  <2>2. Apart(ReviewQueries)
    BY DEF Apart, ReviewQueries, Filters
  <2> QED
    BY <2>1, <2>2
<1>2. CASE load.reader \in Views
  <2>1. load.reader \in {"today", "next", "attention", "completed", "all"}
    BY <1>2 DEF Views, AgendaQueries
  <2>2. Queries = AgendaQueries[load.reader]
    BY <1>2 DEF Queries
  <2>3. Apart(AgendaQueries["today"])
    BY DEF Apart, AgendaQueries
  <2>4. Apart(AgendaQueries["next"])
    BY DEF Apart, AgendaQueries
  <2>5. Apart(AgendaQueries["attention"])
    BY DEF Apart, AgendaQueries
  <2>6. Apart(AgendaQueries["completed"])
    BY DEF Apart, AgendaQueries
  <2>7. Apart(AgendaQueries["all"])
    BY DEF Apart, AgendaQueries
  <2> QED
    BY <2>1, <2>2, <2>3, <2>4, <2>5, <2>6, <2>7
<1> QED
  BY <1>1, <1>2

\* No row is in two of them.
LEMMA OneQuery ==
  \A m, n \in DOMAIN Queries : \A i :
    Queries[m].source = Queries[n].source /\ i \in Matching(Queries[m])
      /\ i \in Matching(Queries[n]) => m = n
<1> SUFFICES ASSUME NEW m \in DOMAIN Queries, NEW n \in DOMAIN Queries, NEW i,
                    Queries[m].source = Queries[n].source,
                    i \in Matching(Queries[m]), i \in Matching(Queries[n]), m # n
             PROVE  FALSE
  OBVIOUS
<1>1. PICK f, g : f = Queries[m].filter /\ g = Queries[n].filter
  OBVIOUS
<1>2. /\ Queries[m].source = "user_task" /\ Queries[n].source = "user_task" /\ f # g
      /\ \/ f \in Filters /\ g \in Filters
         \/ f \in {"active", "completed", "cancelled"} /\ g \in {"active", "completed", "cancelled"}
  BY <1>1, QueriesApart DEF Apart
<1>3. i \in MatchingTasks(f) /\ i \in MatchingTasks(g)
  BY <1>1, <1>2 DEF Matching
<1>4. ASSUME NEW h, h \in {"active", "completed", "cancelled"}, i \in MatchingTasks(h)
      PROVE  tasks[i].st = h
  BY <1>4 DEF MatchingTasks
<1>5. i \in MatchingTasks("overdue") => tasks[i].st = "active" /\ due[i] = Past
  BY DEF MatchingTasks
<1>6. i \in MatchingTasks("due_soon") => tasks[i].st = "active" /\ due[i] = Soon
  BY DEF MatchingTasks
<1> QED
  BY <1>2, <1>3, <1>4, <1>5, <1>6 DEF Filters, Past, Soon

LEMMA CandidatesOf ==
  ASSUME NEW q, NEW rows, NEW s, NEW i
  PROVE  Of(Candidates(q, rows), s, i) =
           IF q.source = s /\ i \in rows THEN Candidates(q, {i}) ELSE {}
<1>1. \A c : c \in Candidates(q, rows) <=>
        \E j \in rows : \E x \in Reasons(q, j) : c = Entry(q, j, x[1], x[2])
  BY DEF Candidates
<1>2. \A c : c \in Candidates(q, {i}) <=> \E x \in Reasons(q, i) : c = Entry(q, i, x[1], x[2])
  BY DEF Candidates
<1>3. \A j, x : Entry(q, j, x[1], x[2]).source = q.source /\ Entry(q, j, x[1], x[2]).id = j
  BY DEF Entry
<1>4. \A c : c \in Of(Candidates(q, rows), s, i) <=>
        /\ q.source = s /\ i \in rows
        /\ \E x \in Reasons(q, i) : c = Entry(q, i, x[1], x[2])
  <2>1. \A c : c \in Of(Candidates(q, rows), s, i) <=>
          c \in Candidates(q, rows) /\ c.source = s /\ c.id = i
    BY DEF Of
  <2>2. ASSUME NEW c, c \in Candidates(q, rows), c.source = s, c.id = i
        PROVE  q.source = s /\ i \in rows /\ \E x \in Reasons(q, i) : c = Entry(q, i, x[1], x[2])
    <3>1. PICK j \in rows : \E x \in Reasons(q, j) : c = Entry(q, j, x[1], x[2])
      BY <1>1, <2>2
    <3>2. PICK x \in Reasons(q, j) : c = Entry(q, j, x[1], x[2])
      BY <3>1
    <3>3. c.source = q.source /\ c.id = j
      BY <1>3, <3>2
    <3> QED
      BY <2>2, <3>2, <3>3
  <2>3. ASSUME q.source = s, i \in rows, NEW x \in Reasons(q, i), NEW c, c = Entry(q, i, x[1], x[2])
        PROVE  c \in Candidates(q, rows) /\ c.source = s /\ c.id = i
    BY <1>1, <1>3, <2>3
  <2> QED
    BY <2>1, <2>2, <2>3
<1>5. CASE q.source = s /\ i \in rows
  <2>1. \A c : c \in Of(Candidates(q, rows), s, i) <=> c \in Candidates(q, {i})
    BY <1>2, <1>4, <1>5
  <2>2. Of(Candidates(q, rows), s, i) \subseteq Candidates(q, {i})
    BY <2>1
  <2>3. Candidates(q, {i}) \subseteq Of(Candidates(q, rows), s, i)
    BY <2>1
  <2> QED
    BY <1>5, <2>2, <2>3
<1>6. CASE ~(q.source = s /\ i \in rows)
  BY <1>4, <1>6
<1> QED
  BY <1>5, <1>6

\* All that one object gives comes from the one query that returns it.
Asks == {Queries[n] : n \in DOMAIN Queries}

LEMMA AllOf ==
  \A s, i : \A q \in Asks :
    q.source = s /\ i \in Matching(q) => Of(Everything, s, i) = Candidates(q, {i})
<1> SUFFICES ASSUME NEW s, NEW i, NEW n \in DOMAIN Queries,
                    Queries[n].source = s, i \in Matching(Queries[n])
             PROVE  Of(Everything, s, i) = Candidates(Queries[n], {i})
  BY DEF Asks
<1>1. \A c : c \in Of(Everything, s, i) <=>
        \E m \in DOMAIN Queries : c \in Of(Candidates(Queries[m], Matching(Queries[m])), s, i)
  BY DEF Everything, Of
<1>2. \A m \in DOMAIN Queries :
        Of(Candidates(Queries[m], Matching(Queries[m])), s, i) =
          IF m = n THEN Candidates(Queries[n], {i}) ELSE {}
  BY CandidatesOf, OneQuery
<1> QED
  BY <1>1, <1>2

LEMMA NothingOf ==
  \A s, i : (\A q \in Asks : ~(q.source = s /\ i \in Matching(q))) =>
    Of(Everything, s, i) = {}
<1> SUFFICES ASSUME NEW s, NEW i, \A n \in DOMAIN Queries :
                      ~(Queries[n].source = s /\ i \in Matching(Queries[n]))
             PROVE  Of(Everything, s, i) = {}
  BY DEF Asks
<1>1. \A c : c \in Of(Everything, s, i) <=>
        \E m \in DOMAIN Queries : c \in Of(Candidates(Queries[m], Matching(Queries[m])), s, i)
  BY DEF Everything, Of
<1>2. \A m \in DOMAIN Queries : Of(Candidates(Queries[m], Matching(Queries[m])), s, i) = {}
  BY CandidatesOf
<1> QED
  BY <1>1, <1>2

\* What is reported of an object depends on its own candidates alone.
LEMMA ReportedOf == \A C, s, i : Of(Reported(C), s, i) = Reported(Of(C, s, i))
<1> SUFFICES ASSUME NEW C, NEW s, NEW i PROVE Of(Reported(C), s, i) = Reported(Of(C, s, i))
  OBVIOUS
<1>1. Of(Selected(C), s, i) = Selected(Of(C, s, i))
  BY DEF Of, Selected
<1> QED
  BY <1>1 DEF Reported

-----------------------------------------------------------------------------
(* What a write leaves as it was *)

\* A step leaves a row of source s alone.
Kept(s, i) ==
  i \in Home[s] =>
    CASE s = "work_log"    -> logs'[i] = logs[i]
      [] s = "waiting_for" -> items'[i] = items[i]
      [] s = "reminder"    -> reminders'[i] = reminders[i]
      [] s = "inbox"       -> inbox'[i] = inbox[i] /\ (i \in young' <=> i \in young)
      [] s = "user_task"   -> tasks'[i] = tasks[i] /\ due'[i] = due[i]

LEMMA MatchingKept ==
  ASSUME NEW q, q.source \in Sources, NEW i \in Home[q.source], Kept(q.source, i)
  PROVE  i \in Matching(q)' <=> i \in Matching(q)
<1>1. CASE q.source = "work_log"
  BY <1>1 DEF Kept, Matching, Listed, Visible
<1>2. CASE q.source = "waiting_for"
  BY <1>2 DEF Kept, Matching
<1>3. CASE q.source = "reminder"
  BY <1>3 DEF Kept, Matching, MatchingReminders
<1>4. CASE q.source = "inbox"
  BY <1>4 DEF Kept, Matching
<1>5. CASE q.source = "user_task"
  BY <1>5 DEF Kept, Matching, MatchingTasks
<1> QED
  BY <1>1, <1>2, <1>3, <1>4, <1>5 DEF Sources

LEMMA ReasonsKept ==
  ASSUME NEW q, q.source \in Sources, NEW i \in Home[q.source], Kept(q.source, i), load' = load
  PROVE  Reasons(q, i)' = Reasons(q, i)
<1>1. Reviewing' = Reviewing
  BY DEF Reviewing
<1>2. ReviewReasons(q, i)' = ReviewReasons(q, i)
  <2>1. CASE q.source = "work_log"
    BY <2>1 DEF Kept, ReviewReasons
  <2>2. CASE q.source = "waiting_for"
    BY <2>2 DEF Kept, ReviewReasons
  <2>3. CASE q.source = "reminder"
    BY <2>3 DEF Kept, ReviewReasons
  <2>4. CASE q.source = "inbox"
    BY <2>4 DEF Kept, ReviewReasons, InboxReasons
  <2>5. CASE q.source = "user_task"
    BY <2>5 DEF ReviewReasons
  <2> QED
    BY <2>1, <2>2, <2>3, <2>4, <2>5 DEF Sources
<1>3. AgendaKinds(q, i)' = AgendaKinds(q, i)
  <2>1. CASE q.source = "work_log"
    BY <2>1 DEF Kept, AgendaKinds
  <2>2. CASE q.source = "waiting_for"
    <3>1. /\ AgendaKinds(q, i) = AgendaWaiting(items[i])
          /\ AgendaKinds(q, i)' = AgendaWaiting(items[i])'
      BY <2>2 DEF AgendaKinds
    <3>2. items'[i] = items[i]
      BY <2>2 DEF Kept
    <3>3. AgendaWaiting(items[i])' = AgendaWaiting(items[i])
      BY <3>2 DEF AgendaWaiting
    <3> QED
      BY <3>1, <3>3
  <2>3. CASE q.source = "reminder"
    BY <2>3 DEF Kept, AgendaKinds
  <2>4. CASE q.source \in {"inbox", "user_task"}
    BY <2>4 DEF AgendaKinds
  <2> QED
    BY <2>1, <2>2, <2>3, <2>4 DEF Sources
<1> QED
  BY <1>1, <1>2, <1>3 DEF Reasons

LEMMA OrderKept ==
  ASSUME NEW q, q.source \in Sources, NEW i \in Home[q.source], NEW j \in Home[q.source],
         Kept(q.source, i), Kept(q.source, j)
  PROVE  Precedes(q, i, j)' <=> Precedes(q, i, j)
<1>1. CASE q.source = "work_log"
  BY <1>1 DEF Kept, Precedes
<1>2. CASE q.source = "waiting_for"
  BY <1>2 DEF Kept, Precedes
<1>3. CASE q.source = "reminder"
  BY <1>3 DEF Kept, Precedes
<1>4. CASE q.source = "inbox"
  BY <1>4 DEF Kept, Precedes
<1>5. CASE q.source = "user_task"
  BY <1>5 DEF Kept, Precedes
<1> QED
  BY <1>1, <1>2, <1>3, <1>4, <1>5 DEF Sources

MatchesAtHome ==
  \A q : q.source \in Sources => Matching(q) \subseteq Home[q.source] /\ IsFiniteSet(Matching(q))

OneAsks ==
  \A s, i : \A q \in Asks :
    q.source = s /\ i \in Matching(q) => Of(Everything, s, i) = Candidates(q, {i})

NoneAsks ==
  \A s, i : (\A q \in Asks : ~(q.source = s /\ i \in Matching(q))) =>
    Of(Everything, s, i) = {}

LEMMA BeforeTheStep == MatchesAtHome /\ OneAsks /\ NoneAsks
  BY MatchingAtHome, AllOf, NothingOf DEF MatchesAtHome, OneAsks, NoneAsks

LEMMA AfterTheStep == (MatchesAtHome /\ OneAsks /\ NoneAsks)'
  BY BeforeTheStep, PTL

LEMMA AskSources == \A q \in Asks : q.source \in Sources
  BY QueryFacts DEF Asks

LEMMA CandidatesKept ==
  ASSUME NEW q, q.source \in Sources, NEW i \in Home[q.source], Kept(q.source, i), load' = load
  PROVE  Candidates(q, {i})' = Candidates(q, {i})
<1>1. Reasons(q, i)' = Reasons(q, i)
  BY ReasonsKept
<1>2. Candidates(q, {i}) = {Entry(q, i, x[1], x[2]) : x \in Reasons(q, i)}
  BY DEF Candidates
<1>3. Candidates(q, {i})' = {Entry(q, i, x[1], x[2]) : x \in Reasons(q, i)'}
  BY DEF Candidates, Entry
<1> QED
  BY <1>1, <1>2, <1>3

\* A row nobody writes is returned by the same queries, and gives the same.
LEMMA ReturnedKept ==
  ASSUME NEW q, q.source \in Sources, NEW i, Kept(q.source, i)
  PROVE  i \in Matching(q)' <=> i \in Matching(q)
<1>1. Matching(q)' \subseteq Home'[q.source]
  BY AfterTheStep DEF MatchesAtHome
<1>2. Home' = Home
  BY DEF Home
<1>3. CASE i \in Home[q.source]
  BY <1>3, MatchingKept
<1>4. CASE i \notin Home[q.source]
  BY <1>1, <1>2, <1>4, BeforeTheStep DEF MatchesAtHome
<1> QED
  BY <1>3, <1>4

LEMMA AllKept ==
  ASSUME NEW s \in Sources, NEW i, Kept(s, i), load' = load
  PROVE  Of(Everything, s, i)' = Of(Everything, s, i)
<1>1. Asks' = Asks
  BY DEF Asks, Queries, Views
<1>2. \A q \in Asks' : q.source = s /\ i \in Matching(q)' =>
                         Of(Everything, s, i)' = Candidates(q, {i})'
  BY AfterTheStep DEF OneAsks
<1>3. (\A q \in Asks' : ~(q.source = s /\ i \in Matching(q)')) => Of(Everything, s, i)' = {}
  BY AfterTheStep DEF NoneAsks
<1>4. \A q \in Asks : q.source = s => (i \in Matching(q)' <=> i \in Matching(q))
  BY AskSources, ReturnedKept
<1>5. CASE \E q \in Asks : q.source = s /\ i \in Matching(q)
  <2>1. PICK q \in Asks : q.source = s /\ i \in Matching(q)
    BY <1>5
  <2>2. Of(Everything, s, i) = Candidates(q, {i})
    BY <2>1, BeforeTheStep DEF OneAsks
  <2>3. Of(Everything, s, i)' = Candidates(q, {i})'
    BY <1>1, <1>2, <1>4, <2>1
  <2>4. i \in Home[q.source]
    BY <2>1, BeforeTheStep, AskSources DEF MatchesAtHome
  <2> QED
    BY <2>1, <2>2, <2>3, <2>4, CandidatesKept
<1>6. CASE \A q \in Asks : ~(q.source = s /\ i \in Matching(q))
  BY <1>1, <1>3, <1>4, <1>6, BeforeTheStep DEF NoneAsks
<1> QED
  BY <1>5, <1>6

AllSorted == TablesOK => \A q : q.source \in Sources => Sorted(q)

LEMMA SortedBefore == AllSorted
  BY QueriesSorted DEF AllSorted

LEMMA SortedAfter == AllSorted'
  BY SortedBefore, PTL

\* One row is written, none of the first o: what is among the first o now was so before.
LEMMA PlaceKept ==
  ASSUME TablesOK, TablesOK', NEW q, q.source \in Sources,
         NEW x, \A i : i # x => Kept(q.source, i),
         NEW o \in Nat, x \in Matching(q) => Place(q, x) >= o,
         NEW i, i # x, i \in Matching(q)', Place(q, i)' < o
  PROVE  i \in Matching(q) /\ Place(q, i) < o
<1>1. PICK M, N, R, S : M = Matching(q) /\ N = Matching(q)' /\ R = Sorting(q) /\ S = Sorting(q)'
  OBVIOUS
<1>2. IsFiniteSet(M) /\ Orders(R, M) /\ IsFiniteSet(N)
  BY <1>1, SortedBefore, SortedAfter DEF AllSorted, Sorted
<1>3. \A j : j # x => (j \in N <=> j \in M)
  BY <1>1, ReturnedKept
<1>4. M \subseteq Home[q.source]
  BY <1>1, BeforeTheStep DEF MatchesAtHome
<1>5. M \ {x} = N \ {x}
  BY <1>3
<1>6. \A j, k \in M \ {x} : <<j, k>> \in R <=> <<j, k>> \in S
  <2> SUFFICES ASSUME NEW j \in M \ {x}, NEW k \in M \ {x}
               PROVE  <<j, k>> \in R <=> <<j, k>> \in S
    OBVIOUS
  <2>1. <<j, k>> \in R <=> Precedes(q, j, k)
    BY <1>1 DEF Sorting
  <2>2. j \in N /\ k \in N
    BY <1>3
  <2>3. S = {ij \in N \X N : Precedes(q, ij[1], ij[2])'}
    BY <1>1 DEF Sorting
  <2>4. <<j, k>> \in S <=> Precedes(q, <<j, k>>[1], <<j, k>>[2])'
    BY <2>2, <2>3
  <2>5. Precedes(q, j, k)' <=> Precedes(q, j, k)
    BY <1>4, OrderKept
  <2> QED
    BY <2>1, <2>4, <2>5
<1>7. Place(q, i)' = Rank(N, S, i) /\ \A j : Place(q, j) = Rank(M, R, j)
  BY <1>1 DEF Place
<1>8. x \in M => Rank(M, R, x) >= o
  BY <1>1, <1>7
<1>9. i \in N /\ Rank(N, S, i) < o
  BY <1>1, <1>7
<1>10. i \in M /\ Rank(M, R, i) < o
  BY <1>2, <1>5, <1>6, <1>8, <1>9, RankMoves
<1> QED
  BY <1>1, <1>7, <1>10

-----------------------------------------------------------------------------
(* The invariant of the walk *)

\* The walk is past a row of its query n.
Passed(n, i) == n < walk \/ (n = walk /\ Place(Queries[n], i) < offset)

\* An object that nobody has written: it is wanted as it still stands, of what it gives
\* all has been found or nothing, and all once the walk is past its row, unless rows
\* may have slipped by.
Accounted(s, i) ==
  LET all == Of(Everything, s, i)
  IN  /\ Of(want, s, i) = Reported(all)
      /\ Of(found, s, i) \in {{}, all}
      /\ s \notin partial =>
           \A n \in DOMAIN Queries :
             /\ Queries[n].source = s /\ i \in Matching(Queries[n]) /\ Passed(n, i)
             => Of(found, s, i) = all

WalkInv ==
  /\ walk \in Nat /\ offset \in Nat
  /\ walk # 0 => load.reader \in Views \cup {"review"}
  /\ walk \in 1..Done =>
       \A s \in Sources : \A i \in Ids : <<s, i>> \notin touched => Accounted(s, i)

LEMMA WalkConcludes == WalkInv => ReviewComplete
<1> SUFFICES ASSUME WalkInv, walk = Done, NEW s \in Sources, NEW i \in Ids,
                    <<s, i>> \notin touched
             PROVE  IF s \in partial THEN Of(Report, s, i) \subseteq Of(want, s, i)
                                     ELSE Of(Report, s, i) = Of(want, s, i)
  BY DEF ReviewComplete
<1>1. PICK all : all = Of(Everything, s, i)
  OBVIOUS
<1>2. walk \in 1..Done
  BY QueryFacts DEF Done
<1>3. Accounted(s, i)
  BY <1>2 DEF WalkInv
<1>4. Of(Report, s, i) = Reported(Of(found, s, i)) /\ Of(want, s, i) = Reported(all)
  BY <1>1, <1>3, ReportedOf DEF Accounted, Report
<1>5. Reported({}) = {}
  BY DEF Reported, Selected
<1>6. Of(found, s, i) \in {{}, all}
  BY <1>1, <1>3 DEF Accounted
<1>7. ASSUME s \notin partial PROVE Of(found, s, i) = all
  <2>1. CASE all = {}
    BY <1>6, <2>1
  <2>2. CASE all # {}
    <3>1. PICK n \in DOMAIN Queries : Queries[n].source = s /\ i \in Matching(Queries[n])
      BY <1>1, <2>2, BeforeTheStep DEF NoneAsks, Asks
    <3>2. n < walk
      BY QueryFacts DEF Done
    <3> QED
      BY <1>1, <1>3, <1>7, <3>1, <3>2 DEF Accounted, Passed
  <2> QED
    BY <2>1, <2>2
<1> QED
  BY <1>4, <1>5, <1>6, <1>7

\* A writer writes the row i0 of source s0, and nothing else.
LEMMA WrittenKeeps ==
  ASSUME TablesOK, TablesOK', WalkInv, NEW s0, NEW i0, Written(s0, i0),
         \A s \in Sources : \A i : <<s, i>> # <<s0, i0>> => Kept(s, i)
  PROVE  WalkInv'
<1>1. UNCHANGED <<walk, offset, found, want, load>> /\ touched \subseteq touched'
      /\ partial \subseteq partial' /\ walk < Done
  BY DEF Written, review
<1>2. Queries' = Queries /\ Done' = Done /\ Sources' = Sources /\ Ids' = Ids /\ Views' = Views
  BY <1>1 DEF Queries, Done, Views, Sources, Ids
<1>3. ASSUME walk \in 1..Done, NEW s \in Sources, NEW i \in Ids, <<s, i>> \notin touched'
      PROVE  Accounted(s, i)'
  <2>1. PICK all : all = Of(Everything, s, i)
    OBVIOUS
  <2>2. walk \in DOMAIN Queries /\ Walking
    BY <1>1, <1>3, QueryFacts DEF Done, Walking
  <2>3. <<s0, i0>> \in touched' /\ <<s, i>> \notin touched /\ <<s, i>> # <<s0, i0>>
    BY <1>1, <1>3, <2>2 DEF Written
  <2>4. Kept(s, i) /\ Accounted(s, i)
    BY <1>3, <2>3 DEF WalkInv
  <2>5. Of(Everything, s, i)' = all /\ Of(found, s, i)' = Of(found, s, i)
        /\ Of(want, s, i)' = Of(want, s, i) /\ Reported(all)' = Reported(all)
    BY <1>1, <2>1, <2>4, AllKept DEF Of, Reported, Selected, Reviewing
  <2>6. ASSUME s \notin partial', NEW n \in DOMAIN Queries, Queries[n].source = s,
               i \in Matching(Queries[n])', Passed(n, i)'
        PROVE  Of(found, s, i) = all
    <3>1. PICK q : q = Queries[n] /\ q.source \in Sources
      BY QueryFacts
    <3>2. i \in Matching(q)' /\ q.source = s
      BY <1>2, <2>6, <3>1
    <3>3. i \in Matching(q)
      BY <2>4, <3>1, <3>2, ReturnedKept
    <3>4. CASE n < walk
      BY <1>1, <2>1, <2>4, <2>6, <3>1, <3>3, <3>4 DEF Accounted, Passed
    <3>5. CASE n = walk /\ Place(q, i)' < offset
      <4>1. offset \in Nat /\ Sorted(q) /\ s \notin partial
        BY <1>1, <2>6, <3>1, SortedBefore DEF WalkInv, AllSorted
      <4>2. CASE s = s0
        <5>1. i0 \notin FirstRows(q, offset)
          BY <2>2, <2>6, <3>1, <3>5, <4>2 DEF Written, FirstRows
        <5>2. i0 \in Matching(q) => Place(q, i0) >= offset
          <6>1. FirstRows(q, offset) = {j \in Matching(q) : Place(q, j) < offset}
            BY <4>1, FirstRowsAre
          <6>2. i0 \in Matching(q) => Place(q, i0) \in Int
            BY <4>1, ListIs
          <6> QED
            BY <4>1, <5>1, <6>1, <6>2
        <5>3. \A j : j # i0 => Kept(q.source, j)
          BY <3>1, <3>2, <4>2
        <5>4. i # i0
          BY <2>3, <4>2
        <5>5. Place(q, i) < offset
          BY <3>1, <3>2, <3>5, <4>1, <5>2, <5>3, <5>4, PlaceKept
        <5> QED
          BY <2>1, <2>4, <2>6, <3>1, <3>3, <3>5, <4>1, <5>5 DEF Accounted, Passed
      <4>3. CASE s # s0
        <5>1. PICK x : x = -1
          OBVIOUS
        <5>2. x \notin Matching(q) /\ i # x
          BY <3>1, <3>3, <5>1, MatchingAtHome
        <5>3. \A j : j # x => Kept(q.source, j)
          BY <3>1, <3>2, <4>3
        <5>4. Place(q, i) < offset
          BY <3>1, <3>2, <3>5, <4>1, <5>2, <5>3, PlaceKept
        <5> QED
          BY <2>1, <2>4, <2>6, <3>1, <3>3, <3>5, <4>1, <5>4 DEF Accounted, Passed
      <4> QED
        BY <4>2, <4>3
    <3> QED
      BY <1>1, <1>2, <2>6, <3>1, <3>4, <3>5 DEF Passed
  <2>7. /\ Of(want, s, i)' = Reported(all)'
        /\ Of(found, s, i)' \in {{}, all}
    BY <2>1, <2>4, <2>5 DEF Accounted
  <2>8. s \notin partial' => \A n \in DOMAIN Queries' :
          Queries'[n].source = s /\ i \in Matching(Queries[n])' /\ Passed(n, i)'
            => Of(found, s, i)' = all
    BY <1>2, <2>5, <2>6
  <2> QED
    BY <2>5, <2>7, <2>8 DEF Accounted
<1> QED
  BY <1>1, <1>2, <1>3 DEF WalkInv

\* No row is written.
Rows == <<items, tasks, due, logs, reminders, inbox, young>>

LEMMA RowsStay ==
  ASSUME UNCHANGED <<Rows, load>>
  PROVE  /\ Queries' = Queries /\ Done' = Done
         /\ \A s \in Sources : \A i : Of(Everything, s, i)' = Of(Everything, s, i)
         /\ \A q : q.source \in Sources =>
              Matching(q)' = Matching(q) /\ \A i : Place(q, i)' = Place(q, i)
<1>1. UNCHANGED <<items, tasks, due, logs, reminders, inbox, young, load>>
  BY DEF Rows
<1>2. Queries' = Queries /\ Done' = Done
  BY <1>1 DEF Queries, Done, Views
<1>3. \A s \in Sources : \A i : Kept(s, i)
  BY <1>1 DEF Kept, Sources
<1>4. \A s \in Sources : \A i : Of(Everything, s, i)' = Of(Everything, s, i)
  BY <1>1, <1>3, AllKept
<1>5. ASSUME NEW q, q.source \in Sources
      PROVE  Matching(q)' = Matching(q) /\ \A i : Place(q, i)' = Place(q, i)
  <2>1. \A i : i \in Matching(q)' <=> i \in Matching(q)
    BY <1>3, <1>5, ReturnedKept
  <2>2. Matching(q)' = Matching(q)
    BY <2>1
  <2>3. \A i, j : i \in Matching(q) /\ j \in Matching(q) =>
                    (Precedes(q, i, j)' <=> Precedes(q, i, j))
    BY <1>3, <1>5, OrderKept, MatchingAtHome
  <2>4. Sorting(q)' = {ij \in Matching(q) \X Matching(q) : Precedes(q, ij[1], ij[2])'}
    BY <2>2 DEF Sorting
  <2>5. Sorting(q)' = Sorting(q)
    BY <2>3, <2>4 DEF Sorting
  <2> QED
    BY <2>2, <2>5 DEF Place
<1> QED
  BY <1>2, <1>4, <1>5

LEMMA StartKeeps ==
  ASSUME WalkInv, Start
  PROVE  WalkInv'
<1>1. /\ UNCHANGED <<Rows, load>> /\ walk' = 1 /\ offset' = 0 /\ found' = {}
      /\ want' = Reported(Everything) /\ load.reader \in Views \cup {"review"}
  BY DEF Start, Rows, stores
<1>2. ASSUME NEW s \in Sources, NEW i \in Ids
      PROVE  Accounted(s, i)'
  <2>1. PICK all : all = Of(Everything, s, i)
    OBVIOUS
  <2>2. Of(Everything, s, i)' = all /\ Reported(all)' = Reported(all)
    BY <1>1, <2>1, RowsStay DEF Reported, Selected, Reviewing
  <2>3. Of(want, s, i)' = Reported(all)
    <3>1. Of(want, s, i)' = Of(Reported(Everything), s, i)
      BY <1>1 DEF Of
    <3> QED
      BY <2>1, <3>1, ReportedOf
  <2>4. Of(found, s, i)' = {}
    BY <1>1 DEF Of
  <2>5. ASSUME NEW n \in DOMAIN Queries', Queries'[n].source = s, i \in Matching(Queries[n])',
               Passed(n, i)'
        PROVE  FALSE
    <3>1. PICK q : q = Queries'[n]
      OBVIOUS
    <3>2. Queries' = Queries /\ n \in 1..Len(Queries) /\ Len(Queries) \in Nat
      BY <1>1, <2>5, RowsStay, QueryFacts
    <3>3. i \in Matching(q)' /\ Matching(q)' = Matching(q) /\ q.source \in Sources
          /\ Place(q, i)' = Place(q, i)
      BY <1>1, <2>5, <3>1, <3>2, RowsStay, QueryFacts
    <3>4. Place(q, i) \in Nat
      <4>1. IsFiniteSet(Matching(q))
        BY <3>3, MatchingAtHome
      <4> QED
        BY <4>1, AheadIsFinite DEF Place
    <3>5. n < 1 \/ Place(q, i)' < 0
      BY <1>1, <2>5, <3>1 DEF Passed
    <3> QED
      BY <3>2, <3>3, <3>4, <3>5
  <2> QED
    BY <2>2, <2>3, <2>4, <2>5 DEF Accounted
<1>3. Ids' = Ids /\ Sources' = Sources /\ Views' = Views
  BY DEF Ids, Sources, Views
<1> QED
  BY <1>1, <1>2, <1>3 DEF WalkInv

\* A source fails the walk.
LEMMA FailureKeeps ==
  ASSUME WalkInv, Walking, walk' = Failed, offset' = offset, load' = load
  PROVE  WalkInv'
<1>1. Queries' = Queries /\ Views' = Views
  BY DEF Queries, Views
<1>2. walk' \notin 1..Done' /\ walk' \in Nat
  BY <1>1, QueryFacts DEF Done, Failed
<1>3. walk # 0
  BY QueryFacts DEF Walking
<1> QED
  BY <1>1, <1>2, <1>3 DEF WalkInv

\* Nothing happens to the sources and to the walk.
LEMMA IdleKeeps ==
  ASSUME WalkInv, UNCHANGED <<Rows, load, want, touched, partial, found, walk, offset>>
  PROVE  WalkInv'
<1>1. Queries' = Queries /\ Done' = Done /\ Views' = Views /\ Ids' = Ids
  BY RowsStay DEF Views, Ids
<1>2. ASSUME walk \in 1..Done, NEW s \in Sources, NEW i \in Ids, <<s, i>> \notin touched
      PROVE  Accounted(s, i)'
  <2>1. PICK all : all = Of(Everything, s, i)
    OBVIOUS
  <2>2. Of(Everything, s, i)' = all /\ Reported(all)' = Reported(all)
        /\ Of(want, s, i)' = Of(want, s, i) /\ Of(found, s, i)' = Of(found, s, i)
    BY <2>1, RowsStay DEF Reported, Selected, Reviewing, Of
  <2>3. Accounted(s, i)
    BY <1>2 DEF WalkInv
  <2>4. ASSUME NEW n \in DOMAIN Queries', Queries'[n].source = s, i \in Matching(Queries[n])',
               Passed(n, i)'
        PROVE  n \in DOMAIN Queries /\ Queries[n].source = s /\ i \in Matching(Queries[n])
               /\ Passed(n, i)
    <3>1. PICK q : q = Queries'[n] /\ q = Queries[n] /\ q.source = s
      BY <1>1, <2>4
    <3>2. Matching(q)' = Matching(q) /\ Place(q, i)' = Place(q, i)
      BY <3>1, RowsStay
    <3> QED
      BY <1>1, <2>4, <3>1, <3>2 DEF Passed
  <2> QED
    BY <2>1, <2>2, <2>3, <2>4 DEF Accounted
<1>3. Sources' = Sources
  BY DEF Sources
<1> QED
  BY <1>1, <1>2, <1>3 DEF WalkInv

\* A page is read, and the walk goes on.
LEMMA PageKeeps ==
  ASSUME TablesOK, WalkInv, ReadPage, walk' # Failed
  PROVE  WalkInv'
<1>1. PICK q, L, page : q = Queries[walk] /\ L = List(q) /\ page = PageAt(L)
  OBVIOUS
<1>2. /\ Walking /\ UNCHANGED <<Rows, want, touched, load>>
      /\ found' = found \cup Candidates(q, Range(page))
      /\ IF More(q, L) THEN offset' = offset + Len(page) /\ walk' = walk
                       ELSE walk' = walk + 1 /\ offset' = 0
      /\ partial' = IF OnePage(q) /\ Len(L) > PageSize THEN partial \cup {q.source} ELSE partial
  BY <1>1 DEF ReadPage, Rows, stores
<1>3. /\ walk \in DOMAIN Queries /\ q \in Asks /\ q.source \in Sources
      /\ walk \in 1..Len(Queries) /\ Len(Queries) \in Nat /\ offset \in Nat
      /\ PageSize \in Nat
  BY <1>1, <1>2, QueryFacts, ReviewAssumption DEF Walking, Asks, WalkInv
<1>4. Sorted(q)
  BY <1>3, SortedBefore DEF AllSorted
<1>5. /\ Len(page) \in Nat
      /\ Range(page) = {i \in Matching(q) :
                          Place(q, i) >= offset /\ Place(q, i) < offset + PageSize}
      /\ offset + PageSize <= Len(L) => Len(page) = PageSize
      /\ offset + PageSize > Len(L) => Len(page) < PageSize
  BY <1>1, <1>3, <1>4, PageIs
<1>6. Len(L) \in Nat /\ \A i \in Matching(q) : Place(q, i) \in Nat /\ Place(q, i) < Len(L)
  <2>1. Len(L) \in Nat /\ \A i \in Matching(q) : Place(q, i) \in 0..(Len(L) - 1)
    BY <1>1, <1>4, ListIs
  <2> QED
    BY <2>1
<1>7. Queries' = Queries /\ Done' = Done /\ Views' = Views /\ Ids' = Ids /\ Sources' = Sources
  BY <1>2, RowsStay DEF Views, Ids, Sources
\* What the walk is past now, it was past before or the page shows it.
<1>8. ASSUME NEW n \in DOMAIN Queries, NEW i \in Matching(Queries[n]), Passed(n, i)',
             Queries[n].source \notin partial'
      PROVE  Passed(n, i) \/ (n = walk /\ i \in Range(page))
  <2>1. n \in Int /\ Place(Queries[n], i)' = Place(Queries[n], i)
    <3>1. PICK p : p = Queries[n] /\ p.source \in Sources
      BY QueryFacts
    <3>2. Place(p, i)' = Place(p, i)
      BY <1>2, <3>1, RowsStay
    <3>3. Place(Queries[n], i)' = Place(p, i)'
      BY <1>7, <3>1
    <3> QED
      BY <3>1, <3>2, <3>3, QueryFacts
  <2>2. CASE n < walk
    BY <2>2 DEF Passed
  <2>3. CASE n = walk
    <3>1. PICK k : k = Place(q, i) /\ k \in Nat /\ k < Len(L)
      BY <1>1, <1>6, <2>3
    <3>2. k < offset + PageSize
      <4>1. CASE More(q, L)
        <5>1. k < offset + Len(page)
          BY <1>1, <1>2, <1>3, <1>7, <1>8, <2>1, <2>3, <3>1, <4>1 DEF Passed
        <5> QED
          BY <1>3, <1>5, <1>6, <3>1, <5>1
      <4>2. CASE OnePage(q)
        <5>1. ~(Len(L) > PageSize)
          BY <1>1, <1>2, <1>8, <2>3, <4>2
        <5> QED
          BY <1>3, <1>6, <3>1, <5>1
      <4>3. CASE ~OnePage(q) /\ ~More(q, L)
        <5>1. IF q.source = "user_task" THEN Len(page) # PageSize ELSE ~(Len(L) > offset + PageSize)
          BY <1>1, <4>3 DEF More
        <5>2. ~(Len(L) > offset + PageSize)
          BY <1>3, <1>5, <1>6, <5>1
        <5> QED
          BY <1>3, <1>6, <3>1, <5>2
      <4> QED
        BY <4>1, <4>2, <4>3
    <3>3. k >= offset => i \in Range(page)
      BY <1>1, <1>5, <2>3, <3>1, <3>2
    <3>4. k < offset => Passed(n, i)
      BY <1>1, <2>3, <3>1 DEF Passed
    <3> QED
      BY <1>3, <2>3, <3>1, <3>3, <3>4
  <2>4. CASE n > walk
    <3>1. CASE walk' = walk
      BY <1>3, <1>8, <2>1, <2>4, <3>1 DEF Passed
    <3>2. CASE walk' = walk + 1 /\ offset' = 0
      <4>1. n = walk + 1 /\ Place(Queries[n], i) < 0
        BY <1>3, <1>7, <1>8, <2>1, <2>4, <3>2 DEF Passed
      <4>2. Place(Queries[n], i) \in Nat
        <5>1. IsFiniteSet(Matching(Queries[n]))
          BY QueryFacts, MatchingAtHome
        <5> QED
          BY <5>1, AheadIsFinite DEF Place
      <4> QED
        BY <4>1, <4>2
    <3> QED
      BY <1>2, <3>1, <3>2
  <2> QED
    BY <1>3, <2>1, <2>2, <2>3, <2>4
<1>9. ASSUME NEW s \in Sources, NEW i \in Ids, <<s, i>> \notin touched
      PROVE  Accounted(s, i)'
  <2>1. PICK all : all = Of(Everything, s, i)
    OBVIOUS
  <2>2. Of(Everything, s, i)' = all /\ Reported(all)' = Reported(all)
        /\ Of(want, s, i)' = Of(want, s, i)
    BY <1>2, <2>1, RowsStay DEF Reported, Selected, Reviewing, Of
  <2>3. Accounted(s, i)
    BY <1>3, <1>9 DEF WalkInv, Done
  <2>4. Of(found, s, i)' = Of(found, s, i) \cup Of(Candidates(q, Range(page)), s, i)
    BY <1>2 DEF Of
  <2>5. Of(Candidates(q, Range(page)), s, i) =
          IF q.source = s /\ i \in Range(page) THEN Candidates(q, {i}) ELSE {}
    BY CandidatesOf
  <2>6. q.source = s /\ i \in Range(page) => Candidates(q, {i}) = all
    BY <1>3, <1>5, <2>1, BeforeTheStep DEF OneAsks
  <2>7. /\ Of(found, s, i)' \in {Of(found, s, i), all}
        /\ q.source = s /\ i \in Range(page) => Of(found, s, i)' = all
        /\ Of(found, s, i) \in {{}, all}
        /\ Of(found, s, i) = all => Of(found, s, i)' = all
    <3>1. Of(found, s, i) \in {{}, all}
      BY <2>1, <2>3 DEF Accounted
    <3> QED
      BY <2>4, <2>5, <2>6, <3>1
  <2>8. ASSUME s \notin partial', NEW n \in DOMAIN Queries', Queries'[n].source = s,
               i \in Matching(Queries[n])', Passed(n, i)'
        PROVE  Of(found, s, i)' = all
    <3>1. PICK p : p = Queries[n] /\ p.source = s /\ n \in DOMAIN Queries
      BY <1>7, <2>8
    <3>2. i \in Matching(p)
      <4>1. i \in Matching(p)'
        BY <1>7, <2>8, <3>1
      <4>2. Matching(p)' = Matching(p)
        BY <1>2, <3>1, RowsStay
      <4> QED
        BY <4>1, <4>2
    <3>3. Passed(n, i) \/ (n = walk /\ i \in Range(page))
      BY <1>8, <2>8, <3>1, <3>2
    <3>4. s \notin partial
      BY <1>2, <2>8
    <3>5. Passed(n, i) => Of(found, s, i) = all
      BY <2>1, <2>3, <3>1, <3>2, <3>4 DEF Accounted
    <3> QED
      BY <1>1, <2>7, <3>1, <3>3, <3>5
  <2>9. Of(found, s, i)' \in {{}, all}
    BY <2>7
  <2> QED
    BY <2>2, <2>3, <2>1, <2>8, <2>9 DEF Accounted
<1>10. walk' \in Nat /\ offset' \in Nat /\ walk # 0
  BY <1>2, <1>3, <1>5
<1> QED
  BY <1>2, <1>7, <1>9, <1>10 DEF WalkInv

-----------------------------------------------------------------------------
(* The steps, each as what it does to the walk *)

\* What the other tables hold.
RestOK ==
  /\ DOMAIN tasks = Tasks /\ due \in [Tasks -> Dates]
  /\ reminders \in [Reminders -> [st : ReminderStatus, at : Dates]]
  /\ DOMAIN inbox = Captures

LEMMA TablesByInvariant == AssistantInv /\ RestOK => TablesOK
  BY DEF AssistantInv, WaitingInv, RowsOK, LogInv, RestOK, TablesOK

LEMMA SetReminderKeeps ==
  ASSUME RestOK, NEW i \in Reminders, NEW st, NEW at \in Dates, SetReminder(i, st, at)
  PROVE  reminders' \in [Reminders -> [st : ReminderStatus, at : Dates]]
<1>1. st \in ReminderStatus
  BY DEF SetReminder, ReminderMoves, ReminderStatus
<1>2. [st |-> st, at |-> at] \in [st : ReminderStatus, at : Dates]
  BY <1>1
<1>3. reminders' = [reminders EXCEPT ![i] = [st |-> st, at |-> at]]
  BY DEF SetReminder
<1> QED
  BY <1>2, <1>3 DEF RestOK

LEMMA RestKept ==
  ASSUME AssistantInv, RestOK, AssistantNext
  PROVE  RestOK'
<1>1. load \in Loads /\ load.dates \subseteq Dates
  BY LoadFacts DEF AssistantInv
<1>2. CASE OtherStep
  <2>1. CASE \/ Start \/ ReadPage \/ SourceFails
             \/ \E i \in Logs, w \in load.scopes :
                  \/ File(i, w)
                  \/ \E st \in LogStatus \ {"none"}, at \in load.dates : Record(i, w, st, at)
             \/ \E i \in Items, to \in load.dates, x \in {Past, NoDate} : Await(i, to, x)
             \/ \E c \in load.callers : Reply(c)
    <3>1. UNCHANGED <<tasks, due, reminders, inbox>>
      BY <2>1 DEF Start, ReadPage, SourceFails, File, Record, Await, Reply, Others, stores
    <3> QED
      BY <3>1 DEF RestOK
  <2>2. ASSUME NEW i \in Reminders, NEW st, NEW at \in load.dates, Remind(i, st, at)
        PROVE  RestOK'
    BY <1>1, <2>2, SetReminderKeeps DEF Remind, RestOK
  <2>3. ASSUME NEW i \in Captures, NEW st, Capture(i) \/ Process(i, st)
        PROVE  RestOK'
    BY <2>3 DEF Capture, CaptureItem, Process, SettleItem, RestOK
  <2>4. ASSUME NEW u \in Tasks, NEW st, Reopen(u) \/ Finish(u, st)
        PROVE  RestOK'
    BY <2>4 DEF Reopen, ReopenTask, Finish, WriteTask, RestOK
  <2>5. ASSUME NEW u \in Tasks, NEW d \in load.dates, Edit(u, d)
        PROVE  RestOK'
    BY <1>1, <2>5 DEF Edit, EditTask, WriteTask, RestOK
  <2> QED
    BY <1>2, <2>1, <2>2, <2>3, <2>4, <2>5 DEF OtherStep
<1>3. CASE RequestStep
  <2>1. Soon \in Dates /\ Later \in Dates
    BY DEF Dates, Instants
  <2>2. ASSUME UNCHANGED <<tasks, due, reminders, inbox>> PROVE RestOK'
    BY <2>2 DEF RestOK
  <2>3. ASSUME NEW t, Ask(t) PROVE RestOK'
    BY <2>2, <2>3 DEF Ask, vars, stores
  <2>4. CASE \/ ShowItems \/ ShowRecords \/ ShowReminder \/ ShowReview \/ ShowAgenda
             \/ ShowKnowledge \/ Talk \/ ShowCandidates \/ LookAtItem \/ ShowTasks
             \/ SaveDecision
    <3>1. UNCHANGED vars
      BY <2>4 DEF ShowItems, ShowRecords, ShowReminder, ShowReview, ShowAgenda,
         ShowKnowledge, Talk, ShowCandidates, LookAtItem, ShowTasks, SaveDecision, Shown
    <3> QED
      BY <2>2, <3>1 DEF vars, stores
  <2>5. CASE Refused \/ ActOnItem \/ FinishItem \/ WriteLog
    <3>1. UNCHANGED <<tasks, due, reminders, inbox>>
      BY <2>5 DEF Refused, ActOnItem, FinishItem, WriteLog, Others
    <3> QED
      BY <2>2, <3>1
  <2>6. CASE CaptureText \/ Confirm
    BY <2>6 DEF CaptureText, Confirm, CaptureItem, SettleItem, RestOK
  <2>7. CASE CancelReminder \/ MoveReminder \/ NewTask
    <3>1. UNCHANGED <<tasks, due, inbox>>
      BY <2>7 DEF CancelReminder, MoveReminder, NewTask
    <3>2. \A i \in Reminders : reminders[i].at \in Dates
      BY DEF RestOK
    <3>3. reminders' \in [Reminders -> [st : ReminderStatus, at : Dates]]
      <4>1. CASE CancelReminder
        <5>1. PICK i \in Reminders : SetReminder(i, "cancelled", reminders[i].at)
          BY <4>1 DEF CancelReminder
        <5> QED
          BY <3>2, <5>1, SetReminderKeeps
      <4>2. CASE MoveReminder
        BY <2>1, <4>2, SetReminderKeeps DEF MoveReminder
      <4>3. CASE NewTask
        BY <2>1, <4>3, SetReminderKeeps DEF NewTask, RestOK
      <4> QED
        BY <2>7, <4>1, <4>2, <4>3
    <3> QED
      BY <3>1, <3>3 DEF RestOK
  <2>8. CASE EndTask
    BY <2>8 DEF EndTask, WriteTask, RestOK
  <2> QED
    BY <1>3, <2>3, <2>4, <2>5, <2>6, <2>7, <2>8 DEF RequestStep
<1> QED
  BY <1>2, <1>3, TwoKinds

LEMMA RequestLeavesWalk == RequestStep => UNCHANGED <<walk, offset, load>>
<1> SUFFICES ASSUME RequestStep PROVE UNCHANGED <<walk, offset, load>>
  OBVIOUS
<1>1. ASSUME NEW t, Ask(t) PROVE UNCHANGED <<walk, offset, load>>
  BY <1>1 DEF Ask, vars, review
<1>2. CASE \/ ShowItems \/ ShowRecords \/ ShowReminder \/ ShowReview \/ ShowAgenda
           \/ ShowKnowledge \/ Talk \/ ShowCandidates \/ LookAtItem \/ ShowTasks
           \/ SaveDecision
  <2>1. UNCHANGED vars
    BY <1>2 DEF ShowItems, ShowRecords, ShowReminder, ShowReview, ShowAgenda,
       ShowKnowledge, Talk, ShowCandidates, LookAtItem, ShowTasks, SaveDecision, Shown
  <2> QED
    BY <2>1 DEF vars, review
<1>3. CASE Refused
  BY <1>3 DEF Refused, review
<1>4. CASE \/ ActOnItem \/ FinishItem \/ WriteLog \/ CaptureText \/ Confirm
           \/ CancelReminder \/ MoveReminder \/ NewTask \/ EndTask
  <2>1. UNCHANGED Beside
    BY <1>4 DEF ActOnItem, FinishItem, WriteLog, CaptureText, Confirm, CancelReminder,
       MoveReminder, NewTask, EndTask
  <2> QED
    BY <2>1 DEF Beside, review
<1> QED
  BY <1>1, <1>2, <1>3, <1>4 DEF RequestStep

LEMMA OnlyAssistantAsks ==
  ASSUME RequestInv, RequestStep
  PROVE  load.reader = "assistant"
<1>1. ASSUME NEW t \in Askable PROVE load.reader = "assistant"
  BY <1>1 DEF Askable
<1>2. CASE request.stage # "idle"
  BY <1>2 DEF RequestInv, Idle, Nothing
<1>3. (\E t \in Askable : Ask(t)) \/ request.stage # "idle"
  BY DEF RequestStep, Refused, ShowItems, ShowRecords, ShowReminder, ShowReview, ShowAgenda,
     ShowKnowledge, Talk, ShowCandidates, CaptureText, Confirm, LookAtItem, ActOnItem,
     FinishItem, WriteLog, CancelReminder, MoveReminder, ShowTasks, EndTask, NewTask,
     SaveDecision, Asked
<1> QED
  BY <1>1, <1>2, <1>3

LEMMA RequestKeepsWalk ==
  ASSUME WalkInv, RequestInv, RequestStep
  PROVE  WalkInv'
<1>1. load.reader \notin Views \cup {"review"}
  BY OnlyAssistantAsks DEF Views, AgendaQueries
<1>2. walk = 0 /\ offset \in Nat
  BY <1>1 DEF WalkInv
<1>3. walk' = 0 /\ offset' \in Nat
  BY <1>2, RequestLeavesWalk
<1> QED
  BY <1>3 DEF WalkInv

\* A writer writes its row and no other.
LEMMA WriterKeepsWalk ==
  ASSUME TablesOK, TablesOK', WalkInv, load \in Loads, OtherStep,
         ~(Start \/ ReadPage \/ SourceFails)
  PROVE  WalkInv'
<1>1. ASSUME NEW i0 \in Logs, NEW w, NEW st, NEW at, File(i0, w) \/ Record(i0, w, st, at)
      PROVE  WalkInv'
  <2>1. /\ Written("work_log", i0) /\ UNCHANGED <<items, reminders, inbox, young, tasks, due>>
        /\ \A i \in Logs : i # i0 => logs'[i] = logs[i]
    BY <1>1 DEF File, FileLog, Record, CreateLog, Insert, TablesOK
  <2>2. PICK s0 : s0 = "work_log"
    OBVIOUS
  <2>3. Written(s0, i0) /\ \A s \in Sources : \A i : <<s, i>> # <<s0, i0>> => Kept(s, i)
    BY <2>1, <2>2 DEF Kept, Sources, Home
  <2> QED
    BY <2>3, WrittenKeeps
<1>2. ASSUME NEW i0 \in Reminders, NEW st, NEW at, Remind(i0, st, at)
      PROVE  WalkInv'
  <2>1. /\ Written("reminder", i0) /\ UNCHANGED <<items, logs, inbox, young, tasks, due>>
        /\ \A i \in Reminders : i # i0 => reminders'[i] = reminders[i]
    BY <1>2 DEF Remind, SetReminder, TablesOK
  <2>2. PICK s0 : s0 = "reminder"
    OBVIOUS
  <2>3. Written(s0, i0) /\ \A s \in Sources : \A i : <<s, i>> # <<s0, i0>> => Kept(s, i)
    BY <2>1, <2>2 DEF Kept, Sources, Home
  <2> QED
    BY <2>3, WrittenKeeps
<1>3. ASSUME NEW i0 \in Captures, NEW st, Capture(i0) \/ Process(i0, st)
      PROVE  WalkInv'
  <2>1. /\ Written("inbox", i0) /\ UNCHANGED <<items, logs, reminders, tasks, due>>
        /\ \A i \in Captures : i # i0 => inbox'[i] = inbox[i] /\ (i \in young' <=> i \in young)
    BY <1>3 DEF Capture, CaptureItem, Process, SettleItem, TablesOK
  <2>2. PICK s0 : s0 = "inbox"
    OBVIOUS
  <2>3. Written(s0, i0) /\ \A s \in Sources : \A i : <<s, i>> # <<s0, i0>> => Kept(s, i)
    BY <2>1, <2>2 DEF Kept, Sources, Home
  <2> QED
    BY <2>3, WrittenKeeps
<1>4. ASSUME NEW u \in Tasks, NEW st, NEW d, Reopen(u) \/ Finish(u, st) \/ Edit(u, d)
      PROVE  WalkInv'
  <2>1. /\ Written("user_task", u) /\ UNCHANGED <<items, logs, reminders, inbox, young>>
        /\ \A i \in Tasks : i # u => tasks'[i] = tasks[i] /\ due'[i] = due[i]
    BY <1>4 DEF Reopen, ReopenTask, Finish, Edit, EditTask, WriteTask, TablesOK
  <2>2. PICK s0 : s0 = "user_task"
    OBVIOUS
  <2>3. Written(s0, u) /\ \A s \in Sources : \A i : <<s, i>> # <<s0, u>> => Kept(s, i)
    BY <2>1, <2>2 DEF Kept, Sources, Home
  <2> QED
    BY <2>3, WrittenKeeps
<1>5. ASSUME NEW i0, Written("waiting_for", i0), UNCHANGED Others,
             \A i \in Items : i # i0 => items'[i] = items[i]
      PROVE  WalkInv'
  <2>1. PICK s0 : s0 = "waiting_for"
    OBVIOUS
  <2>2. Written(s0, i0) /\ \A s \in Sources : \A i : <<s, i>> # <<s0, i0>> => Kept(s, i)
    BY <1>5, <2>1 DEF Kept, Sources, Home, Others
  <2> QED
    BY <2>2, WrittenKeeps
<1>6. ASSUME NEW i0, NEW to, NEW x, Await(i0, to, x)
      PROVE  WalkInv'
  BY <1>5, <1>6 DEF Await, CreateItem, TablesOK
<1>7. ASSUME NEW c, Reply(c)
      PROVE  WalkInv'
  <2>1. CASE WriteItem(c) /\ Written("waiting_for", held[c].item) /\ UNCHANGED Others
    <3>1. PICK i0 : i0 = held[c].item
      OBVIOUS
    <3>2. \A i \in Items : i # i0 => items'[i] = items[i]
      BY <2>1, <3>1 DEF WriteItem, TablesOK
    <3> QED
      BY <1>5, <2>1, <3>1, <3>2
  <2>2. CASE UNCHANGED <<items, Others, review, story, load, writes>>
    <3>1. UNCHANGED <<Rows, load, want, touched, partial, found, walk, offset>>
      BY <2>2 DEF review, story, Rows, Others
    <3> QED
      BY <3>1, IdleKeeps
  <2>3. \/ WriteItem(c) /\ Written("waiting_for", held[c].item) /\ UNCHANGED Others
        \/ UNCHANGED <<items, Others, review, story, load, writes>>
    BY <1>7 DEF Reply, ReadItem, GiveUp
  <2> QED
    BY <2>1, <2>2, <2>3
<1> QED
  BY <1>1, <1>2, <1>3, <1>4, <1>6, <1>7 DEF OtherStep

LEMMA WalkKept ==
  ASSUME TablesOK, TablesOK', WalkInv, AssistantInv, [AssistantNext]_<<vars, avars>>
  PROVE  WalkInv'
<1>1. load \in Loads /\ RequestInv
  BY DEF AssistantInv
<1>2. CASE OtherStep /\ ~(Start \/ ReadPage \/ SourceFails)
  BY <1>1, <1>2, WriterKeepsWalk
<1>3. CASE Start
  BY <1>3, StartKeeps
<1>4. CASE ReadPage /\ walk' # Failed
  BY <1>4, PageKeeps
<1>5. CASE (ReadPage /\ walk' = Failed) \/ SourceFails
  <2>1. walk # walk'
    BY <1>5, QueryFacts DEF ReadPage, SourceFails, Failed, Walking
  <2>2. Walking /\ walk' = Failed /\ load' = load
    BY <1>5 DEF ReadPage, SourceFails
  <2>3. walk' # walk + 1
    BY <2>2, QueryFacts DEF Failed, Walking
  <2>4. offset' = offset
    BY <1>5, <2>1, <2>3 DEF ReadPage, SourceFails
  <2> QED
    BY <2>2, <2>4, FailureKeeps
<1>6. CASE RequestStep
  BY <1>1, <1>6, RequestKeepsWalk
<1>7. CASE UNCHANGED <<vars, avars>>
  <2>1. UNCHANGED <<Rows, load, want, touched, partial, found, walk, offset>>
    BY <1>7 DEF vars, review, story, stores, Rows
  <2> QED
    BY <2>1, IdleKeeps
<1> QED
  BY <1>2, <1>3, <1>4, <1>5, <1>6, <1>7, TwoKinds

ReviewInv == RestOK /\ WalkInv

LEMMA ReviewStarts == AssistantInit => ReviewInv
<1> SUFFICES ASSUME Init PROVE RestOK /\ WalkInv
  BY DEF AssistantInit, ReviewInv
<1>1. Past \in Dates /\ Soon \in Dates /\ NoDate \in Dates /\ load.dates \subseteq Dates
  BY LoadFacts DEF Init, Dates, Instants
<1>2. DOMAIN tasks = Tasks /\ DOMAIN inbox = Captures /\ due \in [Tasks -> Dates]
  <2>1. due \in [Tasks -> IF load.source = "user_task" THEN load.dates ELSE {NoDate}]
    BY DEF Init
  <2> QED
    BY <1>1, <2>1 DEF Init, TasksInit
<1>3. reminders \in [Reminders -> [st : ReminderStatus, at : Dates]]
  <2>1. reminders = [i \in Reminders |-> IF i \in load.stock THEN [st |-> "scheduled", at |-> Soon]
                                                            ELSE [st |-> "none", at |-> Past]]
    BY DEF Init
  <2>2. /\ [st |-> "scheduled", at |-> Soon] \in [st : ReminderStatus, at : Dates]
        /\ [st |-> "none", at |-> Past] \in [st : ReminderStatus, at : Dates]
    BY <1>1 DEF ReminderStatus
  <2> QED
    BY <2>1, <2>2
<1>4. walk = 0 /\ offset = 0
  BY DEF Init
<1> QED
  BY <1>2, <1>3, <1>4 DEF RestOK, WalkInv

LEMMA ReviewKept ==
  AssistantInv /\ AssistantInv' /\ ReviewInv /\ [AssistantNext]_<<vars, avars>> => ReviewInv'
<1> SUFFICES ASSUME AssistantInv, AssistantInv', RestOK, WalkInv, [AssistantNext]_<<vars, avars>>
             PROVE  RestOK' /\ WalkInv'
  BY DEF ReviewInv
<1>1. RestOK'
  <2>1. CASE UNCHANGED <<vars, avars>>
    BY <2>1 DEF vars, stores, RestOK
  <2> QED
    BY <2>1, RestKept
<1>2. TablesOK
  BY TablesByInvariant
<1>3. TablesOK'
  BY <1>1, TablesByInvariant, PTL
<1> QED
  BY <1>1, <1>2, <1>3, WalkKept

\* Whatever other callers create, move, finish and remove between the pages, the review
\* and the agenda report every object that nobody has written meanwhile as it stood,
\* once and in its most urgent section; when rows may have slipped past a page, or do
\* not fit on the only one, what is reported is still right.
THEOREM ReviewIsComplete == AssistantSpec => []ReviewComplete
<1>1. ReviewInv => ReviewComplete
  BY WalkConcludes DEF ReviewInv
<1> QED
  BY <1>1, ReviewStarts, ReviewKept, AssistantInvariant, PTL DEF AssistantSpec

\* What is reported of an object that nobody has written is what its row still gives.
LEMMA ReportedStands ==
  ASSUME WalkInv, walk = Done, NEW s \in Sources, NEW i \in Ids, <<s, i>> \notin touched,
         NEW c \in Of(Report, s, i)
  PROVE  \E q \in Asks : /\ q.source = s /\ i \in Matching(q)
                         /\ \E x \in Reasons(q, i) : c = Entry(q, i, x[1], x[2])
<1>1. walk \in 1..Done
  BY QueryFacts DEF Done
<1>2. Accounted(s, i)
  BY <1>1 DEF WalkInv
<1>3. c \in Of(found, s, i)
  BY DEF Report, Reported, Selected, Of
<1>4. c \in Everything /\ c.source = s /\ c.id = i
  BY <1>2, <1>3 DEF Accounted, Of
<1>5. PICK q \in Asks : c \in Candidates(q, Matching(q))
  BY <1>4 DEF Everything, Asks
<1>6. PICK j \in Matching(q) : \E x \in Reasons(q, j) : c = Entry(q, j, x[1], x[2])
  BY <1>5 DEF Candidates
<1>7. q.source = s /\ j = i
  BY <1>4, <1>6 DEF Entry
<1> QED
  BY <1>6, <1>7

\* Each row of the decision table suggests what the rows that lead to it can bear.
LEMMA HintsFollow == WalkInv => HintsAccepted
<1> SUFFICES ASSUME WalkInv, walk = Done, Reviewing, NEW s \in Sources, NEW i \in Ids,
                    <<s, i>> \notin touched,
                    NEW c \in Of(Report, s, i), NEW action \in Decisions(c)
             PROVE  Accepted(c, action)
  BY DEF HintsAccepted, Suggestions
<1>1. PICK q \in Asks : /\ q.source = s /\ i \in Matching(q)
                        /\ \E x \in Reasons(q, i) : c = Entry(q, i, x[1], x[2])
  BY ReportedStands
<1>2. PICK x \in ReviewReasons(q, i) : c = Entry(q, i, x[1], x[2])
  BY <1>1 DEF Reasons
<1>3. c.source = s /\ c.id = i /\ c.section = x[1] /\ c.severity = x[2]
  BY <1>1, <1>2 DEF Entry
<1>4. CASE s = "user_task"
  <2>1. x \in TaskReasons(q.filter) /\ i \in MatchingTasks(q.filter)
    BY <1>1, <1>2, <1>4 DEF ReviewReasons, Matching
  <2>2. action \in {"complete", "cancel"} /\ x[1] = FollowUps
    BY <1>3, <1>4 DEF Decisions
  <2>3. q.filter \notin {"completed", "cancelled"}
    BY <2>1, <2>2 DEF TaskReasons, FollowUps, Completed, Informational
  <2>4. q.filter \in {"overdue", "due_soon"}
    <3>1. Queries = ReviewQueries
      BY DEF Queries, Reviewing, Views, AgendaQueries
    <3> QED
      BY <1>1, <1>4, <2>3, <3>1 DEF Asks, ReviewQueries, Query, Waiting
  <2>5. tasks[i].st = "active"
    BY <2>1, <2>4 DEF MatchingTasks
  <2> QED
    BY <1>3, <2>2, <2>5 DEF Accepted, Transition
<1>5. CASE s = "waiting_for"
  <2>1. action = "follow_up" /\ x[1] = FollowUps
    BY <1>3, <1>5 DEF Decisions
  <2>2. x \in WaitingReasons(items[i])
    BY <1>1, <1>2, <1>5 DEF ReviewReasons
  <2>3. items[i].st = "open"
    BY <2>1, <2>2 DEF WaitingReasons, FollowUps, Completed, Informational
  <2> QED
    BY <1>3, <2>1, <2>3 DEF Accepted, Allowed
<1>6. CASE s = "reminder"
  <2>1. action = "reschedule" /\ x[1] = FollowUps
    BY <1>3, <1>6 DEF Decisions
  <2>2. x \in ReminderReasons(reminders[i])
    BY <1>1, <1>2, <1>6 DEF ReviewReasons
  <2>3. reminders[i].st \in {"failed", "retrying", "scheduled"}
    BY <2>1, <2>2 DEF ReminderReasons, FollowUps, Completed
  <2> QED
    BY <1>3, <2>1, <2>3 DEF Accepted
<1>7. CASE s = "inbox"
  <2>1. action \in {"resolve", "dismiss"}
    BY <1>3, <1>7 DEF Decisions
  <2>2. inbox[i] = "pending"
    BY <1>1, <1>7 DEF Matching
  <2> QED
    BY <1>3, <2>1, <2>2 DEF Accepted
<1>8. CASE s = "work_log"
  BY <1>3, <1>8 DEF Decisions
<1> QED
  BY <1>4, <1>5, <1>6, <1>7, <1>8 DEF Sources

\* What the review says of an object nobody wrote is so, and what it suggests for it can
\* be done.
THEOREM ReviewIsSound == AssistantSpec => []ReviewHolds
<1>1. ReviewInv => HintsAccepted
  BY HintsFollow DEF ReviewInv
<1>2. AssistantSpec => []ReviewInv
  BY ReviewStarts, ReviewKept, AssistantInvariant, PTL DEF AssistantSpec
<1> QED
  BY <1>1, <1>2, ReviewIsComplete, PTL DEF ReviewHolds
=============================================================================
