------------------------ MODULE InboxResolutionProofs ------------------------
(***************************************************************************)
(* Proofs about InboxResolution, for any items, callers and processes.     *)
(* What a caller knows of the stores stays true because the stores only    *)
(* advance (Advances); so a step has to be examined for the stores it      *)
(* writes and for the caller that takes it, and for nobody else.           *)
(***************************************************************************)
EXTENDS InboxResolution, SequenceTheorems, TLAPS

-----------------------------------------------------------------------------
(* The inductive invariant.                                                *)

\* An item without claim row has no type; a reserved target keeps its name.
ClaimsWellFormed ==
  \A i \in Items :
    /\ claims[i].state = "none" <=> claims[i].type = "none"
    /\ claims[i].type \in ReservedKinds => claims[i].target = Reserved

\* The steps of a call that creates a reminder, and those that hold one.
ReminderSteps == {"task", "match", "report", "note"} \cup BridgeSteps
TargetSteps   == {"job", "schedule", "undo", "failjob", "fail", "note"}

\* A call in progress works for the claim's type, and what it holds exists.
CallOK(c) ==
  LET call == calls[c]
  IN  /\ call.at # "idle" => /\ call.item \in Items
                             /\ call.type \in ResolvedType
      /\ call.at \in BusySteps => /\ claims[call.item].type = call.type
                                  /\ call.intent \in Intents
      /\ call.at = "already_resolved" => claims[call.item].type # "none"
      /\ call.at = "create" => call.type \in ReservedKinds
      /\ call.at \in ReminderSteps => call.type = "reminder"
      /\ call.at \in TargetSteps => call.target \in 1..Len(reminders[call.item])
      /\ call.at = "record" =>
           \/ /\ call.type \in ReservedKinds
              /\ call.target = Reserved
              /\ call.type \in targets[call.item]
           \/ /\ call.type = "reminder"
              /\ call.target \in 1..Len(reminders[call.item])
      /\ call.at = "complete" =>
           (call.type \in ExternalKinds => claims[call.item].state # "claimed")

StoresOK == ClaimsWellFormed /\ NoOrphanTarget /\ ResolutionCoherent

InboxInv ==
  /\ TypeOK
  /\ StoresOK
  /\ \A c \in Callers : CallOK(c)
  /\ AnswersHold

\* What every step does to the stores: nothing is taken back.
Advances ==
  \A i \in Items :
    /\ claims[i].type # "none" => claims'[i].type = claims[i].type
    /\ claims[i].state # "none" => claims'[i].state # "none"
    /\ claims[i].state \in {"target_created", "completed"} =>
         /\ claims'[i].state \in {"target_created", "completed"}
         /\ claims'[i].target = claims[i].target
    /\ claims[i].state = "completed" => claims'[i].state = "completed"
    /\ targets[i] \subseteq targets'[i]
    /\ Len(reminders[i]) <= Len(reminders'[i])
    /\ items[i].status # "pending" => items'[i] = items[i]

-----------------------------------------------------------------------------
(* General lemmas.                                                         *)

\* A caller that does not move keeps what it knows.
LEMMA Frame ==
  ASSUME InboxInv, TypeOK', Advances,
         NEW d \in Callers, calls'[d] = calls[d]
  PROVE  CallOK(d)' /\ AnswerHolds(d)'
<1>1. CallOK(d) /\ AnswerHolds(d) /\ calls[d] \in Call
  BY DEF InboxInv, AnswersHold, TypeOK
<1>2. CASE calls[d].at = "idle"
  BY <1>1, <1>2
     DEF CallOK, AnswerHolds, ReminderSteps, TargetSteps, BusySteps, CreateSteps,
         BridgeSteps
<1>3. CASE calls[d].at # "idle"
  <2> DEFINE i == calls[d].item
  <2>1. i \in Items
    BY <1>1, <1>3 DEF CallOK
  <2>2. /\ claims[i] \in ClaimRow /\ claims'[i] \in ClaimRow
        /\ Len(reminders[i]) \in Nat /\ Len(reminders'[i]) \in Nat
    BY <2>1 DEF InboxInv, TypeOK
  <2>3. claims[i].state = "none" <=> claims[i].type = "none"
    BY <2>1 DEF InboxInv, StoresOK, ClaimsWellFormed
  <2>4. CallOK(d)'
    BY <1>1, <1>3, <2>1, <2>2, <2>3
       DEF CallOK, Advances, Call, ClaimRow, ClaimState, ResolvedType, ExternalKinds,
           ReservedKinds, BusySteps, CreateSteps, BridgeSteps
  <2>5. CASE calls[d].at = "resolved"
    <3>1. items[i].type = calls[d].type /\ items[i].status = FinalStatus(calls[d].type)
      BY <1>1, <2>5 DEF AnswerHolds
    <3>2. items[i].status # "pending"
      BY <3>1 DEF FinalStatus
    <3> QED BY <1>1, <2>1, <2>4, <2>5, <3>1, <3>2 DEF AnswerHolds, Advances, FinalStatus
  <2>6. CASE calls[d].at = "already_resolved"
    <3>1. claims[i].type # calls[d].type \/ claims[i].state = "completed"
      BY <1>1, <2>6 DEF AnswerHolds
    <3>2. claims[i].type # "none"
      BY <1>1, <2>6 DEF CallOK
    <3> QED BY <1>1, <2>1, <2>4, <2>6, <3>1, <3>2 DEF AnswerHolds, Advances
  <2>7. CASE calls[d].at \notin {"resolved", "already_resolved"}
    BY <2>4, <2>7 DEF AnswerHolds
  <2> QED BY <2>4, <2>5, <2>6, <2>7
<1> QED BY <1>2, <1>3

\* So a step of c preserves the invariant if it advances the stores, leaves
\* them consistent, and c itself ends up with true knowledge.
LEMMA Combine ==
  ASSUME InboxInv, NEW c \in Callers, TypeOK', Advances, StoresOK',
         CallOK(c)', AnswerHolds(c)',
         \A d \in Callers \ {c} : calls'[d] = calls[d]
  PROVE  InboxInv'
<1>1. ASSUME NEW d \in Callers PROVE CallOK(d)' /\ AnswerHolds(d)'
  <2>1. CASE d = c BY <2>1
  <2>2. CASE d # c BY <2>2, Frame
  <2> QED BY <2>1, <2>2
<1> QED BY <1>1 DEF InboxInv, AnswersHold

\* Continue changes one record of calls, and only its step, target and rev.
LEMMA ContinueFacts ==
  ASSUME TypeOK, NEW c \in Callers, NEW at \in BusySteps \cup Answers,
         NEW target \in TargetId, NEW rev \in Nat, Continue(c, at, target, rev)
  PROVE  /\ calls' \in [Callers -> Call]
         /\ calls'[c].at = at
         /\ calls'[c].item = calls[c].item
         /\ calls'[c].type = calls[c].type
         /\ calls'[c].intent = calls[c].intent
         /\ calls'[c].target = target
         /\ calls'[c].rev = rev
         /\ \A d \in Callers \ {c} : calls'[d] = calls[d]
<1> DEFINE r == [at |-> at, item |-> calls[c].item, type |-> calls[c].type,
                 intent |-> calls[c].intent, target |-> target, rev |-> rev]
<1>1. calls \in [Callers -> Call] /\ calls[c] \in Call
  BY DEF TypeOK
<1>2. r \in Call
  BY <1>1 DEF Call
<1>3. calls' = [calls EXCEPT ![c] = r]
  BY DEF Continue
<1>4. calls'[c] = r
  BY <1>1, <1>3
<1> QED BY <1>1, <1>2, <1>3, <1>4

\* An answer carries no target.
LEMMA AnswerFacts ==
  ASSUME TypeOK, NEW c \in Callers, NEW answer \in Answers, Answer(c, answer)
  PROVE  /\ calls' \in [Callers -> Call]
         /\ calls'[c].at = answer
         /\ calls'[c].item = calls[c].item
         /\ calls'[c].type = calls[c].type
         /\ \A d \in Callers \ {c} : calls'[d] = calls[d]
<1> DEFINE r == [at |-> answer, item |-> calls[c].item, type |-> calls[c].type,
                 intent |-> "none", target |-> None, rev |-> 0]
<1>1. calls \in [Callers -> Call] /\ calls[c] \in Call
  BY DEF TypeOK
<1>2. r \in Call
  BY <1>1 DEF Call, TargetId
<1>3. calls' = [calls EXCEPT ![c] = r]
  BY DEF Answer
<1>4. calls'[c] = r
  BY <1>1, <1>3
<1> QED BY <1>1, <1>2, <1>3, <1>4

\* A call that goes on keeps its target.
LEMMA GoToFacts ==
  ASSUME TypeOK, NEW c \in Callers, NEW at \in BusySteps, GoTo(c, at)
  PROVE  /\ calls' \in [Callers -> Call]
         /\ calls'[c].at = at
         /\ calls'[c].item = calls[c].item
         /\ calls'[c].type = calls[c].type
         /\ calls'[c].intent = calls[c].intent
         /\ calls'[c].target = calls[c].target
         /\ \A d \in Callers \ {c} : calls'[d] = calls[d]
<1>1. Continue(c, at, calls[c].target, calls[c].rev)
  BY DEF GoTo
<1>2. calls[c].target \in TargetId /\ calls[c].rev \in Nat
  BY DEF TypeOK, Call
<1> QED BY <1>1, <1>2, ContinueFacts

\* Unchanged stores advance trivially and stay consistent.
LEMMA StoresUnchanged ==
  ASSUME InboxInv, UNCHANGED stores
  PROVE  Advances /\ StoresOK'
<1>1. StoresOK'
  BY DEF InboxInv, StoresOK, ClaimsWellFormed, NoOrphanTarget, ResolutionCoherent, stores
<1>2. \A i \in Items : Len(reminders[i]) \in Nat
  BY DEF InboxInv, TypeOK
<1> QED BY <1>1, <1>2 DEF Advances, stores

\* A call that fails knows nothing that could be false.
LEMMA FailedCall ==
  ASSUME InboxInv, NEW c \in Callers, calls[c].at # "idle",
         Answer(c, "failed")
  PROVE  /\ calls' \in [Callers -> Call]
         /\ CallOK(c)' /\ AnswerHolds(c)'
         /\ \A d \in Callers \ {c} : calls'[d] = calls[d]
<1>1. /\ calls' \in [Callers -> Call]
      /\ calls'[c].at = "failed"
      /\ calls'[c].item = calls[c].item
      /\ calls'[c].type = calls[c].type
      /\ \A d \in Callers \ {c} : calls'[d] = calls[d]
  BY AnswerFacts DEF InboxInv, Answers
<1>2. CallOK(c)
  BY DEF InboxInv
<1> QED BY <1>1, <1>2
           DEF CallOK, AnswerHolds, ReminderSteps, TargetSteps, BusySteps, CreateSteps,
               BridgeSteps

\* The count of faults stays within its bound.
LEMMA FaultType == ASSUME TypeOK, Fault PROVE faults' \in 0..MaxFaults
BY InboxAssumption DEF Fault, TypeOK

\* The invariant holds when items have been captured and nobody has called yet.
LEMMA InitInv == Init => InboxInv
<1> SUFFICES ASSUME Init PROVE InboxInv
  OBVIOUS
<1>1. TypeOK
  <2>1. NewItem \in ItemRow /\ NoClaim \in ClaimRow
    BY DEF NewItem, ItemRow, NoClaim, ClaimRow, InboxStatus, ClaimState, TargetId
  <2>2. NoTask \in Task /\ IdleCall \in Call
    BY DEF NoTask, Task, IdleCall, Call, TargetId
  <2>3. <<>> \in Seq(Reminder) /\ {} \subseteq Items \X Nat \X Hosts
    OBVIOUS
  <2> QED BY <2>1, <2>2, <2>3, InboxAssumption DEF Init, TypeOK
<1>2. StoresOK
  BY DEF Init, StoresOK, ClaimsWellFormed, NoOrphanTarget, ResolutionCoherent, NewItem,
         NoClaim, NoTask, ReservedKinds
<1>3. (\A c \in Callers : CallOK(c)) /\ AnswersHold
  BY DEF Init, CallOK, AnswersHold, AnswerHolds, IdleCall, ReminderSteps, TargetSteps,
         BusySteps, CreateSteps, BridgeSteps
<1> QED BY <1>1, <1>2, <1>3 DEF InboxInv

-----------------------------------------------------------------------------
(* One lemma per action.                                                   *)

\* claim_resolution preserves the invariant: an existing claim is only read.
LEMMA ClaimStep ==
  ASSUME InboxInv, NEW c \in Callers, NEW i \in Items, NEW type \in Kinds,
         NEW intent \in Intents, Claim(c, i, type, intent)
  PROVE  InboxInv' /\ Advances
<1> DEFINE row == ClaimOf(i, type)
           call == [at |-> AfterClaim(row, type), item |-> i, type |-> type,
                    intent |-> intent, target |-> None, rev |-> 0]
<1>1. TypeOK /\ StoresOK /\ claims[i] \in ClaimRow /\ calls \in [Callers -> Call]
  BY DEF InboxInv, TypeOK
<1>2. type \in ResolvedType
  BY InboxAssumption
<1>3. /\ claims[i].state = "none" => row = Claimed(type)
      /\ claims[i].state # "none" => row = claims[i]
  BY DEF ClaimOf
<1>4. row \in ClaimRow
  BY <1>1, <1>2, <1>3 DEF Claimed, ClaimRow, ClaimState, ReservedTarget, Reserved, TargetId
<1>5. /\ claims' = [claims EXCEPT ![i] = row]
      /\ calls' = [calls EXCEPT ![c] = call]
      /\ UNCHANGED <<items, targets, backing, reminders, jobs, known, up, faults>>
  BY DEF Claim, scheduling
<1>6. AfterClaim(row, type) \in {"get", "already_resolved", "resolved"}
  BY DEF AfterClaim
<1>7. /\ AfterClaim(row, type) = "get" => row.type = type
      /\ AfterClaim(row, type) = "already_resolved" => row.type # type \/ row.state = "completed"
      /\ AfterClaim(row, type) = "resolved" => row.type = type /\ row.state = "completed"
  BY DEF AfterClaim
<1> HIDE DEF row
<1>8. call \in Call
  BY <1>2, <1>6 DEF Call, BusySteps, Answers, TargetId
<1>9. calls' \in [Callers -> Call] /\ calls'[c] = call
      /\ \A d \in Callers \ {c} : calls'[d] = calls[d]
  BY <1>1, <1>5, <1>8
<1>10. claims' \in [Items -> ClaimRow] /\ claims'[i] = row
       /\ \A j \in Items \ {i} : claims'[j] = claims[j]
  BY <1>1, <1>4, <1>5 DEF TypeOK
<1>11. TypeOK'
  BY <1>1, <1>5, <1>9, <1>10 DEF TypeOK
<1>12. /\ claims[i].state = "none" <=> claims[i].type = "none"
       /\ claims[i].type \in ReservedKinds => claims[i].target = Reserved
  BY <1>1 DEF StoresOK, ClaimsWellFormed
<1>13. /\ row.type # "none" /\ row.state # "none"
       /\ row.type \in ReservedKinds => row.target = Reserved
       /\ claims[i].state = "none" => row.state = "claimed"
  BY <1>2, <1>3, <1>12 DEF Claimed, ReservedTarget, ResolvedType, ExternalKinds, ReservedKinds
<1>14. Advances
  <2>1. \A j \in Items : Len(reminders[j]) \in Nat
    BY <1>1 DEF TypeOK
  <2>2. claims[i].state # "none" => claims'[i] = claims[i]
    BY <1>3, <1>10
  <2> QED BY <1>5, <1>10, <1>12, <1>13, <2>1, <2>2 DEF Advances
<1>15. StoresOK'
  <2>1. ClaimsWellFormed'
    BY <1>1, <1>10, <1>13 DEF StoresOK, ClaimsWellFormed
  <2>2. NoOrphanTarget'
    <3>1. claims[i].state = "none" =>
            targets[i] = {} /\ ~(backing[i].rev > 0 \/ reminders[i] # <<>>)
      BY <1>1, <1>12 DEF StoresOK, NoOrphanTarget, TypeOK, ReservedKinds
    <3> QED BY <1>1, <1>3, <1>5, <1>10, <3>1 DEF StoresOK, NoOrphanTarget
  <2>3. ResolutionCoherent'
    BY <1>1, <1>3, <1>5, <1>10, <1>13, ZenonT(40) DEF StoresOK, ResolutionCoherent, FinalStatus
  <2> QED BY <2>1, <2>2, <2>3 DEF StoresOK
<1>16. CallOK(c)'
  BY <1>2, <1>6, <1>7, <1>9, <1>10, <1>13
     DEF CallOK, ReminderSteps, TargetSteps, BusySteps, CreateSteps, BridgeSteps
<1>17. AnswerHolds(c)'
  <2>1. row.state = "completed" => items'[i].type = row.type /\ items'[i].status = FinalStatus(row.type)
    <3>1. row.state = "completed" =>
            /\ items'[i].status # "pending"
            /\ items'[i] = [status |-> FinalStatus(row.type), type |-> row.type,
                            target |-> row.target]
      BY <1>10, <1>15 DEF StoresOK, ResolutionCoherent, FinalStatus
    <3> QED BY <3>1
  <2> QED BY <1>7, <1>9, <1>10, <2>1 DEF AnswerHolds, FinalStatus
<1> QED BY <1>9, <1>11, <1>14, <1>15, <1>16, <1>17, Combine

\* Reading the item preserves the invariant: a final item has a completed claim.
LEMMA GetStep ==
  ASSUME InboxInv, NEW c \in Callers, Get(c)
  PROVE  InboxInv' /\ Advances
<1>1. TypeOK /\ CallOK(c) /\ UNCHANGED stores /\ UNCHANGED <<known, up, faults>>
  BY DEF InboxInv, Get
<1>2. calls[c].at = "get" /\ calls[c].item \in Items /\ claims[calls[c].item].type = calls[c].type
      /\ calls[c].type \in ResolvedType
  BY <1>1 DEF Get, CallOK, BusySteps
<1>3. Advances /\ StoresOK'
  BY <1>1, StoresUnchanged
<1>4. CASE GoTo(c, "read")
  <2>1. /\ calls' \in [Callers -> Call]
        /\ calls'[c].at = "read"
        /\ calls'[c].item = calls[c].item
        /\ calls'[c].type = calls[c].type
        /\ calls'[c].intent = calls[c].intent
        /\ \A d \in Callers \ {c} : calls'[d] = calls[d]
    BY <1>1, <1>4, GoToFacts DEF BusySteps
  <2>2. TypeOK'
    BY <1>1, <2>1 DEF TypeOK, stores
  <2>3. CallOK(c)' /\ AnswerHolds(c)'
    BY <1>1, <1>2, <2>1
       DEF CallOK, AnswerHolds, stores, ReminderSteps, TargetSteps, BusySteps, CreateSteps,
           BridgeSteps
  <2> QED BY <1>3, <2>1, <2>2, <2>3, Combine
<1>5. CASE items[calls[c].item].status # "pending" /\ Answer(c, "already_resolved")
  <2>1. /\ calls' \in [Callers -> Call]
        /\ calls'[c].at = "already_resolved"
        /\ calls'[c].item = calls[c].item
        /\ calls'[c].type = calls[c].type
        /\ \A d \in Callers \ {c} : calls'[d] = calls[d]
    BY <1>1, <1>5, AnswerFacts DEF Answers
  <2>2. TypeOK'
    BY <1>1, <2>1 DEF TypeOK, stores
  <2>3. claims[calls[c].item].state = "completed"
    BY <1>2, <1>5 DEF InboxInv, StoresOK, ResolutionCoherent
  <2>4. CallOK(c)'
    BY <1>1, <1>2, <2>1
       DEF CallOK, stores, ReminderSteps, TargetSteps, BusySteps, CreateSteps, BridgeSteps,
           ResolvedType, ExternalKinds, ReservedKinds
  <2>5. AnswerHolds(c)'
    BY <1>1, <2>1, <2>3 DEF AnswerHolds, stores
  <2> QED BY <1>3, <2>1, <2>2, <2>4, <2>5, Combine
<1> QED BY <1>4, <1>5 DEF Get

\* Reading the claim again preserves the invariant.
LEMMA ReadStep ==
  ASSUME InboxInv, NEW c \in Callers, Read(c)
  PROVE  InboxInv' /\ Advances
<1>1. TypeOK /\ CallOK(c) /\ UNCHANGED stores /\ UNCHANGED <<known, up, faults>>
  BY DEF InboxInv, Read
<1>2. calls[c].at = "read" /\ calls[c].item \in Items /\ claims[calls[c].item].type = calls[c].type
      /\ calls[c].type \in ResolvedType /\ calls[c].intent \in Intents
  BY <1>1 DEF Read, CallOK, BusySteps
<1>3. Advances /\ StoresOK'
  BY <1>1, StoresUnchanged
<1>4. PICK at \in {"complete", "task", "create"} :
        /\ GoTo(c, at)
        /\ at = "complete" => \/ calls[c].type \notin ExternalKinds
                              \/ claims[calls[c].item].state # "claimed"
        /\ at = "task" => calls[c].type = "reminder"
        /\ at = "create" => calls[c].type \in ReservedKinds
  BY DEF Read, ExternalKinds
<1>5. /\ calls' \in [Callers -> Call]
      /\ calls'[c].at = at
      /\ calls'[c].item = calls[c].item
      /\ calls'[c].type = calls[c].type
      /\ calls'[c].intent = calls[c].intent
      /\ \A d \in Callers \ {c} : calls'[d] = calls[d]
  BY <1>1, <1>4, GoToFacts DEF BusySteps, CreateSteps, BridgeSteps
<1>6. TypeOK'
  BY <1>1, <1>5 DEF TypeOK, stores
<1>7. CallOK(c)' /\ AnswerHolds(c)'
  BY <1>1, <1>2, <1>4, <1>5
     DEF CallOK, AnswerHolds, stores, ReminderSteps, TargetSteps, BusySteps, CreateSteps,
         BridgeSteps
<1> QED BY <1>3, <1>5, <1>6, <1>7, Combine

\* A step that fails without writing preserves the invariant.
LEMMA StepFailsStep ==
  ASSUME InboxInv, NEW c \in Callers, StepFails(c)
  PROVE  InboxInv' /\ Advances
<1>1. TypeOK /\ calls[c].at # "idle" /\ Answer(c, "failed") /\ Fault
      /\ UNCHANGED stores /\ UNCHANGED <<known, up>>
  BY DEF InboxInv, StepFails, Busy, BusySteps, CreateSteps, BridgeSteps
<1>2. Advances /\ StoresOK'
  BY <1>1, StoresUnchanged
<1>3. TypeOK'
  BY <1>1, FailedCall, FaultType DEF TypeOK, stores
<1> QED BY <1>1, <1>2, <1>3, FailedCall, Combine

\* Creating a reserved target preserves the invariant: the caller owns the claimed type.
LEMMA CreateStep ==
  ASSUME InboxInv, NEW c \in Callers, Create(c)
  PROVE  InboxInv' /\ Advances
<1> DEFINE i == calls[c].item
<1>1. TypeOK /\ CallOK(c) /\ StoresOK
  BY DEF InboxInv
<1>2. /\ calls[c].at = "create" /\ i \in Items /\ claims[i].type = calls[c].type
      /\ calls[c].type \in ReservedKinds /\ calls[c].intent \in Intents
  BY <1>1 DEF Create, CallOK, ReminderSteps, TargetSteps, BusySteps, CreateSteps, BridgeSteps
<1>3. /\ targets' \in [Items -> SUBSET ReservedKinds]
      /\ targets'[i] = targets[i] \cup {calls[c].type}
      /\ \A j \in Items \ {i} : targets'[j] = targets[j]
      /\ UNCHANGED <<items, claims, backing, reminders, jobs, known, up>>
  BY <1>1, <1>2 DEF Create, TypeOK, scheduling
<1>4. \A j \in Items : Len(reminders[j]) \in Nat
  BY <1>1 DEF TypeOK
<1>5. Advances
  BY <1>3, <1>4 DEF Advances
<1>6. StoresOK'
  BY <1>1, <1>2, <1>3
     DEF StoresOK, ClaimsWellFormed, NoOrphanTarget, ResolutionCoherent, FinalStatus
<1>7. CASE Continue(c, "record", Reserved, 0) /\ UNCHANGED faults
  <2>1. /\ calls' \in [Callers -> Call]
        /\ calls'[c].at = "record"
        /\ calls'[c].item = calls[c].item
        /\ calls'[c].type = calls[c].type
        /\ calls'[c].intent = calls[c].intent
        /\ calls'[c].target = Reserved
        /\ \A d \in Callers \ {c} : calls'[d] = calls[d]
    BY <1>1, <1>7, ContinueFacts DEF BusySteps, TargetId, Reserved
  <2>2. TypeOK'
    BY <1>1, <1>3, <1>7, <2>1 DEF TypeOK
  <2>3. CallOK(c)' /\ AnswerHolds(c)'
    BY <1>2, <1>3, <2>1
       DEF CallOK, AnswerHolds, ReminderSteps, TargetSteps, BusySteps, CreateSteps,
           BridgeSteps, ResolvedType, ExternalKinds
  <2> QED BY <1>5, <1>6, <2>1, <2>2, <2>3, Combine
<1>8. CASE Fault /\ Answer(c, "failed")
  <2>1. TypeOK'
    BY <1>1, <1>2, <1>3, <1>8, FailedCall, FaultType DEF TypeOK
  <2> QED BY <1>2, <1>5, <1>6, <1>8, <2>1, FailedCall, Combine
<1> QED BY <1>7, <1>8 DEF Create

\* What the steps that create a reminder have in common: the claim is one of
\* a reminder, so backing task and reminder rows may be written.
LEMMA ReminderWrites ==
  ASSUME InboxInv, NEW i \in Items, claims[i].type = "reminder",
         UNCHANGED <<items, claims, targets>>,
         backing' \in [Items -> Task], reminders' \in [Items -> Seq(Reminder)],
         \A j \in Items \ {i} : backing'[j] = backing[j],
         \A j \in Items : Len(reminders'[j]) >= Len(reminders[j]),
         \A j \in Items \ {i} : Len(reminders'[j]) = Len(reminders[j])
  PROVE  Advances /\ StoresOK'
<1>1. \A j \in Items : /\ reminders[j] \in Seq(Reminder)
                       /\ reminders'[j] \in Seq(Reminder)
                       /\ Len(reminders[j]) \in Nat /\ Len(reminders'[j]) \in Nat
  BY DEF InboxInv, TypeOK
<1>2. \A j \in Items : /\ reminders[j] = <<>> <=> Len(reminders[j]) = 0
                       /\ reminders'[j] = <<>> <=> Len(reminders'[j]) = 0
  BY <1>1, EmptySeq
<1>3. Advances
  BY <1>1 DEF Advances
<1>4. ClaimsWellFormed'
  BY DEF InboxInv, StoresOK, ClaimsWellFormed
<1>5. NoOrphanTarget'
  <2>1. ASSUME NEW j \in Items, j # i,
               backing'[j].rev > 0 \/ reminders'[j] # <<>>
        PROVE  claims'[j].type = "reminder"
    <3>1. backing[j].rev > 0 \/ reminders[j] # <<>>
      BY <1>2, <2>1
    <3> QED BY <3>1 DEF InboxInv, StoresOK, NoOrphanTarget
  <2>2. \A j \in Items : targets'[j] \subseteq {claims'[j].type}
    BY DEF InboxInv, StoresOK, NoOrphanTarget
  <2> QED BY <2>1, <2>2 DEF NoOrphanTarget
<1>6. ResolutionCoherent'
  <2>1. ASSUME NEW j \in Items, claims[j].target \in 1..Len(reminders[j])
        PROVE  claims'[j].target \in 1..Len(reminders'[j])
    BY <1>1, <2>1
  <2> QED BY <2>1 DEF InboxInv, StoresOK, ResolutionCoherent, FinalStatus
<1> QED BY <1>3, <1>4, <1>5, <1>6 DEF StoresOK

\* The facts about a call at one of the steps that create a reminder.
LEMMA ReminderCall ==
  ASSUME InboxInv, NEW c \in Callers,
         calls[c].at \in ReminderSteps
  PROVE  /\ TypeOK /\ calls[c].at # "idle"
         /\ calls[c].item \in Items
         /\ calls[c].type = "reminder" /\ calls[c].intent \in Intents
         /\ claims[calls[c].item].type = "reminder"
         /\ calls[c].rev \in Nat /\ calls[c].target \in TargetId
         /\ backing[calls[c].item] \in Task
         /\ reminders[calls[c].item] \in Seq(Reminder)
         /\ Host[c] \in Hosts
         /\ calls[c].at \in TargetSteps => calls[c].target \in 1..Len(reminders[calls[c].item])
<1>1. TypeOK /\ CallOK(c) /\ calls[c] \in Call
  BY DEF InboxInv, TypeOK
<1>2. calls[c].item \in Items /\ calls[c].type = "reminder" /\ calls[c].intent \in Intents
      /\ claims[calls[c].item].type = "reminder"
  BY <1>1 DEF CallOK, ReminderSteps, BusySteps, CreateSteps, BridgeSteps
<1> QED BY <1>1, <1>2, InboxAssumption
       DEF CallOK, TypeOK, Call, ReminderSteps, BridgeSteps

\* The update of the backing task touches the row of the item only.
LEMMA TaskUpdatedType ==
  ASSUME InboxInv, NEW c \in Callers,
         calls[c].at \in ReminderSteps
  PROVE  /\ TaskUpdated(c) \in [Items -> Task]
         /\ \A j \in Items \ {calls[c].item} : TaskUpdated(c)[j] = backing[j]
<1> DEFINE row == [rev |-> calls[c].rev + 1, intent |-> backing[calls[c].item].intent]
<1>1. row \in Task
  BY ReminderCall DEF Task
<1>2. backing \in [Items -> Task] /\ calls[c].item \in Items
  BY ReminderCall DEF TypeOK
<1>3. TaskUpdated(c) = [backing EXCEPT ![calls[c].item] = row] \/ TaskUpdated(c) = backing
  BY DEF TaskUpdated
<1> HIDE DEF row
<1> QED BY <1>1, <1>2, <1>3

\* Creating or finding the backing task of a reminder preserves the invariant.
LEMMA CreateTaskStep ==
  ASSUME InboxInv, NEW c \in Callers, CreateTask(c)
  PROVE  InboxInv' /\ Advances
<1> DEFINE i == calls[c].item
           task == IF backing[i].rev = 0 THEN [rev |-> 1, intent |-> calls[c].intent]
                   ELSE backing[i]
<1>1. calls[c].at = "task"
  BY DEF CreateTask
<1>2. /\ TypeOK /\ calls[c].at # "idle" /\ i \in Items
      /\ calls[c].type = "reminder" /\ calls[c].intent \in Intents
      /\ claims[i].type = "reminder"
      /\ backing[i] \in Task
  BY <1>1, ReminderCall DEF ReminderSteps
<1>3. task \in Task
  BY <1>2 DEF Task
<1>4. /\ backing' = [backing EXCEPT ![i] = task]
      /\ UNCHANGED <<items, claims, targets, reminders, jobs, known, up>>
      /\ \/ Continue(c, "match", None, task.rev) /\ UNCHANGED faults
         \/ Answer(c, "failed") /\ UNCHANGED faults
         \/ Fault /\ Answer(c, "failed")
  BY DEF CreateTask, scheduling
<1> HIDE DEF task
<1>5. /\ backing' \in [Items -> Task]
      /\ \A j \in Items \ {i} : backing'[j] = backing[j]
  BY <1>2, <1>3, <1>4 DEF TypeOK
<1>6. Advances /\ StoresOK'
  <2>1. /\ reminders' \in [Items -> Seq(Reminder)]
        /\ \A j \in Items : Len(reminders'[j]) = Len(reminders[j]) /\ Len(reminders[j]) \in Nat
    BY <1>2, <1>4 DEF TypeOK
  <2> QED BY <1>2, <1>4, <1>5, <2>1, ReminderWrites
<1>7. CASE Continue(c, "match", None, task.rev) /\ UNCHANGED faults
  <2>1. task.rev \in Nat /\ None \in TargetId
    BY <1>3 DEF Task, TargetId
  <2>2. /\ calls' \in [Callers -> Call]
        /\ calls'[c].at = "match"
        /\ calls'[c].item = calls[c].item
        /\ calls'[c].type = calls[c].type
        /\ calls'[c].intent = calls[c].intent
        /\ \A d \in Callers \ {c} : calls'[d] = calls[d]
    BY <1>2, <1>7, <2>1, ContinueFacts DEF BusySteps, CreateSteps, BridgeSteps
  <2>3. TypeOK'
    BY <1>2, <1>4, <1>5, <1>7, <2>2 DEF TypeOK
  <2>4. CallOK(c)' /\ AnswerHolds(c)'
    BY <1>2, <1>4, <2>2
       DEF CallOK, AnswerHolds, ReminderSteps, TargetSteps, BusySteps, CreateSteps,
           BridgeSteps, ResolvedType, ExternalKinds
  <2> QED BY <1>6, <2>2, <2>3, <2>4, Combine
<1>8. CASE Answer(c, "failed") /\ (Fault \/ UNCHANGED faults)
  <2>1. TypeOK'
    BY <1>2, <1>4, <1>5, <1>8, FailedCall, FaultType DEF TypeOK
  <2> QED BY <1>2, <1>6, <1>8, <2>1, FailedCall, Combine
<1> QED BY <1>4, <1>7, <1>8

\* The types of what bridge and scheduler write.
SchedulingTypes ==
  /\ reminders \in [Items -> Seq(Reminder)]
  /\ jobs \subseteq Items \X Nat \X Hosts
  /\ known \in [Hosts -> SUBSET (Items \X Nat)]

\* A job bears the name of a reminder.
LEMMA NamesType == ASSUME TypeOK PROVE Names \subseteq Items \X Nat
BY DEF TypeOK, Names

\* What a registry holds after a refresh are names of jobs.
LEMMA RefreshedType ==
  ASSUME TypeOK, NEW h \in Hosts, NEW K \in Refreshed(h)
  PROVE  K \in SUBSET (Items \X Nat)
<1>1. K \subseteq Names
  BY DEF Refreshed
<1> QED BY <1>1, NamesType

\* A reconciliation marks reminders, it neither adds nor removes one.
LEMMA ReconcileFacts ==
  ASSUME TypeOK, NEW h \in Hosts, NEW K \in SUBSET (Items \X Nat), Reconcile(h, K)
  PROVE  /\ SchedulingTypes' /\ faults' \in 0..MaxFaults
         /\ \A j \in Items : Len(reminders'[j]) = Len(reminders[j])
<1>1. PICK saved \in SUBSET Due(K) : \E marked \in SUBSET saved :
        /\ jobs' = jobs \cup {<<n[1], n[2], h>> :
                                n \in {n \in saved : ~reminders[n[1]][n[2]].job}}
        /\ known' = [known EXCEPT ![h] =
                       K \cup {n \in saved : ~reminders[n[1]][n[2]].job}]
        /\ reminders' = [i \in Items |-> [k \in DOMAIN reminders[i] |->
                           IF <<i, k>> \in marked THEN Scheduled ELSE reminders[i][k]]]
        /\ UNCHANGED faults \/ Fault
  BY DEF Reconcile
<1>1a. PICK marked \in SUBSET saved :
         reminders' = [i \in Items |-> [k \in DOMAIN reminders[i] |->
                         IF <<i, k>> \in marked THEN Scheduled ELSE reminders[i][k]]]
  BY <1>1
<1>2. ASSUME NEW n \in Due(K) PROVE n \in Items \X Nat
  <2>1. PICK i \in Items : n \in {i} \X DOMAIN reminders[i]
    BY DEF Due, Created
  <2>2. reminders[i] \in Seq(Reminder)
    BY DEF TypeOK
  <2>3. DOMAIN reminders[i] \subseteq Nat
    BY <2>2
  <2> QED BY <2>1, <2>3
<1>3. jobs' \subseteq Items \X Nat \X Hosts
  <2>1. ASSUME NEW n \in saved PROVE <<n[1], n[2], h>> \in Items \X Nat \X Hosts
    <3>1. n \in Items \X Nat
      BY <1>2
    <3> QED BY <3>1
  <2> QED BY <1>1, <2>1 DEF TypeOK
<1>4. known' \in [Hosts -> SUBSET (Items \X Nat)]
  <2>1. K \cup {n \in saved : ~reminders[n[1]][n[2]].job} \in SUBSET (Items \X Nat)
    BY <1>2
  <2> QED BY <1>1, <2>1 DEF TypeOK
<1>5. ASSUME NEW j \in Items
      PROVE  reminders'[j] \in Seq(Reminder) /\ Len(reminders'[j]) = Len(reminders[j])
  <2>1. reminders[j] \in Seq(Reminder)
    BY DEF TypeOK
  <2>2. Len(reminders[j]) \in Nat /\ DOMAIN reminders[j] = 1..Len(reminders[j])
    BY <2>1
  <2>3. \A k \in 1..Len(reminders[j]) : reminders[j][k] \in Reminder
    BY <2>1
  <2>4. Scheduled \in Reminder
    BY DEF Scheduled, Reminder, ReminderStatus
  <2>5. reminders'[j] = [k \in 1..Len(reminders[j]) |->
                           IF <<j, k>> \in marked THEN Scheduled ELSE reminders[j][k]]
    BY <1>1a, <2>2
  <2> QED BY <2>2, <2>3, <2>4, <2>5
<1>6. reminders' \in [Items -> Seq(Reminder)]
  BY <1>1a, <1>5
<1>7. faults' \in 0..MaxFaults
  BY <1>1, FaultType DEF TypeOK
<1> QED BY <1>3, <1>4, <1>5, <1>6, <1>7 DEF SchedulingTypes

\* Looking for an existing reminder preserves the invariant.
LEMMA MatchStep ==
  ASSUME InboxInv, NEW c \in Callers, Match(c)
  PROVE  InboxInv' /\ Advances
<1> DEFINE i == calls[c].item
<1>1. calls[c].at = "match" /\ UNCHANGED <<items, claims, targets, backing, up>>
  BY DEF Match
<1>2. /\ TypeOK /\ calls[c].at # "idle" /\ i \in Items
      /\ calls[c].type = "reminder" /\ calls[c].intent \in Intents
      /\ claims[i].type = "reminder" /\ calls[c].rev \in Nat
      /\ reminders[i] \in Seq(Reminder) /\ Host[c] \in Hosts
  BY <1>1, ReminderCall DEF ReminderSteps
<1>3. /\ SchedulingTypes' /\ faults' \in 0..MaxFaults
      /\ \A j \in Items : Len(reminders'[j]) = Len(reminders[j]) /\ Len(reminders[j]) \in Nat
  <2>1. \/ UNCHANGED <<scheduling, faults>>
        \/ Reconcile(Host[c], known[Host[c]])
    BY DEF Match
  <2>2. CASE UNCHANGED <<scheduling, faults>>
    BY <1>2, <2>2 DEF TypeOK, scheduling, SchedulingTypes
  <2>3. CASE Reconcile(Host[c], known[Host[c]])
    <3>1. known[Host[c]] \in SUBSET (Items \X Nat) /\ \A j \in Items : Len(reminders[j]) \in Nat
      BY <1>2 DEF TypeOK
    <3> QED BY <1>2, <2>3, <3>1, ReconcileFacts
  <2> QED BY <2>1, <2>2, <2>3
<1>4. Advances /\ StoresOK'
  <2>1. backing' \in [Items -> Task]
    BY <1>1, <1>2 DEF TypeOK
  <2>2. reminders' \in [Items -> Seq(Reminder)]
    BY <1>3 DEF SchedulingTypes
  <2>3. \A j \in Items : Len(reminders'[j]) >= Len(reminders[j])
    BY <1>3
  <2> QED BY <1>1, <1>2, <1>3, <2>1, <2>2, <2>3, ReminderWrites
<1>5. CASE GoTo(c, "insert")
  <2>1. /\ calls' \in [Callers -> Call]
        /\ calls'[c].at = "insert"
        /\ calls'[c].item = calls[c].item
        /\ calls'[c].type = calls[c].type
        /\ calls'[c].intent = calls[c].intent
        /\ \A d \in Callers \ {c} : calls'[d] = calls[d]
    BY <1>2, <1>5, GoToFacts DEF BusySteps, CreateSteps, BridgeSteps
  <2>2. TypeOK'
    BY <1>1, <1>2, <1>3, <2>1 DEF TypeOK, SchedulingTypes
  <2>3. CallOK(c)' /\ AnswerHolds(c)'
    BY <1>1, <1>2, <2>1
       DEF CallOK, AnswerHolds, ReminderSteps, TargetSteps, BusySteps, CreateSteps,
           BridgeSteps, ResolvedType, ExternalKinds
  <2> QED BY <1>4, <2>1, <2>2, <2>3, Combine
<1>6. CASE reminders[i] # <<>> /\ Continue(c, "note", 1, calls[c].rev)
  <2>0. 1 \in TargetId /\ "note" \in BusySteps \cup Answers
    BY DEF BusySteps, CreateSteps, BridgeSteps, TargetId
  <2>1. /\ calls' \in [Callers -> Call]
        /\ calls'[c].at = "note"
        /\ calls'[c].item = calls[c].item
        /\ calls'[c].type = calls[c].type
        /\ calls'[c].intent = calls[c].intent
        /\ calls'[c].target = 1
        /\ \A d \in Callers \ {c} : calls'[d] = calls[d]
    BY <1>2, <1>6, <2>0, ContinueFacts
  <2>2. TypeOK'
    BY <1>1, <1>2, <1>3, <2>1 DEF TypeOK, SchedulingTypes
  <2>3. 1 \in 1..Len(reminders'[i])
    BY <1>2, <1>3, <1>6, EmptySeq
  <2>4. CallOK(c)' /\ AnswerHolds(c)'
    BY <1>1, <1>2, <2>1, <2>3
       DEF CallOK, AnswerHolds, ReminderSteps, TargetSteps, BusySteps, CreateSteps,
           BridgeSteps, ResolvedType, ExternalKinds
  <2> QED BY <1>4, <2>1, <2>2, <2>4, Combine
<1>7. CASE Answer(c, "failed")
  <2>1. TypeOK'
    BY <1>1, <1>2, <1>3, <1>7, FailedCall DEF TypeOK, SchedulingTypes
  <2> QED BY <1>2, <1>4, <1>7, <2>1, FailedCall, Combine
<1> QED BY <1>5, <1>6, <1>7 DEF Match

\* A step inside bridge.create that neither adds nor removes a reminder goes
\* on with what the call holds.
LEMMA BridgeStep ==
  ASSUME InboxInv, NEW c \in Callers,
         calls[c].at \in TargetSteps, NEW at \in TargetSteps \cup {"report"}, GoTo(c, at),
         SchedulingTypes', \A j \in Items : Len(reminders'[j]) = Len(reminders[j]),
         UNCHANGED faults \/ Fault,
         UNCHANGED <<items, claims, targets, backing, up>>
  PROVE  InboxInv' /\ Advances
<1> DEFINE i == calls[c].item
<1>1. /\ TypeOK /\ i \in Items
      /\ calls[c].type = "reminder" /\ calls[c].intent \in Intents
      /\ claims[i].type = "reminder" /\ calls[c].target \in 1..Len(reminders[i])
  BY ReminderCall DEF TargetSteps, ReminderSteps, BridgeSteps
<1>2. at \in BusySteps /\ at \in ReminderSteps
  BY DEF TargetSteps, ReminderSteps, BusySteps, CreateSteps, BridgeSteps
<1>3. /\ calls' \in [Callers -> Call]
      /\ calls'[c].at = at
      /\ calls'[c].item = calls[c].item
      /\ calls'[c].type = calls[c].type
      /\ calls'[c].intent = calls[c].intent
      /\ calls'[c].target = calls[c].target
      /\ \A d \in Callers \ {c} : calls'[d] = calls[d]
  BY <1>1, <1>2, GoToFacts
<1>4. faults' \in 0..MaxFaults
  BY <1>1, FaultType DEF TypeOK
<1>5. TypeOK'
  BY <1>1, <1>3, <1>4 DEF TypeOK, SchedulingTypes
<1>6. Advances /\ StoresOK'
  <2>1. /\ backing' \in [Items -> Task]
        /\ \A j \in Items : Len(reminders'[j]) >= Len(reminders[j])
    BY <1>1 DEF TypeOK
  <2> QED BY <1>1, <2>1, ReminderWrites DEF SchedulingTypes
<1>7. calls'[c].target \in 1..Len(reminders'[calls'[c].item])
  BY <1>1, <1>3
<1>8. CallOK(c)' /\ AnswerHolds(c)'
  BY <1>1, <1>3, <1>7
     DEF CallOK, AnswerHolds, ReminderSteps, TargetSteps, BusySteps, CreateSteps, BridgeSteps,
         ResolvedType, ExternalKinds
<1> QED BY <1>3, <1>5, <1>6, <1>8, Combine

\* Inserting a reminder preserves the invariant.
LEMMA InsertStep ==
  ASSUME InboxInv, NEW c \in Callers, Insert(c)
  PROVE  InboxInv' /\ Advances
<1> DEFINE i == calls[c].item
<1>1. calls[c].at = "insert"
      /\ UNCHANGED <<items, claims, targets, backing, jobs, known, up>>
  BY DEF Insert
<1>2. /\ TypeOK /\ calls[c].at # "idle" /\ i \in Items
      /\ calls[c].type = "reminder" /\ calls[c].intent \in Intents
      /\ claims[i].type = "reminder" /\ calls[c].rev \in Nat
      /\ reminders[i] \in Seq(Reminder)
  BY <1>1, ReminderCall DEF ReminderSteps, BridgeSteps
<1>3. /\ \A j \in Items : Len(reminders[j]) \in Nat
      /\ backing' \in [Items -> Task]
  BY <1>1, <1>2 DEF TypeOK
<1>4. CASE /\ reminders' = [reminders EXCEPT ![i] = Append(@, NewReminder)]
           /\ Continue(c, "job", Len(reminders[i]) + 1, calls[c].rev)
           /\ UNCHANGED faults
  <2>1. /\ Append(reminders[i], NewReminder) \in Seq(Reminder)
        /\ Len(Append(reminders[i], NewReminder)) = Len(reminders[i]) + 1
    <3>1. NewReminder \in Reminder
      BY DEF NewReminder, Reminder, ReminderStatus
    <3> QED BY <1>2, <3>1
  <2>2. /\ reminders' \in [Items -> Seq(Reminder)]
        /\ Len(reminders'[i]) = Len(reminders[i]) + 1
        /\ \A j \in Items \ {i} : reminders'[j] = reminders[j]
    BY <1>2, <1>4, <2>1 DEF TypeOK
  <2>3. \A j \in Items : Len(reminders'[j]) >= Len(reminders[j])
    BY <1>3, <2>2
  <2>4. Advances /\ StoresOK'
    BY <1>1, <1>2, <1>3, <2>2, <2>3, ReminderWrites
  <2>5. Len(reminders[i]) + 1 \in TargetId
    BY <1>2, <1>3 DEF TargetId
  <2>6. /\ calls' \in [Callers -> Call]
        /\ calls'[c].at = "job"
        /\ calls'[c].item = calls[c].item
        /\ calls'[c].type = calls[c].type
        /\ calls'[c].intent = calls[c].intent
        /\ calls'[c].target = Len(reminders[i]) + 1
        /\ \A d \in Callers \ {c} : calls'[d] = calls[d]
    BY <1>2, <1>4, <2>5, ContinueFacts DEF BusySteps, CreateSteps, BridgeSteps
  <2>7. TypeOK'
    BY <1>1, <1>2, <1>4, <2>2, <2>6 DEF TypeOK
  <2>8. calls'[c].target \in 1..Len(reminders'[i])
    BY <1>2, <1>3, <2>2, <2>6
  <2>9. CallOK(c)' /\ AnswerHolds(c)'
    BY <1>1, <1>2, <2>6, <2>8
       DEF CallOK, AnswerHolds, ReminderSteps, TargetSteps, BusySteps, CreateSteps, BridgeSteps,
           ResolvedType, ExternalKinds
  <2> QED BY <2>4, <2>6, <2>7, <2>9, Combine
<1>5. CASE Fault /\ GoTo(c, "report") /\ UNCHANGED reminders
  <2>1. Advances /\ StoresOK'
    BY <1>1, <1>5, StoresUnchanged DEF stores
  <2>2. /\ calls' \in [Callers -> Call]
        /\ calls'[c].at = "report"
        /\ calls'[c].item = calls[c].item
        /\ calls'[c].type = calls[c].type
        /\ calls'[c].intent = calls[c].intent
        /\ \A d \in Callers \ {c} : calls'[d] = calls[d]
    BY <1>2, <1>5, GoToFacts DEF BusySteps, CreateSteps, BridgeSteps
  <2>3. TypeOK'
    BY <1>1, <1>2, <1>5, <2>2, FaultType DEF TypeOK
  <2>4. CallOK(c)' /\ AnswerHolds(c)'
    BY <1>1, <1>2, <2>2
       DEF CallOK, AnswerHolds, ReminderSteps, TargetSteps, BusySteps, CreateSteps, BridgeSteps,
           ResolvedType, ExternalKinds
  <2> QED BY <2>1, <2>2, <2>3, <2>4, Combine
<1> QED BY <1>4, <1>5 DEF Insert

\* Saving the job, or being refused its name, preserves the invariant.
LEMMA SaveJobStep ==
  ASSUME InboxInv, NEW c \in Callers, SaveJob(c)
  PROVE  InboxInv' /\ Advances
<1> DEFINE i == calls[c].item
           k == calls[c].target
           h == Host[c]
<1>1. calls[c].at = "job" /\ UNCHANGED <<items, claims, targets, backing, reminders, up>>
  BY DEF SaveJob
<1>2. /\ TypeOK /\ i \in Items /\ h \in Hosts
      /\ reminders[i] \in Seq(Reminder) /\ k \in 1..Len(reminders[i])
  BY <1>1, ReminderCall DEF ReminderSteps, BridgeSteps, TargetSteps
<1>3. k \in Nat
  BY <1>2
<1>4. SchedulingTypes' /\ \A j \in Items : Len(reminders'[j]) = Len(reminders[j])
  <2>1. CASE UNCHANGED <<jobs, known>>
    BY <1>1, <1>2, <2>1 DEF TypeOK, SchedulingTypes
  <2>2. CASE /\ jobs' = jobs \cup {<<i, k, h>>}
             /\ known' = [known EXCEPT ![h] = @ \cup {<<i, k>>}]
    BY <1>1, <1>2, <1>3, <2>2 DEF TypeOK, SchedulingTypes
  <2> QED BY <2>1, <2>2 DEF SaveJob
<1>5. \E at \in {"schedule", "fail"} : GoTo(c, at) /\ (UNCHANGED faults \/ Fault)
  BY DEF SaveJob
<1> QED BY <1>1, <1>4, <1>5, BridgeStep DEF TargetSteps

\* Marking a row keeps the number of reminders.
LEMMA MarkedFacts ==
  ASSUME InboxInv, NEW c \in Callers, calls[c].at \in TargetSteps,
         NEW row \in Reminder, Marked(c, row)
  PROVE  /\ reminders' \in [Items -> Seq(Reminder)]
         /\ \A j \in Items : Len(reminders'[j]) = Len(reminders[j])
<1> DEFINE i == calls[c].item
           k == calls[c].target
<1>1. /\ TypeOK /\ i \in Items
      /\ reminders[i] \in Seq(Reminder) /\ k \in 1..Len(reminders[i])
  BY ReminderCall DEF TargetSteps, ReminderSteps, BridgeSteps
<1>2. /\ [reminders[i] EXCEPT ![k] = row] \in Seq(Reminder)
      /\ Len([reminders[i] EXCEPT ![k] = row]) = Len(reminders[i])
  BY <1>1, ExceptSeq
<1>3. reminders' = [reminders EXCEPT ![i] = [reminders[i] EXCEPT ![k] = row]]
  BY DEF Marked
<1> HIDE DEF i, k
<1> QED BY <1>1, <1>2, <1>3 DEF TypeOK

\* Marking a reminder scheduled, or failing to, preserves the invariant.
LEMMA MarkScheduledStep ==
  ASSUME InboxInv, NEW c \in Callers, MarkScheduled(c)
  PROVE  InboxInv' /\ Advances
<1>1. calls[c].at = "schedule" /\ UNCHANGED <<items, claims, targets, backing, jobs, known, up>>
  BY DEF MarkScheduled
<1>2. SchedulingTypes' /\ \A j \in Items : Len(reminders'[j]) = Len(reminders[j])
  <2>1. CASE UNCHANGED reminders
    BY <1>1, <2>1 DEF InboxInv, TypeOK, SchedulingTypes
  <2>2. CASE Marked(c, Scheduled)
    <3>1. Scheduled \in Reminder
      BY DEF Scheduled, Reminder, ReminderStatus
    <3> QED BY <1>1, <2>2, <3>1, MarkedFacts DEF InboxInv, TypeOK, SchedulingTypes, TargetSteps
  <2> QED BY <2>1, <2>2 DEF MarkScheduled
<1>3. \E at \in {"note", "undo"} : GoTo(c, at) /\ (UNCHANGED faults \/ Fault)
  BY DEF MarkScheduled
<1> QED BY <1>1, <1>2, <1>3, BridgeStep DEF TargetSteps

\* Cancelling the call's own job preserves the invariant.
LEMMA CancelJobStep ==
  ASSUME InboxInv, NEW c \in Callers, CancelJob(c)
  PROVE  InboxInv' /\ Advances
<1>1. /\ calls[c].at = "undo" /\ GoTo(c, "failjob")
      /\ UNCHANGED <<items, claims, targets, backing, reminders, jobs, up>>
      /\ UNCHANGED faults \/ Fault
  BY DEF CancelJob
<1>2. TypeOK /\ Host[c] \in Hosts
  BY InboxAssumption DEF InboxInv
<1>3. known' \in [Hosts -> SUBSET (Items \X Nat)]
  <2>1. CASE UNCHANGED known
    BY <1>2, <2>1 DEF TypeOK
  <2>2. ASSUME NEW K \in Refreshed(Host[c]), known' = [known EXCEPT ![Host[c]] = K]
        PROVE  known' \in [Hosts -> SUBSET (Items \X Nat)]
    <3>1. K \in SUBSET (Items \X Nat)
      BY <1>2, RefreshedType
    <3> QED BY <1>2, <2>2, <3>1 DEF TypeOK
  <2> QED BY <2>1, <2>2 DEF CancelJob
<1>4. SchedulingTypes' /\ \A j \in Items : Len(reminders'[j]) = Len(reminders[j])
  BY <1>1, <1>2, <1>3 DEF TypeOK, SchedulingTypes
<1> QED BY <1>1, <1>4, BridgeStep DEF TargetSteps

\* Marking a reminder failed, or being unable to, preserves the invariant.
LEMMA MarkFailedStep ==
  ASSUME InboxInv, NEW c \in Callers, MarkFailed(c)
  PROVE  InboxInv' /\ Advances
<1> DEFINE row == [st |-> "failed", job |-> calls[c].at = "failjob"]
<1>1. /\ calls[c].at \in TargetSteps /\ GoTo(c, "report")
      /\ UNCHANGED <<items, claims, targets, backing, jobs, known, up>>
      /\ UNCHANGED faults \/ Fault
  BY DEF MarkFailed, TargetSteps
<1>2. SchedulingTypes' /\ \A j \in Items : Len(reminders'[j]) = Len(reminders[j])
  <2>1. CASE UNCHANGED reminders
    BY <1>1, <2>1 DEF InboxInv, TypeOK, SchedulingTypes
  <2>2. CASE Marked(c, row)
    <3>1. (calls[c].at = "failjob") \in BOOLEAN
      OBVIOUS
    <3>2. row \in Reminder
      BY <3>1 DEF Reminder, ReminderStatus
    <3> HIDE DEF row
    <3> QED BY <1>1, <2>2, <3>2, MarkedFacts DEF InboxInv, TypeOK, SchedulingTypes
  <2> QED BY <2>1, <2>2 DEF MarkFailed
<1> QED BY <1>1, <1>2, BridgeStep

\* Reporting the failure on the backing task preserves the invariant.
LEMMA ReportStep ==
  ASSUME InboxInv, NEW c \in Callers, Report(c)
  PROVE  InboxInv' /\ Advances
<1> DEFINE i == calls[c].item
<1>1. /\ calls[c].at = "report" /\ Answer(c, "failed")
      /\ UNCHANGED <<items, claims, targets, reminders, jobs, known, up, faults>>
  BY DEF Report, scheduling
<1>2. TypeOK /\ calls[c].at # "idle" /\ i \in Items /\ claims[i].type = "reminder"
  BY <1>1, ReminderCall DEF ReminderSteps
<1>3. /\ backing' \in [Items -> Task]
      /\ \A j \in Items \ {i} : backing'[j] = backing[j]
  <2>1. backing' = TaskUpdated(c)
    BY DEF Report
  <2> QED BY <1>1, <2>1, TaskUpdatedType DEF ReminderSteps
<1>4. Advances /\ StoresOK'
  <2>1. /\ reminders' \in [Items -> Seq(Reminder)]
        /\ \A j \in Items : Len(reminders'[j]) = Len(reminders[j]) /\ Len(reminders[j]) \in Nat
    BY <1>1, <1>2 DEF TypeOK
  <2> QED BY <1>1, <1>2, <1>3, <2>1, ReminderWrites
<1>5. TypeOK'
  BY <1>1, <1>2, <1>3, FailedCall DEF TypeOK
<1> QED BY <1>1, <1>2, <1>4, <1>5, FailedCall, Combine

\* Recording the schedule on the backing task preserves the invariant.
LEMMA NoteStep ==
  ASSUME InboxInv, NEW c \in Callers, Note(c)
  PROVE  InboxInv' /\ Advances
<1> DEFINE i == calls[c].item
<1>1. calls[c].at = "note" /\ UNCHANGED <<items, claims, targets, reminders, jobs, known, up>>
  BY DEF Note, scheduling
<1>2. /\ TypeOK /\ calls[c].at # "idle" /\ i \in Items
      /\ calls[c].type = "reminder" /\ calls[c].intent \in Intents
      /\ claims[i].type = "reminder"
  BY <1>1, ReminderCall DEF ReminderSteps
<1>3. calls[c].target \in 1..Len(reminders[i])
  BY <1>1, <1>2 DEF InboxInv, CallOK, TargetSteps
<1>4. /\ backing' \in [Items -> Task]
      /\ \A j \in Items \ {i} : backing'[j] = backing[j]
  <2>1. backing' = TaskUpdated(c)
    BY DEF Note
  <2> QED BY <1>1, <2>1, TaskUpdatedType DEF ReminderSteps
<1>5. Advances /\ StoresOK'
  <2>1. /\ reminders' \in [Items -> Seq(Reminder)]
        /\ \A j \in Items : Len(reminders'[j]) = Len(reminders[j]) /\ Len(reminders[j]) \in Nat
    BY <1>1, <1>2 DEF TypeOK
  <2> QED BY <1>1, <1>2, <1>4, <2>1, ReminderWrites
<1>6. CASE GoTo(c, "record") /\ UNCHANGED faults
  <2>1. /\ calls' \in [Callers -> Call]
        /\ calls'[c].at = "record"
        /\ calls'[c].item = calls[c].item
        /\ calls'[c].type = calls[c].type
        /\ calls'[c].intent = calls[c].intent
        /\ calls'[c].target = calls[c].target
        /\ \A d \in Callers \ {c} : calls'[d] = calls[d]
    BY <1>2, <1>6, GoToFacts DEF BusySteps
  <2>2. TypeOK'
    BY <1>1, <1>2, <1>4, <1>6, <2>1 DEF TypeOK
  <2>3. CallOK(c)' /\ AnswerHolds(c)'
    BY <1>1, <1>2, <1>3, <2>1
       DEF CallOK, AnswerHolds, ReminderSteps, TargetSteps, BusySteps, CreateSteps,
           BridgeSteps, ResolvedType, ExternalKinds
  <2> QED BY <1>5, <2>1, <2>2, <2>3, Combine
<1>7. CASE Answer(c, "failed") /\ (Fault \/ UNCHANGED faults)
  <2>1. TypeOK'
    BY <1>1, <1>2, <1>4, <1>7, FailedCall, FaultType DEF TypeOK
  <2> QED BY <1>2, <1>5, <1>7, <2>1, FailedCall, Combine
<1> QED BY <1>6, <1>7 DEF Note

\* A refused call answers with what it has just read from the claim.
LEMMA RefusedCall ==
  ASSUME InboxInv, NEW c \in Callers, calls[c].at \in {"record", "complete"},
         UNCHANGED <<items, claims>>, Answer(c, Refused(c))
  PROVE  /\ calls' \in [Callers -> Call]
         /\ CallOK(c)' /\ AnswerHolds(c)'
         /\ \A d \in Callers \ {c} : calls'[d] = calls[d]
<1>1. TypeOK /\ CallOK(c)
  BY DEF InboxInv
<1>2. /\ calls[c].item \in Items /\ calls[c].type \in ResolvedType /\ calls[c].intent \in Intents
      /\ claims[calls[c].item].type = calls[c].type
  BY <1>1 DEF CallOK, BusySteps
<1>3. PICK answer \in {"already_resolved", "failed"} :
        /\ Answer(c, answer)
        /\ answer = "already_resolved" =>
             \/ claims[calls[c].item].type # calls[c].type
             \/ claims[calls[c].item].state = "completed"
  BY DEF Refused
<1>4. /\ calls' \in [Callers -> Call]
      /\ calls'[c].at = answer
      /\ calls'[c].item = calls[c].item
      /\ calls'[c].type = calls[c].type
      /\ \A d \in Callers \ {c} : calls'[d] = calls[d]
  BY <1>1, <1>3, AnswerFacts DEF Answers
<1>5. calls[c].type # "none"
  BY <1>2 DEF ResolvedType, ExternalKinds, ReservedKinds
<1>6. CallOK(c)'
  BY <1>2, <1>3, <1>4, <1>5
     DEF CallOK, ReminderSteps, TargetSteps, BusySteps, CreateSteps, BridgeSteps
<1>7. AnswerHolds(c)'
  BY <1>3, <1>4 DEF AnswerHolds
<1> QED BY <1>4, <1>6, <1>7

\* record_target_created preserves the invariant: what it records exists.
LEMMA RecordTargetStep ==
  ASSUME InboxInv, NEW c \in Callers, RecordTarget(c)
  PROVE  InboxInv' /\ Advances
<1> DEFINE i == calls[c].item
           k == calls[c].target
<1>1. calls[c].at = "record"
      /\ UNCHANGED <<items, targets, backing, reminders, jobs, known, up, faults>>
  BY DEF RecordTarget, scheduling
<1>2. TypeOK /\ CallOK(c) /\ StoresOK
  BY DEF InboxInv
<1>3. /\ i \in Items /\ calls[c].type \in ResolvedType /\ calls[c].intent \in Intents
      /\ claims[i].type = calls[c].type
      /\ \/ /\ calls[c].type \in ReservedKinds /\ k = Reserved
            /\ calls[c].type \in targets[i]
         \/ calls[c].type = "reminder" /\ k \in 1..Len(reminders[i])
  BY <1>1, <1>2 DEF CallOK, BusySteps
<1>4. CASE Recordable(i, calls[c].type, k) /\ claims' = [claims EXCEPT ![i] = Recorded(i, k)]
           /\ GoTo(c, "complete")
  <2> DEFINE row == Recorded(i, k)
  <2>1. claims[i] \in ClaimRow /\ k \in TargetId /\ Len(reminders[i]) \in Nat
    BY <1>2, <1>3 DEF TypeOK, Call
  <2>2. claims[i].state = "none" <=> claims[i].type = "none"
    BY <1>2, <1>3 DEF StoresOK, ClaimsWellFormed
  <2>3. /\ row.type = claims[i].type
        /\ row.state \in {"target_created", "completed"}
        /\ row.state = "completed" <=> claims[i].state = "completed"
        /\ claims[i].state \in {"target_created", "completed"} => row = claims[i]
        /\ row.target = k
        /\ row \in ClaimRow
    BY <1>3, <1>4, <2>1, <2>2
       DEF Recorded, Recordable, ClaimRow, ClaimState, ResolvedType, ExternalKinds, ReservedKinds
  <2> HIDE DEF row
  <2>4. /\ claims' \in [Items -> ClaimRow] /\ claims'[i] = row
        /\ \A j \in Items \ {i} : claims'[j] = claims[j]
    BY <1>2, <1>3, <1>4, <2>3 DEF TypeOK, row
  <2>5. Advances
    <3>1. \A j \in Items : Len(reminders[j]) \in Nat
      BY <1>2 DEF TypeOK
    <3> QED BY <1>1, <2>3, <2>4, <3>1 DEF Advances
  <2>6. ClaimsWellFormed'
    BY <1>2, <1>3, <2>2, <2>3, <2>4
       DEF StoresOK, ClaimsWellFormed, ResolvedType, ExternalKinds, ReservedKinds
  <2>7. NoOrphanTarget'
    BY <1>1, <1>2, <2>3, <2>4 DEF StoresOK, NoOrphanTarget
  <2>8. ResolutionCoherent'
    <3>1. /\ items'[i].status # "pending" <=> claims'[i].state = "completed"
          /\ items'[i].status # "pending" => claims'[i] = claims[i]
      BY <1>1, <1>2, <1>3, <2>3, <2>4 DEF StoresOK, ResolutionCoherent
    <3>2. /\ claims'[i].type \in ReservedKinds => claims'[i].type \in targets'[i]
          /\ claims'[i].type = "reminder" => claims'[i].target \in 1..Len(reminders'[i])
      BY <1>1, <1>3, <2>3, <2>4 DEF ReservedKinds
    <3> QED BY <1>1, <1>2, <1>3, <2>4, <3>1, <3>2 DEF StoresOK, ResolutionCoherent, FinalStatus
  <2>9. /\ calls' \in [Callers -> Call]
        /\ calls'[c].at = "complete"
        /\ calls'[c].item = calls[c].item
        /\ calls'[c].type = calls[c].type
        /\ calls'[c].intent = calls[c].intent
        /\ \A d \in Callers \ {c} : calls'[d] = calls[d]
    BY <1>2, <1>4, GoToFacts DEF BusySteps
  <2>10. TypeOK'
    BY <1>1, <1>2, <2>4, <2>9 DEF TypeOK
  <2>11. CallOK(c)' /\ AnswerHolds(c)'
    BY <1>3, <2>3, <2>4, <2>9
       DEF CallOK, AnswerHolds, ReminderSteps, TargetSteps, BusySteps, CreateSteps,
           BridgeSteps
  <2> QED BY <2>5, <2>6, <2>7, <2>8, <2>9, <2>10, <2>11, Combine DEF StoresOK
<1>5. CASE Answer(c, Refused(c)) /\ UNCHANGED claims
  <2>1. Advances /\ StoresOK'
    BY <1>1, <1>5, StoresUnchanged DEF stores
  <2>2. TypeOK'
    BY <1>1, <1>2, <1>5, RefusedCall DEF TypeOK
  <2> QED BY <1>1, <1>5, <2>1, <2>2, RefusedCall, Combine
<1> QED BY <1>4, <1>5 DEF RecordTarget

\* complete_resolution preserves the invariant: item and claim become final together.
LEMMA CompleteStep ==
  ASSUME InboxInv, NEW c \in Callers, Complete(c)
  PROVE  InboxInv' /\ Advances
<1> DEFINE i == calls[c].item
           type == calls[c].type
<1>1. calls[c].at = "complete"
      /\ UNCHANGED <<targets, backing, reminders, jobs, known, up>>
  BY DEF Complete, scheduling
<1>2. TypeOK /\ CallOK(c) /\ StoresOK
  BY DEF InboxInv
<1>3. /\ i \in Items /\ type \in ResolvedType /\ calls[c].intent \in Intents
      /\ claims[i].type = type
      /\ claims[i] \in ClaimRow /\ items[i] \in ItemRow
  BY <1>1, <1>2 DEF CallOK, ReminderSteps, TargetSteps, BusySteps, TypeOK
<1>4. CASE /\ Completable(i, type)
           /\ items' = [items EXCEPT ![i] = CompletedItem(i, type)]
           /\ claims' = [claims EXCEPT ![i] = CompletedClaim(i)]
           /\ \/ Answer(c, "resolved") /\ UNCHANGED faults
              \/ Fault /\ Answer(c, "failed")
  <2> DEFINE item == CompletedItem(i, type)
             claim == CompletedClaim(i)
             final == [status |-> FinalStatus(type), type |-> type, target |-> claims[i].target]
  <2>1. FinalStatus(type) \in {"resolved", "dismissed"}
    BY DEF FinalStatus
  <2>2. final \in ItemRow /\ final.status # "pending"
    BY <1>3, <2>1 DEF ItemRow, ClaimRow, InboxStatus
  <2>3. item = final /\ (items[i].status # "pending" => items[i] = final)
    BY <1>4 DEF CompletedItem, Completable
  <2>4. claim \in ClaimRow
    BY <1>3 DEF CompletedClaim, ClaimRow, ClaimState
  <2>5. /\ claim.state = "completed" /\ claim.type = type /\ claim.target = claims[i].target
    BY <1>3 DEF CompletedClaim
  <2> HIDE DEF item, claim
  <2>6. /\ items' \in [Items -> ItemRow] /\ items'[i] = final
        /\ \A j \in Items \ {i} : items'[j] = items[j]
    BY <1>2, <1>3, <1>4, <2>2, <2>3 DEF TypeOK, item
  <2>7. /\ claims' \in [Items -> ClaimRow] /\ claims'[i] = claim
        /\ \A j \in Items \ {i} : claims'[j] = claims[j]
    BY <1>2, <1>3, <1>4, <2>4 DEF TypeOK, claim
  <2>8. /\ claims[i].state = "none" <=> claims[i].type = "none"
        /\ claims[i].type \in ReservedKinds => claims[i].target = Reserved
    BY <1>2, <1>3 DEF StoresOK, ClaimsWellFormed
  <2>9. Advances
    <3>1. \A j \in Items : Len(reminders[j]) \in Nat
      BY <1>2 DEF TypeOK
    <3>2. items[i].status # "pending" => items'[i] = items[i]
      BY <2>3, <2>6
    <3> QED BY <1>1, <1>3, <2>5, <2>6, <2>7, <3>1, <3>2 DEF Advances
  <2>10. ClaimsWellFormed'
    BY <1>2, <1>3, <2>5, <2>7, <2>8
       DEF StoresOK, ClaimsWellFormed, ResolvedType, ExternalKinds, ReservedKinds
  <2>11. NoOrphanTarget'
    BY <1>1, <1>2, <1>3, <2>5, <2>7 DEF StoresOK, NoOrphanTarget
  <2>12. ResolutionCoherent'
    <3>1. type \in ExternalKinds => claims[i].state \in {"target_created", "completed"}
      BY <1>4 DEF Completable
    <3>2. /\ type \in ReservedKinds => type \in targets'[i]
          /\ type = "reminder" => claim.target \in 1..Len(reminders'[i])
      BY <1>1, <1>2, <1>3, <2>5, <3>1 DEF StoresOK, ResolutionCoherent, ExternalKinds
    <3>3. /\ items'[i].status # "pending" /\ claims'[i].state = "completed"
          /\ items'[i] = [status |-> FinalStatus(claims'[i].type), type |-> claims'[i].type,
                          target |-> claims'[i].target]
      BY <2>2, <2>5, <2>6, <2>7
    <3> DEFINE Coherent(j) ==
          /\ items'[j].status # "pending" <=> claims'[j].state = "completed"
          /\ items'[j].status # "pending" =>
               items'[j] = [status |-> FinalStatus(claims'[j].type), type |-> claims'[j].type,
                            target |-> claims'[j].target]
          /\ claims'[j].state \in {"target_created", "completed"} =>
               /\ claims'[j].type \in ReservedKinds => claims'[j].type \in targets'[j]
               /\ claims'[j].type = "reminder" => claims'[j].target \in 1..Len(reminders'[j])
    <3>4. Coherent(i)
      BY <2>5, <2>7, <3>2, <3>3
    <3>5. ASSUME NEW j \in Items, j # i PROVE Coherent(j)
      BY <1>1, <1>2, <2>6, <2>7, <3>5 DEF StoresOK, ResolutionCoherent
    <3>6. \A j \in Items : Coherent(j)
      BY <3>4, <3>5
    <3> QED BY <3>6 DEF ResolutionCoherent, FinalStatus
  <2>13. CASE Answer(c, "resolved") /\ UNCHANGED faults
    <3>1. /\ calls' \in [Callers -> Call]
          /\ calls'[c].at = "resolved"
          /\ calls'[c].item = calls[c].item
          /\ calls'[c].type = calls[c].type
          /\ \A d \in Callers \ {c} : calls'[d] = calls[d]
      BY <1>2, <2>13, AnswerFacts DEF Answers
    <3>2. TypeOK'
      BY <1>1, <1>2, <2>6, <2>7, <2>13, <3>1 DEF TypeOK
    <3>3. CallOK(c)'
      BY <1>3, <3>1 DEF CallOK, ReminderSteps, TargetSteps, BusySteps, CreateSteps, BridgeSteps
    <3>4. items'[i].type = type /\ items'[i].status = FinalStatus(type)
      BY <2>6
    <3>5. AnswerHolds(c)'
      BY <3>1, <3>4 DEF AnswerHolds, FinalStatus
    <3> QED BY <2>9, <2>10, <2>11, <2>12, <3>1, <3>2, <3>3, <3>5, Combine DEF StoresOK
  <2>14. CASE Fault /\ Answer(c, "failed")
    <3>1. TypeOK'
      BY <1>1, <1>2, <2>6, <2>7, <2>14, FailedCall, FaultType DEF TypeOK
    <3> QED BY <1>1, <2>9, <2>10, <2>11, <2>12, <2>14, <3>1, FailedCall, Combine DEF StoresOK
  <2> QED BY <1>4, <2>13, <2>14
<1>5. CASE Answer(c, Refused(c)) /\ UNCHANGED <<items, claims, faults>>
  <2>1. Advances /\ StoresOK'
    BY <1>1, <1>5, StoresUnchanged DEF stores
  <2>2. TypeOK'
    BY <1>1, <1>2, <1>5, RefusedCall DEF TypeOK
  <2> QED BY <1>1, <1>5, <2>1, <2>2, RefusedCall, Combine
<1> QED BY <1>4, <1>5 DEF Complete

\* A crash forgets calls and touches no store.
LEMMA CrashStep ==
  ASSUME InboxInv, NEW h \in Hosts, Crash(h)
  PROVE  InboxInv' /\ Advances
<1>1. /\ TypeOK /\ Fault /\ UNCHANGED stores /\ up' \subseteq Hosts
      /\ known' \in [Hosts -> SUBSET (Items \X Nat)]
  BY DEF InboxInv, Crash, TypeOK
<1>2. IdleCall \in Call
  BY DEF IdleCall, Call, TargetId
<1>3. calls' \in [Callers -> Call]
      /\ \A c \in Callers : calls'[c] = calls[c] \/ calls'[c] = IdleCall
  BY <1>1, <1>2 DEF Crash, TypeOK
<1>4. TypeOK'
  BY <1>1, <1>3, FaultType DEF TypeOK, stores
<1>5. Advances /\ StoresOK'
  BY <1>1, StoresUnchanged
<1>6. ASSUME NEW c \in Callers PROVE CallOK(c)' /\ AnswerHolds(c)'
  <2>1. CASE calls'[c] = calls[c]
    BY <1>4, <1>5, <2>1, Frame
  <2>2. CASE calls'[c] = IdleCall
    BY <2>2
       DEF IdleCall, CallOK, AnswerHolds, ReminderSteps, TargetSteps, BusySteps,
           CreateSteps, BridgeSteps
  <2> QED BY <1>3, <2>1, <2>2
<1> QED BY <1>4, <1>5, <1>6 DEF InboxInv, AnswersHold

\* An orderly stop touches no store.
LEMMA StopStep ==
  ASSUME InboxInv, NEW h \in Hosts, Stop(h)
  PROVE  InboxInv' /\ Advances
<1>1. TypeOK' /\ UNCHANGED <<stores, calls>>
  BY DEF InboxInv, Stop, TypeOK, stores
<1>2. Advances /\ StoresOK'
  BY <1>1, StoresUnchanged
<1>3. ASSUME NEW c \in Callers PROVE CallOK(c)' /\ AnswerHolds(c)'
  BY <1>1, <1>2, Frame
<1> QED BY <1>1, <1>2, <1>3 DEF InboxInv, AnswersHold

\* A tick changes one registry and nothing else.
LEMMA TickStep ==
  ASSUME InboxInv, NEW h \in Hosts, Tick(h)
  PROVE  InboxInv' /\ Advances
<1>1. TypeOK /\ UNCHANGED <<stores, calls, up, faults>>
  BY DEF InboxInv, Tick
<1>2. PICK K \in Refreshed(h) : known' = [known EXCEPT ![h] = K]
  BY DEF Tick
<1>3. K \in SUBSET (Items \X Nat)
  BY <1>1, RefreshedType
<1>4. TypeOK'
  BY <1>1, <1>2, <1>3 DEF TypeOK, stores
<1>5. Advances /\ StoresOK'
  BY <1>1, StoresUnchanged
<1>6. ASSUME NEW c \in Callers PROVE CallOK(c)' /\ AnswerHolds(c)'
  BY <1>1, <1>4, <1>5, Frame
<1> QED BY <1>4, <1>5, <1>6 DEF InboxInv, AnswersHold

\* A start gives reminders their jobs and touches nothing else.
LEMMA StartStep ==
  ASSUME InboxInv, NEW h \in Hosts, Start(h)
  PROVE  InboxInv' /\ Advances
<1>1. /\ TypeOK /\ Reconcile(h, Names) /\ up' = up \cup {h}
      /\ UNCHANGED <<items, claims, targets, backing, calls>>
  BY DEF InboxInv, Start
<1>2. Names \in SUBSET (Items \X Nat)
  BY <1>1, NamesType
<1>3. /\ SchedulingTypes' /\ faults' \in 0..MaxFaults
      /\ \A j \in Items : Len(reminders'[j]) = Len(reminders[j])
  BY <1>1, <1>2, ReconcileFacts
<1>4. \A j \in Items : Len(reminders[j]) \in Nat
  BY <1>1 DEF TypeOK
<1>5. TypeOK'
  BY <1>1, <1>3 DEF TypeOK, SchedulingTypes
<1>6. Advances
  BY <1>1, <1>3, <1>4 DEF Advances
<1>7. \A j \in Items : reminders'[j] # <<>> => reminders[j] # <<>>
  <2>1. \A j \in Items : reminders[j] \in Seq(Reminder) /\ reminders'[j] \in Seq(Reminder)
    BY <1>1, <1>3 DEF TypeOK, SchedulingTypes
  <2> QED BY <1>3, <2>1, EmptySeq
<1>8. StoresOK'
  BY <1>1, <1>3, <1>7
     DEF InboxInv, StoresOK, ClaimsWellFormed, NoOrphanTarget, ResolutionCoherent, FinalStatus
<1>9. ASSUME NEW c \in Callers PROVE CallOK(c)' /\ AnswerHolds(c)'
  BY <1>1, <1>5, <1>6, Frame
<1> QED BY <1>5, <1>6, <1>8, <1>9 DEF InboxInv, AnswersHold

\* Stuttering preserves the invariant.
LEMMA StutterStep ==
  ASSUME InboxInv, UNCHANGED vars
  PROVE  InboxInv' /\ Advances
<1>1. UNCHANGED <<stores, calls>> /\ TypeOK'
  BY DEF vars, stores, InboxInv, TypeOK
<1>2. Advances /\ StoresOK'
  BY <1>1, StoresUnchanged
<1>3. ASSUME NEW c \in Callers PROVE CallOK(c)' /\ AnswerHolds(c)'
  BY <1>1, <1>2, Frame
<1> QED BY <1>1, <1>2, <1>3 DEF InboxInv, AnswersHold

-----------------------------------------------------------------------------
(* The theorems.                                                           *)

\* Every step preserves the invariant and only advances the stores.
LEMMA NextStep == InboxInv /\ [Next]_vars => InboxInv' /\ Advances
<1> SUFFICES ASSUME InboxInv, [Next]_vars PROVE InboxInv' /\ Advances
  OBVIOUS
<1>1. ASSUME NEW c \in Callers, Step(c) PROVE InboxInv' /\ Advances
  BY <1>1, GetStep, ReadStep, CreateStep, CreateTaskStep, MatchStep, InsertStep, SaveJobStep,
     MarkScheduledStep, CancelJobStep, MarkFailedStep, ReportStep, NoteStep, RecordTargetStep,
     CompleteStep DEF Step
<1>2. CASE Next
  BY <1>1, <1>2, ClaimStep, StepFailsStep, TickStep, CrashStep, StopStep, StartStep DEF Next
<1>3. CASE UNCHANGED vars
  BY <1>3, StutterStep
<1> QED BY <1>2, <1>3

\* The inductive invariant behind the theorems that follow.
THEOREM Invariance == Spec => []InboxInv
BY InitInv, NextStep, PTL DEF Spec

\* The stores and the calls of _resolve always have their types.
THEOREM InboxTypeCorrect == Spec => []TypeOK
<1>1. InboxInv => TypeOK
  BY DEF InboxInv
<1> QED BY Invariance, <1>1, PTL

\* Only the type the durable claim names is ever created for an item, item and
\* claim always agree, and the answers of _resolve stay true, with any number
\* of processes and callers crashing and retrying.
THEOREM ResolutionCorrect == Spec => [](NoOrphanTarget /\ ResolutionCoherent /\ AnswersHold)
<1>1. InboxInv => NoOrphanTarget /\ ResolutionCoherent /\ AnswersHold
  BY DEF InboxInv, StoresOK
<1> QED BY Invariance, <1>1, PTL

\* A claim keeps its type, moves only forward and keeps the target it has
\* recorded; a final item is never written again.
THEOREM ClaimsOnlyAdvance == Spec => ClaimsAdvance
<1> DEFINE A(i) == /\ ClaimRank(claims[i].state) <= ClaimRank(claims[i].state')
                   /\ claims[i].state # "none" => claims[i].type' = claims[i].type
                   /\ claims[i].state \in {"target_created", "completed"} =>
                        claims[i].target' = claims[i].target
                   /\ items[i].status # "pending" => items[i]' = items[i]
<1>1. InboxInv /\ InboxInv' /\ Advances => \A i \in Items : A(i)
  <2> SUFFICES ASSUME InboxInv, InboxInv', Advances, NEW i \in Items PROVE A(i)
    OBVIOUS
  <2>1. claims[i] \in ClaimRow /\ claims'[i] \in ClaimRow
    BY DEF InboxInv, TypeOK
  <2>2. claims[i].state \in ClaimState /\ claims'[i].state \in ClaimState
    BY <2>1 DEF ClaimRow
  <2>3. claims[i].state # "none" => claims[i].type # "none"
    BY DEF InboxInv, StoresOK, ClaimsWellFormed
  <2>4. ClaimRank(claims[i].state) <= ClaimRank(claims'[i].state)
    BY <2>2 DEF Advances, ClaimRank, ClaimState
  <2> QED BY <2>3, <2>4 DEF Advances
<1>2. InboxInv /\ InboxInv' /\ [Next]_vars => [\A i \in Items : A(i)]_vars
  BY <1>1, NextStep
<1> QED BY Invariance, <1>2, PTL DEF Spec, ClaimsAdvance

-----------------------------------------------------------------------------
(* The lock of an item                                                     *)

\* The asyncio lock at work: two calls of one process are never inside the saga of
\* the same item.
LockHeld ==
  \A c, d \in Callers :
    c # d /\ Host[c] = Host[d] /\ Busy(c) /\ Busy(d) => calls[c].item # calls[d].item

\* A call that is about to insert a reminder has just seen that there is none.
NothingYet == \A c \in Callers : calls[c].at = "insert" => reminders[calls[c].item] = <<>>

\* All callers share one process, and with it the locks.
OneProcess == \A c, d \in Callers : Host[c] = Host[d]

\* A step of a call stays in its saga: the other calls are as they were, and the item
\* is the same.
LEMMA StepFrame ==
  ASSUME InboxInv, NEW c \in Callers, Step(c) \/ StepFails(c)
  PROVE  /\ Busy(c) /\ calls'[c].item = calls[c].item
         /\ \A d \in Callers \ {c} : calls'[d] = calls[d]
<1>1. TypeOK /\ calls[c].target \in TargetId /\ calls[c].rev \in Nat
  BY DEF InboxInv, TypeOK, Call
<1>2. ASSUME NEW at, NEW target, NEW rev, Continue(c, at, target, rev)
      PROVE  /\ calls'[c].item = calls[c].item
             /\ \A d \in Callers \ {c} : calls'[d] = calls[d]
  BY <1>1, <1>2 DEF Continue, TypeOK
<1>3. ASSUME NEW at, GoTo(c, at) \/ Answer(c, at)
      PROVE  /\ calls'[c].item = calls[c].item
             /\ \A d \in Callers \ {c} : calls'[d] = calls[d]
  <2>1. CASE GoTo(c, at)
    BY <1>2, <2>1 DEF GoTo
  <2>2. CASE Answer(c, at)
    BY <1>1, <2>2 DEF Answer, TypeOK
  <2> QED BY <1>3, <2>1, <2>2
<1>4. CASE StepFails(c)
  BY <1>3, <1>4 DEF StepFails
<1>5. CASE Get(c) \/ Read(c) \/ Create(c)
  BY <1>2, <1>3, <1>5 DEF Get, Read, Create, Busy, BusySteps, CreateSteps, BridgeSteps
<1>6. CASE CreateTask(c) \/ Match(c)
  BY <1>2, <1>3, <1>6 DEF CreateTask, Match, Busy, BusySteps, CreateSteps, BridgeSteps
<1>7. CASE Insert(c) \/ SaveJob(c) \/ MarkScheduled(c)
  BY <1>2, <1>3, <1>7
     DEF Insert, SaveJob, MarkScheduled, Busy, BusySteps, CreateSteps, BridgeSteps
<1>7a. CASE CancelJob(c) \/ MarkFailed(c) \/ Report(c) \/ Note(c)
  BY <1>2, <1>3, <1>7a
     DEF CancelJob, MarkFailed, Report, Note, Busy, BusySteps, CreateSteps, BridgeSteps
<1>8. CASE RecordTarget(c) \/ Complete(c)
  BY <1>2, <1>3, <1>8 DEF RecordTarget, Complete, Busy, BusySteps, CreateSteps, BridgeSteps
<1> QED BY <1>4, <1>5, <1>6, <1>7, <1>7a, <1>8 DEF Step

\* A process that stops or starts leaves its calls where they are, or drops them.
LEMMA HostFrame ==
  ASSUME InboxInv, NEW h \in Hosts, Tick(h) \/ Crash(h) \/ Stop(h) \/ Start(h)
  PROVE  \A c \in Callers : calls'[c] = calls[c] \/ calls'[c] = IdleCall
<1>1. CASE Crash(h)
  BY <1>1 DEF Crash
<1>2. CASE Tick(h) \/ Stop(h) \/ Start(h)
  BY <1>2 DEF Tick, Stop, Start
<1> QED BY <1>1, <1>2

\* An idle call is in no saga.
LEMMA IdleFacts == IdleCall.at \notin BusySteps /\ IdleCall.at # "insert"
BY DEF IdleCall, BusySteps, CreateSteps, BridgeSteps

\* Nobody enters the saga of an item that a call of the same process is in.
LEMMA LockStep == InboxInv /\ LockHeld /\ [Next]_vars => LockHeld'
<1> SUFFICES ASSUME InboxInv, LockHeld, [Next]_vars,
                    NEW c \in Callers, NEW d \in Callers,
                    c # d, Host[c] = Host[d], Busy(c)', Busy(d)'
             PROVE  calls'[c].item # calls'[d].item
  BY DEF LockHeld
<1> DEFINE Same(e) == Busy(e) /\ calls'[e].item = calls[e].item
<1>1. ASSUME Same(c), Same(d) PROVE calls'[c].item # calls'[d].item
  BY <1>1 DEF LockHeld
<1>2. ASSUME NEW e \in Callers, Busy(e)', calls'[e] = calls[e] PROVE Same(e)
  BY <1>2 DEF Busy
<1>3. ASSUME NEW e \in Callers, Step(e) \/ StepFails(e)
      PROVE  calls'[c].item # calls'[d].item
  <2>1. Same(e) /\ \A f \in Callers \ {e} : calls'[f] = calls[f]
    BY <1>3, StepFrame
  <2> HIDE DEF Same
  <2>2. Same(c) /\ Same(d)
    BY <1>2, <2>1
  <2> QED BY <1>1, <2>2
<1>4. ASSUME NEW e \in Callers, NEW i \in Items, NEW type \in Kinds, NEW intent \in Intents,
             Claim(e, i, type, intent)
      PROVE  calls'[c].item # calls'[d].item
  <2>1. calls'[e].item = i /\ \A f \in Callers \ {e} : calls'[f] = calls[f]
    BY <1>4 DEF Claim, InboxInv, TypeOK
  <2>2. ~\E f \in Callers \ {e} : Host[f] = Host[e] /\ Busy(f) /\ calls[f].item = i
    BY <1>4 DEF Claim, Locked
  <2>3. CASE e # c /\ e # d
    <3>1. Same(c) /\ Same(d)
      BY <1>2, <2>1, <2>3
    <3> QED BY <1>1, <3>1
  <2>4. CASE e = c
    <3>1. Same(d) /\ calls'[d] = calls[d]
      BY <1>2, <2>1, <2>4
    <3> QED BY <2>1, <2>2, <2>4, <3>1
  <2>5. CASE e = d
    <3>1. Same(c) /\ calls'[c] = calls[c]
      BY <1>2, <2>1, <2>5
    <3> QED BY <2>1, <2>2, <2>5, <3>1
  <2> QED BY <2>3, <2>4, <2>5
<1>5. ASSUME \A e \in Callers : calls'[e] = calls[e] \/ calls'[e] = IdleCall
      PROVE  calls'[c].item # calls'[d].item
  <2>1. calls'[c] = calls[c] /\ calls'[d] = calls[d]
    BY <1>5, IdleFacts DEF Busy
  <2> QED BY <1>1, <1>2, <2>1
<1>6. ASSUME NEW h \in Hosts, Tick(h) \/ Crash(h) \/ Stop(h) \/ Start(h)
      PROVE  calls'[c].item # calls'[d].item
  BY <1>5, <1>6, HostFrame
<1>7. CASE UNCHANGED vars
  BY <1>5, <1>7 DEF vars
<1> QED BY <1>3, <1>4, <1>6, <1>7 DEF Next

\* Only Insert adds a reminder, and only one; the other steps keep their number.
LEMMA ReminderCounts ==
  ASSUME InboxInv, [Next]_vars
  PROVE  \/ \A i \in Items : Len(reminders'[i]) = Len(reminders[i])
         \/ \E c \in Callers :
              /\ Insert(c) /\ calls'[c].at # "insert"
              /\ Len(reminders'[calls[c].item]) = Len(reminders[calls[c].item]) + 1
              /\ \A i \in Items \ {calls[c].item} : reminders'[i] = reminders[i]
<1> DEFINE Kept == \A i \in Items : Len(reminders'[i]) = Len(reminders[i])
           Grown == \E c \in Callers :
              /\ Insert(c) /\ calls'[c].at # "insert"
              /\ Len(reminders'[calls[c].item]) = Len(reminders[calls[c].item]) + 1
              /\ \A i \in Items \ {calls[c].item} : reminders'[i] = reminders[i]
<1>1. TypeOK /\ \A i \in Items : reminders[i] \in Seq(Reminder)
  BY DEF InboxInv, TypeOK
<1>2. ASSUME UNCHANGED reminders PROVE Kept
  BY <1>2
<1>3. ASSUME NEW c \in Callers, Insert(c) PROVE Kept \/ Grown
  <2>1. CASE reminders' = reminders
    BY <1>2, <2>1
  <2>2. CASE /\ reminders' = [reminders EXCEPT ![calls[c].item] = Append(@, NewReminder)]
             /\ Continue(c, "job", Len(reminders[calls[c].item]) + 1, calls[c].rev)
    <3> DEFINE i == calls[c].item
    <3>1. i \in Items /\ reminders[i] \in Seq(Reminder)
      BY <1>3, <1>1, ReminderCall DEF Insert, ReminderSteps, BridgeSteps
    <3>2. /\ reminders'[i] = Append(reminders[i], NewReminder)
          /\ \A j \in Items \ {i} : reminders'[j] = reminders[j]
      BY <1>1, <2>2, <3>1 DEF TypeOK
    <3>3. NewReminder \in Reminder
      BY DEF NewReminder, Reminder, ReminderStatus
    <3>4. Len(reminders'[i]) = Len(reminders[i]) + 1
      BY <3>1, <3>2, <3>3
    <3>5. calls'[c].at = "job"
      BY <1>1, <2>2 DEF Continue, TypeOK
    <3> QED BY <1>3, <3>2, <3>4, <3>5
  <2> QED BY <1>3, <2>1, <2>2 DEF Insert
<1>4. ASSUME NEW c \in Callers, MarkScheduled(c) \/ MarkFailed(c) PROVE Kept
  <2>1. CASE reminders' = reminders
    BY <1>2, <2>1
  <2>2. ASSUME NEW row, Marked(c, row) PROVE Kept
    <3>1. ASSUME NEW q \in Seq(Reminder), NEW k PROVE Len([q EXCEPT ![k] = row]) = Len(q)
      OBVIOUS
    <3> QED BY <1>1, <2>2, <3>1 DEF TypeOK, Marked
  <2> QED BY <1>4, <2>1, <2>2 DEF MarkScheduled, MarkFailed
<1>5. ASSUME NEW h \in Hosts, NEW K \in SUBSET (Items \X Nat), Reconcile(h, K) PROVE Kept
  BY <1>1, <1>5, ReconcileFacts
<1>6. ASSUME NEW c \in Callers, Match(c) PROVE Kept
  <2>1. UNCHANGED reminders \/ Reconcile(Host[c], known[Host[c]])
    BY <1>6 DEF Match, scheduling
  <2>2. Host[c] \in Hosts /\ known[Host[c]] \in SUBSET (Items \X Nat)
    BY <1>1, InboxAssumption DEF TypeOK
  <2> QED BY <1>2, <1>5, <2>1, <2>2
<1>7. ASSUME NEW h \in Hosts, Start(h) PROVE Kept
  BY <1>1, <1>5, <1>7, NamesType DEF Start
<1> HIDE DEF Kept, Grown
<1>8. ASSUME NEW c \in Callers, Step(c) \/ StepFails(c) PROVE Kept \/ Grown
  BY <1>2, <1>3, <1>4, <1>6, <1>8
     DEF Step, StepFails, Get, Read, Create, CreateTask, SaveJob, CancelJob, Report, Note,
         RecordTarget, Complete, stores, scheduling
<1>9. ASSUME NEW h \in Hosts, Tick(h) \/ Crash(h) \/ Stop(h) PROVE Kept
  BY <1>2, <1>9 DEF Tick, Crash, Stop, stores
<1>10. ASSUME NEW c \in Callers, NEW i \in Items, NEW type \in Kinds, NEW intent \in Intents,
              Claim(c, i, type, intent)
       PROVE  Kept
  BY <1>2, <1>10 DEF Claim, scheduling
<1>11. ASSUME UNCHANGED vars PROVE Kept
  BY <1>2, <1>11 DEF vars
<1>12. Kept \/ Grown
  <2>1. CASE UNCHANGED vars
    BY <1>11, <2>1
  <2>2. CASE Next
    BY <1>7, <1>8, <1>9, <1>10, <2>2 DEF Next
  <2> QED BY <2>1, <2>2
<1> QED BY <1>12 DEF Kept, Grown

\* With one lock per item, a reminder is only inserted where there is none.
LEMMA FirstStep ==
  ASSUME OneProcess
  PROVE  InboxInv /\ LockHeld /\ NothingYet /\ OneReminder /\ [Next]_vars
           => NothingYet' /\ OneReminder'
<1> SUFFICES ASSUME InboxInv, LockHeld, NothingYet, OneReminder, [Next]_vars
             PROVE  NothingYet' /\ OneReminder'
  OBVIOUS
<1>1. /\ TypeOK /\ TypeOK'
      /\ \A i \in Items : /\ reminders[i] \in Seq(Reminder) /\ Len(reminders[i]) \in Nat
                          /\ reminders'[i] \in Seq(Reminder)
  <2>1. TypeOK /\ TypeOK'
    BY NextStep DEF InboxInv
  <2> QED BY <2>1 DEF TypeOK
\* Who comes to the insertion in this step has seen an empty list.
<1>2. ASSUME NEW c \in Callers, calls'[c].at = "insert"
      PROVE  /\ calls'[c].item = calls[c].item /\ calls[c].item \in Items /\ Busy(c)
             /\ reminders[calls[c].item] = <<>>
  <2>1. CASE calls'[c] = calls[c]
    <3>1. calls[c].at = "insert" /\ calls[c].item \in Items /\ Busy(c)
      BY <1>2, <2>1, ReminderCall DEF Busy, ReminderSteps, BusySteps, CreateSteps, BridgeSteps
    <3> QED BY <2>1, <3>1 DEF NothingYet
  <2>2. CASE Step(c) \/ StepFails(c)
    <3>1. calls'[c].item = calls[c].item /\ Busy(c)
      BY <2>2, StepFrame
    <3>2. ASSUME NEW at, NEW target, NEW rev, Continue(c, at, target, rev)
          PROVE  calls'[c].at = at
      BY <1>1, <3>2 DEF Continue, TypeOK
    <3>3. ASSUME NEW at, GoTo(c, at) \/ Answer(c, at) PROVE calls'[c].at = at
      BY <1>1, <3>2, <3>3 DEF GoTo, Answer, TypeOK
    <3>4. ASSUME NEW answer \in Answers PROVE ~Answer(c, answer)
      BY <1>2, <3>3, <3>4 DEF Answers
    <3>5. ~StepFails(c)
      BY <3>4 DEF StepFails, Answers
    <3>6. ~Get(c) /\ ~Read(c) /\ ~Create(c)
      BY <1>2, <3>2, <3>3, <3>4 DEF Get, Read, Create, Answers
    <3>7. ~CreateTask(c) /\ ~Insert(c) /\ ~Note(c) /\ ~Report(c)
      BY <1>2, <3>2, <3>3, <3>4 DEF CreateTask, Insert, Note, Report, Answers
    <3>7a. ~SaveJob(c) /\ ~MarkScheduled(c) /\ ~CancelJob(c) /\ ~MarkFailed(c)
      BY <1>2, <3>3 DEF SaveJob, MarkScheduled, CancelJob, MarkFailed
    <3>8. ~RecordTarget(c) /\ ~Complete(c)
      <4>1. Refused(c) \in Answers
        BY DEF Refused, Answers
      <4> QED BY <1>2, <3>3, <3>4, <4>1 DEF RecordTarget, Complete, Answers
    <3>9. Match(c)
      BY <2>2, <3>5, <3>6, <3>7, <3>7a, <3>8 DEF Step
    <3>10. reminders[calls[c].item] = <<>>
      BY <1>2, <3>2, <3>4, <3>9 DEF Match, Answers
    <3>11. calls[c].item \in Items
      BY <3>9, ReminderCall DEF Match, ReminderSteps
    <3> QED BY <3>1, <3>10, <3>11
  <2>3. ASSUME NEW d \in Callers, Step(d) \/ StepFails(d)
        PROVE  calls'[c] = calls[c] \/ d = c
    BY <2>3, StepFrame
  <2>4. ASSUME NEW d \in Callers, NEW i \in Items, NEW type \in Kinds, NEW intent \in Intents,
               Claim(d, i, type, intent)
        PROVE  calls'[c] = calls[c]
    <3>1. d # c
      <4>1. calls'[d].at = AfterClaim(ClaimOf(i, type), type)
        BY <1>1, <2>4 DEF Claim, TypeOK
      <4>2. AfterClaim(ClaimOf(i, type), type) \in {"already_resolved", "get", "resolved"}
        BY DEF AfterClaim
      <4> QED BY <1>2, <4>1, <4>2
    <3> QED BY <1>1, <2>4, <3>1 DEF Claim, TypeOK
  <2>5. ASSUME NEW h \in Hosts, Tick(h) \/ Crash(h) \/ Stop(h) \/ Start(h)
        PROVE  calls'[c] = calls[c]
    BY <1>2, <2>5, HostFrame, IdleFacts
  <2>6. CASE UNCHANGED vars
    BY <2>1, <2>6 DEF vars
  <2> QED BY <2>1, <2>2, <2>3, <2>4, <2>5, <2>6 DEF Next
<1>3. CASE \A i \in Items : Len(reminders'[i]) = Len(reminders[i])
  <2>1. \A i \in Items : reminders[i] = <<>> => reminders'[i] = <<>>
    BY <1>1, <1>3, EmptySeq
  <2> QED BY <1>2, <1>3, <2>1 DEF NothingYet, OneReminder
<1>4. ASSUME NEW c \in Callers, Insert(c), calls'[c].at # "insert",
             Len(reminders'[calls[c].item]) = Len(reminders[calls[c].item]) + 1,
             \A i \in Items \ {calls[c].item} : reminders'[i] = reminders[i]
      PROVE  NothingYet' /\ OneReminder'
  <2>1. /\ calls[c].item \in Items /\ Busy(c) /\ reminders[calls[c].item] = <<>>
    BY <1>4, ReminderCall
       DEF Insert, NothingYet, Busy, ReminderSteps, BusySteps, CreateSteps, BridgeSteps
  <2>2. Len(reminders'[calls[c].item]) <= 1
    BY <1>4, <2>1
  <2>3. ASSUME NEW d \in Callers, calls'[d].at = "insert"
        PROVE  reminders'[calls'[d].item] = <<>>
    <3>1. d # c
      BY <1>4, <2>3
    <3>2. calls[d].item # calls[c].item
      BY <1>2, <2>1, <2>3, <3>1 DEF LockHeld, OneProcess
    <3> QED BY <1>2, <1>4, <2>3, <3>2
  <2> QED BY <1>4, <2>2, <2>3 DEF NothingYet, OneReminder
<1> QED BY <1>3, <1>4, ReminderCounts

\* The lock of an item keeps the calls of one process apart, through crashes and retries.
THEOREM LockExcludes == Spec => []LockHeld
<1>1. Init => LockHeld
  BY IdleFacts DEF Init, LockHeld, Busy
<1> QED BY <1>1, LockStep, Invariance, PTL DEF Spec

\* Where all callers share one process, an item never gets a second reminder, however
\* often its resolution fails and is retried: the check of the existing reminder and the
\* insertion are kept together by the lock, and by nothing else.
THEOREM OneReminderInOneProcess ==
  ASSUME OneProcess
  PROVE  Spec => []OneReminder
<1>1. Init => NothingYet /\ OneReminder
  BY IdleFacts DEF Init, NothingYet, OneReminder
<1> QED BY <1>1, FirstStep, LockExcludes, Invariance, PTL DEF Spec
=============================================================================
