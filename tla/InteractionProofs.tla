-------------------------- MODULE InteractionProofs --------------------------
(***************************************************************************)
(* Proofs about Interaction, for every set of interactions and callers and *)
(* every bound: its types, that it implements InteractionContract, and     *)
(* what it promises of consent, evidence and answers.                      *)
(***************************************************************************)
EXTENDS Interaction, SequenceTheorems, TLAPS

-----------------------------------------------------------------------------
(* The inductive invariant.                                                *)

Undecided == {"REQUESTED", "PREVIEWED", "AWAITING_CONFIRMATION"}
Running   == {"EXECUTING", "VERIFYING", "RECOVERY_REQUIRED"}
Previewed == {"PREVIEWED", "AWAITING_CONFIRMATION", "AUTHORIZED"} \cup Running

\* The steps of a call that has read the aggregate.
Informed == {"authorize", "write", "port", "observe", "reconcile", "relookup",
             "reread", "verify", "commit", "finish"}

\* The states a write of operation op starts from.
From(op) ==
  CASE op = "preview" -> Undecided
    [] op = "confirm" -> {"AWAITING_CONFIRMATION"}
    [] op = "approve" -> {"AWAITING_CONFIRMATION"}
    [] op = "cancel"  -> Undecided \cup {"AUTHORIZED"}
    [] op = "expire"  -> {"PREVIEWED", "AWAITING_CONFIRMATION"}
    [] op = "execute" -> {"AUTHORIZED"}
    [] OTHER          -> {}

\* A call knows whom it is about.
AddressOK(k) ==
  /\ k.step = "create" => k.req.key \in Keys
  /\ k.step \notin {"idle", "create"} =>
       /\ k.req.key \in Keys
       /\ k.req.op # "create"
       /\ k.req.digest.id \in Interactions
       /\ k.req.op = "preview" => k.req.digest.kind \in Kind

\* The aggregate exists, and what a call has read is the current one or an
\* older one.
CopyOK(k, R) ==
  LET i == k.req.digest.id IN
  /\ k.step \notin {"idle", "create"} => R[i].rev >= 1
  /\ k.step \in Informed =>
       /\ k.cur.rev <= R[i].rev
       /\ k.cur.rev = R[i].rev => k.cur = R[i]
       /\ k.cur.consent.preview <= R[i].consent.preview
       /\ k.cur.state \in Previewed => k.cur.consent.preview >= 1

\* What the step of a call says about the state it has read.
StepOK(k) ==
  /\ k.step = "authorize" =>
       k.req.op = "approve" /\ k.cur.state = "AWAITING_CONFIRMATION"
  /\ k.step = "write" => k.cur.state \in From(k.req.op)
  /\ k.step \in {"port", "observe", "reconcile"} => k.cur.state = "EXECUTING"
  /\ k.step \in {"verify", "commit", "finish"} =>
       k.cur.state \in {"VERIFYING", "RECOVERY_REQUIRED"}

\* What a call knows about the world.
KnowsOK(k, R, W) ==
  LET i == k.req.digest.id IN
  /\ k.step = "port" => W[i].calls = 0 /\ R[i].state \in Running
  /\ k.step = "observe" =>
       /\ W[i].calls = 1
       /\ k.obs \in {"REJECTED", "FAILED"} => ~W[i].applied
       /\ k.obs \in PortStatuses
  /\ k.step = "commit" => W[i].applied
  /\ k.step = "finish" =>
       /\ k.obs \in {"UNVERIFIED", "VERIFIED", "COMMITTED"}
       /\ k.obs # "UNVERIFIED" => W[i].applied

CallOK(k, R, W) ==
  AddressOK(k) /\ CopyOK(k, R) /\ StepOK(k) /\ KnowsOK(k, R, W)

\* An aggregate, the number of its previews, and the world.
RowOK(row, n, w) ==
  /\ n = row.consent.preview
  /\ row.state = "NONE" => n = 0
  /\ row.rev = 0 <=> row.state = "NONE"
  /\ row.state \in Previewed => row.consent.preview >= 1
  /\ w.calls \in 0..1
  /\ w.calls = 0 => ~w.applied
  /\ row.state \notin Running \cup {"SUCCEEDED", "FAILED"} => w.calls = 0
  /\ row.state = "SUCCEEDED" => w.applied
  /\ row.state = "FAILED" => w.calls = 1 /\ ~w.applied

RowsOK == \A i \in Interactions : RowOK(rows[i], Len(previews[i]), world[i])

CallsOK == \A c \in Callers : CallOK(calls[c], rows, world)

\* No two calls are about to ask the port for the same interaction.
OnePort ==
  \A c, d \in Callers :
    At(c, "port") /\ At(d, "port") /\ Id(c) = Id(d) => c = d

\* The claims of an operation on an interaction name it.
ClaimOK(op, m) ==
  op # "create" => m.digest.id = m.id /\ (op = "preview" => m.digest.kind \in Kind)

ClaimsOK == \A s \in Scoped : \A m \in idem[s] : ClaimOK(s[1], m)

InteractionInv == TypeOK /\ RowsOK /\ CallsOK /\ OnePort /\ ClaimsOK

-----------------------------------------------------------------------------
(* How the stores change.                                                  *)

\* The lifecycle moves that calls make, in the world w.
Moves(old, new, w) ==
  \/ old \in Undecided /\ new \in {"AWAITING_CONFIRMATION", "AUTHORIZED"}
  \/ old \in Undecided \cup {"AUTHORIZED"} /\ new \in {"CANCELLED", "EXPIRED"}
  \/ old = "AUTHORIZED" /\ new = "EXECUTING"
  \/ old \in Running /\ new \in {"VERIFYING", "RECOVERY_REQUIRED"}
  \/ old \in Running /\ new = "SUCCEEDED" /\ w.applied
  \/ old \in Running /\ new = "FAILED" /\ w.calls = 1 /\ ~w.applied

\* row and pvs are a next revision of interaction i.
NextRevision(i, row, pvs) ==
  /\ row \in Row
  /\ pvs \in Seq(Preview)
  /\ row.rev = rows[i].rev + 1
  /\ Moves(rows[i].state, row.state, world[i])
  /\ Len(pvs) = row.consent.preview
  /\ row.consent.preview >= rows[i].consent.preview
  /\ row.state \in Previewed => row.consent.preview >= 1

\* What a step does to aggregates and world.
MovesRow ==
  /\ UNCHANGED world
  /\ \E i \in Interactions, row \in Row :
       /\ rows' = [rows EXCEPT ![i] = row]
       /\ Moves(rows[i].state, row.state, world[i])

CreatesRow ==
  /\ UNCHANGED world
  /\ \E i \in Interactions :
       rows[i].state = "NONE" /\ rows' = [rows EXCEPT ![i] = NewRow]

AsksPort ==
  /\ UNCHANGED rows
  /\ \E i \in Interactions, w \in World :
       /\ rows[i].state \in Running
       /\ world[i].calls = 0
       /\ w.calls = 1
       /\ world' = [world EXCEPT ![i] = w]

RecordsCommit ==
  /\ UNCHANGED rows
  /\ \E i \in Interactions, w \in World :
       /\ w.calls = world[i].calls
       /\ w.applied = world[i].applied
       /\ world' = [world EXCEPT ![i] = w]

Advance ==
  UNCHANGED <<rows, world>> \/ MovesRow \/ CreatesRow \/ AsksPort \/ RecordsCommit

\* A time up to the earlier of two is up to both.
LEMMA UpToMin ==
  ASSUME NEW m \in Nat, NEW n \in Nat, NEW low \in Nat, NEW t \in low..Min2(m, n)
  PROVE  t \in Nat /\ t <= m /\ t <= n
  BY DEF Min2

\* The counters of a row.
LEMMA RowNumbers ==
  ASSUME NEW row \in Row
  PROVE  row.rev \in Nat /\ row.consent.preview \in Nat
  BY DEF Row, Consent

\* A row keeps every preview it has numbered, and a created one has a state.
LEMMA RowSays ==
  ASSUME NEW row, NEW n, NEW w, RowOK(row, n, w)
  PROVE  /\ n = row.consent.preview
         /\ row.rev # 0 => row.state # "NONE"
  BY DEF RowOK

\* A call goes on and nothing else changes.
LEMMA CallGoesOn ==
  ASSUME InteractionInv, NEW c \in Callers, NEW k \in Call,
         calls' = [calls EXCEPT ![c] = k],
         UNCHANGED <<rows, previews, idem, world>>,
         now' \in 0..MaxTime, faults' \in 0..MaxFaults,
         CallOK(k, rows, world), k.step # "port"
  PROVE  InteractionInv' /\ Advance
  <1>1. TypeOK'
    BY DEF InteractionInv, TypeOK
  <1>2. RowsOK'
    BY DEF InteractionInv, RowsOK
  <1>3. \A d \in Callers : calls'[d] = IF d = c THEN k ELSE calls[d]
    BY DEF InteractionInv, TypeOK
  <1>4. CallsOK'
    <2> SUFFICES ASSUME NEW d \in Callers PROVE CallOK(calls'[d], rows', world')
      BY DEF CallsOK
    <2> QED
      BY <1>3 DEF InteractionInv, CallsOK
  <1>5. OnePort'
    BY <1>3 DEF InteractionInv, OnePort, At, Id
  <1>6. ClaimsOK'
    BY DEF InteractionInv, ClaimsOK
  <1> QED
    BY <1>1, <1>2, <1>4, <1>5, <1>6 DEF InteractionInv, Advance

\* An idle call knows nothing that could be wrong.
LEMMA IdleOK ==
  ASSUME NEW R, NEW W
  PROVE  IdleCall \in Call /\ CallOK(IdleCall, R, W)
  <1>1. IdleRequest \in Request
    BY DEF IdleRequest, Request, Operation, Digest
  <1>2. NoRow \in Row
    BY DEF NoRow, Row, NoConsent, Consent, NoGrant, Grant, NoOutcome, Outcome,
           ExecutionStatus, RecoveryStatus
  <1>3. IdleCall \in Call
    BY <1>1, <1>2 DEF IdleCall, Call, Steps, Observation
  <1>4. CallOK(IdleCall, R, W)
    BY DEF IdleCall, CallOK, AddressOK, CopyOK, StepOK, KnowsOK, Informed
  <1> QED
    BY <1>3, <1>4

\* A call fails.
LEMMA CallFails ==
  ASSUME InteractionInv, NEW c \in Callers, Fails(c),
         UNCHANGED <<rows, previews, idem, world>>,
         now' \in 0..MaxTime, faults' \in 0..MaxFaults
  PROVE  InteractionInv' /\ Advance
  <1>1. IdleCall \in Call /\ CallOK(IdleCall, rows, world)
    BY IdleOK
  <1>2. IdleCall.step # "port"
    BY DEF IdleCall
  <1> QED
    BY <1>1, <1>2, CallGoesOn DEF Fails

\* A call ends in success.
Done(c) == [step |-> "idle", req |-> calls[c].req, cur |-> NoRow, at |-> 0,
            grant |-> 0, obs |-> "none", answer |-> "done"]

\* The record of an answered call (Succeeds) is well formed.
LEMMA DoneOK ==
  ASSUME TypeOK, NEW c \in Callers, NEW R, NEW W
  PROVE  Done(c) \in Call /\ Done(c).step = "idle" /\ CallOK(Done(c), R, W)
  <1>1. NoRow \in Row
    BY DEF NoRow, Row, NoConsent, Consent, NoGrant, Grant, NoOutcome, Outcome,
           ExecutionStatus, RecoveryStatus
  <1>2. calls[c] \in Call /\ calls[c].req \in Request
    BY DEF TypeOK, Call
  <1>3. Done(c) \in Call
    BY <1>1, <1>2 DEF Done, Call, Steps, Observation
  <1>4. Done(c).step = "idle" /\ CallOK(Done(c), R, W)
    BY DEF Done, CallOK, AddressOK, CopyOK, StepOK, KnowsOK, Informed
  <1> QED
    BY <1>3, <1>4

\* A call is answered and nothing else changes.
LEMMA CallSucceeds ==
  ASSUME InteractionInv, NEW c \in Callers, Succeeds(c),
         UNCHANGED <<rows, previews, idem, world>>,
         now' \in 0..MaxTime, faults' \in 0..MaxFaults
  PROVE  InteractionInv' /\ Advance
  <1>1. Done(c) \in Call /\ Done(c).step = "idle" /\ CallOK(Done(c), rows, world)
    BY DoneOK DEF InteractionInv
  <1>2. calls' = [calls EXCEPT ![c] = Done(c)]
    BY DEF Succeeds, Done
  <1> QED
    BY <1>1, <1>2, CallGoesOn

-----------------------------------------------------------------------------
(* A transaction on an aggregate.                                          *)

\* What another call knows survives the next revision of an aggregate.
LEMMA OthersKnow ==
  ASSUME InteractionInv, NEW i \in Interactions, NEW row, NEW pvs,
         NextRevision(i, row, pvs), NEW d \in Callers, NEW R,
         R = [rows EXCEPT ![i] = row]
  PROVE  CallOK(calls[d], R, world)
  <1> DEFINE j == calls[d].req.digest.id
  <1>1. CallOK(calls[d], rows, world)
    BY DEF InteractionInv, CallsOK
  <1>2. CASE calls[d].step \in {"idle", "create"}
    BY <1>1, <1>2 DEF CallOK, AddressOK, CopyOK, StepOK, KnowsOK, Informed
  <1>3. CASE calls[d].step \notin {"idle", "create"}
    <2>1. j \in Interactions
      BY <1>1, <1>3 DEF CallOK, AddressOK
    <2>2. R[j] = IF j = i THEN row ELSE rows[j]
      BY <2>1 DEF InteractionInv, TypeOK
    <2>3. rows[i] \in Row /\ rows[j] \in Row /\ row \in Row
      BY <2>1 DEF InteractionInv, TypeOK, NextRevision
    <2>4. calls[d] \in Call /\ calls[d].cur \in Row
      BY DEF InteractionInv, TypeOK, Call
    <2>5. row.rev = rows[i].rev + 1 /\ row.consent.preview >= rows[i].consent.preview
      BY DEF NextRevision
    <2>6. /\ rows[i].rev \in Nat /\ row.rev \in Nat
          /\ rows[i].consent.preview \in Nat /\ row.consent.preview \in Nat
          /\ calls[d].cur.rev \in Nat /\ calls[d].cur.consent.preview \in Nat
      BY <2>3, <2>4 DEF Row, Consent
    <2>7. CopyOK(calls[d], R)
      <3>1. CopyOK(calls[d], rows)
        BY <1>1 DEF CallOK
      <3>2. CASE j = i
        BY <2>2, <2>5, <2>6, <3>1, <3>2 DEF CopyOK
      <3>3. CASE j # i
        BY <2>2, <3>1, <3>3 DEF CopyOK
      <3> QED
        BY <3>2, <3>3
    <2>8. KnowsOK(calls[d], R, world)
      <3>1. KnowsOK(calls[d], rows, world)
        BY <1>1 DEF CallOK
      <3>2. ASSUME calls[d].step = "port", j = i PROVE row.state \in Running
        <4>1. world[i].calls = 0 /\ rows[i].state \in Running
          BY <3>1, <3>2 DEF KnowsOK
        <4>2. ~world[i].applied
          BY <4>1 DEF InteractionInv, RowsOK, RowOK
        <4>3. Moves(rows[i].state, row.state, world[i])
          BY DEF NextRevision
        <4> QED
          BY <4>1, <4>2, <4>3 DEF Moves, Running, Undecided
      <3> QED
        BY <2>2, <3>1, <3>2 DEF KnowsOK
    <2> QED
      BY <1>1, <2>7, <2>8 DEF CallOK
  <1> QED
    BY <1>2, <1>3

\* The next revision is legal in the world as it is.
LEMMA NextRowOK ==
  ASSUME InteractionInv, NEW i \in Interactions, NEW row, NEW pvs,
         NextRevision(i, row, pvs)
  PROVE  RowOK(row, Len(pvs), world[i])
  <1>1. RowOK(rows[i], Len(previews[i]), world[i])
    BY DEF InteractionInv, RowsOK
  <1>2. Moves(rows[i].state, row.state, world[i])
    BY DEF NextRevision
  <1>3. rows[i] \in Row /\ row \in Row
    BY DEF InteractionInv, TypeOK, NextRevision
  <1>4. rows[i].rev \in Nat /\ row.rev = rows[i].rev + 1 /\ row.rev # 0
    BY <1>3 DEF Row, NextRevision
  <1>5. row.state # "NONE"
    BY <1>2 DEF Moves
  <1>6. Len(pvs) = row.consent.preview /\ (row.state \in Previewed => row.consent.preview >= 1)
    BY DEF NextRevision
  <1>7. world[i].calls \in 0..1 /\ (world[i].calls = 0 => ~world[i].applied)
    BY <1>1 DEF RowOK
  <1>8. row.state \notin Running \cup {"SUCCEEDED", "FAILED"} => world[i].calls = 0
    BY <1>1, <1>2 DEF RowOK, Moves, Running, Undecided
  <1>9. /\ row.state = "SUCCEEDED" => world[i].applied
        /\ row.state = "FAILED" => world[i].calls = 1 /\ ~world[i].applied
    BY <1>2 DEF Moves
  <1> QED
    BY <1>4, <1>5, <1>6, <1>7, <1>8, <1>9 DEF RowOK

\* The successful transaction of repository.transition: the next revision of
\* one aggregate is written and the call that wrote it becomes k.
LEMMA RowWritten ==
  ASSUME InteractionInv, NEW c \in Callers, NEW i \in Interactions,
         NEW row, NEW pvs, NextRevision(i, row, pvs), NEW k \in Call,
         rows' = [rows EXCEPT ![i] = row],
         previews' = [previews EXCEPT ![i] = pvs],
         idem' \in [Scoped -> SUBSET Claim], ClaimsOK',
         calls' = [calls EXCEPT ![c] = k],
         UNCHANGED <<world, now, faults>>,
         CallOK(k, rows', world),
         k.step = "port" => k.req.digest.id = i /\ rows[i].state \notin Running
  PROVE  InteractionInv' /\ Advance
  <1>0. row \in Row /\ pvs \in Seq(Preview)
    BY DEF NextRevision
  <1>1. TypeOK'
    BY <1>0 DEF InteractionInv, TypeOK
  <1>2. /\ \A d \in Callers : calls'[d] = IF d = c THEN k ELSE calls[d]
        /\ \A j \in Interactions : rows'[j] = IF j = i THEN row ELSE rows[j]
        /\ \A j \in Interactions : previews'[j] = IF j = i THEN pvs ELSE previews[j]
    BY DEF InteractionInv, TypeOK
  <1>3. RowsOK'
    <2>1. RowOK(row, Len(pvs), world[i])
      BY NextRowOK
    <2> SUFFICES ASSUME NEW j \in Interactions
                 PROVE  RowOK(rows'[j], Len(previews'[j]), world'[j])
      BY DEF RowsOK
    <2>2. CASE j = i
      BY <1>2, <2>1, <2>2
    <2>3. CASE j # i
      BY <1>2, <2>3 DEF InteractionInv, RowsOK
    <2> QED
      BY <2>2, <2>3
  <1>4. CallsOK'
    <2> SUFFICES ASSUME NEW d \in Callers PROVE CallOK(calls'[d], rows', world')
      BY DEF CallsOK
    <2>1. CallOK(calls[d], rows', world)
      BY OthersKnow
    <2> QED
      BY <1>2, <2>1
  <1>5. OnePort'
    <2> SUFFICES ASSUME NEW d \in Callers, NEW e \in Callers,
                        calls'[d].step = "port", calls'[e].step = "port",
                        calls'[d].req.digest.id = calls'[e].req.digest.id, d # e
                 PROVE  FALSE
      BY DEF OnePort, At, Id
    <2>1. \A b \in Callers : calls[b].step = "port" =>
            rows[calls[b].req.digest.id].state \in Running
      BY DEF InteractionInv, CallsOK, CallOK, KnowsOK
    <2>2. CASE d # c /\ e # c
      BY <1>2, <2>2 DEF InteractionInv, OnePort, At, Id
    <2>3. CASE d = c
      BY <1>2, <2>1, <2>3
    <2>4. CASE e = c
      BY <1>2, <2>1, <2>4
    <2> QED
      BY <2>2, <2>3, <2>4
  <1>6. MovesRow
    BY <1>0 DEF MovesRow, NextRevision
  <1> QED
    BY <1>1, <1>3, <1>4, <1>5, <1>6 DEF InteractionInv, Advance

\* The transaction of c, after which its call is k.
Commits(c, op, row, pvs, k) ==
  Transition(c, op, row, pvs, calls' = [calls EXCEPT ![c] = k])

\* A call in the course of a transaction: what it has read is what is there.
Fresh(c) == rows[Id(c)] = calls[c].cur

\* repository.transition as a whole: a call whose copy is stale fails and
\* changes nothing, so only the fresh case has to be argued.
LEMMA Commit ==
  ASSUME InteractionInv, NEW c \in Callers, calls[c].step \in Informed,
         NEW op \in {Req(c).op, "execute", "reconcile_execution"},
         NEW row, NEW pvs, NEW k,
         Commits(c, op, row, pvs, k), UNCHANGED <<world, now, faults>>,
         Fresh(c) =>
           /\ NextRevision(Id(c), row, pvs)
           /\ k \in Call
           /\ CallOK(k, [rows EXCEPT ![Id(c)] = row], world)
           /\ k.step = "port" =>
                k.req.digest.id = Id(c) /\ rows[Id(c)].state \notin Running
  PROVE  InteractionInv' /\ Advance
  <1> DEFINE i == Id(c)
             s == <<op, Req(c).key>>
             m == [digest |-> Req(c).digest, id |-> i]
  <1>1. CallOK(calls[c], rows, world) /\ calls[c] \in Call
    BY DEF InteractionInv, TypeOK, CallsOK
  <1>2. calls[c].step \notin {"idle", "create"}
    BY DEF Informed
  <1>3. /\ i \in Interactions /\ Req(c).key \in Keys /\ Req(c).op # "create"
        /\ Req(c).op = "preview" => Req(c).digest.kind \in Kind
    BY <1>1, <1>2 DEF CallOK, AddressOK, Id, Req
  <1>4. Req(c) \in Request /\ Req(c).op \in Operation /\ Req(c).digest \in Digest
    BY <1>1 DEF Call, Request, Req
  <1>5. s \in Scoped /\ s[1] = op
    BY <1>3, <1>4 DEF Scoped, Operation
  <1>6. now \in 0..MaxTime /\ faults \in 0..MaxFaults
    BY DEF InteractionInv, TypeOK
  <1>7. CASE ~(rows[i].rev = calls[c].cur.rev /\ KeyAllows(c, op))
    <2>1. Fails(c) /\ UNCHANGED <<rows, previews, idem>>
      BY <1>7 DEF Commits, Transition, stores
    <2> QED
      BY <1>6, <2>1, CallFails
  <1>8. CASE rows[i].rev = calls[c].cur.rev /\ KeyAllows(c, op)
    <2>1. Fresh(c)
      BY <1>1, <1>8 DEF CallOK, CopyOK, Fresh, Id
    <2>2. /\ rows' = [rows EXCEPT ![i] = row]
          /\ previews' = [previews EXCEPT ![i] = pvs]
          /\ idem' = [idem EXCEPT ![s] = {m}]
          /\ calls' = [calls EXCEPT ![c] = k]
      BY <1>8 DEF Commits, Transition
    <2>3. m \in Claim
      BY <1>3, <1>4 DEF Claim
    <2>4. idem' \in [Scoped -> SUBSET Claim]
      BY <2>2, <2>3 DEF InteractionInv, TypeOK
    <2>5. ClaimOK(op, m)
      BY <1>3 DEF ClaimOK, Id, Req
    <2>6. ClaimsOK'
      <3> SUFFICES ASSUME NEW t \in Scoped, NEW e \in idem'[t]
                   PROVE  ClaimOK(t[1], e)
        BY DEF ClaimsOK
      <3>1. idem'[t] = IF t = s THEN {m} ELSE idem[t]
        BY <1>5, <2>2 DEF InteractionInv, TypeOK
      <3>2. CASE t = s
        BY <1>5, <2>5, <3>1, <3>2
      <3>3. CASE t # s
        BY <3>1, <3>3 DEF InteractionInv, ClaimsOK
      <3> QED
        BY <3>2, <3>3
    <2>7. /\ NextRevision(i, row, pvs)
          /\ k \in Call
          /\ CallOK(k, rows', world)
          /\ k.step = "port" => k.req.digest.id = i /\ rows[i].state \notin Running
      BY <2>1, <2>2
    <2> HIDE DEF i, s, m
    <2> QED
      BY <1>3, <2>2, <2>4, <2>6, <2>7, RowWritten
  <1> QED
    BY <1>7, <1>8

\* A transaction that ends the call with success.
LEMMA CommitAndAnswer ==
  ASSUME InteractionInv, NEW c \in Callers, calls[c].step \in Informed,
         NEW op \in {Req(c).op, "execute", "reconcile_execution"},
         NEW row, NEW pvs,
         Transition(c, op, row, pvs, Succeeds(c)), UNCHANGED <<world, now, faults>>,
         Fresh(c) => NextRevision(Id(c), row, pvs)
  PROVE  InteractionInv' /\ Advance
  <1>1. Commits(c, op, row, pvs, Done(c))
    BY DEF Commits, Transition, Succeeds, Done
  <1>2. \A R : /\ Done(c) \in Call /\ Done(c).step = "idle"
               /\ CallOK(Done(c), R, world)
    BY DoneOK DEF InteractionInv
  <1>3. Done(c).step # "port"
    BY <1>2
  <1> QED
    BY <1>1, <1>2, <1>3, Commit

\* The facts about the call of c and its interaction that every action uses.
LEMMA CallFacts ==
  ASSUME InteractionInv, NEW c \in Callers, calls[c].step \notin {"idle", "create"}
  PROVE  /\ calls[c] \in Call /\ Req(c) \in Request /\ Req(c).op \in Operation
         /\ Req(c).op # "create" /\ Req(c).key \in Keys
         /\ Id(c) \in Interactions /\ Id(c) = calls[c].req.digest.id
         /\ Req(c) = calls[c].req
         /\ Req(c).op = "preview" => Req(c).digest.kind \in Kind
         /\ rows[Id(c)] \in Row /\ previews[Id(c)] \in Seq(Preview)
         /\ world[Id(c)] \in World
         /\ RowOK(rows[Id(c)], Len(previews[Id(c)]), world[Id(c)])
         /\ rows[Id(c)].rev \in Nat /\ rows[Id(c)].rev >= 1
         /\ rows[Id(c)].state # "NONE"
         /\ calls[c].cur \in Row /\ calls[c].at \in Nat /\ calls[c].grant \in Nat
         /\ calls[c].obs \in Observation
         /\ CallOK(calls[c], rows, world)
         /\ now \in 0..MaxTime /\ faults \in 0..MaxFaults
  <1>1. calls[c] \in Call /\ CallOK(calls[c], rows, world)
    BY DEF InteractionInv, TypeOK, CallsOK
  <1>2. /\ Req(c) \in Request /\ Req(c).op \in Operation
        /\ calls[c].cur \in Row /\ calls[c].at \in Nat /\ calls[c].grant \in Nat
        /\ calls[c].obs \in Observation
    BY <1>1 DEF Call, Request, Req
  <1>3. /\ Id(c) \in Interactions /\ Id(c) = calls[c].req.digest.id
        /\ Req(c).key \in Keys /\ Req(c).op # "create" /\ Req(c) = calls[c].req
        /\ Req(c).op = "preview" => Req(c).digest.kind \in Kind
        /\ rows[Id(c)].rev >= 1
    BY <1>1 DEF CallOK, AddressOK, CopyOK, Id, Req
  <1>4. /\ rows[Id(c)] \in Row /\ previews[Id(c)] \in Seq(Preview)
        /\ world[Id(c)] \in World
        /\ now \in 0..MaxTime /\ faults \in 0..MaxFaults
        /\ RowOK(rows[Id(c)], Len(previews[Id(c)]), world[Id(c)])
    BY <1>3 DEF InteractionInv, TypeOK, RowsOK
  <1>5. rows[Id(c)].rev \in Nat
    BY <1>4 DEF Row
  <1>6. rows[Id(c)].state # "NONE"
    <2>1. rows[Id(c)].rev # 0
      BY <1>3, <1>5
    <2> QED
      BY <1>4, <2>1, RowSays, Zenon
  <1> QED
    BY <1>1, <1>2, <1>3, <1>4, <1>5, <1>6, Zenon

-----------------------------------------------------------------------------
(* The actions that change no table.                                       *)

\* A request that a client can make of interaction i.
RequestOK(r) ==
  /\ r \in Request
  /\ r.key \in Keys
  /\ r.op # "create"
  /\ r.digest.id \in Interactions
  /\ rows[r.digest.id].rev >= 1
  /\ r.op = "preview" => r.digest.kind \in Kind

\* The missing row and the row create inserts are rows.
LEMMA NoRowType ==
  NoRow \in Row /\ NewRow \in Row
  BY DEF NoRow, NewRow, Row, LifecycleState, NoConsent, Consent, NoGrant, Grant,
         NoOutcome, Outcome, ExecutionStatus, RecoveryStatus

\* A client starts a call.
LEMMA InvokeStep ==
  ASSUME InteractionInv, NEW c \in Callers, NEW r \in Request, r.key \in Keys,
         NEW step \in {"create", "lookup"}, Invoke(c, r, step),
         step = "lookup" => RequestOK(r)
  PROVE  InteractionInv' /\ Advance
  <1> DEFINE k == [step |-> step, req |-> r, cur |-> NoRow, at |-> 0, grant |-> 0,
                   obs |-> "none", answer |-> "none"]
  <1>1. k \in Call
    BY NoRowType DEF Call, Steps, Observation
  <1>2. CallOK(k, rows, world)
    BY DEF CallOK, AddressOK, CopyOK, StepOK, KnowsOK, Informed, RequestOK
  <1>3. calls' = [calls EXCEPT ![c] = k] /\ UNCHANGED <<rows, previews, idem, world, now, faults>>
    BY DEF Invoke, stores
  <1>4. now' \in 0..MaxTime /\ faults' \in 0..MaxFaults
    BY <1>3 DEF InteractionInv, TypeOK
  <1>5. k.step # "port"
    OBVIOUS
  <1> HIDE DEF k
  <1> QED
    BY <1>1, <1>2, <1>3, <1>4, <1>5, CallGoesOn

\* A client starts a create.
LEMMA InvokeCreateStep ==
  ASSUME InteractionInv, NEW c \in Callers, InvokeCreate(c)
  PROVE  InteractionInv' /\ Advance
  <1>1. PICK k \in Keys :
          Invoke(c, [op |-> "create", key |-> k, digest |-> IdleRequest.digest], "create")
    BY DEF InvokeCreate
  <1> DEFINE r == [op |-> "create", key |-> k, digest |-> IdleRequest.digest]
  <1>2. r \in Request /\ r.key \in Keys
    BY DEF IdleRequest, Request, Operation, Digest
  <1>3. Invoke(c, r, "create")
    BY <1>1
  <1> HIDE DEF r
  <1> QED
    BY <1>2, <1>3, InvokeStep

\* A request made from what the client sees is one about an existing row.
LEMMA FreshRequestOK ==
  ASSUME InteractionInv, NEW i \in Interactions, rows[i].rev >= 1,
         NEW r \in FreshRequests(i)
  PROVE  RequestOK(r)
  <1>0. rows[i].rev \in Nat /\ Len(previews[i]) \in Nat
    BY DEF InteractionInv, TypeOK, Row
  <1>1. ASSUME NEW o \in Operation \ {"create"}, NEW k \in Keys,
               NEW d \in Kind \cup {NoKind}, NEW p \in Nat,
               o = "preview" => d \in Kind,
               r = Ask(o, k, i, rows[i].rev, d, p)
        PROVE  RequestOK(r)
    BY <1>0, <1>1 DEF Ask, RequestOK, Request, Digest
  <1>2. CASE r \in {Ask("preview", k, i, rows[i].rev, d, 0) : k \in Keys, d \in Kinds}
    <2>1. PICK k \in Keys, d \in Kinds : r = Ask("preview", k, i, rows[i].rev, d, 0)
      BY <1>2
    <2>2. d \in Kind /\ "preview" \in Operation \ {"create"}
      BY InteractionAssumption DEF Operation
    <2> QED
      BY <1>1, <2>1, <2>2
  <1>3. CASE r \in {Ask(o, k, i, rows[i].rev, NoKind, p) :
                      o \in {"confirm", "approve"}, k \in Keys,
                      p \in 1..Len(previews[i])}
    <2>1. PICK o \in {"confirm", "approve"}, k \in Keys, p \in 1..Len(previews[i]) :
            r = Ask(o, k, i, rows[i].rev, NoKind, p)
      BY <1>3
    <2>2. o \in Operation \ {"create"} /\ o # "preview" /\ p \in Nat
      BY <1>0 DEF Operation
    <2> QED
      BY <1>1, <2>1, <2>2
  <1>4. CASE r \in {Ask(o, k, i, rows[i].rev, NoKind, 0) :
                      o \in {"cancel", "expire", "execute", "verify", "recover"},
                      k \in Keys}
    <2>1. PICK o \in {"cancel", "expire", "execute", "verify", "recover"}, k \in Keys :
            r = Ask(o, k, i, rows[i].rev, NoKind, 0)
      BY <1>4
    <2>2. o \in Operation \ {"create"} /\ o # "preview"
      BY DEF Operation
    <2> QED
      BY <1>1, <2>1, <2>2
  <1> QED
    BY <1>2, <1>3, <1>4 DEF FreshRequests

\* A repeated request is one about an existing row: its claim says so.
LEMMA RepeatedRequestOK ==
  ASSUME InteractionInv, NEW i \in Interactions, rows[i].rev >= 1,
         NEW r \in RepeatedRequests(i)
  PROVE  RequestOK(r)
  <1>1. PICK s \in Scoped : /\ s[1] # "create"
                            /\ \E m \in idem[s] :
                                 /\ m.id = i
                                 /\ r = [op |-> IF s[1] = "reconcile_execution"
                                                THEN "recover" ELSE s[1],
                                         key |-> s[2], digest |-> m.digest]
    BY DEF RepeatedRequests
  <1>2. PICK m \in idem[s] :
          /\ m.id = i
          /\ r = [op |-> IF s[1] = "reconcile_execution" THEN "recover" ELSE s[1],
                  key |-> s[2], digest |-> m.digest]
    BY <1>1
  <1>3. ClaimOK(s[1], m) /\ m \in Claim
    BY DEF InteractionInv, ClaimsOK, TypeOK
  <1>4. m.digest.id = i /\ m.digest \in Digest /\ (s[1] = "preview" => m.digest.kind \in Kind)
    BY <1>1, <1>2, <1>3 DEF ClaimOK, Claim
  <1>5. s[1] \in Operation \cup {"reconcile_execution"} /\ s[2] \in Keys
    BY DEF Scoped
  <1>6. r.op \in Operation /\ r.op # "create" /\ (r.op = "preview" => s[1] = "preview")
    BY <1>1, <1>2, <1>5 DEF Operation
  <1> QED
    BY <1>2, <1>4, <1>5, <1>6 DEF RequestOK, Request

\* A client starts any other call.
LEMMA InvokeOtherStep ==
  ASSUME InteractionInv, NEW c \in Callers, InvokeOther(c)
  PROVE  InteractionInv' /\ Advance
  <1>1. PICK i \in Interactions :
          /\ rows[i].rev \in 1..(MaxRevision - 1)
          /\ \E r \in FreshRequests(i) \cup RepeatedRequests(i) : Invoke(c, r, "lookup")
    BY DEF InvokeOther
  <1>2. PICK r \in FreshRequests(i) \cup RepeatedRequests(i) : Invoke(c, r, "lookup")
    BY <1>1
  <1>3. rows[i].rev >= 1
    BY <1>1, InteractionAssumption
  <1>4. RequestOK(r)
    BY <1>3, FreshRequestOK, RepeatedRequestOK
  <1>5. r \in Request /\ r.key \in Keys
    BY <1>4 DEF RequestOK
  <1> QED
    BY <1>2, <1>4, <1>5, InvokeStep

\* The call of c goes on as Goes describes and nothing else changes.
LEMMA GoesStep ==
  ASSUME InteractionInv, NEW c \in Callers, calls[c].step \notin {"idle", "create"},
         NEW step \in Steps \ {"port"}, NEW cur \in Row, NEW t \in Nat,
         NEW grant \in Nat, NEW obs \in Observation,
         Goes(c, step, cur, t, grant, obs),
         UNCHANGED <<rows, previews, idem, world>>,
         now' \in 0..MaxTime, faults' \in 0..MaxFaults,
         CallOK([step |-> step, req |-> Req(c), cur |-> cur, at |-> t,
                 grant |-> grant, obs |-> obs, answer |-> "none"], rows, world)
  PROVE  InteractionInv' /\ Advance
  <1> DEFINE k == [step |-> step, req |-> Req(c), cur |-> cur, at |-> t,
                   grant |-> grant, obs |-> obs, answer |-> "none"]
  <1>1. k \in Call
    BY CallFacts DEF Call
  <1>2. calls' = [calls EXCEPT ![c] = k]
    BY DEF Goes, Req
  <1>3. CallOK(k, rows, world) /\ k.step # "port"
    OBVIOUS
  <1> HIDE DEF k
  <1> QED
    BY <1>1, <1>2, <1>3, CallGoesOn

\* _idempotent.
LEMMA LookupStep ==
  ASSUME InteractionInv, NEW c \in Callers, Lookup(c)
  PROVE  InteractionInv' /\ Advance
  <1> DEFINE k == calls[c]
  <1>1. /\ calls[c].step \in {"lookup", "relookup"}
        /\ calls[c].step \notin {"idle", "create"}
        /\ UNCHANGED <<rows, previews, idem, world, now, faults>>
    BY DEF Lookup, stores
  <1>2. /\ CallOK(k, rows, world) /\ k.cur \in Row /\ k.at \in Nat /\ k.grant \in Nat
        /\ k.obs \in Observation /\ Req(c) = k.req
        /\ now' \in 0..MaxTime /\ faults' \in 0..MaxFaults
    BY <1>1, CallFacts
  <1>3. CASE Fails(c)
    BY <1>1, <1>2, <1>3, CallFails
  <1>4. CASE Succeeds(c)
    BY <1>1, <1>2, <1>4, CallSucceeds
  <1>5. ASSUME NEW step \in {"read", "reread"}, GoesOn(c, step),
               step = "reread" => calls[c].step = "relookup"
        PROVE  InteractionInv' /\ Advance
    <2>1. CallOK([step |-> step, req |-> Req(c), cur |-> k.cur, at |-> k.at,
                  grant |-> k.grant, obs |-> k.obs, answer |-> "none"], rows, world)
      BY <1>1, <1>2, <1>5
         DEF CallOK, AddressOK, CopyOK, StepOK, KnowsOK, Informed
    <2>2. step \in Steps \ {"port"}
      BY DEF Steps
    <2>3. Goes(c, step, k.cur, k.at, k.grant, k.obs)
      BY <1>5 DEF GoesOn
    <2> QED
      BY <1>1, <1>2, <2>1, <2>2, <2>3, GoesStep, SMTT(30)
  <1>6. \/ Fails(c) \/ Succeeds(c)
        \/ calls[c].step = "lookup" /\ GoesOn(c, "read")
        \/ calls[c].step = "relookup" /\ GoesOn(c, "reread")
    BY <1>1 DEF Lookup, At
  <1> QED
    BY <1>3, <1>4, <1>5, <1>6

\* What has just been read is a good copy.
LEMMA FreshCopy ==
  ASSUME NEW k, NEW R, k.cur = R[k.req.digest.id],
         k.cur.rev \in Nat, k.cur.consent.preview \in Nat, k.cur.rev >= 1,
         k.cur.state \in Previewed => k.cur.consent.preview >= 1
  PROVE  CopyOK(k, R)
  <1> DEFINE i == k.req.digest.id
  <1>1. R[i].rev >= 1 /\ k.cur.rev <= R[i].rev /\ k.cur.consent.preview <= R[i].consent.preview
    OBVIOUS
  <1> QED
    BY <1>1 DEF CopyOK

\* The call of c reads the aggregate and goes on.
LEMMA ReadStep ==
  ASSUME InteractionInv, NEW c \in Callers, calls[c].step \notin {"idle", "create"},
         NEW step \in {"authorize", "write", "verify", "reconcile", "relookup"},
         Goes(c, step, rows[Id(c)], now, 0, "none"),
         UNCHANGED <<rows, previews, idem, world, now, faults>>,
         StepOK([step |-> step, req |-> Req(c), cur |-> rows[Id(c)], at |-> now,
                 grant |-> 0, obs |-> "none", answer |-> "none"])
  PROVE  InteractionInv' /\ Advance
  <1> DEFINE i == Id(c)
             k == [step |-> step, req |-> Req(c), cur |-> rows[i], at |-> now,
                   grant |-> 0, obs |-> "none", answer |-> "none"]
  <1>1. /\ Req(c).op # "create" /\ Req(c).key \in Keys
        /\ i \in Interactions /\ Req(c) = calls[c].req /\ i = calls[c].req.digest.id
        /\ Req(c).op = "preview" => Req(c).digest.kind \in Kind
        /\ rows[i] \in Row /\ RowOK(rows[i], Len(previews[i]), world[i])
        /\ rows[i].rev >= 1
        /\ now' \in 0..MaxTime /\ faults' \in 0..MaxFaults
        /\ now \in 0..MaxTime
    BY CallFacts
  <1>2. rows[i].rev \in Nat /\ rows[i].consent.preview \in Nat
    BY <1>1, Zenon DEF Row, Consent
  <1>3. AddressOK(k)
    BY <1>1 DEF AddressOK
  <1>4. CopyOK(k, rows)
    <2>1. k.cur = rows[i] /\ k.req.digest.id = i
      BY <1>1
    <2>2. rows[i].state \in Previewed => rows[i].consent.preview >= 1
      BY <1>1, Zenon DEF RowOK
    <2> HIDE DEF k, i
    <2> QED
      BY <1>1, <1>2, <2>1, <2>2, FreshCopy, Zenon
  <1>5. KnowsOK(k, rows, world)
    BY DEF KnowsOK
  <1>6. CallOK(k, rows, world)
    BY <1>3, <1>4, <1>5 DEF CallOK
  <1>7. step \in Steps \ {"port"} /\ now \in Nat /\ "none" \in Observation
    <2>1. step \in Steps \ {"port"}
      BY DEF Steps
    <2>2. now \in Nat
      <3>1. now \in 0..MaxTime
        BY <1>1, Zenon
      <3> QED
        BY <3>1
    <2>3. "none" \in Observation
      BY DEF Observation
    <2> QED
      BY <2>1, <2>2, <2>3
  <1> QED
    BY <1>1, <1>6, <1>7, GoesStep

\* The checks of an operation put the aggregate in a state it may start from.
LEMMA LegalState ==
  ASSUME NEW r, NEW cur \in Row, cur.state # "NONE", Legal(r, cur)
  PROVE  /\ r.op = "verify" => cur.state \in {"VERIFYING", "RECOVERY_REQUIRED"}
         /\ r.op \notin {"verify", "recover"} => cur.state \in From(r.op)
         /\ r.op # "recover"
  <1>1. cur.state \in LifecycleState
    BY DEF Row
  <1>2. CASE r.op = "preview"
    BY <1>2 DEF Legal, MayPreview, From, Undecided
  <1>3. CASE r.op = "confirm"
    BY <1>3 DEF Legal, MayConfirm, From
  <1>4. CASE r.op = "approve"
    BY <1>4 DEF Legal, MayApprove, From
  <1>5. CASE r.op = "cancel"
    BY <1>1, <1>5 DEF Legal, MayCancel, From, Undecided, LifecycleState, TERMINAL_STATES
  <1>6. CASE r.op = "expire"
    BY <1>6 DEF Legal, MayExpire, From
  <1>7. CASE r.op = "execute"
    BY <1>7 DEF Legal, MayExecute, From
  <1>8. CASE r.op = "verify"
    BY <1>8 DEF Legal, MayVerify
  <1> QED
    BY <1>2, <1>3, <1>4, <1>5, <1>6, <1>7, <1>8 DEF Legal

\* Reading and checking the aggregate, for every operation but recover.
LEMMA ReadActionStep ==
  ASSUME InteractionInv, NEW c \in Callers, Read(c)
  PROVE  InteractionInv' /\ Advance
  <1>1. /\ calls[c].step = "read" /\ Req(c).op # "recover"
        /\ UNCHANGED <<rows, previews, idem, world, now, faults>>
    BY DEF Read, stores, At
  <1>2. /\ calls[c].step \notin {"idle", "create"}
        /\ rows[Id(c)] \in Row /\ rows[Id(c)].state # "NONE"
        /\ now' \in 0..MaxTime /\ faults' \in 0..MaxFaults
    BY <1>1, CallFacts
  <1>3. CASE Fails(c)
    BY <1>1, <1>2, <1>3, CallFails
  <1>4. CASE Legal(Req(c), rows[Id(c)]) /\
             Goes(c, AfterRead(Req(c).op), rows[Id(c)], now, 0, "none")
    <2> DEFINE step == AfterRead(Req(c).op)
    <2>1. /\ Req(c).op = "verify" => rows[Id(c)].state \in {"VERIFYING", "RECOVERY_REQUIRED"}
          /\ Req(c).op # "verify" => rows[Id(c)].state \in From(Req(c).op)
      BY <1>1, <1>2, <1>4, LegalState
    <2>2. /\ step = "authorize" => Req(c).op = "approve"
          /\ step = "verify" => Req(c).op = "verify"
          /\ step = "write" => Req(c).op \notin {"approve", "verify"}
          /\ step \in {"authorize", "write", "verify"}
      BY DEF AfterRead
    <2>3. From("approve") = {"AWAITING_CONFIRMATION"}
      BY DEF From
    <2> HIDE DEF step
    <2>4. StepOK([step |-> step, req |-> Req(c), cur |-> rows[Id(c)], at |-> now,
                  grant |-> 0, obs |-> "none", answer |-> "none"])
      BY <2>1, <2>2, <2>3 DEF StepOK
    <2>5. Goes(c, step, rows[Id(c)], now, 0, "none")
      BY <1>4 DEF step
    <2> QED
      BY <1>1, <1>2, <2>2, <2>4, <2>5, ReadStep
  <1> QED
    BY <1>3, <1>4 DEF Read

\* recover reads the aggregate.
LEMMA ReadRecoverStep ==
  ASSUME InteractionInv, NEW c \in Callers, ReadRecover(c)
  PROVE  InteractionInv' /\ Advance
  <1>1. /\ calls[c].step = "read" /\ calls[c].step \notin {"idle", "create"}
        /\ UNCHANGED <<rows, previews, idem, world, now, faults>>
    BY DEF ReadRecover, stores, At
  <1>2. now' \in 0..MaxTime /\ faults' \in 0..MaxFaults
    BY <1>1, CallFacts
  <1>3. CASE Fails(c)
    BY <1>1, <1>2, <1>3, CallFails
  <1>4. ASSUME NEW step \in {"reconcile", "relookup"},
               step = "reconcile" => rows[Id(c)].state = "EXECUTING",
               Goes(c, step, rows[Id(c)], now, 0, "none")
        PROVE  InteractionInv' /\ Advance
    <2>1. StepOK([step |-> step, req |-> Req(c), cur |-> rows[Id(c)], at |-> now,
                  grant |-> 0, obs |-> "none", answer |-> "none"])
      BY <1>4 DEF StepOK
    <2> QED
      BY <1>1, <1>4, <2>1, ReadStep
  <1>5. \/ Fails(c)
        \/ /\ rows[Id(c)].state = "EXECUTING"
           /\ Goes(c, "reconcile", rows[Id(c)], now, 0, "none")
        \/ Goes(c, "relookup", rows[Id(c)], now, 0, "none")
    BY DEF ReadRecover
  <1> QED
    BY <1>3, <1>4, <1>5

\* recover reads the aggregate again before it verifies.
LEMMA RereadStep ==
  ASSUME InteractionInv, NEW c \in Callers, Reread(c)
  PROVE  InteractionInv' /\ Advance
  <1>1. /\ calls[c].step = "reread" /\ calls[c].step \notin {"idle", "create"}
        /\ UNCHANGED <<rows, previews, idem, world, now, faults>>
    BY DEF Reread, stores, At
  <1>2. now' \in 0..MaxTime /\ faults' \in 0..MaxFaults
    BY <1>1, CallFacts
  <1>3. CASE Fails(c)
    BY <1>1, <1>2, <1>3, CallFails
  <1>4. CASE MayVerify(rows[Id(c)]) /\ Goes(c, "verify", rows[Id(c)], now, 0, "none")
    <2>1. StepOK([step |-> "verify", req |-> Req(c), cur |-> rows[Id(c)], at |-> now,
                  grant |-> 0, obs |-> "none", answer |-> "none"])
      BY <1>4 DEF StepOK, MayVerify
    <2> QED
      BY <1>1, <1>4, <2>1, ReadStep
  <1> QED
    BY <1>3, <1>4 DEF Reread

\* The count of faults stays within its bound.
LEMMA FaultOK ==
  ASSUME faults \in 0..MaxFaults, faults' = faults \/ Fault
  PROVE  faults' \in 0..MaxFaults
  BY InteractionAssumption DEF Fault

\* The approval authority answers.
LEMMA AuthorizeStep ==
  ASSUME InteractionInv, NEW c \in Callers, Authorize(c)
  PROVE  InteractionInv' /\ Advance
  <1> DEFINE k == calls[c]
             i == Id(c)
             p == calls[c].cur.consent.preview
  <1>1. /\ k.step = "authorize" /\ k.step \notin {"idle", "create"}
        /\ UNCHANGED <<rows, previews, idem, world, now, faults>>
    BY DEF Authorize, stores, At
  <1>2. /\ CallOK(k, rows, world) /\ k.cur \in Row /\ k.at \in Nat
        /\ Req(c) = k.req /\ i = k.req.digest.id
        /\ rows[i] \in Row /\ previews[i] \in Seq(Preview)
        /\ RowOK(rows[i], Len(previews[i]), world[i])
        /\ now' \in 0..MaxTime /\ faults' \in 0..MaxFaults
    BY <1>1, CallFacts
  <1>3. CASE Fails(c)
    BY <1>1, <1>2, <1>3, CallFails
  <1>4. ASSUME NEW t \in (k.at + 1)..Min2(Current(i, k.cur).expires, k.at + ConsentTtl),
               Goes(c, "write", k.cur, k.at, t, "none")
        PROVE  InteractionInv' /\ Advance
    <2>1. p \in Nat /\ rows[i].consent.preview \in Nat
      BY <1>2 DEF Row, Consent
    <2>2. /\ p <= rows[i].consent.preview
          /\ k.cur.state = "AWAITING_CONFIRMATION" /\ k.req.op = "approve"
          /\ p >= 1
      BY <1>1, <1>2, Zenon DEF CallOK, CopyOK, StepOK, Informed, Previewed
    <2>3. p \in 1..Len(previews[i])
      <3>1. Len(previews[i]) = rows[i].consent.preview
        BY <1>2, RowSays, Zenon
      <3> HIDE DEF p, i
      <3> QED
        BY <2>1, <2>2, <3>1
    <2>4. previews[i][p] \in Preview
      BY <1>2, <2>3, ElementOfSeq
    <2>5. Current(i, k.cur).expires \in Nat
      BY <2>4 DEF Current, Preview
    <2>6. t \in Nat
      <3>1. k.at \in Nat
        BY <1>2, Zenon
      <3>2. k.at + 1 \in Nat /\ k.at + ConsentTtl \in Nat
        BY <3>1, InteractionAssumption
      <3> QED
        BY <1>4, <2>5, <3>2, UpToMin, Zenon
    <2>7. CallOK([step |-> "write", req |-> Req(c), cur |-> k.cur, at |-> k.at,
                  grant |-> t, obs |-> "none", answer |-> "none"], rows, world)
      BY <1>1, <1>2, <2>2, Zenon
         DEF CallOK, AddressOK, CopyOK, StepOK, KnowsOK, Informed, From
    <2>8. "write" \in Steps \ {"port"} /\ "none" \in Observation
      BY DEF Steps, Observation
    <2> QED
      BY <1>1, <1>2, <1>4, <2>6, <2>7, <2>8, GoesStep, SMTT(60)
  <1> QED
    BY <1>3, <1>4 DEF Authorize

\* The verification port answers.
LEMMA VerifyPortStep ==
  ASSUME InteractionInv, NEW c \in Callers, VerifyPort(c)
  PROVE  InteractionInv' /\ Advance
  <1> DEFINE k == calls[c]
             i == Id(c)
  <1>1. /\ k.step = "verify" /\ k.step \notin {"idle", "create"}
        /\ UNCHANGED <<rows, previews, idem, world, now>>
    BY DEF VerifyPort, stores, At
  <1>2. /\ CallOK(k, rows, world) /\ k.cur \in Row /\ k.at \in Nat /\ k.grant \in Nat
        /\ Req(c) = k.req /\ i = k.req.digest.id
        /\ now' \in 0..MaxTime /\ faults \in 0..MaxFaults
    BY <1>1, CallFacts
  <1>3. faults' \in 0..MaxFaults
    <2>1. faults' = faults \/ Fault
      BY DEF VerifyPort
    <2> QED
      BY <1>2, <2>1, FaultOK
  <1>4. ASSUME NEW step \in {"commit", "finish"}, NEW obs \in {"VERIFIED", "UNVERIFIED"},
               step = "commit" => world[i].applied,
               step = "finish" => obs = "UNVERIFIED",
               Observes(c, step, obs)
        PROVE  InteractionInv' /\ Advance
    <2>1. CallOK([step |-> step, req |-> Req(c), cur |-> k.cur, at |-> k.at,
                  grant |-> k.grant, obs |-> obs, answer |-> "none"], rows, world)
      BY <1>1, <1>2, <1>4 DEF CallOK, AddressOK, CopyOK, StepOK, KnowsOK, Informed
    <2>2. Goes(c, step, k.cur, k.at, k.grant, obs)
      BY <1>4 DEF Observes
    <2>3. step \in Steps \ {"port"} /\ obs \in Observation
      BY DEF Steps, Observation
    <2> QED
      BY <1>1, <1>2, <1>3, <2>1, <2>2, <2>3, GoesStep, SMTT(30)
  <1>5. \/ world[i].applied /\ Observes(c, "commit", "VERIFIED")
        \/ Observes(c, "finish", "UNVERIFIED")
    BY DEF VerifyPort
  <1> QED
    BY <1>4, <1>5

\* The process of a call dies.
LEMMA CrashStep ==
  ASSUME InteractionInv, NEW c \in Callers, Crash(c)
  PROVE  InteractionInv' /\ Advance
  <1>1. Fails(c) /\ UNCHANGED <<rows, previews, idem, world, now>>
    BY DEF Crash, stores, Fails
  <1>2. now' \in 0..MaxTime /\ faults \in 0..MaxFaults
    BY <1>1 DEF InteractionInv, TypeOK
  <1>3. faults' \in 0..MaxFaults
    BY <1>2, FaultOK DEF Crash
  <1> QED
    BY <1>1, <1>2, <1>3, CallFails

\* Time passes.
LEMMA TickStep ==
  ASSUME InteractionInv, Tick
  PROVE  InteractionInv' /\ Advance
  <1>1. UNCHANGED <<rows, previews, idem, world, calls, faults>>
    BY DEF Tick, stores
  <1>2. now' \in 0..MaxTime
    BY InteractionAssumption DEF InteractionInv, TypeOK, Tick
  <1>3. TypeOK'
    BY <1>1, <1>2 DEF InteractionInv, TypeOK
  <1>4. RowsOK' /\ CallsOK' /\ OnePort' /\ ClaimsOK'
    BY <1>1 DEF InteractionInv, RowsOK, CallsOK, OnePort, ClaimsOK, At, Id
  <1> QED
    BY <1>1, <1>3, <1>4 DEF InteractionInv, Advance

-----------------------------------------------------------------------------
(* The actions of the ports: they change the world.                        *)

\* What the calls know survives a step that changes the world of interaction
\* i from world[i] to w, if call c is the only one about to ask its port.
LEMMA WorldChanges ==
  ASSUME InteractionInv, NEW c \in Callers, NEW i \in Interactions,
         NEW w \in World, NEW k \in Call,
         world' = [world EXCEPT ![i] = w],
         calls' = [calls EXCEPT ![c] = k],
         UNCHANGED <<rows, previews, idem, now>>,
         faults' \in 0..MaxFaults,
         k.step # "port",
         CallOK(k, rows, [world EXCEPT ![i] = w]),
         RowOK(rows[i], Len(previews[i]), w),
         \/ w.calls = world[i].calls /\ w.applied = world[i].applied
         \/ /\ world[i].calls = 0 /\ w.calls = 1
            /\ calls[c].step = "port" /\ Id(c) = i
  PROVE  InteractionInv'
  <1>1. TypeOK'
    BY DEF InteractionInv, TypeOK
  <1>2. /\ \A d \in Callers : calls'[d] = IF d = c THEN k ELSE calls[d]
        /\ \A j \in Interactions : world'[j] = IF j = i THEN w ELSE world[j]
    BY DEF InteractionInv, TypeOK
  <1>3. RowsOK'
    BY <1>2 DEF InteractionInv, RowsOK
  <1>4. CallsOK'
    <2> SUFFICES ASSUME NEW d \in Callers PROVE CallOK(calls'[d], rows, world')
      BY DEF CallsOK
    <2>1. CASE d = c
      BY <1>2, <2>1
    <2>2. CASE d # c
      <3> DEFINE j == calls[d].req.digest.id
      <3>1. CallOK(calls[d], rows, world) /\ calls'[d] = calls[d]
        BY <1>2, <2>2 DEF InteractionInv, CallsOK
      <3>2. calls[d].step \notin {"idle", "create"} => j \in Interactions
        BY <3>1 DEF CallOK, AddressOK
      <3>3. KnowsOK(calls[d], rows, world')
        <4>1. CASE calls[d].step \in {"idle", "create"}
          BY <4>1 DEF KnowsOK
        <4>2. CASE j # i /\ j \in Interactions
          BY <1>2, <3>1, <4>2 DEF CallOK, KnowsOK
        <4>3. CASE j = i
          <5>1. CASE w.calls = world[i].calls /\ w.applied = world[i].applied
            BY <1>2, <3>1, <4>3, <5>1 DEF CallOK, KnowsOK
          <5>2. CASE /\ world[i].calls = 0 /\ w.calls = 1
                     /\ calls[c].step = "port" /\ Id(c) = i
            <6>1. calls[d].step # "port"
              BY <2>2, <4>3, <5>2 DEF InteractionInv, OnePort, At, Id
            <6>2. ~world[i].applied
              BY <5>2 DEF InteractionInv, RowsOK, RowOK
            <6> QED
              BY <1>2, <3>1, <4>3, <5>2, <6>1, <6>2 DEF CallOK, KnowsOK
          <5> QED
            BY <5>1, <5>2
        <4> QED
          BY <3>2, <4>1, <4>2, <4>3
      <3> QED
        BY <3>1, <3>3 DEF CallOK
    <2> QED
      BY <2>1, <2>2
  <1>5. OnePort'
    BY <1>2 DEF InteractionInv, OnePort, At, Id
  <1>6. ClaimsOK'
    BY DEF InteractionInv, ClaimsOK
  <1> QED
    BY <1>1, <1>3, <1>4, <1>5, <1>6 DEF InteractionInv

\* The execution port is called: by the one call that wrote the intent, and
\* never before, since OnePort leaves no second call at this step.
LEMMA ExecutePortStep ==
  ASSUME InteractionInv, NEW c \in Callers, ExecutePort(c)
  PROVE  InteractionInv' /\ Advance
  <1> DEFINE i == Id(c)
  <1>1. /\ calls[c].step = "port" /\ calls[c].step \notin {"idle", "create"}
        /\ UNCHANGED <<rows, previews, idem, now>>
    BY DEF ExecutePort, stores, At
  <1>2. /\ CallOK(calls[c], rows, world) /\ calls[c].cur \in Row /\ calls[c].at \in Nat
        /\ calls[c].grant \in Nat /\ Req(c) = calls[c].req /\ Req(c) \in Request
        /\ i = calls[c].req.digest.id /\ i \in Interactions
        /\ world[i] \in World /\ RowOK(rows[i], Len(previews[i]), world[i])
        /\ faults \in 0..MaxFaults
    BY <1>1, CallFacts
  <1>4. world[i].calls = 0 /\ rows[i].state \in Running /\ ~world[i].applied
    <2>1. KnowsOK(calls[c], rows, world)
      BY <1>2 DEF CallOK
    <2>2. world[i].calls = 0 /\ rows[i].state \in Running
      BY <1>1, <1>2, <2>1 DEF KnowsOK
    <2>3. world[i].calls = 0 => ~world[i].applied
      BY <1>2 DEF RowOK
    <2> QED
      BY <2>2, <2>3
  <1>5. calls[c].cur.consent.preview \in Nat
    BY <1>2 DEF Row, Consent
  <1>3. PICK st \in PortStatuses, applied \in BOOLEAN :
          /\ st \in {"REJECTED", "FAILED"} => ~applied
          /\ faults' = faults \/ Fault
          /\ world' = [world EXCEPT ![i] =
                         [calls   |-> world[i].calls + 1,
                          preview |-> calls[c].cur.consent.preview,
                          applied |-> world[i].applied \/ applied,
                          commits |-> world[i].commits]]
          /\ Observes(c, "observe", st)
    BY DEF ExecutePort
  <1> DEFINE w == [calls   |-> world[i].calls + 1,
                   preview |-> calls[c].cur.consent.preview,
                   applied |-> world[i].applied \/ applied,
                   commits |-> world[i].commits]
             k == [step |-> "observe", req |-> calls[c].req, cur |-> calls[c].cur,
                   at |-> calls[c].at, grant |-> calls[c].grant, obs |-> st,
                   answer |-> "none"]
  <1>6. w \in World /\ w.calls = 1
    <2>1. (world[i].applied \/ applied) \in BOOLEAN
      BY Zenon
    <2>2. world[i].calls + 1 = 1
      BY <1>4
    <2>3. world[i].commits \in Nat
      BY <1>2 DEF World
    <2> QED
      BY <1>5, <2>1, <2>2, <2>3 DEF World
  <1>7. w.applied = applied
    BY <1>4
  <1>8. st \in ExecutionStatus
    BY InteractionAssumption
  <1>9. k \in Call
    BY <1>2, <1>8 DEF Call, Steps, Observation
  <1>10. calls' = [calls EXCEPT ![c] = k] /\ world' = [world EXCEPT ![i] = w]
    BY <1>3 DEF Observes, Goes
  <1>11. RowOK(rows[i], Len(previews[i]), w)
    <2>1. w.calls \in 0..1 /\ w.calls # 0
      BY <1>6
    <2> HIDE DEF w
    <2> QED
      BY <1>2, <1>4, <1>6, <2>1, Zenon DEF RowOK, Running
  <1> HIDE DEF w
  <1>12. CallOK(k, rows, [world EXCEPT ![i] = w])
    <2>1. [world EXCEPT ![i] = w][i] = w
      BY <1>2 DEF InteractionInv, TypeOK
    <2>2. AddressOK(k) /\ CopyOK(k, rows) /\ StepOK(k)
      BY <1>1, <1>2, Zenon DEF CallOK, AddressOK, CopyOK, StepOK, Informed
    <2>3. KnowsOK(k, rows, [world EXCEPT ![i] = w])
      BY <1>2, <1>3, <1>6, <1>7, <2>1, Zenon DEF KnowsOK
    <2> QED
      BY <2>2, <2>3 DEF CallOK
  <1>13. faults' \in 0..MaxFaults
    <2>1. faults' = faults \/ Fault
      BY <1>3
    <2> QED
      BY <1>2, <2>1, FaultOK
  <1>14. k.step # "port"
    OBVIOUS
  <1> HIDE DEF k
  <1>15. InteractionInv'
    BY <1>1, <1>2, <1>4, <1>6, <1>9, <1>10, <1>11, <1>12, <1>13, <1>14, WorldChanges, Zenon
  <1>16. AsksPort
    BY <1>1, <1>2, <1>4, <1>6, <1>10, Zenon DEF AsksPort
  <1> QED
    BY <1>15, <1>16 DEF Advance

\* The commit authority is asked.
LEMMA CanonicalCommitStep ==
  ASSUME InteractionInv, NEW c \in Callers, CanonicalCommit(c)
  PROVE  InteractionInv' /\ Advance
  <1> DEFINE i == Id(c)
             w == [calls   |-> world[i].calls,
                   preview |-> world[i].preview,
                   applied |-> world[i].applied,
                   commits |-> world[i].commits + 1]
  <1>1. /\ calls[c].step = "commit" /\ calls[c].step \notin {"idle", "create"}
        /\ UNCHANGED <<rows, previews, idem, now>>
    BY DEF CanonicalCommit, stores, At
  <1>2. /\ CallOK(calls[c], rows, world) /\ calls[c].cur \in Row /\ calls[c].at \in Nat
        /\ calls[c].grant \in Nat /\ Req(c) = calls[c].req /\ Req(c) \in Request
        /\ i = calls[c].req.digest.id /\ i \in Interactions
        /\ world[i] \in World /\ RowOK(rows[i], Len(previews[i]), world[i])
        /\ now \in 0..MaxTime /\ faults \in 0..MaxFaults
    BY <1>1, CallFacts
  <1>3. PICK obs \in {"COMMITTED", "VERIFIED"} :
          /\ Observes(c, "finish", obs)
          /\ world' = world \/ world' = [world EXCEPT ![i] = w]
          /\ faults' = faults \/ Fault
    BY DEF CanonicalCommit
  <1> DEFINE k == [step |-> "finish", req |-> calls[c].req, cur |-> calls[c].cur,
                   at |-> calls[c].at, grant |-> calls[c].grant, obs |-> obs,
                   answer |-> "none"]
  <1>4. w \in World /\ w.calls = world[i].calls /\ w.applied = world[i].applied
    <2>1. /\ world[i].calls \in Nat /\ world[i].preview \in Nat
          /\ world[i].applied \in BOOLEAN /\ world[i].commits \in Nat
      BY <1>2, Zenon DEF World
    <2>2. world[i].commits + 1 \in Nat
      BY <2>1
    <2> QED
      BY <2>1, <2>2 DEF World
  <1>5. calls' = [calls EXCEPT ![c] = k]
    BY <1>3 DEF Observes, Goes
  <1>6. k \in Call
    BY <1>2 DEF Call, Steps, Observation
  <1>7. world[i].applied
    BY <1>1, <1>2 DEF CallOK, KnowsOK
  <1>8. ASSUME NEW W, W[i].applied PROVE CallOK(k, rows, W)
    BY <1>1, <1>2, <1>8, Zenon DEF CallOK, AddressOK, CopyOK, StepOK, KnowsOK, Informed
  <1>9. now' \in 0..MaxTime /\ faults' \in 0..MaxFaults
    <2>1. faults' = faults \/ Fault
      BY <1>3
    <2> QED
      BY <1>1, <1>2, <2>1, FaultOK
  <1>10. k.step # "port"
    OBVIOUS
  <1> HIDE DEF k, w
  <1>11. CASE world' = world
    <2>1. CallOK(k, rows, world)
      BY <1>7, <1>8
    <2> QED
      BY <1>1, <1>5, <1>6, <1>9, <1>10, <1>11, <2>1, CallGoesOn
  <1>12. CASE world' = [world EXCEPT ![i] = w]
    <2>1. [world EXCEPT ![i] = w][i] = w
      BY <1>2 DEF InteractionInv, TypeOK
    <2>2. CallOK(k, rows, [world EXCEPT ![i] = w])
      BY <1>4, <1>7, <1>8, <2>1
    <2>3. RowOK(rows[i], Len(previews[i]), w)
      BY <1>2, <1>4, Zenon DEF RowOK
    <2>4. InteractionInv'
      BY <1>1, <1>2, <1>4, <1>5, <1>6, <1>9, <1>10, <1>12, <2>2, <2>3, WorldChanges, Zenon
    <2>5. RecordsCommit
      BY <1>1, <1>2, <1>4, <1>12, Zenon DEF RecordsCommit
    <2> QED
      BY <2>4, <2>5 DEF Advance
  <1> QED
    BY <1>3, <1>11, <1>12

-----------------------------------------------------------------------------
(* A new interaction.                                                      *)

\* repository.create.
LEMMA CreateStep ==
  ASSUME InteractionInv, NEW c \in Callers, Create(c)
  PROVE  InteractionInv' /\ Advance
  <1> DEFINE s == <<"create", Req(c).key>>
  <1>1. /\ calls[c].step = "create" /\ UNCHANGED <<world, now, faults>>
    BY DEF Create, At
  <1>2. /\ now' \in 0..MaxTime /\ faults' \in 0..MaxFaults
        /\ calls[c] \in Call /\ CallOK(calls[c], rows, world)
    BY <1>1 DEF InteractionInv, TypeOK, CallsOK
  <1>3. Req(c).key \in Keys /\ Req(c).digest \in Digest
    BY <1>1, <1>2 DEF CallOK, AddressOK, Req, Call, Request
  <1>4. s \in Scoped /\ s[1] = "create"
    BY <1>3 DEF Scoped, Operation
  <1>5. CASE UNCHANGED stores /\ (Succeeds(c) \/ Fails(c))
    BY <1>1, <1>2, <1>5, CallSucceeds, CallFails DEF stores
  <1>6. ASSUME NEW i \in Interactions, rows[i].rev = 0,
               rows' = [rows EXCEPT ![i] = NewRow],
               idem' = [idem EXCEPT ![s] = {[digest |-> Req(c).digest, id |-> i]}],
               Succeeds(c), UNCHANGED previews
        PROVE  InteractionInv' /\ Advance
    <2> DEFINE m == [digest |-> Req(c).digest, id |-> i]
    <2>1. /\ calls' = [calls EXCEPT ![c] = Done(c)]
          /\ Done(c) \in Call /\ Done(c).step = "idle"
          /\ CallOK(Done(c), rows', world)
      BY <1>6, DoneOK DEF InteractionInv, Succeeds, Done
    <2>2. m \in Claim
      BY <1>3 DEF Claim
    <2>3. TypeOK'
      BY <1>1, <1>2, <1>6, <2>1, <2>2, NoRowType DEF InteractionInv, TypeOK
    <2>4. /\ \A d \in Callers : calls'[d] = IF d = c THEN Done(c) ELSE calls[d]
          /\ \A j \in Interactions : rows'[j] = IF j = i THEN NewRow ELSE rows[j]
          /\ \A t \in Scoped : idem'[t] = IF t = s THEN {m} ELSE idem[t]
      BY <1>4, <1>6, <2>1 DEF InteractionInv, TypeOK
    <2>5. RowOK(rows[i], Len(previews[i]), world[i]) /\ rows[i].state = "NONE"
      BY <1>6 DEF InteractionInv, RowsOK, RowOK
    <2>6. RowOK(NewRow, Len(previews[i]), world[i])
      BY <2>5 DEF RowOK, NewRow, NoConsent, Previewed, Running
    <2>7. RowsOK'
      BY <1>1, <1>6, <2>4, <2>6 DEF InteractionInv, RowsOK
    <2>8. CallsOK'
      <3> SUFFICES ASSUME NEW d \in Callers PROVE CallOK(calls'[d], rows', world)
        BY <1>1 DEF CallsOK
      <3>1. CASE d = c
        BY <2>1, <2>4, <3>1
      <3>2. CASE d # c
        <4> DEFINE j == calls[d].req.digest.id
        <4>1. CallOK(calls[d], rows, world)
          BY DEF InteractionInv, CallsOK
        <4>2. calls[d].step \notin {"idle", "create"} =>
                j \in Interactions /\ rows'[j] = rows[j]
          BY <1>6, <2>4, <4>1, SMTT(60) DEF CallOK, AddressOK, CopyOK
        <4>3. CallOK(calls[d], rows', world)
          BY <4>1, <4>2 DEF CallOK, CopyOK, KnowsOK, Informed
        <4> QED
          BY <2>4, <3>2, <4>3
      <3> QED
        BY <3>1, <3>2
    <2>9. OnePort'
      BY <2>1, <2>4 DEF InteractionInv, OnePort, At, Id
    <2>10. ClaimsOK'
      BY <1>4, <2>4 DEF InteractionInv, ClaimsOK, ClaimOK
    <2>11. CreatesRow
      BY <1>1, <1>6, <2>5 DEF CreatesRow
    <2> QED
      BY <2>3, <2>7, <2>8, <2>9, <2>10, <2>11 DEF InteractionInv, Advance
  <1> QED
    BY <1>5, <1>6 DEF Create

-----------------------------------------------------------------------------
(* The transactions.                                                       *)

\* Marking a preview keeps the sequence and its length.
LEMMA MarkedOK ==
  ASSUME NEW pvs \in Seq(Preview), NEW p, NEW st \in PreviewStatus
  PROVE  Marked(pvs, p, st) \in Seq(Preview) /\ Len(Marked(pvs, p, st)) = Len(pvs)
  <1> DEFINE f(q) == IF q = p
                     THEN [kind |-> pvs[q].kind, status |-> st, expires |-> pvs[q].expires]
                     ELSE pvs[q]
  <1>1. Len(pvs) \in Nat
    OBVIOUS
  <1>2. \A q \in 1..Len(pvs) : f(q) \in Preview
    <2> SUFFICES ASSUME NEW q \in 1..Len(pvs) PROVE f(q) \in Preview
      OBVIOUS
    <2>1. pvs[q] \in Preview
      BY ElementOfSeq
    <2> QED
      BY <2>1 DEF Preview
  <1>3. Marked(pvs, p, st) = [q \in 1..Len(pvs) |-> f(q)]
    BY DEF Marked
  <1> HIDE DEF f
  <1> QED
    BY <1>1, <1>2, <1>3, IsASeq

\* The next revision of what the call has read, when that is still there.
LEMMA Revises ==
  ASSUME InteractionInv, NEW c \in Callers, calls[c].step \in Informed, Fresh(c),
         NEW state \in LifecycleState, NEW consent \in Consent,
         NEW outcome \in Outcome, NEW pvs \in Seq(Preview),
         Len(pvs) = consent.preview,
         consent.preview >= calls[c].cur.consent.preview,
         state \in Previewed => consent.preview >= 1,
         Moves(calls[c].cur.state, state, world[Id(c)])
  PROVE  NextRevision(Id(c), Moved(calls[c].cur, state, consent, outcome), pvs)
  <1> DEFINE cur == calls[c].cur
             row == Moved(cur, state, consent, outcome)
  <1>1. calls[c].step \notin {"idle", "create"}
    BY DEF Informed
  <1>2. cur \in Row /\ rows[Id(c)] = cur
    BY <1>1, CallFacts DEF Fresh
  <1>3. cur.rev \in Nat
    BY <1>2 DEF Row
  <1>4. row \in Row
    BY <1>3 DEF Row, Moved
  <1>5. row.rev = cur.rev + 1 /\ row.state = state /\ row.consent = consent
    BY DEF Moved
  <1> HIDE DEF row
  <1>6. NextRevision(Id(c), row, pvs)
    BY <1>2, <1>4, <1>5 DEF NextRevision
  <1> QED
    BY <1>6 DEF row

\* What a fresh call knows about the aggregate and its previews.
LEMMA FreshFacts ==
  ASSUME InteractionInv, NEW c \in Callers, calls[c].step \in Informed, Fresh(c)
  PROVE  /\ calls[c].cur.consent \in Consent /\ calls[c].cur.outcome \in Outcome
         /\ calls[c].cur.consent.preview \in Nat
         /\ previews[Id(c)] \in Seq(Preview)
         /\ Len(previews[Id(c)]) = calls[c].cur.consent.preview
         /\ calls[c].cur.state \in Previewed =>
              /\ calls[c].cur.consent.preview >= 1
              /\ Current(Id(c), calls[c].cur) \in Preview
  <1> DEFINE cur == calls[c].cur
  <1>1. calls[c].step \notin {"idle", "create"}
    BY DEF Informed
  <1>2. /\ cur \in Row /\ rows[Id(c)] = cur /\ previews[Id(c)] \in Seq(Preview)
        /\ RowOK(cur, Len(previews[Id(c)]), world[Id(c)])
    BY <1>1, CallFacts DEF Fresh
  <1>3. cur.consent \in Consent /\ cur.outcome \in Outcome
    BY <1>2 DEF Row
  <1>4. cur.consent.preview \in Nat
    BY <1>3 DEF Consent
  <1>5. Len(previews[Id(c)]) = cur.consent.preview
    BY <1>2 DEF RowOK
  <1>6. ASSUME cur.state \in Previewed
        PROVE  cur.consent.preview >= 1 /\ Current(Id(c), cur) \in Preview
    <2>1. cur.consent.preview >= 1
      BY <1>2, <1>6 DEF RowOK
    <2>2. cur.consent.preview \in 1..Len(previews[Id(c)])
      BY <1>4, <1>5, <2>1
    <2>3. previews[Id(c)][cur.consent.preview] \in Preview
      BY <1>2, <2>2, ElementOfSeq
    <2> QED
      BY <2>1, <2>3 DEF Current
  <1> QED
    BY <1>2, <1>3, <1>4, <1>5, <1>6

\* What a call that is about to write its operation knows.
LEMMA WriteFacts ==
  ASSUME InteractionInv, NEW c \in Callers, NEW op, Writes(c, op)
  PROVE  /\ calls[c].step \in Informed /\ Req(c).op = op
         /\ calls[c].cur.state \in From(op)
         /\ UNCHANGED <<world, now, faults>>
  <1>1. calls[c].step = "write" /\ Req(c).op = op /\ UNCHANGED <<world, now, faults>>
    BY DEF Writes, At
  <1>2. StepOK(calls[c]) /\ Req(c) = calls[c].req
    BY <1>1 DEF InteractionInv, CallsOK, CallOK, Req
  <1> QED
    BY <1>1, <1>2 DEF StepOK, Informed

\* The transaction of preview.
LEMMA WritePreviewStep ==
  ASSUME InteractionInv, NEW c \in Callers, WritePreview(c)
  PROVE  InteractionInv' /\ Advance
  <1> DEFINE cur     == calls[c].cur
             kind    == Req(c).digest.kind
             state   == IF kind.confirm \/ kind.approve
                        THEN "AWAITING_CONFIRMATION" ELSE "AUTHORIZED"
             consent == PreviewConsent(cur)
             marked  == Marked(previews[Id(c)], cur.consent.preview, "SUPERSEDED")
             new     == [kind |-> kind, status |-> "ACTIVE",
                         expires |-> calls[c].at + kind.ttl]
             pvs     == Append(marked, new)
  <1>1. /\ calls[c].step \in Informed /\ Req(c).op = "preview"
        /\ cur.state \in Undecided
        /\ UNCHANGED <<world, now, faults>>
    BY WriteFacts DEF WritePreview, From
  <1>2. Transition(c, "preview", Moved(cur, state, consent, cur.outcome), pvs, Succeeds(c))
    BY DEF WritePreview
  <1>3. ASSUME Fresh(c)
        PROVE  NextRevision(Id(c), Moved(cur, state, consent, cur.outcome), pvs)
    <2>1. /\ cur.outcome \in Outcome /\ cur.consent.preview \in Nat
          /\ previews[Id(c)] \in Seq(Preview)
          /\ Len(previews[Id(c)]) = cur.consent.preview
      BY <1>1, <1>3, FreshFacts
    <2>2. marked \in Seq(Preview) /\ Len(marked) = cur.consent.preview
      BY <2>1, MarkedOK DEF PreviewStatus
    <2>3. kind \in Kind /\ calls[c].at \in Nat
      BY <1>1, CallFacts DEF Informed
    <2>4. new \in Preview
      BY <2>3 DEF Preview, Kind, PreviewStatus
    <2>5. consent \in Consent /\ consent.preview = cur.consent.preview + 1
      BY <2>1 DEF PreviewConsent, Consent, NoGrant, Grant
    <2>6. state \in LifecycleState /\ state \in {"AWAITING_CONFIRMATION", "AUTHORIZED"}
      BY DEF LifecycleState
    <2> HIDE DEF marked, new, consent, state
    <2>7. pvs \in Seq(Preview) /\ Len(pvs) = consent.preview
      BY <2>2, <2>4, <2>5, AppendProperties
    <2>8. Moves(cur.state, state, world[Id(c)])
      BY <1>1, <2>6 DEF Moves
    <2>9. consent.preview >= cur.consent.preview /\ consent.preview >= 1
      BY <2>1, <2>5
    <2> HIDE DEF pvs
    <2> QED
      BY <1>1, <1>3, <2>1, <2>5, <2>6, <2>7, <2>8, <2>9, Revises
  <1> HIDE DEF state, consent, pvs
  <1> QED
    BY <1>1, <1>2, <1>3, CommitAndAnswer

\* The transaction of confirm.
LEMMA WriteConfirmStep ==
  ASSUME InteractionInv, NEW c \in Callers, WriteConfirm(c)
  PROVE  InteractionInv' /\ Advance
  <1> DEFINE cur     == calls[c].cur
             p       == cur.consent.preview
             pv      == Current(Id(c), cur)
             state   == IF pv.kind.approve THEN "AWAITING_CONFIRMATION" ELSE "AUTHORIZED"
             grant   == [preview |-> p,
                         expires |-> Min2(pv.expires, calls[c].at + ConsentTtl)]
             consent == [preview |-> p, confirmation |-> grant,
                         approval |-> cur.consent.approval]
             pvs     == Marked(previews[Id(c)], p, "CONFIRMED")
  <1>1. /\ calls[c].step \in Informed /\ Req(c).op = "confirm"
        /\ cur.state = "AWAITING_CONFIRMATION"
        /\ UNCHANGED <<world, now, faults>>
    BY WriteFacts DEF WriteConfirm, From
  <1>2. Transition(c, "confirm", Moved(cur, state, consent, cur.outcome), pvs, Succeeds(c))
    BY DEF WriteConfirm
  <1>3. ASSUME Fresh(c)
        PROVE  NextRevision(Id(c), Moved(cur, state, consent, cur.outcome), pvs)
    <2>1. /\ cur.consent \in Consent /\ cur.outcome \in Outcome /\ p \in Nat
          /\ previews[Id(c)] \in Seq(Preview) /\ Len(previews[Id(c)]) = p
          /\ p >= 1 /\ pv \in Preview
      BY <1>1, <1>3, FreshFacts DEF Previewed
    <2>2. calls[c].at \in Nat
      BY <1>1, CallFacts DEF Informed
    <2>3. pv.expires \in Nat /\ calls[c].at + ConsentTtl \in Nat
      BY <2>1, <2>2, InteractionAssumption, SMTT(30) DEF Preview
    <2>4. grant \in Grant
      BY <2>1, <2>3 DEF Grant, Min2
    <2> HIDE DEF grant
    <2>5. consent \in Consent /\ consent.preview = p
      BY <2>1, <2>4 DEF Consent
    <2>6. state \in LifecycleState /\ state \in {"AWAITING_CONFIRMATION", "AUTHORIZED"}
      BY DEF LifecycleState
    <2>7. pvs \in Seq(Preview) /\ Len(pvs) = consent.preview
      BY <2>1, <2>5, MarkedOK DEF PreviewStatus
    <2> HIDE DEF consent, state, pvs
    <2>8. Moves(cur.state, state, world[Id(c)])
      BY <1>1, <2>6 DEF Moves, Undecided
    <2>9. consent.preview >= cur.consent.preview /\ consent.preview >= 1
      BY <2>1, <2>5
    <2> QED
      BY <1>1, <1>3, <2>1, <2>5, <2>6, <2>7, <2>8, <2>9, Revises
  <1> HIDE DEF state, consent, pvs
  <1> QED
    BY <1>1, <1>2, <1>3, CommitAndAnswer

\* The transaction of approve.
LEMMA WriteApproveStep ==
  ASSUME InteractionInv, NEW c \in Callers, WriteApprove(c)
  PROVE  InteractionInv' /\ Advance
  <1> DEFINE cur     == calls[c].cur
             consent == [preview |-> cur.consent.preview,
                         confirmation |-> cur.consent.confirmation,
                         approval |-> [preview |-> cur.consent.preview,
                                       expires |-> calls[c].grant]]
             pvs     == previews[Id(c)]
  <1>1. /\ calls[c].step \in Informed /\ Req(c).op = "approve"
        /\ cur.state = "AWAITING_CONFIRMATION"
        /\ UNCHANGED <<world, now, faults>>
    BY WriteFacts DEF WriteApprove, From
  <1>2. Transition(c, "approve", Moved(cur, "AUTHORIZED", consent, cur.outcome), pvs,
                   Succeeds(c))
    BY DEF WriteApprove
  <1>3. ASSUME Fresh(c)
        PROVE  NextRevision(Id(c), Moved(cur, "AUTHORIZED", consent, cur.outcome), pvs)
    <2>1. /\ cur.consent \in Consent /\ cur.outcome \in Outcome
          /\ cur.consent.preview \in Nat /\ pvs \in Seq(Preview)
          /\ Len(pvs) = cur.consent.preview /\ cur.consent.preview >= 1
      BY <1>1, <1>3, FreshFacts DEF Previewed
    <2>2. calls[c].grant \in Nat
      BY <1>1, CallFacts DEF Informed
    <2>3. consent \in Consent /\ consent.preview = cur.consent.preview
      BY <2>1, <2>2 DEF Consent, Grant
    <2>4. "AUTHORIZED" \in LifecycleState
      BY DEF LifecycleState
    <2>5. Moves(cur.state, "AUTHORIZED", world[Id(c)])
      BY <1>1 DEF Moves, Undecided
    <2> HIDE DEF consent
    <2>6. consent.preview >= cur.consent.preview /\ consent.preview >= 1
      BY <2>1, <2>3
    <2> QED
      BY <1>1, <1>3, <2>1, <2>3, <2>4, <2>5, <2>6, Revises
  <1> HIDE DEF consent
  <1> QED
    BY <1>1, <1>2, <1>3, CommitAndAnswer

\* Giving up: cancel and expire leave the consent alone.
LEMMA GivesUp ==
  ASSUME InteractionInv, NEW c \in Callers, calls[c].step \in Informed, Fresh(c),
         NEW state \in {"CANCELLED", "EXPIRED"},
         calls[c].cur.state \in Undecided \cup {"AUTHORIZED"},
         NEW pvs \in Seq(Preview), Len(pvs) = Len(previews[Id(c)])
  PROVE  NextRevision(Id(c), Moved(calls[c].cur, state, calls[c].cur.consent,
                                   calls[c].cur.outcome), pvs)
  <1> DEFINE cur == calls[c].cur
  <1>1. /\ cur.consent \in Consent /\ cur.outcome \in Outcome
        /\ cur.consent.preview \in Nat /\ Len(pvs) = cur.consent.preview
    BY FreshFacts
  <1>2. state \in LifecycleState /\ state \notin Previewed
    BY DEF LifecycleState, Previewed, Running
  <1>3. Moves(cur.state, state, world[Id(c)])
    BY DEF Moves
  <1>4. cur.consent.preview >= cur.consent.preview
    BY <1>1
  <1> QED
    BY <1>1, <1>2, <1>3, <1>4, Revises

\* The transaction of cancel.
LEMMA WriteCancelStep ==
  ASSUME InteractionInv, NEW c \in Callers, WriteCancel(c)
  PROVE  InteractionInv' /\ Advance
  <1> DEFINE cur == calls[c].cur
             p   == cur.consent.preview
             old == previews[Id(c)]
             pvs == IF p # 0 /\ old[p].status = "ACTIVE"
                    THEN Marked(old, p, "SUPERSEDED") ELSE old
             row == Moved(cur, "CANCELLED", cur.consent, cur.outcome)
  <1>1. /\ calls[c].step \in Informed /\ Req(c).op = "cancel"
        /\ cur.state \in Undecided \cup {"AUTHORIZED"}
        /\ UNCHANGED <<world, now, faults>>
    BY WriteFacts, SMTT(30) DEF WriteCancel, From
  <1>2. Transition(c, "cancel", row, pvs, Succeeds(c))
    BY DEF WriteCancel
  <1>3. ASSUME Fresh(c) PROVE NextRevision(Id(c), row, pvs)
    <2>1. old \in Seq(Preview)
      BY <1>1, <1>3, FreshFacts
    <2>2. pvs \in Seq(Preview) /\ Len(pvs) = Len(old)
      BY <2>1, MarkedOK DEF PreviewStatus
    <2> HIDE DEF pvs
    <2> QED
      BY <1>1, <1>3, <2>2, GivesUp
  <1> HIDE DEF pvs, row
  <1> QED
    BY <1>1, <1>2, <1>3, CommitAndAnswer

\* The transaction of expire.
LEMMA WriteExpireStep ==
  ASSUME InteractionInv, NEW c \in Callers, WriteExpire(c)
  PROVE  InteractionInv' /\ Advance
  <1> DEFINE cur == calls[c].cur
             old == previews[Id(c)]
             pvs == Marked(old, cur.consent.preview, "EXPIRED")
             row == Moved(cur, "EXPIRED", cur.consent, cur.outcome)
  <1>1. /\ calls[c].step \in Informed /\ Req(c).op = "expire"
        /\ cur.state \in Undecided \cup {"AUTHORIZED"}
        /\ UNCHANGED <<world, now, faults>>
    BY WriteFacts DEF WriteExpire, From, Undecided
  <1>2. Transition(c, "expire", row, pvs, Succeeds(c))
    BY DEF WriteExpire
  <1>3. ASSUME Fresh(c) PROVE NextRevision(Id(c), row, pvs)
    <2>1. old \in Seq(Preview)
      BY <1>1, <1>3, FreshFacts
    <2>2. pvs \in Seq(Preview) /\ Len(pvs) = Len(old)
      BY <2>1, MarkedOK DEF PreviewStatus
    <2> HIDE DEF pvs
    <2> QED
      BY <1>1, <1>3, <2>2, GivesUp
  <1> HIDE DEF pvs, row
  <1> QED
    BY <1>1, <1>2, <1>3, CommitAndAnswer

\* A transaction after which the call goes on knowing what it wrote.
LEMMA CommitAndGo ==
  ASSUME InteractionInv, NEW c \in Callers, calls[c].step \in Informed,
         NEW op \in {Req(c).op, "execute", "reconcile_execution"},
         NEW row, NEW step \in {"port", "relookup"}, NEW t \in Nat,
         Transition(c, op, row, previews[Id(c)], Goes(c, step, row, t, 0, "none")),
         UNCHANGED <<world, now, faults>>,
         Fresh(c) =>
           /\ NextRevision(Id(c), row, previews[Id(c)])
           /\ step = "port" => /\ row.state = "EXECUTING"
                               /\ rows[Id(c)].state \notin Running
                               /\ world[Id(c)].calls = 0
  PROVE  InteractionInv' /\ Advance
  <1> DEFINE i == Id(c)
             k == [step |-> step, req |-> calls[c].req, cur |-> row, at |-> t,
                   grant |-> 0, obs |-> "none", answer |-> "none"]
             R == [rows EXCEPT ![i] = row]
  <1>1. Commits(c, op, row, previews[i], k)
    BY DEF Commits, Transition, Goes
  <1>2. /\ calls[c].req \in Request /\ Req(c) = calls[c].req
        /\ i \in Interactions /\ i = calls[c].req.digest.id
        /\ rows[i].rev \in Nat /\ rows[i].rev >= 1
        /\ CallOK(calls[c], rows, world)
    BY CallFacts DEF Informed
  <1>3. ASSUME Fresh(c)
        PROVE  /\ NextRevision(i, row, previews[i])
               /\ k \in Call
               /\ CallOK(k, R, world)
               /\ k.step = "port" => k.req.digest.id = i /\ rows[i].state \notin Running
    <2>1. row \in Row /\ row.rev = rows[i].rev + 1
          /\ (row.state \in Previewed => row.consent.preview >= 1)
      BY <1>3, SMTT(30) DEF NextRevision
    <2>2. row.rev \in Nat /\ row.rev >= 1 /\ row.consent.preview \in Nat
      <3>1. row.rev \in Nat /\ row.consent.preview \in Nat
        BY <2>1, RowNumbers, Zenon
      <3>2. row.rev = rows[i].rev + 1
        BY <2>1, Zenon
      <3>3. rows[i].rev \in Nat
        BY <1>2, Zenon
      <3> QED
        BY <3>1, <3>2, <3>3
    <2>3. R[i] = row
      BY <1>2 DEF InteractionInv, TypeOK
    <2>4. k \in Call
      BY <1>2, <2>1 DEF Call, Steps, Observation
    <2>5. AddressOK(k)
      BY <1>2 DEF CallOK, AddressOK, Informed
    <2>6. CopyOK(k, R)
      <3>1. k.cur = row /\ k.req.digest.id = i
        BY <1>2
      <3> HIDE DEF k, R, i
      <3> QED
        BY <2>1, <2>2, <2>3, <3>1, FreshCopy
    <2>7. StepOK(k)
      BY <1>3 DEF StepOK
    <2>8. KnowsOK(k, R, world)
      <3>1. k.step \in {"port", "relookup"} /\ k.req.digest.id = i
        BY <1>2
      <3>2. step = "port" => R[i].state \in Running /\ world[i].calls = 0
        BY <1>3, <2>3 DEF Running
      <3> QED
        BY <3>1, <3>2 DEF KnowsOK
    <2>9. CallOK(k, R, world)
      BY <2>5, <2>6, <2>7, <2>8 DEF CallOK
    <2> QED
      BY <1>2, <1>3, <2>4, <2>9, Zenon
  <1> HIDE DEF k
  <1> QED
    BY <1>1, <1>3, Commit

\* The transaction that writes the intent to execute.
LEMMA WriteExecuteStep ==
  ASSUME InteractionInv, NEW c \in Callers, WriteExecute(c)
  PROVE  InteractionInv' /\ Advance
  <1> DEFINE cur     == calls[c].cur
             outcome == StartedOutcome(cur)
             row     == Moved(cur, "EXECUTING", cur.consent, outcome)
  <1>1. /\ calls[c].step \in Informed /\ Req(c).op = "execute"
        /\ cur.state = "AUTHORIZED"
        /\ UNCHANGED <<world, now, faults>>
    BY WriteFacts DEF WriteExecute, From
  <1>2. Transition(c, "execute", row, previews[Id(c)],
                   Goes(c, "port", row, calls[c].at, 0, "none"))
    BY DEF WriteExecute
  <1>3. ASSUME Fresh(c)
        PROVE  /\ NextRevision(Id(c), row, previews[Id(c)])
               /\ row.state = "EXECUTING"
               /\ rows[Id(c)].state \notin Running
               /\ world[Id(c)].calls = 0
    <2>1. /\ cur.consent \in Consent /\ cur.outcome \in Outcome
          /\ cur.consent.preview \in Nat /\ previews[Id(c)] \in Seq(Preview)
          /\ Len(previews[Id(c)]) = cur.consent.preview /\ cur.consent.preview >= 1
      BY <1>1, <1>3, FreshFacts DEF Previewed
    <2>2. outcome \in Outcome
      BY <2>1 DEF StartedOutcome, Outcome, ExecutionStatus
    <2>3. "EXECUTING" \in LifecycleState /\ Moves(cur.state, "EXECUTING", world[Id(c)])
      BY <1>1 DEF LifecycleState, Moves
    <2>4. cur.consent.preview >= cur.consent.preview
      BY <2>1
    <2> HIDE DEF outcome
    <2>5. NextRevision(Id(c), row, previews[Id(c)])
      BY <1>1, <1>3, <2>1, <2>2, <2>3, <2>4, Revises
    <2>6. row.state = "EXECUTING"
      BY DEF Moved
    <2>7. rows[Id(c)].state = "AUTHORIZED"
      BY <1>1, <1>3 DEF Fresh
    <2>8. RowOK(rows[Id(c)], Len(previews[Id(c)]), world[Id(c)])
      BY <1>1, CallFacts DEF Informed
    <2> QED
      BY <2>5, <2>6, <2>7, <2>8 DEF RowOK, Running
  <1>4. calls[c].at \in Nat
    BY <1>1, CallFacts DEF Informed
  <1> HIDE DEF row
  <1> QED
    BY <1>1, <1>2, <1>3, <1>4, CommitAndGo

\* A running interaction moves on; its consent stays.
LEMMA RunsOn ==
  ASSUME InteractionInv, NEW c \in Callers, calls[c].step \in Informed, Fresh(c),
         NEW state \in LifecycleState, NEW outcome \in Outcome,
         calls[c].cur.state \in Running,
         Moves(calls[c].cur.state, state, world[Id(c)])
  PROVE  NextRevision(Id(c), Moved(calls[c].cur, state, calls[c].cur.consent, outcome),
                      previews[Id(c)])
  <1> DEFINE cur == calls[c].cur
  <1>1. /\ cur.consent \in Consent
        /\ cur.consent.preview \in Nat /\ previews[Id(c)] \in Seq(Preview)
        /\ Len(previews[Id(c)]) = cur.consent.preview /\ cur.consent.preview >= 1
    BY FreshFacts DEF Previewed
  <1>2. cur.consent.preview >= cur.consent.preview
    BY <1>1
  <1> QED
    BY <1>1, <1>2, Revises

\* The transaction that writes what the execution port reported.
LEMMA ObserveStep ==
  ASSUME InteractionInv, NEW c \in Callers, Observe(c)
  PROVE  InteractionInv' /\ Advance
  <1> DEFINE cur     == calls[c].cur
             st      == calls[c].obs
             state   == ObservedState(st)
             outcome == [execution |-> st,
                         recovery |-> IF st = "UNCERTAIN" THEN "PENDING"
                                                          ELSE "NOT_REQUIRED",
                         result |-> cur.outcome.result, commit |-> cur.outcome.commit]
             row     == Moved(cur, state, cur.consent, outcome)
  <1>1. calls[c].step = "observe" /\ UNCHANGED <<world, now, faults>>
    BY DEF Observe, At
  <1>2. calls[c].step \in Informed /\ calls[c].step \notin {"idle", "create"}
    BY <1>1 DEF Informed
  <1>3. Transition(c, "execute", row, previews[Id(c)], Succeeds(c))
    BY DEF Observe
  <1>4. /\ cur.state = "EXECUTING" /\ world[Id(c)].calls = 1
        /\ st \in {"REJECTED", "FAILED"} => ~world[Id(c)].applied
        /\ st \in ExecutionStatus
    BY <1>1, <1>2, CallFacts, InteractionAssumption DEF CallOK, StepOK, KnowsOK
  <1>5. ASSUME Fresh(c) PROVE NextRevision(Id(c), row, previews[Id(c)])
    <2>1. cur.outcome \in Outcome
      BY <1>2, <1>5, FreshFacts
    <2>2. outcome \in Outcome
      BY <1>4, <2>1 DEF Outcome, RecoveryStatus
    <2>3. /\ state \in {"FAILED", "RECOVERY_REQUIRED", "VERIFYING"}
          /\ state = "FAILED" => st \in {"REJECTED", "FAILED"}
      BY DEF ObservedState
    <2> HIDE DEF state, outcome
    <2>4. state \in LifecycleState /\ cur.state \in Running
      BY <1>4, <2>3 DEF LifecycleState, Running
    <2>5. Moves(cur.state, state, world[Id(c)])
      BY <1>4, <2>3, <2>4 DEF Moves
    <2> QED
      BY <1>2, <1>5, <2>2, <2>4, <2>5, RunsOn
  <1> HIDE DEF row
  <1> QED
    BY <1>1, <1>2, <1>3, <1>5, CommitAndAnswer

\* The transaction by which recover takes over an abandoned execution.
LEMMA ReconcileStep ==
  ASSUME InteractionInv, NEW c \in Callers, Reconcile(c)
  PROVE  InteractionInv' /\ Advance
  <1> DEFINE cur     == calls[c].cur
             outcome == [execution |-> "UNCERTAIN", recovery |-> "PENDING",
                         result |-> cur.outcome.result, commit |-> cur.outcome.commit]
             row     == Moved(cur, "RECOVERY_REQUIRED", cur.consent, outcome)
  <1>1. calls[c].step = "reconcile" /\ UNCHANGED <<world, now, faults>>
    BY DEF Reconcile, At
  <1>2. calls[c].step \in Informed /\ calls[c].step \notin {"idle", "create"}
    BY <1>1 DEF Informed
  <1>3. Transition(c, "reconcile_execution", row, previews[Id(c)],
                   Goes(c, "relookup", row, calls[c].at, 0, "none"))
    BY DEF Reconcile
  <1>4. cur.state = "EXECUTING" /\ calls[c].at \in Nat
    BY <1>1, <1>2, CallFacts DEF CallOK, StepOK
  <1>5. ASSUME Fresh(c) PROVE NextRevision(Id(c), row, previews[Id(c)])
    <2>1. cur.outcome \in Outcome
      BY <1>2, <1>5, FreshFacts
    <2>2. outcome \in Outcome
      BY <2>1 DEF Outcome, RecoveryStatus, ExecutionStatus
    <2> HIDE DEF outcome
    <2>3. /\ "RECOVERY_REQUIRED" \in LifecycleState /\ cur.state \in Running
          /\ Moves(cur.state, "RECOVERY_REQUIRED", world[Id(c)])
      BY <1>4 DEF LifecycleState, Running, Moves
    <2> QED
      BY <1>2, <1>5, <2>2, <2>3, RunsOn
  <1> HIDE DEF row
  <1> QED
    BY <1>1, <1>2, <1>3, <1>4, <1>5, CommitAndGo

\* The transaction of verify and recover.
LEMMA FinishStep ==
  ASSUME InteractionInv, NEW c \in Callers, Finish(c)
  PROVE  InteractionInv' /\ Advance
  <1> DEFINE cur == calls[c].cur
             obs == calls[c].obs
             row == VerifiedRow(cur, obs)
             op  == Req(c).op
  <1>1. calls[c].step = "finish" /\ UNCHANGED <<world, now, faults>>
    BY DEF Finish, At
  <1>2. calls[c].step \in Informed /\ calls[c].step \notin {"idle", "create"}
    BY <1>1 DEF Informed
  <1>3. Transition(c, op, row, previews[Id(c)], Succeeds(c))
    BY DEF Finish
  <1>4. /\ cur.state \in {"VERIFYING", "RECOVERY_REQUIRED"}
        /\ obs = "COMMITTED" => world[Id(c)].applied
    BY <1>1, <1>2, CallFacts DEF CallOK, StepOK, KnowsOK
  <1>5. cur.state \in Running
    BY <1>4 DEF Running
  <1>6. ASSUME Fresh(c) PROVE NextRevision(Id(c), row, previews[Id(c)])
    <2>1. cur.outcome \in Outcome
      BY <1>2, <1>6, FreshFacts
    <2>2. CASE obs = "COMMITTED"
      <3> DEFINE outcome == [execution |-> "COMPLETED",
                             recovery |-> IF cur.outcome.recovery = "NOT_REQUIRED"
                                          THEN "NOT_REQUIRED" ELSE "RECOVERED",
                             result |-> TRUE, commit |-> TRUE]
      <3>1. row = Moved(cur, "SUCCEEDED", cur.consent, outcome)
        BY <2>2 DEF VerifiedRow
      <3>2. outcome \in Outcome
        BY DEF Outcome, RecoveryStatus, ExecutionStatus
      <3>3. "SUCCEEDED" \in LifecycleState /\ Moves(cur.state, "SUCCEEDED", world[Id(c)])
        BY <1>4, <1>5, <2>2 DEF LifecycleState, Moves
      <3> HIDE DEF outcome, row
      <3> QED
        BY <1>2, <1>5, <1>6, <3>1, <3>2, <3>3, RunsOn
    <2>3. CASE obs # "COMMITTED"
      <3> DEFINE outcome == [execution |-> cur.outcome.execution, recovery |-> "PENDING",
                             result |-> obs = "VERIFIED", commit |-> cur.outcome.commit]
      <3>1. row = Moved(cur, "RECOVERY_REQUIRED", cur.consent, outcome)
        BY <2>3 DEF VerifiedRow
      <3>2. outcome \in Outcome
        BY <2>1 DEF Outcome, RecoveryStatus
      <3>3. /\ "RECOVERY_REQUIRED" \in LifecycleState
            /\ Moves(cur.state, "RECOVERY_REQUIRED", world[Id(c)])
        BY <1>5 DEF LifecycleState, Moves
      <3> HIDE DEF outcome, row
      <3> QED
        BY <1>2, <1>5, <1>6, <3>1, <3>2, <3>3, RunsOn
    <2> QED
      BY <2>2, <2>3
  <1> HIDE DEF row
  <1> QED
    BY <1>1, <1>2, <1>3, <1>6, CommitAndAnswer

-----------------------------------------------------------------------------
(* The theorems.                                                           *)

\* The invariant holds of empty tables.
LEMMA InvInit ==
  Init => InteractionInv
  <1> SUFFICES ASSUME Init PROVE InteractionInv
    OBVIOUS
  <1>1. IdleCall \in Call /\ CallOK(IdleCall, rows, world)
    BY IdleOK
  <1>2. \A c \in Callers : calls[c] = IdleCall
    BY DEF Init
  <1>3. TypeOK
    BY <1>1, NoRowType, InteractionAssumption DEF Init, TypeOK, World
  <1>4. RowsOK
    <2> SUFFICES ASSUME NEW i \in Interactions
                 PROVE  RowOK(rows[i], Len(previews[i]), world[i])
      BY DEF RowsOK
    <2>1. /\ rows[i] = NoRow /\ Len(previews[i]) = 0
          /\ world[i] = [calls |-> 0, preview |-> 0, applied |-> FALSE, commits |-> 0]
      BY DEF Init
    <2> QED
      BY <2>1 DEF RowOK, NoRow, NoConsent, Previewed, Running
  <1>5. CallsOK
    BY <1>1, <1>2 DEF CallsOK
  <1>6. OnePort
    BY <1>2 DEF OnePort, At, IdleCall
  <1>7. ClaimsOK
    BY DEF Init, ClaimsOK
  <1> QED
    BY <1>3, <1>4, <1>5, <1>6, <1>7 DEF InteractionInv

\* Every step keeps the invariant and moves the stores only as Advance says.
LEMMA InvNext ==
  ASSUME InteractionInv, [Next]_vars
  PROVE  InteractionInv' /\ Advance
  <1>1. ASSUME NEW c \in Callers, InvokeCreate(c) \/ InvokeOther(c) \/ Crash(c)
        PROVE  InteractionInv' /\ Advance
    BY <1>1, InvokeCreateStep, InvokeOtherStep, CrashStep
  <1>2. ASSUME NEW c \in Callers, Step(c) PROVE InteractionInv' /\ Advance
    BY <1>2, CreateStep, LookupStep, ReadActionStep, ReadRecoverStep, RereadStep,
       WritePreviewStep, WriteConfirmStep, AuthorizeStep, WriteApproveStep,
       WriteCancelStep, WriteExpireStep, WriteExecuteStep, ExecutePortStep,
       ObserveStep, ReconcileStep, VerifyPortStep, CanonicalCommitStep, FinishStep
       DEF Step, ConsentStep, ExecutionStep
  <1>3. CASE Tick
    BY <1>3, TickStep
  <1>4. CASE UNCHANGED vars
    <2>1. UNCHANGED <<rows, previews, idem, world, calls, now, faults>>
      BY <1>4 DEF vars
    <2>2. TypeOK' /\ RowsOK' /\ CallsOK' /\ OnePort' /\ ClaimsOK'
      BY <2>1 DEF InteractionInv, TypeOK, RowsOK, CallsOK, OnePort, ClaimsOK, At, Id
    <2> QED
      BY <2>1, <2>2 DEF InteractionInv, Advance
  <1> QED
    BY <1>1, <1>2, <1>3, <1>4 DEF Next

\* The invariant holds for ever.
LEMMA InvHolds ==
  Spec => []InteractionInv
  <1>1. InteractionInv /\ [Next]_vars => InteractionInv'
    BY InvNext
  <1> QED
    BY <1>1, InvInit, PTL DEF Spec

\* Every aggregate, preview, claim, call and port record keeps its type, for
\* any set of interactions and callers and whatever keys, kinds and port
\* answers there are.
THEOREM InteractionTypeCorrect ==
  Spec => []TypeOK
  <1>1. InteractionInv => TypeOK
    BY DEF InteractionInv
  <1> QED
    BY <1>1, InvHolds, PTL

\* The phase of every interaction.
PhasesOf(R) == [i \in Interactions |-> PhaseOf(R[i].state)]
AskedIn(W)  == [i \in Interactions |-> W[i].calls]
DoneIn(W)   == [i \in Interactions |-> W[i].applied]

\* The phase of every lifecycle state.
LEMMA PhaseCases ==
  /\ PhaseOf("NONE") = "absent"
  /\ PhaseOf("REQUESTED") = "open"
  /\ \A s \in Undecided : PhaseOf(s) = "open"
  /\ PhaseOf("AUTHORIZED") = "authorized"
  /\ \A s \in Running : PhaseOf(s) = "running"
  /\ PhaseOf("SUCCEEDED") = "succeeded"
  /\ PhaseOf("FAILED") = "failed"
  /\ \A s \in {"CANCELLED", "EXPIRED"} : PhaseOf(s) = "closed"
  BY DEF PhaseOf, Undecided, Running

\* Writing one aggregate changes the phase of that interaction only.
LEMMA PhaseOfRow ==
  ASSUME rows \in [Interactions -> Row], NEW i \in Interactions, NEW row,
         rows' = [rows EXCEPT ![i] = row]
  PROVE  PhasesOf(rows') = [PhasesOf(rows) EXCEPT ![i] = PhaseOf(row.state)]
  BY DEF PhasesOf

\* Every step of the calls is a step of the contract or changes nothing of it.
LEMMA AdvanceIsContract ==
  ASSUME InteractionInv, InteractionInv', Advance
  PROVE  [Contract!Next]_(Contract!vars)
  <1>0. rows \in [Interactions -> Row] /\ world \in [Interactions -> World]
    BY DEF InteractionInv, TypeOK
  <1>1. CASE UNCHANGED <<rows, world>>
    BY <1>1 DEF Contract!vars
  <1>2. CASE MovesRow
    <2>1. world' = world
      BY <1>2 DEF MovesRow
    <2>2. PICK i \in Interactions, row \in Row :
            /\ rows' = [rows EXCEPT ![i] = row]
            /\ Moves(rows[i].state, row.state, world[i])
      BY <1>2 DEF MovesRow
    <2> DEFINE old == rows[i].state
               new == row.state
    <2>3. PhasesOf(rows') = [PhasesOf(rows) EXCEPT ![i] = PhaseOf(new)]
      BY <1>0, <2>2, PhaseOfRow
    <2>4. PhasesOf(rows)[i] = PhaseOf(old) /\ DoneIn(world)[i] = world[i].applied
      BY DEF PhasesOf, DoneIn
    <2>5. AskedIn(world') = AskedIn(world) /\ DoneIn(world') = DoneIn(world)
      BY <2>1
    <2>6. ASSUME PhaseOf(new) = PhaseOf(old) PROVE UNCHANGED Contract!vars
      <3>1. PhasesOf(rows') = PhasesOf(rows)
        BY <2>3, <2>4, <2>6 DEF PhasesOf
      <3> QED
        BY <2>5, <3>1 DEF Contract!vars, PhasesOf, AskedIn, DoneIn
    <2>7. ASSUME NEW from, PhaseOf(old) \in from
          PROVE  Contract!Move(i, from, PhaseOf(new))
      BY <2>3, <2>4, <2>5, <2>7 DEF Contract!Move, PhasesOf, AskedIn, DoneIn
    <2>8. CASE old \in Undecided /\ new = "AWAITING_CONFIRMATION"
      BY <2>6, <2>8, PhaseCases DEF Undecided
    <2>9. CASE old \in Undecided /\ new = "AUTHORIZED"
      <3>1. Contract!Authorize(i)
        BY <2>7, <2>9, PhaseCases DEF Contract!Authorize
      <3> QED
        BY <3>1 DEF Contract!Next
    <2>10. CASE old \in Undecided \cup {"AUTHORIZED"} /\ new \in {"CANCELLED", "EXPIRED"}
      <3>1. PhaseOf(old) \in {"open", "authorized"} /\ PhaseOf(new) = "closed"
        BY <2>10, PhaseCases
      <3>2. Contract!Close(i)
        BY <2>7, <3>1 DEF Contract!Close
      <3> QED
        BY <3>2 DEF Contract!Next
    <2>11. CASE old = "AUTHORIZED" /\ new = "EXECUTING"
      <3>1. PhaseOf(old) = "authorized" /\ PhaseOf(new) = "running"
        BY <2>11, PhaseCases DEF Running
      <3>2. Contract!Start(i)
        BY <2>7, <3>1 DEF Contract!Start
      <3> QED
        BY <3>2 DEF Contract!Next
    <2>12. CASE old \in Running /\ new \in {"VERIFYING", "RECOVERY_REQUIRED"}
      <3>1. new \in Running
        BY <2>12 DEF Running
      <3> QED
        BY <2>6, <2>12, <3>1, PhaseCases
    <2>13. CASE old \in Running /\ new = "SUCCEEDED" /\ world[i].applied
      <3>1. PhaseOf(old) = "running" /\ PhaseOf(new) = "succeeded"
        BY <2>13, PhaseCases
      <3>2. Contract!Move(i, {"running"}, "succeeded")
        BY <2>7, <3>1
      <3>3. Contract!Succeed(i)
        BY <2>13, <3>2 DEF Contract!Succeed
      <3> QED
        BY <3>3 DEF Contract!Next
    <2>14. CASE old \in Running /\ new = "FAILED" /\ ~world[i].applied
      <3>1. PhaseOf(old) = "running" /\ PhaseOf(new) = "failed"
        BY <2>14, PhaseCases
      <3>2. Contract!Move(i, {"running"}, "failed")
        BY <2>7, <3>1
      <3>3. Contract!Fail(i)
        BY <2>14, <3>2 DEF Contract!Fail
      <3> QED
        BY <3>3 DEF Contract!Next
    <2> QED
      BY <2>2, <2>8, <2>9, <2>10, <2>11, <2>12, <2>13, <2>14 DEF Moves
  <1>3. CASE CreatesRow
    <2>1. world' = world
      BY <1>3 DEF CreatesRow
    <2>2. PICK i \in Interactions :
            rows[i].state = "NONE" /\ rows' = [rows EXCEPT ![i] = NewRow]
      BY <1>3 DEF CreatesRow
    <2>3. NewRow.state = "REQUESTED"
      BY DEF NewRow
    <2>4. PhasesOf(rows') = [PhasesOf(rows) EXCEPT ![i] = "open"]
      <3>1. PhasesOf(rows') = [PhasesOf(rows) EXCEPT ![i] = PhaseOf(NewRow.state)]
        BY <1>0, <2>2, PhaseOfRow
      <3>2. PhaseOf(NewRow.state) = "open"
        BY <2>3, PhaseCases
      <3> QED
        BY <3>1, <3>2
    <2>5. PhasesOf(rows)[i] = "absent"
      BY <2>2, PhaseCases DEF PhasesOf
    <2>6. Contract!Open(i)
      BY <2>1, <2>4, <2>5 DEF Contract!Open, Contract!Move, PhasesOf
    <2> QED
      BY <2>6 DEF Contract!Next
  <1>4. CASE AsksPort
    <2>1. rows' = rows
      BY <1>4 DEF AsksPort
    <2>2. PICK i \in Interactions, w \in World :
            /\ rows[i].state \in Running
            /\ world[i].calls = 0
            /\ w.calls = 1
            /\ world' = [world EXCEPT ![i] = w]
      BY <1>4 DEF AsksPort
    <2>3. PhasesOf(rows)[i] = "running" /\ AskedIn(world)[i] = 0
      BY <2>2, PhaseCases DEF PhasesOf, AskedIn
    <2>4. /\ AskedIn(world') = [AskedIn(world) EXCEPT ![i] = 1]
          /\ DoneIn(world') = [DoneIn(world) EXCEPT ![i] = w.applied]
      BY <1>0, <2>2 DEF AskedIn, DoneIn
    <2>5. w.applied \in BOOLEAN
      BY DEF World
    <2>6. Contract!Perform(i)
      BY <2>1, <2>3, <2>4, <2>5 DEF Contract!Perform, PhasesOf, AskedIn, DoneIn
    <2> QED
      BY <2>6 DEF Contract!Next
  <1>5. CASE RecordsCommit
    <2>1. rows' = rows
      BY <1>5 DEF RecordsCommit
    <2>2. PICK i \in Interactions, w \in World :
            /\ w.calls = world[i].calls
            /\ w.applied = world[i].applied
            /\ world' = [world EXCEPT ![i] = w]
      BY <1>5 DEF RecordsCommit
    <2>3. AskedIn(world') = AskedIn(world) /\ DoneIn(world') = DoneIn(world)
      BY <1>0, <2>2 DEF AskedIn, DoneIn
    <2> QED
      BY <2>1, <2>3 DEF Contract!vars, AskedIn, DoneIn
  <1> QED
    BY <1>1, <1>2, <1>3, <1>4, <1>5 DEF Advance

\* For any number of interactions and concurrent calls, the service keeps the
\* promise of InteractionContract: the external action is asked for at most
\* once and only of a started interaction, SUCCEEDED is written only when it
\* took place, and FAILED, CANCELLED and EXPIRED only when it never did and
\* never will.
THEOREM InteractionImplementsContract ==
  Spec => ImplementsContract
  <1>1. Init => Contract!Init
    BY PhaseCases DEF Init, Contract!Init, NoRow
  <1>2. InteractionInv /\ InteractionInv' /\ [Next]_vars => [Contract!Next]_(Contract!vars)
    BY InvNext, AdvanceIsContract
  <1> QED
    BY <1>1, <1>2, InvHolds, PTL DEF Spec, ImplementsContract, Contract!Spec


-----------------------------------------------------------------------------
(* Consent, evidence and answers: what is executed has the consent its      *)
(* preview asks for, evidence is true of the world, and answers hold.  They *)
(* rest on InteractionInv, so that each step may use it before and after.   *)

-----------------------------------------------------------------------------
(* What the states and the calls say beyond InteractionInv.                *)

\* A preview asks for consent.
AsksConsent(kind) == kind.confirm \/ kind.approve

\* Grant g was given for preview p, which is pv, and ends with it at the latest.
GrantedFor(g, p, pv) == g.preview = p /\ g.expires <= pv.expires

\* The current preview has all the consent it asks for.
Consented(row, pvs) ==
  LET p  == row.consent.preview
      pv == pvs[p]
  IN /\ p >= 1
     /\ pv.status = IF AsksConsent(pv.kind) THEN "CONFIRMED" ELSE "ACTIVE"
     /\ AsksConsent(pv.kind) => GrantedFor(row.consent.confirmation, p, pv)
     /\ pv.kind.approve => GrantedFor(row.consent.approval, p, pv)

\* The states that only a preview with its consent reaches.
Consenting == {"AUTHORIZED", "SUCCEEDED", "FAILED"} \cup Running

\* What the lifecycle state says about previews and consent.
ConsentOK(row, pvs) ==
  LET p  == row.consent.preview
      pv == pvs[p]
  IN /\ row.state = "AWAITING_CONFIRMATION" =>
          /\ AsksConsent(pv.kind)
          /\ row.consent.confirmation.preview # 0 =>
               pv.status = "CONFIRMED" /\ GrantedFor(row.consent.confirmation, p, pv)
     /\ row.state \in Consenting => Consented(row, pvs)

\* What it says about the evidence.
EvidenceOK(row, pvs, w) ==
  /\ row.outcome.result => w.applied
  /\ row.outcome.commit =>
       /\ row.outcome.result
       /\ pvs[row.consent.preview].kind.commit => w.commits > 0
  /\ (row.state = "SUCCEEDED") <=> row.outcome.commit
  /\ (row.state = "RECOVERY_REQUIRED") <=> (row.outcome.recovery = "PENDING")

ProperRow(row, pvs, w) ==
  /\ ConsentOK(row, pvs)
  /\ EvidenceOK(row, pvs, w)
  /\ w.calls > 0 => w.preview = row.consent.preview

\* What a claim of operation op says of the aggregate it names.
Settles(op, row) ==
  /\ op = "cancel" => row.state = "CANCELLED"
  /\ op = "expire" => row.state = "EXPIRED"
  /\ op \in {"verify", "recover"} => row.state \in {"RECOVERY_REQUIRED", "SUCCEEDED"}

ClaimTrue(op, m, R) ==
  /\ R[m.id].rev > m.digest.rev
  /\ op # "create" => Settles(op, R[m.id])

\* Which operation a call is on, and that it has not read less than it names.
OperationOK(k) ==
  /\ k.step = "create" => k.req.op = "create" /\ k.req.digest.rev = 0
  /\ k.step \in {"port", "observe"} => k.req.op = "execute"
  /\ k.step \in {"reconcile", "relookup", "reread"} => k.req.op = "recover"
  /\ k.step \in {"verify", "commit", "finish"} => k.req.op \in {"verify", "recover"}
  /\ k.step \in Informed => k.req.digest.rev <= k.cur.rev

\* What a call has seen of the consent and of the commit: the preview it read may
\* be out of date, but its kind and its expiry never change.
SeenOK(k, R, P, W) ==
  LET i  == k.req.digest.id
      p  == k.cur.consent.preview
      pv == P[i][p]
  IN /\ k.step = "authorize" \/ (k.step = "write" /\ k.req.op = "approve") =>
          k.cur.consent.confirmation.preview # 0 /\ pv.kind.approve
     /\ k.step = "write" /\ k.req.op = "approve" => k.grant <= pv.expires
     /\ k.step = "port" => p = R[i].consent.preview
     /\ k.step = "finish" /\ k.obs = "COMMITTED" => (pv.kind.commit => W[i].commits > 0)

\* A success leaves a claim of its request.
AnsweredOK(k, I) ==
  k.answer = "done" =>
    /\ k.req.op \in Operation /\ k.req.key \in Keys
    /\ \E m \in I[<<k.req.op, k.req.key>>] : m.digest = k.req.digest

MoreOK(k, R, P, W, I) == OperationOK(k) /\ SeenOK(k, R, P, W) /\ AnsweredOK(k, I)

ProperRows == \A i \in Interactions : ProperRow(rows[i], previews[i], world[i])
ClaimsTrue == \A s \in Scoped : \A m \in idem[s] : ClaimTrue(s[1], m, rows)
CallsKnow  == \A c \in Callers : MoreOK(calls[c], rows, previews, world, idem)

ConsentInv == ProperRows /\ ClaimsTrue /\ CallsKnow

-----------------------------------------------------------------------------
(* What never comes undone.                                                *)

\* A later revision of an aggregate.
KeepsRow(r, q) ==
  /\ q.rev >= r.rev
  /\ r.state = "CANCELLED" => q.state = "CANCELLED"
  /\ r.state = "EXPIRED" => q.state = "EXPIRED"
  /\ r.state \in {"RECOVERY_REQUIRED", "SUCCEEDED"} =>
       q.state \in {"RECOVERY_REQUIRED", "SUCCEEDED"}
  /\ r.state \in Running => q.consent.preview = r.consent.preview

\* Previews keep their kind and their expiry.
KeepsPreviews(p, q) ==
  /\ Len(q) >= Len(p)
  /\ \A n \in 1..Len(p) : q[n].kind = p[n].kind /\ q[n].expires = p[n].expires

\* How the stores change in any step.
Grows ==
  /\ \A i \in Interactions :
       /\ KeepsRow(rows[i], rows'[i])
       /\ KeepsPreviews(previews[i], previews'[i])
       /\ world'[i].commits >= world[i].commits
  /\ \A s \in Scoped : idem[s] \subseteq idem'[s]

\* Whatever a call knows outlives the steps of other calls.
LEMMA StillKnows ==
  ASSUME InteractionInv, Grows, NEW k \in Call, CallOK(k, rows, world),
         MoreOK(k, rows, previews, world, idem),
         world' \in [Interactions -> World]
  PROVE  MoreOK(k, rows', previews', world', idem')
  <1> DEFINE i == k.req.digest.id
             p == k.cur.consent.preview
  <1>1. OperationOK(k) /\ SeenOK(k, rows, previews, world) /\ AnsweredOK(k, idem)
    BY DEF MoreOK
  <1>2. SeenOK(k, rows', previews', world')
    <2>1. CASE k.step \notin {"authorize", "write", "port", "finish"}
      BY <2>1 DEF SeenOK
    <2>2. CASE k.step \in {"authorize", "write", "port", "finish"}
      <3>1. k.step \in Informed /\ k.step \notin {"idle", "create"}
        BY <2>2 DEF Informed
      <3>2. i \in Interactions
        BY <3>1 DEF CallOK, AddressOK
      <3>3. /\ KeepsRow(rows[i], rows'[i]) /\ KeepsPreviews(previews[i], previews'[i])
            /\ world'[i].commits >= world[i].commits
        BY <3>2 DEF Grows
      <3>4. k.cur \in Row /\ p \in Nat
        BY DEF Call, Row, Consent
      <3>5. /\ rows[i] \in Row /\ rows[i].consent.preview \in Nat
            /\ RowOK(rows[i], Len(previews[i]), world[i])
            /\ world[i].commits \in Nat /\ world'[i].commits \in Nat
        BY <3>2 DEF InteractionInv, TypeOK, RowsOK, Row, Consent, World
      <3>6. k.step \in {"authorize", "write", "finish"} /\ k.cur.state \in Previewed =>
              p \in 1..Len(previews[i])
        <4>1. Len(previews[i]) = rows[i].consent.preview
          BY <3>5, RowSays, Zenon
        <4>2. /\ p <= rows[i].consent.preview
              /\ k.cur.state \in Previewed => p >= 1
          BY <3>1, Zenon DEF CallOK, CopyOK
        <4> HIDE DEF p, i
        <4> QED
          BY <3>4, <3>5, <4>1, <4>2
      <3>7. p \in 1..Len(previews[i]) =>
              /\ previews'[i][p].kind = previews[i][p].kind
              /\ previews'[i][p].expires = previews[i][p].expires
        BY <3>3 DEF KeepsPreviews
      <3>8. /\ k.step = "authorize" \/ (k.step = "write" /\ k.req.op = "approve") =>
                 k.cur.state \in Previewed
            /\ k.step = "finish" => k.cur.state \in Previewed
        BY DEF CallOK, StepOK, Previewed, Running, From
      <3>9. CASE k.step = "port"
        <4>1. rows[i].state \in Running
          BY <3>9 DEF CallOK, KnowsOK
        <4>2. p = rows'[i].consent.preview
          BY <1>1, <3>3, <3>9, <4>1 DEF SeenOK, KeepsRow
        <4> QED
          BY <3>9, <4>2 DEF SeenOK
      <3>10. CASE k.step # "port"
        <4>1. k.step = "authorize" \/ (k.step = "write" /\ k.req.op = "approve") =>
                k.cur.consent.confirmation.preview # 0 /\ previews'[i][p].kind.approve
          BY <1>1, <3>6, <3>7, <3>8 DEF SeenOK
        <4>2. k.step = "write" /\ k.req.op = "approve" => k.grant <= previews'[i][p].expires
          BY <1>1, <3>6, <3>7, <3>8 DEF SeenOK
        <4>3. k.step = "finish" /\ k.obs = "COMMITTED" =>
                (previews'[i][p].kind.commit => world'[i].commits > 0)
          <5>1. k.step = "finish" /\ k.obs = "COMMITTED" =>
                  (previews[i][p].kind.commit => world[i].commits > 0)
            BY <1>1 DEF SeenOK
          <5>2. k.step = "finish" => previews'[i][p].kind = previews[i][p].kind
            BY <3>6, <3>7, <3>8
          <5>3. SUFFICES ASSUME k.step = "finish", k.obs = "COMMITTED",
                                previews'[i][p].kind.commit
                         PROVE  world'[i].commits > 0
            OBVIOUS
          <5>4. previews[i][p].kind.commit
            BY <5>2, <5>3, Zenon
          <5>5. world[i].commits > 0
            BY <5>1, <5>3, <5>4
          <5> QED
            <6>1. world'[i].commits >= world[i].commits
              BY <3>3, Zenon
            <6>2. world[i].commits \in Nat /\ world'[i].commits \in Nat
              BY <3>5, Zenon
            <6> QED
              BY <5>5, <6>1, <6>2
        <4> QED
          BY <3>10, <4>1, <4>2, <4>3 DEF SeenOK
      <3> QED
        BY <3>9, <3>10
    <2> QED
      BY <2>1, <2>2
  <1>3. AnsweredOK(k, idem')
    <2> SUFFICES ASSUME k.answer = "done"
                 PROVE  /\ k.req.op \in Operation /\ k.req.key \in Keys
                        /\ \E m \in idem'[<<k.req.op, k.req.key>>] : m.digest = k.req.digest
      BY DEF AnsweredOK
    <2>1. /\ k.req.op \in Operation /\ k.req.key \in Keys
          /\ \E m \in idem[<<k.req.op, k.req.key>>] : m.digest = k.req.digest
      BY <1>1 DEF AnsweredOK
    <2>2. <<k.req.op, k.req.key>> \in Scoped
      BY <2>1 DEF Scoped
    <2>3. idem[<<k.req.op, k.req.key>>] \subseteq idem'[<<k.req.op, k.req.key>>]
      BY <2>2 DEF Grows
    <2> QED
      BY <2>1, <2>3
  <1> QED
    BY <1>1, <1>2, <1>3 DEF MoreOK

\* A claim stays true when its aggregate moves on.
LEMMA ClaimStays ==
  ASSUME InteractionInv, InteractionInv', Grows, ClaimsTrue,
         NEW s \in Scoped, NEW m \in idem[s]
  PROVE  ClaimTrue(s[1], m, rows')
  <1>1. ClaimTrue(s[1], m, rows)
    BY DEF ClaimsTrue
  <1>2. m \in Claim
    BY DEF InteractionInv, TypeOK
  <1>3. m.id \in Interactions /\ m.digest.rev \in Nat
    BY <1>2 DEF Claim, Digest
  <1>4. rows[m.id].rev \in Nat /\ rows'[m.id].rev \in Nat
    BY <1>3 DEF InteractionInv, TypeOK, Row
  <1>5. KeepsRow(rows[m.id], rows'[m.id])
    BY <1>3 DEF Grows
  <1> QED
    BY <1>1, <1>3, <1>4, <1>5 DEF ClaimTrue, Settles, KeepsRow

\* A call that is over has nothing to know.
LEMMA IdleAnswers ==
  \A R, P, W, I : MoreOK(IdleCall, R, P, W, I)
  BY DEF MoreOK, OperationOK, SeenOK, AnsweredOK, IdleCall, Informed

\* The parts of a step: the stores grow, the rows stay proper, what was claimed is
\* true, and the call that moved knows what its step requires.
LEMMA Together ==
  ASSUME InteractionInv, InteractionInv', ConsentInv, Grows, NEW c \in Callers, NEW k,
         calls' = [calls EXCEPT ![c] = k],
         ProperRows',
         \A s \in Scoped : \A m \in idem'[s] : m \in idem[s] \/ ClaimTrue(s[1], m, rows'),
         MoreOK(k, rows', previews', world', idem')
  PROVE  ConsentInv'
  <1>1. ClaimsTrue'
    <2> SUFFICES ASSUME NEW s \in Scoped, NEW m \in idem'[s]
                 PROVE  ClaimTrue(s[1], m, rows')
      BY DEF ClaimsTrue
    <2>1. CASE m \in idem[s]
      BY <2>1, ClaimStays DEF ConsentInv
    <2> QED
      BY <2>1
  <1>2. CallsKnow'
    <2> SUFFICES ASSUME NEW d \in Callers
                 PROVE  MoreOK(calls'[d], rows', previews', world', idem')
      BY DEF CallsKnow
    <2>1. calls'[d] = IF d = c THEN k ELSE calls[d]
      BY DEF InteractionInv, TypeOK
    <2>2. /\ calls[d] \in Call /\ CallOK(calls[d], rows, world)
          /\ MoreOK(calls[d], rows, previews, world, idem)
          /\ world' \in [Interactions -> World]
      BY DEF InteractionInv, TypeOK, CallsOK, ConsentInv, CallsKnow
    <2>3. CASE d = c
      BY <2>1, <2>3
    <2>4. CASE d # c
      <3>1. MoreOK(calls[d], rows', previews', world', idem')
        BY <2>2, StillKnows
      <3> QED
        BY <2>1, <2>4, <3>1
    <2> QED
      BY <2>3, <2>4
  <1> QED
    BY <1>1, <1>2 DEF ConsentInv

-----------------------------------------------------------------------------
(* The steps that write no table.                                          *)

\* Nothing grows backwards when the stores stay as they are.
LEMMA StoresStay ==
  ASSUME InteractionInv, InteractionInv', UNCHANGED stores,
         \A i \in Interactions : world'[i].commits >= world[i].commits
  PROVE  Grows
  <1>1. UNCHANGED <<rows, previews, idem>>
    BY DEF stores
  <1>2. ASSUME NEW i \in Interactions
        PROVE  KeepsRow(rows[i], rows'[i]) /\ KeepsPreviews(previews[i], previews'[i])
    <2>1. rows[i].rev \in Nat /\ previews[i] \in Seq(Preview)
      BY DEF InteractionInv, TypeOK, Row
    <2>2. Len(previews[i]) \in Nat
      BY <2>1
    <2> QED
      BY <1>1, <2>1, <2>2 DEF KeepsRow, KeepsPreviews
  <1> QED
    BY <1>1, <1>2 DEF Grows

\* A step of c that leaves stores and world alone owes only what c knows.
LEMMA QuietStep ==
  ASSUME InteractionInv, InteractionInv', ConsentInv, NEW c \in Callers, NEW k,
         calls' = [calls EXCEPT ![c] = k],
         UNCHANGED <<stores, world>>,
         MoreOK(k, rows, previews, world, idem)
  PROVE  ConsentInv'
  <1>1. UNCHANGED <<rows, previews, idem, world>> /\ UNCHANGED stores
    BY DEF stores
  <1>2. \A i \in Interactions : world[i].commits \in Nat
    BY DEF InteractionInv, TypeOK, World
  <1>3. \A i \in Interactions : world'[i].commits >= world[i].commits
    BY <1>1, <1>2
  <1>4. Grows
    BY <1>1, <1>3, StoresStay
  <1>5. ProperRows'
    BY <1>1 DEF ConsentInv, ProperRows
  <1>6. MoreOK(k, rows', previews', world', idem')
    BY <1>1
  <1>7. \A s \in Scoped : \A m \in idem'[s] : m \in idem[s] \/ ClaimTrue(s[1], m, rows')
    BY <1>1
  <1> QED
    BY <1>4, <1>5, <1>6, <1>7, Together

\* A call that fails.
LEMMA FailsQuietly ==
  ASSUME InteractionInv, InteractionInv', ConsentInv, NEW c \in Callers, Fails(c),
         UNCHANGED <<stores, world>>
  PROVE  ConsentInv'
  <1>1. MoreOK(IdleCall, rows, previews, world, idem)
    BY IdleAnswers
  <1> QED
    BY <1>1, QuietStep DEF Fails

\* The call as Goes leaves it.
Gone(c, step, cur, t, grant, obs) ==
  [step |-> step, req |-> calls[c].req, cur |-> cur, at |-> t,
   grant |-> grant, obs |-> obs, answer |-> "none"]

\* What a call that goes on owes: its operation, and what it has seen.
LEMMA GoneKnows ==
  ASSUME NEW c \in Callers, NEW step, NEW cur, NEW t, NEW grant, NEW obs,
         NEW R, NEW P, NEW W, NEW I,
         OperationOK(Gone(c, step, cur, t, grant, obs)),
         SeenOK(Gone(c, step, cur, t, grant, obs), R, P, W)
  PROVE  MoreOK(Gone(c, step, cur, t, grant, obs), R, P, W, I)
  BY DEF MoreOK, AnsweredOK, Gone

\* A success whose request is claimed.
LEMMA DoneKnows ==
  ASSUME NEW c \in Callers, Req(c).op \in Operation, Req(c).key \in Keys,
         NEW R, NEW P, NEW W, NEW I,
         \E m \in I[<<Req(c).op, Req(c).key>>] : m.digest = Req(c).digest
  PROVE  MoreOK(Done(c), R, P, W, I)
  BY DEF MoreOK, OperationOK, SeenOK, AnsweredOK, Done, Req, Informed

\* A request that is on its way knows nothing yet.
LEMMA RequestKeepsConsent ==
  ASSUME InteractionInv, InteractionInv', ConsentInv, NEW c \in Callers,
         NEW r, NEW step, Invoke(c, r, step),
         step = "lookup" \/ (step = "create" /\ r.op = "create" /\ r.digest.rev = 0)
  PROVE  ConsentInv'
  <1> DEFINE k == [step |-> step, req |-> r, cur |-> NoRow, at |-> 0, grant |-> 0,
                   obs |-> "none", answer |-> "none"]
  <1>1. calls' = [calls EXCEPT ![c] = k] /\ UNCHANGED <<stores, world>>
    BY DEF Invoke
  <1>2. MoreOK(k, rows, previews, world, idem)
    BY DEF MoreOK, OperationOK, SeenOK, AnsweredOK, Informed
  <1> QED
    BY <1>1, <1>2, QuietStep

\* Making a request.
LEMMA InvokeKeepsConsent ==
  ASSUME InteractionInv, InteractionInv', ConsentInv, NEW c \in Callers,
         InvokeCreate(c) \/ InvokeOther(c)
  PROVE  ConsentInv'
  <1>1. CASE InvokeCreate(c)
    BY <1>1, RequestKeepsConsent DEF InvokeCreate, IdleRequest
  <1>2. CASE InvokeOther(c)
    BY <1>2, RequestKeepsConsent DEF InvokeOther
  <1> QED
    BY <1>1, <1>2

\* _idempotent: an answer that was given before is still claimed.
LEMMA LookupKeepsConsent ==
  ASSUME InteractionInv, InteractionInv', ConsentInv, NEW c \in Callers, Lookup(c)
  PROVE  ConsentInv'
  <1> DEFINE m == idem[<<Req(c).op, Req(c).key>>]
             next == IF At(c, "lookup") THEN "read" ELSE "reread"
             k == calls[c]
  <1>1. /\ k.step \in {"lookup", "relookup"} /\ UNCHANGED <<stores, world>>
        /\ \/ m = {} /\ GoesOn(c, next)
           \/ m # {} /\ IF \A e \in m : e.digest = Req(c).digest
                        THEN Succeeds(c) ELSE Fails(c)
    BY DEF Lookup
  <1>2. /\ Req(c).op \in Operation /\ Req(c).key \in Keys
        /\ Req(c) = k.req
    BY <1>1, CallFacts
  <1>3. MoreOK(k, rows, previews, world, idem)
    BY DEF ConsentInv, CallsKnow
  <1>4. CASE m = {}
    <2> DEFINE g == Gone(c, next, k.cur, k.at, k.grant, k.obs)
    <2>1. calls' = [calls EXCEPT ![c] = g]
      BY <1>1, <1>4 DEF GoesOn, Goes, Gone
    <2>2. OperationOK(g)
      BY <1>1, <1>3 DEF MoreOK, OperationOK, Gone, At, Informed
    <2>3. SeenOK(g, rows, previews, world)
      BY <1>1 DEF SeenOK, Gone
    <2>4. MoreOK(g, rows, previews, world, idem)
      BY <2>2, <2>3, GoneKnows
    <2> HIDE DEF g
    <2> QED
      BY <1>1, <2>1, <2>4, QuietStep
  <1>5. CASE m # {} /\ \A e \in m : e.digest = Req(c).digest
    <2>1. calls' = [calls EXCEPT ![c] = Done(c)]
      BY <1>1, <1>5 DEF Succeeds, Done
    <2>2. MoreOK(Done(c), rows, previews, world, idem)
      BY <1>2, <1>5, DoneKnows
    <2> QED
      BY <1>1, <2>1, <2>2, QuietStep
  <1>6. CASE m # {} /\ ~\A e \in m : e.digest = Req(c).digest
    BY <1>1, <1>6, FailsQuietly
  <1> QED
    BY <1>4, <1>5, <1>6

\* A copy that was just read is not older than the revision the client named.
LEMMA ReadKeepsConsent ==
  ASSUME InteractionInv, InteractionInv', ConsentInv, NEW c \in Callers, Read(c)
  PROVE  ConsentInv'
  <1> DEFINE cur  == rows[Id(c)]
             next == AfterRead(Req(c).op)
             g    == Gone(c, next, cur, now, 0, "none")
  <1>1. /\ calls[c].step = "read" /\ Req(c).op # "recover" /\ UNCHANGED <<stores, world>>
        /\ IF cur.rev = Req(c).digest.rev /\ Legal(Req(c), cur)
           THEN calls' = [calls EXCEPT ![c] = g] ELSE Fails(c)
    BY DEF Read, At, Goes, Gone
  <1>2. /\ cur.rev \in Nat /\ Req(c) = calls[c].req /\ Id(c) = calls[c].req.digest.id
        /\ Req(c).op \in Operation
    BY <1>1, CallFacts
  <1>3. CASE cur.rev = Req(c).digest.rev /\ Legal(Req(c), cur)
    <2>1. /\ next \in {"authorize", "verify", "write"}
          /\ next = "verify" => Req(c).op = "verify"
          /\ next = "authorize" => Req(c).op = "approve"
          /\ next = "write" => Req(c).op # "approve"
      BY DEF AfterRead
    <2>2. Req(c).op = "approve" =>
            /\ cur.consent.confirmation.preview # 0
            /\ previews[Id(c)][cur.consent.preview].kind.approve
      BY <1>2, <1>3 DEF Legal, MayApprove, Holds
    <2>3. /\ g.step = next /\ g.req = Req(c) /\ g.cur = cur /\ g.obs = "none"
          /\ g.req.digest.id = Id(c)
      BY <1>2 DEF Gone
    <2>4. OperationOK(g)
      <3> HIDE DEF next, cur, g
      <3> QED
        BY <1>2, <1>3, <2>1, <2>3 DEF OperationOK
    <2>5. SeenOK(g, rows, previews, world)
      <3> HIDE DEF next, cur, g
      <3> QED
        BY <2>1, <2>2, <2>3 DEF SeenOK
    <2>6. MoreOK(g, rows, previews, world, idem)
      BY <2>4, <2>5, GoneKnows
    <2> HIDE DEF g
    <2> QED
      BY <1>1, <1>3, <2>6, QuietStep
  <1>4. CASE ~(cur.rev = Req(c).digest.rev /\ Legal(Req(c), cur))
    BY <1>1, <1>4, FailsQuietly
  <1> QED
    BY <1>3, <1>4

\* recover goes on from a revision its own reconciliation made, never from an
\* older one than its client named.
LEMMA ReadRecoverKeepsConsent ==
  ASSUME InteractionInv, InteractionInv', ConsentInv, NEW c \in Callers, ReadRecover(c)
  PROVE  ConsentInv'
  <1> DEFINE cur  == rows[Id(c)]
             s    == <<"reconcile_execution", Req(c).key>>
             next == IF cur.state = "EXECUTING" /\ cur.outcome.execution = "ATTEMPTED"
                     THEN "reconcile" ELSE "relookup"
             g    == Gone(c, next, cur, now, 0, "none")
             goes == cur.rev = Req(c).digest.rev \/ \E m \in idem[s] : m.digest = Req(c).digest
  <1>1. /\ calls[c].step = "read" /\ Req(c).op = "recover" /\ UNCHANGED <<stores, world>>
        /\ IF goes THEN calls' = [calls EXCEPT ![c] = g] ELSE Fails(c)
    BY DEF ReadRecover, At, Goes, Gone
  <1>2. /\ cur.rev \in Nat /\ Req(c) = calls[c].req /\ Id(c) = calls[c].req.digest.id
        /\ Req(c).key \in Keys /\ Id(c) = Req(c).digest.id
    BY <1>1, CallFacts
  <1>3. CASE goes
    <2>1. Req(c).digest.rev <= cur.rev
      <3>1. CASE cur.rev = Req(c).digest.rev
        BY <1>2, <3>1
      <3>2. CASE \E m \in idem[s] : m.digest = Req(c).digest
        <4>1. PICK m \in idem[s] : m.digest = Req(c).digest
          BY <3>2
        <4>2. s \in Scoped /\ s[1] = "reconcile_execution"
          BY <1>2 DEF Scoped
        <4>3. ClaimOK(s[1], m) /\ ClaimTrue(s[1], m, rows)
          BY <4>2 DEF InteractionInv, ClaimsOK, ConsentInv, ClaimsTrue
        <4>4. m.id = Id(c) /\ cur.rev > Req(c).digest.rev
          BY <1>2, <4>1, <4>2, <4>3 DEF ClaimOK, ClaimTrue
        <4>5. m \in Claim
          BY <4>2 DEF InteractionInv, TypeOK
        <4>6. Req(c).digest.rev \in Nat
          BY <4>1, <4>5 DEF Claim, Digest
        <4> QED
          BY <1>2, <4>4, <4>6
      <3> QED
        BY <1>3, <3>1, <3>2
    <2>2. next \in {"reconcile", "relookup"}
      OBVIOUS
    <2>3. g.step = next /\ g.req = Req(c) /\ g.cur = cur
      BY <1>2 DEF Gone
    <2>4. OperationOK(g) /\ SeenOK(g, rows, previews, world)
      <3> HIDE DEF next, cur, g
      <3> QED
        BY <1>1, <2>1, <2>2, <2>3 DEF OperationOK, SeenOK
    <2>5. MoreOK(g, rows, previews, world, idem)
      BY <2>4, GoneKnows
    <2> HIDE DEF g
    <2> QED
      BY <1>1, <1>3, <2>5, QuietStep
  <1>4. CASE ~goes
    BY <1>1, <1>4, FailsQuietly
  <1> QED
    BY <1>3, <1>4

\* verify, on behalf of recover, reads the revision recover has.
LEMMA RereadKeepsConsent ==
  ASSUME InteractionInv, InteractionInv', ConsentInv, NEW c \in Callers, Reread(c)
  PROVE  ConsentInv'
  <1> DEFINE cur == rows[Id(c)]
             g   == Gone(c, "verify", cur, now, 0, "none")
  <1>1. /\ calls[c].step = "reread" /\ UNCHANGED <<stores, world>>
        /\ \/ cur.rev = calls[c].cur.rev /\ calls' = [calls EXCEPT ![c] = g]
           \/ Fails(c)
    BY DEF Reread, At, Goes, Gone
  <1>2. OperationOK(calls[c])
    BY DEF ConsentInv, CallsKnow, MoreOK
  <1>3. CASE cur.rev = calls[c].cur.rev /\ calls' = [calls EXCEPT ![c] = g]
    <2>1. OperationOK(g) /\ SeenOK(g, rows, previews, world)
      BY <1>1, <1>2, <1>3 DEF OperationOK, SeenOK, Gone, Informed
    <2>2. MoreOK(g, rows, previews, world, idem)
      BY <2>1, GoneKnows
    <2> HIDE DEF g
    <2> QED
      BY <1>1, <1>3, <2>2, QuietStep
  <1>4. CASE Fails(c)
    BY <1>1, <1>4, FailsQuietly
  <1> QED
    BY <1>1, <1>3, <1>4

\* The approval authority gives no longer than the preview lasts.
LEMMA AuthorizeKeepsConsent ==
  ASSUME InteractionInv, InteractionInv', ConsentInv, NEW c \in Callers, Authorize(c)
  PROVE  ConsentInv'
  <1> DEFINE cur == calls[c].cur
             pv  == Current(Id(c), cur)
  <1>1. /\ calls[c].step = "authorize" /\ UNCHANGED <<stores, world>>
        /\ \/ \E t \in (calls[c].at + 1)..Min2(pv.expires, calls[c].at + ConsentTtl) :
                Goes(c, "write", cur, calls[c].at, t, "none")
           \/ Fails(c)
    BY DEF Authorize, At
  <1>2. CallOK(calls[c], rows, world) /\ Id(c) = calls[c].req.digest.id
        /\ calls[c].at \in Nat /\ Id(c) \in Interactions /\ cur \in Row
        /\ previews[Id(c)] \in Seq(Preview) /\ Req(c) = calls[c].req
        /\ rows[Id(c)] \in Row
        /\ RowOK(rows[Id(c)], Len(previews[Id(c)]), world[Id(c)])
    BY <1>1, CallFacts
  <1>3. MoreOK(calls[c], rows, previews, world, idem)
    BY DEF ConsentInv, CallsKnow
  <1>4. ASSUME NEW t \in (calls[c].at + 1)..Min2(pv.expires, calls[c].at + ConsentTtl),
               Goes(c, "write", cur, calls[c].at, t, "none")
        PROVE  ConsentInv'
    <2> DEFINE g == Gone(c, "write", cur, calls[c].at, t, "none")
    <2>1. calls' = [calls EXCEPT ![c] = g]
      BY <1>4 DEF Goes, Gone
    <2>2. cur.consent.preview \in 1..Len(previews[Id(c)])
      <3>1. cur.consent.preview \in Nat /\ rows[Id(c)].consent.preview \in Nat
        BY <1>2 DEF Row, Consent
      <3>2. cur.state \in Previewed
        BY <1>1, <1>2 DEF CallOK, StepOK, Previewed
      <3>3. /\ cur.consent.preview >= 1
            /\ cur.consent.preview <= rows[Id(c)].consent.preview
        BY <1>1, <1>2, <3>2 DEF CallOK, CopyOK, Informed
      <3>4. Len(previews[Id(c)]) = rows[Id(c)].consent.preview
        BY <1>2 DEF RowOK
      <3> QED
        BY <3>1, <3>3, <3>4
    <2>3. pv \in Preview
      BY <1>2, <2>2, ElementOfSeq DEF Current
    <2>4. pv.expires \in Nat
      BY <2>3 DEF Preview
    <2>5. t <= pv.expires
      <3>1. calls[c].at \in Nat
        BY <1>2, Zenon
      <3>2. calls[c].at + 1 \in Nat /\ calls[c].at + ConsentTtl \in Nat
        BY <3>1, InteractionAssumption
      <3> QED
        BY <1>4, <2>4, <3>2, UpToMin, Zenon
    <2>6. OperationOK(g)
      BY <1>1, <1>3 DEF MoreOK, OperationOK, Gone, Informed
    <2>7. SeenOK(g, rows, previews, world)
      BY <1>1, <1>2, <1>3, <2>5 DEF MoreOK, SeenOK, Gone, Current
    <2>8. MoreOK(g, rows, previews, world, idem)
      BY <2>6, <2>7, GoneKnows
    <2> HIDE DEF g
    <2> QED
      BY <1>1, <2>1, <2>8, QuietStep
  <1> QED
    BY <1>1, <1>4, FailsQuietly

\* The verification port answers.
LEMMA VerifyPortKeepsConsent ==
  ASSUME InteractionInv, InteractionInv', ConsentInv, NEW c \in Callers, VerifyPort(c)
  PROVE  ConsentInv'
  <1>1. /\ calls[c].step = "verify" /\ UNCHANGED <<stores, world>>
        /\ Observes(c, "commit", "VERIFIED") \/ Observes(c, "finish", "UNVERIFIED")
    BY DEF VerifyPort, At
  <1>2. OperationOK(calls[c])
    BY DEF ConsentInv, CallsKnow, MoreOK
  <1>3. ASSUME NEW step, NEW obs, Observes(c, step, obs),
               step = "commit" \/ (step = "finish" /\ obs = "UNVERIFIED")
        PROVE  ConsentInv'
    <2> DEFINE g == Gone(c, step, calls[c].cur, calls[c].at, calls[c].grant, obs)
    <2>1. calls' = [calls EXCEPT ![c] = g]
      BY <1>3 DEF Observes, Goes, Gone
    <2>2. OperationOK(g)
      BY <1>1, <1>2, <1>3 DEF OperationOK, Gone, Informed
    <2>3. SeenOK(g, rows, previews, world)
      BY <1>3 DEF SeenOK, Gone
    <2>4. MoreOK(g, rows, previews, world, idem)
      BY <2>2, <2>3, GoneKnows
    <2> HIDE DEF g
    <2> QED
      BY <1>1, <2>1, <2>4, QuietStep
  <1> QED
    BY <1>1, <1>3

\* The process of a call dies.
LEMMA CrashKeepsConsent ==
  ASSUME InteractionInv, InteractionInv', ConsentInv, NEW c \in Callers, Crash(c)
  PROVE  ConsentInv'
  <1>1. Fails(c) /\ UNCHANGED <<stores, world>>
    BY DEF Crash, Fails
  <1> QED
    BY <1>1, FailsQuietly

\* Time passes, or nothing happens.
LEMMA NothingHappens ==
  ASSUME ConsentInv, UNCHANGED <<stores, world, calls>>
  PROVE  ConsentInv'
  <1>1. UNCHANGED <<rows, previews, idem, world, calls>>
    BY DEF stores
  <1> QED
    BY <1>1 DEF ConsentInv, ProperRows, ClaimsTrue, CallsKnow

-----------------------------------------------------------------------------
(* The steps that change the world.                                        *)

\* Evidence and consent of an aggregate survive what only adds to the world.
LEMMA WorldGrows ==
  ASSUME NEW row, NEW pvs, NEW v \in World, NEW w \in World,
         ProperRow(row, pvs, v),
         v.applied => w.applied, w.commits >= v.commits,
         w.calls > 0 => w.preview = row.consent.preview
  PROVE  ProperRow(row, pvs, w)
  <1>1. v.commits \in Nat /\ w.commits \in Nat
    BY DEF World
  <1>2. v.commits > 0 => w.commits > 0
    BY <1>1
  <1>3. row.outcome.result => w.applied
    BY DEF ProperRow, EvidenceOK
  <1>4. row.outcome.commit => (pvs[row.consent.preview].kind.commit => w.commits > 0)
    BY <1>2, Zenon DEF ProperRow, EvidenceOK
  <1>5. EvidenceOK(row, pvs, w)
    BY <1>3, <1>4, Zenon DEF ProperRow, EvidenceOK
  <1> QED
    BY <1>5 DEF ProperRow

\* A step of c that leaves the stores alone and makes w of its world.
LEMMA WorldStep ==
  ASSUME InteractionInv, InteractionInv', ConsentInv, NEW c \in Callers, NEW k, NEW w,
         Id(c) \in Interactions,
         calls' = [calls EXCEPT ![c] = k], UNCHANGED stores,
         world' = [world EXCEPT ![Id(c)] = w],
         world[Id(c)].applied => w.applied, w.commits >= world[Id(c)].commits,
         w.calls > 0 => w.preview = rows[Id(c)].consent.preview,
         MoreOK(k, rows, previews, world', idem)
  PROVE  ConsentInv'
  <1>1. UNCHANGED <<rows, previews, idem>> /\ UNCHANGED stores
    BY DEF stores
  <1>2. ASSUME NEW i \in Interactions
        PROVE  /\ world'[i].commits >= world[i].commits
               /\ ProperRow(rows'[i], previews'[i], world'[i])
    <2>1. world[i] \in World /\ world'[i] \in World
      BY DEF InteractionInv, TypeOK
    <2>2. world[i].commits \in Nat
      BY <2>1 DEF World
    <2>3. world'[i] = IF i = Id(c) THEN w ELSE world[i]
      BY DEF InteractionInv, TypeOK
    <2>4. ProperRow(rows[i], previews[i], world[i])
      BY DEF ConsentInv, ProperRows
    <2>5. CASE i = Id(c)
      <3>1. world'[i] = w /\ w \in World
        BY <2>1, <2>3, <2>5
      <3>2. ProperRow(rows[i], previews[i], w)
        BY <2>1, <2>4, <2>5, <3>1, WorldGrows
      <3> QED
        BY <1>1, <2>5, <3>1, <3>2
    <2>6. CASE i # Id(c)
      BY <1>1, <2>2, <2>3, <2>4, <2>6
    <2> QED
      BY <2>5, <2>6
  <1>3. Grows
    BY <1>1, <1>2, StoresStay
  <1>4. ProperRows'
    BY <1>2 DEF ProperRows
  <1>5. \A s \in Scoped : \A m \in idem'[s] : m \in idem[s] \/ ClaimTrue(s[1], m, rows')
    BY <1>1
  <1>6. MoreOK(k, rows', previews', world', idem')
    BY <1>1
  <1> QED
    BY <1>3, <1>4, <1>5, <1>6, Together

\* The port is given the current preview.
LEMMA ExecutePortKeepsConsent ==
  ASSUME InteractionInv, InteractionInv', ConsentInv, NEW c \in Callers, ExecutePort(c)
  PROVE  ConsentInv'
  <1> DEFINE i == Id(c)
             cur == calls[c].cur
  <1>1. PICK st \in PortStatuses, applied \in BOOLEAN :
          /\ world' = [world EXCEPT ![i] =
                         [calls   |-> world[i].calls + 1,
                          preview |-> cur.consent.preview,
                          applied |-> world[i].applied \/ applied,
                          commits |-> world[i].commits]]
          /\ Observes(c, "observe", st)
    BY DEF ExecutePort
  <1>2. calls[c].step = "port" /\ UNCHANGED stores
    BY DEF ExecutePort, At
  <1>3. /\ i \in Interactions /\ i = calls[c].req.digest.id /\ world[i] \in World
        /\ MoreOK(calls[c], rows, previews, world, idem)
    BY <1>2, CallFacts DEF ConsentInv, CallsKnow
  <1> DEFINE w == [calls   |-> world[i].calls + 1,
                   preview |-> cur.consent.preview,
                   applied |-> world[i].applied \/ applied,
                   commits |-> world[i].commits]
             g == Gone(c, "observe", cur, calls[c].at, calls[c].grant, st)
  <1>4. world[i].commits \in Nat
    BY <1>3 DEF World
  <1>5. /\ world[i].applied => w.applied
        /\ w.commits >= world[i].commits
        /\ w.preview = rows[i].consent.preview
    <2>1. w.applied = (world[i].applied \/ applied) /\ w.commits = world[i].commits
          /\ w.preview = cur.consent.preview
      BY Zenon
    <2>2. cur.consent.preview = rows[i].consent.preview
      BY <1>2, <1>3 DEF MoreOK, SeenOK
    <2>3. w.commits >= world[i].commits
      BY <1>4, <2>1
    <2>4. world[i].applied => w.applied
      BY <2>1, Zenon
    <2> QED
      BY <2>1, <2>2, <2>3, <2>4, Zenon
  <1>6. calls' = [calls EXCEPT ![c] = g]
    BY <1>1 DEF Observes, Goes, Gone
  <1>7. OperationOK(g) /\ SeenOK(g, rows, previews, world')
    BY <1>2, <1>3 DEF MoreOK, OperationOK, SeenOK, Gone, Informed
  <1>8. MoreOK(g, rows, previews, world', idem)
    BY <1>7, GoneKnows
  <1>9. world' = [world EXCEPT ![i] = w]
    BY <1>1
  <1> HIDE DEF w, g
  <1> QED
    BY <1>2, <1>3, <1>5, <1>6, <1>8, <1>9, WorldStep

\* A commit is only taken for recorded when the authority recorded it.
LEMMA CanonicalCommitKeepsConsent ==
  ASSUME InteractionInv, InteractionInv', ConsentInv, NEW c \in Callers, CanonicalCommit(c)
  PROVE  ConsentInv'
  <1> DEFINE i        == Id(c)
             cur      == calls[c].cur
             required == Current(i, cur).kind.commit
             w        == [calls   |-> world[i].calls,
                          preview |-> world[i].preview,
                          applied |-> world[i].applied,
                          commits |-> world[i].commits + 1]
             g(obs)   == Gone(c, "finish", cur, calls[c].at, calls[c].grant, obs)
  <1>1. calls[c].step = "commit" /\ UNCHANGED stores
    BY DEF CanonicalCommit, At
  <1>2. /\ i \in Interactions /\ i = calls[c].req.digest.id /\ world[i] \in World
        /\ rows[i] \in Row
        /\ MoreOK(calls[c], rows, previews, world, idem)
        /\ ProperRow(rows[i], previews[i], world[i])
    BY <1>1, CallFacts DEF ConsentInv, CallsKnow, ProperRows
  <1>3. world[i].commits \in Nat /\ w.commits = world[i].commits + 1
    BY <1>2 DEF World
  <1>4. \E obs \in {"COMMITTED", "VERIFIED"} :
          /\ Observes(c, "finish", obs)
          /\ \/ world' = [world EXCEPT ![i] = w]
             \/ world' = world /\ (obs = "COMMITTED" => ~required)
    BY Zenon DEF CanonicalCommit
  <1>5. PICK obs \in {"COMMITTED", "VERIFIED"} :
          /\ Observes(c, "finish", obs)
          /\ \/ world' = [world EXCEPT ![i] = w]
             \/ world' = world /\ (obs = "COMMITTED" => ~required)
    BY <1>4
  <1>6. calls' = [calls EXCEPT ![c] = g(obs)]
    BY <1>5 DEF Observes, Goes, Gone
  <1>7. OperationOK(g(obs))
    BY <1>1, <1>2 DEF MoreOK, OperationOK, Gone, Informed
  <1>8. /\ g(obs).step = "finish" /\ g(obs).req = calls[c].req /\ g(obs).cur = cur
        /\ g(obs).obs = obs
    BY DEF Gone
  <1>9. CASE world' = [world EXCEPT ![i] = w]
    <2>1. world'[i] = w
      BY <1>2, <1>9 DEF InteractionInv, TypeOK
    <2>2. world'[i].commits > 0
      BY <1>3, <2>1
    <2>3. SeenOK(g(obs), rows, previews, world')
      <3> HIDE DEF g
      <3> QED
        BY <1>2, <1>8, <2>2 DEF SeenOK
    <2>4. MoreOK(g(obs), rows, previews, world', idem)
      BY <1>7, <2>3, GoneKnows
    <2>5. w.calls > 0 => w.preview = rows[i].consent.preview
      BY <1>2 DEF ProperRow
    <2>6. (world[i].applied => w.applied) /\ w.commits >= world[i].commits
      BY <1>3
    <2> HIDE DEF w, g
    <2> QED
      BY <1>1, <1>2, <1>6, <1>9, <2>4, <2>5, <2>6, WorldStep
  <1>10. CASE world' = world /\ (obs = "COMMITTED" => ~required)
    <2>1. SeenOK(g(obs), rows, previews, world)
      <3> HIDE DEF g
      <3> QED
        BY <1>2, <1>8, <1>10 DEF SeenOK, Current
    <2>2. MoreOK(g(obs), rows, previews, world, idem)
      BY <1>7, <2>1, GoneKnows
    <2> HIDE DEF g
    <2> QED
      BY <1>1, <1>6, <1>10, <2>2, QuietStep
  <1> QED
    BY <1>5, <1>9, <1>10

-----------------------------------------------------------------------------
(* The transactions.                                                       *)

\* repository.transition: a stale call fails, so the fresh case has to be argued,
\* in which what was checked on the copy holds of the aggregate.
LEMMA Transacts ==
  ASSUME InteractionInv, InteractionInv', ConsentInv, NEW c \in Callers,
         calls[c].step \in Informed,
         NEW op \in {Req(c).op, "execute", "reconcile_execution"},
         NEW row, NEW pvs, NEW k,
         Commits(c, op, row, pvs, k), UNCHANGED world,
         Fresh(c) =>
           /\ KeepsRow(rows[Id(c)], row) /\ row.rev = rows[Id(c)].rev + 1
           /\ KeepsPreviews(previews[Id(c)], pvs)
           /\ ProperRow(row, pvs, world[Id(c)])
           /\ Settles(op, row)
           /\ \/ k = Done(c) /\ op = Req(c).op
              \/ \A R, P, W, I : R[Id(c)] = row => MoreOK(k, R, P, W, I)
  PROVE  ConsentInv'
  <1> DEFINE i == Id(c)
             s == <<op, Req(c).key>>
             m == [digest |-> Req(c).digest, id |-> i]
  <1>1. /\ calls[c] \in Call /\ CallOK(calls[c], rows, world)
        /\ i \in Interactions /\ Req(c).key \in Keys /\ Req(c).op \in Operation
        /\ Req(c) = calls[c].req /\ rows[i].rev \in Nat /\ i = calls[c].req.digest.id
    BY CallFacts DEF Informed
  <1>2. s \in Scoped /\ s[1] = op /\ (op = Req(c).op => s = <<Req(c).op, Req(c).key>>)
    BY <1>1 DEF Scoped, Operation
  <1>3. OperationOK(calls[c])
    BY DEF ConsentInv, CallsKnow, MoreOK
  <1>4. CASE ~(rows[i].rev = calls[c].cur.rev /\ KeyAllows(c, op))
    <2>1. Fails(c) /\ UNCHANGED <<stores, world>>
      BY <1>4 DEF Commits, Transition
    <2> QED
      BY <2>1, FailsQuietly
  <1>5. CASE rows[i].rev = calls[c].cur.rev /\ KeyAllows(c, op)
    <2>1. Fresh(c)
      BY <1>1, <1>5 DEF CallOK, CopyOK, Fresh
    <2>2. /\ rows' = [rows EXCEPT ![i] = row]
          /\ previews' = [previews EXCEPT ![i] = pvs]
          /\ idem' = [idem EXCEPT ![s] = {m}]
          /\ calls' = [calls EXCEPT ![c] = k]
      BY <1>5 DEF Commits, Transition
    <2>3. /\ KeepsRow(rows[i], row) /\ row.rev = rows[i].rev + 1
          /\ KeepsPreviews(previews[i], pvs)
          /\ ProperRow(row, pvs, world[i])
          /\ Settles(op, row)
          /\ \/ k = Done(c) /\ op = Req(c).op
             \/ \A R, P, W, I : R[i] = row => MoreOK(k, R, P, W, I)
      BY <2>1
    <2>4. \A j \in Interactions : /\ rows'[j] = IF j = i THEN row ELSE rows[j]
                                  /\ previews'[j] = IF j = i THEN pvs ELSE previews[j]
      BY <2>2 DEF InteractionInv, TypeOK
    <2>5. \A t \in Scoped : idem'[t] = IF t = s THEN {m} ELSE idem[t]
      BY <1>2, <2>2 DEF InteractionInv, TypeOK
    <2>6. \A e \in idem[s] : e = m
      <3> SUFFICES ASSUME NEW e \in idem[s] PROVE e = m
        OBVIOUS
      <3>1. e.digest = m.digest /\ e.id = m.id
        BY <1>5 DEF KeyAllows
      <3>2. e \in Claim
        BY <1>2 DEF InteractionInv, TypeOK
      <3> QED
        BY <3>1, <3>2 DEF Claim
    <2>7. Grows
      <3>1. ASSUME NEW j \in Interactions
            PROVE  /\ KeepsRow(rows[j], rows'[j])
                   /\ KeepsPreviews(previews[j], previews'[j])
                   /\ world'[j].commits >= world[j].commits
        <4>1. /\ rows[j].rev \in Nat /\ world[j].commits \in Nat
              /\ Len(previews[j]) \in Nat
          BY DEF InteractionInv, TypeOK, Row, World
        <4>2. CASE j = i
          BY <2>3, <2>4, <4>1, <4>2
        <4>3. CASE j # i
          BY <2>4, <4>1, <4>3 DEF KeepsRow, KeepsPreviews
        <4> QED
          BY <4>2, <4>3
      <3>2. \A t \in Scoped : idem[t] \subseteq idem'[t]
        BY <2>5, <2>6
      <3> QED
        BY <3>1, <3>2 DEF Grows
    <2>8. ProperRows'
      <3> SUFFICES ASSUME NEW j \in Interactions
                   PROVE  ProperRow(rows'[j], previews'[j], world'[j])
        BY DEF ProperRows
      <3>1. world'[j] = world[j] /\ ProperRow(rows[j], previews[j], world[j])
        BY DEF ConsentInv, ProperRows
      <3>2. CASE j = i
        BY <2>3, <2>4, <3>1, <3>2
      <3>3. CASE j # i
        BY <2>4, <3>1, <3>3
      <3> QED
        BY <3>2, <3>3
    <2>9. ClaimTrue(op, m, rows')
      <3>1. rows'[i] = row /\ m.id = i /\ m.digest.rev = calls[c].req.digest.rev
        BY <1>1, <2>4
      <3>2. calls[c].req.digest.rev <= rows[i].rev /\ calls[c].req.digest.rev \in Nat
        BY <1>1, <1>3, <1>5 DEF OperationOK, Call, Request, Digest
      <3> HIDE DEF m, i
      <3>3. rows'[m.id] = row
        BY <3>1
      <3>4. row.rev > m.digest.rev
        <4>1. row.rev = rows[i].rev + 1
          BY <2>3, Zenon
        <4>2. rows[i].rev \in Nat
          BY <1>1, Zenon
        <4> QED
          BY <3>1, <3>2, <4>1, <4>2
      <3> QED
        BY <2>3, <3>3, <3>4, Zenon DEF ClaimTrue
    <2>10. \A t \in Scoped : \A e \in idem'[t] : e \in idem[t] \/ ClaimTrue(t[1], e, rows')
      <3> SUFFICES ASSUME NEW t \in Scoped, NEW e \in idem'[t]
                   PROVE  e \in idem[t] \/ ClaimTrue(t[1], e, rows')
        OBVIOUS
      <3>1. CASE t = s
        BY <1>2, <2>5, <2>9, <3>1
      <3>2. CASE t # s
        BY <2>5, <3>2
      <3> QED
        BY <3>1, <3>2
    <2>11. MoreOK(k, rows', previews', world', idem')
      <3>1. CASE k = Done(c) /\ op = Req(c).op
        <4>1. m \in idem'[<<Req(c).op, Req(c).key>>] /\ m.digest = Req(c).digest
          BY <1>2, <2>5, <3>1
        <4>2. MoreOK(Done(c), rows', previews', world', idem')
          BY <1>1, <4>1, DoneKnows
        <4> QED
          BY <3>1, <4>2
      <3>2. CASE \A R, P, W, I : R[i] = row => MoreOK(k, R, P, W, I)
        BY <1>1, <2>4, <3>2
      <3> QED
        BY <2>3, <3>1, <3>2
    <2> HIDE DEF i, s, m
    <2> QED
      BY <2>2, <2>7, <2>8, <2>10, <2>11, Together
  <1> QED
    BY <1>4, <1>5

\* The transaction that ends a call with success.
LEMMA TransactsAndAnswers ==
  ASSUME InteractionInv, InteractionInv', ConsentInv, NEW c \in Callers,
         calls[c].step \in Informed, NEW row, NEW pvs,
         Transition(c, Req(c).op, row, pvs, Succeeds(c)), UNCHANGED world,
         Fresh(c) =>
           /\ KeepsRow(rows[Id(c)], row) /\ row.rev = rows[Id(c)].rev + 1
           /\ KeepsPreviews(previews[Id(c)], pvs)
           /\ ProperRow(row, pvs, world[Id(c)])
           /\ Settles(Req(c).op, row)
  PROVE  ConsentInv'
  <1>1. Commits(c, Req(c).op, row, pvs, Done(c))
    BY DEF Commits, Transition, Succeeds, Done
  <1> QED
    BY <1>1, Transacts

-----------------------------------------------------------------------------
(* The operations that write.                                              *)

\* What a fresh call has read is proper, and so are the previews it works with.
LEMMA FreshProper ==
  ASSUME InteractionInv, ConsentInv, NEW c \in Callers, calls[c].step \in Informed, Fresh(c)
  PROVE  /\ rows[Id(c)] = calls[c].cur /\ calls[c].cur \in Row
         /\ calls[c].cur.rev \in Nat /\ calls[c].cur.consent.preview \in Nat
         /\ previews[Id(c)] \in Seq(Preview)
         /\ Len(previews[Id(c)]) = calls[c].cur.consent.preview
         /\ calls[c].cur.state \in Previewed => calls[c].cur.consent.preview >= 1
         /\ ProperRow(calls[c].cur, previews[Id(c)], world[Id(c)])
         /\ MoreOK(calls[c], rows, previews, world, idem)
         /\ RowOK(calls[c].cur, Len(previews[Id(c)]), world[Id(c)])
         /\ Id(c) = calls[c].req.digest.id /\ Req(c) = calls[c].req
  <1>1. /\ rows[Id(c)] = calls[c].cur /\ Id(c) \in Interactions /\ calls[c].cur \in Row
        /\ Id(c) = calls[c].req.digest.id /\ Req(c) = calls[c].req
        /\ RowOK(rows[Id(c)], Len(previews[Id(c)]), world[Id(c)])
    BY CallFacts DEF Fresh, Informed
  <1>2. calls[c].cur.rev \in Nat
    BY <1>1 DEF Row
  <1>3. ProperRow(rows[Id(c)], previews[Id(c)], world[Id(c)])
    BY <1>1 DEF ConsentInv, ProperRows
  <1>4. MoreOK(calls[c], rows, previews, world, idem)
    BY DEF ConsentInv, CallsKnow
  <1> QED
    BY <1>1, <1>2, <1>3, <1>4, FreshFacts

\* Marking a preview changes its status alone.
LEMMA MarkedKeeps ==
  ASSUME NEW pvs \in Seq(Preview), NEW p, NEW st
  PROVE  /\ KeepsPreviews(pvs, Marked(pvs, p, st))
         /\ Len(Marked(pvs, p, st)) = Len(pvs)
         /\ \A q \in 1..Len(pvs) :
              /\ Marked(pvs, p, st)[q].kind = pvs[q].kind
              /\ Marked(pvs, p, st)[q].expires = pvs[q].expires
              /\ q = p => Marked(pvs, p, st)[q].status = st
  <1> DEFINE M == Marked(pvs, p, st)
  <1>1. Len(pvs) \in Nat /\ Len(M) = Len(pvs)
    BY DEF Marked
  <1>2. ASSUME NEW q \in 1..Len(pvs)
        PROVE  /\ M[q].kind = pvs[q].kind /\ M[q].expires = pvs[q].expires
               /\ q = p => M[q].status = st
    <2>1. M[q] = IF q = p
                 THEN [kind |-> pvs[q].kind, status |-> st, expires |-> pvs[q].expires]
                 ELSE pvs[q]
      BY DEF Marked
    <2> QED
      BY <2>1
  <1> HIDE DEF M
  <1>3. KeepsPreviews(pvs, M)
    BY <1>1, <1>2 DEF KeepsPreviews
  <1> QED
    BY <1>1, <1>2, <1>3 DEF M

\* Leaving the previews alone keeps them.
LEMMA SamePreviews ==
  ASSUME NEW pvs \in Seq(Preview)
  PROVE  KeepsPreviews(pvs, pvs)
  <1>1. Len(pvs) \in Nat
    OBVIOUS
  <1> QED
    BY <1>1 DEF KeepsPreviews

\* Before it is executed an aggregate that moves on owes only its consent.
LEMMA SameEvidence ==
  ASSUME NEW cur \in Row, NEW row, NEW old, NEW pvs, NEW w, NEW n, NEW op,
         ProperRow(cur, old, w), RowOK(cur, n, w),
         cur.state \in Undecided \cup {"AUTHORIZED"},
         row.state \notin {"SUCCEEDED", "RECOVERY_REQUIRED"},
         row.rev = cur.rev + 1, row.outcome = cur.outcome,
         ConsentOK(row, pvs),
         op \notin {"cancel", "expire", "verify", "recover"}
  PROVE  /\ KeepsRow(cur, row) /\ row.rev = cur.rev + 1
         /\ ProperRow(row, pvs, w) /\ Settles(op, row)
  <1>1. /\ ~row.outcome.commit /\ row.outcome.recovery # "PENDING"
        /\ row.outcome.result => w.applied
    BY Zenon DEF ProperRow, EvidenceOK, Undecided
  <1>2. EvidenceOK(row, pvs, w)
    BY <1>1, Zenon DEF EvidenceOK
  <1>3. ~(w.calls > 0)
    BY DEF RowOK, Undecided, Running
  <1>4. cur.rev \in Nat
    BY DEF Row
  <1>5. KeepsRow(cur, row)
    BY <1>4 DEF KeepsRow, Undecided, Running
  <1> QED
    BY <1>2, <1>3, <1>5 DEF ProperRow, Settles

\* A superseding preview carries no consent.
LEMMA PreviewKeepsConsent ==
  ASSUME InteractionInv, InteractionInv', ConsentInv, NEW c \in Callers, WritePreview(c)
  PROVE  ConsentInv'
  <1> DEFINE cur     == calls[c].cur
             kind    == Req(c).digest.kind
             state   == IF kind.confirm \/ kind.approve
                        THEN "AWAITING_CONFIRMATION" ELSE "AUTHORIZED"
             marked  == Marked(previews[Id(c)], cur.consent.preview, "SUPERSEDED")
             new     == [kind |-> kind, status |-> "ACTIVE",
                         expires |-> calls[c].at + kind.ttl]
             pvs     == Append(marked, new)
             row     == Moved(cur, state, PreviewConsent(cur), cur.outcome)
  <1>1. /\ calls[c].step \in Informed /\ Req(c).op = "preview"
        /\ cur.state \in Undecided /\ UNCHANGED world
    BY WriteFacts DEF WritePreview, From
  <1>2. Transition(c, Req(c).op, row, pvs, Succeeds(c))
    BY <1>1 DEF WritePreview
  <1>3. ASSUME Fresh(c)
        PROVE  /\ KeepsRow(rows[Id(c)], row) /\ row.rev = rows[Id(c)].rev + 1
               /\ KeepsPreviews(previews[Id(c)], pvs)
               /\ ProperRow(row, pvs, world[Id(c)])
               /\ Settles(Req(c).op, row)
    <2> DEFINE n == cur.consent.preview + 1
    <2>1. /\ rows[Id(c)] = cur /\ cur \in Row /\ cur.consent.preview \in Nat
          /\ previews[Id(c)] \in Seq(Preview)
          /\ Len(previews[Id(c)]) = cur.consent.preview
          /\ ProperRow(cur, previews[Id(c)], world[Id(c)])
          /\ RowOK(cur, Len(previews[Id(c)]), world[Id(c)])
      BY <1>1, <1>3, FreshProper
    <2>2. /\ row.state = state /\ row.rev = cur.rev + 1 /\ row.outcome = cur.outcome
          /\ row.consent.preview = n /\ row.consent.confirmation.preview = 0
          /\ state \in {"AWAITING_CONFIRMATION", "AUTHORIZED"}
      BY DEF Moved, PreviewConsent, NoGrant
    <2>3. /\ KeepsPreviews(previews[Id(c)], marked)
          /\ Len(marked) = cur.consent.preview /\ marked \in Seq(Preview)
      BY <2>1, MarkedKeeps, MarkedOK DEF PreviewStatus
    <2>4. new \in Preview
      BY <1>1, CallFacts DEF Preview, Kind, PreviewStatus, Informed
    <2>5. /\ Len(pvs) = n /\ pvs[n] = new
          /\ \A q \in 1..Len(marked) : pvs[q] = marked[q]
      <3> HIDE DEF marked, new
      <3> QED
        BY <2>1, <2>3, <2>4, AppendProperties
    <2>6. /\ new.kind = kind /\ new.status = "ACTIVE"
          /\ state = IF AsksConsent(kind) THEN "AWAITING_CONFIRMATION" ELSE "AUTHORIZED"
      BY DEF AsksConsent
    <2>7. AsksConsent(kind) \/ ~kind.approve
      BY DEF AsksConsent
    <2> HIDE DEF marked, new, state, row, pvs, n
    <2>8. KeepsPreviews(previews[Id(c)], pvs)
      <3>1. n = cur.consent.preview + 1
        BY DEF n
      <3>2. Len(pvs) >= Len(previews[Id(c)])
        BY <2>1, <2>5, <3>1
      <3>3. ASSUME NEW q \in 1..Len(previews[Id(c)])
            PROVE  /\ pvs[q].kind = previews[Id(c)][q].kind
                   /\ pvs[q].expires = previews[Id(c)][q].expires
        <4>1. pvs[q] = marked[q]
          BY <2>1, <2>3, <2>5
        <4>2. /\ marked[q].kind = previews[Id(c)][q].kind
              /\ marked[q].expires = previews[Id(c)][q].expires
          BY <2>3 DEF KeepsPreviews
        <4> QED
          BY <4>1, <4>2
      <3> QED
        BY <3>2, <3>3 DEF KeepsPreviews
    <2>9. n >= 1
      BY <2>1 DEF n
    <2>10. ConsentOK(row, pvs)
      <3>1. CASE AsksConsent(kind)
        BY <2>2, <2>5, <2>6, <3>1 DEF ConsentOK, Consenting, Running
      <3>2. CASE ~AsksConsent(kind)
        <4>1. row.state = "AUTHORIZED" /\ ~kind.approve
          BY <2>2, <2>6, <2>7, <3>2
        <4>2. pvs[n].kind = kind /\ pvs[n].status = "ACTIVE"
          BY <2>5, <2>6
        <4>3. Consented(row, pvs)
          BY <2>2, <2>9, <3>2, <4>1, <4>2, Zenon DEF Consented
        <4> QED
          BY <4>1, <4>3 DEF ConsentOK
      <3> QED
        BY <3>1, <3>2
    <2> QED
      BY <1>1, <2>1, <2>2, <2>8, <2>10, SameEvidence
  <1> HIDE DEF row, pvs
  <1> QED
    BY <1>1, <1>2, <1>3, TransactsAndAnswers

\* A confirmation is for the current preview and ends with it.
LEMMA ConfirmKeepsConsent ==
  ASSUME InteractionInv, InteractionInv', ConsentInv, NEW c \in Callers, WriteConfirm(c)
  PROVE  ConsentInv'
  <1> DEFINE cur     == calls[c].cur
             p       == cur.consent.preview
             pv      == Current(Id(c), cur)
             grant   == [preview |-> p,
                         expires |-> Min2(pv.expires, calls[c].at + ConsentTtl)]
             consent == [preview |-> p, confirmation |-> grant,
                         approval |-> cur.consent.approval]
             state   == IF pv.kind.approve THEN "AWAITING_CONFIRMATION" ELSE "AUTHORIZED"
             pvs     == Marked(previews[Id(c)], p, "CONFIRMED")
             row     == Moved(cur, state, consent, cur.outcome)
  <1>1. /\ calls[c].step \in Informed /\ Req(c).op = "confirm"
        /\ cur.state = "AWAITING_CONFIRMATION" /\ UNCHANGED world
    BY WriteFacts DEF WriteConfirm, From
  <1>2. Transition(c, Req(c).op, row, pvs, Succeeds(c))
    BY <1>1 DEF WriteConfirm
  <1>3. ASSUME Fresh(c)
        PROVE  /\ KeepsRow(rows[Id(c)], row) /\ row.rev = rows[Id(c)].rev + 1
               /\ KeepsPreviews(previews[Id(c)], pvs)
               /\ ProperRow(row, pvs, world[Id(c)])
               /\ Settles(Req(c).op, row)
    <2>1. /\ rows[Id(c)] = cur /\ cur \in Row /\ p \in Nat
          /\ previews[Id(c)] \in Seq(Preview)
          /\ Len(previews[Id(c)]) = p /\ p >= 1
          /\ ProperRow(cur, previews[Id(c)], world[Id(c)])
          /\ RowOK(cur, Len(previews[Id(c)]), world[Id(c)])
      BY <1>1, <1>3, FreshProper DEF Previewed
    <2>2. pv = previews[Id(c)][p] /\ pv \in Preview
      BY <2>1, ElementOfSeq DEF Current
    <2>3. pv.expires \in Nat /\ calls[c].at \in Nat
      BY <1>1, <2>2, CallFacts DEF Preview, Informed
    <2>4. grant.preview = p /\ grant.expires <= pv.expires
      BY <2>3, InteractionAssumption DEF Min2
    <2>5. /\ row.state = state /\ row.rev = cur.rev + 1 /\ row.outcome = cur.outcome
          /\ row.consent.preview = p /\ row.consent.confirmation = grant
          /\ state \in {"AWAITING_CONFIRMATION", "AUTHORIZED"}
      BY DEF Moved
    <2>6. /\ KeepsPreviews(previews[Id(c)], pvs)
          /\ pvs[p].kind = pv.kind /\ pvs[p].expires = pv.expires
          /\ pvs[p].status = "CONFIRMED"
      <3>1. p \in 1..Len(previews[Id(c)]) /\ previews[Id(c)] \in Seq(Preview)
        BY <2>1
      <3>2. pv = previews[Id(c)][p]
        BY <2>2, Zenon
      <3> HIDE DEF p, pv
      <3>3. /\ KeepsPreviews(previews[Id(c)], pvs)
            /\ \A q \in 1..Len(previews[Id(c)]) :
                 /\ pvs[q].kind = previews[Id(c)][q].kind
                 /\ pvs[q].expires = previews[Id(c)][q].expires
                 /\ q = p => pvs[q].status = "CONFIRMED"
        BY <3>1, MarkedKeeps
      <3> HIDE DEF pvs
      <3> QED
        BY <3>1, <3>2, <3>3
    <2>7. AsksConsent(pv.kind)
      BY <1>1, <2>1, <2>2 DEF ProperRow, ConsentOK
    <2>8. pv.kind.approve \/ state = "AUTHORIZED"
      OBVIOUS
    <2>9. state = "AUTHORIZED" => ~pv.kind.approve
      OBVIOUS
    <2> HIDE DEF pvs, row, state, grant, pv, p
    <2>10. GrantedFor(row.consent.confirmation, p, pvs[p])
      BY <2>4, <2>5, <2>6 DEF GrantedFor
    <2>11. AsksConsent(pvs[p].kind) /\ (pvs[p].kind.approve => pv.kind.approve)
      BY <2>6, <2>7, Zenon
    <2>12. CASE row.state = "AWAITING_CONFIRMATION"
      <3>1. ConsentOK(row, pvs)
        BY <2>5, <2>6, <2>10, <2>11, <2>12 DEF ConsentOK, Consenting, Running
      <3> QED
        BY <1>1, <2>1, <2>5, <2>6, <3>1, SameEvidence DEF Undecided
    <2>13. CASE row.state = "AUTHORIZED"
      <3>1. ~pvs[p].kind.approve
        BY <2>5, <2>9, <2>11, <2>13
      <3>2. Consented(row, pvs)
        BY <2>1, <2>5, <2>6, <2>10, <2>11, <3>1 DEF Consented
      <3>3. ConsentOK(row, pvs)
        BY <2>13, <3>2 DEF ConsentOK
      <3> QED
        BY <1>1, <2>1, <2>5, <2>6, <3>3, SameEvidence DEF Undecided
    <2> QED
      BY <2>5, <2>12, <2>13
  <1> HIDE DEF row, pvs
  <1> QED
    BY <1>1, <1>2, <1>3, TransactsAndAnswers

\* An approval is for the current preview, which is confirmed, and ends with it.
LEMMA ApproveKeepsConsent ==
  ASSUME InteractionInv, InteractionInv', ConsentInv, NEW c \in Callers, WriteApprove(c)
  PROVE  ConsentInv'
  <1> DEFINE cur     == calls[c].cur
             p       == cur.consent.preview
             pvs     == previews[Id(c)]
             grant   == [preview |-> p, expires |-> calls[c].grant]
             consent == [preview |-> p, confirmation |-> cur.consent.confirmation,
                         approval |-> grant]
             row     == Moved(cur, "AUTHORIZED", consent, cur.outcome)
  <1>1. /\ calls[c].step \in Informed /\ Req(c).op = "approve" /\ calls[c].step = "write"
        /\ cur.state = "AWAITING_CONFIRMATION" /\ UNCHANGED world
    BY WriteFacts DEF WriteApprove, From, Writes, At
  <1>2. Transition(c, Req(c).op, row, pvs, Succeeds(c))
    BY <1>1 DEF WriteApprove
  <1>3. ASSUME Fresh(c)
        PROVE  /\ KeepsRow(rows[Id(c)], row) /\ row.rev = rows[Id(c)].rev + 1
               /\ KeepsPreviews(previews[Id(c)], pvs)
               /\ ProperRow(row, pvs, world[Id(c)])
               /\ Settles(Req(c).op, row)
    <2>1. /\ rows[Id(c)] = cur /\ cur \in Row /\ p \in Nat
          /\ pvs \in Seq(Preview) /\ p >= 1
          /\ ProperRow(cur, pvs, world[Id(c)])
          /\ RowOK(cur, Len(pvs), world[Id(c)])
          /\ MoreOK(calls[c], rows, previews, world, idem)
          /\ Id(c) = calls[c].req.digest.id /\ Req(c) = calls[c].req
      BY <1>1, <1>3, FreshProper DEF Previewed
    <2>2. /\ cur.consent.confirmation.preview # 0
          /\ calls[c].grant <= pvs[p].expires
      BY <1>1, <2>1 DEF MoreOK, SeenOK
    <2>3. /\ row.state = "AUTHORIZED" /\ row.rev = cur.rev + 1 /\ row.outcome = cur.outcome
          /\ row.consent.preview = p
          /\ row.consent.confirmation = cur.consent.confirmation
          /\ row.consent.approval = grant
      BY DEF Moved
    <2>4. /\ AsksConsent(pvs[p].kind) /\ pvs[p].status = "CONFIRMED"
          /\ GrantedFor(cur.consent.confirmation, p, pvs[p])
      BY <1>1, <2>1, <2>2 DEF ProperRow, ConsentOK
    <2>5. GrantedFor(grant, p, pvs[p])
      BY <2>2 DEF GrantedFor
    <2>6. KeepsPreviews(previews[Id(c)], pvs)
      BY <2>1, SamePreviews
    <2> HIDE DEF row, grant
    <2>7. Consented(row, pvs)
      BY <2>1, <2>3, <2>4, <2>5 DEF Consented
    <2>8. ConsentOK(row, pvs)
      BY <2>3, <2>7 DEF ConsentOK
    <2> HIDE DEF pvs, p
    <2> QED
      BY <1>1, <2>1, <2>3, <2>6, <2>8, SameEvidence DEF Undecided
  <1> HIDE DEF row, pvs
  <1> QED
    BY <1>1, <1>2, <1>3, TransactsAndAnswers

\* An aggregate that is given up has no evidence, and was not executed.
LEMMA GivenUp ==
  ASSUME NEW cur \in Row, NEW state \in {"CANCELLED", "EXPIRED"}, NEW old, NEW pvs,
         NEW w, NEW n, NEW op,
         ProperRow(cur, old, w), RowOK(cur, n, w),
         cur.state \in Undecided \cup {"AUTHORIZED"},
         op = "cancel" => state = "CANCELLED", op = "expire" => state = "EXPIRED",
         op \notin {"verify", "recover"}
  PROVE  LET row == Moved(cur, state, cur.consent, cur.outcome)
         IN  /\ KeepsRow(cur, row) /\ row.rev = cur.rev + 1
             /\ ProperRow(row, pvs, w) /\ Settles(op, row)
  <1> DEFINE row == Moved(cur, state, cur.consent, cur.outcome)
  <1>1. /\ row.state = state /\ row.rev = cur.rev + 1 /\ row.outcome = cur.outcome
        /\ row.consent = cur.consent
    BY DEF Moved
  <1> HIDE DEF row
  <1>2. /\ ~row.outcome.commit /\ row.outcome.recovery # "PENDING"
        /\ row.outcome.result => w.applied
    BY <1>1, Zenon DEF ProperRow, EvidenceOK, Undecided
  <1>3. row.state \notin {"SUCCEEDED", "RECOVERY_REQUIRED"}
    BY <1>1
  <1>4. EvidenceOK(row, pvs, w)
    BY <1>2, <1>3, Zenon DEF EvidenceOK
  <1>5. ConsentOK(row, pvs)
    BY <1>1 DEF ConsentOK, Consenting, Running
  <1>6. ~(w.calls > 0)
    BY DEF RowOK, Undecided, Running
  <1>7. cur.rev \in Nat
    BY DEF Row
  <1>8. KeepsRow(cur, row)
    BY <1>1, <1>7 DEF KeepsRow, Undecided, Running
  <1>9. Settles(op, row)
    BY <1>1 DEF Settles
  <1> QED
    BY <1>1, <1>4, <1>5, <1>6, <1>8, <1>9 DEF ProperRow, row

\* cancel and expire end the aggregate.
LEMMA GivingUpKeepsConsent ==
  ASSUME InteractionInv, InteractionInv', ConsentInv, NEW c \in Callers,
         WriteCancel(c) \/ WriteExpire(c)
  PROVE  ConsentInv'
  <1> DEFINE cur == calls[c].cur
             p   == cur.consent.preview
  <1>1. ASSUME NEW op \in {"cancel", "expire"}, NEW pvs, Writes(c, op),
               NEW state \in {"CANCELLED", "EXPIRED"},
               op = "cancel" => state = "CANCELLED", op = "expire" => state = "EXPIRED",
               Transition(c, op, Moved(cur, state, cur.consent, cur.outcome), pvs, Succeeds(c)),
               \/ pvs = previews[Id(c)]
               \/ \E st : pvs = Marked(previews[Id(c)], p, st)
        PROVE  ConsentInv'
    <2> DEFINE row == Moved(cur, state, cur.consent, cur.outcome)
    <2>1. /\ calls[c].step \in Informed /\ Req(c).op = op
          /\ cur.state \in Undecided \cup {"AUTHORIZED"} /\ UNCHANGED world
      BY <1>1, WriteFacts DEF From, Undecided
    <2>2. ASSUME Fresh(c)
          PROVE  /\ KeepsRow(rows[Id(c)], row) /\ row.rev = rows[Id(c)].rev + 1
                 /\ KeepsPreviews(previews[Id(c)], pvs)
                 /\ ProperRow(row, pvs, world[Id(c)])
                 /\ Settles(Req(c).op, row)
      <3>1. /\ rows[Id(c)] = cur /\ cur \in Row /\ previews[Id(c)] \in Seq(Preview)
            /\ ProperRow(cur, previews[Id(c)], world[Id(c)])
            /\ RowOK(cur, Len(previews[Id(c)]), world[Id(c)])
        BY <2>1, <2>2, FreshProper
      <3>2. KeepsPreviews(previews[Id(c)], pvs)
        BY <1>1, <3>1, SamePreviews, MarkedKeeps
      <3> QED
        BY <1>1, <2>1, <3>1, <3>2, GivenUp
    <2> HIDE DEF row
    <2>3. Transition(c, Req(c).op, row, pvs, Succeeds(c))
      BY <1>1, <2>1 DEF row
    <2> QED
      BY <2>1, <2>2, <2>3, TransactsAndAnswers
  <1>2. CASE WriteCancel(c)
    <2> DEFINE pvs == IF p # 0 /\ previews[Id(c)][p].status = "ACTIVE"
                      THEN Marked(previews[Id(c)], p, "SUPERSEDED") ELSE previews[Id(c)]
    <2>1. /\ Writes(c, "cancel")
          /\ Transition(c, "cancel", Moved(cur, "CANCELLED", cur.consent, cur.outcome), pvs,
                        Succeeds(c))
      BY <1>2 DEF WriteCancel
    <2>2. pvs = previews[Id(c)] \/ \E st : pvs = Marked(previews[Id(c)], p, st)
      OBVIOUS
    <2> HIDE DEF pvs
    <2> QED
      BY <1>1, <2>1, <2>2
  <1>3. CASE WriteExpire(c)
    <2> DEFINE pvs == Marked(previews[Id(c)], p, "EXPIRED")
    <2>1. /\ Writes(c, "expire")
          /\ Transition(c, "expire", Moved(cur, "EXPIRED", cur.consent, cur.outcome), pvs,
                        Succeeds(c))
      BY <1>3 DEF WriteExpire
    <2>2. \E st : pvs = Marked(previews[Id(c)], p, st)
      OBVIOUS
    <2> HIDE DEF pvs
    <2> QED
      BY <1>1, <2>1, <2>2
  <1> QED
    BY <1>2, <1>3

\* An execution runs on under the consent it was started with.
LEMMA RunsUnderConsent ==
  ASSUME NEW cur \in Row, NEW row, NEW pvs, NEW w,
         ProperRow(cur, pvs, w),
         cur.state \in {"AUTHORIZED", "EXECUTING", "VERIFYING", "RECOVERY_REQUIRED"},
         row.state \in Running \cup {"SUCCEEDED", "FAILED"},
         cur.state = "RECOVERY_REQUIRED" =>
           row.state \in {"RECOVERY_REQUIRED", "SUCCEEDED"},
         row.rev = cur.rev + 1, row.consent = cur.consent,
         EvidenceOK(row, pvs, w)
  PROVE  KeepsRow(cur, row) /\ ProperRow(row, pvs, w)
  <1>1. cur.rev \in Nat
    BY DEF Row
  <1>2. KeepsRow(cur, row)
    BY <1>1 DEF KeepsRow
  <1>3. Consented(cur, pvs)
    BY DEF ProperRow, ConsentOK, Consenting, Running
  <1>4. Consented(row, pvs)
    BY <1>3 DEF Consented
  <1>5. ConsentOK(row, pvs)
    BY <1>4 DEF ConsentOK, Running
  <1> QED
    BY <1>2, <1>5 DEF ProperRow

\* The intent is written with the consent it needs.
LEMMA ExecuteKeepsConsent ==
  ASSUME InteractionInv, InteractionInv', ConsentInv, NEW c \in Callers, WriteExecute(c)
  PROVE  ConsentInv'
  <1> DEFINE cur == calls[c].cur
             pvs == previews[Id(c)]
             row == Moved(cur, "EXECUTING", cur.consent, StartedOutcome(cur))
             k   == Gone(c, "port", row, calls[c].at, 0, "none")
  <1>1. /\ calls[c].step \in Informed /\ Req(c).op = "execute"
        /\ cur.state = "AUTHORIZED" /\ UNCHANGED world
    BY WriteFacts DEF WriteExecute, From
  <1>2. Commits(c, Req(c).op, row, pvs, k)
    BY <1>1 DEF WriteExecute, Commits, Transition, Goes, Gone
  <1>3. ASSUME Fresh(c)
        PROVE  /\ KeepsRow(rows[Id(c)], row) /\ row.rev = rows[Id(c)].rev + 1
               /\ KeepsPreviews(previews[Id(c)], pvs)
               /\ ProperRow(row, pvs, world[Id(c)])
               /\ Settles(Req(c).op, row)
               /\ \A R, P, W, I : R[Id(c)] = row => MoreOK(k, R, P, W, I)
    <2>1. /\ rows[Id(c)] = cur /\ cur \in Row /\ pvs \in Seq(Preview) /\ cur.rev \in Nat
          /\ ProperRow(cur, pvs, world[Id(c)])
          /\ MoreOK(calls[c], rows, previews, world, idem)
          /\ Id(c) = calls[c].req.digest.id /\ Req(c) = calls[c].req
      BY <1>1, <1>3, FreshProper
    <2>2. /\ row.state = "EXECUTING" /\ row.rev = cur.rev + 1 /\ row.consent = cur.consent
          /\ row.outcome.result = cur.outcome.result
          /\ row.outcome.commit = cur.outcome.commit
          /\ row.outcome.recovery = cur.outcome.recovery
      BY DEF Moved, StartedOutcome
    <2>3. /\ k.step = "port" /\ k.req = calls[c].req /\ k.cur = row
          /\ k.answer = "none"
      BY DEF Gone
    <2> HIDE DEF row, k
    <2>4. EvidenceOK(row, pvs, world[Id(c)])
      BY <1>1, <2>1, <2>2, Zenon DEF ProperRow, EvidenceOK
    <2>5. KeepsRow(cur, row) /\ ProperRow(row, pvs, world[Id(c)])
      BY <1>1, <2>1, <2>2, <2>4, RunsUnderConsent DEF Running
    <2>6. ASSUME NEW R, NEW P, NEW W, NEW I, R[Id(c)] = row
          PROVE  MoreOK(k, R, P, W, I)
      <3>1. k.req.digest.rev <= row.rev
        <4>1. calls[c].req.digest.rev \in Nat /\ calls[c].req.digest.rev <= cur.rev
          BY <1>1, <2>1, CallFacts DEF MoreOK, OperationOK, Informed, Call, Request, Digest
        <4> QED
          BY <2>1, <2>2, <2>3, <4>1
      <3>2. OperationOK(k)
        BY <1>1, <2>1, <2>3, <3>1 DEF OperationOK
      <3>3. SeenOK(k, R, P, W)
        BY <2>1, <2>3, <2>6 DEF SeenOK
      <3> QED
        BY <2>3, <3>2, <3>3 DEF MoreOK, AnsweredOK
    <2>7. KeepsPreviews(previews[Id(c)], pvs)
      BY <2>1, SamePreviews
    <2> QED
      BY <1>1, <2>1, <2>2, <2>5, <2>6, <2>7 DEF Settles
  <1> HIDE DEF row, pvs, k
  <1> QED
    BY <1>1, <1>2, <1>3, Transacts

\* What the port reported.
LEMMA ObserveKeepsConsent ==
  ASSUME InteractionInv, InteractionInv', ConsentInv, NEW c \in Callers, Observe(c)
  PROVE  ConsentInv'
  <1> DEFINE cur     == calls[c].cur
             st      == calls[c].obs
             pvs     == previews[Id(c)]
             outcome == [execution |-> st,
                         recovery |-> IF st = "UNCERTAIN" THEN "PENDING" ELSE "NOT_REQUIRED",
                         result |-> cur.outcome.result, commit |-> cur.outcome.commit]
             row     == Moved(cur, ObservedState(st), cur.consent, outcome)
  <1>1. calls[c].step = "observe" /\ calls[c].step \in Informed /\ UNCHANGED world
    BY DEF Observe, At, Informed
  <1>2. CallOK(calls[c], rows, world) /\ Req(c) = calls[c].req
        /\ MoreOK(calls[c], rows, previews, world, idem)
    BY <1>1, CallFacts DEF Informed, ConsentInv, CallsKnow
  <1>3. cur.state = "EXECUTING" /\ Req(c).op = "execute"
    BY <1>1, <1>2 DEF CallOK, StepOK, MoreOK, OperationOK
  <1>4. Transition(c, Req(c).op, row, pvs, Succeeds(c))
    BY <1>3 DEF Observe
  <1>5. ASSUME Fresh(c)
        PROVE  /\ KeepsRow(rows[Id(c)], row) /\ row.rev = rows[Id(c)].rev + 1
               /\ KeepsPreviews(previews[Id(c)], pvs)
               /\ ProperRow(row, pvs, world[Id(c)])
               /\ Settles(Req(c).op, row)
    <2>1. /\ rows[Id(c)] = cur /\ cur \in Row /\ pvs \in Seq(Preview)
          /\ ProperRow(cur, pvs, world[Id(c)])
      BY <1>1, <1>5, FreshProper
    <2>2. /\ row.state = ObservedState(st) /\ row.rev = cur.rev + 1
          /\ row.consent = cur.consent
          /\ row.outcome.result = cur.outcome.result
          /\ row.outcome.commit = cur.outcome.commit
          /\ row.outcome.recovery =
               IF st = "UNCERTAIN" THEN "PENDING" ELSE "NOT_REQUIRED"
      BY DEF Moved
    <2>3. /\ ObservedState(st) \in {"FAILED", "RECOVERY_REQUIRED", "VERIFYING"}
          /\ ObservedState(st) = "RECOVERY_REQUIRED" <=> st = "UNCERTAIN"
      BY DEF ObservedState
    <2>4. row.state = "RECOVERY_REQUIRED" <=> row.outcome.recovery = "PENDING"
      <3> HIDE DEF row
      <3>1. CASE st = "UNCERTAIN"
        BY <2>2, <2>3, <3>1
      <3>2. CASE st # "UNCERTAIN"
        BY <2>2, <2>3, <3>2
      <3> QED
        BY <3>1, <3>2
    <2> HIDE DEF row
    <2>5. row.state \in {"FAILED", "RECOVERY_REQUIRED", "VERIFYING"}
      BY <2>2, <2>3
    <2>6. EvidenceOK(row, pvs, world[Id(c)])
      <3>1. ~cur.outcome.commit /\ (cur.outcome.result => world[Id(c)].applied)
        BY <1>3, <2>1, Zenon DEF ProperRow, EvidenceOK
      <3>2. row.state # "SUCCEEDED"
        BY <2>5
      <3> QED
        BY <2>2, <2>4, <3>1, <3>2, Zenon DEF EvidenceOK
    <2>7. KeepsRow(cur, row) /\ ProperRow(row, pvs, world[Id(c)])
      BY <1>3, <2>1, <2>2, <2>5, <2>6, RunsUnderConsent DEF Running
    <2>8. KeepsPreviews(previews[Id(c)], pvs)
      BY <2>1, SamePreviews
    <2> QED
      BY <1>3, <2>1, <2>2, <2>7, <2>8 DEF Settles
  <1> HIDE DEF row, pvs
  <1> QED
    BY <1>1, <1>4, <1>5, TransactsAndAnswers

\* An execution nobody knows the outcome of becomes an uncertain one.
LEMMA ReconcileKeepsConsent ==
  ASSUME InteractionInv, InteractionInv', ConsentInv, NEW c \in Callers, Reconcile(c)
  PROVE  ConsentInv'
  <1> DEFINE cur == calls[c].cur
             pvs == previews[Id(c)]
             row == Moved(cur, "RECOVERY_REQUIRED", cur.consent,
                          [execution |-> "UNCERTAIN", recovery |-> "PENDING",
                           result |-> cur.outcome.result, commit |-> cur.outcome.commit])
             k   == Gone(c, "relookup", row, calls[c].at, 0, "none")
  <1>1. calls[c].step = "reconcile" /\ calls[c].step \in Informed /\ UNCHANGED world
    BY DEF Reconcile, At, Informed
  <1>2. CallOK(calls[c], rows, world) /\ Req(c) = calls[c].req
        /\ MoreOK(calls[c], rows, previews, world, idem)
    BY <1>1, CallFacts DEF Informed, ConsentInv, CallsKnow
  <1>3. cur.state = "EXECUTING" /\ Req(c).op = "recover"
    BY <1>1, <1>2 DEF CallOK, StepOK, MoreOK, OperationOK
  <1>4. Commits(c, "reconcile_execution", row, pvs, k)
    BY DEF Reconcile, Commits, Transition, Goes, Gone
  <1>5. ASSUME Fresh(c)
        PROVE  /\ KeepsRow(rows[Id(c)], row) /\ row.rev = rows[Id(c)].rev + 1
               /\ KeepsPreviews(previews[Id(c)], pvs)
               /\ ProperRow(row, pvs, world[Id(c)])
               /\ \A R, P, W, I : R[Id(c)] = row => MoreOK(k, R, P, W, I)
    <2>1. /\ rows[Id(c)] = cur /\ cur \in Row /\ pvs \in Seq(Preview) /\ cur.rev \in Nat
          /\ ProperRow(cur, pvs, world[Id(c)])
      BY <1>1, <1>5, FreshProper
    <2>2. /\ row.state = "RECOVERY_REQUIRED" /\ row.rev = cur.rev + 1
          /\ row.consent = cur.consent
          /\ row.outcome.result = cur.outcome.result
          /\ row.outcome.commit = cur.outcome.commit
          /\ row.outcome.recovery = "PENDING"
      BY DEF Moved
    <2>3. /\ k.step = "relookup" /\ k.req = calls[c].req /\ k.cur = row
          /\ k.answer = "none"
      BY DEF Gone
    <2> HIDE DEF row, k
    <2>4. EvidenceOK(row, pvs, world[Id(c)])
      <3>1. ~cur.outcome.commit /\ (cur.outcome.result => world[Id(c)].applied)
        BY <1>3, <2>1, Zenon DEF ProperRow, EvidenceOK
      <3> QED
        BY <2>2, <3>1, Zenon DEF EvidenceOK
    <2>5. KeepsRow(cur, row) /\ ProperRow(row, pvs, world[Id(c)])
      BY <1>3, <2>1, <2>2, <2>4, RunsUnderConsent DEF Running
    <2>6. k.req.digest.rev <= row.rev
      <3>1. calls[c].req.digest.rev \in Nat /\ calls[c].req.digest.rev <= cur.rev
        BY <1>1, <1>2, CallFacts DEF MoreOK, OperationOK, Informed, Call, Request, Digest
      <3> QED
        BY <2>1, <2>2, <2>3, <3>1
    <2>7. \A R, P, W, I : MoreOK(k, R, P, W, I)
      BY <1>2, <1>3, <2>3, <2>6 DEF MoreOK, OperationOK, SeenOK, AnsweredOK
    <2>8. KeepsPreviews(previews[Id(c)], pvs)
      BY <2>1, SamePreviews
    <2> QED
      BY <2>1, <2>2, <2>5, <2>7, <2>8
  <1>6. \A r : Settles("reconcile_execution", r)
    BY DEF Settles
  <1> HIDE DEF row, pvs, k
  <1> QED
    BY <1>1, <1>4, <1>5, <1>6, Transacts

\* A success is recorded of what was verified and committed.
LEMMA FinishKeepsConsent ==
  ASSUME InteractionInv, InteractionInv', ConsentInv, NEW c \in Callers, Finish(c)
  PROVE  ConsentInv'
  <1> DEFINE cur == calls[c].cur
             obs == calls[c].obs
             pvs == previews[Id(c)]
             w   == world[Id(c)]
             row == VerifiedRow(cur, obs)
  <1>1. calls[c].step = "finish" /\ calls[c].step \in Informed /\ UNCHANGED world
    BY DEF Finish, At, Informed
  <1>2. CallOK(calls[c], rows, world) /\ Req(c) = calls[c].req
        /\ MoreOK(calls[c], rows, previews, world, idem)
        /\ Id(c) = calls[c].req.digest.id
    BY <1>1, CallFacts DEF Informed, ConsentInv, CallsKnow
  <1>3. /\ cur.state \in {"VERIFYING", "RECOVERY_REQUIRED"}
        /\ Req(c).op \in {"verify", "recover"}
        /\ obs # "UNVERIFIED" => w.applied
    BY <1>1, <1>2 DEF CallOK, StepOK, KnowsOK, MoreOK, OperationOK
  <1>4. obs = "COMMITTED" => (pvs[cur.consent.preview].kind.commit => w.commits > 0)
    BY <1>1, <1>2 DEF MoreOK, SeenOK
  <1>5. Transition(c, Req(c).op, row, pvs, Succeeds(c))
    BY DEF Finish
  <1>6. ASSUME Fresh(c)
        PROVE  /\ KeepsRow(rows[Id(c)], row) /\ row.rev = rows[Id(c)].rev + 1
               /\ KeepsPreviews(previews[Id(c)], pvs)
               /\ ProperRow(row, pvs, world[Id(c)])
               /\ Settles(Req(c).op, row)
    <2>1. /\ rows[Id(c)] = cur /\ cur \in Row /\ pvs \in Seq(Preview)
          /\ ProperRow(cur, pvs, w)
      BY <1>1, <1>6, FreshProper
    <2>2. /\ row.rev = cur.rev + 1 /\ row.consent = cur.consent
          /\ row.state \in {"SUCCEEDED", "RECOVERY_REQUIRED"}
      BY DEF VerifiedRow, Moved
    <2>3. EvidenceOK(row, pvs, w)
      <3>1. CASE obs = "COMMITTED"
        <4>1. /\ row.state = "SUCCEEDED" /\ row.outcome.result = TRUE
              /\ row.outcome.commit = TRUE /\ row.outcome.recovery # "PENDING"
          BY <3>1 DEF VerifiedRow, Moved
        <4>2. w.applied
          BY <1>3, <3>1
        <4> HIDE DEF row, pvs, w, cur
        <4>3. pvs[row.consent.preview].kind.commit => w.commits > 0
          BY <1>4, <2>2, <3>1, Zenon
        <4>4. row.state # "RECOVERY_REQUIRED"
          BY <4>1
        <4> QED
          BY <4>1, <4>2, <4>3, <4>4, Zenon DEF EvidenceOK
      <3>2. CASE obs # "COMMITTED"
        <4>1. /\ row.state = "RECOVERY_REQUIRED" /\ row.outcome.recovery = "PENDING"
              /\ row.outcome.result = (obs = "VERIFIED")
              /\ row.outcome.commit = cur.outcome.commit
          BY <3>2 DEF VerifiedRow, Moved
        <4>2. obs = "VERIFIED" => w.applied
          BY <1>3
        <4>3. ~cur.outcome.commit
          <5>1. cur.state # "SUCCEEDED"
            BY <1>3
          <5> QED
            BY <2>1, <5>1, Zenon DEF ProperRow, EvidenceOK
        <4>4. row.state # "SUCCEEDED"
          BY <4>1
        <4> HIDE DEF row, pvs, w, cur
        <4> QED
          BY <4>1, <4>2, <4>3, <4>4, Zenon DEF EvidenceOK
      <3> QED
        BY <3>1, <3>2
    <2> HIDE DEF row
    <2>4. KeepsRow(cur, row) /\ ProperRow(row, pvs, w)
      BY <1>3, <2>1, <2>2, <2>3, RunsUnderConsent DEF Running
    <2>5. KeepsPreviews(previews[Id(c)], pvs)
      BY <2>1, SamePreviews
    <2> QED
      BY <1>3, <2>1, <2>2, <2>4, <2>5 DEF Settles
  <1> HIDE DEF row, pvs
  <1> QED
    BY <1>1, <1>5, <1>6, TransactsAndAnswers

\* A key of create names the interaction it made.
LEMMA CreateKeepsConsent ==
  ASSUME InteractionInv, InteractionInv', ConsentInv, NEW c \in Callers, Create(c)
  PROVE  ConsentInv'
  <1> DEFINE s == <<"create", Req(c).key>>
  <1>1. calls[c].step = "create" /\ UNCHANGED world
    BY DEF Create, At
  <1>2. /\ CallOK(calls[c], rows, world) /\ calls[c] \in Call /\ Req(c) = calls[c].req
        /\ MoreOK(calls[c], rows, previews, world, idem)
    BY DEF InteractionInv, TypeOK, CallsOK, ConsentInv, CallsKnow, Req
  <1>3. /\ Req(c).op = "create" /\ Req(c).key \in Keys /\ Req(c).digest.rev = 0
        /\ Req(c).op \in Operation
    BY <1>1, <1>2 DEF CallOK, AddressOK, MoreOK, OperationOK, Operation
  <1>4. s \in Scoped /\ s[1] = "create" /\ s = <<Req(c).op, Req(c).key>>
    BY <1>3 DEF Scoped, Operation
  <1>5. CASE idem[s] # {}
    <2>1. PICK m \in idem[s] : IF m.digest = Req(c).digest THEN Succeeds(c) ELSE Fails(c)
      BY <1>5 DEF Create
    <2>2. UNCHANGED <<stores, world>>
      BY <1>1, <1>5 DEF Create
    <2>3. CASE m.digest = Req(c).digest
      <3>1. calls' = [calls EXCEPT ![c] = Done(c)]
        BY <2>1, <2>3 DEF Succeeds, Done
      <3>2. MoreOK(Done(c), rows, previews, world, idem)
        BY <1>3, <1>4, <2>3, DoneKnows
      <3> QED
        BY <2>2, <3>1, <3>2, QuietStep
    <2>4. CASE m.digest # Req(c).digest
      BY <2>1, <2>2, <2>4, FailsQuietly
    <2> QED
      BY <2>3, <2>4
  <1>6. CASE idem[s] = {}
    <2>1. /\ \E i \in Interactions :
               /\ rows[i].rev = 0
               /\ rows' = [rows EXCEPT ![i] = NewRow]
               /\ idem' = [idem EXCEPT ![s] = {[digest |-> Req(c).digest, id |-> i]}]
          /\ calls' = [calls EXCEPT ![c] = Done(c)] /\ UNCHANGED previews
      BY <1>6 DEF Create, Succeeds, Done
    <2>2. PICK i \in Interactions :
            /\ rows[i].rev = 0
            /\ rows' = [rows EXCEPT ![i] = NewRow]
            /\ idem' = [idem EXCEPT ![s] = {[digest |-> Req(c).digest, id |-> i]}]
      BY <2>1
    <2> DEFINE m == [digest |-> Req(c).digest, id |-> i]
    <2>3. \A j \in Interactions : rows'[j] = IF j = i THEN NewRow ELSE rows[j]
      BY <2>2 DEF InteractionInv, TypeOK
    <2>4. \A t \in Scoped : idem'[t] = IF t = s THEN {m} ELSE idem[t]
      BY <1>4, <2>2 DEF InteractionInv, TypeOK
    <2>5. rows[i].state = "NONE" /\ world[i].calls = 0
      BY <2>2 DEF InteractionInv, RowsOK, RowOK, Running
    <2>6. Grows
      <3>1. ASSUME NEW j \in Interactions
            PROVE  /\ KeepsRow(rows[j], rows'[j])
                   /\ KeepsPreviews(previews[j], previews'[j])
                   /\ world'[j].commits >= world[j].commits
        <4>1. /\ rows[j].rev \in Nat /\ world[j].commits \in Nat
              /\ previews[j] \in Seq(Preview)
          BY DEF InteractionInv, TypeOK, Row, World
        <4>2. KeepsRow(rows[j], rows'[j])
          BY <2>2, <2>3, <2>5, <4>1 DEF KeepsRow, NewRow, Running
        <4> QED
          BY <1>1, <2>1, <4>1, <4>2, SamePreviews
      <3>2. \A t \in Scoped : idem[t] \subseteq idem'[t]
        BY <1>6, <2>4
      <3> QED
        BY <3>1, <3>2 DEF Grows
    <2>7. ProperRows'
      <3> SUFFICES ASSUME NEW j \in Interactions
                   PROVE  ProperRow(rows'[j], previews'[j], world'[j])
        BY DEF ProperRows
      <3>1. ProperRow(rows[j], previews[j], world[j])
        BY DEF ConsentInv, ProperRows
      <3>2. CASE j = i
        <4>1. ProperRow(NewRow, previews[i], world[i])
          BY <2>5 DEF ProperRow, ConsentOK, EvidenceOK, NewRow, NoOutcome, Consenting,
                      Running
        <4> QED
          BY <1>1, <2>1, <2>3, <3>2, <4>1
      <3>3. CASE j # i
        BY <1>1, <2>1, <2>3, <3>1, <3>3
      <3> QED
        BY <3>2, <3>3
    <2>8. ClaimTrue("create", m, rows')
      BY <1>3, <2>3 DEF ClaimTrue, NewRow
    <2>9. \A t \in Scoped : \A e \in idem'[t] : e \in idem[t] \/ ClaimTrue(t[1], e, rows')
      <3> SUFFICES ASSUME NEW t \in Scoped, NEW e \in idem'[t]
                   PROVE  e \in idem[t] \/ ClaimTrue(t[1], e, rows')
        OBVIOUS
      <3>1. CASE t = s
        BY <1>4, <2>4, <2>8, <3>1
      <3>2. CASE t # s
        BY <2>4, <3>2
      <3> QED
        BY <3>1, <3>2
    <2>10. MoreOK(Done(c), rows', previews', world', idem')
      <3>1. m \in idem'[<<Req(c).op, Req(c).key>>] /\ m.digest = Req(c).digest
        BY <1>4, <2>4
      <3> QED
        BY <1>3, <3>1, DoneKnows
    <2> QED
      BY <2>1, <2>6, <2>7, <2>9, <2>10, Together
  <1> QED
    BY <1>5, <1>6

-----------------------------------------------------------------------------
(* The theorems.                                                           *)

LEMMA ConsentInit ==
  Init => ConsentInv
  <1> SUFFICES ASSUME Init PROVE ConsentInv
    OBVIOUS
  <1>1. ProperRows
    <2> SUFFICES ASSUME NEW i \in Interactions
                 PROVE  ProperRow(rows[i], previews[i], world[i])
      BY DEF ProperRows
    <2>1. /\ rows[i] = NoRow
          /\ world[i] = [calls |-> 0, preview |-> 0, applied |-> FALSE, commits |-> 0]
      BY DEF Init
    <2> QED
      BY <2>1 DEF ProperRow, ConsentOK, EvidenceOK, NoRow, NoOutcome, Consenting, Running
  <1>2. ClaimsTrue
    BY DEF Init, ClaimsTrue
  <1>3. CallsKnow
    BY IdleAnswers DEF Init, CallsKnow
  <1> QED
    BY <1>1, <1>2, <1>3 DEF ConsentInv

LEMMA ConsentNext ==
  ASSUME InteractionInv, InteractionInv', ConsentInv, [Next]_vars
  PROVE  ConsentInv'
  <1>1. ASSUME NEW c \in Callers, InvokeCreate(c) \/ InvokeOther(c) \/ Crash(c)
        PROVE  ConsentInv'
    BY <1>1, InvokeKeepsConsent, CrashKeepsConsent
  <1>2. ASSUME NEW c \in Callers, Step(c) PROVE ConsentInv'
    BY <1>2, CreateKeepsConsent, LookupKeepsConsent, ReadKeepsConsent,
       ReadRecoverKeepsConsent, RereadKeepsConsent, PreviewKeepsConsent,
       ConfirmKeepsConsent, AuthorizeKeepsConsent, ApproveKeepsConsent,
       GivingUpKeepsConsent, ExecuteKeepsConsent, ExecutePortKeepsConsent,
       ObserveKeepsConsent, ReconcileKeepsConsent, VerifyPortKeepsConsent,
       CanonicalCommitKeepsConsent, FinishKeepsConsent
       DEF Step, ConsentStep, ExecutionStep
  <1>3. CASE Tick
    BY <1>3, NothingHappens DEF Tick
  <1>4. CASE UNCHANGED vars
    BY <1>4, NothingHappens DEF vars, stores
  <1> QED
    BY <1>1, <1>2, <1>3, <1>4 DEF Next

LEMMA ConsentHolds ==
  Spec => [](InteractionInv /\ ConsentInv)
  <1>1. InteractionInv /\ ConsentInv /\ [Next]_vars => (InteractionInv /\ ConsentInv)'
    BY InvNext, ConsentNext
  <1> QED
    BY <1>1, InvInit, ConsentInit, PTL DEF Spec

\* An execution was authorized.
LEMMA ConsentAuthorizes ==
  ASSUME InteractionInv, ConsentInv
  PROVE  ExecutionAuthorized
  <1> SUFFICES ASSUME NEW i \in Interactions, world[i].calls > 0
               PROVE  LET p  == world[i].preview
                          pv == previews[i][p]
                          cs == rows[i].consent
                      IN /\ p = cs.preview
                         /\ pv.status = IF pv.kind.confirm \/ pv.kind.approve
                                        THEN "CONFIRMED" ELSE "ACTIVE"
                         /\ pv.kind.confirm \/ pv.kind.approve =>
                              cs.confirmation.preview = p
                                /\ cs.confirmation.expires <= pv.expires
                         /\ pv.kind.approve =>
                              cs.approval.preview = p /\ cs.approval.expires <= pv.expires
    BY DEF ExecutionAuthorized
  <1>1. /\ RowOK(rows[i], Len(previews[i]), world[i])
        /\ ProperRow(rows[i], previews[i], world[i])
    BY DEF InteractionInv, RowsOK, ConsentInv, ProperRows
  <1>2. rows[i].state \in Consenting /\ world[i].preview = rows[i].consent.preview
    BY <1>1 DEF RowOK, ProperRow, Consenting
  <1>3. Consented(rows[i], previews[i])
    BY <1>1, <1>2 DEF ProperRow, ConsentOK
  <1> QED
    BY <1>2, <1>3 DEF Consented, AsksConsent, GrantedFor

\* The action was executed under the consent its own preview asks for, whatever
\* previews, confirmations, approvals, expirations and executions raced
\* (confirm, approve, start_execution).
THEOREM ExecutesWithConsent ==
  Spec => []ExecutionAuthorized
  BY ConsentAuthorizes, ConsentHolds, PTL

\* What verify and recover put on record is true of the world: results, commits
\* and success, although a call learns them several steps before it writes.
THEOREM EvidenceIsTrue ==
  Spec => []EvidenceTrue
  <1>1. ConsentInv => EvidenceTrue
    BY DEF ConsentInv, ProperRows, ProperRow, EvidenceOK, EvidenceTrue
  <1> QED
    BY <1>1, ConsentHolds, PTL

\* A success that was answered, in the first place or to a repetition, holds for
\* ever (_idempotent, _insert_idempotency).
THEOREM AnswersAreKept ==
  Spec => []AnswersHold
  <1>1. InteractionInv /\ ConsentInv => AnswersHold
    <2> SUFFICES ASSUME InteractionInv, ConsentInv,
                        NEW c \in Callers, calls[c].answer = "done"
                 PROVE  LET r == calls[c].req IN
                        /\ \E m \in idem[<<r.op, r.key>>] :
                             m.digest = r.digest /\ rows[m.id].rev > r.digest.rev
                        /\ r.op = "cancel"  => rows[r.digest.id].state = "CANCELLED"
                        /\ r.op = "expire"  => rows[r.digest.id].state = "EXPIRED"
                        /\ r.op \in {"verify", "recover"} =>
                             rows[r.digest.id].state \in {"RECOVERY_REQUIRED", "SUCCEEDED"}
      BY DEF AnswersHold
    <2> DEFINE r == calls[c].req
               s == <<r.op, r.key>>
    <2>1. AnsweredOK(calls[c], idem)
      BY DEF ConsentInv, CallsKnow, MoreOK
    <2>2. PICK m \in idem[s] : m.digest = r.digest
      BY <2>1 DEF AnsweredOK
    <2>3. s \in Scoped /\ s[1] = r.op
      BY <2>1 DEF AnsweredOK, Scoped
    <2>4. ClaimTrue(r.op, m, rows) /\ ClaimOK(r.op, m)
      BY <2>3 DEF ConsentInv, ClaimsTrue, InteractionInv, ClaimsOK
    <2>5. rows[m.id].rev > r.digest.rev
      BY <2>2, <2>4 DEF ClaimTrue
    <2>6. r.op # "create" => Settles(r.op, rows[r.digest.id])
      BY <2>2, <2>4 DEF ClaimTrue, ClaimOK
    <2> HIDE DEF r
    <2> QED
      BY <2>2, <2>5, <2>6 DEF Settles, r
  <1> QED
    BY <1>1, ConsentHolds, PTL
=============================================================================
