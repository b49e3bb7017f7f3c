----------------------------- MODULE Interaction -----------------------------
(***************************************************************************)
(* The trusted interaction domain (core/interaction): an external action   *)
(* is previewed, confirmed, perhaps approved, executed once through a      *)
(* port, verified, and recorded as a canonical commit.  Every call reads   *)
(* the aggregate, checks the caller's expected revision and the lifecycle  *)
(* state, perhaps awaits a port, and ends in one transaction that compares *)
(* the revision again, writes the aggregate and its facts, and claims the  *)
(* idempotency key.  Calls interleave between any two of these steps       *)
(* (adapters, the MCP server and the API share the database file), and a   *)
(* process may die between them.                                           *)
(*                                                                         *)
(* A preview is named by its preview_revision.  The aggregate and the      *)
(* facts of one call are read in one step: a fact changes only in a        *)
(* transaction that also moves the revision, so a call that reads them     *)
(* apart loses its transaction.  One workspace and one actor: the identity *)
(* checks in front of every call, failure details, the resolution phase,   *)
(* the verification status and audit rows are left out; the consumption of *)
(* ingress evidence by confirm is in TrustedIngress.                       *)
(***************************************************************************)
EXTENDS Naturals, Sequences, FiniteSets

CONSTANTS
  Interactions,   \* interaction identifiers
  Callers,        \* calls that may be in progress at the same time
  Calls,          \* caller -> operation -> how many keys its client has for it
  Kinds,          \* what previews ask for
  PortStatuses,   \* the statuses an execution port reports
  ConsentTtl,     \* lifetime of a confirmation or approval
  \* Bounds of the model.
  MaxKeys,        \* idempotency keys of an operation
  MaxTime,        \* the clock
  MaxRevision,    \* no new call once an interaction has this revision
  MaxFaults       \* crashes and port failures

LifecycleState ==
  {"REQUESTED", "PREVIEWED", "AWAITING_CONFIRMATION", "AUTHORIZED",
   "EXECUTING", "VERIFYING", "SUCCEEDED", "FAILED", "CANCELLED", "EXPIRED",
   "RECOVERY_REQUIRED"}
TERMINAL_STATES == {"SUCCEEDED", "FAILED", "CANCELLED", "EXPIRED"}
ExecutionStatus ==
  {"NOT_STARTED", "ACCEPTED", "ATTEMPTED", "ACKNOWLEDGED", "COMPLETED",
   "REJECTED", "FAILED", "UNCERTAIN"}

Operation == {"create", "preview", "confirm", "approve", "cancel", "expire",
              "execute", "verify", "recover"}

\* requires_confirmation, requires_approval, canonical_commit_required, expires_in.
Kind == [confirm: BOOLEAN, approve: BOOLEAN, commit: BOOLEAN, ttl: Nat \ {0}]

ASSUME InteractionAssumption ==
  /\ Calls \in [Callers -> [Operation -> 0..MaxKeys]]
  /\ Kinds \subseteq Kind
  /\ PortStatuses \subseteq ExecutionStatus \ {"NOT_STARTED", "ATTEMPTED"}
  /\ ConsentTtl \in Nat \ {0}
  /\ MaxKeys \in Nat
  /\ MaxTime \in Nat
  /\ MaxRevision \in Nat
  /\ MaxFaults \in Nat

VARIABLES
  rows,       \* interaction -> its aggregate (table interaction_records)
  previews,   \* interaction -> its previews, in order (table interaction_facts)
  idem,       \* (operation, key) -> claim (table interaction_idempotency)
  world,      \* interaction -> what its ports have really done
  calls,      \* caller -> where its call is, or its last answer
  now,        \* the clock
  faults      \* faults so far

vars == <<rows, previews, idem, world, calls, now, faults>>

-----------------------------------------------------------------------------
(* Rows, requests and calls.                                               *)

\* A confirmation or approval fact, bound to a preview (0: there is none).
Grant   == [preview: Nat, expires: Nat]
NoGrant == [preview |-> 0, expires |-> 0]

\* current_preview_id (0: none), current_confirmation_id, current_approval_id.
Consent == [preview: Nat, confirmation: Grant, approval: Grant]

\* execution_status, recovery_status, and whether verified_result_id and
\* canonical_commit_evidence_id are set.
RecoveryStatus == {"NOT_REQUIRED", "PENDING", "IN_PROGRESS", "RECOVERED", "FAILED"}
Outcome == [execution: ExecutionStatus, recovery: RecoveryStatus,
            result: BOOLEAN, commit: BOOLEAN]
NoOutcome == [execution |-> "NOT_STARTED", recovery |-> "NOT_REQUIRED",
              result |-> FALSE, commit |-> FALSE]

\* An aggregate; revision 0 stands for a row that does not exist.
Row == [state: LifecycleState \cup {"NONE"}, rev: Nat, consent: Consent,
        outcome: Outcome]
NoConsent == [preview |-> 0, confirmation |-> NoGrant, approval |-> NoGrant]
NoRow == [state |-> "NONE", rev |-> 0, consent |-> NoConsent,
          outcome |-> NoOutcome]
NewRow == [state |-> "REQUESTED", rev |-> 1, consent |-> NoConsent,
           outcome |-> NoOutcome]

PreviewStatus == {"ACTIVE", "SUPERSEDED", "EXPIRED", "CONFIRMED"}
Preview == [kind: Kind, status: PreviewStatus, expires: Nat]

\* Keys belong to an operation, and clients use them in order.
Keys == 1..MaxKeys
Scoped == (Operation \cup {"reconcile_execution"}) \X Keys

NoKind == [confirm |-> FALSE, approve |-> FALSE, commit |-> FALSE, ttl |-> 0]

\* What the request digest covers; the caller of create names no interaction.
Digest == [id: Interactions \cup {"new"}, rev: Nat, kind: Kind \cup {NoKind},
           preview: Nat]
Request == [op: Operation, key: Keys \cup {0}, digest: Digest]

\* An idempotency row; a scope holds no claim or one.
Claim == [digest: Digest, id: Interactions]

\* What the call has learned from its port.
Observation == {"none", "UNVERIFIED", "VERIFIED", "COMMITTED"} \cup ExecutionStatus

Steps == {"idle", "create", "lookup", "read", "authorize", "write", "port",
          "observe", "reconcile", "relookup", "reread", "verify", "commit",
          "finish"}
IdleRequest == [op |-> "create", key |-> 0,
                digest |-> [id |-> "new", rev |-> 0, kind |-> NoKind, preview |-> 0]]

\* cur is the aggregate as the call read it, at the time `at'; grant is the
\* expiry an approval authority gave.
Call == [step: Steps, req: Request, cur: Row, at: Nat, grant: Nat,
         obs: Observation, answer: {"none", "done"}]
IdleCall == [step |-> "idle", req |-> IdleRequest, cur |-> NoRow, at |-> 0,
             grant |-> 0, obs |-> "none", answer |-> "none"]

\* calls: how often the execution port was called; preview: with which
\* preview; applied: the action took place; commits: how often the commit
\* authority recorded it.
World == [calls: Nat, preview: Nat, applied: BOOLEAN, commits: Nat]

TypeOK ==
  /\ rows \in [Interactions -> Row]
  /\ previews \in [Interactions -> Seq(Preview)]
  /\ idem \in [Scoped -> SUBSET Claim]
  /\ world \in [Interactions -> World]
  /\ calls \in [Callers -> Call]
  /\ now \in 0..MaxTime
  /\ faults \in 0..MaxFaults

Init ==
  /\ rows = [i \in Interactions |-> NoRow]
  /\ previews = [i \in Interactions |-> <<>>]
  /\ idem = [s \in Scoped |-> {}]
  /\ world = [i \in Interactions |->
                [calls |-> 0, preview |-> 0, applied |-> FALSE, commits |-> 0]]
  /\ calls = [c \in Callers |-> IdleCall]
  /\ now = 0
  /\ faults = 0

-----------------------------------------------------------------------------
(* Steps of a call.                                                        *)

At(c, step) == calls[c].step = step

Req(c) == calls[c].req
Id(c)  == calls[c].req.digest.id

\* The call of c goes on: it knows the aggregate cur, read at time t.
Goes(c, step, cur, t, grant, obs) ==
  calls' = [calls EXCEPT ![c] =
              [step |-> step, req |-> calls[c].req, cur |-> cur, at |-> t,
               grant |-> grant, obs |-> obs, answer |-> "none"]]

GoesOn(c, step) ==
  Goes(c, step, calls[c].cur, calls[c].at, calls[c].grant, calls[c].obs)

Observes(c, step, obs) ==
  Goes(c, step, calls[c].cur, calls[c].at, calls[c].grant, obs)

\* The call of c fails, or succeeds and leaves its request behind.
Fails(c) == calls' = [calls EXCEPT ![c] = IdleCall]

Succeeds(c) ==
  calls' = [calls EXCEPT ![c] =
              [step |-> "idle", req |-> calls[c].req, cur |-> NoRow, at |-> 0,
               grant |-> 0, obs |-> "none", answer |-> "done"]]

stores == <<rows, previews, idem>>

Fault ==
  /\ faults < MaxFaults
  /\ faults' = faults + 1

Min2(m, n) == IF m < n THEN m ELSE n

-----------------------------------------------------------------------------
(* Requests.  A client names the previews and the revision it sees, or it  *)
(* repeats an earlier request; a revision becomes stale while the call is  *)
(* on its way.                                                             *)

Ask(op, key, i, rev, kind, p) ==
  [op |-> op, key |-> key,
   digest |-> [id |-> i, rev |-> rev, kind |-> kind, preview |-> p]]

FreshRequests(i) ==
  LET rev == rows[i].rev IN
  {Ask("preview", k, i, rev, d, 0) : k \in Keys, d \in Kinds}
    \cup {Ask(o, k, i, rev, NoKind, p) :
            o \in {"confirm", "approve"}, k \in Keys, p \in 1..Len(previews[i])}
    \cup {Ask(o, k, i, rev, NoKind, 0) :
            o \in {"cancel", "expire", "execute", "verify", "recover"}, k \in Keys}

\* Requests that left a trace; recover leaves one before it is done.
RepeatedRequests(i) ==
  UNION {{[op |-> IF s[1] = "reconcile_execution" THEN "recover" ELSE s[1],
           key |-> s[2], digest |-> m.digest] : m \in {m \in idem[s] : m.id = i}} :
         s \in {s \in Scoped : s[1] # "create"}}

\* Bound: a key is used only when the smaller ones of its operation are.
InOrder(op, key) ==
  \A k \in 1..(key - 1) :
    \/ idem[<<op, k>>] # {}
    \/ \E c \in Callers : ~At(c, "idle") /\ Req(c).op = op /\ Req(c).key = k

Invoke(c, r, step) ==
  /\ At(c, "idle")
  /\ r.key <= Calls[c][r.op]
  /\ InOrder(r.op, r.key)
  /\ calls' = [calls EXCEPT ![c] =
                 [step |-> step, req |-> r, cur |-> NoRow, at |-> 0, grant |-> 0,
                  obs |-> "none", answer |-> "none"]]
  /\ UNCHANGED <<stores, world, now, faults>>

\* Bound: there is an identifier for every interaction being created.
MayCreate(k) ==
  LET pending == {k} \cup {Req(d).key : d \in {d \in Callers : At(d, "create")}}
  IN Cardinality({x \in pending : idem[<<"create", x>>] = {}})
       <= Cardinality({i \in Interactions : rows[i].rev = 0})

InvokeCreate(c) ==
  \E k \in Keys :
    /\ MayCreate(k)
    /\ Invoke(c, [op |-> "create", key |-> k, digest |-> IdleRequest.digest], "create")

InvokeOther(c) ==
  \E i \in Interactions :
    /\ rows[i].rev \in 1..(MaxRevision - 1)
    /\ \E r \in FreshRequests(i) \cup RepeatedRequests(i) :
         Invoke(c, r, "lookup")

-----------------------------------------------------------------------------
(* The repository.                                                         *)

\* repository.create: the key is claimed before the aggregate is inserted,
\* in one transaction; a second create with the key returns the first one.
Create(c) ==
  LET s == <<"create", Req(c).key>> IN
  /\ At(c, "create")
  /\ \/ /\ idem[s] # {}
        /\ \E m \in idem[s] :
             IF m.digest = Req(c).digest THEN Succeeds(c) ELSE Fails(c)
        /\ UNCHANGED stores
     \/ /\ idem[s] = {}
        /\ \E i \in Interactions :
             /\ rows[i].rev = 0
             /\ rows' = [rows EXCEPT ![i] = NewRow]
             /\ idem' = [idem EXCEPT ![s] = {[digest |-> Req(c).digest, id |-> i]}]
        /\ Succeeds(c)
        /\ UNCHANGED previews
  /\ UNCHANGED <<world, now, faults>>

\* _insert_idempotency: the key is free, or this very request claimed it.
KeyAllows(c, op) ==
  \A m \in idem[<<op, Req(c).key>>] : m.digest = Req(c).digest /\ m.id = Id(c)

\* Mutant: the update does not compare the revision.
BugTransition(c, op, row, pvs, then) ==
  IF KeyAllows(c, op)
  THEN /\ rows' = [rows EXCEPT ![Id(c)] = row]
       /\ previews' = [previews EXCEPT ![Id(c)] = pvs]
       /\ idem' = [idem EXCEPT ![<<op, Req(c).key>>] =
                     {[digest |-> Req(c).digest, id |-> Id(c)]}]
       /\ then
  ELSE /\ UNCHANGED stores
       /\ Fails(c)

\* repository.transition: compare the revision, write aggregate and facts,
\* claim the key, all or nothing; then the call goes on with Then, or it
\* fails with a revision conflict.
Transition(c, op, row, pvs, then) ==
  IF rows[Id(c)].rev = calls[c].cur.rev /\ KeyAllows(c, op)
  THEN /\ rows' = [rows EXCEPT ![Id(c)] = row]
       /\ previews' = [previews EXCEPT ![Id(c)] = pvs]
       /\ idem' = [idem EXCEPT ![<<op, Req(c).key>>] =
                     {[digest |-> Req(c).digest, id |-> Id(c)]}]
       /\ then
  ELSE /\ UNCHANGED stores
       /\ Fails(c)

\* Mutant: a claimed key answers any request.
BugLookup(c) ==
  LET m == idem[<<Req(c).op, Req(c).key>>] IN
  /\ calls[c].step \in {"lookup", "relookup"}
  /\ \/ /\ m = {}
        /\ GoesOn(c, IF At(c, "lookup") THEN "read" ELSE "reread")
     \/ /\ m # {}
        /\ Succeeds(c)
  /\ UNCHANGED <<stores, world, now, faults>>

\* _idempotent: an earlier success of the same request is its answer, the key
\* of another request an error; recover looks again when it goes on to verify.
Lookup(c) ==
  LET m == idem[<<Req(c).op, Req(c).key>>] IN
  /\ calls[c].step \in {"lookup", "relookup"}
  /\ \/ /\ m = {}
        /\ GoesOn(c, IF At(c, "lookup") THEN "read" ELSE "reread")
     \/ /\ m # {}
        /\ IF \A e \in m : e.digest = Req(c).digest
           THEN Succeeds(c) ELSE Fails(c)
  /\ UNCHANGED <<stores, world, now, faults>>

-----------------------------------------------------------------------------
(* What a call checks on the aggregate it reads.                           *)

\* The current preview of aggregate cur of interaction i.
Current(i, cur) == previews[i][cur.consent.preview]

Holds(grant) == grant.preview # 0 /\ now < grant.expires

\* PREVIEWED is a state that only audit rows show.
MayPreview(cur) == cur.state \in {"REQUESTED", "PREVIEWED", "AWAITING_CONFIRMATION"}

MayConfirm(i, cur, p) ==
  /\ cur.state = "AWAITING_CONFIRMATION"
  /\ p = cur.consent.preview
  /\ previews[i][p].status = "ACTIVE"
  /\ now < previews[i][p].expires

MayApprove(i, cur, p) ==
  /\ cur.state = "AWAITING_CONFIRMATION"
  /\ p = cur.consent.preview
  /\ previews[i][p].kind.approve
  /\ now < previews[i][p].expires
  /\ Holds(cur.consent.confirmation)

MayCancel(cur) ==
  /\ cur.state \notin TERMINAL_STATES
  /\ cur.state \notin {"EXECUTING", "VERIFYING", "RECOVERY_REQUIRED"}
  /\ cur.outcome.execution \notin
       {"ATTEMPTED", "ACKNOWLEDGED", "COMPLETED", "UNCERTAIN"}

MayExpire(i, cur) ==
  /\ cur.state \in {"PREVIEWED", "AWAITING_CONFIRMATION"}
  /\ now >= Current(i, cur).expires

MayExecute(i, cur) ==
  /\ cur.state = "AUTHORIZED"
  /\ Current(i, cur).kind.confirm => Holds(cur.consent.confirmation)
  /\ Current(i, cur).kind.approve => Holds(cur.consent.approval)

\* Mutant: what needs recovery cannot be verified again.
BugMayVerify(cur) == cur.state = "VERIFYING"

MayVerify(cur) == cur.state \in {"VERIFYING", "RECOVERY_REQUIRED"}

\* The state and fact checks of the operation that r asks for.
Legal(r, cur) ==
  LET i == r.digest.id IN
  \/ r.op = "preview" /\ MayPreview(cur)
  \/ r.op = "confirm" /\ MayConfirm(i, cur, r.digest.preview)
  \/ r.op = "approve" /\ MayApprove(i, cur, r.digest.preview)
  \/ r.op = "cancel"  /\ MayCancel(cur)
  \/ r.op = "expire"  /\ MayExpire(i, cur)
  \/ r.op = "execute" /\ MayExecute(i, cur)
  \/ r.op = "verify"  /\ MayVerify(cur)

AfterRead(op) ==
  CASE op = "approve" -> "authorize"
    [] op = "verify"  -> "verify"
    [] OTHER          -> "write"

\* The call reads the aggregate; a stale revision or an illegal state ends it.
Read(c) ==
  LET cur == rows[Id(c)] IN
  /\ At(c, "read")
  /\ Req(c).op # "recover"
  /\ IF cur.rev = Req(c).digest.rev /\ Legal(Req(c), cur)
     THEN Goes(c, AfterRead(Req(c).op), cur, now, 0, "none")
     ELSE Fails(c)
  /\ UNCHANGED <<stores, world, now, faults>>

\* recover accepts a revision that its own reconciliation has moved on, and
\* reconciles first when an execution was started and nothing is known of it.
ReadRecover(c) ==
  LET cur == rows[Id(c)]
      gap == idem[<<"reconcile_execution", Req(c).key>>]
  IN
  /\ At(c, "read")
  /\ Req(c).op = "recover"
  /\ IF \/ cur.rev = Req(c).digest.rev
        \/ \E m \in gap : m.digest = Req(c).digest
     THEN Goes(c, IF /\ cur.state = "EXECUTING"
                     /\ cur.outcome.execution = "ATTEMPTED"
                  THEN "reconcile" ELSE "relookup",
               cur, now, 0, "none")
     ELSE Fails(c)
  /\ UNCHANGED <<stores, world, now, faults>>

\* verify on behalf of recover reads the aggregate again.
Reread(c) ==
  LET cur == rows[Id(c)] IN
  /\ At(c, "reread")
  /\ IF cur.rev = calls[c].cur.rev /\ MayVerify(cur)
     THEN Goes(c, "verify", cur, now, 0, "none")
     ELSE Fails(c)
  /\ UNCHANGED <<stores, world, now, faults>>

-----------------------------------------------------------------------------
(* Preview, consent and giving up.                                         *)

\* The next revision of aggregate cur.
Moved(cur, state, consent, outcome) ==
  [state |-> state, rev |-> cur.rev + 1, consent |-> consent, outcome |-> outcome]

\* Preview p of sequence pvs gets the status st.
Marked(pvs, p, st) ==
  [q \in 1..Len(pvs) |->
     IF q = p THEN [kind |-> pvs[q].kind, status |-> st, expires |-> pvs[q].expires]
              ELSE pvs[q]]

Writes(c, op) ==
  /\ At(c, "write")
  /\ Req(c).op = op
  /\ UNCHANGED <<world, now, faults>>

\* Mutant: the consent to the old preview stays in force.
BugPreviewConsent(cur) ==
  [preview |-> cur.consent.preview + 1, confirmation |-> cur.consent.confirmation,
   approval |-> cur.consent.approval]

\* The new preview takes the place of the current one and of its consent.
PreviewConsent(cur) ==
  [preview |-> cur.consent.preview + 1, confirmation |-> NoGrant,
   approval |-> NoGrant]

WritePreview(c) ==
  LET cur  == calls[c].cur
      kind == Req(c).digest.kind
  IN
  /\ Writes(c, "preview")
  /\ Transition(c, "preview",
       Moved(cur, IF kind.confirm \/ kind.approve
                  THEN "AWAITING_CONFIRMATION" ELSE "AUTHORIZED",
             PreviewConsent(cur), cur.outcome),
       Append(Marked(previews[Id(c)], cur.consent.preview, "SUPERSEDED"),
              [kind |-> kind, status |-> "ACTIVE",
               expires |-> calls[c].at + kind.ttl]),
       Succeeds(c))

\* A confirmation ends with its preview at the latest; alone it authorizes
\* only a preview that needs no approval.
WriteConfirm(c) ==
  LET cur == calls[c].cur
      p   == cur.consent.preview
      pv  == Current(Id(c), cur)
  IN
  /\ Writes(c, "confirm")
  /\ Transition(c, "confirm",
       Moved(cur, IF pv.kind.approve THEN "AWAITING_CONFIRMATION" ELSE "AUTHORIZED",
             [preview |-> p,
              confirmation |-> [preview |-> p,
                                expires |-> Min2(pv.expires, calls[c].at + ConsentTtl)],
              approval |-> cur.consent.approval],
             cur.outcome),
       Marked(previews[Id(c)], p, "CONFIRMED"),
       Succeeds(c))

\* approval_authority.authorize grants until some time after the read, or
\* it refuses or fails.
Authorize(c) ==
  /\ At(c, "authorize")
  /\ \/ \E t \in (calls[c].at + 1)..
                   Min2(Current(Id(c), calls[c].cur).expires, calls[c].at + ConsentTtl) :
          Goes(c, "write", calls[c].cur, calls[c].at, t, "none")
     \/ Fails(c)
  /\ UNCHANGED <<stores, world, now, faults>>

WriteApprove(c) ==
  LET cur == calls[c].cur IN
  /\ Writes(c, "approve")
  /\ Transition(c, "approve",
       Moved(cur, "AUTHORIZED",
             [preview |-> cur.consent.preview,
              confirmation |-> cur.consent.confirmation,
              approval |-> [preview |-> cur.consent.preview, expires |-> calls[c].grant]],
             cur.outcome),
       previews[Id(c)], Succeeds(c))

WriteCancel(c) ==
  LET cur == calls[c].cur
      p   == cur.consent.preview
      pvs == previews[Id(c)]
  IN
  /\ Writes(c, "cancel")
  /\ Transition(c, "cancel", Moved(cur, "CANCELLED", cur.consent, cur.outcome),
       IF p # 0 /\ pvs[p].status = "ACTIVE" THEN Marked(pvs, p, "SUPERSEDED") ELSE pvs,
       Succeeds(c))

WriteExpire(c) ==
  LET cur == calls[c].cur IN
  /\ Writes(c, "expire")
  /\ Transition(c, "expire", Moved(cur, "EXPIRED", cur.consent, cur.outcome),
       Marked(previews[Id(c)], cur.consent.preview, "EXPIRED"),
       Succeeds(c))

-----------------------------------------------------------------------------
(* Execution.                                                              *)

\* The intent is on disk before the port is called.
StartedOutcome(cur) ==
  [execution |-> "ATTEMPTED", recovery |-> cur.outcome.recovery,
   result |-> cur.outcome.result, commit |-> cur.outcome.commit]

WriteExecute(c) ==
  LET cur == calls[c].cur
      row == Moved(cur, "EXECUTING", cur.consent, StartedOutcome(cur))
  IN
  /\ Writes(c, "execute")
  /\ Transition(c, "execute", row, previews[Id(c)],
                Goes(c, "port", row, calls[c].at, 0, "none"))

\* The execution port, as the service sees it: an action it rejects or fails
\* did not take place, anything else may or may not have; an exception is an
\* uncertain outcome.  An uncertain outcome counts as a fault, and so does
\* an action that was accepted and did not take place.
ExecutePort(c) ==
  /\ At(c, "port")
  /\ \E st \in PortStatuses, applied \in BOOLEAN :
       /\ st \in {"REJECTED", "FAILED"} => ~applied
       /\ IF st \in {"REJECTED", "FAILED"} \/ (applied /\ st # "UNCERTAIN")
          THEN UNCHANGED faults ELSE Fault
       /\ world' = [world EXCEPT ![Id(c)] =
                      [calls   |-> world[Id(c)].calls + 1,
                       preview |-> calls[c].cur.consent.preview,
                       applied |-> world[Id(c)].applied \/ applied,
                       commits |-> world[Id(c)].commits]]
       /\ Observes(c, "observe", st)
  /\ UNCHANGED <<stores, now>>

\* Mutant: the status of the execution is taken for the state.
BugObservedState(st) == st

ObservedState(st) ==
  CASE st \in {"REJECTED", "FAILED"} -> "FAILED"
    [] st = "UNCERTAIN"              -> "RECOVERY_REQUIRED"
    [] OTHER                         -> "VERIFYING"

\* What the port reported is written against the revision of the intent.
Observe(c) ==
  LET cur == calls[c].cur
      st  == calls[c].obs
  IN
  /\ At(c, "observe")
  /\ Transition(c, "execute",
       Moved(cur, ObservedState(st), cur.consent,
             [execution |-> st,
              recovery |-> IF st = "UNCERTAIN" THEN "PENDING" ELSE "NOT_REQUIRED",
              result |-> cur.outcome.result, commit |-> cur.outcome.commit]),
       previews[Id(c)], Succeeds(c))
  /\ UNCHANGED <<world, now, faults>>

-----------------------------------------------------------------------------
(* Verification and recovery.                                              *)

\* An execution whose outcome was never written becomes an uncertain one; the
\* port is not called again.
Reconcile(c) ==
  LET cur == calls[c].cur
      row == Moved(cur, "RECOVERY_REQUIRED", cur.consent,
                   [execution |-> "UNCERTAIN", recovery |-> "PENDING",
                    result |-> cur.outcome.result, commit |-> cur.outcome.commit])
  IN
  /\ At(c, "reconcile")
  /\ Transition(c, "reconcile_execution", row, previews[Id(c)],
                Goes(c, "relookup", row, calls[c].at, 0, "none"))
  /\ UNCHANGED <<world, now, faults>>

\* The verification port says VERIFIED, with evidence, only of an action that
\* took place; that it does not say so of one that did counts as a fault.
VerifyPort(c) ==
  /\ At(c, "verify")
  /\ \/ /\ world[Id(c)].applied
        /\ Observes(c, "commit", "VERIFIED")
        /\ UNCHANGED faults
     \/ /\ Observes(c, "finish", "UNVERIFIED")
        /\ IF world[Id(c)].applied THEN Fault ELSE UNCHANGED faults
  /\ UNCHANGED <<stores, world, now>>

\* _canonical_commit: the authority records the commit and returns evidence
\* of it, or fails before or after recording; a preview that needs no
\* canonical commit gets evidence of that without asking.
CanonicalCommit(c) ==
  LET required == Current(Id(c), calls[c].cur).kind.commit
      recorded == [world EXCEPT ![Id(c)] =
                     [calls   |-> world[Id(c)].calls,
                      preview |-> world[Id(c)].preview,
                      applied |-> world[Id(c)].applied,
                      commits |-> world[Id(c)].commits + 1]]
  IN
  /\ At(c, "commit")
  /\ \/ /\ world' = IF required THEN recorded ELSE world
        /\ Observes(c, "finish", "COMMITTED")
        /\ UNCHANGED faults
     \/ /\ required
        /\ world' \in {world, recorded}
        /\ Observes(c, "finish", "VERIFIED")
        /\ Fault
  /\ UNCHANGED <<stores, now>>

\* Mutant: a verified result alone makes a success.
BugVerifiedRow(cur, obs) ==
  IF obs \in {"COMMITTED", "VERIFIED"}
  THEN Moved(cur, "SUCCEEDED", cur.consent,
             [execution |-> "COMPLETED",
              recovery |-> IF cur.outcome.recovery = "NOT_REQUIRED"
                           THEN "NOT_REQUIRED" ELSE "RECOVERED",
              result |-> TRUE, commit |-> TRUE])
  ELSE Moved(cur, "RECOVERY_REQUIRED", cur.consent,
             [execution |-> cur.outcome.execution, recovery |-> "PENDING",
              result |-> FALSE, commit |-> cur.outcome.commit])

\* Success needs the verified result and the evidence of the commit.
VerifiedRow(cur, obs) ==
  IF obs = "COMMITTED"
  THEN Moved(cur, "SUCCEEDED", cur.consent,
             [execution |-> "COMPLETED",
              recovery |-> IF cur.outcome.recovery = "NOT_REQUIRED"
                           THEN "NOT_REQUIRED" ELSE "RECOVERED",
              result |-> TRUE, commit |-> TRUE])
  ELSE Moved(cur, "RECOVERY_REQUIRED", cur.consent,
             [execution |-> cur.outcome.execution, recovery |-> "PENDING",
              result |-> obs = "VERIFIED", commit |-> cur.outcome.commit])

Finish(c) ==
  /\ At(c, "finish")
  /\ Transition(c, Req(c).op, VerifiedRow(calls[c].cur, calls[c].obs),
                previews[Id(c)], Succeeds(c))
  /\ UNCHANGED <<world, now, faults>>

-----------------------------------------------------------------------------
(* The environment.                                                        *)

\* The process of a call dies.
Crash(c) ==
  /\ ~At(c, "idle")
  /\ Fault
  /\ calls' = [calls EXCEPT ![c] = IdleCall]
  /\ UNCHANGED <<stores, world, now>>

Tick ==
  /\ now < MaxTime
  /\ now' = now + 1
  /\ UNCHANGED <<stores, world, calls, faults>>

\* Steps that give consent or take it back by time.
ConsentStep(c) ==
  \/ WriteConfirm(c)
  \/ Authorize(c)
  \/ WriteApprove(c)
  \/ WriteExpire(c)

\* The other steps of a call that is under way.
ExecutionStep(c) ==
  \/ Create(c)
  \/ Lookup(c)
  \/ Read(c)
  \/ ReadRecover(c)
  \/ Reread(c)
  \/ WritePreview(c)
  \/ WriteCancel(c)
  \/ WriteExecute(c)
  \/ ExecutePort(c)
  \/ Observe(c)
  \/ Reconcile(c)
  \/ VerifyPort(c)
  \/ CanonicalCommit(c)
  \/ Finish(c)

Step(c) == ConsentStep(c) \/ ExecutionStep(c)

Next ==
  \/ \E c \in Callers :
       \/ InvokeCreate(c)
       \/ InvokeOther(c)
       \/ Step(c)
       \/ Crash(c)
  \/ Tick

Spec == Init /\ [][Next]_vars

\* Somebody recovers an interaction that was started, with a key of its own.
InvokeRecover(c, i) ==
  /\ rows[i].state \in {"EXECUTING", "VERIFYING", "RECOVERY_REQUIRED"}
  /\ \E k \in Keys :
       /\ idem[<<"recover", k>>] = {}
       /\ Invoke(c, Ask("recover", k, i, rows[i].rev, NoKind, 0), "lookup")

\* Previews that need no consent, while the clock stands still.
RecoveryNext ==
  \E c \in Callers :
    \/ InvokeCreate(c)
    \/ InvokeOther(c)
    \/ ExecutionStep(c)
    \/ Crash(c)

\* Calls under way make progress, and the client of a started interaction
\* keeps calling recover: the service has no recovery worker of its own.
RecoverySpec ==
  /\ Init
  /\ [][RecoveryNext]_vars
  /\ \A c \in Callers : WF_vars(ExecutionStep(c))
  /\ \A i \in Interactions : SF_vars(\E c \in Callers : InvokeRecover(c, i))

-----------------------------------------------------------------------------
(* Properties.                                                             *)

PhaseOf(state) ==
  CASE state = "NONE"                                     -> "absent"
    [] state \in {"REQUESTED", "PREVIEWED", "AWAITING_CONFIRMATION"} -> "open"
    [] state = "AUTHORIZED"                               -> "authorized"
    [] state \in {"EXECUTING", "VERIFYING", "RECOVERY_REQUIRED"} -> "running"
    [] state = "SUCCEEDED"                                -> "succeeded"
    [] state = "FAILED"                                   -> "failed"
    [] state \in {"CANCELLED", "EXPIRED"}                 -> "closed"

Contract ==
  INSTANCE InteractionContract WITH
    phase     <- [i \in Interactions |-> PhaseOf(rows[i].state)],
    asked     <- [i \in Interactions |-> world[i].calls],
    performed <- [i \in Interactions |-> world[i].applied]

\* The calls implement the promise of InteractionContract, whatever races,
\* crashes, retries and recoveries happen: the execution port is asked at
\* most once and only for a started interaction, success is reported only of
\* an action that took place, and what is failed, cancelled or expired never
\* took place (start_execution, recover, cancel, verify).
ImplementsContract == Contract!Spec

\* The action was executed under the consent its own preview asks for: the
\* preview the port was given is the current one and was not superseded or
\* expired, and the confirmation and approval on record are for it, no
\* matter which previews and confirmations raced with the execution.
ExecutionAuthorized ==
  \A i \in Interactions : world[i].calls > 0 =>
    LET p  == world[i].preview
        pv == previews[i][p]
        cs == rows[i].consent
    IN /\ p = cs.preview
       /\ pv.status = IF pv.kind.confirm \/ pv.kind.approve
                      THEN "CONFIRMED" ELSE "ACTIVE"
       /\ pv.kind.confirm \/ pv.kind.approve =>
            cs.confirmation.preview = p /\ cs.confirmation.expires <= pv.expires
       /\ pv.kind.approve =>
            cs.approval.preview = p /\ cs.approval.expires <= pv.expires

\* Evidence on the aggregate is true of the world: a verified result only for
\* an action that took place, commit evidence only with a verified result and,
\* where the preview demands it, a recorded commit; SUCCEEDED has all of it,
\* and a recovery is pending exactly while one is required.
EvidenceTrue ==
  \A i \in Interactions :
    LET row == rows[i] IN
    /\ row.outcome.result => world[i].applied
    /\ row.outcome.commit =>
         /\ row.outcome.result
         /\ previews[i][row.consent.preview].kind.commit => world[i].commits > 0
    /\ (row.state = "SUCCEEDED") <=> row.outcome.commit
    /\ (row.state = "RECOVERY_REQUIRED") <=> (row.outcome.recovery = "PENDING")

\* A call that was answered with success, replayed answers included, owns its
\* idempotency key, and what it asked for is still in force: a key never
\* confirms two different requests (_idempotent, _insert_idempotency).
AnswersHold ==
  \A c \in Callers : calls[c].answer = "done" =>
    LET r == calls[c].req IN
    /\ \E m \in idem[<<r.op, r.key>>] : m.digest = r.digest /\ rows[m.id].rev > r.digest.rev
    /\ r.op = "cancel"  => rows[r.digest.id].state = "CANCELLED"
    /\ r.op = "expire"  => rows[r.digest.id].state = "EXPIRED"
    /\ r.op \in {"verify", "recover"} =>
         rows[r.digest.id].state \in {"RECOVERY_REQUIRED", "SUCCEEDED"}

\* An action that took place ends up as a success on record, if its client
\* keeps recovering and ports do not fail for ever, also after a crash between
\* the intent and its outcome.  (Bound: as long as there are fresh keys.)
RecoveryFinishes ==
  \A i \in Interactions :
    world[i].applied ~>
      \/ rows[i].state = "SUCCEEDED"
      \/ \A k \in Keys : idem[<<"recover", k>>] # {}

\* ARCH-001:443: a recovery is claimed with a compare-and-swap before it acts,
\* so that two owners never complete the canonical commit at the same time.
RecoveryExclusive ==
  \A c, d \in Callers :
    At(c, "commit") /\ At(d, "commit") /\ Id(c) = Id(d) => c = d
=============================================================================
