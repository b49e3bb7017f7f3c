------------------------- MODULE TrustedIngressProofs -------------------------
(***************************************************************************)
(* What the pilot keeps, for any number of interactions, messages, keys,   *)
(* callers and rotations.  Accepted evidence stays verifiable: rows keep   *)
(* the envelope they were inserted with, and the trusted keys only grow.   *)
(* The domain keeps its invariants although the pilot's tools ask it what  *)
(* a client of Interaction would not, and so the pilot implements the      *)
(* contract of the interaction service.  And a preview is confirmed by one *)
(* message of the owner, sent after the preview was made.                  *)
(***************************************************************************)
EXTENDS TrustedIngress, InteractionProofs, TLAPS

-----------------------------------------------------------------------------
(* Accepted evidence.                                                      *)

\* evidence has a row for every message.
EvidenceRows == evidence = [m \in Messages |-> evidence[m]]

VerifiableInv == EvidenceRows /\ AcceptedVerifiable

\* A step that neither touches the rows nor takes a key from the trusted ones.
LEMMA KeysGrow ==
  ASSUME VerifiableInv, evidence' = evidence, signing.trusted \subseteq signing'.trusted
  PROVE  VerifiableInv'
BY DEF VerifiableInv, EvidenceRows, AcceptedVerifiable

\* A step that changes one row and leaves the trusted keys alone.
LEMMA OneRow ==
  ASSUME VerifiableInv, signing' = signing,
         NEW n, NEW row, evidence' = [evidence EXCEPT ![n] = row],
         n \in Messages => row.envelope.key \in signing.trusted
  PROVE  VerifiableInv'
<1>1. evidence' = [m \in Messages |-> IF m = n THEN row ELSE evidence[m]]
  BY DEF VerifiableInv, EvidenceRows
<1>2. EvidenceRows'
  BY <1>1 DEF EvidenceRows
<1>3. AcceptedVerifiable'
  BY <1>1 DEF VerifiableInv, AcceptedVerifiable
<1> QED
  BY <1>2, <1>3 DEF VerifiableInv

\* The issuer hands an envelope over.
LEMMA AcceptKeeps ==
  ASSUME VerifiableInv, NEW m \in Messages, Accept(m)
  PROVE  VerifiableInv'
<1>1. signing' = signing
  BY DEF Accept
<1>2. CASE wire[m].key \in signing.trusted /\ evidence[m] = NoEvidence
  <2> DEFINE row == [envelope |-> wire[m], status |-> "UNUSED", consumer |-> <<>>]
  <2>1. evidence' = [evidence EXCEPT ![m] = row]
    BY <1>2 DEF Accept
  <2>2. row.envelope.key \in signing.trusted
    BY <1>2
  <2> HIDE DEF row
  <2> QED
    BY <1>1, <2>1, <2>2, OneRow
<1>3. CASE ~(wire[m].key \in signing.trusted /\ evidence[m] = NoEvidence)
  <2>1. evidence' = evidence
    BY <1>3 DEF Accept
  <2> QED
    BY <1>1, <2>1, KeysGrow
<1> QED
  BY <1>2, <1>3

\* A confirmation consumes evidence and keeps its envelope.
LEMMA ConfirmKeeps ==
  ASSUME VerifiableInv, NEW c \in Callers, TrustedConfirm(c)
  PROVE  VerifiableInv'
<1>1. signing' = signing
  BY DEF TrustedConfirm
<1>2. CASE evidence' = evidence
  BY <1>1, <1>2, KeysGrow
<1>3. CASE evidence' # evidence
  <2> DEFINE n == tools[c].msg
             row == [envelope |-> evidence[n].envelope, status |-> "CONSUMED",
                     consumer |-> <<Id(c), calls[c].cur.consent.preview>>]
  <2>1. Consumable(c) /\ evidence' = [evidence EXCEPT ![n] = row]
    BY <1>3 DEF TrustedConfirm
  <2>2. evidence[n].status = "UNUSED"
    BY <2>1 DEF Consumable
  <2>3. evidence[n] # NoEvidence
    BY <2>2 DEF NoEvidence
  <2>4. n \in Messages => row.envelope.key \in signing.trusted
    BY <2>3 DEF VerifiableInv, AcceptedVerifiable
  <2>5. evidence' = [evidence EXCEPT ![n] = row]
    BY <2>1
  <2> HIDE DEF n, row
  <2> QED
    BY <1>1, <2>4, <2>5, OneRow
<1> QED
  BY <1>2, <1>3

\* Whatever the keys go through, the trusted ones stay trusted.
LEMMA SigningKeeps ==
  ASSUME VerifiableInv, IssuerStarts \/ Rotate \/ InitKeys \/ Project \/ KeyToolCrash
  PROVE  VerifiableInv'
<1>1. evidence' = evidence
  BY DEF IssuerStarts, Rotate, InitKeys, Project, KeyToolCrash
<1>2. signing.trusted \subseteq signing'.trusted
  <2>1. CASE IssuerStarts
    BY <2>1 DEF IssuerStarts, Signing
  <2>2. CASE Rotate
    BY <2>2 DEF Rotate, Signing
  <2>3. CASE InitKeys
    BY <2>3 DEF InitKeys, Signing
  <2>4. CASE Project
    BY <2>4 DEF Project, Signing, Trusted
  <2>5. CASE KeyToolCrash
    BY <2>5 DEF KeyToolCrash, Signing
  <2> QED
    BY <2>1, <2>2, <2>3, <2>4, <2>5
<1> QED
  BY <1>1, <1>2, KeysGrow

\* The other steps know nothing of rows and keys.
LEMMA OtherKeeps ==
  ASSUME VerifiableInv, UNCHANGED <<evidence, signing>>
  PROVE  VerifiableInv'
BY KeysGrow

LEMMA IngressKeeps ==
  ASSUME VerifiableInv, [IngressNext]_allVars
  PROVE  VerifiableInv'
<1>1. ASSUME NEW m \in Messages, Deliver(m) PROVE VerifiableInv'
  BY <1>1, OtherKeeps DEF Deliver
<1>2. ASSUME NEW m \in Messages, Accept(m) PROVE VerifiableInv'
  BY <1>2, AcceptKeeps
<1>3. ASSUME NEW c \in Callers, TrustedConfirm(c) PROVE VerifiableInv'
  BY <1>3, ConfirmKeeps
<1>4. CASE IssuerStarts \/ Rotate \/ InitKeys \/ Project \/ KeyToolCrash
  BY <1>4, SigningKeeps
<1>5. ASSUME NEW c \in Callers,
             \/ OpenCall(c) \/ OpenStep(c)
             \/ PreviewTool(c) \/ PreviewCreated(c) \/ DrawChallenge(c)
             \/ StoreChallenge(c) \/ PreviewFails(c) \/ ConfirmTool(c)
             \/ DomainStep(c) \/ ToolCrash(c)
      PROVE VerifiableInv'
  <2>1. UNCHANGED <<evidence, signing>>
    BY <1>5 DEF OpenCall, OpenStep, PreviewTool, PreviewCreated, DrawChallenge,
                StoreChallenge, PreviewFails, ConfirmTool, DomainStep, ToolCrash,
                channel, ingressVars
  <2> QED
    BY <2>1, OtherKeeps
<1>6. CASE IngressTick \/ UNCHANGED allVars
  BY <1>6, OtherKeeps DEF IngressTick, allVars, ingressVars, channel
<1> QED
  BY <1>1, <1>2, <1>3, <1>4, <1>5, <1>6 DEF IngressNext

\* Evidence that accept_evidence stored verifies with the keys that
\* project_verifier_material published, in every state from then on.
THEOREM AcceptedStaysVerifiable == IngressSpec => []AcceptedVerifiable
<1>1. IngressInit => VerifiableInv
  <2> SUFFICES ASSUME IngressInit PROVE VerifiableInv
    OBVIOUS
  <2>1. evidence = [m \in Messages |-> NoEvidence]
    BY DEF IngressInit
  <2> QED
    BY <2>1 DEF VerifiableInv, EvidenceRows, AcceptedVerifiable
<1>2. VerifiableInv /\ [IngressNext]_allVars => VerifiableInv'
  BY IngressKeeps
<1>3. VerifiableInv => AcceptedVerifiable
  BY DEF VerifiableInv
<1> QED
  BY <1>1, <1>2, <1>3, PTL DEF IngressSpec

-----------------------------------------------------------------------------
(* The domain under the pilot.  Its tools make requests that a client of   *)
(* Interaction would not make, so the domain's steps are looked at again.  *)

\* Tools use the keys there are.
ToolKeys == \A c \in Callers : tools[c].at \in {"create", "preview"} => tools[c].key \in Keys

LoadOK == load \in Load /\ tools = [c \in Callers |-> tools[c]]

DomainInv == InteractionInv /\ ConsentInv /\ LoadOK /\ ToolKeys

\* A request of the pilot is one that the domain can be asked.
LEMMA PilotAsks ==
  ASSUME InteractionInv, ConsentInv, NEW c \in Callers, NEW r,
         RequestOK(r), Invoke(c, r, "lookup")
  PROVE  InteractionInv' /\ ConsentInv' /\ Advance
  <1>1. r \in Request /\ r.key \in Keys
    BY DEF RequestOK
  <1>2. InteractionInv' /\ Advance
    BY <1>1, InvokeStep
  <1> QED
    BY <1>2, RequestKeepsConsent

\* The preview tool previews the interaction that its key made.
LEMMA PreviewCreatedAsks ==
  ASSUME DomainInv, NEW c \in Callers, PreviewCreated(c)
  PROVE  InteractionInv' /\ ConsentInv' /\ Advance
  <1> DEFINE k == tools[c].key
             s == <<"create", k>>
  <1>1. PICK m \in idem[s] : Invoke(c, Ask("preview", k, m.id, 1, PilotKind, 0), "lookup")
    BY DEF PreviewCreated
  <1>2. k \in Keys /\ s \in Scoped /\ s[1] = "create"
    BY DEF DomainInv, ToolKeys, PreviewCreated, ToolAt, Scoped, Operation
  <1>3. m \in Claim /\ rows[m.id].rev > m.digest.rev
    BY <1>2 DEF DomainInv, InteractionInv, TypeOK, ConsentInv, ClaimsTrue, ClaimTrue
  <1>4. m.id \in Interactions /\ m.digest.rev \in Nat
    BY <1>3 DEF Claim, Digest
  <1>5. rows[m.id].rev \in Nat
    BY <1>4 DEF DomainInv, InteractionInv, TypeOK, Row
  <1>6. PilotKind \in Kind
    BY IngressAssumption DEF PilotKind, Kind
  <1> DEFINE r == Ask("preview", k, m.id, 1, PilotKind, 0)
  <1>7. RequestOK(r)
    BY <1>2, <1>3, <1>4, <1>5, <1>6 DEF RequestOK, Ask, Request, Operation, Digest
  <1> HIDE DEF r
  <1>8. Invoke(c, r, "lookup")
    BY <1>1 DEF r
  <1> QED
    BY <1>7, <1>8, PilotAsks DEF DomainInv

\* The confirm tool confirms the preview that the interaction shows.
LEMMA ConfirmToolAsks ==
  ASSUME DomainInv, NEW c \in Callers, ConfirmTool(c)
  PROVE  InteractionInv' /\ ConsentInv' /\ Advance
  <1>1. PICK i \in Interactions, k \in 1..load.keys :
          /\ rows[i].state = "AWAITING_CONFIRMATION"
          /\ Invoke(c, Ask("confirm", k, i, rows[i].rev, NoKind, rows[i].consent.preview),
                    "lookup")
    BY DEF ConfirmTool
  <1>2. k \in Keys
    BY InteractionAssumption DEF DomainInv, LoadOK, Load, Keys
  <1>3. /\ rows[i] \in Row /\ RowOK(rows[i], Len(previews[i]), world[i])
    BY DEF DomainInv, InteractionInv, TypeOK, RowsOK
  <1>4. rows[i].rev \in Nat /\ rows[i].consent.preview \in Nat
    BY <1>3 DEF Row, Consent
  <1>5. rows[i].rev >= 1
    BY <1>1, <1>3, <1>4 DEF RowOK
  <1> DEFINE r == Ask("confirm", k, i, rows[i].rev, NoKind, rows[i].consent.preview)
  <1>6. RequestOK(r)
    BY <1>2, <1>4, <1>5 DEF RequestOK, Ask, Request, Operation, Digest
  <1> HIDE DEF r
  <1>7. Invoke(c, r, "lookup")
    BY <1>1 DEF r
  <1> QED
    BY <1>6, <1>7, PilotAsks DEF DomainInv

\* A call of the domain is broken off.
LEMMA BrokenOff ==
  ASSUME InteractionInv, ConsentInv, NEW c \in Callers, Fails(c),
         UNCHANGED <<stores, world, now>>, faults' = faults \/ Fault
  PROVE  InteractionInv' /\ ConsentInv' /\ Advance
  <1>1. UNCHANGED <<rows, previews, idem, world, now>>
    BY DEF stores
  <1>2. now' \in 0..MaxTime /\ faults \in 0..MaxFaults
    BY <1>1 DEF InteractionInv, TypeOK
  <1>3. faults' \in 0..MaxFaults
    BY <1>2, FaultOK
  <1>4. InteractionInv' /\ Advance
    BY <1>1, <1>2, <1>3, CallFails
  <1> QED
    BY <1>1, <1>4, FailsQuietly

\* A step that the domain does not notice, but for a fault.
LEMMA Unnoticed ==
  ASSUME InteractionInv, ConsentInv, UNCHANGED <<stores, world, now, calls>>,
         faults' = faults \/ Fault
  PROVE  InteractionInv' /\ ConsentInv' /\ Advance
  <1>1. UNCHANGED <<rows, previews, idem, world, now, calls>>
    BY DEF stores
  <1>2. faults' \in 0..MaxFaults
    BY FaultOK DEF InteractionInv, TypeOK
  <1>3. TypeOK'
    BY <1>1, <1>2 DEF InteractionInv, TypeOK
  <1>4. RowsOK' /\ CallsOK' /\ OnePort' /\ ClaimsOK'
    BY <1>1 DEF InteractionInv, RowsOK, CallsOK, OnePort, ClaimsOK, At, Id
  <1>5. InteractionInv'
    BY <1>3, <1>4 DEF InteractionInv
  <1>6. ConsentInv'
    BY <1>1, NothingHappens
  <1> QED
    BY <1>1, <1>5, <1>6 DEF Advance

\* A step of the domain as Interaction has it.
LEMMA DomainSteps ==
  ASSUME InteractionInv, ConsentInv, [Next]_vars
  PROVE  InteractionInv' /\ ConsentInv' /\ Advance
  BY InvNext, ConsentNext

\* Every step of the pilot keeps what holds of the domain.
LEMMA IngressKeepsDomain ==
  ASSUME DomainInv, [IngressNext]_allVars
  PROVE  InteractionInv' /\ ConsentInv' /\ Advance
  <1>1. ASSUME NEW c \in Callers, PreviewTool(c)
        PROVE  InteractionInv' /\ ConsentInv' /\ Advance
    <2>1. load.keys \in 0..MaxKeys
      BY DEF DomainInv, LoadOK, Load
    <2>2. InvokeCreate(c)
      BY <1>1, <2>1, InteractionAssumption DEF PreviewTool, InvokeCreate, Keys
    <2> QED
      BY <2>2, DomainSteps DEF Next, DomainInv
  <1>2. ASSUME NEW c \in Callers, OpenCall(c) \/ OpenStep(c) \/ DomainStep(c)
        PROVE  InteractionInv' /\ ConsentInv' /\ Advance
    <2>1. InvokeCreate(c) \/ InvokeOther(c) \/ Step(c)
      BY <1>2 DEF OpenCall, OpenStep, DomainStep, Step, ExecutionStep
    <2> QED
      BY <2>1, DomainSteps DEF Next, DomainInv
  <1>3. ASSUME NEW c \in Callers, TrustedConfirm(c)
        PROVE  InteractionInv' /\ ConsentInv' /\ Advance
    <2>1. CASE WriteConfirm(c)
      BY <2>1, DomainSteps DEF Next, Step, ConsentStep, DomainInv
    <2>2. CASE Fails(c) /\ UNCHANGED <<stores, world, now, faults>>
      BY <2>2, BrokenOff DEF DomainInv
    <2> QED
      BY <1>3, <2>1, <2>2 DEF TrustedConfirm
  <1>4. ASSUME NEW c \in Callers, ToolCrash(c)
        PROVE  InteractionInv' /\ ConsentInv' /\ Advance
    BY <1>4, BrokenOff DEF ToolCrash, Fails, DomainInv
  <1>5. ASSUME NEW c \in Callers, DrawChallenge(c) \/ StoreChallenge(c) \/ PreviewFails(c)
        PROVE  InteractionInv' /\ ConsentInv' /\ Advance
    <2>1. UNCHANGED vars
      BY <1>5 DEF DrawChallenge, StoreChallenge, PreviewFails
    <2> QED
      BY <2>1, DomainSteps DEF DomainInv
  <1>6. ASSUME NEW m \in Messages, Deliver(m) \/ Accept(m)
        PROVE  InteractionInv' /\ ConsentInv' /\ Advance
    <2>1. UNCHANGED vars
      BY <1>6 DEF Deliver, Accept
    <2> QED
      BY <2>1, DomainSteps DEF DomainInv
  <1>7. CASE IssuerStarts \/ Rotate \/ InitKeys \/ Project
    <2>1. UNCHANGED vars
      BY <1>7 DEF IssuerStarts, Rotate, InitKeys, Project
    <2> QED
      BY <2>1, DomainSteps DEF DomainInv
  <1>8. CASE KeyToolCrash
    BY <1>8, Unnoticed DEF KeyToolCrash, DomainInv
  <1>9. CASE IngressTick
    BY <1>9, DomainSteps DEF IngressTick, Next, DomainInv
  <1>10. CASE UNCHANGED allVars
    BY <1>10, DomainSteps DEF allVars, DomainInv
  <1> QED
    BY <1>1, <1>2, <1>3, <1>4, <1>5, <1>6, <1>7, <1>8, <1>9, <1>10,
       PreviewCreatedAsks, ConfirmToolAsks DEF IngressNext

\* Tools keep their keys.
LEMMA ToolsKeepKeys ==
  ASSUME DomainInv, [IngressNext]_allVars
  PROVE  LoadOK' /\ ToolKeys'
  <1>1. ASSUME load' = load, NEW c \in Callers, NEW t, tools' = [tools EXCEPT ![c] = t],
               t.at \in {"create", "preview"} => t.key \in Keys
        PROVE  LoadOK' /\ ToolKeys'
    <2>1. tools' = [d \in Callers |-> IF d = c THEN t ELSE tools[d]]
      BY <1>1 DEF DomainInv, LoadOK
    <2> QED
      BY <1>1, <2>1 DEF DomainInv, LoadOK, ToolKeys
  <1>2. ASSUME load' = load, tools' = tools PROVE LoadOK' /\ ToolKeys'
    BY <1>2 DEF DomainInv, LoadOK, ToolKeys
  <1>3. ASSUME NEW c \in Callers, PreviewTool(c) PROVE LoadOK' /\ ToolKeys'
    <2>1. PICK k \in 1..load.keys : ToolGoes(c, "create", k)
      BY <1>3 DEF PreviewTool
    <2>2. k \in Keys
      BY InteractionAssumption DEF DomainInv, LoadOK, Load, Keys
    <2> QED
      BY <1>1, <1>3, <2>1, <2>2 DEF PreviewTool, ToolGoes, IdleTool
  <1>4. ASSUME NEW c \in Callers, PreviewCreated(c) PROVE LoadOK' /\ ToolKeys'
    <2>1. tools[c].key \in Keys
      BY <1>4 DEF DomainInv, ToolKeys, PreviewCreated, ToolAt
    <2> QED
      BY <1>1, <1>4, <2>1 DEF PreviewCreated, ToolGoes, IdleTool
  <1>5. ASSUME NEW c \in Callers, DrawChallenge(c) PROVE LoadOK' /\ ToolKeys'
    <2>1. PICK text \in Texts :
            tools' = [tools EXCEPT ![c] = [IdleTool EXCEPT !.at = "store",
                        !.rev = rows[Id(c)].rev, !.made = now, !.text = text]]
      BY <1>5 DEF DrawChallenge
    <2> QED
      BY <1>1, <1>5, <2>1 DEF DrawChallenge, IdleTool
  <1>6. ASSUME NEW c \in Callers, ConfirmTool(c) PROVE LoadOK' /\ ToolKeys'
    <2>1. PICK m, n : tools' = [tools EXCEPT ![c] =
                                  [IdleTool EXCEPT !.at = "confirm", !.msg = m, !.nth = n]]
      BY <1>6 DEF ConfirmTool
    <2> QED
      BY <1>1, <1>6, <2>1 DEF ConfirmTool, IdleTool
  <1>7. ASSUME NEW c \in Callers, StoreChallenge(c) \/ PreviewFails(c) \/ ToolCrash(c)
        PROVE  LoadOK' /\ ToolKeys'
    <2>1. ToolEnds(c) /\ load' = load
      BY <1>7 DEF StoreChallenge, PreviewFails, ToolCrash
    <2> QED
      BY <1>1, <2>1 DEF ToolEnds, IdleTool
  <1>8. ASSUME NEW c \in Callers, OpenCall(c) \/ OpenStep(c) \/ DomainStep(c) \/ TrustedConfirm(c)
        PROVE  LoadOK' /\ ToolKeys'
    BY <1>2, <1>8 DEF OpenCall, OpenStep, DomainStep, TrustedConfirm, ingressVars
  <1>9. ASSUME NEW m \in Messages, Deliver(m) \/ Accept(m) PROVE LoadOK' /\ ToolKeys'
    BY <1>2, <1>9 DEF Deliver, Accept
  <1>10. CASE IssuerStarts \/ Rotate \/ InitKeys \/ Project \/ KeyToolCrash
    BY <1>2, <1>10 DEF IssuerStarts, Rotate, InitKeys, Project, KeyToolCrash
  <1>11. CASE IngressTick \/ UNCHANGED allVars
    BY <1>2, <1>11 DEF IngressTick, allVars, ingressVars
  <1> QED
    BY <1>3, <1>4, <1>5, <1>6, <1>7, <1>8, <1>9, <1>10, <1>11 DEF IngressNext

LEMMA DomainHolds ==
  IngressSpec => []DomainInv
  <1>1. IngressInit => DomainInv
    <2> SUFFICES ASSUME IngressInit PROVE DomainInv
      OBVIOUS
    <2>1. InteractionInv /\ ConsentInv
      BY InvInit, ConsentInit DEF IngressInit
    <2>2. LoadOK /\ ToolKeys
      BY IngressAssumption DEF IngressInit, LoadOK, ToolKeys, IdleTool
    <2> QED
      BY <2>1, <2>2 DEF DomainInv
  <1>2. DomainInv /\ [IngressNext]_allVars => DomainInv'
    BY IngressKeepsDomain, ToolsKeepKeys DEF DomainInv
  <1> QED
    BY <1>1, <1>2, PTL DEF IngressSpec

\* Under the pilot and under callers who ask the domain at will, the external
\* action is asked for with the plan, the confirmation and the authorization
\* that the one preview it executes called for.
THEOREM PilotExecutesWithConsent == IngressSpec => []ExecutionAuthorized
  <1>1. DomainInv => ExecutionAuthorized
    BY ConsentAuthorizes DEF DomainInv
  <1> QED
    BY <1>1, DomainHolds, PTL

\* Every step of the pilot - tools, issuer, rotation, crashes - is a step of the
\* contract that the interaction service promises, or changes nothing of it.
THEOREM PilotImplementsContract == IngressSpec => ImplementsContract
  <1>1. IngressInit => Contract!Init
    BY PhaseCases DEF IngressInit, Init, Contract!Init, NoRow
  <1>2. DomainInv /\ DomainInv' /\ [IngressNext]_allVars => [Contract!Next]_(Contract!vars)
    BY IngressKeepsDomain, AdvanceIsContract DEF DomainInv
  <1> QED
    BY <1>1, <1>2, DomainHolds, PTL DEF IngressSpec, ImplementsContract, Contract!Spec

-----------------------------------------------------------------------------
(* What the channel, the challenges and the tools say of confirmations.    *)

Message  == [text: Texts \cup {"none"}, at: Nat]
Envelope == [key: Nat, received: Nat]

\* The issuer gave a message the time at which it first reached it, and whatever is
\* handed over or stored afterwards is that first envelope.
MessageOK(m) ==
  /\ \/ messages[m] = Silent /\ journal[m] = NoEnvelope
     \/ /\ messages[m] # Silent /\ journal[m].key >= 1
        /\ journal[m].received = messages[m].at
  /\ wire[m] \in {NoEnvelope, journal[m]}
  /\ evidence[m].status = "UNUSED" =>
       /\ journal[m] # NoEnvelope /\ evidence[m].envelope = journal[m]
       /\ evidence[m].consumer = <<>>

ChannelInv ==
  /\ messages \in [Messages -> Message]
  /\ journal \in [Messages -> Envelope] /\ wire \in [Messages -> Envelope]
  /\ evidence = [m \in Messages |-> evidence[m]]
  /\ signing.active \in Nat \ {0} /\ signing.issuer \in Nat \ {0}
  /\ \A m \in Messages : MessageOK(m)

\* Challenges are sequences of records.
Formed(h) ==
  h = [preview |-> h.preview, rev |-> h.rev, text |-> h.text, created |-> h.created,
       expires |-> h.expires, status |-> h.status]

ChallengeSeqs ==
  /\ challenges = [i \in Interactions |-> challenges[i]]
  /\ \A i \in Interactions :
       /\ \E S : challenges[i] \in Seq(S)
       /\ \A n \in 1..Len(challenges[i]) : Formed(challenges[i][n])

\* What the confirm tool has checked and nothing can undo: its message repeats its
\* challenge, and first reached the issuer after the preview was made.
ToolChecked(c) ==
  LET i == Id(c)
      h == challenges[i][tools[c].nth]
  IN /\ i \in Interactions
     /\ tools[c].msg \in Messages /\ messages[tools[c].msg] # Silent
     /\ tools[c].nth \in 1..Len(challenges[i])
     /\ h.preview \in 1..Len(previews[i])
     /\ messages[tools[c].msg].text = h.text
     /\ messages[tools[c].msg].at > Created(i, h.preview)

\* A preview is confirmed with one message and one challenge, or has taken none.
Consumption(i, p) ==
  IF p \in 1..Len(previews[i]) /\ previews[i][p].status = "CONFIRMED"
  THEN \E m \in Messages, n \in 1..Len(challenges[i]) :
         /\ ConsumedBy(i, p) = {m}
         /\ Spent(i, p) = {n}
         /\ messages[m] # Silent
         /\ messages[m].text = challenges[i][n].text
         /\ messages[m].at > Created(i, p)
  ELSE ConsumedBy(i, p) = {} /\ Spent(i, p) = {}

PilotPreviews ==
  \A i \in Interactions :
    \A p \in 1..Len(previews[i]) :
      /\ previews[i][p].kind = PilotKind
      /\ rows[i].state \in Undecided => previews[i][p].status # "CONFIRMED"

PilotRequests ==
  \A c \in Callers :
    calls[c].step \notin {"idle", "create"} /\ Req(c).op = "preview" =>
      Req(c).digest.kind = PilotKind

PilotTools == \A c \in Callers : tools[c].at = "confirm" /\ ~At(c, "idle") => ToolChecked(c)

Consumptions == \A i \in Interactions, p \in Nat : Consumption(i, p)

Piloted == ChallengeSeqs /\ PilotPreviews /\ PilotRequests /\ PilotTools /\ Consumptions

PilotInv == load.pilot => Piloted

-----------------------------------------------------------------------------
(* The channel.                                                            *)

\* A message is delivered: the journal keeps the first envelope.
LEMMA DeliverKeepsChannel ==
  ASSUME DomainInv, ChannelInv, NEW m \in Messages, Deliver(m)
  PROVE  ChannelInv'
  <1>1. now \in Nat
    BY InteractionAssumption DEF DomainInv, InteractionInv, TypeOK
  <1>2. /\ journal' = [journal EXCEPT ![m] = Issued(m)]
        /\ wire' = [wire EXCEPT ![m] = Issued(m)]
        /\ UNCHANGED <<evidence, signing>>
    BY DEF Deliver
  <1>3. /\ messages[m] \in Message /\ journal[m] \in Envelope /\ MessageOK(m)
        /\ signing.issuer \in Nat /\ signing.issuer >= 1
    BY DEF ChannelInv
  <1>4. PICK v \in Message :
          /\ messages' = [messages EXCEPT ![m] = v]
          /\ v # Silent
          /\ v = messages[m] \/ (messages[m] = Silent /\ v.at = now)
    <2>1. CASE messages[m] = Silent
      <3>1. PICK text \in Texts : messages' = [messages EXCEPT ![m] = [text |-> text, at |-> now]]
        BY <2>1 DEF Deliver
      <3>2. text # "none"
        BY IngressAssumption
      <3>3. [text |-> text, at |-> now] \in Message /\ [text |-> text, at |-> now] # Silent
        BY <1>1, <3>2 DEF Message, Silent
      <3> QED
        BY <2>1, <3>1, <3>3
    <2>2. CASE messages[m] # Silent
      <3>1. messages' = messages
        BY <2>2 DEF Deliver
      <3>2. messages' = [messages EXCEPT ![m] = messages[m]]
        BY <3>1 DEF ChannelInv
      <3> QED
        BY <1>3, <2>2, <3>2
    <2> QED
      BY <2>1, <2>2
  <1>5. /\ Issued(m) \in Envelope /\ Issued(m).key >= 1 /\ Issued(m).received = v.at
        /\ journal[m] # NoEnvelope => Issued(m) = journal[m]
    <2>1. CASE messages[m] = Silent
      <3>1. journal[m] = NoEnvelope
        BY <1>3, <2>1 DEF MessageOK
      <3> QED
        BY <1>1, <1>3, <1>4, <2>1, <3>1 DEF Issued, Envelope
    <2>2. CASE messages[m] # Silent
      <3>1. journal[m].key >= 1 /\ journal[m].received = messages[m].at
        BY <1>3, <2>2 DEF MessageOK
      <3>2. journal[m] # NoEnvelope
        BY <3>1 DEF NoEnvelope
      <3> QED
        BY <1>3, <1>4, <2>2, <3>1, <3>2 DEF Issued
    <2> QED
      BY <2>1, <2>2
  <1>6. Issued(m) # NoEnvelope
    BY <1>5 DEF NoEnvelope
  <1>7. /\ messages' \in [Messages -> Message] /\ journal' \in [Messages -> Envelope]
        /\ wire' \in [Messages -> Envelope]
    BY <1>2, <1>4, <1>5 DEF ChannelInv
  <1>8. ASSUME NEW n \in Messages PROVE MessageOK(n)'
    <2>1. /\ messages'[n] = IF n = m THEN v ELSE messages[n]
          /\ journal'[n] = IF n = m THEN Issued(m) ELSE journal[n]
          /\ wire'[n] = IF n = m THEN Issued(m) ELSE wire[n]
          /\ evidence'[n] = evidence[n] /\ MessageOK(n)
      BY <1>2, <1>4 DEF ChannelInv
    <2>2. CASE n = m
      BY <1>4, <1>5, <1>6, <2>1, <2>2 DEF MessageOK
    <2>3. CASE n # m
      BY <2>1, <2>3 DEF MessageOK
    <2> QED
      BY <2>2, <2>3
  <1> QED
    BY <1>2, <1>7, <1>8 DEF ChannelInv

\* An envelope is stored, or turned down.
LEMMA AcceptKeepsChannel ==
  ASSUME ChannelInv, NEW m \in Messages, Accept(m)
  PROVE  ChannelInv'
  <1>1. /\ wire' = [wire EXCEPT ![m] = NoEnvelope] /\ wire[m] # NoEnvelope
        /\ UNCHANGED <<messages, journal, signing>>
    BY DEF Accept
  <1>2. NoEnvelope \in Envelope
    BY DEF NoEnvelope, Envelope
  <1>3. wire' \in [Messages -> Envelope]
    BY <1>1, <1>2 DEF ChannelInv
  <1> DEFINE row == [envelope |-> wire[m], status |-> "UNUSED", consumer |-> <<>>]
  <1>4. evidence' = evidence \/ evidence' = [evidence EXCEPT ![m] = row]
    BY DEF Accept
  <1>5. row.envelope = wire[m] /\ row.consumer = <<>>
    OBVIOUS
  <1>6. wire[m] = journal[m]
    BY <1>1 DEF ChannelInv, MessageOK
  <1> HIDE DEF row
  <1>7. evidence' = [n \in Messages |-> evidence'[n]]
    BY <1>4 DEF ChannelInv
  <1>8. ASSUME NEW n \in Messages PROVE MessageOK(n)'
    <2>1. /\ messages'[n] = messages[n] /\ journal'[n] = journal[n] /\ MessageOK(n)
          /\ wire'[n] = IF n = m THEN NoEnvelope ELSE wire[n]
          /\ evidence'[n] = evidence[n] \/ (n = m /\ evidence'[n] = row)
      BY <1>1, <1>4 DEF ChannelInv
    <2>2. CASE evidence'[n] = evidence[n]
      BY <2>1, <2>2 DEF MessageOK
    <2>3. CASE n = m /\ evidence'[n] = row
      BY <1>1, <1>5, <1>6, <2>1, <2>3 DEF MessageOK
    <2> QED
      BY <2>1, <2>2, <2>3
  <1> QED
    BY <1>1, <1>3, <1>7, <1>8 DEF ChannelInv

\* A confirmation takes evidence out of use.
LEMMA ConfirmKeepsChannel ==
  ASSUME ChannelInv, NEW c \in Callers, TrustedConfirm(c)
  PROVE  ChannelInv'
  <1> DEFINE t   == tools[c].msg
             row == [envelope |-> evidence[t].envelope, status |-> "CONSUMED",
                     consumer |-> <<Id(c), calls[c].cur.consent.preview>>]
  <1>1. UNCHANGED <<messages, journal, wire, signing>>
    BY DEF TrustedConfirm
  <1>2. evidence' = evidence \/ evidence' = [evidence EXCEPT ![t] = row]
    BY DEF TrustedConfirm
  <1>3. row.status # "UNUSED"
    OBVIOUS
  <1> HIDE DEF row, t
  <1>4. evidence' = [n \in Messages |-> evidence'[n]]
    BY <1>2 DEF ChannelInv
  <1>5. ASSUME NEW n \in Messages PROVE MessageOK(n)'
    <2>1. MessageOK(n) /\ (evidence'[n] = evidence[n] \/ evidence'[n] = row)
      BY <1>2 DEF ChannelInv
    <2> QED
      BY <1>1, <1>3, <2>1 DEF MessageOK
  <1> QED
    BY <1>1, <1>4, <1>5 DEF ChannelInv

\* Signing keys are numbers from 1 on, and what a new issuer forgets is on its way
\* no more.
LEMMA SigningKeepsChannel ==
  ASSUME ChannelInv, IssuerStarts \/ Rotate \/ InitKeys \/ Project \/ KeyToolCrash
  PROVE  ChannelInv'
  <1>1. UNCHANGED <<messages, journal, evidence>>
    BY DEF IssuerStarts, Rotate, InitKeys, Project, KeyToolCrash
  <1>2. wire' = wire \/ wire' = [m \in Messages |-> NoEnvelope]
    BY DEF IssuerStarts, Rotate, InitKeys, Project, KeyToolCrash
  <1>3. signing.active \in Nat \ {0} /\ signing.issuer \in Nat \ {0}
    BY DEF ChannelInv
  <1>4. signing'.active \in Nat \ {0} /\ signing'.issuer \in Nat \ {0}
    <2>1. CASE IssuerStarts
      BY <1>3, <2>1 DEF IssuerStarts, Signing
    <2>2. CASE Rotate
      BY <1>3, <2>2 DEF Rotate, Signing
    <2>3. CASE InitKeys \/ Project \/ KeyToolCrash
      BY <1>3, <2>3 DEF InitKeys, Project, KeyToolCrash, Signing
    <2> QED
      BY <2>1, <2>2, <2>3
  <1>5. NoEnvelope \in Envelope
    BY DEF NoEnvelope, Envelope
  <1>6. wire' \in [Messages -> Envelope]
    BY <1>2, <1>5 DEF ChannelInv
  <1>7. ASSUME NEW m \in Messages PROVE MessageOK(m)'
    <2>1. MessageOK(m) /\ (wire'[m] = wire[m] \/ wire'[m] = NoEnvelope)
      BY <1>2 DEF ChannelInv
    <2> QED
      BY <1>1, <2>1 DEF MessageOK
  <1> QED
    BY <1>1, <1>4, <1>6, <1>7 DEF ChannelInv

LEMMA IngressKeepsChannel ==
  ASSUME DomainInv, ChannelInv, [IngressNext]_allVars
  PROVE  ChannelInv'
  <1>1. ASSUME UNCHANGED channel PROVE ChannelInv'
    <2>1. UNCHANGED <<messages, journal, wire, evidence, signing>>
      BY <1>1 DEF channel
    <2> QED
      BY <2>1 DEF ChannelInv, MessageOK
  <1>2. ASSUME NEW c \in Callers,
               \/ OpenCall(c) \/ OpenStep(c)
               \/ PreviewTool(c) \/ PreviewCreated(c) \/ DrawChallenge(c)
               \/ StoreChallenge(c) \/ PreviewFails(c) \/ ConfirmTool(c)
               \/ DomainStep(c) \/ ToolCrash(c)
        PROVE  ChannelInv'
    BY <1>1, <1>2 DEF OpenCall, OpenStep, PreviewTool, PreviewCreated, DrawChallenge,
                  StoreChallenge, PreviewFails, ConfirmTool, DomainStep, ToolCrash,
                  ingressVars
  <1>3. CASE IngressTick \/ UNCHANGED allVars
    BY <1>1, <1>3 DEF IngressTick, allVars, ingressVars
  <1>4. ASSUME NEW m \in Messages, Deliver(m) \/ Accept(m) PROVE ChannelInv'
    BY <1>4, DeliverKeepsChannel, AcceptKeepsChannel
  <1>5. ASSUME NEW c \in Callers, TrustedConfirm(c) PROVE ChannelInv'
    BY <1>5, ConfirmKeepsChannel
  <1>6. CASE IssuerStarts \/ Rotate \/ InitKeys \/ Project \/ KeyToolCrash
    BY <1>6, SigningKeepsChannel
  <1> QED
    BY <1>2, <1>3, <1>4, <1>5, <1>6 DEF IngressNext

-----------------------------------------------------------------------------
(* How the pilot moves.                                                    *)

\* Messages stay, previews and challenges keep what was said in them.
MessagesStay == \A m \in Messages : messages[m] # Silent => messages'[m] = messages[m]

PreviewsGrow == \A i \in Interactions : KeepsPreviews(previews[i], previews'[i])

ChallengesGrow ==
  \A i \in Interactions :
    /\ Len(challenges'[i]) >= Len(challenges[i])
    /\ \A n \in 1..Len(challenges[i]) :
         /\ challenges'[i][n].preview = challenges[i][n].preview
         /\ challenges'[i][n].text = challenges[i][n].text

PilotGrows == MessagesStay /\ PreviewsGrow /\ ChallengesGrow

\* A call ends, goes on under its tool, or starts as a tool would start it.
CallMove(c) ==
  \/ calls'[c].step = "idle"
  \/ /\ calls[c].step # "idle" /\ tools'[c] = tools[c] /\ calls'[c].req = calls[c].req
     /\ calls'[c].step # "create" => calls[c].step # "create"
  \/ /\ calls'[c].step # "create" /\ calls'[c].req.op = "preview" =>
          calls'[c].req.digest.kind = PilotKind
     /\ tools'[c].at = "confirm" => ToolChecked(c)'

LEMMA ToolStays ==
  ASSUME DomainInv, DomainInv', PilotGrows, ChallengeSeqs, ChallengeSeqs',
         NEW c \in Callers,
         ToolChecked(c), tools'[c] = tools[c], calls'[c].req = calls[c].req
  PROVE  ToolChecked(c)'
  <1> DEFINE i == Id(c)
             m == tools[c].msg
             n == tools[c].nth
             p == challenges[i][n].preview
  <1>1. /\ i \in Interactions /\ m \in Messages /\ messages[m] # Silent
        /\ n \in 1..Len(challenges[i])
        /\ p \in 1..Len(previews[i])
        /\ messages[m].text = challenges[i][n].text
        /\ messages[m].at > previews[i][p].expires - PilotTtl
    BY DEF ToolChecked, Created
  <1>2. messages'[m] = messages[m]
    BY <1>1 DEF PilotGrows, MessagesStay
  <1>3. /\ Len(challenges[i]) \in Nat /\ Len(challenges'[i]) \in Nat
        /\ Len(previews[i]) \in Nat /\ Len(previews'[i]) \in Nat
    <2>1. /\ previews[i] \in Seq(Preview) /\ previews'[i] \in Seq(Preview)
      BY <1>1 DEF DomainInv, InteractionInv, TypeOK
    <2>2. PICK S : challenges[i] \in Seq(S)
      BY <1>1 DEF ChallengeSeqs
    <2>3. PICK T : challenges'[i] \in Seq(T)
      BY <1>1 DEF ChallengeSeqs
    <2> QED
      BY <2>1, <2>2, <2>3
  <1>4. /\ n \in 1..Len(challenges'[i])
        /\ challenges'[i][n].preview = p
        /\ challenges'[i][n].text = challenges[i][n].text
    <2>1. /\ Len(challenges'[i]) >= Len(challenges[i])
          /\ challenges'[i][n].preview = challenges[i][n].preview
          /\ challenges'[i][n].text = challenges[i][n].text
      BY <1>1, Zenon DEF PilotGrows, ChallengesGrow
    <2>2. n \in 1..Len(challenges[i])
      BY <1>1, Zenon
    <2> HIDE DEF n, i
    <2>3. n \in 1..Len(challenges'[i])
      BY <1>3, <2>1, <2>2
    <2> QED
      BY <2>1, <2>3, Zenon
  <1>5. /\ p \in 1..Len(previews'[i])
        /\ previews'[i][p].expires = previews[i][p].expires
    <2>1. KeepsPreviews(previews[i], previews'[i])
      BY <1>1 DEF PilotGrows, PreviewsGrow
    <2> HIDE DEF p
    <2> QED
      BY <1>1, <1>3, <2>1 DEF KeepsPreviews
  <1>6. i' = i /\ m' = m /\ n' = n
    BY DEF Id
  <1>7. /\ i' \in Interactions /\ m' \in Messages /\ messages'[m'] # Silent
        /\ n' \in 1..Len(challenges'[i'])
        /\ challenges'[i'][n'].preview \in 1..Len(previews'[i'])
        /\ messages'[m'].text = challenges'[i'][n'].text
        /\ messages'[m'].at >
             previews'[i'][challenges'[i'][n'].preview].expires - PilotTtl
    BY <1>1, <1>2, <1>4, <1>5, <1>6
  <1> QED
    BY <1>7 DEF ToolChecked, Created

\* Whatever the calls do, tools and requests stay the pilot's.
LEMMA MovesKeep ==
  ASSUME DomainInv, DomainInv', PilotGrows, ChallengeSeqs, ChallengeSeqs',
         PilotRequests, PilotTools, \A c \in Callers : CallMove(c)
  PROVE  PilotRequests' /\ PilotTools'
  <1>1. ASSUME NEW c \in Callers, calls'[c].step \notin {"idle", "create"},
               calls'[c].req.op = "preview"
        PROVE  calls'[c].req.digest.kind = PilotKind
    BY <1>1 DEF CallMove, PilotRequests, Req
  <1>2. ASSUME NEW c \in Callers, tools'[c].at = "confirm", calls'[c].step # "idle"
        PROVE  ToolChecked(c)'
    <2>1. CASE calls[c].step # "idle" /\ tools'[c] = tools[c] /\ calls'[c].req = calls[c].req
      <3>1. ToolChecked(c)
        BY <1>2, <2>1 DEF PilotTools, At
      <3> QED
        BY <2>1, <3>1, ToolStays
    <2> QED
      BY <1>2, <2>1 DEF CallMove
  <1>3. PilotRequests'
    BY <1>1 DEF PilotRequests, Req
  <1>4. PilotTools'
    BY <1>2 DEF PilotTools, At
  <1> QED
    BY <1>3, <1>4

\* What a preview has consumed is not consumed again.
LEMMA ConsumptionStays ==
  ASSUME DomainInv, DomainInv', PilotGrows, ChallengeSeqs, ChallengeSeqs',
         NEW i \in Interactions, NEW p \in Nat, Consumption(i, p),
         (p \in 1..Len(previews'[i]) /\ previews'[i][p].status = "CONFIRMED") <=>
           (p \in 1..Len(previews[i]) /\ previews[i][p].status = "CONFIRMED"),
         ConsumedBy(i, p)' = ConsumedBy(i, p), Spent(i, p)' = Spent(i, p)
  PROVE  Consumption(i, p)'
  <1>1. CASE ~(p \in 1..Len(previews[i]) /\ previews[i][p].status = "CONFIRMED")
    BY <1>1 DEF Consumption
  <1>2. CASE p \in 1..Len(previews[i]) /\ previews[i][p].status = "CONFIRMED"
    <2>1. PICK m \in Messages, n \in 1..Len(challenges[i]) :
            /\ ConsumedBy(i, p) = {m} /\ Spent(i, p) = {n}
            /\ messages[m] # Silent
            /\ messages[m].text = challenges[i][n].text
            /\ messages[m].at > previews[i][p].expires - PilotTtl
      BY <1>2 DEF Consumption, Created
    <2>2. Len(challenges[i]) \in Nat /\ Len(challenges'[i]) \in Nat
      <3>1. PICK S : challenges[i] \in Seq(S)
        BY DEF ChallengeSeqs
      <3>2. PICK T : challenges'[i] \in Seq(T)
        BY DEF ChallengeSeqs
      <3> QED
        BY <3>1, <3>2
    <2>3. messages'[m] = messages[m]
      BY <2>1 DEF PilotGrows, MessagesStay
    <2>4. n \in 1..Len(challenges'[i]) /\ challenges'[i][n].text = challenges[i][n].text
      BY <2>2 DEF PilotGrows, ChallengesGrow
    <2>5. previews'[i][p].expires = previews[i][p].expires
      BY <1>2 DEF PilotGrows, PreviewsGrow, KeepsPreviews
    <2>6. /\ ConsumedBy(i, p)' = {m} /\ Spent(i, p)' = {n}
          /\ messages'[m] # Silent
          /\ messages'[m].text = challenges'[i][n].text
          /\ messages'[m].at > previews'[i][p].expires - PilotTtl
      BY <2>1, <2>3, <2>4, <2>5
    <2>7. \E o \in Messages, k \in 1..Len(challenges'[i]) :
            /\ ConsumedBy(i, p)' = {o} /\ Spent(i, p)' = {k}
            /\ messages'[o] # Silent
            /\ messages'[o].text = challenges'[i][k].text
            /\ messages'[o].at > previews'[i][p].expires - PilotTtl
      BY <2>4, <2>6
    <2> QED
      BY <1>2, <2>7 DEF Consumption, Created
  <1> QED
    BY <1>1, <1>2

\* Most steps leave previews and challenges alone, and what evidence was
\* consumed for.
LEMMA QuietlyPiloted ==
  ASSUME DomainInv, DomainInv', Piloted,
         UNCHANGED <<previews, challenges>>, MessagesStay,
         \A i \in Interactions : rows'[i] = rows[i] \/ Len(previews[i]) = 0,
         \A m \in Messages : evidence'[m].consumer = evidence[m].consumer,
         \A c \in Callers : CallMove(c)
  PROVE  Piloted'
  <1>1. ChallengeSeqs /\ ChallengeSeqs'
    BY DEF Piloted, ChallengeSeqs
  <1>2. PilotGrows
    <2>1. ASSUME NEW i \in Interactions PROVE Len(challenges[i]) \in Nat
      <3>1. PICK S : challenges[i] \in Seq(S)
        BY <1>1 DEF ChallengeSeqs
      <3> QED
        BY <3>1
    <2>2. ASSUME NEW i \in Interactions PROVE KeepsPreviews(previews[i], previews'[i])
      <3>1. previews[i] \in Seq(Preview)
        BY DEF DomainInv, InteractionInv, TypeOK
      <3> QED
        BY <3>1, SamePreviews
    <2> QED
      BY <2>1, <2>2 DEF PilotGrows, PreviewsGrow, ChallengesGrow
  <1>3. PilotRequests' /\ PilotTools'
    BY <1>1, <1>2, MovesKeep DEF Piloted
  <1>4. PilotPreviews'
    <2> SUFFICES ASSUME NEW i \in Interactions, NEW p \in 1..Len(previews[i])
                 PROVE  /\ previews[i][p].kind = PilotKind
                        /\ rows'[i].state \in Undecided => previews[i][p].status # "CONFIRMED"
      BY DEF PilotPreviews
    <2>1. rows'[i] = rows[i]
      BY DEF DomainInv, InteractionInv, TypeOK
    <2> QED
      BY <2>1 DEF Piloted, PilotPreviews
  <1>5. ASSUME NEW i \in Interactions, NEW p \in Nat PROVE Consumption(i, p)'
    <2>1. ConsumedBy(i, p)' = ConsumedBy(i, p) /\ Spent(i, p)' = Spent(i, p)
      BY DEF ConsumedBy, Spent
    <2> QED
      BY <1>1, <1>2, <2>1, ConsumptionStays DEF Piloted, Consumptions
  <1>6. Consumptions'
    BY <1>5 DEF Consumptions
  <1> QED
    BY <1>1, <1>3, <1>4, <1>6 DEF Piloted

\* A step of one caller is a move of every caller.
LEMMA OneCallerMoves ==
  ASSUME DomainInv, Piloted, NEW c \in Callers, NEW k, NEW t,
         calls' = [calls EXCEPT ![c] = k], tools' = [tools EXCEPT ![c] = t],
         CallMove(c)
  PROVE  \A d \in Callers : CallMove(d)
  <1> SUFFICES ASSUME NEW d \in Callers, d # c PROVE CallMove(d)
    OBVIOUS
  <1>1. calls'[d] = calls[d]
    BY DEF DomainInv, InteractionInv, TypeOK
  <1>2. tools'[d] = tools[d]
    <2>1. tools = [e \in Callers |-> tools[e]]
      BY DEF DomainInv, LoadOK
    <2> QED
      BY <2>1
  <1> QED
    BY <1>1, <1>2 DEF CallMove

\* A step that leaves calls and tools alone.
LEMMA NoCallerMoves ==
  ASSUME Piloted, UNCHANGED <<calls, tools>>
  PROVE  \A d \in Callers : CallMove(d)
  BY DEF CallMove

\* What a caller's call and tool have become.
LEMMA CallBecomes ==
  ASSUME DomainInv, NEW c \in Callers, NEW k, calls' = [calls EXCEPT ![c] = k]
  PROVE  calls'[c] = k
  BY DEF DomainInv, InteractionInv, TypeOK

LEMMA ToolBecomes ==
  ASSUME DomainInv, NEW c \in Callers, NEW t, tools' = [tools EXCEPT ![c] = t]
  PROVE  tools'[c] = t
  <1>1. tools = [d \in Callers |-> tools[d]]
    BY DEF DomainInv, LoadOK
  <1> QED
    BY <1>1

\* What a tool asks, and what becomes of the tool.
LEMMA Asked ==
  ASSUME NEW c \in Callers, NEW r, NEW step, Invoke(c, r, step)
  PROVE  \E k : calls' = [calls EXCEPT ![c] = k] /\ k.step = step /\ k.req = r
  <1> DEFINE k == [step |-> step, req |-> r, cur |-> NoRow, at |-> 0, grant |-> 0,
                   obs |-> "none", answer |-> "none"]
  <1>1. calls' = [calls EXCEPT ![c] = k] /\ k.step = step /\ k.req = r
    BY DEF Invoke
  <1> HIDE DEF k
  <1> QED
    BY <1>1

LEMMA ToolWent ==
  ASSUME NEW c \in Callers, NEW at, NEW key, ToolGoes(c, at, key)
  PROVE  \E t : tools' = [tools EXCEPT ![c] = t] /\ t.at = at
  <1> DEFINE t == [IdleTool EXCEPT !.at = at, !.key = key]
  <1>1. tools' = [tools EXCEPT ![c] = t] /\ t.at = at
    BY DEF ToolGoes, IdleTool
  <1> HIDE DEF t
  <1> QED
    BY <1>1

\* A tool's call that leaves every table alone.
LEMMA ToolOnly ==
  ASSUME DomainInv, DomainInv', Piloted, NEW c \in Callers, NEW k, NEW t,
         calls' = [calls EXCEPT ![c] = k], tools' = [tools EXCEPT ![c] = t],
         UNCHANGED <<rows, previews, messages, evidence, challenges>>,
         CallMove(c)
  PROVE  Piloted'
  <1>1. \A d \in Callers : CallMove(d)
    BY OneCallerMoves
  <1> QED
    BY <1>1, QuietlyPiloted DEF MessagesStay

\* The preview tool starts, goes on and ends.
LEMMA PreviewToolPiloted ==
  ASSUME DomainInv, DomainInv', Piloted, NEW c \in Callers, PreviewTool(c)
  PROVE  Piloted'
  <1>1. UNCHANGED <<rows, previews, messages, evidence, challenges>>
    BY DEF PreviewTool, Invoke, channel, stores
  <1>2. PICK n : /\ Invoke(c, [op |-> "create", key |-> n, digest |-> IdleRequest.digest], "create")
                 /\ ToolGoes(c, "create", n)
    BY DEF PreviewTool
  <1>3. PICK k : calls' = [calls EXCEPT ![c] = k] /\ k.step = "create"
    BY <1>2, Asked
  <1>4. PICK t : tools' = [tools EXCEPT ![c] = t] /\ t.at = "create"
    BY <1>2, ToolWent
  <1>5. CallMove(c)
    BY <1>3, <1>4, CallBecomes, ToolBecomes DEF CallMove
  <1> QED
    BY <1>1, <1>3, <1>4, <1>5, ToolOnly

LEMMA PreviewCreatedPiloted ==
  ASSUME DomainInv, DomainInv', Piloted, NEW c \in Callers, PreviewCreated(c)
  PROVE  Piloted'
  <1>1. UNCHANGED <<rows, previews, messages, evidence, challenges>>
    BY DEF PreviewCreated, Invoke, channel, stores
  <1>2. PICK m : Invoke(c, Ask("preview", tools[c].key, m.id, 1, PilotKind, 0), "lookup")
    BY DEF PreviewCreated
  <1>3. PICK k : calls' = [calls EXCEPT ![c] = k] /\ k.req.digest.kind = PilotKind
    <2>1. Ask("preview", tools[c].key, m.id, 1, PilotKind, 0).digest.kind = PilotKind
      BY DEF Ask
    <2> QED
      BY <1>2, <2>1, Asked
  <1>4. PICK t : tools' = [tools EXCEPT ![c] = t] /\ t.at = "preview"
    BY ToolWent DEF PreviewCreated
  <1>5. CallMove(c)
    BY <1>3, <1>4, CallBecomes, ToolBecomes DEF CallMove
  <1> QED
    BY <1>1, <1>3, <1>4, <1>5, ToolOnly

\* No other step of the tools brings a call with it.
LEMMA ToolEndsPiloted ==
  ASSUME DomainInv, DomainInv', Piloted, NEW c \in Callers,
         DrawChallenge(c) \/ PreviewFails(c) \/ ToolCrash(c)
  PROVE  Piloted'
  <1>1. UNCHANGED <<rows, previews, messages, evidence, challenges>>
    BY DEF DrawChallenge, PreviewFails, ToolCrash, channel, stores, vars
  <1>2. PICK t : tools' = [tools EXCEPT ![c] = t]
    BY DEF DrawChallenge, PreviewFails, ToolCrash, ToolEnds
  <1>3. PICK k : calls' = [calls EXCEPT ![c] = k] /\ k.step = "idle"
    <2>1. CASE ToolCrash(c)
      <3>1. calls' = [calls EXCEPT ![c] = IdleCall] /\ IdleCall.step = "idle"
        BY <2>1 DEF ToolCrash, IdleCall
      <3> QED
        BY <3>1
    <2>2. CASE DrawChallenge(c) \/ PreviewFails(c)
      <3>1. calls' = calls /\ calls[c].step = "idle"
        BY <2>2 DEF DrawChallenge, PreviewFails, AnswersCall, At, vars
      <3>2. calls' = [calls EXCEPT ![c] = calls[c]]
        BY <3>1 DEF DomainInv, InteractionInv, TypeOK
      <3> QED
        BY <3>1, <3>2
    <2> QED
      BY <2>1, <2>2
  <1>4. CallMove(c)
    BY <1>3, CallBecomes DEF CallMove
  <1> QED
    BY <1>1, <1>2, <1>3, <1>4, ToolOnly

\* What the confirm tool has checked is what ToolChecked says: the envelope
\* it read carries the time of the message's first delivery.
LEMMA ConfirmToolPiloted ==
  ASSUME DomainInv, DomainInv', ChannelInv, Piloted, NEW c \in Callers, ConfirmTool(c)
  PROVE  Piloted'
  <1>1. UNCHANGED <<rows, previews, messages, evidence, challenges>>
    BY DEF ConfirmTool, Invoke, channel, stores
  <1>2. PICK i \in Interactions, k \in 1..load.keys, m \in Messages :
          /\ rows[i].state = "AWAITING_CONFIRMATION"
          /\ \E n \in 1..Len(challenges[i]) :
               /\ Newest(i, rows[i].consent.preview, n)
               /\ Checks(i, rows[i].consent.preview, m, n)
               /\ tools' = [tools EXCEPT ![c] =
                              [IdleTool EXCEPT !.at = "confirm", !.msg = m, !.nth = n]]
          /\ Invoke(c, Ask("confirm", k, i, rows[i].rev, NoKind, rows[i].consent.preview),
                    "lookup")
    BY DEF ConfirmTool
  <1> DEFINE p == rows[i].consent.preview
  <1>3. PICK n \in 1..Len(challenges[i]) :
          /\ Newest(i, p, n) /\ Checks(i, p, m, n)
          /\ tools' = [tools EXCEPT ![c] =
                         [IdleTool EXCEPT !.at = "confirm", !.msg = m, !.nth = n]]
    BY <1>2
  <1>4. PICK t : /\ tools' = [tools EXCEPT ![c] = t]
                 /\ t.at = "confirm" /\ t.msg = m /\ t.nth = n
    <2> DEFINE new == [IdleTool EXCEPT !.at = "confirm", !.msg = m, !.nth = n]
    <2>1. new.at = "confirm" /\ new.msg = m /\ new.nth = n
      BY DEF IdleTool
    <2>2. tools' = [tools EXCEPT ![c] = new]
      BY <1>3
    <2> HIDE DEF new
    <2> QED
      BY <2>1, <2>2
  <1>5. PICK call : /\ calls' = [calls EXCEPT ![c] = call]
                    /\ call.req.op = "confirm" /\ call.req.digest.id = i
    <2>1. /\ Ask("confirm", k, i, rows[i].rev, NoKind, p).op = "confirm"
          /\ Ask("confirm", k, i, rows[i].rev, NoKind, p).digest.id = i
      BY DEF Ask
    <2> QED
      BY <1>2, <2>1, Asked
  <1>6. p \in 1..Len(previews[i])
    <2>1. RowOK(rows[i], Len(previews[i]), world[i]) /\ previews[i] \in Seq(Preview)
      BY DEF DomainInv, InteractionInv, RowsOK, TypeOK
    <2>2. Len(previews[i]) \in Nat /\ Len(previews[i]) = p /\ p >= 1
      BY <1>2, <2>1 DEF RowOK, Previewed
    <2> QED
      BY <2>2
  <1>7. /\ challenges[i][n].preview = p
        /\ evidence[m].status = "UNUSED"
        /\ evidence[m].envelope.received > Created(i, p)
        /\ messages[m].text = challenges[i][n].text
    BY <1>3 DEF Newest, Checks
  <1>8. messages[m] # Silent /\ evidence[m].envelope.received = messages[m].at
    <2>1. MessageOK(m)
      BY DEF ChannelInv
    <2> QED
      BY <1>7, <2>1, Zenon DEF MessageOK
  <1>9. ToolChecked(c)'
    <2>1. calls'[c] = call /\ tools'[c] = t
      BY <1>4, <1>5, CallBecomes, ToolBecomes
    <2>2. Id(c)' = i /\ tools'[c].msg = m /\ tools'[c].nth = n
      BY <1>4, <1>5, <2>1 DEF Id
    <2> HIDE DEF p
    <2>3. Created(i, p)' = Created(i, p)
      BY <1>1 DEF Created, p
    <2>4. messages[m].at > Created(i, p)
      BY <1>7, <1>8
    <2>5. /\ messages'[m] # Silent /\ n \in 1..Len(challenges'[i])
          /\ challenges'[i][n].preview = p /\ p \in 1..Len(previews'[i])
          /\ messages'[m].text = challenges'[i][n].text
          /\ messages'[m].at > previews'[i][p].expires - PilotTtl
      BY <1>1, <1>3, <1>6, <1>7, <1>8, <2>4 DEF Created
    <2> QED
      BY <2>2, <2>5 DEF ToolChecked, Created
  <1>10. CallMove(c)
    <2>1. calls'[c] = call
      BY <1>5, CallBecomes
    <2> QED
      BY <1>5, <1>9, <2>1 DEF CallMove
  <1> QED
    BY <1>1, <1>4, <1>5, <1>10, ToolOnly

\* A call that ends or goes on, its tool waiting.
LEMMA CallMoves ==
  ASSUME DomainInv, Piloted, NEW c \in Callers, tools' = tools,
         \/ Succeeds(c) \/ Fails(c)
         \/ /\ calls[c].step \notin {"idle", "create"}
            /\ \E step, cur, t, grant, obs : Goes(c, step, cur, t, grant, obs)
  PROVE  \A d \in Callers : CallMove(d)
  <1>1. tools' = [tools EXCEPT ![c] = tools[c]]
    <2>1. tools = [d \in Callers |-> tools[d]]
      BY DEF DomainInv, LoadOK
    <2> QED
      BY <2>1
  <1>2. CASE Succeeds(c) \/ Fails(c)
    <2>1. PICK k : calls' = [calls EXCEPT ![c] = k] /\ k.step = "idle"
      <3> DEFINE k == [step |-> "idle", req |-> calls[c].req, cur |-> NoRow, at |-> 0,
                       grant |-> 0, obs |-> "none", answer |-> "done"]
      <3>1. k.step = "idle" /\ IdleCall.step = "idle"
        BY DEF IdleCall
      <3>2. calls' = [calls EXCEPT ![c] = k] \/ calls' = [calls EXCEPT ![c] = IdleCall]
        BY <1>2 DEF Succeeds, Fails
      <3> HIDE DEF k
      <3> QED
        BY <3>1, <3>2
    <2>2. CallMove(c)
      BY <2>1, CallBecomes DEF CallMove
    <2> QED
      BY <1>1, <2>1, <2>2, OneCallerMoves
  <1>3. ASSUME calls[c].step \notin {"idle", "create"},
               NEW step, NEW cur, NEW t, NEW grant, NEW obs, Goes(c, step, cur, t, grant, obs)
        PROVE  \A d \in Callers : CallMove(d)
    <2> DEFINE k == [step |-> step, req |-> calls[c].req, cur |-> cur, at |-> t,
                     grant |-> grant, obs |-> obs, answer |-> "none"]
    <2>1. calls' = [calls EXCEPT ![c] = k] /\ k.req = calls[c].req
      BY <1>3 DEF Goes
    <2> HIDE DEF k
    <2>2. CallMove(c)
      BY <1>3, <2>1, CallBecomes DEF CallMove
    <2> QED
      BY <1>1, <2>1, <2>2, OneCallerMoves
  <1> QED
    BY <1>2, <1>3

\* create, lookup and read write no preview.
LEMMA ReadingPiloted ==
  ASSUME DomainInv, DomainInv', Piloted, NEW c \in Callers, UNCHANGED ingressVars,
         Create(c) \/ Lookup(c) \/ Read(c)
  PROVE  Piloted'
  <1>1. UNCHANGED <<messages, evidence, challenges, tools>>
    BY DEF ingressVars, channel
  <1>2. previews' = previews
    BY DEF Create, Lookup, Read, stores
  <1>3. \A d \in Callers : CallMove(d)
    <2>1. CASE Create(c)
      BY <1>1, <2>1, CallMoves DEF Create
    <2>2. CASE Lookup(c)
      BY <1>1, <2>2, CallMoves DEF Lookup, GoesOn
    <2>3. CASE Read(c)
      BY <1>1, <2>3, CallMoves DEF Read, At
    <2> QED
      BY <2>1, <2>2, <2>3
  <1>4. ASSUME NEW i \in Interactions
        PROVE  rows'[i] = rows[i] \/ Len(previews[i]) = 0
    <2>1. CASE rows' = rows
      BY <2>1
    <2>2. CASE rows' # rows
      <3>1. PICK j \in Interactions :
              rows[j].rev = 0 /\ rows' = [rows EXCEPT ![j] = NewRow]
        BY <2>2 DEF Create, Lookup, Read, stores
      <3>2. RowOK(rows[j], Len(previews[j]), world[j]) /\ rows \in [Interactions -> Row]
        BY DEF DomainInv, InteractionInv, RowsOK, TypeOK
      <3>3. Len(previews[j]) = 0
        BY <3>1, <3>2 DEF RowOK
      <3> QED
        BY <3>1, <3>2, <3>3
    <2> QED
      BY <2>1, <2>2
  <1> QED
    BY <1>1, <1>2, <1>3, <1>4, QuietlyPiloted DEF MessagesStay

\* What the issuer and its keys do, and time.
LEMMA ChannelPiloted ==
  ASSUME DomainInv, DomainInv', ChannelInv, Piloted,
         \/ \E m \in Messages : Deliver(m) \/ Accept(m)
         \/ IssuerStarts \/ Rotate \/ InitKeys \/ Project \/ KeyToolCrash
         \/ IngressTick \/ UNCHANGED allVars
  PROVE  Piloted'
  <1>1. UNCHANGED <<rows, previews, challenges, calls, tools>>
    BY DEF Deliver, Accept, IssuerStarts, Rotate, InitKeys, Project, KeyToolCrash,
           IngressTick, Tick, allVars, ingressVars, vars, stores
  <1>2. MessagesStay
    <2>1. CASE messages' = messages
      BY <2>1 DEF MessagesStay
    <2>2. CASE messages' # messages
      <3>1. PICK m \in Messages : Deliver(m)
        BY <2>2 DEF Accept, IssuerStarts, Rotate, InitKeys, Project, KeyToolCrash,
                    IngressTick, allVars, ingressVars, channel
      <3>2. PICK w : messages[m] = Silent /\ messages' = [messages EXCEPT ![m] = w]
        BY <2>2, <3>1 DEF Deliver
      <3>3. messages \in [Messages -> Message]
        BY DEF ChannelInv
      <3> QED
        BY <3>2, <3>3 DEF MessagesStay
    <2> QED
      BY <2>1, <2>2
  <1>3. ASSUME NEW n \in Messages PROVE evidence'[n].consumer = evidence[n].consumer
    <2>1. CASE evidence' = evidence
      BY <2>1
    <2>2. CASE evidence' # evidence
      <3>1. PICK m \in Messages : Accept(m)
        BY <2>2 DEF Deliver, IssuerStarts, Rotate, InitKeys, Project, KeyToolCrash,
                    IngressTick, allVars, ingressVars, channel
      <3> DEFINE row == [envelope |-> wire[m], status |-> "UNUSED", consumer |-> <<>>]
      <3>2. evidence[m] = NoEvidence /\ evidence' = [evidence EXCEPT ![m] = row]
        BY <2>2, <3>1 DEF Accept
      <3>3. row.consumer = <<>> /\ NoEvidence.consumer = <<>>
        BY DEF NoEvidence
      <3>4. evidence = [o \in Messages |-> evidence[o]]
        BY DEF ChannelInv
      <3> HIDE DEF row
      <3>5. evidence' = [o \in Messages |-> IF o = m THEN row ELSE evidence[o]]
        BY <3>2, <3>4
      <3> QED
        BY <3>2, <3>3, <3>5
    <2> QED
      BY <2>1, <2>2
  <1>4. \A d \in Callers : CallMove(d)
    BY <1>1, NoCallerMoves
  <1> QED
    BY <1>1, <1>2, <1>3, <1>4, QuietlyPiloted

\* A sequence that has grown by one element.
LEMMA GrownByOne ==
  ASSUME NEW S, NEW s \in Seq(S), NEW h
  PROVE  /\ Append(s, h) \in Seq(S \cup {h})
         /\ Len(s) \in Nat /\ Len(Append(s, h)) = Len(s) + 1
         /\ \A n \in 1..Len(s) : Append(s, h)[n] = s[n]
         /\ Append(s, h)[Len(s) + 1] = h
  <1> DEFINE T == S \cup {h}
  <1>1. s \in Seq(T) /\ h \in T
    OBVIOUS
  <1> HIDE DEF T
  <1>2. /\ Append(s, h) \in Seq(T)
        /\ Len(s) \in Nat /\ Len(Append(s, h)) = Len(s) + 1
        /\ \A n \in 1..Len(s) : Append(s, h)[n] = s[n]
        /\ Append(s, h)[Len(s) + 1] = h
    BY <1>1, AppendProperties
  <1> QED
    BY <1>2 DEF T

\* A new challenge is active: nothing is spent.
LEMMA StoreChallengePiloted ==
  ASSUME DomainInv, DomainInv', Piloted, NEW c \in Callers, StoreChallenge(c)
  PROVE  Piloted'
  <1>1. UNCHANGED <<rows, previews, calls, messages, evidence>>
    BY DEF StoreChallenge, channel, vars
  <1> DEFINE i == Id(c)
             p == rows[i].consent.preview
             h == [preview |-> p, rev |-> tools[c].rev, text |-> tools[c].text,
                   created |-> tools[c].made,
                   expires |-> Min2(previews[i][p].expires, tools[c].made + EvidenceTtl),
                   status |-> "ACTIVE"]
  <1>2. /\ challenges' = [challenges EXCEPT ![i] = Append(@, h)]
        /\ h.status = "ACTIVE" /\ Formed(h)
    BY DEF StoreChallenge, Formed
  <1> HIDE DEF h
  <1>3. ChallengeSeqs
    BY DEF Piloted
  <1>4. challenges' = [j \in Interactions |-> IF j = i THEN Append(challenges[j], h)
                                              ELSE challenges[j]]
    BY <1>2, <1>3 DEF ChallengeSeqs
  <1>5. ASSUME NEW j \in Interactions
        PROVE  /\ \E T : challenges'[j] \in Seq(T)
               /\ Len(challenges[j]) \in Nat /\ Len(challenges'[j]) \in Nat
               /\ Len(challenges'[j]) >= Len(challenges[j])
               /\ \A n \in 1..Len(challenges[j]) : challenges'[j][n] = challenges[j][n]
               /\ \A n \in 1..Len(challenges'[j]) :
                    n \notin 1..Len(challenges[j]) => challenges'[j][n].status = "ACTIVE"
               /\ \A n \in 1..Len(challenges'[j]) : Formed(challenges'[j][n])
    <2>1. PICK S : challenges[j] \in Seq(S)
      BY <1>3 DEF ChallengeSeqs
    <2>2. CASE j # i
      <3>1. challenges'[j] = challenges[j]
        BY <1>4, <2>2
      <3>2. \A n \in 1..Len(challenges[j]) : Formed(challenges[j][n])
        BY <1>3 DEF ChallengeSeqs
      <3> QED
        BY <2>1, <3>1, <3>2
    <2>3. CASE j = i
      <3>1. challenges'[j] = Append(challenges[j], h)
        BY <1>4, <2>3
      <3>2. /\ challenges'[j] \in Seq(S \cup {h})
            /\ Len(challenges[j]) \in Nat
            /\ Len(challenges'[j]) = Len(challenges[j]) + 1
            /\ \A n \in 1..Len(challenges[j]) : challenges'[j][n] = challenges[j][n]
            /\ challenges'[j][Len(challenges[j]) + 1] = h
        BY <2>1, <3>1, GrownByOne
      <3>3. ASSUME NEW n \in 1..Len(challenges'[j]), n \notin 1..Len(challenges[j])
            PROVE  challenges'[j][n].status = "ACTIVE"
        <4>1. n = Len(challenges[j]) + 1
          BY <3>2, <3>3
        <4> QED
          BY <1>2, <3>2, <4>1
      <3>4. ASSUME NEW n \in 1..Len(challenges'[j]) PROVE Formed(challenges'[j][n])
        <4>1. CASE n \in 1..Len(challenges[j])
          BY <1>3, <3>2, <4>1 DEF ChallengeSeqs
        <4>2. CASE n \notin 1..Len(challenges[j])
          <5>1. challenges'[j][n] = h
            BY <3>2, <4>2
          <5> QED
            BY <1>2, <5>1
        <4> QED
          BY <4>1, <4>2
      <3> QED
        BY <3>2, <3>3, <3>4
    <2> QED
      BY <2>2, <2>3
  <1>6. ChallengeSeqs'
    BY <1>4, <1>5 DEF ChallengeSeqs
  <1>7. PilotGrows
    <2>1. ASSUME NEW j \in Interactions PROVE KeepsPreviews(previews[j], previews'[j])
      <3>1. previews[j] \in Seq(Preview)
        BY DEF DomainInv, InteractionInv, TypeOK
      <3> QED
        BY <1>1, <3>1, SamePreviews
    <2>2. PreviewsGrow
      BY <2>1 DEF PreviewsGrow
    <2>3. MessagesStay
      BY <1>1 DEF MessagesStay
    <2>4. ChallengesGrow
      BY <1>5 DEF ChallengesGrow
    <2> QED
      BY <2>2, <2>3, <2>4 DEF PilotGrows
  <1>8. \A d \in Callers : CallMove(d)
    <2>1. calls' = [calls EXCEPT ![c] = calls[c]]
      BY <1>1 DEF DomainInv, InteractionInv, TypeOK
    <2>2. tools' = [tools EXCEPT ![c] = IdleTool] /\ IdleTool.at = "idle"
      BY DEF StoreChallenge, ToolEnds, IdleTool
    <2>3. CallMove(c)
      <3>1. calls[c].step \notin {"idle", "create"} /\ Req(c).op = "preview" =>
              Req(c).digest.kind = PilotKind
        BY DEF Piloted, PilotRequests
      <3>2. tools'[c].at = "idle"
        BY <2>2, ToolBecomes
      <3> QED
        BY <1>1, <3>1, <3>2 DEF CallMove, Req
    <2> QED
      BY <2>1, <2>2, <2>3, OneCallerMoves
  <1>9. PilotRequests' /\ PilotTools'
    BY <1>3, <1>6, <1>7, <1>8, MovesKeep DEF Piloted
  <1>10. PilotPreviews'
    BY <1>1 DEF Piloted, PilotPreviews
  <1>11. ASSUME NEW j \in Interactions, NEW q \in Nat PROVE Consumption(j, q)'
    <2>1. ConsumedBy(j, q)' = ConsumedBy(j, q)
      BY <1>1 DEF ConsumedBy
    <2>2. ASSUME NEW n
          PROVE  n \in Spent(j, q)' <=> n \in Spent(j, q)
      BY <1>5 DEF Spent
    <2>3. Spent(j, q)' = Spent(j, q)
      <3>1. \A n : n \in Spent(j, q)' <=> n \in Spent(j, q)
        BY <2>2
      <3> DEFINE A == Spent(j, q)'
                 B == Spent(j, q)
      <3>2. \A n : n \in A <=> n \in B
        BY <3>1
      <3> HIDE DEF A, B
      <3>3. A = B
        BY <3>2
      <3> QED
        BY <3>3 DEF A, B
    <2> QED
      BY <1>1, <1>3, <1>6, <1>7, <2>1, <2>3, ConsumptionStays DEF Piloted, Consumptions
  <1>12. Consumptions'
    BY <1>11 DEF Consumptions
  <1> QED
    BY <1>6, <1>9, <1>10, <1>12 DEF Piloted

\* A transaction of a call: it writes over what the call has read, or fails.
LEMMA WritesOrFails ==
  ASSUME DomainInv, NEW c \in Callers, calls[c].step \in Informed,
         NEW op, NEW row, NEW pvs, Transition(c, op, row, pvs, Succeeds(c))
  PROVE  \/ UNCHANGED stores /\ Fails(c)
         \/ /\ Fresh(c) /\ Id(c) \in Interactions /\ Succeeds(c)
            /\ \A j \in Interactions :
                 /\ rows'[j] = IF j = Id(c) THEN row ELSE rows[j]
                 /\ previews'[j] = IF j = Id(c) THEN pvs ELSE previews[j]
  <1>1. CASE ~(rows[Id(c)].rev = calls[c].cur.rev /\ KeyAllows(c, op))
    BY <1>1 DEF Transition
  <1>2. CASE rows[Id(c)].rev = calls[c].cur.rev /\ KeyAllows(c, op)
    <2>1. CallOK(calls[c], rows, world) /\ Id(c) \in Interactions
          /\ Id(c) = calls[c].req.digest.id
      BY CallFacts DEF DomainInv, Informed
    <2>2. Fresh(c)
      BY <1>2, <2>1 DEF CallOK, CopyOK, Fresh
    <2>3. /\ rows' = [rows EXCEPT ![Id(c)] = row]
          /\ previews' = [previews EXCEPT ![Id(c)] = pvs]
          /\ Succeeds(c)
      BY <1>2 DEF Transition
    <2>4. \A j \in Interactions : /\ rows'[j] = IF j = Id(c) THEN row ELSE rows[j]
                                  /\ previews'[j] = IF j = Id(c) THEN pvs ELSE previews[j]
      BY <2>3 DEF DomainInv, InteractionInv, TypeOK
    <2> QED
      BY <2>1, <2>2, <2>3, <2>4
  <1> QED
    BY <1>1, <1>2

\* The preview that a mark leaves alone.
LEMMA NotMarked ==
  ASSUME NEW pvs \in Seq(Preview), NEW p, NEW st, NEW q \in 1..Len(pvs), q # p
  PROVE  Marked(pvs, p, st)[q] = pvs[q]
  BY DEF Marked

\* A preview replaces one that was not confirmed; no other is touched.
LEMMA WritePreviewPiloted ==
  ASSUME DomainInv, DomainInv', Piloted, NEW c \in Callers, WritePreview(c),
         UNCHANGED ingressVars
  PROVE  Piloted'
  <1> DEFINE cur     == calls[c].cur
             i       == Id(c)
             kind    == Req(c).digest.kind
             marked  == Marked(previews[i], cur.consent.preview, "SUPERSEDED")
             new     == [kind |-> kind, status |-> "ACTIVE",
                         expires |-> calls[c].at + kind.ttl]
             pvs     == Append(marked, new)
             row     == Moved(cur, IF kind.confirm \/ kind.approve
                                   THEN "AWAITING_CONFIRMATION" ELSE "AUTHORIZED",
                              PreviewConsent(cur), cur.outcome)
  <1>1. UNCHANGED <<messages, evidence, challenges, tools>>
    BY DEF ingressVars, channel
  <1>2. /\ calls[c].step \in Informed /\ Req(c).op = "preview" /\ At(c, "write")
        /\ cur.state \in Undecided
    BY WriteFacts DEF WritePreview, From, DomainInv, Writes
  <1>3. Transition(c, "preview", row, pvs, Succeeds(c))
    BY DEF WritePreview
  <1> HIDE DEF row
  <1>4. CASE UNCHANGED stores /\ Fails(c)
    <2>1. \A d \in Callers : CallMove(d)
      BY <1>1, <1>4, CallMoves
    <2> QED
      BY <1>1, <1>4, <2>1, QuietlyPiloted DEF stores, MessagesStay
  <1>5. ASSUME Fresh(c), i \in Interactions, Succeeds(c),
               \A j \in Interactions :
                 /\ rows'[j] = IF j = i THEN row ELSE rows[j]
                 /\ previews'[j] = IF j = i THEN pvs ELSE previews[j]
        PROVE  Piloted'
    <2>1. /\ rows[i] = cur /\ previews[i] \in Seq(Preview)
          /\ cur.consent.preview \in Nat /\ Len(previews[i]) = cur.consent.preview
      BY <1>2, <1>5, FreshProper DEF DomainInv
    <2>2. kind = PilotKind
      BY <1>2 DEF Piloted, PilotRequests, At
    <2>3. /\ KeepsPreviews(previews[i], marked)
          /\ Len(marked) = Len(previews[i]) /\ marked \in Seq(Preview)
          /\ \A q \in 1..Len(previews[i]) :
               /\ marked[q].kind = previews[i][q].kind
               /\ marked[q].expires = previews[i][q].expires
               /\ q = cur.consent.preview => marked[q].status = "SUPERSEDED"
               /\ q # cur.consent.preview => marked[q] = previews[i][q]
      BY <2>1, MarkedKeeps, MarkedOK, NotMarked DEF PreviewStatus
    <2>4. /\ new.status = "ACTIVE" /\ new.kind = PilotKind
      BY <2>2
    <2> HIDE DEF marked, new
    <2>5. /\ Len(pvs) = Len(previews[i]) + 1 /\ Len(previews[i]) \in Nat
          /\ \A q \in 1..Len(previews[i]) : pvs[q] = marked[q]
          /\ pvs[Len(previews[i]) + 1] = new
      BY <2>1, <2>3, GrownByOne
    <2> HIDE DEF pvs
    <2>6. /\ \A q \in 1..Len(previews[i]) :
               /\ pvs[q].kind = previews[i][q].kind
               /\ pvs[q].expires = previews[i][q].expires
               /\ q = cur.consent.preview => pvs[q].status = "SUPERSEDED"
               /\ q # cur.consent.preview => pvs[q] = previews[i][q]
          /\ \A q \in 1..Len(pvs) :
               q \notin 1..Len(previews[i]) => pvs[q] = new
      BY <2>3, <2>5
    <2>7. \A q \in 1..Len(previews[i]) : previews[i][q].status # "CONFIRMED"
      BY <1>2, <1>5, <2>1 DEF Piloted, PilotPreviews
    <2>8. \A q \in 1..Len(pvs) : pvs[q].kind = PilotKind /\ pvs[q].status # "CONFIRMED"
      <3> SUFFICES ASSUME NEW q \in 1..Len(pvs)
                   PROVE  pvs[q].kind = PilotKind /\ pvs[q].status # "CONFIRMED"
        OBVIOUS
      <3>1. CASE q \in 1..Len(previews[i])
        <4>1. previews[i][q].kind = PilotKind
          BY <1>5, <3>1 DEF Piloted, PilotPreviews
        <4> QED
          BY <2>6, <2>7, <3>1, <4>1
      <3>2. CASE q \notin 1..Len(previews[i])
        BY <2>4, <2>6, <3>2
      <3> QED
        BY <3>1, <3>2
    <2>9. ChallengeSeqs /\ ChallengeSeqs'
      BY <1>1 DEF Piloted, ChallengeSeqs
    <2>10. PilotGrows
      <3>1. ASSUME NEW j \in Interactions PROVE KeepsPreviews(previews[j], previews'[j])
        <4>1. CASE j = i
          BY <1>5, <2>5, <2>6, <4>1 DEF KeepsPreviews
        <4>2. CASE j # i
          <5>1. previews[j] \in Seq(Preview) /\ previews'[j] = previews[j]
            BY <1>5, <4>2 DEF DomainInv, InteractionInv, TypeOK
          <5> QED
            BY <5>1, SamePreviews
        <4> QED
          BY <4>1, <4>2
      <3>2. ASSUME NEW j \in Interactions PROVE Len(challenges[j]) \in Nat
        <4>1. PICK S : challenges[j] \in Seq(S)
          BY <2>9 DEF ChallengeSeqs
        <4> QED
          BY <4>1
      <3> QED
        BY <1>1, <3>1, <3>2 DEF PilotGrows, PreviewsGrow, ChallengesGrow, MessagesStay
    <2>11. \A d \in Callers : CallMove(d)
      BY <1>1, <1>5, CallMoves
    <2>12. PilotRequests' /\ PilotTools'
      BY <2>9, <2>10, <2>11, MovesKeep DEF Piloted
    <2>13. PilotPreviews'
      <3>1. ASSUME NEW j \in Interactions, NEW q \in 1..Len(previews'[j])
            PROVE  /\ previews'[j][q].kind = PilotKind
                   /\ rows'[j].state \in Undecided => previews'[j][q].status # "CONFIRMED"
        BY <1>5, <2>8, <3>1 DEF Piloted, PilotPreviews
      <3> QED
        BY <3>1 DEF PilotPreviews
    <2>14. ASSUME NEW j \in Interactions, NEW q \in Nat PROVE Consumption(j, q)'
      <3>1. ConsumedBy(j, q)' = ConsumedBy(j, q) /\ Spent(j, q)' = Spent(j, q)
        BY <1>1 DEF ConsumedBy, Spent
      <3>2. (q \in 1..Len(previews'[j]) /\ previews'[j][q].status = "CONFIRMED") <=>
              (q \in 1..Len(previews[j]) /\ previews[j][q].status = "CONFIRMED")
        BY <1>5, <2>7, <2>8
      <3> QED
        BY <2>9, <2>10, <3>1, <3>2, ConsumptionStays DEF Piloted, Consumptions
    <2>15. Consumptions'
      BY <2>14 DEF Consumptions
    <2> QED
      BY <2>9, <2>12, <2>13, <2>15 DEF Piloted
  <1> QED
    BY <1>2, <1>3, <1>4, <1>5, WritesOrFails

\* One challenge is marked; the others, and what it says, stay.
LEMMA ChallengeConsumed ==
  ASSUME ChallengeSeqs, NEW i \in Interactions, NEW n \in 1..Len(challenges[i]),
         challenges' = [challenges EXCEPT ![i][n].status = "CONSUMED"]
  PROVE  /\ ChallengeSeqs'
         /\ \A j \in Interactions :
              /\ Len(challenges[j]) \in Nat /\ Len(challenges'[j]) = Len(challenges[j])
              /\ \A k \in 1..Len(challenges[j]) :
                   /\ challenges'[j][k].preview = challenges[j][k].preview
                   /\ challenges'[j][k].text = challenges[j][k].text
                   /\ j # i \/ k # n => challenges'[j][k] = challenges[j][k]
         /\ challenges'[i][n].status = "CONSUMED"
  <1> DEFINE s == challenges[i]
             h == [s[n] EXCEPT !.status = "CONSUMED"]
             t == [s EXCEPT ![n] = h]
  <1>1. PICK S : s \in Seq(S)
    BY DEF ChallengeSeqs
  <1>2. challenges' = [challenges EXCEPT ![i] = t]
    OBVIOUS
  <1>3. challenges' = [j \in Interactions |-> IF j = i THEN t ELSE challenges[j]]
    BY <1>2 DEF ChallengeSeqs
  <1>4. h.preview = s[n].preview /\ h.text = s[n].text /\ h.status = "CONSUMED" /\ Formed(h)
    <2>1. Formed(s[n])
      BY DEF ChallengeSeqs
    <2>2. h = [preview |-> s[n].preview, rev |-> s[n].rev, text |-> s[n].text,
               created |-> s[n].created, expires |-> s[n].expires, status |-> "CONSUMED"]
      BY <2>1 DEF Formed
    <2> HIDE DEF h
    <2> QED
      BY <2>2 DEF Formed
  <1>5. /\ t \in Seq(S \cup {h}) /\ Len(t) = Len(s)
        /\ t[n] = h /\ \A k \in 1..Len(s) : k # n => t[k] = s[k]
    <2> HIDE DEF h
    <2> QED
      BY <1>1
  <1> HIDE DEF h, t
  <1>6. ChallengeSeqs'
    <2>1. ASSUME NEW j \in Interactions
          PROVE  /\ \E T : challenges'[j] \in Seq(T)
                 /\ \A k \in 1..Len(challenges'[j]) : Formed(challenges'[j][k])
      <3>1. CASE j = i
        <4>1. challenges'[j] = t /\ \A k \in 1..Len(s) : Formed(s[k])
          BY <1>3, <3>1 DEF ChallengeSeqs
        <4>2. \A k \in 1..Len(t) : Formed(t[k])
          BY <1>4, <1>5, <4>1
        <4> QED
          BY <1>5, <4>1, <4>2
      <3>2. CASE j # i
        BY <1>3, <3>2 DEF ChallengeSeqs
      <3> QED
        BY <3>1, <3>2
    <2> QED
      BY <1>3, <2>1 DEF ChallengeSeqs
  <1>7. ASSUME NEW j \in Interactions
        PROVE  /\ Len(challenges[j]) \in Nat /\ Len(challenges'[j]) = Len(challenges[j])
               /\ \A k \in 1..Len(challenges[j]) :
                    /\ challenges'[j][k].preview = challenges[j][k].preview
                    /\ challenges'[j][k].text = challenges[j][k].text
                    /\ j # i \/ k # n => challenges'[j][k] = challenges[j][k]
    <2>1. Len(challenges[j]) \in Nat
      <3>1. PICK T : challenges[j] \in Seq(T)
        BY DEF ChallengeSeqs
      <3> QED
        BY <3>1
    <2>2. CASE j # i
      <3>1. challenges'[j] = challenges[j]
        BY <1>3, <2>2
      <3> QED
        BY <2>1, <3>1
    <2>3. CASE j = i
      <3>1. challenges'[j] = t /\ challenges[j] = s
        BY <1>3, <2>3
      <3> HIDE DEF s
      <3> QED
        BY <1>4, <1>5, <2>1, <2>3, <3>1
    <2> QED
      BY <2>2, <2>3
  <1>8. challenges'[i][n].status = "CONSUMED"
    BY <1>3, <1>4, <1>5
  <1> QED
    BY <1>6, <1>7, <1>8

\* The transaction of confirm takes one message and one challenge for a
\* preview that had taken none.
LEMMA TrustedConfirmPiloted ==
  ASSUME DomainInv, DomainInv', ChannelInv, Piloted, NEW c \in Callers, TrustedConfirm(c)
  PROVE  Piloted'
  <1> DEFINE cur == calls[c].cur
             i   == Id(c)
             p   == cur.consent.preview
             pv  == Current(i, cur)
             m   == tools[c].msg
             n   == tools[c].nth
             row == Moved(cur, IF pv.kind.approve THEN "AWAITING_CONFIRMATION" ELSE "AUTHORIZED",
                          [preview |-> p,
                           confirmation |-> [preview |-> p,
                             expires |-> Min2(pv.expires, calls[c].at + ConsentTtl)],
                           approval |-> cur.consent.approval],
                          cur.outcome)
             pvs == Marked(previews[i], p, "CONFIRMED")
             e   == [envelope |-> evidence[m].envelope, status |-> "CONSUMED",
                     consumer |-> <<i, p>>]
  <1>1. ToolAt(c, "confirm") /\ At(c, "write") /\ UNCHANGED <<messages, tools>>
    BY DEF TrustedConfirm
  <1>2. ChallengeSeqs
    BY DEF Piloted
  <1>3. ASSUME UNCHANGED stores, Fails(c), UNCHANGED <<evidence, challenges>>
        PROVE  Piloted'
    <2>1. \A d \in Callers : CallMove(d)
      BY <1>1, <1>3, CallMoves
    <2> QED
      BY <1>1, <1>3, <2>1, QuietlyPiloted DEF stores, MessagesStay
  <1>4. ASSUME Consumable(c), WriteConfirm(c), Fresh(c), i \in Interactions, Succeeds(c),
               \A j \in Interactions :
                 /\ rows'[j] = IF j = i THEN row ELSE rows[j]
                 /\ previews'[j] = IF j = i THEN pvs ELSE previews[j]
        PROVE  Piloted'
    <2>1. calls[c].step \in Informed /\ cur.state = "AWAITING_CONFIRMATION"
      BY <1>4, WriteFacts DEF WriteConfirm, From, DomainInv
    <2>2. /\ rows[i] = cur /\ previews[i] \in Seq(Preview)
          /\ cur.rev \in Nat /\ p \in Nat /\ Len(previews[i]) = p /\ p >= 1
      BY <1>4, <2>1, FreshProper DEF DomainInv, Previewed
    <2>3. p \in 1..Len(previews[i]) /\ Len(previews[i]) \in Nat
      BY <2>2
    <2>4. previews[i][p].kind = PilotKind /\ pv = previews[i][p]
          /\ \A q \in 1..Len(previews[i]) : previews[i][q].status # "CONFIRMED"
      BY <1>4, <2>1, <2>2, <2>3 DEF Piloted, PilotPreviews, Undecided, Current
    <2>5. row.state = "AUTHORIZED" /\ row.rev = cur.rev + 1
      BY <2>4, SMTT(60) DEF Moved, PilotKind
    <2>6. /\ KeepsPreviews(previews[i], pvs) /\ Len(pvs) = Len(previews[i])
          /\ \A q \in 1..Len(previews[i]) :
               /\ pvs[q].kind = previews[i][q].kind
               /\ pvs[q].expires = previews[i][q].expires
               /\ q = p => pvs[q].status = "CONFIRMED"
               /\ q # p => pvs[q] = previews[i][q]
      BY <2>2, MarkedKeeps, NotMarked
    <2> HIDE DEF row, pvs
    <2>7. /\ evidence' = [evidence EXCEPT ![m] = e]
          /\ challenges' = [challenges EXCEPT ![i][n].status = "CONSUMED"]
      <3>1. rows'[i] # rows[i]
        BY <1>4, <2>2, <2>5
      <3>2. rows' # rows
        BY <3>1
      <3>3. Consumable(c)
        BY <1>4
      <3> QED
        BY <3>2, <3>3 DEF TrustedConfirm
    <2>8. /\ ToolChecked(c) /\ challenges[i][n].preview = p
          /\ evidence[m].status = "UNUSED" /\ challenges[i][n].status = "ACTIVE"
      BY <1>1, <1>4 DEF Piloted, PilotTools, ToolAt, At, Consumable
    <2>9. /\ m \in Messages /\ messages[m] # Silent /\ n \in 1..Len(challenges[i])
          /\ messages[m].text = challenges[i][n].text
          /\ messages[m].at > previews[i][p].expires - PilotTtl
      BY <2>8 DEF ToolChecked, Created
    <2>10. evidence[m].consumer = <<>>
      <3>1. MessageOK(m)
        BY <2>9 DEF ChannelInv
      <3> QED
        BY <2>8, <3>1, Zenon DEF MessageOK
    <2>11. /\ \A o \in Messages : o # m => evidence'[o] = evidence[o]
           /\ evidence'[m].consumer = <<i, p>>
      <3>1. evidence = [o \in Messages |-> evidence[o]] /\ e.consumer = <<i, p>>
        BY DEF ChannelInv
      <3> HIDE DEF e
      <3>2. evidence' = [o \in Messages |-> IF o = m THEN e ELSE evidence[o]]
        BY <2>7, <3>1
      <3> QED
        BY <2>9, <3>1, <3>2
    <2>12. /\ ChallengeSeqs'
           /\ \A j \in Interactions :
                /\ Len(challenges[j]) \in Nat /\ Len(challenges'[j]) = Len(challenges[j])
                /\ \A k \in 1..Len(challenges[j]) :
                     /\ challenges'[j][k].preview = challenges[j][k].preview
                     /\ challenges'[j][k].text = challenges[j][k].text
                     /\ j # i \/ k # n => challenges'[j][k] = challenges[j][k]
           /\ challenges'[i][n].status = "CONSUMED"
      BY <1>2, <1>4, <2>7, <2>9, ChallengeConsumed
    <2>13. PilotGrows
      <3>1. ASSUME NEW j \in Interactions PROVE KeepsPreviews(previews[j], previews'[j])
        <4>1. CASE j = i
          BY <1>4, <2>6, <4>1
        <4>2. CASE j # i
          <5>1. previews[j] \in Seq(Preview) /\ previews'[j] = previews[j]
            BY <1>4, <4>2 DEF DomainInv, InteractionInv, TypeOK
          <5> QED
            BY <5>1, SamePreviews
        <4> QED
          BY <4>1, <4>2
      <3>2. PreviewsGrow
        BY <3>1 DEF PreviewsGrow
      <3>3. MessagesStay
        BY <1>1 DEF MessagesStay
      <3>4. ChallengesGrow
        BY <2>12 DEF ChallengesGrow
      <3> QED
        BY <3>2, <3>3, <3>4 DEF PilotGrows
    <2>14. \A d \in Callers : CallMove(d)
      BY <1>1, <1>4, CallMoves
    <2>15. PilotRequests' /\ PilotTools'
      BY <1>2, <2>12, <2>13, <2>14, MovesKeep DEF Piloted
    <2>16. PilotPreviews'
      <3>1. ASSUME NEW j \in Interactions, NEW q \in 1..Len(previews'[j])
            PROVE  /\ previews'[j][q].kind = PilotKind
                   /\ rows'[j].state \in Undecided => previews'[j][q].status # "CONFIRMED"
        <4>1. CASE j = i
          <5>1. /\ previews'[j] = pvs /\ rows'[j] = row /\ q \in 1..Len(previews[i])
            BY <1>4, <2>6, <4>1
          <5>2. previews[i][q].kind = PilotKind
            BY <1>4, <5>1 DEF Piloted, PilotPreviews
          <5> QED
            BY <2>5, <2>6, <5>1, <5>2 DEF Undecided
        <4>2. CASE j # i
          BY <1>4, <4>2 DEF Piloted, PilotPreviews
        <4> QED
          BY <4>1, <4>2
      <3> QED
        BY <3>1 DEF PilotPreviews
    <2>17. \A j \in Interactions, q \in Nat : ConsumedBy(j, q)' =
             IF j = i /\ q = p THEN ConsumedBy(j, q) \cup {m} ELSE ConsumedBy(j, q)
      <3> SUFFICES ASSUME NEW j \in Interactions, NEW q \in Nat
                   PROVE  ConsumedBy(j, q)' =
                            IF j = i /\ q = p THEN ConsumedBy(j, q) \cup {m}
                                              ELSE ConsumedBy(j, q)
        OBVIOUS
      <3>1. /\ <<i, p>> = <<j, q>> <=> j = i /\ q = p
            /\ <<j, q>> # <<>>
        OBVIOUS
      <3> QED
        BY <2>9, <2>10, <2>11, <3>1 DEF ConsumedBy
    <2>18. \A j \in Interactions, q \in Nat : Spent(j, q)' =
             IF j = i /\ q = p THEN Spent(j, q) \cup {n} ELSE Spent(j, q)
      <3> SUFFICES ASSUME NEW j \in Interactions, NEW q \in Nat
                   PROVE  Spent(j, q)' =
                            IF j = i /\ q = p THEN Spent(j, q) \cup {n} ELSE Spent(j, q)
        OBVIOUS
      <3> DEFINE A == Spent(j, q)'
                 B == IF j = i /\ q = p THEN Spent(j, q) \cup {n} ELSE Spent(j, q)
      <3>1. ASSUME NEW k PROVE k \in A <=> k \in B
        <4>1. /\ k \in A <=> /\ k \in 1..Len(challenges[j])
                             /\ challenges'[j][k].preview = q
                             /\ challenges'[j][k].status = "CONSUMED"
              /\ k \in Spent(j, q) <=> /\ k \in 1..Len(challenges[j])
                                      /\ challenges[j][k].preview = q
                                      /\ challenges[j][k].status = "CONSUMED"
          BY <2>12 DEF Spent
        <4>2. CASE j = i /\ k = n
          <5>1. challenges'[j][k].preview = p /\ challenges'[j][k].status = "CONSUMED"
            BY <2>8, <2>9, <2>12, <4>2
          <5>2. k \in A <=> q = p
            BY <2>9, <4>1, <4>2, <5>1
          <5>3. k \notin Spent(j, q)
            BY <2>8, <4>1, <4>2
          <5> HIDE DEF A
          <5> QED
            BY <4>2, <5>2, <5>3
        <4>3. CASE ~(j = i /\ k = n)
          <5>1. k \in A <=> k \in Spent(j, q)
            BY <2>12, <4>1, <4>3
          <5> HIDE DEF A
          <5> QED
            BY <4>3, <5>1
        <4> QED
          BY <4>2, <4>3
      <3> HIDE DEF A, B
      <3>2. A = B
        BY <3>1
      <3> QED
        BY <3>2 DEF A, B
    <2>19. ASSUME NEW j \in Interactions, NEW q \in Nat PROVE Consumption(j, q)'
      <3>1. CASE j = i /\ q = p
        <4>1. ConsumedBy(i, p) = {} /\ Spent(i, p) = {}
          <5>1. Consumption(i, p) /\ previews[i][p].status # "CONFIRMED"
            BY <1>4, <2>2, <2>3, <2>4 DEF Piloted, Consumptions
          <5> QED
            BY <5>1 DEF Consumption
        <4>2. ConsumedBy(j, q)' = {m} /\ Spent(j, q)' = {n}
          BY <1>4, <2>2, <2>17, <2>18, <3>1, <4>1
        <4>3. /\ previews'[i] = pvs /\ pvs[p].status = "CONFIRMED"
              /\ pvs[p].expires = previews[i][p].expires
              /\ p \in 1..Len(pvs)
          BY <1>4, <2>3, <2>6
        <4>4. /\ n \in 1..Len(challenges'[i])
              /\ messages'[m] # Silent
              /\ messages'[m].text = challenges'[i][n].text
              /\ messages'[m].at > pvs[p].expires - PilotTtl
          BY <1>1, <1>4, <2>9, <2>12, <4>3
        <4>5. \E o \in Messages, k \in 1..Len(challenges'[j]) :
                /\ ConsumedBy(j, q)' = {o} /\ Spent(j, q)' = {k}
                /\ messages'[o] # Silent
                /\ messages'[o].text = challenges'[j][k].text
                /\ messages'[o].at > previews'[j][q].expires - PilotTtl
          BY <2>9, <3>1, <4>2, <4>3, <4>4
        <4>6. q \in 1..Len(previews'[j]) /\ previews'[j][q].status = "CONFIRMED"
          BY <3>1, <4>3
        <4> QED
          BY <4>5, <4>6 DEF Consumption, Created
      <3>2. CASE ~(j = i /\ q = p)
        <4>1. ConsumedBy(j, q)' = ConsumedBy(j, q) /\ Spent(j, q)' = Spent(j, q)
          BY <2>17, <2>18, <3>2
        <4>2. (q \in 1..Len(previews'[j]) /\ previews'[j][q].status = "CONFIRMED") <=>
                (q \in 1..Len(previews[j]) /\ previews[j][q].status = "CONFIRMED")
          <5>1. CASE j # i
            BY <1>4, <5>1
          <5>2. CASE j = i
            BY <1>4, <2>6, <3>2, <5>2
          <5> QED
            BY <5>1, <5>2
        <4> QED
          BY <1>2, <2>12, <2>13, <4>1, <4>2, ConsumptionStays DEF Piloted, Consumptions
      <3> QED
        BY <3>1, <3>2
    <2>20. Consumptions'
      BY <2>19 DEF Consumptions
    <2> QED
      BY <2>12, <2>15, <2>16, <2>20 DEF Piloted
  <1>5. CASE Consumable(c) /\ WriteConfirm(c)
    <2>1. calls[c].step \in Informed
      BY <1>5, WriteFacts DEF WriteConfirm, DomainInv
    <2>2. Transition(c, "confirm", row, pvs, Succeeds(c))
      BY <1>5 DEF WriteConfirm
    <2> HIDE DEF row, pvs
    <2>3. CASE UNCHANGED stores /\ Fails(c)
      <3>1. rows' = rows
        BY <2>3 DEF stores
      <3>2. UNCHANGED <<evidence, challenges>>
        BY <3>1 DEF TrustedConfirm
      <3> QED
        BY <1>3, <2>3, <3>2
    <2> QED
      BY <1>4, <1>5, <2>1, <2>2, <2>3, WritesOrFails
  <1>6. CASE Fails(c) /\ UNCHANGED <<stores, evidence, challenges>>
    BY <1>3, <1>6
  <1> QED
    BY <1>5, <1>6 DEF TrustedConfirm

LEMMA PilotInit ==
  ASSUME IngressInit
  PROVE  ChannelInv /\ PilotInv
  <1>1. /\ messages = [m \in Messages |-> Silent]
        /\ journal = [m \in Messages |-> NoEnvelope] /\ wire = [m \in Messages |-> NoEnvelope]
        /\ evidence = [m \in Messages |-> NoEvidence]
        /\ challenges = [i \in Interactions |-> <<>>]
        /\ signing.active = 1 /\ signing.issuer = 1
    BY DEF IngressInit
  <1>2. /\ previews = [i \in Interactions |-> <<>>] /\ calls = [c \in Callers |-> IdleCall]
    BY DEF IngressInit, Init
  <1>3. ChannelInv
    <2>1. Silent \in Message /\ NoEnvelope \in Envelope
      BY DEF Silent, Message, NoEnvelope, Envelope
    <2>2. NoEvidence.status = "NONE"
      BY DEF NoEvidence
    <2> QED
      BY <1>1, <2>1, <2>2 DEF ChannelInv, MessageOK
  <1>4. ChallengeSeqs
    <2>1. <<>> \in Seq({}) /\ Len(<<>>) = 0
      OBVIOUS
    <2> QED
      BY <1>1, <2>1 DEF ChallengeSeqs
  <1>5. PilotPreviews
    BY <1>2 DEF PilotPreviews
  <1>6. PilotRequests /\ PilotTools
    BY <1>2 DEF PilotRequests, PilotTools, At, IdleCall
  <1>7. ASSUME NEW i \in Interactions, NEW p \in Nat PROVE Consumption(i, p)
    <2>1. ConsumedBy(i, p) = {}
      <3>1. NoEvidence.consumer # <<i, p>>
        BY DEF NoEvidence
      <3> QED
        BY <1>1, <3>1 DEF ConsumedBy
    <2>2. Spent(i, p) = {} /\ p \notin 1..Len(previews[i])
      BY <1>1, <1>2 DEF Spent
    <2> QED
      BY <2>1, <2>2 DEF Consumption
  <1> QED
    BY <1>3, <1>4, <1>5, <1>6, <1>7 DEF PilotInv, Piloted, Consumptions

LEMMA IngressKeepsPilot ==
  ASSUME DomainInv, DomainInv', ChannelInv, PilotInv, [IngressNext]_allVars
  PROVE  PilotInv'
  <1> SUFFICES ASSUME load'.pilot PROVE Piloted'
    BY DEF PilotInv
  <1>1. load' = load
    BY DEF IngressNext, OpenCall, OpenStep, PreviewTool, PreviewCreated, DrawChallenge,
           StoreChallenge, PreviewFails, ConfirmTool, TrustedConfirm, DomainStep, ToolCrash,
           Deliver, Accept, IssuerStarts, Rotate, InitKeys, Project, KeyToolCrash,
           IngressTick, allVars, ingressVars
  <1>2. load.pilot /\ Piloted
    BY <1>1 DEF PilotInv
  <1>3. ASSUME NEW c \in Callers, OpenCall(c) \/ OpenStep(c) PROVE Piloted'
    BY <1>2, <1>3 DEF OpenCall, OpenStep
  <1>4. ASSUME NEW c \in Callers, DomainStep(c) PROVE Piloted'
    BY <1>2, <1>4, ReadingPiloted, WritePreviewPiloted DEF DomainStep
  <1>5. ASSUME NEW c \in Callers,
               DrawChallenge(c) \/ PreviewFails(c) \/ ToolCrash(c)
        PROVE  Piloted'
    BY <1>2, <1>5, ToolEndsPiloted
  <1> QED
    BY <1>2, <1>3, <1>4, <1>5, PreviewToolPiloted, PreviewCreatedPiloted,
       StoreChallengePiloted, ConfirmToolPiloted, TrustedConfirmPiloted, ChannelPiloted
       DEF IngressNext

\* Under the pilot every confirmed preview was confirmed by exactly one message
\* of the owner and one challenge of that preview, which the message repeats;
\* the message first reached the issuer after the preview was made - for any
\* number of messages, redeliveries, callers, crashes and key rotations.
THEOREM OwnerConfirms == IngressSpec => []OwnerConfirmed
  <1>1. IngressInit => ChannelInv /\ PilotInv
    BY PilotInit
  <1>2. DomainInv /\ DomainInv' /\ ChannelInv /\ PilotInv /\ [IngressNext]_allVars
          => ChannelInv' /\ PilotInv'
    BY IngressKeepsChannel, IngressKeepsPilot
  <1>3. DomainInv /\ PilotInv => OwnerConfirmed
    <2> SUFFICES ASSUME DomainInv, Piloted,
                        NEW i \in Interactions, NEW p \in 1..Len(previews[i]),
                        previews[i][p].status = "CONFIRMED"
                 PROVE  \E m \in Messages, n \in 1..Len(challenges[i]) :
                          /\ ConsumedBy(i, p) = {m}
                          /\ Spent(i, p) = {n}
                          /\ messages[m].text = challenges[i][n].text
                          /\ messages[m].at > Created(i, p)
      BY DEF PilotInv, OwnerConfirmed
    <2>1. p \in Nat
      OBVIOUS
    <2>2. Consumption(i, p)
      BY <2>1 DEF Piloted, Consumptions
    <2> QED
      BY <2>2 DEF Consumption
  <1> QED
    BY <1>1, <1>2, <1>3, DomainHolds, PTL DEF IngressSpec
=============================================================================
