---------------------------- MODULE TrustedIngress ----------------------------
(***************************************************************************)
(* The trusted ingress pilot (applications/pilot_001_ingress_bridge) over  *)
(* the interaction domain.  A shell may preview and confirm, and nothing   *)
(* else; it is not trusted with the confirmation.  A preview shows the     *)
(* owner a challenge; the owner repeats it in a message of a channel; an   *)
(* issuer process outside the shell signs the message into an envelope and *)
(* stores it as evidence; the confirm tool checks evidence and challenge   *)
(* and has InteractionService consume both in the transaction that         *)
(* confirms.  Signing keys rotate while all of this goes on.               *)
(*                                                                         *)
(* A challenge text is a member of a small set, so two previews may draw   *)
(* the same.  Whoever holds a message identifier and a text may call the   *)
(* tools.  Bindings, canonical encoding and signatures themselves are left *)
(* out: an envelope is what was signed, with the key that signed it.       *)
(***************************************************************************)
EXTENDS Interaction, SequencesExt

CONSTANTS
  Messages,      \* identifiers of the owner's messages (raw_wecom_msgid)
  Texts,         \* texts of challenges and messages
  PilotTtl,      \* preview_ttl_seconds
  EvidenceTtl,   \* lifetime of an envelope and of a challenge
  Loads,         \* what a behaviour is made of
  MaxSigningKey  \* bound: signing keys

\* pilot: only the pilot's tools are there, or callers call the domain at
\* will; keys: how many keys an operation other than preview has; shown: how
\* often the preview tool may be called; heard: how many messages the owner
\* sends; rotations: how often the signing key is rotated; faults: how many
\* there may be; ends: the last time.
Load == [pilot: BOOLEAN, keys: 0..MaxKeys, shown: Nat,
         heard: 0..Cardinality(Messages),
         rotations: 0..(MaxSigningKey - 1), faults: 0..MaxFaults, ends: 0..MaxTime]

ASSUME IngressAssumption ==
  /\ PilotTtl \in Nat \ {0}
  /\ EvidenceTtl \in Nat \ {0}
  /\ MaxSigningKey \in Nat \ {0}
  /\ Loads \subseteq Load
  /\ "none" \notin Texts

VARIABLES
  load,        \* the load of this behaviour
  messages,    \* message -> its text, and when it first reached the issuer
  journal,     \* message -> its envelope (table issued_evidence)
  wire,        \* message -> the envelope the issuer is about to hand over
  evidence,    \* message -> its row (table trusted_ingress_evidence)
  challenges,  \* interaction -> its challenges (interaction_confirmation_challenges)
  signing,     \* signing keys: on disk, in the issuer, trusted by verifiers
  tools        \* caller -> where its tool call is

channel == <<messages, journal, wire, evidence, signing>>
ingressVars == <<load, channel, challenges, tools>>
allVars == <<vars, ingressVars>>

Silent     == [text |-> "none", at |-> 0]
NoEnvelope == [key |-> 0, received |-> 0]
NoEvidence == [envelope |-> NoEnvelope, status |-> "NONE", consumer |-> <<>>]

\* rev, made and text of a challenge on its way to its table; msg and nth,
\* the evidence and the challenge a confirm is to consume.
IdleTool == [at |-> "idle", key |-> 0, rev |-> 0, made |-> 0, text |-> "none",
             msg |-> "none", nth |-> 0]

IngressInit ==
  /\ Init
  /\ load \in Loads
  /\ messages = [m \in Messages |-> Silent]
  /\ journal = [m \in Messages |-> NoEnvelope]
  /\ wire = [m \in Messages |-> NoEnvelope]
  /\ evidence = [m \in Messages |-> NoEvidence]
  /\ challenges = [i \in Interactions |-> <<>>]
  /\ signing = [active |-> 1, issuer |-> 1, trusted |-> {1}, unprojected |-> 0]
  /\ tools = [c \in Callers |-> IdleTool]

-----------------------------------------------------------------------------
(* The preview tool.                                                       *)

\* The plan of Pilot001OperationPolicyResolver.
PilotKind == [confirm |-> TRUE, approve |-> FALSE, commit |-> TRUE, ttl |-> PilotTtl]

\* created_at of preview p of interaction i.
Created(i, p) == previews[i][p].expires - PilotTtl

ToolAt(c, at) == tools[c].at = at

ToolGoes(c, at, key) ==
  tools' = [tools EXCEPT ![c] = [IdleTool EXCEPT !.at = at, !.key = key]]

ToolEnds(c) == tools' = [tools EXCEPT ![c] = IdleTool]

\* No tool of the caller waits for what its call brings back.
Free(c) == At(c, "idle") /\ tools[c].at \in {"idle", "confirm"}

AnswersCall(c) == At(c, "idle") /\ calls[c].answer = "done"

\* Challenges that were shown, or that a call is about to show.
Shown == FoldFunction(LAMBDA hs, n : n + Len(hs),
                      Cardinality({c \in Callers : ~Free(c) /\ ~ToolAt(c, "confirm")}),
                      challenges)

\* The adapter creates the interaction with a key derived from the tool's,
PreviewTool(c) ==
  /\ Free(c)
  /\ Shown < load.shown
  /\ \E k \in 1..load.keys :
       /\ MayCreate(k)
       /\ Invoke(c, [op |-> "create", key |-> k, digest |-> IdleRequest.digest], "create")
       /\ ToolGoes(c, "create", k)
  /\ UNCHANGED <<load, channel, challenges>>

\* and previews it at the revision it was created with, even when this is
\* the repetition of a call that was done long ago,
PreviewCreated(c) ==
  /\ ToolAt(c, "create")
  /\ AnswersCall(c)
  /\ \E m \in idem[<<"create", tools[c].key>>] :
       Invoke(c, Ask("preview", tools[c].key, m.id, 1, PilotKind, 0), "lookup")
  /\ ToolGoes(c, "preview", tools[c].key)
  /\ UNCHANGED <<load, channel, challenges>>

\* and the tool draws a challenge for the preview the interaction shows.
DrawChallenge(c) ==
  /\ ToolAt(c, "preview")
  /\ AnswersCall(c)
  /\ \E text \in Texts :
       tools' = [tools EXCEPT ![c] = [IdleTool EXCEPT !.at = "store",
                    !.rev = rows[Id(c)].rev, !.made = now, !.text = text]]
  /\ UNCHANGED <<vars, load, channel, challenges>>

\* store_confirmation_challenge; older challenges stay as they are.
StoreChallenge(c) ==
  LET i == Id(c)
      p == rows[i].consent.preview
  IN
  /\ ToolAt(c, "store")
  /\ challenges' = [challenges EXCEPT ![i] = Append(@,
       [preview |-> p, rev |-> tools[c].rev, text |-> tools[c].text,
        created |-> tools[c].made,
        expires |-> Min2(previews[i][p].expires, tools[c].made + EvidenceTtl),
        status |-> "ACTIVE"])]
  /\ ToolEnds(c)
  /\ UNCHANGED <<vars, load, channel>>

\* _guard: a call that fails ends the tool.
PreviewFails(c) ==
  /\ tools[c].at \in {"create", "preview"}
  /\ At(c, "idle") /\ calls[c].answer = "none"
  /\ ToolEnds(c)
  /\ UNCHANGED <<vars, load, channel, challenges>>

-----------------------------------------------------------------------------
(* The issuer.                                                             *)

\* Mutant: a redelivery is signed again.
BugIssued(m) == [key |-> signing.issuer, received |-> now]

\* issue: the journal keeps the first envelope of a message for good.
Issued(m) ==
  IF journal[m] = NoEnvelope
  THEN [key |-> signing.issuer, received |-> now] ELSE journal[m]

\* The channel hands a message of the owner to the issuer, once or again.
\* Bound: load.heard messages.
Deliver(m) ==
  /\ \/ /\ messages[m] = Silent
        /\ Cardinality({n \in Messages : messages[n] # Silent}) < load.heard
        /\ \E text \in Texts :
             messages' = [messages EXCEPT ![m] = [text |-> text, at |-> now]]
     \/ /\ messages[m] # Silent
        /\ UNCHANGED messages
  /\ journal' = [journal EXCEPT ![m] = Issued(m)]
  /\ wire' = [wire EXCEPT ![m] = Issued(m)]
  /\ UNCHANGED <<vars, load, evidence, signing, challenges, tools>>

\* accept_evidence: verify the envelope with the trusted keys, then insert
\* it; the row of a message that is there already stays as it is.
Accept(m) ==
  /\ wire[m] # NoEnvelope
  /\ wire' = [wire EXCEPT ![m] = NoEnvelope]
  /\ IF wire[m].key \in signing.trusted /\ evidence[m] = NoEvidence
     THEN evidence' = [evidence EXCEPT ![m] =
                         [envelope |-> wire[m], status |-> "UNUSED", consumer |-> <<>>]]
     ELSE UNCHANGED evidence
  /\ UNCHANGED <<vars, load, messages, journal, signing, challenges, tools>>

\* The active key on disk, the one the running issuer signs with, the ones
\* verifiers trust, and the one that is about to be projected (0: none).
Signing(active, issuer, trusted, unprojected) ==
  signing' = [active |-> active, issuer |-> issuer, trusted |-> trusted,
              unprojected |-> unprojected]

\* A new issuer process reads the active key; what the old one was about to
\* hand over is lost.
IssuerStarts ==
  /\ signing.issuer # signing.active \/ \E m \in Messages : wire[m] # NoEnvelope
  /\ Signing(signing.active, signing.active, signing.trusted, signing.unprojected)
  /\ wire' = [m \in Messages |-> NoEnvelope]
  /\ UNCHANGED <<vars, load, messages, journal, evidence, challenges, tools>>

\* rotate_signing_key makes a new key the active one and then projects it
\* to the verifiers.
Rotate ==
  /\ signing.unprojected = 0
  /\ signing.active <= load.rotations  \* Bound.
  /\ Signing(signing.active + 1, signing.issuer, signing.trusted, signing.active + 1)
  /\ UNCHANGED <<vars, load, messages, journal, wire, evidence, challenges, tools>>

\* bootstrap with key material in place only projects the active key again.
InitKeys ==
  /\ signing.unprojected = 0
  /\ signing.active \notin signing.trusted
  /\ Signing(signing.active, signing.issuer, signing.trusted, signing.active)
  /\ UNCHANGED <<vars, load, messages, journal, wire, evidence, challenges, tools>>

\* Mutant: the projection names the active key alone.
BugTrusted(key) == {key}

Trusted(key) == signing.trusted \cup {key}

\* project_verifier_material adds the key to the trusted ones; verifiers
\* read the projection again when they do not know a key.
Project ==
  /\ signing.unprojected # 0
  /\ Signing(signing.active, signing.issuer, Trusted(signing.unprojected), 0)
  /\ UNCHANGED <<vars, load, messages, journal, wire, evidence, challenges, tools>>

-----------------------------------------------------------------------------
(* The confirm tool.                                                       *)

\* confirmation_challenge: the newest one of the preview.
Newest(i, p, n) ==
  /\ n \in 1..Len(challenges[i])
  /\ challenges[i][n].preview = p
  /\ \A j \in 1..Len(challenges[i]) :
       challenges[i][j].preview = p => challenges[i][j].created <= challenges[i][n].created

\* Mutant: a message from before the preview will do.
BugChecks(i, p, m, n) ==
  LET e == evidence[m]
      h == challenges[i][n]
  IN
  /\ e.status = "UNUSED"
  /\ e.envelope.key \in signing.trusted
  /\ now < e.envelope.received + EvidenceTtl
  /\ h.status = "ACTIVE"
  /\ now < h.expires
  /\ h.rev = rows[i].rev
  /\ messages[m].text = h.text

\* The checks of Pilot001IngressConfirmationService.confirm on message m and
\* challenge n.  What it reads in three steps is compared again when it is
\* consumed, but for the two expiry times.
Checks(i, p, m, n) ==
  LET e == evidence[m]
      h == challenges[i][n]
  IN
  /\ e.status = "UNUSED"
  /\ e.envelope.key \in signing.trusted
  /\ e.envelope.received > Created(i, p)
  /\ now < e.envelope.received + EvidenceTtl
  /\ h.status = "ACTIVE"
  /\ now < h.expires
  /\ h.rev = rows[i].rev
  /\ messages[m].text = h.text

ConfirmTool(c) ==
  /\ Free(c)
  /\ \E i \in Interactions, k \in 1..load.keys, m \in Messages :
       LET p == rows[i].consent.preview IN
       /\ rows[i].state = "AWAITING_CONFIRMATION"
       /\ \E n \in 1..Len(challenges[i]) :
            /\ Newest(i, p, n)
            /\ Checks(i, p, m, n)
            /\ tools' = [tools EXCEPT ![c] =
                           [IdleTool EXCEPT !.at = "confirm", !.msg = m, !.nth = n]]
       /\ Invoke(c, Ask("confirm", k, i, rows[i].rev, NoKind, p), "lookup")
  /\ UNCHANGED <<load, channel, challenges>>

\* Mutant: the evidence is marked, whatever it was before.
BugConsumable(c) ==
  LET h == challenges[Id(c)][tools[c].nth] IN
  /\ h.status = "ACTIVE"
  /\ h.preview = calls[c].cur.consent.preview
  /\ h.rev = calls[c].cur.rev

\* The rows that the two updates of the consumption match.
Consumable(c) ==
  LET h == challenges[Id(c)][tools[c].nth] IN
  /\ evidence[tools[c].msg].status = "UNUSED"
  /\ h.status = "ACTIVE"
  /\ h.preview = calls[c].cur.consent.preview
  /\ h.rev = calls[c].cur.rev

\* The transaction of confirm: it consumes the evidence and the challenge
\* and confirms, or it does nothing of the kind.
TrustedConfirm(c) ==
  LET i == Id(c) IN
  /\ ToolAt(c, "confirm")
  /\ At(c, "write")
  /\ \/ /\ Consumable(c)
        /\ WriteConfirm(c)
        /\ IF rows' = rows
           THEN UNCHANGED <<evidence, challenges>>
           ELSE /\ evidence' = [evidence EXCEPT ![tools[c].msg] =
                     [envelope |-> evidence[tools[c].msg].envelope,
                      status   |-> "CONSUMED",
                      consumer |-> <<i, calls[c].cur.consent.preview>>]]
                /\ challenges' = [challenges EXCEPT ![i][tools[c].nth].status = "CONSUMED"]
     \/ /\ ~Consumable(c)
        /\ Fails(c)
        /\ UNCHANGED <<stores, world, now, faults, evidence, challenges>>
  /\ UNCHANGED <<load, messages, journal, wire, signing, tools>>

-----------------------------------------------------------------------------
(* The pilot, and the domain without it.                                   *)

\* The steps of create, preview and confirm inside InteractionService.
DomainStep(c) ==
  /\ load.pilot
  /\ Create(c) \/ Lookup(c) \/ Read(c) \/ WritePreview(c)
  /\ UNCHANGED ingressVars

\* A process of the shell's tools dies, or the key tool between its steps.
ToolCrash(c) ==
  /\ load.pilot
  /\ ~Free(c)
  /\ faults < load.faults /\ Fault
  /\ calls' = [calls EXCEPT ![c] = IdleCall]
  /\ ToolEnds(c)
  /\ UNCHANGED <<stores, world, now, load, channel, challenges>>

KeyToolCrash ==
  /\ signing.unprojected # 0
  /\ faults < load.faults /\ Fault
  /\ Signing(signing.active, signing.issuer, signing.trusted, 0)
  /\ UNCHANGED <<stores, world, now, calls, load, messages, journal, wire, evidence,
                 challenges, tools>>

\* Callers of the domain; its ports are not at fault when the load has none.
OpenCall(c) ==
  /\ ~load.pilot
  /\ \/ InvokeCreate(c) /\ Req(c)'.key <= load.keys
     \/ InvokeOther(c) /\ (Req(c)'.op = "preview" \/ Req(c)'.key <= load.keys)
  /\ UNCHANGED ingressVars

OpenStep(c) ==
  /\ ~load.pilot
  /\ Step(c)
  /\ faults' <= load.faults
  /\ UNCHANGED ingressVars

IngressTick ==
  /\ now < load.ends
  /\ Tick
  /\ UNCHANGED ingressVars

IngressNext ==
  \/ \E c \in Callers :
       \/ OpenCall(c)
       \/ OpenStep(c)
       \/ PreviewTool(c)
       \/ PreviewCreated(c)
       \/ DrawChallenge(c)
       \/ StoreChallenge(c)
       \/ PreviewFails(c)
       \/ ConfirmTool(c)
       \/ TrustedConfirm(c)
       \/ DomainStep(c)
       \/ ToolCrash(c)
  \/ \E m \in Messages : Deliver(m) \/ Accept(m)
  \/ IssuerStarts
  \/ Rotate
  \/ InitKeys
  \/ Project
  \/ KeyToolCrash
  \/ IngressTick

IngressSpec == IngressInit /\ [][IngressNext]_allVars

-----------------------------------------------------------------------------
(* Properties.                                                             *)

\* The messages that preview p of interaction i has consumed, and challenges.
ConsumedBy(i, p) == {m \in Messages : evidence[m].consumer = <<i, p>>}

Spent(i, p) ==
  {n \in 1..Len(challenges[i]) :
     challenges[i][n].preview = p /\ challenges[i][n].status = "CONSUMED"}

\* Where only the pilot's tools are there, a preview is confirmed by exactly
\* one message of the owner: it repeats a challenge of that very preview, and
\* it first reached the issuer after the preview was made - whatever was
\* redelivered, repeated or done at the same time, and whichever keys signed.
\* (confirm, transition and the issuance journal)
OwnerConfirmed ==
  load.pilot =>
    \A i \in Interactions : \A p \in 1..Len(previews[i]) :
      previews[i][p].status = "CONFIRMED" =>
        \E m \in Messages, n \in 1..Len(challenges[i]) :
          /\ ConsumedBy(i, p) = {m}
          /\ Spent(i, p) = {n}
          /\ messages[m].text = challenges[i][n].text
          /\ messages[m].at > Created(i, p)

\* Evidence that was accepted can be verified when it is used, however far
\* the signing key has moved on since and wherever a rotation broke off.
\* (rotate_signing_key, project_verifier_material and accept_evidence)
AcceptedVerifiable ==
  \A m \in Messages :
    evidence[m] # NoEvidence => evidence[m].envelope.key \in signing.trusted
=============================================================================
