---------------------------- MODULE MCInteraction ----------------------------
(* Instances of Interaction for TLC.                                       *)
EXTENDS Interaction, TLC

CONSTANTS c1, c2

\* Who calls what, with one key or with two.
KeysFor(once, twice) ==
  [o \in Operation |-> IF o \in twice THEN 2 ELSE IF o \in once THEN 1 ELSE 0]

RecoveryCalls ==
  (c1 :> KeysFor({"create", "preview", "execute"}, {"recover"}))
  @@ (c2 :> KeysFor({"execute", "cancel", "verify", "recover"}, {}))
ClaimCalls ==
  [c \in Callers |-> KeysFor({"create", "preview", "execute"}, {"verify", "recover"})]

\* Previews that need neither confirmation nor approval.
CommitKind == {[confirm |-> FALSE, approve |-> FALSE, commit |-> TRUE, ttl |-> 1]}
=============================================================================
