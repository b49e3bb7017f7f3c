--------------------------- MODULE MCTrustedIngress ---------------------------
(* The interaction domain with its consent operations, called at will, and *)
(* the pilot that confirms by messages of the owner, for TLC.              *)
EXTENDS TrustedIngress

CONSTANTS c1, c2

\* Who calls what, with one key or with two.
KeysFor(once, twice) ==
  [o \in Operation |-> IF o \in twice THEN 2 ELSE IF o \in once THEN 1 ELSE 0]

ConsentCalls ==
  [c \in Callers |-> KeysFor({"approve", "expire", "execute"},
                             {"create", "preview", "confirm"})]

\* Previews that need a confirmation, and that need an approval too.
ConfirmedKinds ==
  {[confirm |-> TRUE, approve |-> a, commit |-> FALSE, ttl |-> 1] : a \in BOOLEAN}

\* The domain called at will; two previews and one message; one preview and
\* two messages; one message and a rotation, with a crash.
LoadOf(pilot, keys, shown, heard, rotations, flt, ends) ==
  [pilot |-> pilot, keys |-> keys, shown |-> shown, heard |-> heard,
   rotations |-> rotations, faults |-> flt, ends |-> ends]

AllLoads ==
  {LoadOf(FALSE, 1, 0, 0, 0, 0, 1),
   LoadOf(TRUE, 2, 2, 1, 0, 0, 1),
   LoadOf(TRUE, 2, 1, 2, 0, 0, 1),
   LoadOf(TRUE, 1, 1, 1, 1, 1, 2)}

Symmetry == Permutations(Callers) \cup Permutations(Interactions)
=============================================================================
