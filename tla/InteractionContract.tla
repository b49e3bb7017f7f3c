------------------------- MODULE InteractionContract -------------------------
(***************************************************************************)
(* What the trusted interaction domain promises about the external action  *)
(* an interaction stands for, whatever calls, retries, crashes and         *)
(* recoveries happen: the action is asked for at most once, only after the  *)
(* interaction was authorized and started, success is reported only for an *)
(* action that was performed, and an interaction reported failed or closed *)
(* never performed it and never will.                                      *)
(***************************************************************************)
EXTENDS Naturals

CONSTANT Interactions

VARIABLES
    phase,      \* phase[i]: how far interaction i has come
    asked,      \* asked[i]: how often the external action of i was asked for
    performed   \* performed[i]: has the external action of i taken place?

vars == <<phase, asked, performed>>

Phases == {"absent", "open", "authorized", "running", "succeeded", "failed",
           "closed"}

TypeOK ==
    /\ phase \in [Interactions -> Phases]
    /\ asked \in [Interactions -> 0..1]
    /\ performed \in [Interactions -> BOOLEAN]

Init ==
    /\ phase = [i \in Interactions |-> "absent"]
    /\ asked = [i \in Interactions |-> 0]
    /\ performed = [i \in Interactions |-> FALSE]

Move(i, from, to) ==
    /\ phase[i] \in from
    /\ phase' = [phase EXCEPT ![i] = to]
    /\ UNCHANGED <<asked, performed>>

Open(i) == Move(i, {"absent"}, "open")

Authorize(i) == Move(i, {"open"}, "authorized")

Start(i) == Move(i, {"authorized"}, "running")

\* Given up before it was started.
Close(i) == Move(i, {"open", "authorized"}, "closed")

\* The action is asked for, once; it takes place or not.
Perform(i) ==
    /\ phase[i] = "running"
    /\ asked[i] = 0
    /\ asked' = [asked EXCEPT ![i] = 1]
    /\ \E took \in BOOLEAN : performed' = [performed EXCEPT ![i] = took]
    /\ UNCHANGED phase

Succeed(i) ==
    /\ performed[i]
    /\ Move(i, {"running"}, "succeeded")

Fail(i) ==
    /\ ~performed[i]
    /\ Move(i, {"running"}, "failed")

Next ==
    \E i \in Interactions :
        \/ Open(i)
        \/ Authorize(i)
        \/ Start(i)
        \/ Close(i)
        \/ Perform(i)
        \/ Succeed(i)
        \/ Fail(i)

Spec == Init /\ [][Next]_vars

=============================================================================
