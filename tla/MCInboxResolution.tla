-------------------------- MODULE MCInboxResolution --------------------------
(* Instances of InboxResolution for TLC. *)
EXTENDS InboxResolution, TLC

CONSTANTS c1, c2, h1, h2

\* Two callers in two processes.
TwoHosts == c1 :> h1 @@ c2 :> h2
=============================================================================
