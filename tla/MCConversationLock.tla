-------------------------- MODULE MCConversationLock --------------------------
(***************************************************************************)
(* Instances of ConversationLock for TLC: two requests that share one host *)
(* process and one in another, or three requests in three processes.       *)
(***************************************************************************)
EXTENDS ConversationLock, TLC

CONSTANTS r1, r2, r3, p1, p2, p3

\* Two turns of one host, one of the other.
TwoHosts == (r1 :> p1) @@ (r2 :> p1) @@ (r3 :> p2)
\* Every turn in a process of its own.
ThreeHosts == (r1 :> p1) @@ (r2 :> p2) @@ (r3 :> p3)
=============================================================================
