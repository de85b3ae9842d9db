---------------------------- MODULE MCOpencodeTurn ----------------------------
(***************************************************************************)
(* OpencodeTurn for TLC.  Messages: 1 and 2 are the system prompts of a    *)
(* side agent and of the main agent, 3 the first user message, 4 the       *)
(* answer with a follow-up to it.                                          *)
(***************************************************************************)
EXTENDS OpencodeTurn, TLC

CONSTANTS s1, t1, t2, t3, c0, c1, c2, c3

Main      == <<2, 3>>
FollowUp  == <<2, 3, 4>>
Side      == <<1, 3>>

\* Thread and Earlier are functions on exactly the calls of the instance.
On(f) == [t \in Turn |-> f[t]]
Nothing == [t \in Turn |-> {}]

\* A main turn and a side agent's, then a follow-up of the main one.
MainAndSide == On((t1 :> Main) @@ (t2 :> Side) @@ (t3 :> FollowUp))
AnswerFirst == [t \in Turn |-> IF t = t3 THEN {t1} ELSE {}]

\* One call follows up on a bound thread.
FollowingUp == On(t1 :> FollowUp)

NewSession  == {<<>>}
BoundThread == {<<Binding(c0, Hashes(Main), 0)>>, <<Binding(c0, NoHashes, 0)>>}
TwoThreads  == {<<Binding(c0, Hashes(Main), 0), Binding(c1, Hashes(<<6>>), 0)>>}
AnySession  == NewSession \cup BoundThread
=============================================================================
