-------------------------------- MODULE Mutex --------------------------------
(***************************************************************************)
(* What the per-conversation lock promises its callers: a request enters   *)
(* only while nobody is inside, and leaves by releasing or by dying with   *)
(* its process.  ConversationLock is shown to implement this module.       *)
(***************************************************************************)
CONSTANT Request      \* the turns that may want the conversation

VARIABLE holders      \* the requests driving the conversation right now

Init == holders = {}

Enter(r) ==
    /\ holders = {}
    /\ holders' = {r}

\* One release, or the end of a process together with all it held.
Leave ==
    /\ holders # {}
    /\ holders' = {}

Next == (\E r \in Request : Enter(r)) \/ Leave

Spec == Init /\ [][Next]_holders
=============================================================================
