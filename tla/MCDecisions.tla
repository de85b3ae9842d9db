----------------------------- MODULE MCDecisions -----------------------------
(***************************************************************************)
(* What needs no second actor to go wrong, for TLC: the decisions of a     *)
(* call, each asked about every input (MCOutcomes), and the bindings of    *)
(* one session under every sequence of operations (SessionFile).  The      *)
(* session is shared by two agents that differ in their system prompt      *)
(* (messages 1 and 2) and share their user messages.                       *)
(***************************************************************************)
EXTENDS MCOutcomes, SessionFile, TLC

CONSTANTS s1, c1, c2, c3, c4

Threads == {<<1>>, <<1, 3>>, <<2, 3>>, <<2, 3, 4>>}

BindOps ==
    {[kind |-> "bind", s |-> s, c |-> c, baseline |-> Hashes(h)] :
        s \in Session, c \in Conversation, h \in Threads}

AllOps ==
    BindOps
    \cup [kind : {"rebind"}, s : Session, c : Conversation]
    \cup [kind : {"rebindAll"}, s : Session]
    \cup [kind : {"prune", "read"}]

Symmetry == Permutations(Conversation)

\* A behaviour asks one question, or works on the file.
DecisionsInit ==
    /\ Init
    /\ \/ Ask /\ \A s \in Session : sessions[s] = <<>>
       \/ question = [about |-> "file"] /\ answer = Unanswered

Asked == Decide /\ UNCHANGED vars
OnFile == question.about = "file" /\ Next /\ UNCHANGED exchange

DecisionsSpec == DecisionsInit /\ [][Asked \/ OnFile]_<<exchange, vars>>
=============================================================================
