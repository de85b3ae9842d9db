----------------------------- MODULE SessionFile -----------------------------
(***************************************************************************)
(* What the opencode session store promises the turns: every operation     *)
(* reads and rewrites the whole file at one point in time.  SessionStore   *)
(* is shown to implement this module as long as its lock excludes.         *)
(***************************************************************************)
EXTENDS Bindings

CONSTANTS
    Ops,           \* the operations the turns issue
    MaxClock       \* bound: last tick of the clock, which never steps back

ASSUME FileAssumption ==
    /\ \A o \in Ops :
          /\ o.kind \in {"bind", "rebind", "rebindAll", "prune", "read"}
          /\ o.kind \in {"bind", "rebind", "rebindAll"} => o.s \in Session
          /\ o.kind = "bind" =>
                /\ o.c \in Conversation
                /\ o.baseline \in [known : BOOLEAN, of : Seq(Nat)]
    /\ MaxClock \in Nat

VARIABLES
    sessions,      \* the file: the bindings of each session
    clock,         \* wall clock, Date.now()
    bound          \* history: the session and conversation just bound, if any

vars == <<sessions, clock, bound>>

NothingBound == <<>>

\* What the last operation bound.
BoundBy(o) == IF o.kind = "bind" THEN <<o.s, o.c>> ELSE NothingBound

\* The file as an earlier version of the adapter may have left it: nothing, or
\* one entry that migrates from schema 1 without a baseline.
Legacy ==
    {[s \in Session |-> <<>>]} \cup
    {[s \in Session |-> IF s = s0 THEN <<Binding(c, NoHashes, 0)>> ELSE <<>>] :
        s0 \in Session, c \in Conversation}

Init ==
    /\ sessions \in Legacy
    /\ clock = 0
    /\ bound = NothingBound

Operate(o) ==
    /\ sessions' = Apply(o, sessions, clock)
    /\ bound' = BoundBy(o)
    /\ UNCHANGED clock

Tick ==
    /\ clock < MaxClock
    /\ clock' = clock + 1
    /\ UNCHANGED <<sessions, bound>>

Next == (\E o \in Ops : Operate(o)) \/ Tick

Spec == Init /\ [][Next]_vars

-----------------------------------------------------------------------------
TypeOK ==
    /\ \A s \in Session :
          /\ sessions[s] \in Seq([cid : Conversation,
                                  baseline : [known : BOOLEAN, of : Seq(Nat)],
                                  at : 0..MaxClock])
          /\ Len(sessions[s]) <= MaxBindings
    /\ clock \in 0..MaxClock
    /\ bound = NothingBound \/ bound \in Session \X Conversation

\* An agy conversation has one baseline in a session: whatever was replaced,
\* evicted or expired in between, no two entries name the same conversation.
OneBaselinePerConversation ==
    \A s \in Session : \A i, j \in DOMAIN sessions[s] :
        sessions[s][i].cid = sessions[s][j].cid => i = j

\* Line 352, "never the just-bound one": the eviction at the cap spares the
\* entry of the bind that caused it.
JustBoundSurvives ==
    bound # NothingBound =>
        \E e \in Entries(sessions[bound[1]]) : e.cid = bound[2]

\* A list of bindings at any time: typed and within its cap, one baseline for
\* each conversation, and the binding made last among them.
ListsSound == TypeOK /\ OneBaselinePerConversation /\ JustBoundSurvives

\* CHANGELOG 177-181: side agents under one session id do not overwrite the
\* main thread's baseline.  A step that adds an entry n costs the list at most
\* one live entry: n's former self, a thread n continues, or the oldest one.
SiblingsKeepBaseline ==
    [][\A s \in Session :
          LET lost == Entries(Fresh(sessions[s], clock)) \ Entries(sessions'[s])
              new  == Entries(sessions'[s]) \ Entries(sessions[s])
          IN \A n \in new, e \in lost :
                /\ lost = {e}
                /\ \/ e.cid = n.cid
                   \/ e.baseline.known /\ hashesArePrefix(e.baseline.of, n.baseline.of)
                   \/ /\ Len(sessions[s]) = MaxBindings
                      /\ \A o \in Entries(Fresh(sessions[s], clock)) : e.at <= o.at]_vars

=============================================================================
