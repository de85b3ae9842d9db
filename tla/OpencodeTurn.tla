----------------------------- MODULE OpencodeTurn -----------------------------
(***************************************************************************)
(* The turns of one opencode session: the prompt choice of doStream        *)
(* (packages/opencode-adapter/src/language-model.ts) followed by runTurn   *)
(* (turn.ts).  The main agent and side agents issue turns concurrently;    *)
(* each picks a stored conversation, runs agy at most twice and updates    *)
(* the bindings.                                                           *)
(*                                                                         *)
(* Composition: a store operation is one step, as SessionFile promises     *)
(* (its expiry and eviction are left to that module: nothing expires here  *)
(* and no instance has more turns than MaxBindings); the conversation lock *)
(* is a Mutex per conversation with a bounded wait, as ConversationLock    *)
(* implements; one run of agy is a step that starts and a step that        *)
(* settles it with a verdict of Outcomes, as AgyRun guarantees.            *)
(***************************************************************************)
EXTENDS Bindings

CONSTANTS
    Turn,            \* the calls of the host
    Thread,          \* the message hashes each call carries
    Earlier,         \* the calls whose answers a call's thread contains
    InitialLists,    \* what the session may have stored before
    StoreMayFail     \* a store operation may reject (busy, disk)

NoConversation == "no conversation"
NoTurn         == "no turn"

ASSUME TurnAssumption ==
    /\ Thread \in [Turn -> Seq(Nat) \ {<<>>}]
    /\ Earlier \in [Turn -> SUBSET Turn]
    /\ \A l \in InitialLists :
          /\ l \in Seq([cid : Conversation,
                       baseline : [known : BOOLEAN, of : Seq(Nat)], at : {0}])
          /\ Len(l) <= MaxBindings
    /\ NoConversation \notin Conversation
    /\ NoTurn \notin Turn
    /\ StoreMayFail \in BOOLEAN

VARIABLES
    turn,            \* the locals of each call, a record of TurnState
    list,            \* the bindings of the session
    locked,          \* the turn that holds the lock of each conversation
    created          \* conversations agy has created so far

vars == <<turn, list, locked, created>>

-----------------------------------------------------------------------------
\* The verdicts the turn tells apart; "failed" is every other failure,
\* termination_unconfirmed among them.
Outcome == {"success", "timeout", "interrupted", "failed"}
Ending  == {"ok", "aborted", "error", "storeError"}

\* Awaiting the store, before and after the run of agy.
Lookup  == {"route", "routeKnown", "resolve", "known"}
Update  == {"persist", "bind", "rebind"}

Label   == {"idle", "enter", "ready", "lock", "running", "settled"}
               \cup Lookup \cup Update \cup Ending

MaybeConversation == Conversation \cup {NoConversation}

(***************************************************************************)
(* pc:        where the call is, or how it ended                           *)
(* aborted:   req.signal.aborted                                           *)
(* prompt:    what doStream made of the thread                             *)
(* resume:    resumeId, decided by the store lookup of runTurn             *)
(* attempts:  attempts started                                             *)
(* conv, resumed: the conversation of the attempt at hand, and whether it  *)
(*            was resumed                                                  *)
(* outcome, id: the verdict on it, and whether it reported its id          *)
(* captured:  capturedConversationId                                       *)
(***************************************************************************)
TurnState ==
    [pc : Label, aborted : BOOLEAN,
     prompt : {"none", "last", "first", "seeded"}, resume : MaybeConversation,
     attempts : 0..2, conv : MaybeConversation, resumed : BOOLEAN,
     outcome : Outcome \cup {"none"}, id : BOOLEAN, captured : MaybeConversation]

NewTurn ==
    [pc |-> "idle", aborted |-> FALSE, prompt |-> "none", resume |-> NoConversation,
     attempts |-> 0, conv |-> NoConversation, resumed |-> FALSE,
     outcome |-> "none", id |-> FALSE, captured |-> NoConversation]

Goto(t, label) == turn' = [turn EXCEPT ![t].pc = label]

\* Mutant of End: the lock is kept.
EndLocked(t, ending) ==
    /\ turn' = [turn EXCEPT ![t] = [NewTurn EXCEPT !.pc = ending]]
    /\ UNCHANGED locked

\* The turn settles: its locals are gone, and its finally clause releases the
\* lock it took.
End(t, ending) ==
    /\ turn' = [turn EXCEPT ![t] = [NewTurn EXCEPT !.pc = ending]]
    /\ locked' = [c \in Conversation |-> IF locked[c] = t THEN NoTurn ELSE locked[c]]

\* attempt() up to the spawn.  The log or the spawn may throw before there is
\* a child, which ends the turn with a TurnError.
Attempt(t, c, resumed) ==
    \/ /\ turn' = [turn EXCEPT ![t] = [@ EXCEPT !.pc = "running",
                                                !.attempts = turn[t].attempts + 1,
                                                !.conv = c, !.resumed = resumed,
                                                !.outcome = "none", !.id = FALSE]]
       /\ created' = created \cup {c}
       /\ locked' = IF turn[t].resume = c THEN [locked EXCEPT ![c] = t] ELSE locked
    \/ /\ End(t, "error")
       /\ UNCHANGED created

\* agy names a conversation of its own; which name it takes does not matter.
NewConversation == CHOOSE c \in Conversation : c \notin created

\* The conversation an aborted turn is remembered by.
AbortedConversation(t) ==
    CASE turn[t].id                          -> turn[t].conv
      [] ~turn[t].id /\ turn[t].captured # NoConversation -> turn[t].captured
      [] OTHER                               -> turn[t].resume

\* Mutants of canResume: no recovery budget; any timeout is resumed.
canResumeAgain(t) ==
    /\ turn[t].outcome = "timeout"
    /\ turn[t].id
    /\ turn[t].resume = NoConversation

canResumeTimeout(t) ==
    /\ turn[t].attempts = 1
    /\ turn[t].outcome = "timeout"
    /\ turn[t].id

\* D5, resume once: only a fresh conversation that timed out and named itself.
canResume(t) ==
    /\ turn[t].attempts = 1
    /\ turn[t].outcome = "timeout"
    /\ turn[t].id
    /\ turn[t].resume = NoConversation            \* ~recoveryBlockedByPolicy

-----------------------------------------------------------------------------
Ended(t) == turn[t].pc \in Ending

\* The host issues the call; its thread holds the answers of earlier calls.
Start(t) ==
    /\ turn[t].pc = "idle"
    /\ \A u \in Earlier[t] : Ended(u)
    /\ Goto(t, "route")
    /\ UNCHANGED <<list, locked, created>>

\* doStream: a bound thread sends its last user turn only.
Route(t) ==
    /\ turn[t].pc = "route"
    /\ IF Resolve(list, Thread[t]) # 0
       THEN turn' = [turn EXCEPT ![t].pc = "enter", ![t].prompt = "last"]
       ELSE Goto(t, "routeKnown")
    /\ UNCHANGED <<list, locked, created>>

\* doStream: system text on a first turn, the visible thread on a diverged one.
RouteKnown(t) ==
    /\ turn[t].pc = "routeKnown"
    /\ turn' = [turn EXCEPT ![t].pc = "enter",
                            ![t].prompt = IF list = <<>> THEN "first" ELSE "seeded"]
    /\ UNCHANGED <<list, locked, created>>

\* runTurn up to its first await: the abort check, then the quota gate and the
\* working directory, either of which may reject the turn.
Enter(t) ==
    /\ turn[t].pc = "enter"
    /\ \/ turn[t].aborted /\ End(t, "aborted")
       \/ ~turn[t].aborted /\ Goto(t, "resolve") /\ UNCHANGED locked
       \/ ~turn[t].aborted /\ End(t, "error")
    /\ UNCHANGED <<list, created>>

ResolveBinding(t) ==
    /\ turn[t].pc = "resolve"
    /\ LET i == Resolve(list, Thread[t])
       IN IF i # 0
          THEN turn' = [turn EXCEPT ![t].pc = "ready", ![t].resume = list[i].cid]
          ELSE Goto(t, "known")
    /\ UNCHANGED <<list, locked, created>>

\* store.get only decides whether the host is told of a divergence.
Known(t) ==
    /\ turn[t].pc = "known"
    /\ Goto(t, "ready")
    /\ UNCHANGED <<list, locked, created>>

\* Mutant of Ready: only the entry of runTurn looks at the abort.
ReadyUnchecked(t) ==
    /\ turn[t].pc = "ready"
    /\ IF turn[t].resume = NoConversation
       THEN Conversation \ created # {} /\ Attempt(t, NewConversation, FALSE)
       ELSE Goto(t, "lock") /\ UNCHANGED <<locked, created>>
    /\ UNCHANGED list

\* The abort check after the awaits, then the spawn of a fresh conversation or
\* the wait for the lock of a stored one.
Ready(t) ==
    /\ turn[t].pc = "ready"
    /\ \/ /\ turn[t].aborted
          /\ End(t, "aborted")
          /\ UNCHANGED created
       \/ /\ ~turn[t].aborted /\ turn[t].resume = NoConversation
          /\ Conversation \ created # {}
          /\ Attempt(t, NewConversation, FALSE)
       \/ /\ ~turn[t].aborted /\ turn[t].resume # NoConversation
          /\ Goto(t, "lock")
          /\ UNCHANGED <<locked, created>>
    /\ UNCHANGED list

\* Mutant of TakeLock: the attempt does not wait for the lock.
TakeLockHeld(t) ==
    /\ turn[t].pc = "lock"
    /\ Attempt(t, turn[t].resume, TRUE)
    /\ UNCHANGED list

\* acquireConversationLock returns, and attempt() runs up to the spawn.
TakeLock(t) ==
    /\ turn[t].pc = "lock"
    /\ locked[turn[t].resume] = NoTurn
    /\ Attempt(t, turn[t].resume, TRUE)
    /\ UNCHANGED list

\* ConversationBusyError, of a holder in this process or another one, or an error
\* of the lock directory: acquireConversationLock throws.
LockBusy(t) ==
    /\ turn[t].pc = "lock"
    /\ End(t, "error")
    /\ UNCHANGED <<list, created>>

-----------------------------------------------------------------------------
\* The run settles, with or without having reported its conversation.
Settle(t) ==
    /\ turn[t].pc = "running"
    /\ \E outcome \in Outcome, id \in BOOLEAN :
          turn' = [turn EXCEPT ![t] =
                     [@ EXCEPT !.pc = "settled", !.outcome = outcome, !.id = id,
                               !.captured = IF id THEN turn[t].conv
                                             ELSE turn[t].captured]]
    /\ UNCHANGED <<list, locked, created>>

\* persistAndThrowAbort up to its await.
PersistAndThrowAbort(t) ==
    IF AbortedConversation(t) # NoConversation
    THEN /\ turn' = [turn EXCEPT ![t].pc = "persist", ![t].aborted = TRUE]
         /\ UNCHANGED locked
    ELSE End(t, "aborted")

\* Mutant of Cancelled: only a call with a conversation to persist rejects.
CancelledNamed(t) ==
    /\ turn[t].pc = "settled"
    /\ turn[t].aborted
    /\ AbortedConversation(t) # NoConversation
    /\ Goto(t, "persist")
    /\ UNCHANGED <<list, locked, created>>

Cancelled(t) ==
    /\ turn[t].pc = "settled"
    /\ turn[t].aborted
    /\ PersistAndThrowAbort(t)
    /\ UNCHANGED <<list, created>>

\* onResume is the caller's code and may abort; the check follows it.
Recover(t) ==
    /\ turn[t].pc = "settled"
    /\ ~turn[t].aborted
    /\ canResume(t)
    /\ \/ PersistAndThrowAbort(t) /\ UNCHANGED created
       \/ Attempt(t, turn[t].conv, TRUE)
    /\ UNCHANGED list

\* Mutants of Conclude: whatever names a conversation is bound; an interrupted
\* attempt costs its binding.
ConcludeBinding(t) ==
    /\ turn[t].pc = "settled"
    /\ ~turn[t].aborted /\ ~canResume(t)
    /\ IF turn[t].id
       THEN Goto(t, "bind") /\ UNCHANGED locked
       ELSE End(t, "error")
    /\ UNCHANGED <<list, created>>

ConcludeDropping(t) ==
    /\ turn[t].pc = "settled"
    /\ ~turn[t].aborted /\ ~canResume(t)
    /\ \/ /\ turn[t].outcome = "success"
          /\ Goto(t, "bind") /\ UNCHANGED locked
       \/ /\ turn[t].outcome # "success" /\ turn[t].resumed
          /\ Goto(t, "rebind") /\ UNCHANGED locked
       \/ /\ turn[t].outcome # "success" /\ ~turn[t].resumed
          /\ End(t, "error")
    /\ UNCHANGED <<list, created>>

\* Every other verdict: bind on success, drop the binding of a failed resumed
\* attempt unless agy was interrupted, throw.
Conclude(t) ==
    /\ turn[t].pc = "settled"
    /\ ~turn[t].aborted /\ ~canResume(t)
    /\ LET success == turn[t].outcome = "success"
           drops   == turn[t].outcome \in {"timeout", "failed"} /\ turn[t].resumed
       IN \/ success /\ turn[t].id /\ Goto(t, "bind") /\ UNCHANGED locked
          \/ success /\ ~turn[t].id /\ End(t, "ok")
          \/ drops /\ Goto(t, "rebind") /\ UNCHANGED locked
          \/ ~success /\ ~drops /\ End(t, "error")
    /\ UNCHANGED <<list, created>>

-----------------------------------------------------------------------------
BindTo(t, c) == list' = Bind(list, c, Hashes(Thread[t]), 0)

\* What the update a call awaits writes.  Without a reported conversation rebind
\* drops the whole session.
Stores(t) ==
    \/ turn[t].pc = "persist" /\ BindTo(t, AbortedConversation(t))
    \/ turn[t].pc = "bind" /\ BindTo(t, turn[t].conv)
    \/ /\ turn[t].pc = "rebind"
       /\ list' = IF turn[t].id THEN Drop(list, turn[t].conv) ELSE <<>>

PersistAbort(t) ==
    /\ turn[t].pc = "persist"
    /\ Stores(t)
    /\ End(t, "aborted")
    /\ UNCHANGED created

BindSuccess(t) ==
    /\ turn[t].pc = "bind"
    /\ Stores(t)
    /\ End(t, "ok")
    /\ UNCHANGED created

Rebind(t) ==
    /\ turn[t].pc = "rebind"
    /\ Stores(t)
    /\ End(t, "error")
    /\ UNCHANGED created

\* An awaited store operation rejects and its error leaves the turn.  An update
\* may reject after the file was written: its lock file cannot be removed.
StoreRejects(t) ==
    /\ StoreMayFail
    /\ turn[t].pc \in Lookup \cup Update
    /\ UNCHANGED list \/ Stores(t)
    /\ End(t, "storeError")
    /\ UNCHANGED created

\* The caller cancels.  A running child is killed and settles some way.
Abort(t) ==
    /\ ~Ended(t)
    /\ ~turn[t].aborted
    /\ turn' = [turn EXCEPT ![t].aborted = TRUE]
    /\ UNCHANGED <<list, locked, created>>

-----------------------------------------------------------------------------
Init ==
    /\ turn = [t \in Turn |-> NewTurn]
    /\ list \in InitialLists
    /\ locked = [c \in Conversation |-> NoTurn]
    /\ created = {list[i].cid : i \in DOMAIN list}

\* The steps a turn takes once it is called.
Proceed(t) ==
    \/ Route(t) \/ RouteKnown(t) \/ Enter(t) \/ ResolveBinding(t) \/ Known(t)
    \/ Ready(t) \/ TakeLock(t) \/ LockBusy(t)
    \/ Settle(t) \/ Cancelled(t) \/ Recover(t) \/ Conclude(t)
    \/ PersistAbort(t) \/ BindSuccess(t) \/ Rebind(t) \/ StoreRejects(t)

Next == \E t \in Turn : Start(t) \/ Proceed(t) \/ Abort(t)

Spec == Init /\ [][Next]_vars

\* Store operations, the lock wait and a run of agy all end (OperationsReturn,
\* AcquireReturns and AlwaysSettles); nothing obliges a host to call or cancel.
FairSpec == Spec /\ \A t \in Turn : WF_vars(Proceed(t))

-----------------------------------------------------------------------------
Bound(l) == {e.cid : e \in Entries(l)}
Active(t) == turn[t].pc # "idle" /\ ~Ended(t)

\* The step in which a call ends.
Ends(t) == ~Ended(t) /\ Ended(t)'

TypeOK ==
    /\ turn \in [Turn -> TurnState]
    /\ Bound(list) \subseteq created
    /\ locked \in [Conversation -> Turn \cup {NoTurn}]
    /\ created \subseteq Conversation

\* timeout-recovery-prd.md 140 and turn.ts 442-446: one active request per agy
\* conversation, although a fresh conversation and its recovery take no lock.
OneRunPerConversation ==
    \A t, u \in Turn :
        /\ turn[t].pc = "running" /\ turn[u].pc = "running"
        /\ turn[t].conv = turn[u].conv
        => t = u

\* In every state: the records keep their types (no call starts a third
\* attempt), and no conversation is written by two runs.
TurnsSound == TypeOK /\ OneRunPerConversation

\* timeout-recovery-prd.md 57-69: at most one recovery, of a conversation this
\* call started, never once the caller has cancelled.
RecoveryIsEarned ==
    [][\A t \in Turn : turn'[t].attempts = 2 /\ turn[t].attempts = 1 =>
          /\ ~turn'[t].aborted
          /\ turn[t].outcome = "timeout" /\ turn[t].id
          /\ ~turn[t].resumed /\ turn'[t].conv = turn[t].conv]_vars

\* timeout-recovery-prd.md 72: no success hashes for a failure.  A baseline
\* enters the store only for a run that delivered or a call that was cancelled,
\* with the conversation of that call.  The call then ends as it should, or with
\* the error of a store that could not give its lock back after the write.
NoHashesForFailure ==
    [][Entries(list') \subseteq Entries(list) \/
       \E t \in Turn :
          /\ Ends(t) /\ turn'[t].pc \in {"ok", "aborted", "storeError"}
          /\ \A e \in Entries(list') \ Entries(list) :
                e.baseline = Hashes(Thread[t]) /\ e.cid = turn[t].conv
          /\ turn[t].outcome = "success" \/ turn[t].aborted]_vars

\* The call rejects as cancelled, or would have if the store had let it.
EndsCancelled(t) == turn[t].pc = "persist" \/ turn'[t].pc = "aborted"

\* turn.ts 537-538: a call that agy interrupted, or that was cancelled, never
\* costs the user a conversation; at most a cancelled one replaces the parent
\* its own thread continues.
ConversationSurvives ==
    [][\A t \in Turn :
          Ends(t) /\ (EndsCancelled(t) \/ turn[t].outcome = "interrupted") =>
              \A e \in Entries(list) :
                  \/ e.cid \in Bound(list')
                  \/ /\ turn[t].pc = "persist"
                     /\ hashesArePrefix(e.baseline.of, Thread[t])]_vars

\* The bindings of a session change only for a cause that the call itself gives:
\* none is made for a failure, none is dropped by a cancellation.
StoreForCause == NoHashesForFailure /\ ConversationSurvives

\* turn.ts 556-560: every exit path releases the lock; nobody holds a lock it
\* will not give back.
LockHeldWhileAtWork ==
    \A c \in Conversation : locked[c] # NoTurn =>
        Active(locked[c]) /\ turn[locked[c]].resume = c

\* Every call ends, however the calls contend for locks and store.
TurnsEnd == \A t \in Turn : Active(t) ~> Ended(t)

\* turn.ts 428-437, timeout-recovery-prd.md 70: a call that was cancelled opens no
\* conversation and makes no recovery, wherever the cancellation found it.  (It may
\* still continue a stored conversation: NoSpawnOnceCancelled, below.)
CancelledOpensNothing ==
    [][\A t \in Turn :
          turn'[t].attempts > turn[t].attempts /\ turn[t].aborted =>
              turn'[t].attempts = 1 /\ created' = created]_vars

-----------------------------------------------------------------------------
\* What comments and documents say of the turn and the code does not do.

\* CHANGELOG 181: rebind drops only the failed binding.
RebindSparesSiblings ==
    [][\A t \in Turn : turn[t].pc = "rebind" /\ Ends(t) =>
          Bound(list) \ Bound(list') \subseteq {turn[t].conv}]_vars

\* timeout-recovery-prd.md 70 and 80: a cancellation before a spawn prevents any
\* further spawn, and is checked at every spawn boundary.  The code checks before
\* it awaits the conversation lock (turn.ts 436) and not after (451).
NoSpawnOnceCancelled ==
    [][\A t \in Turn :
          turn'[t].attempts > turn[t].attempts => ~turn[t].aborted]_vars
=============================================================================
