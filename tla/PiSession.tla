------------------------------- MODULE PiSession -------------------------------
(***************************************************************************)
(* The turns of one Pi process: runTurn (packages/pi-adapter/src/turn.ts)  *)
(* over the in-memory registry of lifecycle.ts and the rows of             *)
(* session-store.ts, with /agy clear (commands.ts), the recycling of the   *)
(* registry, and other processes that write the same file.                 *)
(*                                                                         *)
(* Composition: a store operation is one step, as SessionFile promises of  *)
(* the same locking scheme, together with what its caller does next (the   *)
(* store's promise chain runs that before the next operation); the         *)
(* conversation lock is a Mutex with a bounded wait; a run of agy is a     *)
(* step that starts it and one that settles it with a verdict of Outcomes. *)
(***************************************************************************)
EXTENDS Integers, Sequences, SequencesExt

CONSTANTS
    Turn,            \* calls of runTurn, numbered in the order they are made
    Key,             \* session keys
    SessionKey,      \* the key /agy clear works on
    ThreadKey,       \* and its askThreadKey
    Conversation,    \* agy conversation ids
    Call,            \* what a turn may be called with
    InitialRows,     \* what the store may hold at first
    Shared,          \* the keys other processes use as well
    ForeignRows,     \* what they may bind them to
    NoEntry,         \* no row, no cached binding
    NoCall           \* the call of a turn that is not running

NoConversation == "no conversation"
NoTurn         == 0
Rejected       == -1                  \* in pending: a flight that failed

\* Hashes that are missing and an empty list of them are treated alike: either
\* is adopted by any thread.
NoHashes == <<>>

Row      == [cid : Conversation, hashes : Seq(Nat)]
MaybeRow == Row \cup {NoEntry}

\* A provider turn of the host; a call of AskAgy, which resumes its thread
\* whatever it is asked; an isolated call of AskAgy, with a store of its own
\* that keeps nothing.
Kind == {"provider", "thread", "isolated"}

ASSUME PiAssumption ==
    /\ Turn \subseteq Nat \ {NoTurn}
    /\ SessionKey \in Key /\ ThreadKey \in Key
    /\ Call \subseteq [kind : Kind, key : Key, thread : Seq(Nat)]
    /\ NoCall \notin Call
    /\ NoEntry \notin Row
    /\ NoConversation \notin Conversation
    /\ InitialRows \subseteq [Key -> MaybeRow]
    /\ Shared \subseteq Key
    /\ ForeignRows \subseteq Row

VARIABLES
    turn,            \* the locals of each call, a record of TurnState
    cache,           \* bindingCache
    pending,         \* pendingLookups: the turn that started the flight
    reg,             \* inFlightTurns
    row,             \* the rows of pi-sessions.json
    locked,          \* the turn that holds the lock of each conversation
    created,         \* conversations agy has created so far
    clearing,        \* /agy clear is between its two rebinds and its drops
    shadowed         \* history: the row changed under the cached binding

vars == <<turn, cache, pending, reg, row, locked, created, clearing, shadowed>>

registry == <<cache, pending, shadowed>>

-----------------------------------------------------------------------------
\* "failed" is every verdict that is neither a success nor a timeout; an
\* interrupted run is one of them.
Outcome == {"success", "timeout", "failed"}
Ending  == {"ok", "aborted", "error", "storeError"}
Update  == {"persist", "bind", "rebind"}
Label   == {"idle", "enter", "read", "decide", "lock", "running", "settled"}
               \cup Update \cup Ending

MaybeConversation == Conversation \cup {NoConversation}

(***************************************************************************)
(* flight:    the turn whose store read this turn awaits                   *)
(* recycled:  history: the registry was recycled during that read          *)
(* entry:     the binding the lookup returned                              *)
(* found:     history: the row that was then bound to its key; no entry if *)
(*            the cache answered and had missed a change                   *)
(* resume:    resumeAttemptId, what was decided from it                    *)
(* attempts:  attempts started                                             *)
(* conv, resumed, outcome, id: the attempt at hand, its verdict, and       *)
(*            whether agy reported its conversation                        *)
(***************************************************************************)
TurnState ==
    [pc : Label, call : Call \cup {NoCall}, aborted : BOOLEAN,
     flight : Turn \cup {NoTurn}, recycled : BOOLEAN,
     entry : MaybeRow, found : MaybeRow, resume : MaybeConversation,
     attempts : 0..2, conv : MaybeConversation, resumed : BOOLEAN,
     outcome : Outcome \cup {"none"}, id : BOOLEAN]

NewTurn ==
    [pc |-> "idle", call |-> NoCall, aborted |-> FALSE,
     flight |-> NoTurn, recycled |-> FALSE,
     entry |-> NoEntry, found |-> NoEntry, resume |-> NoConversation,
     attempts |-> 0, conv |-> NoConversation, resumed |-> FALSE,
     outcome |-> "none", id |-> FALSE]

KeyOf(t)    == turn[t].call.key
Isolated(t) == turn[t].call.kind = "isolated"
Ended(t)    == turn[t].pc \in Ending
Active(t)   == turn[t].pc # "idle" /\ ~Ended(t)

\* The baseline bound with a conversation: AskAgy binds none.
Baseline(t) ==
    IF turn[t].call.kind = "thread" THEN NoHashes ELSE turn[t].call.thread

hashesArePrefix(stored, incoming) == IsPrefix(stored, incoming)

\* resumeAttemptId is defined: an entry that is not diverged.
Resumes(t) ==
    /\ turn[t].entry # NoEntry
    /\ \/ turn[t].call.kind = "thread"
       \/ hashesArePrefix(turn[t].entry.hashes, turn[t].call.thread)

Goto(t, label) == turn' = [turn EXCEPT ![t].pc = label]

\* Mutant of End: the lock is kept.
EndLocked(t, ending) ==
    /\ turn' = [turn EXCEPT ![t] = [NewTurn EXCEPT !.pc = ending]]
    /\ reg' = [k \in Key |-> IF reg[k] = t THEN NoTurn ELSE reg[k]]
    /\ UNCHANGED locked

\* The turn settles.  Its finally clause releases the lock and ends its own
\* registration.
End(t, ending) ==
    /\ turn' = [turn EXCEPT ![t] = [NewTurn EXCEPT !.pc = ending]]
    /\ locked' = [c \in Conversation |-> IF locked[c] = t THEN NoTurn ELSE locked[c]]
    /\ reg' = [k \in Key |-> IF reg[k] = t THEN NoTurn ELSE reg[k]]

\* attempt() up to the spawn; opening the log may throw.
Attempt(t, c, resumed) ==
    \/ /\ turn' = [turn EXCEPT ![t] = [@ EXCEPT !.pc = "running",
                                                !.attempts = turn[t].attempts + 1,
                                                !.conv = c, !.resumed = resumed,
                                                !.outcome = "none", !.id = FALSE]]
       /\ created' = created \cup {c}
       /\ locked' = IF turn[t].resume = c THEN [locked EXCEPT ![c] = t] ELSE locked
       /\ UNCHANGED reg
    \/ /\ End(t, "error")
       /\ UNCHANGED created

\* agy names a conversation of its own; which name it takes does not matter.
NewConversation == CHOOSE c \in Conversation : c \notin created

-----------------------------------------------------------------------------
\* A call, by a caller that may have cancelled it already.  beginTurn replaces
\* the registration of an overlapped turn.
Start(t) ==
    /\ turn[t].pc = "idle"
    /\ \A u \in Turn : u < t => turn[u].pc # "idle"
    /\ \E c \in Call :
          \/ /\ turn' = [turn EXCEPT ![t].pc = "enter", ![t].call = c]
             /\ reg' = [reg EXCEPT ![c.key] = t]
          \/ /\ Goto(t, "aborted")
             /\ UNCHANGED reg
    /\ UNCHANGED <<registry, row, locked, created, clearing>>

\* An image that may not be sent or staged ends the turn before its lookup.
EnterFails(t) ==
    /\ turn[t].pc = "enter"
    /\ End(t, "error")
    /\ UNCHANGED <<registry, row, created, clearing>>

\* lookupBinding: a cached binding, or the flight of this key, or a flight of
\* its own.  A flight that rejected stays in its slot.
Lookup(t) ==
    /\ turn[t].pc = "enter"
    /\ LET k == KeyOf(t)
       IN \/ /\ cache[k] # NoEntry
             /\ turn' = [turn EXCEPT ![t].pc = "decide", ![t].entry = cache[k],
                                     ![t].found = IF shadowed[k] THEN NoEntry ELSE row[k]]
             /\ UNCHANGED <<pending, reg, locked>>
          \/ /\ cache[k] = NoEntry /\ pending[k] = NoTurn
             /\ turn' = [turn EXCEPT ![t].pc = "read", ![t].flight = t]
             /\ pending' = [pending EXCEPT ![k] = t]
             /\ UNCHANGED <<reg, locked>>
          \/ /\ cache[k] = NoEntry /\ pending[k] \in Turn
             /\ turn' = [turn EXCEPT ![t].pc = "read", ![t].flight = pending[k]]
             /\ UNCHANGED <<pending, reg, locked>>
          \/ /\ cache[k] = NoEntry /\ pending[k] = Rejected
             /\ End(t, "storeError")
             /\ UNCHANGED pending
    /\ UNCHANGED <<cache, shadowed, row, created, clearing>>

\* The turns that await the read of turn t.
Passengers(t) == {u \in Turn : turn[u].pc = "read" /\ turn[u].flight = t}

Landed(t, e) ==
    [u \in Turn |->
        IF u \in Passengers(t)
        THEN [turn[u] EXCEPT !.pc = "decide", !.entry = e, !.found = e,
                             !.flight = NoTurn, !.recycled = FALSE]
        ELSE turn[u]]

\* Mutants of Read: a late result is kept although the registry was recycled;
\* only the turn that started the flight hears of it.
ReadUnguarded(t) ==
    /\ turn[t].pc = "read" /\ turn[t].flight = t
    /\ LET k == KeyOf(t)
           e == IF Isolated(t) THEN NoEntry ELSE row[k]
       IN /\ turn' = Landed(t, e)
          /\ pending' = [pending EXCEPT ![k] = NoTurn]
          /\ IF e # NoEntry
             THEN /\ cache' = [cache EXCEPT ![k] = e]
                  /\ shadowed' = [shadowed EXCEPT ![k] = FALSE]
             ELSE UNCHANGED <<cache, shadowed>>
    /\ UNCHANGED <<reg, row, locked, created, clearing>>

ReadAlone(t) ==
    /\ turn[t].pc = "read" /\ turn[t].flight = t
    /\ LET k == KeyOf(t)
           e == IF Isolated(t) THEN NoEntry ELSE row[k]
       IN /\ turn' = [turn EXCEPT ![t].pc = "decide", ![t].entry = e, ![t].found = e,
                                  ![t].flight = NoTurn, ![t].recycled = FALSE]
          /\ pending' = [pending EXCEPT ![k] = IF @ = t THEN NoTurn ELSE @]
    /\ UNCHANGED <<cache, shadowed, reg, row, locked, created, clearing>>

\* The read ends: every passenger has its result, and the cache as well, unless
\* the slot was cleared in the meantime.
Read(t) ==
    /\ turn[t].pc = "read" /\ turn[t].flight = t
    /\ LET k == KeyOf(t)
           e == IF Isolated(t) THEN NoEntry ELSE row[k]
       IN /\ turn' = Landed(t, e)
          /\ pending' = [pending EXCEPT ![k] = IF @ = t THEN NoTurn ELSE @]
          /\ IF pending[k] = t /\ e # NoEntry
             THEN /\ cache' = [cache EXCEPT ![k] = e]
                  /\ shadowed' = [shadowed EXCEPT ![k] = FALSE]
             ELSE UNCHANGED <<cache, shadowed>>
    /\ UNCHANGED <<reg, row, locked, created, clearing>>

\* The read rejects (the store is busy): so does every passenger.
ReadFails(t) ==
    /\ turn[t].pc = "read" /\ turn[t].flight = t
    /\ ~Isolated(t)
    /\ turn' = [u \in Turn |-> IF u \in Passengers(t)
                               THEN [NewTurn EXCEPT !.pc = "storeError"]
                               ELSE turn[u]]
    /\ reg' = [k \in Key |-> IF reg[k] \in Passengers(t) THEN NoTurn ELSE reg[k]]
    /\ pending' = [pending EXCEPT ![KeyOf(t)] = IF @ = t THEN Rejected ELSE @]
    /\ UNCHANGED <<cache, shadowed, row, locked, created, clearing>>

\* The divergence decision, the scratch directory (which may throw), and the
\* first attempt of a fresh conversation or the wait for a stored one's lock.
Decide(t) ==
    /\ turn[t].pc = "decide"
    /\ \/ /\ Resumes(t)
          /\ turn' = [turn EXCEPT ![t].pc = "lock", ![t].entry = NoEntry,
                                  ![t].resume = turn[t].entry.cid]
          /\ UNCHANGED <<reg, locked, created>>
       \/ /\ Resumes(t)
          /\ End(t, "error")
          /\ UNCHANGED created
       \/ /\ ~Resumes(t)
          /\ Conversation \ created # {}
          /\ Attempt(t, NewConversation, FALSE)
    /\ UNCHANGED <<registry, row, clearing>>

\* Mutant of TakeLock: the attempt does not wait for the lock.
TakeLockHeld(t) ==
    /\ turn[t].pc = "lock"
    /\ Attempt(t, turn[t].resume, TRUE)
    /\ UNCHANGED <<registry, row, clearing>>

TakeLock(t) ==
    /\ turn[t].pc = "lock"
    /\ locked[turn[t].resume] = NoTurn
    /\ Attempt(t, turn[t].resume, TRUE)
    /\ UNCHANGED <<registry, row, clearing>>

\* ConversationBusyError: a turn of this process or of another one holds it.
LockBusy(t) ==
    /\ turn[t].pc = "lock"
    /\ End(t, "error")
    /\ UNCHANGED <<registry, row, created, clearing>>

-----------------------------------------------------------------------------
\* The run settles, with or without having reported its conversation.
Settle(t) ==
    /\ turn[t].pc = "running"
    /\ \E outcome \in Outcome, id \in BOOLEAN :
          turn' = [turn EXCEPT ![t] = [@ EXCEPT !.pc = "settled",
                                                !.outcome = outcome, !.id = id]]
    /\ UNCHANGED <<registry, reg, row, locked, created, clearing>>

\* persistAndThrowAbort up to its await; whatever the verdict was.
Cancelled(t) ==
    /\ turn[t].pc = "settled"
    /\ turn[t].aborted
    /\ \/ /\ turn[t].id
          /\ turn' = [turn EXCEPT ![t].pc = "persist", ![t].outcome = "none"]
          /\ UNCHANGED <<reg, locked>>
       \/ ~turn[t].id /\ End(t, "aborted")
    /\ UNCHANGED <<registry, row, created, clearing>>

canResume(t) ==
    /\ turn[t].outcome = "timeout"
    /\ ~turn[t].resumed
    /\ turn[t].id

\* Resume once.
Recover(t) ==
    /\ turn[t].pc = "settled"
    /\ ~turn[t].aborted
    /\ canResume(t)
    /\ Attempt(t, turn[t].conv, TRUE)
    /\ UNCHANGED <<registry, row, clearing>>

\* Mutant of Conclude: every failure costs the binding.
ConcludeDropping(t) ==
    /\ turn[t].pc = "settled"
    /\ ~turn[t].aborted /\ ~canResume(t)
    /\ LET success == turn[t].outcome = "success"
       IN \/ success /\ turn[t].id /\ Goto(t, "bind") /\ UNCHANGED <<reg, locked>>
          \/ success /\ ~turn[t].id /\ End(t, "ok")
          \/ ~success /\ Goto(t, "rebind") /\ UNCHANGED <<reg, locked>>
    /\ UNCHANGED <<registry, row, created, clearing>>

\* Every other verdict: bind on success, drop the binding of a failed resumed
\* attempt, throw.
Conclude(t) ==
    /\ turn[t].pc = "settled"
    /\ ~turn[t].aborted /\ ~canResume(t)
    /\ LET success == turn[t].outcome = "success"
           drops   == ~success /\ turn[t].resumed
       IN \/ success /\ turn[t].id /\ Goto(t, "bind") /\ UNCHANGED <<reg, locked>>
          \/ success /\ ~turn[t].id /\ End(t, "ok")
          \/ drops /\ Goto(t, "rebind") /\ UNCHANGED <<reg, locked>>
          \/ ~success /\ ~drops /\ End(t, "error")
    /\ UNCHANGED <<registry, row, created, clearing>>

-----------------------------------------------------------------------------
\* bind() or rebind() on the turn's store.
Put(t, e) == row' = IF Isolated(t) THEN row ELSE [row EXCEPT ![KeyOf(t)] = e]

\* cacheBinding or dropBinding.
Remember(t, e) ==
    /\ cache' = [cache EXCEPT ![KeyOf(t)] = e]
    /\ shadowed' = [shadowed EXCEPT ![KeyOf(t)] = Isolated(t)]

BindTo(t) ==
    LET e == [cid |-> turn[t].conv, hashes |-> Baseline(t)]
    IN Put(t, e) /\ Remember(t, e)

PersistAbort(t) ==
    /\ turn[t].pc = "persist"
    /\ BindTo(t)
    /\ End(t, "aborted")
    /\ UNCHANGED <<pending, created, clearing>>

BindSuccess(t) ==
    /\ turn[t].pc = "bind"
    /\ BindTo(t)
    /\ End(t, "ok")
    /\ UNCHANGED <<pending, created, clearing>>

\* Mutant of Rebind: the cached binding stays.
RebindCached(t) ==
    /\ turn[t].pc = "rebind"
    /\ Put(t, NoEntry)
    /\ End(t, "error")
    /\ UNCHANGED <<registry, created, clearing>>

Rebind(t) ==
    /\ turn[t].pc = "rebind"
    /\ Put(t, NoEntry) /\ Remember(t, NoEntry)
    /\ End(t, "error")
    /\ UNCHANGED <<pending, created, clearing>>

\* The row of a key changes and its cached binding, if any, does not.
Shadow(k, e) ==
    /\ row' = [row EXCEPT ![k] = e]
    /\ shadowed' = [shadowed EXCEPT ![k] = @ \/ (cache[k] # NoEntry /\ e # row[k])]

\* An update rejects, before the file was written or after (its lock file cannot
\* be removed), and its error leaves the turn.
StoreRejects(t) ==
    /\ turn[t].pc \in Update
    /\ ~Isolated(t)
    /\ \/ UNCHANGED <<row, shadowed>>
       \/ LET e == [cid |-> turn[t].conv, hashes |-> Baseline(t)]
          IN Shadow(KeyOf(t), IF turn[t].pc = "rebind" THEN NoEntry ELSE e)
    /\ End(t, "storeError")
    /\ UNCHANGED <<cache, pending, created, clearing>>

\* The caller cancels.  The child is killed and settles some way.  From the call
\* to the settlement of an attempt nothing in runTurn looks at the signal, so
\* that an earlier abort is this step at the start of the run (the runner kills
\* what it has just spawned); from the last settlement on nothing looks either.
Abort(t) ==
    /\ turn[t].pc = "running"
    /\ ~turn[t].aborted
    /\ turn' = [turn EXCEPT ![t].aborted = TRUE]
    /\ UNCHANGED <<registry, reg, row, locked, created, clearing>>

-----------------------------------------------------------------------------
\* A session starts or shuts down: recycle().
Recycle ==
    /\ turn' = [u \in Turn |-> IF turn[u].pc = "read"
                               THEN [turn[u] EXCEPT !.recycled = TRUE]
                               ELSE turn[u]]
    /\ cache' = [k \in Key |-> NoEntry]
    /\ shadowed' = [k \in Key |-> FALSE]
    /\ pending' = [k \in Key |-> NoTurn]
    /\ reg' = [k \in Key |-> NoTurn]
    /\ UNCHANGED <<row, locked, created, clearing>>

\* /agy clear: the session's row goes, then the thread's and both cached ones.
ClearSession ==
    /\ ~clearing
    /\ clearing' = TRUE
    /\ Shadow(SessionKey, NoEntry)
    /\ UNCHANGED <<turn, cache, pending, reg, locked, created>>

ClearThread ==
    /\ clearing
    /\ clearing' = FALSE
    /\ row' = [row EXCEPT ![ThreadKey] = NoEntry]
    /\ cache' = [cache EXCEPT ![SessionKey] = NoEntry, ![ThreadKey] = NoEntry]
    /\ shadowed' = [shadowed EXCEPT ![SessionKey] = FALSE, ![ThreadKey] = FALSE]
    /\ UNCHANGED <<turn, pending, reg, locked, created>>

\* The second rebind rejects, and the command with it.
ClearFails ==
    /\ clearing
    /\ clearing' = FALSE
    /\ UNCHANGED <<turn, registry, reg, row, locked, created>>

\* Another process binds or drops a key, or its row expires.
Elsewhere(k) ==
    /\ \E e \in ForeignRows \cup {NoEntry} : Shadow(k, e)
    /\ UNCHANGED <<turn, cache, pending, reg, locked, created, clearing>>

-----------------------------------------------------------------------------
Cids(r) == {r[k].cid : k \in {j \in Key : r[j] # NoEntry}}

Init ==
    /\ turn = [t \in Turn |-> NewTurn]
    /\ cache = [k \in Key |-> NoEntry]
    /\ pending = [k \in Key |-> NoTurn]
    /\ reg = [k \in Key |-> NoTurn]
    /\ row \in InitialRows
    /\ locked = [c \in Conversation |-> NoTurn]
    /\ created = Cids(row) \cup {e.cid : e \in ForeignRows}
    /\ clearing = FALSE
    /\ shadowed = [k \in Key |-> FALSE]

\* The steps a turn takes once it is called.
Proceed(t) ==
    \/ EnterFails(t) \/ Lookup(t) \/ Read(t) \/ ReadFails(t) \/ Decide(t)
    \/ TakeLock(t) \/ LockBusy(t) \/ Settle(t) \/ Cancelled(t) \/ Recover(t)
    \/ Conclude(t) \/ PersistAbort(t) \/ BindSuccess(t) \/ Rebind(t)
    \/ StoreRejects(t)

Environment ==
    \/ Recycle \/ ClearSession \/ ClearThread \/ ClearFails
    \/ \E k \in Shared : Elsewhere(k)

Next ==
    \/ \E t \in Turn : Start(t) \/ Proceed(t) \/ Abort(t)
    \/ Environment

Spec == Init /\ [][Next]_vars

\* Store operations, the lock wait and a run of agy all end; nobody is obliged
\* to call, cancel, clear or recycle.
FairSpec == Spec /\ \A t \in Turn : WF_vars(Proceed(t))

-----------------------------------------------------------------------------
TypeOK ==
    /\ turn \in [Turn -> TurnState]
    /\ cache \in [Key -> MaybeRow]
    /\ pending \in [Key -> Turn \cup {NoTurn, Rejected}]
    /\ reg \in [Key -> Turn \cup {NoTurn}]
    /\ row \in [Key -> MaybeRow]
    /\ locked \in [Conversation -> Turn \cup {NoTurn}]
    /\ Cids(row) \cup Cids(cache) \subseteq created
    /\ clearing \in BOOLEAN
    /\ shadowed \in [Key -> BOOLEAN]

\* timeout-recovery-prd.md 140: one active request per agy conversation, of
\* whichever key and kind.
OneRunPerConversation ==
    \A t, u \in Turn :
        /\ turn[t].pc = "running" /\ turn[u].pc = "running"
        /\ turn[t].conv = turn[u].conv
        => t = u

\* turn.ts 674-680: every exit path releases the lock and the registration.
NothingLeaks ==
    /\ \A c \in Conversation : locked[c] # NoTurn =>
          Active(locked[c]) /\ turn[locked[c]].resume = c
    /\ \A k \in Key : reg[k] # NoTurn => Active(reg[k]) /\ KeyOf(reg[k]) = k

\* turn.ts 207-212, the registry keeps the cache coherent: a cached binding is
\* the row, unless that row changed for a reason the process is not told of (or
\* half of /agy clear or a rejected write changed it) since it was cached.
CacheCoherent ==
    \A k \in Key : cache[k] # NoEntry /\ ~shadowed[k] => cache[k] = row[k]

\* lifecycle.ts 91-92: a late result never resurrects recycled state, nor ends
\* the flight that took its slot.
LateResultStaysOut ==
    [][\A t \in Turn :
          /\ turn[t].pc = "read" /\ turn[t].flight = t /\ turn[t].recycled
          /\ turn'[t].pc = "decide"
          => cache' = cache /\ pending' = pending]_vars

\* turn.ts 19-24: what a call may do to a binding.  It binds a conversation only
\* for a delivered answer or a cancelled run, and only its own to its own key.  It
\* takes a binding away only after a resumed attempt of its own has failed: the
\* binding is to the conversation of that attempt, or the attempt was a recovery,
\* or the row is no longer the one its lookup found (or the cache that answered
\* had missed a change).  The last two cost a conversation the call never resumed,
\* which timeout-recovery-prd.md 72 and 141 speak against.
BindingsChangeForCause ==
    [][\A t \in Turn : ~Ended(t) /\ Ended(t)' =>
          \A k \in Key : row'[k] # row[k] =>
             /\ KeyOf(t) = k
             /\ IF row'[k] = NoEntry
                THEN /\ turn[t].resumed /\ turn[t].outcome # "success"
                     /\ \/ row[k].cid = turn[t].conv
                        \/ turn[t].attempts = 2
                        \/ row[k] # turn[t].found
                ELSE /\ turn[t].outcome = "success" \/ turn[t].aborted
                     /\ row'[k] = [cid |-> turn[t].conv, hashes |-> Baseline(t)]]_vars

\* Every call ends: a shared lookup wakes all who joined it, also after a
\* recycle, and no lock or update waits for ever.
TurnsEnd == \A t \in Turn : Active(t) ~> Ended(t)

-----------------------------------------------------------------------------
\* What comments say of the registry and the code does not do.

\* lifecycle.ts 8-9: concurrent lookups of a key share one read; so a lookup
\* fails with the read of another turn only while that read is under way.
SharesOnlyConcurrentReads ==
    [][\A t \in Turn : turn[t].pc = "enter" /\ turn'[t].pc = "storeError" =>
          \E u \in Turn : turn[u].pc = "read" /\ KeyOf(u) = KeyOf(t)]_vars

\* ask-tool.ts 21-23: an isolated call is a one-shot, it never resumes.
IsolatedIsFresh ==
    \A t \in Turn : turn[t].pc = "running" /\ turn[t].attempts = 1 =>
        ~(Isolated(t) /\ turn[t].resumed)
=============================================================================
