-------------------------- MODULE OpencodeTurn_proof --------------------------
(***************************************************************************)
(* Proofs about OpencodeTurn for any set of calls, threads, conversations  *)
(* and stored lists: a conversation is written by one run at a time and    *)
(* its lock belongs to calls at work, a second attempt is a recovery the   *)
(* call has earned, and a binding changes only for a cause.                *)
(***************************************************************************)
EXTENDS OpencodeTurn, Bindings_proof

\* Before its first attempt a call has started none.
BeforeAttempt == {"idle", "enter", "ready", "lock"} \cup Lookup

\* An attempt has been started and the call has not ended.
AtWork == {"running", "settled"} \cup Update

StoredEntry == [cid : Conversation, baseline : [known : BOOLEAN, of : Seq(Nat)], at : {0}]

\* The conversations a call knows of.
Names(r) == {r.resume, r.conv, r.captured}

\* What the record r of a call tells on its own.  A call at work has one
\* conversation, and it updates the store for the reason its label names.
Sound(r) ==
    /\ r.pc \in BeforeAttempt =>
          r.attempts = 0 /\ r.conv = NoConversation /\ r.captured = NoConversation
    /\ r.pc = "lock" => r.resume # NoConversation
    /\ r.pc \in {"running", "settled"} => r.attempts \in {1, 2}
    /\ r.pc \in {"running", "settled"} /\ r.attempts = 1 =>
          (r.resumed <=> r.resume # NoConversation)
    /\ r.pc \in AtWork =>
          /\ r.conv \in Conversation
          /\ r.resume \in {NoConversation, r.conv}
          /\ r.captured \in {NoConversation, r.conv}
    /\ r.pc = "bind" => r.outcome = "success"
    /\ r.pc = "rebind" => r.outcome \in {"timeout", "failed"}
    /\ r.pc = "persist" =>
          /\ r.aborted
          /\ r.id \/ r.captured # NoConversation \/ r.resume # NoConversation

Shape ==
    /\ turn \in [Turn -> TurnState]
    /\ locked \in [Conversation -> Turn \cup {NoTurn}]
    /\ list \in Seq(StoredEntry) /\ Len(list) <= MaxBindings
    /\ created \subseteq Conversation

SoundInv == \A t \in Turn : Sound(turn[t])

\* Every conversation that anyone names exists.
KnownInv ==
    /\ Bound(list) \subseteq created
    /\ \A t \in Turn : Names(turn[t]) \subseteq created \cup {NoConversation}

\* A lock is held by a call at work on the conversation it resumes, and a call
\* that resumes one holds its lock.
LockInv ==
    \A c \in Conversation : locked[c] # NoTurn =>
        /\ turn[locked[c]].pc \in AtWork
        /\ turn[locked[c]].resume = c

OwnInv ==
    \A t \in Turn : turn[t].pc \in AtWork /\ turn[t].resume # NoConversation =>
        locked[turn[t].resume] = t

\* The conversation a call has started itself is known to nobody else until the
\* call has ended, which is why it needs no lock.
Private(t) ==
    /\ turn[t].conv \notin Bound(list)
    /\ \A u \in Turn \ {t} : turn[t].conv \notin Names(turn[u])

PrivateInv ==
    \A t \in Turn : turn[t].pc \in AtWork /\ turn[t].resume = NoConversation => Private(t)

IInv == Shape /\ SoundInv /\ KnownInv /\ LockInv /\ OwnInv /\ PrivateInv

\* A step of call t touches the record of no other call.
OthersAlone(t) == \A u \in Turn \ {t} : turn'[u] = turn[u]

\* Replacing the record of one call by another record.
LEMMA OneRecord ==
    ASSUME turn \in [Turn -> TurnState], NEW t \in Turn,
           NEW r \in TurnState, turn' = [turn EXCEPT ![t] = r]
    PROVE  turn' \in [Turn -> TurnState] /\ turn'[t] = r /\ OthersAlone(t)
BY DEF OthersAlone

-----------------------------------------------------------------------------
\* A step that starts no work keeps the invariant if the new record fits the
\* old one and names only what the call or the store has named before.
LEMMA RecordKeeps ==
    ASSUME IInv, NEW t \in Turn, NEW r \in TurnState,
           turn' = [turn EXCEPT ![t] = r], UNCHANGED <<list, locked, created>>,
           Sound(r),
           Names(r) \subseteq Names(turn[t]) \cup Bound(list) \cup {NoConversation},
           r.pc \in AtWork <=> turn[t].pc \in AtWork,
           r.pc \in AtWork => r.resume = turn[t].resume /\ r.conv = turn[t].conv
    PROVE  IInv'
<1> USE DEF IInv
<1>1. turn' \in [Turn -> TurnState] /\ turn'[t] = r /\ OthersAlone(t)
  BY OneRecord DEF Shape
<1>2. list' = list /\ locked' = locked /\ created' = created /\ Bound(list)' = Bound(list)
  BY DEF Bound, Entries
<1>3. Shape'
  BY <1>1, <1>2 DEF Shape
<1>4. SoundInv'
  BY <1>1 DEF SoundInv, OthersAlone
<1>5. KnownInv'
  BY <1>1, <1>2 DEF KnownInv, OthersAlone
<1>6. LockInv' /\ OwnInv'
  BY <1>1, <1>2 DEF LockInv, OwnInv, OthersAlone, Shape
<1>7. PrivateInv'
  <2> SUFFICES ASSUME NEW u \in Turn, turn'[u].pc \in AtWork,
                      turn'[u].resume = NoConversation
               PROVE  Private(u)'
    BY DEF PrivateInv
  <2>1. turn[u].pc \in AtWork /\ turn[u].resume = NoConversation
        /\ turn'[u].conv = turn[u].conv
    BY <1>1 DEF OthersAlone
  <2>2. Private(u)
    BY <2>1 DEF PrivateInv
  <2>3. turn[u].conv \in Conversation /\ turn[u].conv # NoConversation
    BY <2>1, TurnAssumption DEF SoundInv, Sound
  <2>4. ASSUME NEW v \in Turn \ {u} PROVE turn[u].conv \notin Names(turn'[v])
    <3>1. CASE v = t
      BY <1>1, <2>2, <2>3, <3>1 DEF Private
    <3>2. CASE v # t
      BY <1>1, <2>2, <3>2 DEF Private, OthersAlone
    <3>3. QED
      BY <3>1, <3>2
  <2>5. QED
    BY <1>2, <2>1, <2>2, <2>4 DEF Private
<1>8. QED
  BY <1>3, <1>4, <1>5, <1>6, <1>7

\* In particular a step to another label.
LEMMA MoveKeeps ==
    ASSUME IInv, NEW t \in Turn, NEW label \in Label, Goto(t, label),
           UNCHANGED <<list, locked, created>>,
           label \in AtWork <=> turn[t].pc \in AtWork,
           label \in BeforeAttempt => turn[t].pc \in BeforeAttempt,
           label = "lock" => turn[t].resume # NoConversation,
           label \notin {"running", "settled", "persist"},
           label = "bind" => turn[t].outcome = "success",
           label = "rebind" => turn[t].outcome \in {"timeout", "failed"}
    PROVE  IInv'
<1> DEFINE r == [turn[t] EXCEPT !.pc = label]
<1>1. turn[t] \in TurnState /\ Sound(turn[t])
  BY DEF IInv, Shape, SoundInv
<1>2. /\ r \in TurnState
      /\ r.pc = label /\ r.resume = turn[t].resume /\ r.conv = turn[t].conv
      /\ r.captured = turn[t].captured /\ r.attempts = turn[t].attempts
      /\ r.outcome = turn[t].outcome
  BY <1>1 DEF TurnState
<1>3. turn' = [turn EXCEPT ![t] = r]
  BY DEF Goto
<1> HIDE DEF r
<1>4. Sound(r)
  BY <1>1, <1>2 DEF Sound
<1>5. Names(r) = Names(turn[t])
  BY <1>2 DEF Names
<1>6. QED
  BY <1>2, <1>3, <1>4, <1>5, RecordKeeps

\* The end of a call.
LEMMA EndResets ==
    ASSUME turn \in [Turn -> TurnState], NEW t \in Turn, NEW ending \in Ending,
           End(t, ending)
    PROVE  /\ turn' \in [Turn -> TurnState] /\ OthersAlone(t)
           /\ turn'[t].pc = ending /\ turn'[t].attempts = 0
           /\ Names(turn'[t]) = {NoConversation}
<1> DEFINE r == [NewTurn EXCEPT !.pc = ending]
<1>1. r \in TurnState /\ r.pc = ending /\ r.attempts = 0 /\ Names(r) = {NoConversation}
  <2>1. /\ r.pc = ending /\ r.attempts = 0 /\ r.resume = NoConversation
        /\ r.conv = NoConversation /\ r.captured = NoConversation
    BY DEF NewTurn
  <2>2. ending \in Label /\ NoConversation \in MaybeConversation /\ 0 \in 0..2
    BY DEF Label, MaybeConversation
  <2>3. r \in TurnState
    BY <2>2 DEF NewTurn, TurnState
  <2>4. QED
    BY <2>1, <2>3 DEF Names
<1>2. turn' = [turn EXCEPT ![t] = r]
  BY DEF End
<1> HIDE DEF r
<1>3. QED
  BY <1>1, <1>2, OneRecord

\* A call that ends may leave its own conversation in the list; its locks are
\* given back.
LEMMA EndKeeps ==
    ASSUME IInv, NEW t \in Turn, NEW ending \in Ending, End(t, ending),
           created' = created,
           list' \in Seq(StoredEntry), Len(list') <= MaxBindings,
           Bound(list)' \subseteq Bound(list) \cup {turn[t].conv}
    PROVE  IInv'
<1> USE TurnAssumption DEF IInv, Label, AtWork, Update, Ending, BeforeAttempt, Lookup
<1>1. /\ turn' \in [Turn -> TurnState] /\ OthersAlone(t)
      /\ turn'[t].pc = ending /\ Names(turn'[t]) = {NoConversation}
  BY EndResets DEF Shape
<1>2. locked' = [c \in Conversation |-> IF locked[c] = t THEN NoTurn ELSE locked[c]]
  BY DEF End
<1>3. Shape'
  BY <1>1, <1>2 DEF Shape
<1>4. SoundInv'
  <2>1. Sound(turn'[t])
    <3> DEFINE r == turn'[t]
    <3>1. r.pc = ending
      BY <1>1
    <3> HIDE DEF r
    <3>2. Sound(r)
      BY <3>1 DEF Sound
    <3>3. QED
      BY <3>2 DEF r
  <2>2. QED
    BY <1>1, <2>1 DEF SoundInv, OthersAlone
<1>5. KnownInv'
  <2>1. NoConversation \notin Bound(list)'
    <3>1. \A i \in DOMAIN list' : list'[i].cid \in Conversation
      <4> DEFINE l == list'
      <4>1. l \in Seq(StoredEntry)
        OBVIOUS
      <4> HIDE DEF l
      <4>2. \A i \in DOMAIN l : l[i] \in StoredEntry
        BY <4>1
      <4>3. \A i \in DOMAIN l : l[i].cid \in Conversation
        BY <4>2 DEF StoredEntry
      <4>4. QED
        BY <4>3 DEF l
    <3>2. QED
      BY <3>1 DEF Bound, Entries
  <2>2. Bound(list)' \subseteq created
    BY <2>1 DEF KnownInv, Names
  <2>3. \A u \in Turn : Names(turn'[u]) \subseteq created \cup {NoConversation}
    BY <1>1 DEF KnownInv, OthersAlone
  <2>4. QED
    BY <2>2, <2>3 DEF KnownInv
<1>6. LockInv'
  BY <1>1, <1>2 DEF LockInv, OthersAlone, Shape
<1>7. OwnInv'
  <2> SUFFICES ASSUME NEW u \in Turn, turn'[u].pc \in AtWork,
                      turn'[u].resume # NoConversation
               PROVE  locked'[turn'[u].resume] = u
    BY DEF OwnInv
  <2>1. u # t /\ turn'[u] = turn[u]
    BY <1>1 DEF OthersAlone
  <2>2. locked[turn[u].resume] = u
    BY <2>1 DEF OwnInv
  <2>3. turn[u].resume \in Conversation
    BY <2>1 DEF Shape, TurnState, MaybeConversation
  <2>4. QED
    BY <1>2, <2>1, <2>2, <2>3
<1>8. PrivateInv'
  <2> SUFFICES ASSUME NEW u \in Turn, turn'[u].pc \in AtWork,
                      turn'[u].resume = NoConversation
               PROVE  Private(u)'
    BY DEF PrivateInv
  <2>1. u # t /\ turn'[u] = turn[u] /\ Private(u)
    BY <1>1 DEF OthersAlone, PrivateInv
  <2>2. turn[u].conv \in Conversation /\ turn[u].conv # NoConversation
    BY <2>1 DEF SoundInv, Sound
  <2>3. turn[u].conv # turn[t].conv
    BY <2>1 DEF Private, Names
  <2>4. turn[u].conv \notin Bound(list)'
    BY <2>1, <2>3 DEF Private
  <2>5. \A v \in Turn \ {u} : turn[u].conv \notin Names(turn'[v])
    BY <1>1, <2>1, <2>2 DEF Private, OthersAlone
  <2>6. QED
    BY <2>1, <2>4, <2>5 DEF Private
<1>9. QED
  BY <1>3, <1>4, <1>5, <1>6, <1>7, <1>8

\* In particular if the list stays.
LEMMA EndLeavingList ==
    ASSUME IInv, NEW t \in Turn, NEW ending \in Ending, End(t, ending),
           UNCHANGED <<list, created>>
    PROVE  IInv'
<1>1. list' = list /\ created' = created /\ Bound(list)' = Bound(list)
  BY DEF Bound, Entries
<1>2. list \in Seq(StoredEntry) /\ Len(list) <= MaxBindings
  BY DEF IInv, Shape
<1>3. QED
  BY <1>1, <1>2, EndKeeps

-----------------------------------------------------------------------------
\* An attempt that spawns.
LEMMA AttemptRuns ==
    ASSUME turn \in [Turn -> TurnState], NEW t \in Turn, turn[t].attempts \in {0, 1},
           NEW c \in Conversation, NEW resumed \in BOOLEAN, Attempt(t, c, resumed),
           ~End(t, "error")
    PROVE  /\ turn' \in [Turn -> TurnState] /\ OthersAlone(t)
           /\ turn'[t].pc = "running" /\ turn'[t].resume = turn[t].resume
           /\ turn'[t].attempts = turn[t].attempts + 1
           /\ turn'[t].resumed = resumed /\ turn'[t].captured = turn[t].captured
           /\ turn'[t].aborted = turn[t].aborted /\ turn'[t].conv = c
           /\ locked' = IF turn[t].resume = c THEN [locked EXCEPT ![c] = t] ELSE locked
           /\ created' = created \cup {c}
<1> DEFINE n == turn[t].attempts + 1
           r == [turn[t] EXCEPT !.pc = "running", !.attempts = n,
                                !.conv = c, !.resumed = resumed,
                                !.outcome = "none", !.id = FALSE]
<1>1. turn[t] \in TurnState /\ n \in 0..2 /\ c \in MaybeConversation
  BY DEF MaybeConversation
<1> HIDE DEF n
<1>2. r \in TurnState
  BY <1>1 DEF TurnState, Label
<1>3. /\ r.pc = "running" /\ r.resume = turn[t].resume
      /\ r.attempts = n /\ r.resumed = resumed /\ r.captured = turn[t].captured
      /\ r.aborted = turn[t].aborted /\ r.conv = c
  BY <1>1 DEF TurnState
<1>4. turn' = [turn EXCEPT ![t] = r]
  BY DEF Attempt, n
<1> HIDE DEF r
<1>5. /\ locked' = IF turn[t].resume = c THEN [locked EXCEPT ![c] = t] ELSE locked
      /\ created' = created \cup {c}
  BY DEF Attempt
<1>6. QED
  BY <1>2, <1>3, <1>4, <1>5, OneRecord DEF n

\* An attempt keeps the invariant if it is the first one on a conversation of
\* agy's making, the first one on a stored conversation that nobody has locked,
\* or a recovery of the call's own conversation.
LEMMA AttemptKeeps ==
    ASSUME IInv, NEW t \in Turn, NEW c \in Conversation, NEW resumed \in BOOLEAN,
           Attempt(t, c, resumed), UNCHANGED list,
           \/ turn[t].pc = "ready" /\ turn[t].resume = NoConversation
              /\ c \notin created /\ ~resumed
           \/ turn[t].pc = "lock" /\ turn[t].resume = c /\ locked[c] = NoTurn /\ resumed
           \/ turn[t].pc = "settled" /\ turn[t].resume = NoConversation
              /\ turn[t].conv = c /\ turn[t].attempts = 1
    PROVE  IInv'
<1> USE TurnAssumption DEF IInv, AtWork, Update, BeforeAttempt, Lookup
<1>1. CASE End(t, "error")
  <2>1. created' = created
    <3>1. CASE UNCHANGED created
      BY <3>1
    <3>2. CASE ~UNCHANGED created
      <4>1. turn' = [turn EXCEPT ![t] = [turn[t] EXCEPT !.pc = "running",
                                                !.attempts = turn[t].attempts + 1,
                                                !.conv = c, !.resumed = resumed,
                                                !.outcome = "none", !.id = FALSE]]
        BY <3>2 DEF Attempt
      <4>2. turn'[t].pc = "running"
        BY <4>1 DEF Shape, TurnState
      <4>3. turn'[t].pc = "error"
        BY <1>1, EndResets DEF Shape, Ending
      <4>4. QED
        BY <4>2, <4>3
    <3>3. QED
      BY <3>1, <3>2
  <2>2. QED
    BY <1>1, <2>1, EndLeavingList DEF Ending
<1>2. CASE ~End(t, "error")
  <2>1. Sound(turn[t]) /\ turn[t].attempts \in {0, 1} /\ c # NoConversation
    BY DEF SoundInv, Sound
  <2>2. /\ turn' \in [Turn -> TurnState] /\ OthersAlone(t)
        /\ turn'[t].pc = "running" /\ turn'[t].resume = turn[t].resume
        /\ turn'[t].attempts = turn[t].attempts + 1
        /\ turn'[t].resumed = resumed /\ turn'[t].captured = turn[t].captured
        /\ turn'[t].conv = c
        /\ locked' = IF turn[t].resume = c THEN [locked EXCEPT ![c] = t] ELSE locked
        /\ created' = created \cup {c}
    BY <1>2, <2>1, AttemptRuns DEF Shape
  <2>3. Bound(list)' = Bound(list) /\ list' = list
    BY DEF Bound, Entries
  <2>4. Shape'
    BY <2>2, <2>3 DEF Shape
  <2>5. Sound(turn'[t])
    <3> DEFINE r == turn'[t]
    <3>1. r.pc = "running" /\ r.conv = c /\ r.resume \in {NoConversation, c}
      BY <2>2
    <3>2. r.captured \in {NoConversation, c}
      BY <2>1, <2>2 DEF Sound
    <3>3. r.attempts \in {1, 2}
      BY <2>1, <2>2
    <3>4. r.attempts = 1 => turn[t].pc \in {"ready", "lock"}
      BY <2>1, <2>2
    <3>5. r.attempts = 1 => (r.resumed <=> r.resume # NoConversation)
      BY <2>1, <2>2, <3>4, Zenon
    <3> HIDE DEF r
    <3>6. Sound(r)
      BY <3>1, <3>2, <3>3, <3>5 DEF Sound
    <3>7. QED
      BY <3>6 DEF r
  <2>6. SoundInv'
    BY <2>2, <2>5 DEF SoundInv, OthersAlone
  <2>7. /\ Names(turn'[t]) \subseteq Names(turn[t]) \cup {c}
        /\ \A u \in Turn \ {t} : turn'[u] = turn[u]
    BY <2>2 DEF Names, OthersAlone
  <2>8. KnownInv'
    BY <2>2, <2>3, <2>7 DEF KnownInv
  <2>9. LockInv'
    <3> SUFFICES ASSUME NEW d \in Conversation, locked'[d] # NoTurn
                 PROVE  turn'[locked'[d]].pc \in AtWork /\ turn'[locked'[d]].resume = d
      BY DEF LockInv
    <3>1. CASE locked'[d] = t /\ d = c /\ turn[t].resume = c
      BY <2>2, <3>1
    <3>2. CASE locked'[d] = locked[d]
      <4>1. turn[locked[d]].pc \in AtWork /\ turn[locked[d]].resume = d /\ locked[d] \in Turn
        BY <3>2 DEF LockInv, Shape
      <4>2. CASE locked[d] = t
        BY <2>2, <3>2, <4>1, <4>2
      <4>3. CASE locked[d] # t
        BY <2>7, <3>2, <4>1, <4>3
      <4>4. QED
        BY <4>2, <4>3
    <3>3. QED
      BY <2>2, <3>1, <3>2 DEF Shape
  <2>10. OwnInv'
    <3> SUFFICES ASSUME NEW u \in Turn, turn'[u].pc \in AtWork,
                        turn'[u].resume # NoConversation
                 PROVE  locked'[turn'[u].resume] = u
      BY DEF OwnInv
    <3>1. CASE u = t
      BY <2>1, <2>2, <3>1 DEF Shape
    <3>2. CASE u # t
      <4>1. turn'[u] = turn[u] /\ locked[turn[u].resume] = u
        BY <2>7, <3>2 DEF OwnInv
      <4>2. turn[u].resume \in Conversation
        BY <4>1 DEF Shape, TurnState, MaybeConversation
      <4>3. turn[t].resume = c => turn[u].resume # c
        BY <4>1
      <4>4. QED
        BY <2>2, <4>1, <4>2, <4>3 DEF Shape
    <3>3. QED
      BY <3>1, <3>2
  <2>11. PrivateInv'
    <3> SUFFICES ASSUME NEW u \in Turn, turn'[u].pc \in AtWork,
                        turn'[u].resume = NoConversation
                 PROVE  Private(u)'
      BY DEF PrivateInv
    <3>1. CASE u = t /\ c \notin created
      <4>1. c \notin Bound(list) /\ \A v \in Turn : c \notin Names(turn[v])
        BY <2>1, <3>1 DEF KnownInv
      <4>2. QED
        BY <2>2, <2>3, <2>7, <3>1, <4>1 DEF Private
    <3>2. CASE u = t /\ c \in created
      <4>1. turn[t].pc = "settled" /\ turn[t].conv = c /\ turn[t].resume = NoConversation
        BY <2>1, <2>2, <3>2
      <4>2. Private(t)
        BY <4>1 DEF PrivateInv
      <4>3. QED
        BY <2>2, <2>3, <2>7, <3>2, <4>1, <4>2 DEF Private
    <3>3. CASE u # t
      <4>1. turn'[u] = turn[u] /\ Private(u)
        BY <2>7, <3>3 DEF PrivateInv
      <4>2. turn[u].conv \in created /\ turn[u].conv # NoConversation
        <5>1. turn[u].conv \in Conversation
          BY <4>1 DEF SoundInv, Sound
        <5>2. QED
          BY <5>1 DEF KnownInv, Names
      <4>3. turn[u].conv # c
        <5>1. turn[u].conv \notin Names(turn[t])
          BY <3>3, <4>1 DEF Private
        <5>2. QED
          BY <4>2, <5>1 DEF Names
      <4>4. \A v \in Turn \ {u} : turn[u].conv \notin Names(turn'[v])
        BY <2>7, <4>1, <4>3 DEF Private
      <4>5. QED
        BY <2>3, <4>1, <4>4 DEF Private
    <3>4. QED
      BY <3>1, <3>2, <3>3
  <2>12. QED
    BY <2>4, <2>6, <2>8, <2>9, <2>10, <2>11
<1>3. QED
  BY <1>1, <1>2

-----------------------------------------------------------------------------
\* An aborted call is remembered by its own conversation.
LEMMA AbortedIsOwn ==
    ASSUME NEW t \in Turn, Sound(turn[t]), turn[t].pc \in AtWork
    PROVE  /\ AbortedConversation(t) \in {NoConversation, turn[t].conv}
           /\ AbortedConversation(t) # NoConversation <=>
                 turn[t].id \/ turn[t].captured # NoConversation
                            \/ turn[t].resume # NoConversation
<1>1. /\ turn[t].conv # NoConversation
      /\ turn[t].resume \in {NoConversation, turn[t].conv}
      /\ turn[t].captured \in {NoConversation, turn[t].conv}
  BY TurnAssumption DEF Sound
<1>2. CASE turn[t].id
  BY <1>1, <1>2 DEF AbortedConversation
<1>3. CASE ~turn[t].id /\ turn[t].captured # NoConversation
  BY <1>1, <1>3 DEF AbortedConversation
<1>4. CASE ~turn[t].id /\ turn[t].captured = NoConversation
  BY <1>1, <1>4 DEF AbortedConversation
<1>5. QED
  BY <1>2, <1>3, <1>4

\* A cancelled call that has settled goes on to record its conversation, or ends.
LEMMA PersistKeeps ==
    ASSUME IInv, NEW t \in Turn, turn[t].pc = "settled",
           PersistAndThrowAbort(t), UNCHANGED <<list, created>>
    PROVE  IInv'
<1> USE DEF Label, Ending, Update, AtWork
<1>1. turn[t] \in TurnState /\ Sound(turn[t])
  BY DEF IInv, Shape, SoundInv
<1>2. CASE AbortedConversation(t) = NoConversation
  BY <1>2, EndLeavingList DEF PersistAndThrowAbort
<1>3. CASE AbortedConversation(t) # NoConversation
  <2> DEFINE r == [turn[t] EXCEPT !.pc = "persist", !.aborted = TRUE]
  <2>1. /\ r \in TurnState /\ r.pc = "persist" /\ r.aborted
        /\ r.conv = turn[t].conv /\ r.resume = turn[t].resume
        /\ r.captured = turn[t].captured /\ r.id = turn[t].id
    BY <1>1 DEF TurnState
  <2>2. turn' = [turn EXCEPT ![t] = r] /\ UNCHANGED <<list, locked, created>>
    BY <1>3 DEF PersistAndThrowAbort
  <2>3. turn[t].id \/ turn[t].captured # NoConversation \/ turn[t].resume # NoConversation
    BY <1>1, <1>3, AbortedIsOwn
  <2> HIDE DEF r
  <2>4. Sound(r)
    BY <1>1, <2>1, <2>3 DEF Sound, BeforeAttempt, Lookup
  <2>5. Names(r) = Names(turn[t])
    BY <2>1 DEF Names
  <2>6. QED
    BY <2>1, <2>2, <2>4, <2>5, RecordKeeps
<1>4. QED
  BY <1>2, <1>3

\* What a bind of the call's own conversation makes of the list.
LEMMA OwnBind ==
    ASSUME IInv, NEW t \in Turn, NEW c \in Conversation, BindTo(t, c)
    PROVE  LET new == Binding(c, Hashes(Thread[t]), 0)
           IN /\ list' \in Seq(StoredEntry) /\ Len(list') <= MaxBindings
              /\ new \in Entries(list')
              /\ Entries(list') \subseteq Entries(list) \cup {new}
              /\ \E i \in 0 .. Len(list) :
                    /\ i # 0 => MayBeLost(list, list[i], new)
                    /\ \A j \in DOMAIN list \ {i} : list[j] \in Entries(list')
<1>1. Hashes(Thread[t]) \in [known : BOOLEAN, of : Seq(Nat)]
  BY TurnAssumption DEF Hashes
<1>2. Binding(c, Hashes(Thread[t]), 0) \in StoredEntry
  BY <1>1 DEF Binding, StoredEntry
<1>3. list \in Seq(StoredEntry) /\ Len(list) <= MaxBindings
  BY DEF IInv, Shape
<1>4. \A i \in DOMAIN list : list[i].at \in Nat /\ list[i].at <= 0
  <2>1. \A i \in DOMAIN list : list[i] \in StoredEntry
    BY <1>3
  <2>2. QED
    BY <2>1 DEF StoredEntry
<1>5. list' = Bind(list, c, Hashes(Thread[t]), 0)
  BY DEF BindTo
<1>6. QED
  BY <1>2, <1>3, <1>4, <1>5, BindSound

\* A call that ends with a bind of its own conversation.
LEMMA BindKeeps ==
    ASSUME IInv, NEW t \in Turn, NEW ending \in Ending, End(t, ending),
           turn[t].conv \in Conversation, BindTo(t, turn[t].conv), UNCHANGED created
    PROVE  IInv'
<1> DEFINE new == Binding(turn[t].conv, Hashes(Thread[t]), 0)
<1>1. /\ list' \in Seq(StoredEntry) /\ Len(list') <= MaxBindings
      /\ Entries(list') \subseteq Entries(list) \cup {new}
  BY OwnBind
<1>2. new.cid = turn[t].conv
  BY DEF Binding
<1> HIDE DEF new
<1>3. Bound(list)' \subseteq Bound(list) \cup {turn[t].conv}
  BY <1>1, <1>2 DEF Bound
<1>4. QED
  BY <1>1, <1>3, EndKeeps

\* What an update of the store writes: a bind of the call's own conversation, for
\* an answer delivered or a call cancelled, or fewer entries after a failure.
LEMMA UpdateWrites ==
    ASSUME IInv, NEW t \in Turn, Stores(t)
    PROVE  /\ turn[t].conv \in Conversation
           /\ \/ turn[t].pc = "bind" /\ turn[t].outcome = "success"
              \/ turn[t].pc = "persist" /\ turn[t].aborted
              \/ turn[t].pc = "rebind" /\ turn[t].outcome \in {"timeout", "failed"}
           /\ turn[t].pc # "rebind" => BindTo(t, turn[t].conv)
           /\ turn[t].pc = "rebind" => /\ list' \in Seq(StoredEntry)
                                       /\ Len(list') <= MaxBindings
                                       /\ Entries(list') \subseteq Entries(list)
<1>1. Sound(turn[t]) /\ list \in Seq(StoredEntry) /\ Len(list) <= MaxBindings
  BY DEF IInv, Shape, SoundInv
<1>2. turn[t].pc \in Update
  BY DEF Stores, Update
<1>3. turn[t].conv \in Conversation
  BY <1>1, <1>2 DEF Sound, AtWork
<1>4. CASE turn[t].pc = "bind"
  BY <1>1, <1>3, <1>4 DEF Stores, Sound
<1>5. CASE turn[t].pc = "persist"
  <2>1. AbortedConversation(t) = turn[t].conv /\ turn[t].aborted
    BY <1>1, <1>5, AbortedIsOwn DEF Sound, AtWork, Update
  <2>2. QED
    BY <1>3, <1>5, <2>1 DEF Stores
<1>6. CASE turn[t].pc = "rebind"
  <2>1. list' = Drop(list, turn[t].conv) \/ list' = <<>>
    BY <1>6 DEF Stores
  <2>2. CASE list' = <<>>
    BY <1>1, <1>3, <1>6, <2>2, BindingsAssumption DEF Entries, Sound
  <2>3. CASE list' = Drop(list, turn[t].conv)
    <3>1. /\ list' \in Seq(StoredEntry) /\ Len(list') <= Len(list)
          /\ Entries(list') \subseteq Entries(list)
      BY <1>1, <2>3, DropSound
    <3>2. Len(list) \in Nat /\ Len(list') \in Nat /\ MaxBindings \in Nat
      BY <1>1, <3>1, BindingsAssumption
    <3>3. QED
      BY <1>1, <1>3, <1>6, <3>1, <3>2 DEF Sound
  <2>4. QED
    BY <2>1, <2>2, <2>3
<1>7. QED
  BY <1>2, <1>4, <1>5, <1>6 DEF Update

\* A call that ends with an update, whether the store reports it or not.
LEMMA WriteKeeps ==
    ASSUME IInv, NEW t \in Turn, NEW ending \in Ending, End(t, ending),
           Stores(t), UNCHANGED created
    PROVE  IInv'
<1>1. CASE turn[t].pc = "rebind"
  <2>1. /\ list' \in Seq(StoredEntry) /\ Len(list') <= MaxBindings
        /\ Entries(list') \subseteq Entries(list)
    BY <1>1, UpdateWrites
  <2>2. Bound(list)' \subseteq Bound(list)
    BY <2>1 DEF Bound
  <2>3. QED
    BY <2>1, <2>2, EndKeeps
<1>2. CASE turn[t].pc # "rebind"
  BY <1>2, UpdateWrites, BindKeeps
<1>3. QED
  BY <1>1, <1>2

-----------------------------------------------------------------------------
\* Every step of a call keeps the invariant.
LEMMA StepKeeps ==
    ASSUME IInv, NEW t \in Turn, Start(t) \/ Proceed(t) \/ Abort(t)
    PROVE  IInv'
<1> USE DEF Label, Ending, Lookup, Update, BeforeAttempt, AtWork
<1>t. turn[t] \in TurnState /\ Sound(turn[t])
  BY DEF IInv, Shape, SoundInv
<1>1. CASE Start(t)
  BY <1>1, MoveKeeps DEF Start
<1>2. CASE Route(t) \/ RouteKnown(t)
  <2>1. CASE Goto(t, "routeKnown")
    BY <1>2, <2>1, MoveKeeps DEF Route, RouteKnown
  <2>2. ASSUME NEW prompt \in {"last", "first", "seeded"},
               turn' = [turn EXCEPT ![t].pc = "enter", ![t].prompt = prompt]
        PROVE  IInv'
    <3> DEFINE r == [turn[t] EXCEPT !.pc = "enter", !.prompt = prompt]
    <3>1. /\ r \in TurnState /\ r.pc = "enter" /\ r.attempts = turn[t].attempts
          /\ r.resume = turn[t].resume /\ r.conv = turn[t].conv
          /\ r.captured = turn[t].captured
      BY <1>t DEF TurnState
    <3>2. turn' = [turn EXCEPT ![t] = r] /\ UNCHANGED <<list, locked, created>>
      BY <1>2, <2>2 DEF Route, RouteKnown
    <3>3. turn[t].pc \in {"route", "routeKnown"}
      BY <1>2 DEF Route, RouteKnown
    <3> HIDE DEF r
    <3>4. Sound(r) /\ Names(r) = Names(turn[t])
      BY <1>t, <3>1, <3>3 DEF Sound, Names
    <3>5. QED
      BY <3>1, <3>2, <3>3, <3>4, RecordKeeps
  <2>3. QED
    BY <1>2, <2>1, <2>2 DEF Route, RouteKnown
<1>4. CASE Enter(t)
  BY <1>4, MoveKeeps, EndLeavingList DEF Enter
<1>5. CASE ResolveBinding(t)
  <2>1. CASE Goto(t, "known")
    BY <1>5, <2>1, MoveKeeps DEF ResolveBinding
  <2>2. CASE ~Goto(t, "known")
    <3> DEFINE i == Resolve(list, Thread[t])
               cid == list[i].cid
               r == [turn[t] EXCEPT !.pc = "ready", !.resume = cid]
    <3>1. i # 0 /\ turn' = [turn EXCEPT ![t].pc = "ready", ![t].resume = cid]
      BY <1>5, <2>2 DEF ResolveBinding
    <3>2. list \in Seq(StoredEntry) /\ \A j \in DOMAIN list : list[j] \in StoredEntry
      BY DEF IInv, Shape
    <3>3. i \in DOMAIN list
      <4>1. \A j \in DOMAIN list : list[j].baseline.of \in Seq(Nat)
        BY <3>2 DEF StoredEntry
      <4>2. i \in 0 .. Len(list)
        BY <3>2, <4>1, ResolveSound, TurnAssumption
      <4> HIDE DEF i
      <4>3. QED
        BY <3>1, <3>2, <4>2
    <3> HIDE DEF i
    <3>4. cid \in Conversation /\ cid \in Bound(list)
      BY <3>2, <3>3 DEF StoredEntry, Bound, Entries
    <3> HIDE DEF cid
    <3>5. /\ r \in TurnState /\ r.pc = "ready" /\ r.attempts = turn[t].attempts
          /\ r.resume = cid /\ r.conv = turn[t].conv /\ r.captured = turn[t].captured
      BY <1>t, <3>4 DEF TurnState, MaybeConversation
    <3>6. turn' = [turn EXCEPT ![t] = r] /\ UNCHANGED <<list, locked, created>>
      BY <1>5, <3>1 DEF ResolveBinding
    <3>7. turn[t].pc = "resolve"
      BY <1>5 DEF ResolveBinding
    <3> HIDE DEF r
    <3>8. Sound(r) /\ Names(r) \subseteq Names(turn[t]) \cup Bound(list)
      BY <1>t, <3>4, <3>5, <3>7 DEF Sound, Names
    <3>9. QED
      BY <3>5, <3>6, <3>7, <3>8, RecordKeeps
  <2>3. QED
    BY <2>1, <2>2
<1>6. CASE Known(t)
  BY <1>6, MoveKeeps DEF Known
<1>7. CASE Ready(t)
  <2>1. CASE End(t, "aborted") /\ UNCHANGED created
    BY <1>7, <2>1, EndLeavingList DEF Ready
  <2>2. CASE Goto(t, "lock") /\ turn[t].resume # NoConversation
             /\ UNCHANGED <<locked, created>>
    BY <1>7, <2>2, MoveKeeps DEF Ready
  <2>3. CASE /\ turn[t].resume = NoConversation /\ Conversation \ created # {}
             /\ Attempt(t, NewConversation, FALSE)
    <3>1. NewConversation \in Conversation /\ NewConversation \notin created
      BY <2>3 DEF NewConversation
    <3>2. turn[t].pc = "ready" /\ UNCHANGED list
      BY <1>7 DEF Ready
    <3>3. QED
      BY <2>3, <3>1, <3>2, AttemptKeeps
  <2>4. QED
    BY <1>7, <2>1, <2>2, <2>3 DEF Ready
<1>8. CASE TakeLock(t)
  <2>1. turn[t].resume \in Conversation
    BY <1>t, <1>8 DEF TurnState, MaybeConversation, Sound, TakeLock
  <2>2. QED
    BY <1>8, <2>1, AttemptKeeps DEF TakeLock
<1>9. CASE LockBusy(t)
  BY <1>9, EndLeavingList DEF LockBusy
<1>10. CASE Settle(t)
  <2>1. PICK outcome \in Outcome, id \in BOOLEAN :
            turn' = [turn EXCEPT ![t] =
                       [turn[t] EXCEPT !.pc = "settled", !.outcome = outcome, !.id = id,
                                       !.captured = IF id THEN turn[t].conv
                                                          ELSE turn[t].captured]]
    BY <1>10 DEF Settle
  <2> DEFINE captured == IF id THEN turn[t].conv ELSE turn[t].captured
             r == [turn[t] EXCEPT !.pc = "settled", !.outcome = outcome, !.id = id,
                                  !.captured = captured]
  <2>2. captured \in MaybeConversation /\ captured \in {turn[t].conv, turn[t].captured}
    BY <1>t DEF TurnState
  <2> HIDE DEF captured
  <2>3. /\ r \in TurnState /\ r.pc = "settled" /\ r.resumed = turn[t].resumed
        /\ r.attempts = turn[t].attempts /\ r.resume = turn[t].resume
        /\ r.conv = turn[t].conv /\ r.captured = captured
    BY <1>t, <2>2 DEF TurnState
  <2>4. /\ turn' = [turn EXCEPT ![t] = r] /\ UNCHANGED <<list, locked, created>>
        /\ turn[t].pc = "running"
    BY <1>10, <2>1 DEF Settle, captured
  <2> HIDE DEF r
  <2>5. r.attempts = 1 => (r.resumed <=> r.resume # NoConversation)
    <3>1. turn[t].attempts = 1 => (turn[t].resumed <=> turn[t].resume # NoConversation)
      BY <1>t, <2>4 DEF Sound
    <3>2. QED
      BY <2>3, <3>1, Zenon
  <2>6. /\ r.attempts \in {1, 2} /\ r.conv \in Conversation
        /\ r.resume \in {NoConversation, r.conv}
        /\ r.captured \in {NoConversation, r.conv}
    BY <1>t, <2>2, <2>3, <2>4 DEF Sound
  <2>7. Sound(r)
    BY <2>3, <2>5, <2>6 DEF Sound
  <2>8. Names(r) \subseteq Names(turn[t])
    BY <2>2, <2>3 DEF Names
  <2>9. QED
    BY <2>3, <2>4, <2>7, <2>8, RecordKeeps
<1>11. CASE Cancelled(t)
  BY <1>11, PersistKeeps DEF Cancelled
<1>12. CASE Recover(t)
  <2>1. CASE PersistAndThrowAbort(t) /\ UNCHANGED created
    BY <1>12, <2>1, PersistKeeps DEF Recover
  <2>2. CASE Attempt(t, turn[t].conv, TRUE)
    <3>1. /\ turn[t].pc = "settled" /\ turn[t].attempts = 1
          /\ turn[t].resume = NoConversation /\ UNCHANGED list
      BY <1>12 DEF Recover, canResume
    <3>2. turn[t].conv \in Conversation
      BY <1>t, <3>1 DEF Sound
    <3>3. QED
      BY <2>2, <3>1, <3>2, AttemptKeeps
  <2>3. QED
    BY <1>12, <2>1, <2>2 DEF Recover
<1>13. CASE Conclude(t)
  BY <1>13, MoveKeeps, EndLeavingList DEF Conclude
<1>14. CASE PersistAbort(t) \/ BindSuccess(t) \/ Rebind(t)
  BY <1>14, WriteKeeps DEF PersistAbort, BindSuccess, Rebind
<1>15. CASE StoreRejects(t)
  BY <1>15, WriteKeeps, EndLeavingList DEF StoreRejects
<1>18. CASE Abort(t)
  <2> DEFINE r == [turn[t] EXCEPT !.aborted = TRUE]
  <2>1. /\ r \in TurnState /\ r.pc = turn[t].pc /\ r.resumed = turn[t].resumed
        /\ r.attempts = turn[t].attempts /\ r.resume = turn[t].resume
        /\ r.conv = turn[t].conv /\ r.captured = turn[t].captured
        /\ r.outcome = turn[t].outcome /\ r.id = turn[t].id /\ r.aborted
    BY <1>t DEF TurnState
  <2>2. turn' = [turn EXCEPT ![t] = r] /\ UNCHANGED <<list, locked, created>>
    BY <1>18 DEF Abort
  <2> HIDE DEF r
  <2>3. r.pc \in {"running", "settled"} /\ r.attempts = 1 =>
           (r.resumed <=> r.resume # NoConversation)
    <3>1. turn[t].pc \in {"running", "settled"} /\ turn[t].attempts = 1 =>
             (turn[t].resumed <=> turn[t].resume # NoConversation)
      BY <1>t DEF Sound
    <3>2. QED
      BY <2>1, <3>1, Zenon
  <2>4. Sound(r)
    BY <1>t, <2>1, <2>3 DEF Sound
  <2>5. Names(r) = Names(turn[t])
    BY <2>1 DEF Names
  <2>6. QED
    BY <2>1, <2>2, <2>4, <2>5, RecordKeeps
<1>19. QED
  BY <1>1, <1>2, <1>4, <1>5, <1>6, <1>7, <1>8, <1>9, <1>10, <1>11, <1>12,
     <1>13, <1>14, <1>15, <1>18 DEF Proceed

-----------------------------------------------------------------------------
\* The invariant of the specification.
LEMMA TurnInvariant == Spec => []IInv
<1>1. Init => IInv
  <2> SUFFICES ASSUME Init PROVE IInv
    OBVIOUS
  <2>1. /\ NewTurn \in TurnState /\ NewTurn.pc = "idle" /\ NewTurn.attempts = 0
        /\ NewTurn.conv = NoConversation /\ NewTurn.captured = NoConversation
        /\ NewTurn.resume = NoConversation
    BY DEF NewTurn, TurnState, MaybeConversation, Label
  <2> HIDE DEF NewTurn
  <2>2. Sound(NewTurn) /\ Names(NewTurn) = {NoConversation}
    BY <2>1 DEF Sound, Names, AtWork, Update
  <2>3. list \in Seq(StoredEntry) /\ Len(list) <= MaxBindings
    BY TurnAssumption DEF Init, StoredEntry
  <2>4. created = Bound(list)
    BY DEF Init, Bound, Entries
  <2>5. Bound(list) \subseteq Conversation
    <3>1. \A i \in DOMAIN list : list[i] \in StoredEntry
      BY <2>3
    <3>2. QED
      BY <3>1 DEF StoredEntry, Bound, Entries
  <2>6. /\ turn = [t \in Turn |-> NewTurn]
        /\ locked = [c \in Conversation |-> NoTurn]
    BY DEF Init
  <2>7. Shape /\ SoundInv /\ KnownInv
    BY <2>1, <2>2, <2>3, <2>4, <2>5, <2>6 DEF Shape, SoundInv, KnownInv
  <2>8. LockInv /\ OwnInv /\ PrivateInv
    BY <2>1, <2>6 DEF LockInv, OwnInv, PrivateInv, AtWork, Update
  <2>9. QED
    BY <2>7, <2>8 DEF IInv
<1>2. IInv /\ [Next]_vars => IInv'
  <2> SUFFICES ASSUME IInv, [Next]_vars PROVE IInv'
    OBVIOUS
  <2>1. CASE Next
    BY <2>1, StepKeeps DEF Next
  <2>2. CASE UNCHANGED vars
    BY <2>2 DEF vars, IInv, Shape, SoundInv, KnownInv, LockInv, OwnInv, PrivateInv,
                Private, Bound, Entries
  <2>3. QED
    BY <2>1, <2>2
<1>3. QED
  BY <1>1, <1>2, PTL DEF Spec

\* turn.ts 442-446, timeout-recovery-prd.md 140: whatever calls, threads and
\* stored bindings a session has, two runs of agy never write one conversation
\* at once, although a fresh conversation and its recovery take no lock.
THEOREM TurnsAreSound == Spec => []TurnsSound
<1>1. ASSUME IInv PROVE TurnsSound
  <2>1. TypeOK
    BY <1>1 DEF TypeOK, IInv, Shape, KnownInv
  <2>2. ASSUME NEW t \in Turn, NEW u \in Turn,
               turn[t].pc = "running", turn[u].pc = "running",
               turn[t].conv = turn[u].conv, t # u
        PROVE  FALSE
    <3>1. Sound(turn[t]) /\ Sound(turn[u])
      BY <1>1 DEF IInv, SoundInv
    <3>2. /\ turn[t].resume \in {NoConversation, turn[t].conv}
          /\ turn[u].resume \in {NoConversation, turn[u].conv}
      BY <2>2, <3>1 DEF Sound, AtWork
    <3>3. turn[t].resume # NoConversation
      BY <1>1, <2>2 DEF IInv, PrivateInv, Private, Names, AtWork
    <3>4. turn[u].resume # NoConversation
      BY <1>1, <2>2 DEF IInv, PrivateInv, Private, Names, AtWork
    <3>5. locked[turn[t].resume] = t /\ locked[turn[u].resume] = u
      BY <1>1, <2>2, <3>3, <3>4 DEF IInv, OwnInv, AtWork
    <3>6. QED
      BY <2>2, <3>2, <3>3, <3>4, <3>5
  <2>3. OneRunPerConversation
    BY <2>2 DEF OneRunPerConversation
  <2>4. QED
    BY <2>1, <2>3 DEF TurnsSound
<1>2. QED
  BY <1>1, TurnInvariant, PTL

\* A conversation lock on disk belongs to a call that is running agy on that
\* conversation or is about to record what came of it: no ending of a call, by
\* answer, failure, cancellation or a busy store, leaves a lock behind.
THEOREM LockNeverLeaked == Spec => []LockHeldWhileAtWork
<1>1. IInv => LockHeldWhileAtWork
  BY DEF IInv, LockInv, LockHeldWhileAtWork, Active, Ended, Ending, Update, Shape, AtWork
<1>2. QED
  BY <1>1, TurnInvariant, PTL

\* What a call that starts an attempt looks like: it is at the first spawn of a
\* fresh conversation, has waited for the lock of a stored one, or recovers.
Spawns(t) ==
    \/ turn[t].pc = "ready" /\ ~turn[t].aborted /\ turn[t].attempts = 0
    \/ /\ turn[t].pc = "lock" /\ turn[t].attempts = 0
       /\ turn'[t].attempts = 1 /\ created' = created
    \/ /\ canResume(t) /\ ~turn[t].aborted /\ ~turn[t].resumed
       /\ turn'[t].conv = turn[t].conv /\ ~turn'[t].aborted

\* No other step starts an attempt.
LEMMA SpawnSteps ==
    ASSUME IInv, NEW t \in Turn, Start(t) \/ Proceed(t) \/ Abort(t),
           NEW u \in Turn, turn'[u].attempts > turn[u].attempts
    PROVE  Spawns(u)
<1> USE DEF Label, Ending, Lookup, Update, BeforeAttempt
<1>t. turn \in [Turn -> TurnState] /\ turn[t] \in TurnState /\ Sound(turn[t])
  BY DEF IInv, Shape, SoundInv
<1>a. /\ turn[t].pc \in BeforeAttempt => turn[t].attempts = 0
      /\ turn[t].pc = "settled" /\ turn[t].attempts = 1 =>
            (turn[t].resumed <=> turn[t].resume # NoConversation)
  BY <1>t DEF Sound
<1>1. ASSUME NEW label, Goto(t, label)
      PROVE  FALSE
  BY <1>1, <1>t DEF Goto, TurnState
<1>2. ASSUME NEW ending \in Ending, End(t, ending)
      PROVE  FALSE
  <2>1. turn' = [turn EXCEPT ![t] = [NewTurn EXCEPT !.pc = ending]]
    BY <1>2 DEF End
  <2>2. [NewTurn EXCEPT !.pc = ending].attempts = 0
    BY DEF NewTurn
  <2>3. turn[t].attempts \in Nat /\ turn[u].attempts \in Nat
    BY <1>t DEF TurnState
  <2>4. turn'[u].attempts = IF u = t THEN 0 ELSE turn[u].attempts
    BY <1>t, <2>1, <2>2
  <2>5. QED
    BY <2>3, <2>4
<1>3. CASE Start(t) \/ Enter(t) \/ Known(t) \/ LockBusy(t) \/ Conclude(t)
  BY <1>1, <1>2, <1>3 DEF Start, Enter, Known, LockBusy, Conclude
<1>4. CASE PersistAbort(t) \/ BindSuccess(t) \/ Rebind(t) \/ StoreRejects(t)
  BY <1>2, <1>4 DEF PersistAbort, BindSuccess, Rebind, StoreRejects
<1>5. CASE Route(t) \/ RouteKnown(t)
  BY <1>1, <1>5, <1>t DEF Route, RouteKnown, TurnState
<1>6. CASE ResolveBinding(t)
  BY <1>1, <1>6, <1>t DEF ResolveBinding, TurnState
<1>7. CASE Settle(t)
  BY <1>7, <1>t DEF Settle, TurnState
<1>8. CASE Abort(t)
  BY <1>8, <1>t DEF Abort, TurnState
<1>9. ASSUME PersistAndThrowAbort(t)
      PROVE  FALSE
  BY <1>2, <1>9, <1>t DEF PersistAndThrowAbort, TurnState
<1>10. ASSUME NEW c \in Conversation, turn[t].attempts \in {0, 1}, NEW resumed \in BOOLEAN,
              Attempt(t, c, resumed)
       PROVE  /\ u = t /\ turn'[t].conv = c /\ turn'[t].aborted = turn[t].aborted
              /\ turn'[t].attempts = turn[t].attempts + 1
              /\ created' = created \cup {c}
  <2>1. ~End(t, "error")
    BY <1>2
  <2>2. /\ OthersAlone(t) /\ turn'[t].conv = c
        /\ turn'[t].aborted = turn[t].aborted
        /\ turn'[t].attempts = turn[t].attempts + 1
        /\ created' = created \cup {c}
    BY <1>10, <1>t, <2>1, AttemptRuns
  <2>3. turn[u].attempts \in Nat
    BY <1>t DEF TurnState
  <2>4. u = t
    BY <2>2, <2>3 DEF OthersAlone
  <2>5. QED
    BY <2>2, <2>4
<1>11. CASE Ready(t)
  <2>1. NewConversation \in Conversation \/ Conversation \ created = {}
    BY DEF NewConversation
  <2>2. turn[t].pc = "ready" /\ turn[t].attempts = 0
    BY <1>11, <1>a DEF Ready
  <2>3. QED
    BY <1>1, <1>2, <1>10, <1>11, <2>1, <2>2 DEF Ready, Spawns
<1>12. CASE TakeLock(t)
  <2>1. turn[t].pc = "lock" /\ turn[t].attempts = 0 /\ turn[t].resume \in Conversation
    BY <1>12, <1>a, <1>t DEF TakeLock, TurnState, MaybeConversation, Sound
  <2>2. turn[t].resume \in created
    BY <2>1, TurnAssumption DEF IInv, KnownInv, Names
  <2>3. QED
    BY <1>10, <1>12, <2>1, <2>2 DEF TakeLock, Spawns
<1>13. CASE Cancelled(t)
  BY <1>9, <1>13 DEF Cancelled
<1>14. CASE Recover(t)
  <2>1. /\ turn[t].conv \in Conversation /\ turn[t].pc = "settled" /\ canResume(t)
        /\ turn[t].attempts = 1
        /\ ~turn[t].aborted /\ Attempt(t, turn[t].conv, TRUE)
    BY <1>9, <1>14, <1>t DEF Recover, Sound, AtWork, canResume
  <2>2. u = t /\ turn'[t].conv = turn[t].conv /\ turn'[t].aborted = turn[t].aborted
    BY <1>10, <2>1
  <2>3. ~turn[t].resumed
    BY <1>a, <2>1 DEF canResume
  <2>4. QED
    BY <2>1, <2>2, <2>3 DEF Spawns
<1>15. QED
  BY <1>3, <1>4, <1>5, <1>6, <1>7, <1>8, <1>11, <1>12, <1>13, <1>14 DEF Proceed

\* At most one recovery per call, of a conversation the call itself started and
\* agy named before it timed out, and never after the caller has cancelled.
THEOREM RecoveryEarned == Spec => RecoveryIsEarned
<1>1. IInv /\ [Next]_vars =>
         [\A t \in Turn : turn'[t].attempts = 2 /\ turn[t].attempts = 1 =>
             /\ ~turn'[t].aborted
             /\ turn[t].outcome = "timeout" /\ turn[t].id
             /\ ~turn[t].resumed /\ turn'[t].conv = turn[t].conv]_vars
  BY SpawnSteps DEF Next, Spawns, canResume
<1>2. QED
  BY <1>1, TurnInvariant, PTL DEF Spec, RecoveryIsEarned

\* turn.ts 428-437: wherever a cancellation finds a call, it opens no conversation
\* afterwards and makes no recovery.  What it may still do is the first attempt on
\* a stored conversation whose lock it was waiting for.
THEOREM CancelledOpens == Spec => CancelledOpensNothing
<1>1. IInv /\ [Next]_vars =>
         [\A t \in Turn :
             turn'[t].attempts > turn[t].attempts /\ turn[t].aborted =>
                 turn'[t].attempts = 1 /\ created' = created]_vars
  BY SpawnSteps DEF Next, Spawns
<1>2. QED
  BY <1>1, TurnInvariant, PTL DEF Spec, CancelledOpensNothing

-----------------------------------------------------------------------------
\* How a call that updates the store ends if the store lets it.
OwnEnding(t) ==
    CASE turn[t].pc = "bind"    -> "ok"
      [] turn[t].pc = "persist" -> "aborted"
      [] OTHER                  -> "error"

\* The list is written in the last step of a call only.
Rewrites(t) == Stores(t) /\ (End(t, OwnEnding(t)) \/ End(t, "storeError"))

LEMMA OnlyUpdatesWrite ==
    ASSUME NEW t \in Turn, Start(t) \/ Proceed(t) \/ Abort(t), list' # list
    PROVE  Rewrites(t)
<1>1. PersistAbort(t) \/ BindSuccess(t) \/ Rebind(t) \/ StoreRejects(t)
  BY DEF Start, Proceed, Abort, Route, RouteKnown, Enter, ResolveBinding, Known, Ready,
         TakeLock, LockBusy, Settle, Cancelled, Recover, Conclude
<1>2. QED
  BY <1>1 DEF PersistAbort, BindSuccess, Rebind, StoreRejects, Rewrites, OwnEnding

LEMMA WriteEnds ==
    ASSUME IInv, NEW t \in Turn, Rewrites(t)
    PROVE  /\ OthersAlone(t) /\ Ends(t)
           /\ turn'[t].pc \in {OwnEnding(t), "storeError"}
<1>1. turn \in [Turn -> TurnState]
  BY DEF IInv, Shape
<1>2. OwnEnding(t) \in Ending /\ "storeError" \in Ending
  BY DEF OwnEnding, Ending
<1>3. turn'[t].pc \in {OwnEnding(t), "storeError"} /\ OthersAlone(t)
  BY <1>1, <1>2, EndResets DEF Rewrites
<1>4. turn[t].pc \notin Ending
  BY DEF Rewrites, Stores, Ending
<1>5. QED
  BY <1>2, <1>3, <1>4 DEF Ends, Ended

\* A baseline enters the list only with a delivered answer or a cancelled call.
NewForCause ==
    Entries(list') \subseteq Entries(list) \/
       \E t \in Turn :
          /\ Ends(t) /\ turn'[t].pc \in {"ok", "aborted", "storeError"}
          /\ \A e \in Entries(list') \ Entries(list) :
                e.baseline = Hashes(Thread[t]) /\ e.cid = turn[t].conv
          /\ turn[t].outcome = "success" \/ turn[t].aborted

LEMMA NewHasCause == IInv /\ [Next]_vars => NewForCause
<1> SUFFICES ASSUME IInv, [Next]_vars PROVE NewForCause
  OBVIOUS
<1>1. CASE list' = list
  BY <1>1 DEF NewForCause
<1>2. CASE list' # list
  <2>1. PICK t \in Turn : Rewrites(t)
    BY <1>2, OnlyUpdatesWrite DEF Next, vars
  <2>2. CASE turn[t].pc = "rebind"
    BY <2>1, <2>2, UpdateWrites DEF NewForCause, Rewrites
  <2>3. CASE turn[t].pc # "rebind"
    <3> DEFINE new == Binding(turn[t].conv, Hashes(Thread[t]), 0)
    <3>1. /\ turn[t].conv \in Conversation /\ BindTo(t, turn[t].conv)
          /\ turn[t].pc \in {"bind", "persist"}
          /\ turn[t].outcome = "success" \/ turn[t].aborted
      BY <2>1, <2>3, UpdateWrites DEF Rewrites
    <3>2. Entries(list') \subseteq Entries(list) \cup {new}
      BY <3>1, OwnBind
    <3>3. new.cid = turn[t].conv /\ new.baseline = Hashes(Thread[t])
      BY DEF Binding
    <3> HIDE DEF new
    <3>4. \A e \in Entries(list') \ Entries(list) :
             e.baseline = Hashes(Thread[t]) /\ e.cid = turn[t].conv
      BY <3>2, <3>3
    <3>5. Ends(t) /\ turn'[t].pc \in {"ok", "aborted", "storeError"}
      BY <2>1, <3>1, WriteEnds DEF OwnEnding
    <3>6. QED
      BY <3>1, <3>4, <3>5 DEF NewForCause
  <2>4. QED
    BY <2>2, <2>3
<1>3. QED
  BY <1>1, <1>2

\* A cancelled or interrupted call that ends costs no conversation but a parent
\* of its own thread.
Spared(t) ==
    Ends(t) /\ (EndsCancelled(t) \/ turn[t].outcome = "interrupted") =>
        \A e \in Entries(list) :
            \/ e.cid \in Bound(list')
            \/ /\ turn[t].pc = "persist"
               /\ hashesArePrefix(e.baseline.of, Thread[t])

LEMMA StepSpares ==
    ASSUME IInv, Len(list) < MaxBindings, [Next]_vars, NEW u \in Turn
    PROVE  Spared(u)
<1>0. list \in Seq(StoredEntry)
  BY DEF IInv, Shape
<1>1. CASE list' = list
  BY <1>1 DEF Spared, Bound
<1>2. CASE list' # list
  <2>1. PICK t \in Turn : Rewrites(t)
    BY <1>2, OnlyUpdatesWrite DEF Next, vars
  <2>2. OthersAlone(t) /\ Ends(t) /\ turn'[t].pc \in {OwnEnding(t), "storeError"}
    BY <2>1, WriteEnds
  <2>3. CASE u # t
    BY <2>2, <2>3 DEF OthersAlone, Spared, Ends, Ended
  <2>4. CASE turn[t].pc \in {"bind", "rebind"}
    <3>1. turn[t].outcome # "interrupted" /\ ~EndsCancelled(t)
      BY <2>1, <2>2, <2>4, UpdateWrites DEF Rewrites, EndsCancelled, OwnEnding
    <3>2. QED
      BY <2>3, <3>1 DEF Spared
  <2>5. CASE turn[t].pc = "persist"
    <3> DEFINE new == Binding(turn[t].conv, Hashes(Thread[t]), 0)
    <3>1. turn[t].conv \in Conversation /\ BindTo(t, turn[t].conv)
      BY <2>1, <2>5, UpdateWrites DEF Rewrites
    <3>2. /\ new \in Entries(list')
          /\ \E i \in 0 .. Len(list) :
                /\ i # 0 => MayBeLost(list, list[i], new)
                /\ \A j \in DOMAIN list \ {i} : list[j] \in Entries(list')
      BY <3>1, OwnBind
    <3>3. new.cid \in Bound(list') /\ new.baseline.of = Thread[t]
      BY <3>2 DEF Bound, Binding, Hashes
    <3> HIDE DEF new
    <3>4. PICK i \in 0 .. Len(list) :
             /\ i # 0 => MayBeLost(list, list[i], new)
             /\ \A j \in DOMAIN list \ {i} : list[j] \in Entries(list')
      BY <3>2
    <3>5. ASSUME NEW e \in Entries(list), e.cid \notin Bound(list')
          PROVE  hashesArePrefix(e.baseline.of, Thread[t])
      <4>1. e \notin Entries(list')
        BY <3>5 DEF Bound
      <4>2. PICK j \in DOMAIN list : e = list[j]
        BY DEF Entries
      <4>3. j = i /\ i # 0
        BY <1>0, <3>4, <4>1, <4>2
      <4>4. MayBeLost(list, e, new)
        BY <3>4, <4>2, <4>3
      <4>5. Len(list) # MaxBindings
        BY <1>0, BindingsAssumption
      <4>6. IsParent(e, new.baseline)
        BY <3>3, <3>5, <4>4, <4>5 DEF MayBeLost
      <4>7. QED
        BY <3>3, <4>6 DEF IsParent
    <3>6. QED
      BY <2>3, <2>5, <3>5 DEF Spared
  <2>6. QED
    BY <2>1, <2>4, <2>5 DEF Rewrites, Stores
<1>3. QED
  BY <1>1, <1>2

\* timeout-recovery-prd.md 72, turn.ts 537-538: the bindings of a session change
\* only for a cause that the ending of the call gives.  No failure leaves hashes
\* behind, at whatever length, and a store that rejects after its write leaves only
\* those of an answer or a cancelled call; and while the list is below its cap, so
\* that a bind evicts nothing, no cancelled or interrupted call costs a conversation.
THEOREM BindingsForCause ==
    Spec => /\ NoHashesForFailure
            /\ [](Len(list) < MaxBindings) => StoreForCause
<1>1. ASSUME IInv, [Next]_vars PROVE [NewForCause]_vars
  BY <1>1, NewHasCause
<1>2. Spec => NoHashesForFailure
  BY <1>1, TurnInvariant, PTL DEF Spec, NoHashesForFailure, NewForCause
<1>3. ASSUME IInv, Len(list) < MaxBindings, [Next]_vars
      PROVE  \A t \in Turn : Spared(t)
  BY <1>3, StepSpares
<1>4. Spec /\ [](Len(list) < MaxBindings) => ConversationSurvives
  BY <1>3, TurnInvariant, PTL DEF Spec, ConversationSurvives, Spared
<1>5. QED
  BY <1>2, <1>4, PTL DEF StoreForCause
=============================================================================
