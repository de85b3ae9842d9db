---------------------------- MODULE PiSession_proof ----------------------------
(***************************************************************************)
(* Proofs about PiSession for any set of calls, keys, conversations, rows  *)
(* and other processes.  The argument for one run per conversation: a call *)
(* at work on a conversation it resumed holds its lock, and a conversation *)
(* it started is known to nobody else until it is bound, which is the last *)
(* thing the call does.                                                    *)
(***************************************************************************)
EXTENDS PiSession, TLAPS

\* What a call is at work on, it runs or has just run.
Work == {"running", "settled"} \cup Update

\* The locals of one call fit together.
Sound(r) ==
    /\ r.pc \notin Ending \cup {"idle"} => r.call \in Call
    /\ r.pc = "read" => r.flight \in Turn
    /\ r.pc # "read" => ~r.recycled
    /\ r.pc = "lock" => r.resume # NoConversation
    /\ r.pc \notin Work \cup {"lock"} => r.resume = NoConversation
    /\ r.pc \in Work => /\ r.conv \in Conversation
                        /\ r.resume # NoConversation => r.conv = r.resume
    /\ r.pc \notin Work => r.attempts = 0
    /\ r.attempts = 2 => r.resumed
    /\ r.pc \in Work => r.attempts # 0
    /\ r.pc \in Work /\ r.attempts = 1 /\ r.resumed => r.resume # NoConversation
    /\ r.found # NoEntry /\ r.entry # NoEntry => r.entry.cid = r.found.cid
    /\ r.found # NoEntry /\ r.resume # NoConversation => r.found.cid = r.resume
    /\ r.pc = "persist" => r.aborted
    /\ r.pc = "bind" => r.outcome = "success"
    /\ r.pc = "rebind" => r.resumed /\ r.outcome # "success"

SoundTurn == {r \in TurnState : Sound(r)}

Shape ==
    /\ turn \in [Turn -> SoundTurn]
    /\ cache \in [Key -> MaybeRow]
    /\ pending \in [Key -> Turn \cup {NoTurn, Rejected}]
    /\ reg \in [Key -> Turn \cup {NoTurn}]
    /\ row \in [Key -> MaybeRow]
    /\ locked \in [Conversation -> Turn \cup {NoTurn}]
    /\ created \subseteq Conversation
    /\ clearing \in BOOLEAN
    /\ shadowed \in [Key -> BOOLEAN]

\* A lock belongs to the call that resumed its conversation and is at work on it,
\* and every such call has its lock.
LockInv ==
    /\ \A c \in Conversation : locked[c] # NoTurn =>
          turn[locked[c]].pc \in Work /\ turn[locked[c]].resume = c
    /\ \A t \in Turn : turn[t].pc \in Work /\ turn[t].resume # NoConversation =>
          locked[turn[t].resume] = t

RegInv == \A k \in Key : reg[k] # NoTurn => Active(reg[k]) /\ KeyOf(reg[k]) = k

\* A read that a recycle has passed is in no slot.
SlotInv ==
    \A t \in Turn : turn[t].pc = "read" /\ turn[t].recycled => pending[KeyOf(t)] # t

\* A call knows a conversation from its lookup or from its own attempt.
Names(r, c) ==
    \/ r.entry # NoEntry /\ r.entry.cid = c
    \/ r.resume = c
    \/ r.conv = c

In(rows, c) == \E k \in Key : rows[k] # NoEntry /\ rows[k].cid = c

Foreign(c) == \E e \in ForeignRows : e.cid = c

\* Some later lookup may return the conversation.
Stored(c) == In(row, c) \/ In(cache, c) \/ Foreign(c)

\* The call is at work on a conversation it has started itself.
Fresh(r) == r.pc \in Work /\ r.resume = NoConversation

KnownInv ==
    \A c \in Conversation :
        Stored(c) \/ (\E t \in Turn : Names(turn[t], c)) => c \in created

PrivateInv ==
    \A t \in Turn, c \in Conversation : Fresh(turn[t]) /\ turn[t].conv = c =>
        /\ ~Stored(c)
        /\ \A u \in Turn \ {t} : ~Names(turn[u], c)

IInv ==
    Shape /\ LockInv /\ RegInv /\ SlotInv /\ KnownInv /\ PrivateInv /\ CacheCoherent

-----------------------------------------------------------------------------
\* Where a call's knowledge comes from in a step: it had it, the store had it, or
\* agy has just created the conversation for it.
Spawned(t, c) ==
    /\ c \notin created /\ turn'[t].conv = c
    /\ turn'[t] # turn[t] /\ turn'[t].pc = "running"

TurnsTraced ==
    /\ created \subseteq created'
    /\ \A t \in Turn, c \in Conversation : Names(turn'[t], c) =>
          Names(turn[t], c) \/ Stored(c) \/ (Spawned(t, c) /\ c \in created')
    /\ \A t \in Turn : Fresh(turn'[t]) =>
          \/ Fresh(turn[t]) /\ turn'[t].conv = turn[t].conv
          \/ Spawned(t, turn'[t].conv)
    /\ \A t, u \in Turn, c \in Conversation : Spawned(t, c) /\ Spawned(u, c) => t = u

\* The store learns of a conversation from a call that ends its work on it.
StoreTraced ==
    \A c \in Conversation : Stored(c)' =>
        \/ Stored(c)
        \/ \E t \in Turn : /\ turn[t].pc \in Work /\ turn[t].conv = c
                           /\ turn'[t].pc \notin Work

\* What a started conversation is known to stays so.
LEMMA TracesKeepPrivate ==
    ASSUME Shape, Shape', KnownInv, PrivateInv, TurnsTraced, StoreTraced
    PROVE  KnownInv' /\ PrivateInv'
<1>1. KnownInv'
  <2> SUFFICES ASSUME NEW c \in Conversation,
                      Stored(c)' \/ \E t \in Turn : Names(turn'[t], c)
               PROVE  c \in created'
    BY DEF KnownInv
  <2>1. CASE Stored(c)'
    BY <2>1 DEF StoreTraced, TurnsTraced, KnownInv, Names
  <2>2. CASE \E t \in Turn : Names(turn'[t], c)
    BY <2>2 DEF TurnsTraced, KnownInv
  <2>3. QED
    BY <2>1, <2>2
<1>2. ASSUME NEW t \in Turn, NEW c \in Conversation,
             Fresh(turn'[t]), turn'[t].conv = c
      PROVE  ~Stored(c)' /\ \A u \in Turn \ {t} : ~Names(turn'[u], c)
  <2>1. turn'[t].pc \in Work
    BY <1>2 DEF Fresh
  <2>2. CASE Fresh(turn[t]) /\ turn[t].conv = c
    <3>1. ~Stored(c) /\ \A u \in Turn \ {t} : ~Names(turn[u], c)
      BY <2>2 DEF PrivateInv
    <3>2. c \in created
      BY <2>2 DEF KnownInv, Names
    <3>3. ~Stored(c)'
      BY <2>1, <3>1 DEF StoreTraced, Names
    <3>4. \A u \in Turn \ {t} : ~Names(turn'[u], c)
      BY <3>1, <3>2 DEF TurnsTraced, Spawned
    <3>5. QED
      BY <3>3, <3>4
  <2>3. CASE Spawned(t, c)
    <3>1. ~Stored(c) /\ \A u \in Turn : ~Names(turn[u], c)
      BY <2>3 DEF KnownInv, Spawned
    <3>2. ~Stored(c)'
      BY <3>1 DEF StoreTraced, Names
    <3>3. \A u \in Turn \ {t} : ~Names(turn'[u], c)
      BY <2>3, <3>1 DEF TurnsTraced
    <3>4. QED
      BY <3>2, <3>3
  <2>4. QED
    BY <1>2, <2>2, <2>3 DEF TurnsTraced
<1>3. QED
  BY <1>1, <1>2 DEF PrivateInv

-----------------------------------------------------------------------------
\* A step of call t touches the record of no other call.
OthersAlone(t) == \A u \in Turn \ {t} : turn'[u] = turn[u]

\* Replacing the record of one call by another record.
LEMMA OneRecord ==
    ASSUME turn \in [Turn -> SoundTurn], NEW t \in Turn, NEW r \in SoundTurn,
           turn' = [turn EXCEPT ![t] = r]
    PROVE  turn' \in [Turn -> SoundTurn] /\ turn'[t] = r /\ OthersAlone(t)
BY DEF OthersAlone

\* What every step owes to the part of the invariant that is about calls and
\* locks.
CallsKept ==
    /\ turn' \in [Turn -> SoundTurn]
    /\ locked' \in [Conversation -> Turn \cup {NoTurn}] /\ LockInv'
    /\ created' \subseteq Conversation /\ TurnsTraced

\* A step in which no call begins or ends its work.
LEMMA CallsAtWorkAlone ==
    ASSUME Shape, LockInv, KnownInv, turn' \in [Turn -> SoundTurn],
           locked' = locked, created' = created,
           \A t \in Turn :
              /\ turn'[t].pc \in Work <=> turn[t].pc \in Work
              /\ turn'[t].pc \in Work => /\ turn'[t].resume = turn[t].resume
                                         /\ turn'[t].conv = turn[t].conv
              /\ \A c \in Conversation :
                    Names(turn'[t], c) => Names(turn[t], c) \/ Stored(c)
    PROVE  CallsKept
<1>1. LockInv'
  BY PiAssumption DEF LockInv, Shape
<1>2. \A t \in Turn, c \in Conversation : ~Spawned(t, c)
  BY DEF Spawned, Names, KnownInv, Work
<1>3. \A t \in Turn : Fresh(turn'[t]) =>
         Fresh(turn[t]) /\ turn'[t].conv = turn[t].conv
  BY DEF Fresh
<1>4. QED
  BY <1>1, <1>2, <1>3 DEF CallsKept, Shape, TurnsTraced

\* The record of a call that has ended.
LEMMA EndRecord ==
    ASSUME NEW ending \in Ending
    PROVE  LET r == [NewTurn EXCEPT !.pc = ending]
           IN r \in SoundTurn /\ r.pc = ending /\ \A c \in Conversation : ~Names(r, c)
<1> DEFINE r == [NewTurn EXCEPT !.pc = ending]
<1>1. /\ r.pc = ending /\ ~r.recycled /\ r.attempts = 0
      /\ r.entry = NoEntry /\ r.found = NoEntry
      /\ r.resume = NoConversation /\ r.conv = NoConversation
  BY DEF NewTurn
<1>2. r \in TurnState
  <2>1. /\ NoCall \in Call \cup {NoCall} /\ NoTurn \in Turn \cup {NoTurn}
        /\ NoEntry \in MaybeRow /\ NoConversation \in MaybeConversation
        /\ 0 \in 0..2 /\ "none" \in Outcome \cup {"none"} /\ ending \in Label
    BY DEF MaybeRow, MaybeConversation, Label
  <2>2. QED
    BY <2>1 DEF NewTurn, TurnState
<1> HIDE DEF r
<1>3. r \in SoundTurn
  BY <1>1, <1>2 DEF SoundTurn, Sound, Ending, Work, Update
<1>4. \A c \in Conversation : ~Names(r, c)
  BY PiAssumption, <1>1 DEF Names
<1>5. QED
  BY <1>1, <1>3, <1>4 DEF r

\* The end of a call gives its lock and its registration back.
LEMMA EndKeeps ==
    ASSUME Shape, LockInv, RegInv, NEW t \in Turn, NEW ending \in Ending,
           End(t, ending), created' = created
    PROVE  /\ CallsKept /\ OthersAlone(t) /\ turn'[t].pc = ending
           /\ reg' \in [Key -> Turn \cup {NoTurn}] /\ RegInv'
<1> DEFINE r == [NewTurn EXCEPT !.pc = ending]
<1>1. r \in SoundTurn /\ r.pc = ending /\ \A c \in Conversation : ~Names(r, c)
  BY EndRecord
<1>2. turn' = [turn EXCEPT ![t] = r]
  BY DEF End
<1> HIDE DEF r
<1>3. turn' \in [Turn -> SoundTurn] /\ turn'[t] = r /\ OthersAlone(t)
  BY <1>1, <1>2, OneRecord DEF Shape
<1>4. /\ locked' = [c \in Conversation |-> IF locked[c] = t THEN NoTurn ELSE locked[c]]
      /\ reg' = [k \in Key |-> IF reg[k] = t THEN NoTurn ELSE reg[k]]
  BY DEF End
<1>5. r.pc \notin Work
  BY <1>1 DEF Work, Update, Ending
<1>6. LockInv'
  <2>1. \A c \in Conversation : locked'[c] # NoTurn =>
           locked[c] = locked'[c] /\ locked[c] \in Turn \ {t}
    BY <1>4 DEF Shape
  <2>2. ASSUME NEW u \in Turn, turn'[u].pc \in Work, turn'[u].resume # NoConversation
        PROVE  locked'[turn'[u].resume] = u
    <3>1. u # t /\ turn'[u] = turn[u]
      BY <1>1, <1>3, <1>5, <2>2 DEF OthersAlone
    <3>2. turn[u].resume \in Conversation
      BY <2>2, <3>1 DEF Shape, SoundTurn, TurnState, MaybeConversation
    <3>3. QED
      BY <1>4, <2>2, <3>1, <3>2 DEF LockInv
  <2>3. QED
    BY <1>3, <2>1, <2>2 DEF LockInv, OthersAlone
<1>7. RegInv'
  BY PiAssumption, <1>3, <1>4 DEF RegInv, OthersAlone, Shape, Active, Ended, KeyOf
<1>8. TurnsTraced
  <2>1. ~Fresh(r) /\ r.pc # "running"
    BY <1>5 DEF Fresh, Work
  <2>2. QED
    BY <1>1, <1>3, <2>1 DEF TurnsTraced, OthersAlone, Spawned
<1>9. QED
  BY <1>1, <1>3, <1>4, <1>6, <1>7, <1>8 DEF CallsKept, Shape

\* An attempt that spawns, on a conversation nobody knows or on the one the call
\* resumes or has started itself.
LEMMA AttemptKeeps ==
    ASSUME Shape, LockInv, KnownInv, NEW t \in Turn, NEW c \in Conversation,
           NEW resumed \in BOOLEAN, Attempt(t, c, resumed),
           ~(End(t, "error") /\ UNCHANGED created),
           turn[t].attempts \in {0, 1}, turn[t].attempts = 1 => resumed,
           \/ turn[t].pc = "decide" /\ c \notin created /\ ~resumed
           \/ turn[t].pc = "lock" /\ turn[t].resume = c /\ locked[c] = NoTurn
           \/ turn[t].pc = "settled" /\ turn[t].conv = c
    PROVE  /\ CallsKept /\ OthersAlone(t) /\ reg' = reg
           /\ turn'[t].pc = "running" /\ turn'[t].call = turn[t].call
<1> USE DEF Work, Update
<1> DEFINE n == turn[t].attempts + 1
           r == [turn[t] EXCEPT !.pc = "running", !.attempts = n,
                                !.conv = c, !.resumed = resumed,
                                !.outcome = "none", !.id = FALSE]
<1>1. turn[t] \in TurnState /\ Sound(turn[t])
  BY DEF Shape, SoundTurn
<1>2. n \in 0..2
  BY <1>1
<1>3. turn' = [turn EXCEPT ![t] = r]
  BY DEF Attempt
<1> HIDE DEF n
<1>a. r \in TurnState
  <2>1. /\ "running" \in Label /\ c \in MaybeConversation
        /\ "none" \in Outcome \cup {"none"} /\ FALSE \in BOOLEAN
    BY DEF Label, MaybeConversation
  <2>2. QED
    BY <1>1, <1>2, <2>1 DEF TurnState
<1>4. /\ r \in TurnState
      /\ r.pc = "running" /\ r.resume = turn[t].resume /\ r.entry = turn[t].entry
      /\ r.conv = c /\ r.call = turn[t].call /\ r.recycled = turn[t].recycled
      /\ r.attempts = n /\ r.resumed = resumed /\ r.found = turn[t].found
  BY <1>1, <1>a DEF TurnState
<1> HIDE DEF r
<1>5. r.resume # NoConversation => r.resume = c /\ turn[t].pc \in {"lock", "settled"}
  BY <1>1, <1>4 DEF Sound
<1>6. r \in SoundTurn
  <2>1. (n = 2 => resumed) /\ n # 0
    BY DEF n
  <2>2. n = 1 /\ resumed => r.resume # NoConversation
    BY <1>1, <1>4 DEF Sound, n
  <2>3. QED
    BY <1>1, <1>4, <1>5, <2>1, <2>2 DEF SoundTurn, Sound, Ending
<1>7. turn' \in [Turn -> SoundTurn] /\ turn'[t] = r /\ OthersAlone(t)
  BY <1>3, <1>6, OneRecord DEF Shape
<1>8. /\ created' = created \cup {c} /\ reg' = reg
      /\ locked' = IF turn[t].resume = c THEN [locked EXCEPT ![c] = t] ELSE locked
  BY DEF Attempt
<1>9. locked' \in [Conversation -> Turn \cup {NoTurn}]
  BY <1>8 DEF Shape
<1>10. LockInv'
  <2>1. turn[t].resume = c => locked[c] \in {NoTurn, t}
    BY PiAssumption, <1>1 DEF Sound, LockInv
  <2>2. \A d \in Conversation : locked'[d] =
           IF d = c /\ turn[t].resume = c THEN t ELSE locked[d]
    BY <1>8 DEF Shape
  <2>3. ASSUME NEW d \in Conversation, locked'[d] # NoTurn
        PROVE  turn'[locked'[d]].pc \in Work /\ turn'[locked'[d]].resume = d
    BY <2>2, <2>3, <1>4, <1>7 DEF LockInv, OthersAlone, Shape
  <2>4. ASSUME NEW u \in Turn, turn'[u].pc \in Work, turn'[u].resume # NoConversation
        PROVE  locked'[turn'[u].resume] = u
    <3>1. CASE u = t
      BY <1>4, <1>5, <1>7, <2>2, <2>4, <3>1
    <3>2. CASE u # t
      <4>1. turn'[u] = turn[u]
        BY <1>7, <3>2 DEF OthersAlone
      <4>2. locked[turn[u].resume] = u
        BY <2>4, <4>1 DEF LockInv
      <4>3. turn[u].resume \in Conversation
        BY <2>4, <4>1 DEF Shape, SoundTurn, TurnState, MaybeConversation
      <4>4. QED
        BY PiAssumption, <2>1, <2>2, <3>2, <4>1, <4>2, <4>3
    <3>3. QED
      BY <3>1, <3>2
  <2>5. QED
    BY <2>3, <2>4 DEF LockInv
<1>11. TurnsTraced
  <2>1. c \notin created => Spawned(t, c)
    BY <1>4, <1>7, KnownInv DEF Spawned, KnownInv, Names
  <2>2. c \in created => Names(turn[t], c)
    BY DEF Names
  <2>3. \A d \in Conversation : Names(r, d) =>
           Names(turn[t], d) \/ (Spawned(t, d) /\ d \in created')
    BY <1>4, <1>8, <2>1, <2>2 DEF Names
  <2>4. Fresh(r) => \/ Fresh(turn[t]) /\ r.conv = turn[t].conv
                    \/ Spawned(t, r.conv)
    BY <1>1, <1>4, <2>1 DEF Fresh, Sound
  <2>5. QED
    BY <1>7, <1>8, <2>3, <2>4 DEF TurnsTraced, OthersAlone, Spawned
<1>12. QED
  BY <1>4, <1>7, <1>8, <1>9, <1>10, <1>11 DEF CallsKept, Shape

-----------------------------------------------------------------------------
\* What every step owes to the part that is about rows and their cached copies.
RowsKept ==
    /\ row' \in [Key -> MaybeRow] /\ cache' \in [Key -> MaybeRow]
    /\ shadowed' \in [Key -> BOOLEAN]
    /\ CacheCoherent' /\ StoreTraced

\* A step that leaves them alone.
LEMMA RowsAlone ==
    ASSUME Shape, CacheCoherent, row' = row, cache' = cache, shadowed' = shadowed
    PROVE  RowsKept
BY DEF RowsKept, Shape, CacheCoherent, StoreTraced, Stored, In

\* What a call binds or drops as the last thing it does, on disk and in the cache.
LEMMA PutKeeps ==
    ASSUME Shape, CacheCoherent, NEW t \in Turn, NEW e \in MaybeRow,
           turn[t].pc \in Work, turn'[t].pc \notin Work,
           e # NoEntry => e.cid = turn[t].conv,
           Put(t, e), Remember(t, e)
    PROVE  RowsKept
<1> DEFINE k == KeyOf(t)
           b == Isolated(t)
<1>1. k \in Key
  BY PiAssumption DEF Shape, SoundTurn, Sound, KeyOf, Work, Update, Ending
<1>2. b \in BOOLEAN
  BY DEF Isolated
<1>3. /\ row' = IF b THEN row ELSE [row EXCEPT ![k] = e]
      /\ cache' = [cache EXCEPT ![k] = e]
      /\ shadowed' = [shadowed EXCEPT ![k] = b]
  BY DEF Put, Remember
<1> HIDE DEF k, b
<1>4. CacheCoherent'
  BY <1>1, <1>2, <1>3 DEF CacheCoherent, Shape
<1>5. StoreTraced
  <2>1. \A j \in Key : /\ row'[j] \in {row[j], e}
                       /\ cache'[j] \in {cache[j], e}
    BY <1>1, <1>3 DEF Shape
  <2>2. QED
    BY <2>1 DEF StoreTraced, Stored, In, Foreign
<1>6. QED
  BY <1>1, <1>2, <1>3, <1>4, <1>5 DEF RowsKept, Shape

\* A row that changes under the cache.
LEMMA ShadowKeeps ==
    ASSUME Shape, CacheCoherent, NEW k \in Key, NEW e \in MaybeRow, cache' = cache,
           Shadow(k, e),
           e # NoEntry =>
              \/ Foreign(e.cid)
              \/ \E t \in Turn : /\ turn[t].pc \in Work /\ turn[t].conv = e.cid
                                 /\ turn'[t].pc \notin Work
    PROVE  RowsKept
<1>1. /\ row' = [row EXCEPT ![k] = e]
      /\ shadowed' = [shadowed EXCEPT ![k] = shadowed[k] \/ (cache[k] # NoEntry /\ e # row[k])]
  BY DEF Shadow
<1>2. (shadowed[k] \/ (cache[k] # NoEntry /\ e # row[k])) \in BOOLEAN
  BY DEF Shape
<1>3. shadowed' \in [Key -> BOOLEAN]
  BY <1>1, <1>2 DEF Shape
<1>4. ASSUME NEW j \in Key, cache[j] # NoEntry, ~shadowed'[j]
      PROVE  cache[j] = row'[j]
  BY <1>1, <1>4 DEF CacheCoherent, Shape
<1>5. CacheCoherent'
  BY <1>4 DEF CacheCoherent
<1>6. StoreTraced
  <2>1. \A j \in Key : row'[j] \in {row[j], e}
    BY <1>1 DEF Shape
  <2>2. QED
    BY <2>1 DEF StoreTraced, Stored, In, Foreign
<1>7. QED
  BY <1>1, <1>3, <1>5, <1>6 DEF RowsKept, Shape

-----------------------------------------------------------------------------
\* The parts make up the invariant.
LEMMA Assembled ==
    ASSUME IInv, CallsKept, RowsKept,
           reg' \in [Key -> Turn \cup {NoTurn}], RegInv',
           pending' \in [Key -> Turn \cup {NoTurn, Rejected}], SlotInv',
           clearing' = clearing
    PROVE  IInv'
<1>1. Shape'
  BY DEF IInv, Shape, CallsKept, RowsKept
<1>2. KnownInv' /\ PrivateInv'
  BY <1>1, TracesKeepPrivate DEF IInv, CallsKept, RowsKept
<1>3. QED
  BY <1>1, <1>2 DEF IInv, CallsKept, RowsKept

\* A call that is not at its read leaves the slots as they are.
LEMMA SlotsAlone ==
    ASSUME SlotInv, NEW t \in Turn, OthersAlone(t), turn'[t].pc # "read",
           pending' = pending
    PROVE  SlotInv'
BY DEF SlotInv, OthersAlone, KeyOf

\* The calls that go on keep their registrations.
GoesOn(t) == turn'[t].pc \notin Ending \cup {"idle"} /\ turn'[t].call = turn[t].call

LEMMA RegAlone ==
    ASSUME Shape, RegInv, reg' = reg,
           \A t \in Turn : turn'[t] = turn[t] \/ GoesOn(t)
    PROVE  reg' \in [Key -> Turn \cup {NoTurn}] /\ RegInv'
<1>1. ASSUME NEW k \in Key, reg'[k] # NoTurn
      PROVE  /\ turn'[reg'[k]].pc \notin Ending \cup {"idle"}
             /\ turn'[reg'[k]].call.key = k
  <2>1. PICK u \in Turn : u = reg[k]
    BY <1>1 DEF Shape
  <2>2. turn[u].pc \notin Ending \cup {"idle"} /\ turn[u].call.key = k
    BY <1>1, <2>1 DEF RegInv, Active, Ended, KeyOf
  <2>3. turn'[u].pc \notin Ending \cup {"idle"} /\ turn'[u].call.key = k
    BY <2>2 DEF GoesOn
  <2>4. QED
    BY <2>1, <2>3
<1>2. QED
  BY <1>1 DEF RegInv, Shape, Active, Ended, KeyOf

\* The end of a call, with what it has bound or dropped.
LEMMA EndStep ==
    ASSUME IInv, NEW t \in Turn, NEW ending \in Ending, End(t, ending),
           RowsKept, pending' = pending, created' = created, clearing' = clearing
    PROVE  IInv'
<1>1. /\ CallsKept /\ OthersAlone(t) /\ turn'[t].pc = ending
      /\ reg' \in [Key -> Turn \cup {NoTurn}] /\ RegInv'
  BY EndKeeps DEF IInv
<1>2. SlotInv'
  BY <1>1, SlotsAlone DEF IInv, Ending
<1>3. QED
  BY <1>1, <1>2, Assembled DEF IInv, Shape

\* A call that moves on.
LEMMA MoveStep ==
    ASSUME IInv, NEW t \in Turn, NEW r \in SoundTurn, turn' = [turn EXCEPT ![t] = r],
           UNCHANGED <<cache, shadowed, reg, row, locked, created, clearing>>,
           pending' \in [Key -> Turn \cup {NoTurn, Rejected}],
           turn'[t] = r => SlotInv',
           r.pc \notin Ending \cup {"idle"}, r.call = turn[t].call,
           r.pc \in Work <=> turn[t].pc \in Work,
           r.pc \in Work => r.resume = turn[t].resume /\ r.conv = turn[t].conv,
           \A c \in Conversation : Names(r, c) => Names(turn[t], c) \/ Stored(c)
    PROVE  IInv'
<1>1. turn' \in [Turn -> SoundTurn] /\ turn'[t] = r /\ OthersAlone(t)
  BY OneRecord DEF IInv, Shape
<1>2. CallsKept
  BY <1>1, CallsAtWorkAlone DEF IInv, OthersAlone
<1>3. RowsKept
  BY RowsAlone DEF IInv
<1>4. reg' \in [Key -> Turn \cup {NoTurn}] /\ RegInv'
  BY <1>1, RegAlone DEF IInv, OthersAlone, GoesOn
<1>5. QED
  BY <1>1, <1>2, <1>3, <1>4, Assembled

\* In particular one that neither reads nor changes a slot.
LEMMA QuietStep ==
    ASSUME IInv, NEW t \in Turn, NEW r \in SoundTurn, turn' = [turn EXCEPT ![t] = r],
           UNCHANGED <<registry, reg, row, locked, created, clearing>>,
           r.pc \notin Ending \cup {"idle", "read"}, r.call = turn[t].call,
           r.pc \in Work <=> turn[t].pc \in Work,
           r.pc \in Work => r.resume = turn[t].resume /\ r.conv = turn[t].conv,
           \A c \in Conversation : Names(r, c) => Names(turn[t], c) \/ Stored(c)
    PROVE  IInv'
<1>1. turn'[t] = r /\ OthersAlone(t)
  BY OneRecord DEF IInv, Shape
<1>2. SlotInv'
  BY <1>1, SlotsAlone DEF IInv, registry
<1>3. pending' \in [Key -> Turn \cup {NoTurn, Rejected}]
  BY DEF IInv, Shape, registry
<1>4. QED
  BY <1>2, <1>3, MoveStep DEF registry

\* An attempt.
LEMMA AttemptStep ==
    ASSUME IInv, NEW t \in Turn, NEW c \in Conversation, NEW resumed \in BOOLEAN,
           Attempt(t, c, resumed), UNCHANGED <<registry, row, clearing>>,
           turn[t].attempts \in {0, 1}, turn[t].attempts = 1 => resumed,
           \/ turn[t].pc = "decide" /\ c \notin created /\ ~resumed
           \/ turn[t].pc = "lock" /\ turn[t].resume = c /\ locked[c] = NoTurn
           \/ turn[t].pc = "settled" /\ turn[t].conv = c
    PROVE  IInv'
<1>1. RowsKept /\ pending' = pending /\ clearing' = clearing
  BY RowsAlone DEF IInv, registry
<1>2. CASE End(t, "error") /\ UNCHANGED created
  BY <1>1, <1>2, EndStep DEF Ending
<1>3. CASE ~(End(t, "error") /\ UNCHANGED created)
  <2>1. /\ CallsKept /\ OthersAlone(t) /\ reg' = reg
        /\ turn'[t].pc = "running" /\ turn'[t].call = turn[t].call
    BY <1>3, AttemptKeeps DEF IInv
  <2>2. reg' \in [Key -> Turn \cup {NoTurn}] /\ RegInv'
    BY <2>1, RegAlone DEF IInv, OthersAlone, GoesOn, Ending
  <2>3. SlotInv'
    BY <1>1, <2>1, SlotsAlone DEF IInv
  <2>4. QED
    BY <1>1, <2>1, <2>2, <2>3, Assembled DEF IInv, Shape
<1>4. QED
  BY <1>2, <1>3

-----------------------------------------------------------------------------
\* The record of a call, and that its key is one.
LEMMA RecordOf ==
    ASSUME Shape, NEW t \in Turn
    PROVE  /\ turn[t] \in TurnState /\ Sound(turn[t])
           /\ turn[t].pc \notin Ending \cup {"idle"} => KeyOf(t) \in Key
BY PiAssumption DEF Shape, SoundTurn, Sound, KeyOf

LEMMA StartKeeps ==
    ASSUME IInv, NEW t \in Turn, Start(t)
    PROVE  IInv'
<1> USE DEF Work, Update, Ending
<1>t. turn[t] \in TurnState /\ Sound(turn[t]) /\ turn[t].pc = "idle"
  BY RecordOf DEF IInv, Start
<1>r. RowsKept /\ pending' = pending /\ clearing' = clearing
  BY RowsAlone DEF IInv, Start, registry
<1>1. CASE Goto(t, "aborted") /\ UNCHANGED reg
  <2> DEFINE r == [turn[t] EXCEPT !.pc = "aborted"]
  <2>1. r \in TurnState
    BY <1>t DEF TurnState, Label
  <2>2. /\ r.pc = "aborted" /\ r.resume = turn[t].resume /\ r.recycled = turn[t].recycled
        /\ r.attempts = turn[t].attempts /\ r.resumed = turn[t].resumed
        /\ r.entry = turn[t].entry /\ r.conv = turn[t].conv
        /\ r.found = turn[t].found
    BY <1>t DEF TurnState
  <2>3. turn' = [turn EXCEPT ![t] = r]
    BY <1>1 DEF Goto
  <2> HIDE DEF r
  <2>4. r \in SoundTurn
    BY <1>t, <2>1, <2>2 DEF SoundTurn, Sound
  <2>5. turn' \in [Turn -> SoundTurn] /\ turn'[t] = r /\ OthersAlone(t)
    BY <2>3, <2>4, OneRecord DEF IInv, Shape
  <2>6. CallsKept
    BY <1>t, <2>2, <2>5, CallsAtWorkAlone DEF IInv, OthersAlone, Start, Names
  <2>7. RegInv'
    <3>1. \A k \in Key : reg[k] # NoTurn => reg[k] \in Turn \ {t}
      BY <1>t DEF IInv, RegInv, Shape, Active
    <3>2. QED
      BY <1>1, <2>5, <3>1 DEF IInv, RegInv, Active, Ended, KeyOf, OthersAlone
  <2>8. SlotInv'
    BY <1>r, <2>2, <2>5, SlotsAlone DEF IInv
  <2>9. QED
    BY <1>1, <1>r, <2>6, <2>7, <2>8, Assembled DEF IInv, Shape
<1>2. CASE \E c \in Call : /\ turn' = [turn EXCEPT ![t].pc = "enter", ![t].call = c]
                           /\ reg' = [reg EXCEPT ![c.key] = t]
  <2>c. PICK c \in Call : /\ turn' = [turn EXCEPT ![t].pc = "enter", ![t].call = c]
                          /\ reg' = [reg EXCEPT ![c.key] = t]
    BY <1>2
  <2> DEFINE r == [turn[t] EXCEPT !.pc = "enter", !.call = c]
             k == c.key
  <2>1. r \in TurnState /\ k \in Key
    BY PiAssumption, <1>t DEF TurnState, Label
  <2>2. /\ r.pc = "enter" /\ r.resume = turn[t].resume /\ r.recycled = turn[t].recycled
        /\ r.attempts = turn[t].attempts /\ r.resumed = turn[t].resumed
        /\ r.entry = turn[t].entry /\ r.conv = turn[t].conv /\ r.call = c
        /\ r.found = turn[t].found
    BY <1>t DEF TurnState
  <2>3. turn' = [turn EXCEPT ![t] = r] /\ reg' = [reg EXCEPT ![k] = t] /\ r.call.key = k
    BY <2>2, <2>c
  <2> HIDE DEF r, k
  <2>4. r \in SoundTurn
    BY <1>t, <2>1, <2>2 DEF SoundTurn, Sound
  <2>5. turn' \in [Turn -> SoundTurn] /\ turn'[t] = r /\ OthersAlone(t)
    BY <2>3, <2>4, OneRecord DEF IInv, Shape
  <2>6. CallsKept
    BY <1>t, <2>2, <2>5, CallsAtWorkAlone DEF IInv, OthersAlone, Start, Names
  <2>7. reg' \in [Key -> Turn \cup {NoTurn}] /\ RegInv'
    BY PiAssumption, <1>t, <2>1, <2>2, <2>3, <2>5
    DEF IInv, RegInv, Shape, Active, Ended, KeyOf, OthersAlone
  <2>8. SlotInv'
    BY <1>r, <2>2, <2>5, SlotsAlone DEF IInv
  <2>9. QED
    BY <1>r, <2>6, <2>7, <2>8, Assembled DEF IInv, Shape
<1>3. QED
  BY <1>1, <1>2 DEF Start

\* What the cache returns is stored.
LEMMA LookupKeeps ==
    ASSUME IInv, NEW t \in Turn, Lookup(t)
    PROVE  IInv'
<1> USE DEF Work, Update, Ending
<1> DEFINE k == KeyOf(t)
<1>t. /\ turn[t] \in TurnState /\ Sound(turn[t]) /\ turn[t].pc = "enter"
      /\ k \in Key
  BY RecordOf DEF IInv, Lookup
<1>k. k = turn[t].call.key
  BY DEF KeyOf
<1>l. \/ /\ cache[k] # NoEntry
         /\ turn' = [turn EXCEPT ![t].pc = "decide", ![t].entry = cache[k],
                                 ![t].found = IF shadowed[k] THEN NoEntry ELSE row[k]]
         /\ UNCHANGED <<pending, reg, locked>>
      \/ \E f \in Turn :
            /\ turn' = [turn EXCEPT ![t].pc = "read", ![t].flight = f]
            /\ \/ pending[k] \notin Turn /\ pending' = [pending EXCEPT ![k] = t]
               \/ pending' = pending
            /\ UNCHANGED <<reg, locked>>
      \/ End(t, "storeError") /\ UNCHANGED pending
  BY PiAssumption DEF Lookup, NoTurn
<1>u. UNCHANGED <<cache, shadowed, row, created, clearing>>
  BY DEF Lookup
<1> HIDE DEF k
<1>1. CASE /\ cache[k] # NoEntry
           /\ turn' = [turn EXCEPT ![t].pc = "decide", ![t].entry = cache[k],
                                   ![t].found = IF shadowed[k] THEN NoEntry ELSE row[k]]
           /\ UNCHANGED <<pending, reg, locked>>
  <2> DEFINE e == cache[k]
             f == IF shadowed[k] THEN NoEntry ELSE row[k]
             r == [turn[t] EXCEPT !.pc = "decide", !.entry = e, !.found = f]
  <2>1. /\ e \in MaybeRow /\ f \in MaybeRow
        /\ f # NoEntry /\ e # NoEntry => e.cid = f.cid
    BY <1>t DEF IInv, Shape, MaybeRow, CacheCoherent
  <2>2. turn' = [turn EXCEPT ![t] = r]
    BY <1>1
  <2>3. \A c \in Conversation : e.cid = c => Stored(c)
    BY <1>1, <1>t DEF Stored, In
  <2> HIDE DEF e, f
  <2>4. r \in TurnState
    BY <1>t, <2>1 DEF TurnState, Label
  <2>5. /\ r.pc = "decide" /\ r.resume = turn[t].resume /\ r.recycled = turn[t].recycled
        /\ r.attempts = turn[t].attempts /\ r.resumed = turn[t].resumed
        /\ r.entry = e /\ r.conv = turn[t].conv /\ r.call = turn[t].call
        /\ r.found = f
    BY <1>t DEF TurnState
  <2> HIDE DEF r
  <2>6. r \in SoundTurn
    BY <1>t, <2>1, <2>4, <2>5 DEF SoundTurn, Sound
  <2>7. \A c \in Conversation : Names(r, c) => Names(turn[t], c) \/ Stored(c)
    BY <2>3, <2>5 DEF Names
  <2>8. QED
    BY <1>1, <1>t, <1>u, <2>2, <2>5, <2>6, <2>7, QuietStep DEF registry
<1>2. ASSUME NEW f \in Turn,
             turn' = [turn EXCEPT ![t].pc = "read", ![t].flight = f],
             \/ pending[k] \notin Turn /\ pending' = [pending EXCEPT ![k] = t]
             \/ pending' = pending,
             UNCHANGED <<reg, locked>>
      PROVE  IInv'
  <2> DEFINE r == [turn[t] EXCEPT !.pc = "read", !.flight = f]
  <2>1. turn' = [turn EXCEPT ![t] = r]
    BY <1>2
  <2>2. r \in TurnState
    BY <1>t DEF TurnState, Label
  <2>3. /\ r.pc = "read" /\ r.resume = turn[t].resume /\ r.recycled = turn[t].recycled
        /\ r.attempts = turn[t].attempts /\ r.resumed = turn[t].resumed /\ r.flight = f
        /\ r.entry = turn[t].entry /\ r.conv = turn[t].conv /\ r.call = turn[t].call
        /\ r.found = turn[t].found
    BY <1>t DEF TurnState
  <2> HIDE DEF r
  <2>4. r \in SoundTurn
    BY <1>t, <2>2, <2>3 DEF SoundTurn, Sound
  <2>5. pending' \in [Key -> Turn \cup {NoTurn, Rejected}]
    BY <1>2, <1>t DEF IInv, Shape
  <2>6. ASSUME turn'[t] = r
        PROVE  SlotInv'
    <3>1. ~r.recycled
      BY <1>t, <2>3 DEF Sound
    <3>2. \A u \in Turn \ {t} : turn'[u] = turn[u]
      BY <2>1 DEF IInv, Shape
    <3>3. \A j \in Key : pending'[j] \in {pending[j], t}
      BY <1>2, <1>t DEF IInv, Shape
    <3>4. ASSUME NEW u \in Turn, turn'[u].pc = "read", turn'[u].recycled
          PROVE  pending'[turn'[u].call.key] # u
      <4>1. u # t /\ turn'[u] = turn[u]
        BY <2>6, <3>1, <3>2, <3>4
      <4>2. pending[KeyOf(u)] # u /\ KeyOf(u) \in Key
        BY <3>4, <4>1, RecordOf DEF IInv, SlotInv
      <4>3. QED
        BY <3>3, <4>1, <4>2 DEF KeyOf
    <3>5. QED
      BY <3>4 DEF SlotInv, KeyOf
  <2>7. \A c \in Conversation : Names(r, c) => Names(turn[t], c) \/ Stored(c)
    BY <2>3 DEF Names
  <2>8. QED
    BY <1>2, <1>t, <1>u, <2>1, <2>3, <2>4, <2>5, <2>6, <2>7, MoveStep
<1>3. CASE End(t, "storeError") /\ UNCHANGED pending
  BY <1>3, <1>u, EndStep, RowsAlone DEF IInv
<1>4. QED
  BY <1>1, <1>2, <1>3, <1>l

\* The reader and its passengers go on with what the store holds.
LEMMA ReadKeeps ==
    ASSUME IInv, NEW t \in Turn, Read(t)
    PROVE  IInv'
<1> USE DEF Work, Update, Ending
<1> DEFINE k == KeyOf(t)
           e == IF Isolated(t) THEN NoEntry ELSE row[k]
           P == Passengers(t)
<1>t. k \in Key /\ turn[t].pc = "read"
  BY RecordOf DEF IInv, Read
<1>e. e \in MaybeRow /\ e \in {NoEntry, row[k]}
  BY <1>t DEF IInv, Shape, MaybeRow
<1>a. /\ turn' = Landed(t, e)
      /\ pending' = [pending EXCEPT ![k] = IF pending[k] = t THEN NoTurn ELSE pending[k]]
      /\ \/ /\ e # NoEntry /\ cache' = [cache EXCEPT ![k] = e]
            /\ shadowed' = [shadowed EXCEPT ![k] = FALSE]
         \/ cache' = cache /\ shadowed' = shadowed
      /\ UNCHANGED <<reg, row, locked, created, clearing>>
  BY DEF Read
<1>p. P \subseteq Turn /\ \A u \in P : turn[u].pc = "read"
  BY DEF Passengers
<1>n. e # NoEntry => \A c \in Conversation : e.cid = c => Stored(c)
  BY <1>e, <1>t DEF Stored, In
<1>l. turn' = [u \in Turn |->
                 IF u \in P THEN [turn[u] EXCEPT !.pc = "decide", !.entry = e, !.found = e,
                                                 !.flight = NoTurn, !.recycled = FALSE]
                            ELSE turn[u]]
  BY <1>a DEF Landed
<1> HIDE DEF k, e, P
<1>1. ASSUME NEW u \in P
      PROVE  /\ turn'[u] \in SoundTurn /\ turn'[u].pc = "decide"
             /\ turn'[u].call = turn[u].call
             /\ \A c \in Conversation : Names(turn'[u], c) => Names(turn[u], c) \/ Stored(c)
  <2> DEFINE r == [turn[u] EXCEPT !.pc = "decide", !.entry = e, !.found = e,
                                  !.flight = NoTurn, !.recycled = FALSE]
  <2>1. turn[u] \in TurnState /\ Sound(turn[u]) /\ turn[u].pc = "read"
    BY <1>p, RecordOf DEF IInv
  <2>2. r \in TurnState
    BY <1>e, <2>1 DEF TurnState, Label
  <2>3. /\ r.pc = "decide" /\ r.resume = turn[u].resume /\ ~r.recycled
        /\ r.attempts = turn[u].attempts /\ r.resumed = turn[u].resumed
        /\ r.entry = e /\ r.conv = turn[u].conv /\ r.call = turn[u].call
        /\ r.found = e
    BY <2>1 DEF TurnState
  <2>4. turn'[u] = r
    BY <1>l, <1>p
  <2> HIDE DEF r
  <2>5. r \in SoundTurn
    BY <2>1, <2>2, <2>3 DEF SoundTurn, Sound
  <2>6. \A c \in Conversation : Names(r, c) => Names(turn[u], c) \/ Stored(c)
    BY <1>n, <2>3 DEF Names
  <2>7. QED
    BY <2>3, <2>4, <2>5, <2>6
<1>2. \A u \in Turn \ P : turn'[u] = turn[u]
  BY <1>l
<1>3. turn' \in [Turn -> SoundTurn]
  BY <1>1, <1>2, <1>l DEF IInv, Shape
<1>4. CallsKept
  <2>1. \A u \in Turn :
           /\ turn'[u].pc \in Work <=> turn[u].pc \in Work
           /\ turn'[u].pc \in Work => /\ turn'[u].resume = turn[u].resume
                                      /\ turn'[u].conv = turn[u].conv
           /\ \A c \in Conversation :
                 Names(turn'[u], c) => Names(turn[u], c) \/ Stored(c)
    BY <1>1, <1>2, <1>p
  <2>2. QED
    BY <1>3, <1>a, <2>1, CallsAtWorkAlone DEF IInv
<1>5. reg' \in [Key -> Turn \cup {NoTurn}] /\ RegInv'
  BY <1>1, <1>2, <1>a, RegAlone DEF IInv, GoesOn
<1>6. SlotInv'
  <2>1. ASSUME NEW u \in Turn, turn'[u].pc = "read", turn'[u].recycled
        PROVE  pending'[turn'[u].call.key] # u
    <3>1. turn'[u] = turn[u] /\ u # NoTurn
      BY PiAssumption, <1>1, <1>2, <2>1
    <3>2. pending[KeyOf(u)] # u /\ KeyOf(u) \in Key
      BY <2>1, <3>1, RecordOf DEF IInv, SlotInv
    <3>3. QED
      BY <1>a, <1>t, <3>1, <3>2 DEF KeyOf, IInv, Shape
  <2>2. QED
    BY <2>1 DEF SlotInv, KeyOf
<1>7. RowsKept
  <2>1. /\ cache' \in [Key -> MaybeRow] /\ shadowed' \in [Key -> BOOLEAN]
        /\ \A j \in Key : cache'[j] \in {cache[j], e}
    BY <1>a, <1>e, <1>t DEF IInv, Shape
  <2>2. CacheCoherent'
    BY <1>a, <1>e, <1>t DEF IInv, Shape, CacheCoherent
  <2>3. StoreTraced
    BY <1>a, <1>n, <2>1 DEF StoreTraced, Stored, In, Foreign
  <2>4. QED
    BY <1>a, <2>1, <2>2, <2>3 DEF RowsKept, IInv, Shape
<1>8. QED
  <2>1. pending' \in [Key -> Turn \cup {NoTurn, Rejected}]
    BY <1>a, <1>t DEF IInv, Shape
  <2>2. QED
    BY <1>4, <1>5, <1>6, <1>7, <1>a, <2>1, Assembled

\* They all fail when it rejects.
LEMMA ReadFailsKeeps ==
    ASSUME IInv, NEW t \in Turn, ReadFails(t)
    PROVE  IInv'
<1> USE DEF Work, Update, Ending
<1> DEFINE k == KeyOf(t)
           P == Passengers(t)
           r == [NewTurn EXCEPT !.pc = "storeError"]
<1>t. k \in Key
  BY RecordOf DEF IInv, ReadFails
<1>a. /\ turn' = [u \in Turn |-> IF u \in P THEN r ELSE turn[u]]
      /\ reg' = [j \in Key |-> IF reg[j] \in P THEN NoTurn ELSE reg[j]]
      /\ pending' = [pending EXCEPT ![k] = IF pending[k] = t THEN Rejected ELSE pending[k]]
      /\ UNCHANGED <<cache, shadowed, row, locked, created, clearing>>
  BY DEF ReadFails
<1>p. P \subseteq Turn /\ \A u \in P : turn[u].pc = "read"
  BY DEF Passengers
<1>r. r \in SoundTurn /\ r.pc = "storeError" /\ \A c \in Conversation : ~Names(r, c)
  BY EndRecord
<1> HIDE DEF k, P, r
<1>1. turn' \in [Turn -> SoundTurn]
  BY <1>a, <1>r DEF IInv, Shape
<1>2. CallsKept
  <2>1. \A u \in Turn :
           /\ turn'[u].pc \in Work <=> turn[u].pc \in Work
           /\ turn'[u].pc \in Work => /\ turn'[u].resume = turn[u].resume
                                      /\ turn'[u].conv = turn[u].conv
           /\ \A c \in Conversation :
                 Names(turn'[u], c) => Names(turn[u], c) \/ Stored(c)
    BY <1>a, <1>p, <1>r
  <2>2. QED
    BY <1>1, <1>a, <2>1, CallsAtWorkAlone DEF IInv
<1>3. reg' \in [Key -> Turn \cup {NoTurn}] /\ RegInv'
  <2>1. \A j \in Key : reg'[j] # NoTurn =>
           reg'[j] = reg[j] /\ reg[j] \in Turn \ P /\ turn'[reg[j]] = turn[reg[j]]
    BY <1>a DEF IInv, Shape
  <2>2. QED
    BY <1>a, <2>1 DEF IInv, Shape, RegInv, Active, Ended, KeyOf
<1>4. SlotInv'
  <2>1. ASSUME NEW u \in Turn, turn'[u].pc = "read", turn'[u].recycled
        PROVE  pending'[turn'[u].call.key] # u
    <3>1. turn'[u] = turn[u] /\ u # Rejected
      BY PiAssumption, <1>a, <1>r, <2>1 DEF Rejected
    <3>2. pending[KeyOf(u)] # u /\ KeyOf(u) \in Key
      BY <2>1, <3>1, RecordOf DEF IInv, SlotInv
    <3>3. QED
      BY <1>a, <1>t, <3>1, <3>2 DEF KeyOf, IInv, Shape
  <2>2. QED
    BY <2>1 DEF SlotInv, KeyOf
<1>5. RowsKept
  BY <1>a, RowsAlone DEF IInv
<1>6. QED
  <2>1. pending' \in [Key -> Turn \cup {NoTurn, Rejected}]
    BY <1>a, <1>t DEF IInv, Shape
  <2>2. QED
    BY <1>2, <1>3, <1>4, <1>5, <1>a, <2>1, Assembled

-----------------------------------------------------------------------------
\* The endings that bind and drop nothing.
LEMMA FailureKeeps ==
    ASSUME IInv, NEW t \in Turn, NEW ending \in Ending, End(t, ending),
           UNCHANGED <<registry, row, created, clearing>>
    PROVE  IInv'
BY RowsAlone, EndStep DEF IInv, registry

LEMMA DecideKeeps ==
    ASSUME IInv, NEW t \in Turn, Decide(t)
    PROVE  IInv'
<1> USE DEF Work, Update, Ending
<1>t. turn[t] \in TurnState /\ Sound(turn[t]) /\ turn[t].pc = "decide"
  BY RecordOf DEF IInv, Decide
<1>u. UNCHANGED <<registry, row, clearing>>
  BY DEF Decide
<1>1. CASE /\ Resumes(t)
           /\ turn' = [turn EXCEPT ![t].pc = "lock", ![t].entry = NoEntry,
                                   ![t].resume = turn[t].entry.cid]
           /\ UNCHANGED <<reg, locked, created>>
  <2> DEFINE c == turn[t].entry.cid
             r == [turn[t] EXCEPT !.pc = "lock", !.entry = NoEntry, !.resume = c]
  <2>1. turn' = [turn EXCEPT ![t] = r]
    BY <1>1
  <2>2. turn[t].entry # NoEntry /\ c \in Conversation
    BY <1>1, <1>t DEF Resumes, TurnState, MaybeRow, Row
  <2>3. Names(turn[t], c) /\ c # NoConversation
    BY PiAssumption, <2>2 DEF Names
  <2> HIDE DEF c
  <2>4. r \in TurnState
    BY <1>t, <2>2 DEF TurnState, Label, MaybeRow, MaybeConversation
  <2>5. /\ r.pc = "lock" /\ r.resume = c /\ r.recycled = turn[t].recycled
        /\ r.attempts = turn[t].attempts /\ r.resumed = turn[t].resumed
        /\ r.entry = NoEntry /\ r.conv = turn[t].conv /\ r.call = turn[t].call
        /\ r.found = turn[t].found
    BY <1>t DEF TurnState
  <2>f. r.found # NoEntry => r.found.cid = c
    BY <1>t, <2>2, <2>5 DEF Sound, c
  <2> HIDE DEF r
  <2>6. r \in SoundTurn
    BY <1>t, <2>3, <2>4, <2>5, <2>f DEF SoundTurn, Sound
  <2>7. \A d \in Conversation : Names(r, d) => Names(turn[t], d)
    BY <2>3, <2>5 DEF Names
  <2>8. QED
    BY <1>1, <1>t, <1>u, <2>1, <2>5, <2>6, <2>7, QuietStep
<1>2. CASE End(t, "error") /\ UNCHANGED created
  BY <1>2, <1>u, FailureKeeps
<1>3. CASE Conversation \ created # {} /\ Attempt(t, NewConversation, FALSE)
  <2>1. PICK c \in Conversation \ created : Attempt(t, c, FALSE)
    BY <1>3 DEF NewConversation
  <2>2. turn[t].attempts \in {0, 1} /\ (turn[t].attempts = 1 => FALSE)
    BY <1>t DEF Sound
  <2>3. QED
    BY <1>t, <1>u, <2>1, <2>2, AttemptStep
<1>4. QED
  BY <1>1, <1>2, <1>3 DEF Decide

LEMMA TakeLockKeeps ==
    ASSUME IInv, NEW t \in Turn, TakeLock(t)
    PROVE  IInv'
<1>1. turn[t] \in TurnState /\ Sound(turn[t]) /\ turn[t].pc = "lock"
  BY RecordOf DEF IInv, TakeLock
<1>2. turn[t].attempts = 0 /\ turn[t].resume \in Conversation
  BY <1>1 DEF Sound, TurnState, MaybeConversation, Work, Update
<1>3. QED
  BY <1>1, <1>2, AttemptStep DEF TakeLock

LEMMA RecoverKeeps ==
    ASSUME IInv, NEW t \in Turn, Recover(t)
    PROVE  IInv'
<1>1. turn[t] \in TurnState /\ Sound(turn[t]) /\ turn[t].pc = "settled"
  BY RecordOf DEF IInv, Recover
<1>2. turn[t].attempts # 2 /\ turn[t].conv \in Conversation
  BY <1>1 DEF Sound, Recover, canResume, Work
<1>3. turn[t].attempts \in {0, 1}
  BY <1>1, <1>2 DEF TurnState
<1>4. QED
  BY <1>1, <1>2, <1>3, AttemptStep DEF Recover

\* A call that changes neither its conversations nor its key.
SameCall(r, s) ==
    /\ r.call = s.call /\ r.recycled = s.recycled
    /\ r.entry = s.entry /\ r.found = s.found
    /\ r.resume = s.resume /\ r.attempts = s.attempts
    /\ r.conv = s.conv /\ r.resumed = s.resumed

LEMMA VerdictKeeps ==
    ASSUME IInv, NEW t \in Turn, turn[t].pc \in {"running", "settled"},
           NEW r \in TurnState, turn' = [turn EXCEPT ![t] = r], SameCall(r, turn[t]),
           r.pc \in {"running", "settled"} \cup Update,
           r.pc = "persist" => r.aborted,
           r.pc = "bind" => r.outcome = "success",
           r.pc = "rebind" => r.resumed /\ r.outcome # "success",
           UNCHANGED <<registry, reg, row, locked, created, clearing>>
    PROVE  IInv'
<1> USE DEF Work, Update, Ending, SameCall
<1>1. turn[t] \in TurnState /\ Sound(turn[t])
  BY RecordOf DEF IInv
<1>2. r \in SoundTurn
  BY <1>1 DEF SoundTurn, Sound
<1>3. \A c \in Conversation : Names(r, c) => Names(turn[t], c)
  BY DEF Names
<1>4. QED
  BY <1>2, <1>3, QuietStep

LEMMA SettleKeeps ==
    ASSUME IInv, NEW t \in Turn, Settle(t)
    PROVE  IInv'
<1>1. turn[t] \in TurnState /\ turn[t].pc = "running"
  BY RecordOf DEF IInv, Settle
<1>2. PICK outcome \in Outcome, id \in BOOLEAN :
         turn' = [turn EXCEPT ![t] = [turn[t] EXCEPT !.pc = "settled",
                                        !.outcome = outcome, !.id = id]]
  BY DEF Settle
<1> DEFINE r == [turn[t] EXCEPT !.pc = "settled", !.outcome = outcome, !.id = id]
<1>3. r \in TurnState /\ SameCall(r, turn[t]) /\ r.pc = "settled"
  BY <1>1, <1>2 DEF TurnState, Label, SameCall
<1>4. turn' = [turn EXCEPT ![t] = r]
  BY <1>2
<1>5. UNCHANGED <<registry, reg, row, locked, created, clearing>>
  BY DEF Settle
<1> HIDE DEF r
<1>6. QED
  BY <1>1, <1>3, <1>4, <1>5, VerdictKeeps

LEMMA AbortKeeps ==
    ASSUME IInv, NEW t \in Turn, Abort(t)
    PROVE  IInv'
<1> DEFINE r == [turn[t] EXCEPT !.aborted = TRUE]
<1>1. turn[t] \in TurnState /\ turn[t].pc = "running"
  BY RecordOf DEF IInv, Abort
<1>2. r \in TurnState /\ SameCall(r, turn[t]) /\ r.pc = "running"
  BY <1>1 DEF TurnState, SameCall
<1>3. /\ turn' = [turn EXCEPT ![t] = r]
      /\ UNCHANGED <<registry, reg, row, locked, created, clearing>>
  BY DEF Abort
<1> HIDE DEF r
<1>4. QED
  BY <1>1, <1>2, <1>3, VerdictKeeps

LEMMA CancelledKeeps ==
    ASSUME IInv, NEW t \in Turn, Cancelled(t)
    PROVE  IInv'
<1>1. turn[t] \in TurnState /\ turn[t].pc = "settled" /\ turn[t].aborted
  BY RecordOf DEF IInv, Cancelled
<1>2. CASE End(t, "aborted")
  BY <1>2, FailureKeeps DEF Cancelled, Ending
<1>3. CASE ~End(t, "aborted")
  <2> DEFINE r == [turn[t] EXCEPT !.pc = "persist", !.outcome = "none"]
  <2>1. /\ r \in TurnState /\ SameCall(r, turn[t])
        /\ r.pc = "persist" /\ r.aborted
    BY <1>1 DEF TurnState, SameCall, Label, Update
  <2>2. /\ turn' = [turn EXCEPT ![t] = r]
        /\ UNCHANGED <<registry, reg, row, locked, created, clearing>>
    BY <1>3 DEF Cancelled
  <2> HIDE DEF r
  <2>3. QED
    BY <1>1, <2>1, <2>2, VerdictKeeps DEF Update
<1>4. QED
  BY <1>2, <1>3

LEMMA ConcludeKeeps ==
    ASSUME IInv, NEW t \in Turn, Conclude(t)
    PROVE  IInv'
<1>1. turn[t] \in TurnState /\ turn[t].pc = "settled"
  BY RecordOf DEF IInv, Conclude
<1>2. ASSUME NEW ending \in Ending, End(t, ending)
      PROVE  IInv'
  BY <1>2, FailureKeeps DEF Conclude
<1>3. ASSUME NEW label \in {"bind", "rebind"}, Goto(t, label), UNCHANGED <<reg, locked>>,
             label = "bind" => turn[t].outcome = "success",
             label = "rebind" => turn[t].resumed /\ turn[t].outcome # "success"
      PROVE  IInv'
  <2> DEFINE r == [turn[t] EXCEPT !.pc = label]
  <2>1. /\ r \in TurnState /\ SameCall(r, turn[t])
        /\ r.pc = label /\ r.outcome = turn[t].outcome
    BY <1>1 DEF TurnState, SameCall, Label, Update
  <2>2. /\ turn' = [turn EXCEPT ![t] = r]
        /\ UNCHANGED <<registry, reg, row, locked, created, clearing>>
    BY <1>3 DEF Conclude, Goto
  <2>3. r.resumed = turn[t].resumed
    BY <2>1 DEF SameCall
  <2> HIDE DEF r
  <2>4. QED
    BY <1>1, <1>3, <2>1, <2>2, <2>3, VerdictKeeps DEF Update
<1>4. QED
  BY <1>2, <1>3 DEF Conclude, Ending

\* The endings that bind or drop.
LEMMA UpdateKeeps ==
    ASSUME IInv, NEW t \in Turn,
           PersistAbort(t) \/ BindSuccess(t) \/ Rebind(t) \/ StoreRejects(t)
    PROVE  IInv'
<1> DEFINE b == [cid |-> turn[t].conv, hashes |-> Baseline(t)]
<1>t. /\ turn[t] \in TurnState /\ Sound(turn[t]) /\ turn[t].pc \in Work
      /\ turn[t].call \in Call /\ KeyOf(t) \in Key
  BY RecordOf DEF IInv, PersistAbort, BindSuccess, Rebind, StoreRejects, Sound,
                  Work, Update, Ending
<1>b. b \in Row /\ b \in MaybeRow /\ b.cid = turn[t].conv
  <2>1. turn[t].call.thread \in Seq(Nat) /\ NoHashes \in Seq(Nat)
    BY PiAssumption, <1>t DEF NoHashes
  <2>2. QED
    BY <1>t, <2>1 DEF Sound, Row, MaybeRow, Baseline
<1>n. NoEntry \in MaybeRow
  BY DEF MaybeRow
<1>e. ASSUME NEW ending \in Ending, End(t, ending), created' = created
      PROVE  turn'[t].pc \notin Work
  BY <1>e, EndKeeps DEF IInv, Ending, Work, Update
<1> HIDE DEF b
<1>1. ASSUME NEW ending \in Ending, End(t, ending), NEW e \in {b, NoEntry},
             Put(t, e), Remember(t, e), UNCHANGED <<pending, created, clearing>>
      PROVE  IInv'
  <2>1. RowsKept
    BY <1>1, <1>b, <1>e, <1>n, <1>t, PutKeeps DEF IInv
  <2>2. QED
    BY <1>1, <2>1, EndStep
<1>2. CASE PersistAbort(t) \/ BindSuccess(t)
  BY <1>1, <1>2 DEF PersistAbort, BindSuccess, BindTo, Ending, b
<1>3. CASE Rebind(t)
  BY <1>1, <1>3 DEF Rebind, Ending
<1>4. CASE StoreRejects(t)
  <2>1. /\ End(t, "storeError") /\ UNCHANGED <<cache, pending, created, clearing>>
        /\ \/ UNCHANGED <<row, shadowed>>
           \/ \E e \in {b, NoEntry} : Shadow(KeyOf(t), e)
    BY <1>4 DEF StoreRejects, b
  <2>2. CASE UNCHANGED <<row, shadowed>>
    BY <2>1, <2>2, FailureKeeps DEF Ending, registry
  <2>3. CASE \E e \in {b, NoEntry} : Shadow(KeyOf(t), e)
    <3>1. PICK e \in {b, NoEntry} : Shadow(KeyOf(t), e)
      BY <2>3
    <3>2. turn'[t].pc \notin Work
      BY <1>e, <2>1 DEF Ending
    <3>3. RowsKept
      BY <1>b, <1>n, <1>t, <2>1, <3>1, <3>2, ShadowKeeps DEF IInv
    <3>4. QED
      BY <2>1, <3>3, EndStep DEF Ending
  <2>4. QED
    BY <2>1, <2>2, <2>3
<1>5. QED
  BY <1>2, <1>3, <1>4

-----------------------------------------------------------------------------
\* Steps that touch no call leave its part alone.
LEMMA CallsAlone ==
    ASSUME IInv, turn' = turn, locked' = locked, created' = created
    PROVE  CallsKept
BY CallsAtWorkAlone DEF IInv, Shape

LEMMA RecycleKeeps ==
    ASSUME IInv, Recycle
    PROVE  IInv'
<1> USE DEF Work, Update, Ending
<1>a. /\ turn' = [u \in Turn |-> IF turn[u].pc = "read"
                                 THEN [turn[u] EXCEPT !.recycled = TRUE]
                                 ELSE turn[u]]
      /\ cache' = [k \in Key |-> NoEntry] /\ shadowed' = [k \in Key |-> FALSE]
      /\ pending' = [k \in Key |-> NoTurn] /\ reg' = [k \in Key |-> NoTurn]
      /\ UNCHANGED <<row, locked, created, clearing>>
  BY DEF Recycle
<1>1. ASSUME NEW u \in Turn
      PROVE  /\ turn'[u] \in SoundTurn /\ turn'[u].pc = turn[u].pc
             /\ turn'[u].call = turn[u].call
             /\ turn'[u].resume = turn[u].resume /\ turn'[u].conv = turn[u].conv
             /\ turn'[u].entry = turn[u].entry
  <2> DEFINE r == [turn[u] EXCEPT !.recycled = TRUE]
  <2>1. turn[u] \in TurnState /\ Sound(turn[u]) /\ turn[u] \in SoundTurn
    BY RecordOf DEF IInv, Shape
  <2>2. r \in TurnState
    BY <2>1 DEF TurnState
  <2>3. /\ r.pc = turn[u].pc /\ r.resume = turn[u].resume
        /\ r.attempts = turn[u].attempts /\ r.resumed = turn[u].resumed
        /\ r.entry = turn[u].entry /\ r.conv = turn[u].conv /\ r.call = turn[u].call
        /\ r.aborted = turn[u].aborted /\ r.outcome = turn[u].outcome
        /\ r.flight = turn[u].flight /\ r.found = turn[u].found
    BY <2>1 DEF TurnState
  <2>4. turn'[u] = IF turn[u].pc = "read" THEN r ELSE turn[u]
    BY <1>a
  <2> HIDE DEF r
  <2>5. turn[u].pc = "read" => r \in SoundTurn
    BY <2>1, <2>2, <2>3 DEF SoundTurn, Sound
  <2>6. QED
    BY <2>1, <2>3, <2>4, <2>5
<1>2. turn' \in [Turn -> SoundTurn]
  BY <1>1, <1>a
<1>3. CallsKept
  BY <1>1, <1>2, <1>a, CallsAtWorkAlone DEF IInv, Names
<1>4. RegInv' /\ reg' \in [Key -> Turn \cup {NoTurn}]
  BY <1>a DEF RegInv
<1>5. SlotInv'
  <2>1. ASSUME NEW u \in Turn, turn'[u].pc = "read"
        PROVE  pending'[turn'[u].call.key] # u
    <3>1. KeyOf(u) \in Key /\ turn'[u].call.key = KeyOf(u)
      BY <1>1, <2>1, RecordOf DEF IInv, KeyOf
    <3>2. QED
      BY PiAssumption, <1>a, <3>1
  <2>2. QED
    BY <2>1 DEF SlotInv, KeyOf
<1>6. RowsKept
  <2>1. cache' \in [Key -> MaybeRow] /\ shadowed' \in [Key -> BOOLEAN]
    BY <1>a DEF MaybeRow
  <2>2. CacheCoherent'
    BY <1>a DEF CacheCoherent
  <2>3. StoreTraced
    BY <1>a DEF StoreTraced, Stored, In, Foreign
  <2>4. QED
    BY <1>a, <2>1, <2>2, <2>3 DEF RowsKept, IInv, Shape
<1>7. QED
  <2>1. pending' \in [Key -> Turn \cup {NoTurn, Rejected}]
    BY <1>a
  <2>2. QED
    BY <1>3, <1>4, <1>5, <1>6, <1>a, <2>1, Assembled

\* Steps of the environment on the rows and the cache.
LEMMA RowsStep ==
    ASSUME IInv, RowsKept, clearing' \in BOOLEAN,
           UNCHANGED <<turn, pending, reg, locked, created>>
    PROVE  IInv'
<1>1. CallsKept
  BY CallsAlone
<1>2. KnownInv' /\ PrivateInv'
  <2>1. Shape'
    BY DEF IInv, Shape, RowsKept
  <2>2. QED
    BY <1>1, <2>1, TracesKeepPrivate DEF IInv, CallsKept, RowsKept
<1>3. Shape'
  BY DEF IInv, Shape, RowsKept
<1>4. RegInv' /\ SlotInv'
  BY DEF IInv, RegInv, SlotInv, Active, Ended, KeyOf
<1>5. QED
  BY <1>1, <1>2, <1>3, <1>4 DEF IInv, CallsKept, RowsKept

LEMMA ClearKeeps ==
    ASSUME IInv, ClearSession \/ ClearThread \/ ClearFails
    PROVE  IInv'
<1>n. NoEntry \in MaybeRow /\ SessionKey \in Key /\ ThreadKey \in Key
  BY PiAssumption DEF MaybeRow
<1>1. CASE ClearSession
  BY <1>1, <1>n, ShadowKeeps, RowsStep DEF IInv, ClearSession
<1>2. CASE ClearThread
  <2>1. /\ row' = [row EXCEPT ![ThreadKey] = NoEntry]
        /\ cache' = [cache EXCEPT ![SessionKey] = NoEntry, ![ThreadKey] = NoEntry]
        /\ shadowed' = [shadowed EXCEPT ![SessionKey] = FALSE, ![ThreadKey] = FALSE]
    BY <1>2 DEF ClearThread
  <2>2. /\ row' \in [Key -> MaybeRow] /\ cache' \in [Key -> MaybeRow]
        /\ shadowed' \in [Key -> BOOLEAN]
        /\ \A j \in Key : row'[j] \in {row[j], NoEntry} /\ cache'[j] \in {cache[j], NoEntry}
    BY <1>n, <2>1 DEF IInv, Shape
  <2>3. CacheCoherent'
    BY <1>n, <2>1 DEF IInv, Shape, CacheCoherent
  <2>4. StoreTraced
    BY <2>2 DEF StoreTraced, Stored, In, Foreign
  <2>5. RowsKept
    BY <2>2, <2>3, <2>4 DEF RowsKept
  <2>6. QED
    BY <1>2, <2>5, RowsStep DEF ClearThread
<1>3. CASE ClearFails
  BY <1>3, RowsAlone, RowsStep DEF IInv, ClearFails, registry
<1>4. QED
  BY <1>1, <1>2, <1>3

LEMMA ElsewhereKeeps ==
    ASSUME IInv, NEW k \in Shared, Elsewhere(k)
    PROVE  IInv'
<1>1. PICK e \in ForeignRows \cup {NoEntry} : Shadow(k, e)
  BY DEF Elsewhere
<1>2. /\ k \in Key /\ e \in MaybeRow
      /\ e # NoEntry => Foreign(e.cid)
  BY PiAssumption, <1>1 DEF MaybeRow, Foreign
<1>3. RowsKept
  BY <1>1, <1>2, ShadowKeeps DEF IInv, Elsewhere
<1>4. QED
  BY <1>3, RowsStep DEF IInv, Shape, Elsewhere

-----------------------------------------------------------------------------
\* The invariant of the specification.
LEMMA SessionInvariant == Spec => []IInv
<1>1. Init => IInv
  <2> SUFFICES ASSUME Init
               PROVE  IInv
    OBVIOUS
  <2>1. NewTurn \in SoundTurn /\ NewTurn.pc = "idle" /\ NewTurn.entry = NoEntry
        /\ NewTurn.resume = NoConversation /\ NewTurn.conv = NoConversation
    <3>1. /\ NoCall \in Call \cup {NoCall} /\ NoTurn \in Turn \cup {NoTurn}
          /\ NoEntry \in MaybeRow /\ NoConversation \in MaybeConversation
          /\ 0 \in 0..2 /\ "none" \in Outcome \cup {"none"} /\ "idle" \in Label
      BY DEF MaybeRow, MaybeConversation, Label
    <3>2. NewTurn \in TurnState
      BY <3>1 DEF NewTurn, TurnState
    <3>3. Sound(NewTurn)
      BY DEF NewTurn, Sound, Work, Update, Ending
    <3>4. QED
      BY <3>2, <3>3 DEF SoundTurn, NewTurn
  <2>2. /\ turn = [t \in Turn |-> NewTurn] /\ cache = [k \in Key |-> NoEntry]
        /\ pending = [k \in Key |-> NoTurn] /\ reg = [k \in Key |-> NoTurn]
        /\ row \in InitialRows /\ locked = [c \in Conversation |-> NoTurn]
        /\ created = Cids(row) \cup {e.cid : e \in ForeignRows}
        /\ clearing = FALSE /\ shadowed = [k \in Key |-> FALSE]
    BY DEF Init
  <2> HIDE DEF NewTurn
  <2>3. /\ row \in [Key -> MaybeRow]
        /\ created \subseteq Conversation
        /\ \A c : In(row, c) \/ Foreign(c) => c \in created
    BY PiAssumption, <2>2 DEF Cids, In, Foreign, MaybeRow, Row
  <2>4. Shape
    BY <2>1, <2>2, <2>3 DEF Shape, MaybeRow
  <2>5. LockInv /\ RegInv /\ SlotInv /\ CacheCoherent
    BY <2>1, <2>2 DEF LockInv, RegInv, SlotInv, CacheCoherent, Work, Update
  <2>6. KnownInv
    BY PiAssumption, <2>1, <2>2, <2>3 DEF KnownInv, Names, Stored, In
  <2>7. PrivateInv
    BY <2>1, <2>2 DEF PrivateInv, Fresh, Work, Update
  <2>8. QED
    BY <2>4, <2>5, <2>6, <2>7 DEF IInv
<1>2. IInv /\ [Next]_vars => IInv'
  <2> SUFFICES ASSUME IInv, [Next]_vars
               PROVE  IInv'
    OBVIOUS
  <2>1. ASSUME NEW t \in Turn, Proceed(t)
        PROVE  IInv'
    <3>1. CASE EnterFails(t) \/ LockBusy(t)
      BY <3>1, FailureKeeps DEF EnterFails, LockBusy, Ending
    <3>2. CASE Lookup(t) \/ Read(t) \/ ReadFails(t)
      BY <3>2, LookupKeeps, ReadKeeps, ReadFailsKeeps
    <3>3. CASE Decide(t) \/ TakeLock(t) \/ Settle(t) \/ Cancelled(t)
      BY <3>3, DecideKeeps, TakeLockKeeps, SettleKeeps, CancelledKeeps
    <3>4. CASE Recover(t) \/ Conclude(t)
      BY <3>4, RecoverKeeps, ConcludeKeeps
    <3>5. CASE PersistAbort(t) \/ BindSuccess(t) \/ Rebind(t) \/ StoreRejects(t)
      BY <3>5, UpdateKeeps
    <3>6. QED
      BY <2>1, <3>1, <3>2, <3>3, <3>4, <3>5 DEF Proceed
  <2>2. CASE Environment
    BY <2>2, RecycleKeeps, ClearKeeps, ElsewhereKeeps DEF Environment
  <2>3. CASE UNCHANGED vars
    BY <2>3, RowsAlone, RowsStep DEF IInv, Shape, vars
  <2>4. QED
    BY <2>1, <2>2, <2>3, StartKeeps, AbortKeeps DEF Next
<1>3. QED
  BY <1>1, <1>2, PTL DEF Spec

-----------------------------------------------------------------------------
\* The records of the calls, the registry and the rows are what the code declares
\* them to be, and the store and its cache name only conversations that exist.
THEOREM TypeCorrect == Spec => []TypeOK
<1>1. IInv => TypeOK
  <2> SUFFICES ASSUME IInv
               PROVE  TypeOK
    OBVIOUS
  <2>1. Cids(row) \cup Cids(cache) \subseteq created
    BY DEF IInv, Shape, KnownInv, Stored, In, Cids, MaybeRow, Row
  <2>2. QED
    BY <2>1 DEF IInv, Shape, TypeOK, SoundTurn
<1>2. QED
  BY <1>1, SessionInvariant, PTL

\* Two runs of agy never write one conversation at once, whichever calls they
\* belong to and whatever a recycle, a clear or another process does to the rows:
\* the lock excludes the calls that resume a conversation, and one that is being
\* started is known to no lookup before its call has ended.
THEOREM OneRun == Spec => []OneRunPerConversation
<1>1. IInv => OneRunPerConversation
  <2> SUFFICES ASSUME IInv, NEW t \in Turn, NEW u \in Turn,
                      turn[t].pc = "running", turn[u].pc = "running",
                      turn[t].conv = turn[u].conv, t # u
               PROVE  FALSE
    BY DEF OneRunPerConversation
  <2>1. /\ turn[t].pc \in Work /\ turn[u].pc \in Work
        /\ turn[t].conv \in Conversation
    BY DEF IInv, Shape, SoundTurn, Sound, Work
  <2>2. turn[t].resume # NoConversation /\ turn[u].resume # NoConversation
    BY <2>1 DEF IInv, PrivateInv, Fresh, Names
  <2>3. turn[t].conv = turn[t].resume /\ turn[u].conv = turn[u].resume
    BY <2>1, <2>2, RecordOf DEF IInv, Sound
  <2>4. QED
    BY <2>1, <2>2, <2>3 DEF IInv, LockInv
<1>2. QED
  BY <1>1, SessionInvariant, PTL

\* No ending of a call, and no recycle, leaves a conversation lock or a
\* registration behind.
THEOREM NoLeak == Spec => []NothingLeaks
<1>1. IInv => NothingLeaks
  BY DEF IInv, LockInv, RegInv, NothingLeaks, Active, Ended, Work, Update, Ending
<1>2. QED
  BY <1>1, SessionInvariant, PTL

\* The in-memory cache never contradicts the store, but for changes of the row
\* that this process is not told of.
THEOREM CacheIsCoherent == Spec => []CacheCoherent
<1>1. IInv => CacheCoherent
  BY DEF IInv
<1>2. QED
  BY <1>1, SessionInvariant, PTL

\* The reads apart, a step of a call touches no record but its own.
LEMMA StepsAreLocal ==
    ASSUME Shape, NEW t \in Turn, Start(t) \/ Proceed(t) \/ Abort(t),
           ~Read(t), ~ReadFails(t)
    PROVE  OthersAlone(t)
<1> USE DEF Shape, OthersAlone, Goto, End
<1>1. CASE Start(t) \/ EnterFails(t) \/ Lookup(t) \/ LockBusy(t)
  BY <1>1 DEF Start, EnterFails, Lookup, LockBusy
<1>2. CASE Decide(t) \/ TakeLock(t) \/ Recover(t)
  BY <1>2 DEF Decide, TakeLock, Recover, Attempt
<1>3. CASE Settle(t) \/ Cancelled(t) \/ Conclude(t) \/ Abort(t)
  BY <1>3 DEF Settle, Cancelled, Conclude, Abort
<1>4. CASE PersistAbort(t) \/ BindSuccess(t) \/ Rebind(t) \/ StoreRejects(t)
  BY <1>4 DEF PersistAbort, BindSuccess, Rebind, StoreRejects
<1>5. QED
  BY <1>1, <1>2, <1>3, <1>4 DEF Proceed

\* A store read that a recycle has passed changes neither the cache nor the slot,
\* which by then may belong to a later read of the same key.
THEOREM LateResultsStayOut == Spec => LateResultStaysOut
<1>1. ASSUME IInv, Next, NEW t \in Turn, turn[t].pc = "read", turn[t].flight = t,
             turn[t].recycled, turn'[t].pc = "decide"
      PROVE  cache' = cache /\ pending' = pending
  <2>1. CASE Environment
    <3>1. turn' = turn \/ Recycle
      BY <2>1 DEF Environment, ClearSession, ClearThread, ClearFails, Elsewhere
    <3>2. turn[t] \in TurnState
      BY <1>1, RecordOf DEF IInv
    <3>3. QED
      BY <1>1, <3>1, <3>2 DEF Recycle, TurnState
  <2>2. ASSUME NEW u \in Turn, Start(u) \/ Proceed(u) \/ Abort(u)
        PROVE  cache' = cache /\ pending' = pending
    <3>1. CASE Read(u) \/ ReadFails(u)
      <4>1. t \in Passengers(u) <=> u = t
        BY <1>1 DEF Passengers
      <4>2. u = t
        BY <1>1, <3>1, <4>1 DEF Read, ReadFails, Landed
      <4>3. ~ReadFails(t)
        BY <1>1, <4>1, <4>2 DEF ReadFails, NewTurn
      <4>4. Read(t)
        BY <3>1, <4>2, <4>3
      <4>5. pending[KeyOf(t)] # t
        BY <1>1 DEF IInv, SlotInv
      <4>6. PICK k \in Key : k = KeyOf(t)
        BY <1>1, RecordOf DEF IInv, Ending
      <4>7. pending' = [pending EXCEPT ![k] = pending[k]] /\ cache' = cache
        BY <4>4, <4>5, <4>6 DEF Read
      <4>8. QED
        BY <1>1, <4>7 DEF IInv, Shape
    <3>2. CASE ~Read(u) /\ ~ReadFails(u)
      <4>1. u = t
        BY <1>1, <2>2, <3>2, StepsAreLocal DEF IInv, OthersAlone
      <4>2. QED
        BY <1>1, <2>2, <3>2, <4>1
        DEF Proceed, Start, EnterFails, Lookup, Decide, TakeLock, LockBusy, Settle,
            Cancelled, Recover, canResume, Conclude, PersistAbort, BindSuccess, Rebind,
            StoreRejects, Update, Abort
    <3>3. QED
      BY <3>1, <3>2
  <2>3. QED
    BY <1>1, <2>1, <2>2 DEF Next
<1>2. IInv /\ [Next]_vars =>
         [\A t \in Turn :
             /\ turn[t].pc = "read" /\ turn[t].flight = t /\ turn[t].recycled
             /\ turn'[t].pc = "decide"
             => cache' = cache /\ pending' = pending]_vars
  BY <1>1
<1>3. QED
  BY <1>2, SessionInvariant, PTL DEF Spec, LateResultStaysOut

\* What a call gives for taking a binding away.
DropsForCause(t, k) ==
    /\ turn[t].resumed /\ turn[t].outcome # "success"
    /\ \/ row[k].cid = turn[t].conv
       \/ turn[t].attempts = 2
       \/ row[k] # turn[t].found

\* A call binds nothing but its own conversation to its own key, for a delivered
\* answer or a cancelled run.  It drops a binding only after a resumed attempt of its
\* own has failed, and then the binding is to the conversation of that attempt,
\* unless the attempt was a recovery or the row has changed since the call looked.
THEOREM BindingsForCause == Spec => BindingsChangeForCause
<1>1. ASSUME IInv, Next, NEW t \in Turn, ~Ended(t), turn'[t].pc \in Ending, NEW k \in Key,
             row'[k] # row[k]
      PROVE  /\ KeyOf(t) = k
             /\ IF row'[k] = NoEntry
                THEN DropsForCause(t, k)
                ELSE /\ turn[t].outcome = "success" \/ turn[t].aborted
                     /\ row'[k] = [cid |-> turn[t].conv, hashes |-> Baseline(t)]
  <2> DEFINE b == [cid |-> turn[t].conv, hashes |-> Baseline(t)]
  <2>1. PICK u \in Turn : Start(u) \/ Proceed(u) \/ Abort(u)
    <3>1. ~Environment
      BY <1>1 DEF Environment, Recycle, ClearSession, ClearThread, ClearFails,
                  Elsewhere, Ended
    <3>2. QED
      BY <1>1, <3>1 DEF Next
  <2>2. PersistAbort(u) \/ BindSuccess(u) \/ Rebind(u) \/ StoreRejects(u)
    BY <1>1, <2>1 DEF Proceed, Start, EnterFails, Lookup, Read, ReadFails, Decide,
       TakeLock, LockBusy, Settle, Cancelled, Recover, Conclude, Abort
  <2>3. u = t
    <3>1. ~Read(u) /\ ~ReadFails(u)
      BY <2>2 DEF Read, ReadFails, PersistAbort, BindSuccess, Rebind, StoreRejects, Update
    <3>2. QED
      BY <1>1, <2>1, <3>1, StepsAreLocal DEF IInv, OthersAlone, Ended
  <2>4. b # NoEntry /\ Sound(turn[t])
    <3>1. /\ turn[t] \in TurnState /\ Sound(turn[t]) /\ turn[t].call \in Call
          /\ turn[t].conv \in Conversation
      BY <1>1, <2>2, <2>3, RecordOf DEF IInv, PersistAbort, BindSuccess, Rebind, StoreRejects,
         Sound, Work, Update, Ending
    <3>2. turn[t].call.thread \in Seq(Nat) /\ NoHashes \in Seq(Nat)
      BY PiAssumption, <3>1 DEF NoHashes
    <3>3. b \in Row
      BY <3>1, <3>2 DEF Row, Baseline
    <3>4. QED
      BY PiAssumption, <3>1, <3>3
  <2> HIDE DEF b
  <2>5. \E e \in {b, NoEntry} :
           /\ row' = [row EXCEPT ![KeyOf(t)] = e]
           /\ e = b <=> turn[t].pc # "rebind"
    BY <1>1, <2>2, <2>3, <2>4
    DEF PersistAbort, BindSuccess, Rebind, StoreRejects, BindTo, Put, Shadow, Update, b
  <2>6. PICK e \in {b, NoEntry} : /\ row' = [row EXCEPT ![KeyOf(t)] = e]
                                  /\ e = b <=> turn[t].pc # "rebind"
    BY <2>5
  <2>7. KeyOf(t) = k /\ row'[k] = e
    BY <1>1, <2>6 DEF IInv, Shape
  <2>8. turn[t].pc \in Update
    BY <2>2, <2>3 DEF PersistAbort, BindSuccess, Rebind, StoreRejects, Update
  <2>9. CASE turn[t].pc = "rebind"
    <3>1. row'[k] = NoEntry /\ row[k] # NoEntry
      BY <1>1, <2>4, <2>6, <2>7, <2>9
    <3>2. turn[t] \in TurnState
      BY <1>1, RecordOf DEF IInv
    <3>3. turn[t].attempts # 2 /\ row[k] = turn[t].found => row[k].cid = turn[t].conv
      BY <2>4, <2>9, <3>1, <3>2 DEF Sound, TurnState, Work, Update
    <3>4. QED
      BY <2>4, <2>7, <2>9, <3>1, <3>3 DEF Sound, DropsForCause
  <2>10. CASE turn[t].pc \in {"persist", "bind"}
    BY <2>4, <2>6, <2>7, <2>10 DEF Sound, b
  <2>11. QED
    BY <2>8, <2>9, <2>10 DEF Update
<1>2. IInv /\ [Next]_vars =>
         [\A t \in Turn : ~Ended(t) /\ Ended(t)' =>
             \A k \in Key : row'[k] # row[k] =>
                /\ KeyOf(t) = k
                /\ IF row'[k] = NoEntry
                   THEN DropsForCause(t, k)
                   ELSE /\ turn[t].outcome = "success" \/ turn[t].aborted
                        /\ row'[k] = [cid |-> turn[t].conv, hashes |-> Baseline(t)]]_vars
  BY <1>1 DEF Ended
<1>3. QED
  BY <1>2, SessionInvariant, PTL DEF Spec, BindingsChangeForCause, DropsForCause
=============================================================================
