--------------------------- MODULE SessionFile_proof ---------------------------
(***************************************************************************)
(* Proofs about SessionFile for any sessions, conversations, operations,   *)
(* cap and retention age: whatever the turns do in whatever order, a list  *)
(* of bindings stays sound, and agents that share a session cost each      *)
(* other nothing but what the cap demands.                                 *)
(***************************************************************************)
EXTENDS SessionFile, Bindings_proof

Entry == [cid : Conversation, baseline : [known : BOOLEAN, of : Seq(Nat)], at : 0..MaxClock]

\* A list that the store may hold when the clock shows now.
SoundList(list, now) ==
    /\ list \in Seq(Entry) /\ Len(list) <= MaxBindings
    /\ \A i \in DOMAIN list : list[i].at <= now
    /\ OneEach(list)

\* Nothing in the file is dated after the clock: without it the eviction could
\* find the entry just bound the oldest.
IInv ==
    /\ clock \in 0..MaxClock
    /\ sessions \in [Session -> {l \in Seq(Entry) : SoundList(l, clock)}]
    /\ bound = NothingBound \/ bound \in Session \X Conversation
    /\ JustBoundSurvives

\* The initial file: no entry, or one from before the upgrade.
LEMMA InitSound == Init => IInv
<1> SUFFICES ASSUME Init PROVE IInv
  OBVIOUS
<1>1. clock = 0 /\ bound = NothingBound /\ 0 \in 0..MaxClock
  BY FileAssumption DEF Init
<1>2. <<>> \in Seq(Entry) /\ SoundList(<<>>, 0)
  BY BindingsAssumption DEF SoundList, OneEach
<1>3. ASSUME NEW c \in Conversation
      PROVE  LET l == <<Binding(c, NoHashes, 0)>> IN l \in Seq(Entry) /\ SoundList(l, 0)
  <2>1. Binding(c, NoHashes, 0) \in Entry /\ Binding(c, NoHashes, 0).at = 0
    BY <1>1 DEF Binding, NoHashes, Entry
  <2> DEFINE e == Binding(c, NoHashes, 0)
             l == <<e>>
  <2> HIDE DEF e
  <2>2. l \in Seq(Entry) /\ Len(l) = 1 /\ DOMAIN l = {1} /\ l[1] = e
    BY <2>1 DEF e
  <2>3. SoundList(l, 0)
    BY <2>1, <2>2, BindingsAssumption DEF SoundList, OneEach, e
  <2>4. QED
    BY <2>2, <2>3 DEF e
<1>4. sessions \in [Session -> {l \in Seq(Entry) : SoundList(l, 0)}]
  <2> DEFINE Lists == {l \in Seq(Entry) : SoundList(l, 0)}
             old(c) == <<Binding(c, NoHashes, 0)>>
  <2>1. <<>> \in Lists /\ \A c \in Conversation : old(c) \in Lists
    BY <1>2, <1>3
  <2>2. \/ sessions = [s \in Session |-> <<>>]
        \/ \E s0 \in Session, c \in Conversation :
              sessions = [s \in Session |-> IF s = s0 THEN old(c) ELSE <<>>]
    BY DEF Init, Legacy
  <2> HIDE DEF Lists, old
  <2>3. sessions \in [Session -> Lists]
    BY <2>1, <2>2
  <2>4. QED
    BY <2>3 DEF Lists
<1>5. QED
  BY <1>1, <1>4 DEF IInv, JustBoundSurvives, NothingBound

-----------------------------------------------------------------------------
\* What an operation finds: the file without what is past its age.
LEMMA LoadedSound ==
    ASSUME IInv
    PROVE  /\ Loaded(sessions, clock) \in [Session -> {l \in Seq(Entry) : SoundList(l, clock)}]
           /\ \A s \in Session :
                 /\ Loaded(sessions, clock)[s] = Fresh(sessions[s], clock)
                 /\ Entries(Fresh(sessions[s], clock)) \subseteq Entries(sessions[s])
                 /\ Len(Fresh(sessions[s], clock)) <= Len(sessions[s])
<1>1. ASSUME NEW s \in Session
      PROVE  LET l == Fresh(sessions[s], clock)
             IN /\ l \in Seq(Entry) /\ SoundList(l, clock)
                /\ Entries(l) \subseteq Entries(sessions[s])
                /\ Len(l) <= Len(sessions[s])
  <2> DEFINE l == Fresh(sessions[s], clock)
  <2>1. sessions[s] \in Seq(Entry) /\ SoundList(sessions[s], clock)
    BY DEF IInv
  <2>2. /\ l \in Seq(Entry) /\ Len(l) <= Len(sessions[s])
        /\ Entries(l) \subseteq Entries(sessions[s])
        /\ OneEach(l)
    BY <2>1, FreshSound DEF SoundList
  <2> HIDE DEF l
  <2>3. \A i \in DOMAIN l : l[i].at <= clock
    BY <2>1, <2>2 DEF SoundList, Entries
  <2>4. Len(l) <= MaxBindings
    BY <2>1, <2>2, BindingsAssumption DEF SoundList
  <2>5. SoundList(l, clock)
    BY <2>2, <2>3, <2>4 DEF SoundList
  <2>6. QED
    BY <2>2, <2>5 DEF l
<1>2. QED
  BY <1>1 DEF Loaded

\* What a bind makes of the list it finds.
LEMMA BindIsSound ==
    ASSUME NEW list \in Seq(Entry), SoundList(list, clock), clock \in 0..MaxClock,
           NEW c \in Conversation,
           NEW baseline \in [known : BOOLEAN, of : Seq(Nat)]
    PROVE  LET new   == Binding(c, baseline, clock)
               after == Bind(list, c, baseline, clock)
           IN /\ after \in Seq(Entry) /\ SoundList(after, clock)
              /\ new \in Entries(after)
              /\ Entries(after) \subseteq Entries(list) \cup {new}
              /\ \E i \in 0 .. Len(list) :
                    /\ i # 0 => MayBeLost(list, list[i], new)
                    /\ \A j \in DOMAIN list \ {i} : list[j] \in Entries(after)
<1> DEFINE new   == Binding(c, baseline, clock)
           after == Bind(list, c, baseline, clock)
<1>0. clock \in Nat /\ MaxClock \in Nat
  BY FileAssumption
<1>1. new \in Entry /\ new.at = clock
  BY DEF Binding, Entry
<1>2. \A i \in DOMAIN list : list[i].at \in Nat /\ list[i].at <= clock
  <2>1. \A i \in DOMAIN list : list[i] \in Entry
    OBVIOUS
  <2>2. QED
    BY <2>1, <1>0 DEF SoundList, Entry
<1>3. Len(list) <= MaxBindings /\ OneEach(list)
  BY DEF SoundList
<1>4. /\ after \in Seq(Entry) /\ Len(after) <= MaxBindings
      /\ new \in Entries(after)
      /\ Entries(after) \subseteq Entries(list) \cup {new}
      /\ OneEach(list) => OneEach(after)
      /\ \E i \in 0 .. Len(list) :
            /\ i # 0 => MayBeLost(list, list[i], new)
            /\ \A j \in DOMAIN list \ {i} : list[j] \in Entries(after)
  BY <1>0, <1>1, <1>2, <1>3, BindSound
<1> HIDE DEF new, after
<1>5. \A i \in DOMAIN after : after[i].at <= clock
  <2>1. \A i \in DOMAIN after :
           after[i] = new \/ \E j \in DOMAIN list : after[i] = list[j]
    BY <1>4 DEF Entries
  <2>2. QED
    BY <1>0, <1>1, <1>2, <2>1
<1>6. SoundList(after, clock)
  BY <1>3, <1>4, <1>5 DEF SoundList
<1>7. QED
  BY <1>4, <1>6 DEF new, after

\* The file after an operation: every list is sound, and only the list of a bind
\* gains an entry.
LEMMA OperateSound ==
    ASSUME IInv, NEW o \in Ops, Operate(o)
    PROVE  /\ sessions' \in [Session -> {l \in Seq(Entry) : SoundList(l, clock)}]
           /\ o.kind = "bind" =>
                 sessions'[o.s] = Bind(Fresh(sessions[o.s], clock), o.c, o.baseline, clock)
           /\ \A s \in Session : (o.kind # "bind" \/ s # o.s) =>
                 Entries(sessions'[s]) \subseteq Entries(sessions[s])
<1> DEFINE loaded == Loaded(sessions, clock)
           Lists  == {l \in Seq(Entry) : SoundList(l, clock)}
<1>1. /\ loaded \in [Session -> Lists]
      /\ \A s \in Session :
            /\ loaded[s] = Fresh(sessions[s], clock)
            /\ Entries(loaded[s]) \subseteq Entries(sessions[s])
  BY LoadedSound
<1>2. sessions' = IF Writes(o, sessions, clock) THEN Result(o, sessions, clock) ELSE sessions
  BY DEF Operate, Apply
<1>3. sessions \in [Session -> Lists]
  BY DEF IInv
<1>o. /\ o.kind \in {"bind", "rebind", "rebindAll", "prune", "read"}
      /\ o.kind \in {"bind", "rebind", "rebindAll"} => o.s \in Session
      /\ o.kind = "bind" => /\ o.c \in Conversation
                            /\ o.baseline \in [known : BOOLEAN, of : Seq(Nat)]
  BY FileAssumption
<1> SUFFICES /\ sessions' \in [Session -> Lists]
             /\ o.kind = "bind" =>
                   sessions'[o.s] = Bind(Fresh(sessions[o.s], clock), o.c, o.baseline, clock)
             /\ \A s \in Session : (o.kind # "bind" \/ s # o.s) =>
                   Entries(sessions'[s]) \subseteq Entries(sessions[s])
  OBVIOUS
<1>4. CASE o.kind = "bind"
  <2> DEFINE after == Bind(loaded[o.s], o.c, o.baseline, clock)
  <2>1. sessions' = [loaded EXCEPT ![o.s] = after]
    BY <1>2, <1>4 DEF Writes, Result
  <2>2. after \in Lists
    BY <1>1, <1>4, <1>o, BindIsSound DEF IInv
  <2> HIDE DEF after, loaded, Lists
  <2>3. sessions' \in [Session -> Lists] /\ sessions'[o.s] = after
        /\ \A s \in Session \ {o.s} : sessions'[s] = loaded[s]
    BY <1>1, <1>4, <1>o, <2>1, <2>2
  <2>4. QED
    BY <1>1, <1>4, <1>o, <2>3 DEF after
<1>5. CASE o.kind = "rebind"
  <2> DEFINE after == Drop(loaded[o.s], o.c)
  <2>1. sessions' = sessions \/ sessions' = [loaded EXCEPT ![o.s] = after]
    BY <1>2, <1>5 DEF Result
  <2>2. after \in Lists /\ Entries(after) \subseteq Entries(loaded[o.s])
    <3> DEFINE l == loaded[o.s]
    <3>1. l \in Seq(Entry) /\ SoundList(l, clock)
      BY <1>1, <1>5, <1>o
    <3> HIDE DEF l
    <3>2. /\ Drop(l, o.c) \in Seq(Entry) /\ Len(Drop(l, o.c)) <= Len(l)
          /\ Entries(Drop(l, o.c)) \subseteq Entries(l)
          /\ OneEach(Drop(l, o.c))
      BY <3>1, DropSound DEF SoundList
    <3>3. \A i \in DOMAIN Drop(l, o.c) : Drop(l, o.c)[i].at <= clock
      BY <3>1, <3>2 DEF SoundList, Entries
    <3>4. Len(Drop(l, o.c)) <= MaxBindings
      BY <3>1, <3>2, BindingsAssumption DEF SoundList
    <3>5. SoundList(Drop(l, o.c), clock)
      BY <3>2, <3>3, <3>4 DEF SoundList
    <3>6. QED
      BY <3>2, <3>5 DEF l
  <2> HIDE DEF after, loaded, Lists
  <2>3. CASE sessions' = sessions
    BY <1>3, <1>5, <2>3
  <2>4. CASE sessions' = [loaded EXCEPT ![o.s] = after]
    <3>1. sessions' \in [Session -> Lists] /\ sessions'[o.s] = after
          /\ \A s \in Session \ {o.s} : sessions'[s] = loaded[s]
      BY <1>1, <1>5, <1>o, <2>2, <2>4
    <3>2. QED
      BY <1>1, <1>5, <2>2, <3>1
  <2>5. QED
    BY <2>1, <2>3, <2>4
<1>6. CASE o.kind = "rebindAll"
  <2>1. sessions' = sessions \/ sessions' = [loaded EXCEPT ![o.s] = <<>>]
    BY <1>2, <1>6 DEF Result
  <2>2. <<>> \in Lists /\ Entries(<<>>) = {}
    BY BindingsAssumption DEF SoundList, OneEach, Entries
  <2> HIDE DEF loaded, Lists
  <2>3. CASE sessions' = sessions
    BY <1>3, <1>6, <2>3
  <2>4. CASE sessions' = [loaded EXCEPT ![o.s] = <<>>]
    <3>1. sessions' \in [Session -> Lists] /\ sessions'[o.s] = <<>>
          /\ \A s \in Session \ {o.s} : sessions'[s] = loaded[s]
      BY <1>1, <1>6, <1>o, <2>2, <2>4
    <3>2. QED
      BY <1>1, <1>6, <2>2, <3>1
  <2>5. QED
    BY <2>1, <2>3, <2>4
<1>7. CASE o.kind \in {"prune", "read"}
  <2>1. sessions' = sessions \/ sessions' = loaded
    BY <1>2, <1>7 DEF Result
  <2> HIDE DEF loaded, Lists
  <2>2. QED
    BY <1>1, <1>3, <1>7, <2>1
<1>8. QED
  BY <1>o, <1>4, <1>5, <1>6, <1>7

-----------------------------------------------------------------------------
\* Time only widens what may be dated.
LEMMA TickSound == IInv /\ Tick => IInv'
<1> SUFFICES ASSUME IInv, Tick PROVE IInv'
  OBVIOUS
<1>0. clock \in 0..MaxClock /\ MaxClock \in Nat
  BY FileAssumption DEF IInv
<1>1. /\ clock' = clock + 1 /\ clock' \in 0..MaxClock /\ clock <= clock'
      /\ sessions' = sessions /\ bound' = bound
  BY <1>0 DEF Tick
<1>2. ASSUME NEW l \in Seq(Entry), SoundList(l, clock)
      PROVE  SoundList(l, clock')
  <2>1. \A i \in DOMAIN l : l[i] \in Entry
    OBVIOUS
  <2>2. \A i \in DOMAIN l : l[i].at <= clock'
    BY <1>0, <1>1, <1>2, <2>1 DEF SoundList, Entry
  <2>3. QED
    BY <1>2, <2>2 DEF SoundList
<1>3. sessions' \in [Session -> {l \in Seq(Entry) : SoundList(l, clock')}]
  BY <1>1, <1>2 DEF IInv
<1>4. JustBoundSurvives'
  BY <1>1 DEF IInv, JustBoundSurvives
<1>5. QED
  BY <1>1, <1>3, <1>4 DEF IInv

LEMMA StepSound == IInv /\ [Next]_vars => IInv'
<1> SUFFICES ASSUME IInv, [Next]_vars PROVE IInv'
  OBVIOUS
<1>1. CASE Tick
  BY <1>1, TickSound
<1>2. ASSUME NEW o \in Ops, Operate(o)
      PROVE  IInv'
  <2>1. /\ sessions' \in [Session -> {l \in Seq(Entry) : SoundList(l, clock)}]
        /\ o.kind = "bind" =>
              sessions'[o.s] = Bind(Fresh(sessions[o.s], clock), o.c, o.baseline, clock)
    BY <1>2, OperateSound
  <2>2. clock' = clock /\ clock \in 0..MaxClock /\ bound' = BoundBy(o)
    BY <1>2 DEF Operate, IInv
  <2>3. o.kind = "bind" => /\ o.s \in Session /\ o.c \in Conversation
                           /\ o.baseline \in [known : BOOLEAN, of : Seq(Nat)]
    BY FileAssumption
  <2>4. bound' = NothingBound \/ bound' \in Session \X Conversation
    BY <2>2, <2>3 DEF BoundBy
  <2>5. JustBoundSurvives'
    <3>1. CASE o.kind = "bind"
      <4> DEFINE l   == Fresh(sessions[o.s], clock)
                 new == Binding(o.c, o.baseline, clock)
      <4>1. l \in Seq(Entry) /\ SoundList(l, clock)
        BY <2>3, <3>1, LoadedSound
      <4> HIDE DEF l
      <4>2. new \in Entries(Bind(l, o.c, o.baseline, clock))
        BY <2>2, <2>3, <3>1, <4>1, BindIsSound
      <4>3. new \in Entries(sessions'[o.s]) /\ new.cid = o.c
        BY <2>1, <3>1, <4>2 DEF l, Binding
      <4>4. bound'[1] = o.s /\ bound'[2] = o.c
        BY <2>2, <3>1 DEF BoundBy
      <4> HIDE DEF new
      <4>5. QED
        BY <4>3, <4>4 DEF JustBoundSurvives
    <3>2. CASE o.kind # "bind"
      BY <2>2, <3>2 DEF BoundBy, JustBoundSurvives
    <3>3. QED
      BY <3>1, <3>2
  <2>6. QED
    BY <2>1, <2>2, <2>4, <2>5 DEF IInv
<1>3. CASE UNCHANGED vars
  BY <1>3 DEF vars, IInv, JustBoundSurvives
<1>4. QED
  BY <1>1, <1>2, <1>3 DEF Next

LEMMA InvariantHolds == Spec => []IInv
BY InitSound, StepSound, PTL DEF Spec

\* session-store.ts 352, publicEntry and the cap: whatever the turns do in
\* whatever order, and however entries expire in between, a session holds typed
\* bindings within its cap, one baseline for each conversation, and the binding
\* made last.
THEOREM ListsStaySound == Spec => []ListsSound
<1>1. ASSUME IInv PROVE ListsSound
  <2>1. ASSUME NEW s \in Session
        PROVE  /\ sessions[s] \in Seq(Entry) /\ SoundList(sessions[s], clock)
    BY <1>1 DEF IInv
  <2>2. TypeOK
    BY <1>1, <2>1 DEF TypeOK, IInv, SoundList, Entry
  <2>3. OneBaselinePerConversation
    BY <2>1 DEF OneBaselinePerConversation, SoundList, OneEach
  <2>4. QED
    BY <1>1, <2>2, <2>3 DEF ListsSound, IInv
<1>2. QED
  BY <1>1, InvariantHolds, PTL

\* CHANGELOG 177-181: whatever agents share a session, a bind costs them at most
\* one live entry: an earlier baseline of the conversation it binds, a thread it
\* continues or, at the cap, an oldest one.
THEOREM SiblingsKeepTheirs == Spec => SiblingsKeepBaseline
<1> DEFINE Lost(s) == Entries(Fresh(sessions[s], clock)) \ Entries(sessions'[s])
           New(s)  == Entries(sessions'[s]) \ Entries(sessions[s])
           Fair(s) == \A n \in New(s), e \in Lost(s) :
                /\ Lost(s) = {e}
                /\ \/ e.cid = n.cid
                   \/ e.baseline.known /\ hashesArePrefix(e.baseline.of, n.baseline.of)
                   \/ /\ Len(sessions[s]) = MaxBindings
                      /\ \A o \in Entries(Fresh(sessions[s], clock)) : e.at <= o.at
<1>1. ASSUME IInv, [Next]_vars, NEW s \in Session PROVE Fair(s)
  <2>1. CASE Tick \/ UNCHANGED vars
    BY <2>1 DEF Tick, vars
  <2>2. ASSUME NEW o \in Ops, Operate(o), o.kind # "bind" \/ s # o.s
        PROVE  Fair(s)
    <3>1. New(s) = {}
      BY <1>1, <2>2, OperateSound
    <3>2. QED
      BY <3>1
  <2>3. ASSUME NEW o \in Ops, Operate(o), o.kind = "bind", s = o.s
        PROVE  Fair(s)
    <3> DEFINE l   == Fresh(sessions[s], clock)
               new == Binding(o.c, o.baseline, clock)
    <3>1. /\ l \in Seq(Entry) /\ SoundList(l, clock)
          /\ Entries(l) \subseteq Entries(sessions[s]) /\ Len(l) <= Len(sessions[s])
      BY <1>1, LoadedSound
    <3>2. /\ o.c \in Conversation /\ clock \in 0..MaxClock
          /\ o.baseline \in [known : BOOLEAN, of : Seq(Nat)]
      BY <1>1, <2>3, FileAssumption DEF IInv
    <3>3. sessions'[s] = Bind(l, o.c, o.baseline, clock)
      BY <1>1, <2>3, OperateSound
    <3> HIDE DEF l, new
    <3>4. /\ Entries(sessions'[s]) \subseteq Entries(l) \cup {new}
          /\ \E i \in 0 .. Len(l) :
                /\ i # 0 => MayBeLost(l, l[i], new)
                /\ \A j \in DOMAIN l \ {i} : l[j] \in Entries(sessions'[s])
      BY <3>1, <3>2, <3>3, BindIsSound DEF new
    <3>5. PICK i \in 0 .. Len(l) :
             /\ i # 0 => MayBeLost(l, l[i], new)
             /\ \A j \in DOMAIN l \ {i} : l[j] \in Entries(sessions'[s])
      BY <3>4
    <3>6. New(s) \subseteq {new}
      BY <3>1, <3>4
    <3>7. ASSUME NEW e \in Entries(l) \ Entries(sessions'[s])
          PROVE  i # 0 /\ e = l[i]
      <4>1. PICK j \in DOMAIN l : e = l[j]
        BY <3>7 DEF Entries
      <4>2. j = i
        BY <3>5, <3>7, <4>1
      <4>3. QED
        BY <3>1, <4>1, <4>2
    <3>8. ASSUME NEW e \in Entries(l) \ Entries(sessions'[s])
          PROVE  \/ e.cid = new.cid
                 \/ e.baseline.known /\ hashesArePrefix(e.baseline.of, new.baseline.of)
                 \/ Len(sessions[s]) = MaxBindings /\ \A x \in Entries(l) : e.at <= x.at
      <4>1. MayBeLost(l, e, new)
        BY <3>5, <3>7
      <4>2. Len(l) = MaxBindings => Len(sessions[s]) = MaxBindings
        <5>1. sessions[s] \in Seq(Entry) /\ Len(sessions[s]) <= MaxBindings
          BY <1>1 DEF IInv, SoundList
        <5>2. Len(sessions[s]) \in Nat /\ MaxBindings \in Nat
          BY <5>1, BindingsAssumption
        <5>3. QED
          BY <3>1, <5>1, <5>2
      <4>3. QED
        BY <4>1, <4>2 DEF MayBeLost, IsParent
    <3>9. QED
      BY <3>6, <3>7, <3>8 DEF l
  <2>4. QED
    BY <1>1, <2>1, <2>2, <2>3 DEF Next
<1>2. ASSUME IInv, [Next]_vars PROVE \A s \in Session : Fair(s)
  BY <1>1, <1>2
<1>3. QED
  BY <1>2, InvariantHolds, PTL DEF Spec, SiblingsKeepBaseline
=============================================================================
