-------------------------- MODULE SessionStore_proof --------------------------
(***************************************************************************)
(* Proofs about SessionStore for any set of processes, sessions, faults    *)
(* and operations.  As long as no takeover removes the lock of a client    *)
(* that is still at work, cycles do not interleave and the store           *)
(* implements SessionFile.  That is so for two processes, whoever of them  *)
(* dies where, and for any number of them if none dies inside a cycle.     *)
(***************************************************************************)
EXTENDS SessionStore, TLAPS

\* Types of the variables the protocol runs on.
TypeInv ==
    /\ pc \in [Client -> {"idle", "crashed"} \cup Waiting \cup Inside]
    /\ op \in [Client -> Ops \cup {NoOp}]
    /\ DOMAIN view = Client
    /\ lock \in [owner : Client, stale : BOOLEAN] \cup {Absent}
    /\ writable \in BOOLEAN

\* A client inside owns the lock.
LockInv == \A c \in Client : pc[c] \in Inside => Exists /\ lock.owner = c

\* A client at work has an operation, and what it computed from the file it
\* loaded is what the file as it is now would give.
CycleInv ==
    \A c \in Client :
        /\ pc[c] \in Waiting \cup Inside => op[c] \in Ops
        /\ pc[c] = "loaded" =>
              view[c] = sessions /\ F!Writes(op[c], sessions, clock)

\* What a takeover must not do: remove the lock of a client at work.
Theft ==
    \E c \in Client : TakeOver(c) /\ lock' # lock /\ pc[lock.owner] \in Inside

\* The invariant the next two theorems rest on.  Processes may die and stall
\* wherever they are.
LEMMA StoreInvariant == Spec /\ [][~Theft]_vars => [](TypeInv /\ LockInv /\ CycleInv)
<1> DEFINE IInv == TypeInv /\ LockInv /\ CycleInv
<1> USE StoreAssumption DEF TypeInv, LockInv, CycleInv, Waiting, Inside, Exists
<1>1. Init => IInv
  BY DEF Init
<1>2. IInv /\ [Next]_vars /\ [~Theft]_vars => IInv'
  <2> SUFFICES ASSUME IInv, [Next]_vars, [~Theft]_vars
               PROVE  IInv'
    OBVIOUS
  <2> USE DEF Goto
  <2>1. ASSUME NEW c \in Client, Call(c)
        PROVE  IInv'
    BY <2>1 DEF Call
  <2>2. ASSUME NEW c \in Client, Create(c)
        PROVE  IInv'
    <3>1. CASE Exists
      BY <2>2, <3>1 DEF Create, Absent
    <3>2. CASE ~Exists /\ writable
      <4>1. /\ lock' = [owner |-> c, stale |-> FALSE]
            /\ pc' = [pc EXCEPT ![c] = "locked"]
            /\ pc[c] = "create"
            /\ UNCHANGED <<op, tries, view, writable, sessions, clock, bound>>
        BY <2>2, <3>2 DEF Create
      <4>2. \A d \in Client : pc[d] \notin Inside
        BY <3>2
      <4>3. TypeInv' /\ LockInv'
        BY <4>1, <4>2 DEF Absent
      <4>4. CycleInv'
        BY <4>1
      <4>5. QED
        BY <4>3, <4>4
    <3>3. CASE ~Exists /\ ~writable
      BY <2>2, <3>3 DEF Create, Return, Absent
    <3>4. QED
      BY <3>1, <3>2, <3>3
  <2>3. ASSUME NEW c \in Client, Stat(c)
        PROVE  IInv'
    BY <2>3 DEF Stat, Again, Return, Absent
  <2>4. ASSUME NEW c \in Client, TakeOver(c)
        PROVE  IInv'
    <3>1. CASE lock' = lock
      BY <2>4, <3>1 DEF TakeOver
    <3>2. CASE lock' # lock
      <4>1. ~Theft
        BY <3>2 DEF vars
      <4>2. \A d \in Client : pc[d] \notin Inside
        BY <2>4, <3>2, <4>1 DEF Theft
      <4>3. lock' = Absent
        BY <2>4, <3>2 DEF TakeOver, Unlink
      <4> QED
        BY <2>4, <4>2, <4>3 DEF TakeOver
    <3> QED
      BY <3>1, <3>2
  <2>5. ASSUME NEW c \in Client, Load(c)
        PROVE  IInv'
    BY <2>5 DEF Load, Absent
  <2>6. ASSUME NEW c \in Client, Persist(c)
        PROVE  IInv'
    BY <2>6 DEF Persist, Absent
  <2>7. ASSUME NEW c \in Client, WriteFails(c)
        PROVE  IInv'
    BY <2>7 DEF WriteFails, Absent
  <2>8. ASSUME NEW c \in Client, Release(c)
        PROVE  IInv'
    BY <2>8 DEF Release, Return, Unlink, Absent
  <2>9. ASSUME NEW c \in Client, Crash(c)
        PROVE  IInv'
    BY <2>9 DEF Crash
  <2>10. CASE Age
    BY <2>10 DEF Age, Absent
  <2>11. CASE LosePermission
    BY <2>11 DEF LosePermission
  <2>12. CASE Tick
    BY <2>12 DEF Tick
  <2>13. CASE UNCHANGED vars
    BY <2>13 DEF vars
  <2>14. QED
    BY <2>1, <2>2, <2>3, <2>4, <2>5, <2>6, <2>7, <2>8, <2>9, <2>10, <2>11,
       <2>12, <2>13 DEF Next, Working
<1>3. QED
  BY <1>1, <1>2, PTL DEF Spec

\* Nobody rewrites the file from a view that another process has outdated, as
\* long as no lock is stolen: however many processes share the store, wherever
\* they die and whatever the file system refuses.
THEOREM NoInterleaving == Spec /\ [][~Theft]_vars => []CyclesDoNotInterleave
<1>1. CycleInv => CyclesDoNotInterleave
  BY DEF CycleInv, CyclesDoNotInterleave
<1>2. QED
  BY <1>1, StoreInvariant, PTL

\* Under the same condition every step of the store is one operation of
\* SessionFile on the whole file, a tick, or nothing SessionFile can see.
THEOREM StoreImplementsSessionFile == Spec /\ [][~Theft]_vars => ImplementsSessionFile
<1> USE StoreAssumption
<1>1. Init => F!Init
  BY DEF Init, F!Init, F!NothingBound
<1>2. TypeInv /\ LockInv /\ CycleInv /\ [Next]_vars => [F!Next]_(F!vars)
  <2> SUFFICES ASSUME TypeInv, LockInv, CycleInv, [Next]_vars
               PROVE  [F!Next]_(F!vars)
    OBVIOUS
  <2> USE DEF CycleInv, Waiting, Inside
  <2>1. ASSUME NEW c \in Client, Load(c)
        PROVE  F!Operate(op[c]) \/ UNCHANGED F!vars
    BY <2>1 DEF Load, F!Operate, F!Apply, F!vars
  <2>2. ASSUME NEW c \in Client, Persist(c)
        PROVE  F!Operate(op[c])
    BY <2>2 DEF Persist, F!Operate, F!Apply
  <2>3. ASSUME NEW c \in Client, Load(c) \/ Persist(c)
        PROVE  op[c] \in Ops
    BY <2>3 DEF Load, Persist
  <2>4. ASSUME NEW c \in Client,
               \/ Call(c) \/ Create(c) \/ Stat(c) \/ TakeOver(c)
               \/ WriteFails(c) \/ Release(c) \/ Crash(c)
        PROVE  UNCHANGED F!vars
    BY <2>4 DEF Call, Create, Stat, TakeOver, WriteFails, Release, Crash, F!vars
  <2>5. CASE Tick
    BY <2>5 DEF Tick, F!Tick, F!Next
  <2>6. CASE Age \/ LosePermission \/ UNCHANGED vars
    BY <2>6 DEF Age, LosePermission, vars, F!vars
  <2>7. QED
    BY <2>1, <2>2, <2>3, <2>4, <2>5, <2>6 DEF Next, Working, F!Next
<1>3. QED
  BY <1>1, <1>2, StoreInvariant, PTL DEF Spec, ImplementsSessionFile, F!Spec

-----------------------------------------------------------------------------
\* Under every fault, deaths and stalls inside a cycle included: the clients keep
\* their types, a waiting one stays within its deadline, and in a directory that
\* accepts the unlink a lock on disk belongs to a client at work or to a dead one.
THEOREM StoreIsSound == Spec => []StoreSound
<1> USE StoreAssumption DEF StoreSound, TypeOK, LockDiesWithOperation, Waiting,
        Inside, Exists
<1>1. Init => StoreSound
  BY DEF Init
<1>2. StoreSound /\ [Next]_vars => StoreSound'
  <2> SUFFICES ASSUME StoreSound, [Next]_vars
               PROVE  StoreSound'
    OBVIOUS
  <2> USE DEF Goto
  <2>1. ASSUME NEW c \in Client, Call(c)
        PROVE  StoreSound'
    BY <2>1 DEF Call
  <2>2. ASSUME NEW c \in Client, Create(c)
        PROVE  StoreSound'
    <3>1. CASE Exists
      BY <2>2, <3>1 DEF Create, Absent
    <3>2. CASE ~Exists /\ writable
      <4>1. /\ lock' = [owner |-> c, stale |-> FALSE]
            /\ pc' = [pc EXCEPT ![c] = "locked"]
            /\ UNCHANGED <<op, tries, view, writable, clock>>
        BY <2>2, <3>2 DEF Create
      <4>2. QED
        BY <4>1
    <3>3. CASE ~Exists /\ ~writable
      BY <2>2, <3>3 DEF Create, Return, Absent
    <3>4. QED
      BY <3>1, <3>2, <3>3
  <2>3. ASSUME NEW c \in Client, Stat(c)
        PROVE  StoreSound'
    BY <2>3 DEF Stat, Again, Return, Absent
  <2>4. ASSUME NEW c \in Client, TakeOver(c)
        PROVE  StoreSound'
    BY <2>4 DEF TakeOver, Unlink, Absent
  <2>5. ASSUME NEW c \in Client, Load(c)
        PROVE  StoreSound'
    BY <2>5 DEF Load, Absent
  <2>6. ASSUME NEW c \in Client, Persist(c)
        PROVE  StoreSound'
    BY <2>6 DEF Persist, Absent
  <2>7. ASSUME NEW c \in Client, WriteFails(c)
        PROVE  StoreSound'
    BY <2>7 DEF WriteFails, Absent
  <2>8. ASSUME NEW c \in Client, Release(c)
        PROVE  StoreSound'
    BY <2>8 DEF Release, Return, Unlink, Absent
  <2>9. ASSUME NEW c \in Client, Crash(c)
        PROVE  StoreSound'
    BY <2>9 DEF Crash
  <2>10. CASE Age
    BY <2>10 DEF Age, Absent
  <2>11. CASE LosePermission
    BY <2>11 DEF LosePermission
  <2>12. CASE Tick
    BY <2>12 DEF Tick
  <2>13. CASE UNCHANGED vars
    BY <2>13 DEF vars
  <2>14. QED
    BY <2>1, <2>2, <2>3, <2>4, <2>5, <2>6, <2>7, <2>8, <2>9, <2>10, <2>11,
       <2>12, <2>13 DEF Next, Working
<1>3. QED
  BY <1>1, <1>2, PTL DEF Spec

-----------------------------------------------------------------------------
\* A stale lock belongs to nobody at work.
AgeInv == \A c \in Client : pc[c] \in Inside => Exists /\ lock.owner = c /\ ~lock.stale

\* Of two processes that share the store, one that takes over is alone: it has
\* found a stale lock and, in a directory it can write to, that of a dead one.
TwoInv ==
    /\ StoreSound /\ AgeInv
    /\ \A c \in Client : pc[c] = "unlink" => Exists /\ lock.stale

\* Two processes never steal: any of them may die anywhere, inside a cycle too, as
\* long as none outlives its own lock (acquireLock, releaseLock).
THEOREM TwoDoNotSteal ==
    ASSUME NEW p, NEW q, Client \subseteq {p, q}, "suspend" \notin Faults
    PROVE  Spec => [][~Theft]_vars
<1> USE StoreAssumption DEF AgeInv, TwoInv, Waiting, Inside, Exists, LockDiesWithOperation
<1>1. Init => TwoInv
  <2>1. Init => StoreSound
    BY DEF Init, StoreSound, TypeOK
  <2> QED
    BY <2>1 DEF Init
<1>2. TwoInv /\ StoreSound' /\ [Next]_vars => TwoInv'
  <2> SUFFICES ASSUME TwoInv, StoreSound', [Next]_vars
               PROVE  (AgeInv /\ \A c \in Client : pc[c] = "unlink" => Exists /\ lock.stale)'
    OBVIOUS
  <2> USE DEF Goto, StoreSound, TypeOK
  <2> DEFINE Goal == AgeInv /\ \A c \in Client : pc[c] = "unlink" => Exists /\ lock.stale
  <2>1. ASSUME NEW c \in Client, Call(c) \/ Load(c) \/ Persist(c) \/ WriteFails(c) \/ Crash(c)
        PROVE  Goal'
    BY <2>1 DEF Call, Load, Persist, WriteFails, Crash
  <2>2. ASSUME NEW c \in Client, Create(c)
        PROVE  Goal'
    <3>1. CASE Exists
      BY <2>2, <3>1 DEF Create, Absent
    <3>2. CASE ~Exists /\ writable
      <4>1. /\ lock' = [owner |-> c, stale |-> FALSE]
            /\ pc' = [pc EXCEPT ![c] = "locked"]
        BY <2>2, <3>2 DEF Create
      <4>2. lock' # Absent
        BY <4>1 DEF Absent
      <4> QED
        BY <3>2, <4>1, <4>2
    <3>3. CASE ~Exists /\ ~writable
      BY <2>2, <3>3 DEF Create, Return, Absent
    <3>4. QED
      BY <3>1, <3>2, <3>3
  <2>3. ASSUME NEW c \in Client, Stat(c)
        PROVE  Goal'
    BY <2>3 DEF Stat, Again, Return, Absent
  <2>4. ASSUME NEW c \in Client, TakeOver(c)
        PROVE  Goal'
    <3>1. CASE ~writable
      BY <2>4, <3>1 DEF TakeOver, Unlink
    <3>2. CASE writable
      <4>1. lock \in [owner : Client, stale : BOOLEAN] /\ lock.stale /\ pc[c] = "unlink"
        BY <2>4 DEF TakeOver
      <4>2. pc[lock.owner] = "crashed"
        BY <3>2, <4>1
      <4>3. \A d \in Client : d = c \/ pc[d] = "crashed"
        BY <4>1, <4>2
      <4> QED
        BY <2>4, <4>3 DEF TakeOver
    <3> QED
      BY <3>1, <3>2
  <2>5. ASSUME NEW c \in Client, Release(c)
        PROVE  Goal'
    <3>1. lock.owner = c /\ ~lock.stale /\ pc[c] = "unlock"
      BY <2>5 DEF Release
    <3>2. \A d \in Client : pc[d] # "unlink" /\ (pc[d] \in Inside => d = c)
      BY <3>1
    <3> QED
      BY <2>5, <3>2 DEF Release, Return
  <2>6. CASE Age
    BY <2>6 DEF Age, Absent
  <2>7. CASE LosePermission \/ Tick \/ UNCHANGED vars
    BY <2>7 DEF LosePermission, Tick, vars
  <2>8. QED
    BY <2>1, <2>2, <2>3, <2>4, <2>5, <2>6, <2>7 DEF Next, Working
<1>3. TwoInv => ~Theft
  BY DEF Theft, TakeOver, StoreSound, TypeOK
<1>4. QED
  BY <1>1, <1>2, <1>3, StoreIsSound, PTL DEF Spec

\* A client dies at work.
DiesInside == \E c \in Client : Crash(c) /\ pc[c] \in Inside

\* As long as nobody dies inside, a takeover is attempted on nothing but the leftover
\* of a release the directory refused, and is refused as well.
LeftInv ==
    /\ TypeInv /\ AgeInv
    /\ \A c \in Client : pc[c] = "unlink" => ~writable
    /\ Exists /\ pc[lock.owner] \notin Inside => ~writable

\* Nor do any number of processes that die between their cycles only.
THEOREM SurvivorsDoNotSteal ==
    ASSUME "suspend" \notin Faults
    PROVE  Spec /\ [][~DiesInside]_vars => [][~Theft]_vars
<1> USE StoreAssumption DEF LeftInv, TypeInv, AgeInv, Waiting, Inside, Exists
<1>1. Init => LeftInv
  BY DEF Init
<1>2. LeftInv /\ [Next]_vars /\ [~DiesInside]_vars => LeftInv'
  <2> SUFFICES ASSUME LeftInv, [Next]_vars, [~DiesInside]_vars
               PROVE  LeftInv'
    OBVIOUS
  <2> USE DEF Goto
  <2>1. ASSUME NEW c \in Client, Call(c) \/ Load(c) \/ Persist(c) \/ WriteFails(c)
        PROVE  LeftInv'
    BY <2>1 DEF Call, Load, Persist, WriteFails, Absent
  <2>2. ASSUME NEW c \in Client, Create(c)
        PROVE  LeftInv'
    <3>1. CASE Exists
      BY <2>2, <3>1 DEF Create, Absent
    <3>2. CASE ~Exists /\ writable
      <4>1. /\ lock' = [owner |-> c, stale |-> FALSE]
            /\ pc' = [pc EXCEPT ![c] = "locked"]
            /\ UNCHANGED <<op, view, writable>>
        BY <2>2, <3>2 DEF Create
      <4> QED
        BY <3>2, <4>1 DEF Absent
    <3>3. CASE ~Exists /\ ~writable
      BY <2>2, <3>3 DEF Create, Return, Absent
    <3>4. QED
      BY <3>1, <3>2, <3>3
  <2>3. ASSUME NEW c \in Client, Stat(c)
        PROVE  LeftInv'
    BY <2>3 DEF Stat, Again, Return, Absent
  <2>4. ASSUME NEW c \in Client, TakeOver(c)
        PROVE  LeftInv'
    BY <2>4 DEF TakeOver, Unlink, Absent
  <2>5. ASSUME NEW c \in Client, Release(c)
        PROVE  LeftInv'
    BY <2>5 DEF Release, Return, Unlink, Absent
  <2>6. ASSUME NEW c \in Client, Crash(c)
        PROVE  LeftInv'
    <3>1. pc[c] \notin Inside
      <4>1. pc' # pc
        BY <2>6 DEF Crash
      <4> QED
        BY <2>6, <4>1 DEF DiesInside, vars
    <3> QED
      BY <2>6, <3>1 DEF Crash
  <2>7. CASE Age
    BY <2>7 DEF Age, Absent
  <2>8. CASE LosePermission
    BY <2>8 DEF LosePermission
  <2>9. CASE Tick
    BY <2>9 DEF Tick
  <2>10. CASE UNCHANGED vars
    BY <2>10 DEF vars
  <2> QED
    BY <2>1, <2>2, <2>3, <2>4, <2>5, <2>6, <2>7, <2>8, <2>9, <2>10 DEF Next, Working
<1>3. LeftInv => ~Theft
  BY DEF Theft, TakeOver, Unlink
<1>4. QED
  BY <1>1, <1>2, <1>3, PTL DEF Spec

\* The store of two processes implements SessionFile, whoever dies where: no update is
\* lost and none is half applied.
THEOREM StoreOfTwo ==
    ASSUME NEW p, NEW q, Client \subseteq {p, q}, "suspend" \notin Faults
    PROVE  Spec => []CyclesDoNotInterleave /\ ImplementsSessionFile
BY TwoDoNotSteal, NoInterleaving, StoreImplementsSessionFile, PTL

\* The same for any number of processes that die between their cycles only.
THEOREM StoreOfSurvivors ==
    ASSUME "suspend" \notin Faults
    PROVE  Spec /\ [][~DiesInside]_vars => []CyclesDoNotInterleave /\ ImplementsSessionFile
BY SurvivorsDoNotSteal, NoInterleaving, StoreImplementsSessionFile, PTL
=============================================================================
