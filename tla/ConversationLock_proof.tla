------------------------ MODULE ConversationLock_proof ------------------------
(***************************************************************************)
(* Proofs about ConversationLock for any number of requests and processes: *)
(* what holds under every fault, mutual exclusion as long as no takeover   *)
(* hits a live holder, and when none can.                                  *)
(***************************************************************************)
EXTENDS ConversationLock, TLAPS

\* A sleeping request has polls left: what keeps polls within its bound.
SleepBound == \A r \in Request : pc[r] = "sleep" => polls[r] < MaxPolls

\* Types are invariant; the bound on polls needs SleepBound beside it.
THEOREM TypeCorrect == Spec => [](TypeOK /\ SleepBound)
<1> USE LockAssumption DEF TypeOK, SleepBound, Waiting, Inside, Returned, LockFile, Absent,
                           Exists
<1>1. Init => TypeOK /\ SleepBound
  BY DEF Init
<1>2. TypeOK /\ SleepBound /\ [Next]_vars => (TypeOK /\ SleepBound)'
  <2> SUFFICES ASSUME TypeOK, SleepBound, [Next]_vars
               PROVE  (TypeOK /\ SleepBound)'
    OBVIOUS
  <2>1. ASSUME NEW r \in Request, Acquire(r)
        PROVE  (TypeOK /\ SleepBound)'
    BY <2>1 DEF Acquire, Goto
  <2>2. ASSUME NEW r \in Request, Create(r)
        PROVE  (TypeOK /\ SleepBound)'
    <3>1. [owner |-> r, record |-> "empty", stale |-> FALSE] \in LockFile
      OBVIOUS
    <3>2. TypeOK'
      BY <2>2, <3>1 DEF Create, Goto
    <3>3. SleepBound'
      BY <2>2 DEF Create, Goto
    <3>4. QED
      BY <3>2, <3>3
  <2>3. ASSUME NEW r \in Request, WriteRecord(r)
        PROVE  (TypeOK /\ SleepBound)'
    BY <2>3 DEF WriteRecord, Goto
  <2>4. ASSUME NEW r \in Request, WriteFails(r)
        PROVE  (TypeOK /\ SleepBound)'
    BY <2>4 DEF WriteFails, Goto, Unlink
  <2>5. ASSUME NEW r \in Request, ReadRecord(r)
        PROVE  (TypeOK /\ SleepBound)'
    BY <2>5 DEF ReadRecord, Goto
  <2>6. ASSUME NEW r \in Request, Stat(r)
        PROVE  (TypeOK /\ SleepBound)'
    BY <2>6 DEF Stat, Goto
  <2>7. ASSUME NEW r \in Request, StatVanished(r)
        PROVE  (TypeOK /\ SleepBound)'
    BY <2>7 DEF StatVanished, Goto
  <2>8. ASSUME NEW r \in Request, TakeOver(r)
        PROVE  (TypeOK /\ SleepBound)'
    BY <2>8 DEF TakeOver, Goto, Unlink
  <2>9. ASSUME NEW r \in Request, Poll(r)
        PROVE  (TypeOK /\ SleepBound)'
    BY <2>9 DEF Poll, Goto
  <2>10. ASSUME NEW r \in Request, Release(r)
         PROVE  (TypeOK /\ SleepBound)'
    BY <2>10 DEF Release, Goto, Unlink
  <2>11. ASSUME NEW p \in Process, Crash(p)
         PROVE  (TypeOK /\ SleepBound)'
    BY <2>11 DEF Crash
  <2>12. ASSUME NEW p \in Process, RecyclePid(p)
         PROVE  (TypeOK /\ SleepBound)'
    BY <2>12 DEF RecyclePid
  <2>13. CASE Age
    BY <2>13 DEF Age
  <2>14. CASE LoseWritePermission
    BY <2>14 DEF LoseWritePermission
  <2>15. CASE UNCHANGED vars
    BY <2>15 DEF vars
  <2>16. QED
    BY <2>1, <2>2, <2>3, <2>4, <2>5, <2>6, <2>7, <2>8, <2>9, <2>10, <2>11,
       <2>12, <2>13, <2>14, <2>15 DEF Next, Acquiring, Environment
<1>3. QED
  BY <1>1, <1>2, PTL DEF Spec

-----------------------------------------------------------------------------
\* A request that is inside and has not been robbed owns the file on disk.
OwnerInside ==
    \A r \in Request \ stolen : pc[r] \in Inside => Exists /\ file.owner = r

\* Nothing but a robbery separates the two.
LEMMA OwnerInvariant == Spec => []OwnerInside
<1> USE LockAssumption DEF OwnerInside, Inside, Exists
<1>1. Init => OwnerInside
  BY DEF Init
<1>2. TypeOK /\ OwnerInside /\ [Next]_vars => OwnerInside'
  <2> SUFFICES ASSUME TypeOK, OwnerInside, [Next]_vars
               PROVE  OwnerInside'
    OBVIOUS
  <2> USE DEF TypeOK
  <2>1. ASSUME NEW r \in Request, Acquire(r)
        PROVE  OwnerInside'
    BY <2>1 DEF Acquire, Goto, Returned
  <2>2. ASSUME NEW r \in Request, Create(r)
        PROVE  OwnerInside'
    BY <2>2 DEF Create, Goto, Absent
  <2>3. ASSUME NEW r \in Request, WriteRecord(r)
        PROVE  OwnerInside'
    BY <2>3 DEF WriteRecord, Goto, Absent, LockFile
  <2>4. ASSUME NEW r \in Request, WriteFails(r)
        PROVE  OwnerInside'
    BY <2>4 DEF WriteFails, Goto, Unlink
  <2>5. ASSUME NEW r \in Request, ReadRecord(r)
        PROVE  OwnerInside'
    BY <2>5 DEF ReadRecord, Goto
  <2>6. ASSUME NEW r \in Request, Stat(r)
        PROVE  OwnerInside'
    BY <2>6 DEF Stat, Goto
  <2>7. ASSUME NEW r \in Request, StatVanished(r)
        PROVE  OwnerInside'
    BY <2>7 DEF StatVanished, Goto
  <2>8. ASSUME NEW r \in Request, TakeOver(r)
        PROVE  OwnerInside'
    BY <2>8 DEF TakeOver, Goto, Unlink
  <2>9. ASSUME NEW r \in Request, Poll(r)
        PROVE  OwnerInside'
    BY <2>9 DEF Poll, Goto
  <2>10. ASSUME NEW r \in Request, Release(r)
         PROVE  OwnerInside'
    BY <2>10 DEF Release, Goto, Unlink
  <2>11. ASSUME NEW p \in Process, Crash(p)
         PROVE  OwnerInside'
    BY <2>11 DEF Crash
  <2>12. ASSUME NEW p \in Process, RecyclePid(p)
         PROVE  OwnerInside'
    BY <2>12 DEF RecyclePid
  <2>13. CASE Age
    BY <2>13 DEF Age, Absent, LockFile
  <2>14. CASE LoseWritePermission
    BY <2>14 DEF LoseWritePermission
  <2>15. CASE UNCHANGED vars
    BY <2>15 DEF vars
  <2>16. QED
    BY <2>1, <2>2, <2>3, <2>4, <2>5, <2>6, <2>7, <2>8, <2>9, <2>10, <2>11,
       <2>12, <2>13, <2>14, <2>15 DEF Next, Acquiring, Environment
<1>3. QED
  BY <1>1, <1>2, TypeCorrect, PTL DEF Spec

\* Every fault at once: the exclusive create admits one request per file, so
\* whatever the environment does, at most one holder still has its file.
THEOREM OneUnstolenHolder == Spec => []AtMostOneUnstolen
<1>1. OwnerInside => AtMostOneUnstolen
  BY DEF OwnerInside, AtMostOneUnstolen, Inside
<1>2. QED
  BY <1>1, OwnerInvariant, PTL

\* As long as nobody is robbed, two requests never drive the conversation at once, in
\* however many processes they run, wherever those die and whatever the file system
\* refuses.
THEOREM LockMutualExclusion == Spec /\ [](stolen = {}) => []MutualExclusion
<1>1. OwnerInside /\ stolen = {} => MutualExclusion
  BY DEF OwnerInside, MutualExclusion, Inside
<1>2. QED
  BY <1>1, OwnerInvariant, PTL

\* Under the same condition the protocol is an implementation of Mutex, with the
\* requests that hold the lock as its holders; a death is a way to leave.
THEOREM LockImplementsMutex == Spec /\ [](stolen = {}) => ImplementsMutex
<1> USE DEF Holders, Goto
<1>1. Init => M!Init
  BY DEF Init, M!Init
<1>2. TypeOK /\ OwnerInside /\ stolen = {} /\ [Next]_vars => [M!Next]_Holders
  <2> SUFFICES ASSUME TypeOK, OwnerInside, stolen = {}, [Next]_vars
               PROVE  [M!Next]_Holders
    OBVIOUS
  <2> USE DEF TypeOK
  <2>1. ASSUME NEW r \in Request, WriteRecord(r)
        PROVE  M!Enter(r)
    <3>1. Holders = {}
      BY <2>1 DEF WriteRecord, OwnerInside, Inside
    <3>2. Holders' = {r}
      BY <2>1, <3>1 DEF WriteRecord
    <3>3. QED
      BY <3>1, <3>2 DEF M!Enter
  <2>2. ASSUME NEW r \in Request, Release(r)
        PROVE  M!Leave
    <3>1. Holders = {r}
      BY <2>2 DEF Release, OwnerInside, Inside
    <3>2. Holders' = {}
      BY <2>2, <3>1 DEF Release
    <3>3. QED
      BY <3>1, <3>2 DEF M!Leave
  <2>3. ASSUME NEW r \in Request, Acquire(r) \/ Create(r) \/ WriteFails(r)
        PROVE  Holders' = Holders
    BY <2>3 DEF Acquire, Create, WriteFails, Returned
  <2>4. ASSUME NEW r \in Request,
               \/ ReadRecord(r) \/ Stat(r) \/ StatVanished(r)
               \/ TakeOver(r) \/ Poll(r)
        PROVE  Holders' = Holders
    BY <2>4 DEF ReadRecord, Stat, StatVanished, TakeOver, Poll
  <2>5. ASSUME NEW p \in Process, Crash(p)
        PROVE  M!Leave \/ Holders' = Holders
    <3>1. \A r, q \in Holders : r = q
      BY DEF OwnerInside, Inside
    <3>2. \A r \in Request : pc'[r] = IF ProcOf[r] = p THEN "crashed" ELSE pc[r]
      BY <2>5 DEF Crash
    <3>3. Holders' = Holders \/ (Holders' = {} /\ Holders # {})
      BY <3>1, <3>2
    <3> QED
      BY <3>3 DEF M!Leave
  <2>6. ASSUME NEW p \in Process, RecyclePid(p)
        PROVE  Holders' = Holders
    BY <2>6 DEF RecyclePid
  <2>7. CASE Age \/ LoseWritePermission \/ UNCHANGED vars
    BY <2>7 DEF Age, LoseWritePermission, vars
  <2>8. QED
    BY <2>1, <2>2, <2>3, <2>4, <2>5, <2>6, <2>7
       DEF Next, Acquiring, Environment, M!Next
<1>3. QED
  BY <1>1, <1>2, TypeCorrect, OwnerInvariant, PTL
     DEF Spec, ImplementsMutex, M!Spec

-----------------------------------------------------------------------------
\* Nobody is robbed while no process dies and no live hold outlasts staleMs:
\* a takeover is only ever attempted on a leftover of a release that the file
\* system refused, and then the takeover is refused as well.
NoTakeover ==
    /\ stolen = {}
    /\ \A p \in Process : pid[p] = "live"
    /\ \A r \in Request : pc[r] = "unlink" => ~writable
    /\ Exists /\ (file.stale \/ pc[file.owner] \notin Inside) => ~writable

\* Nobody is robbed while no process dies and no live hold outlasts staleMs
\* (acquireConversationLock, release).
THEOREM WithoutDeathsNobodyIsRobbed ==
    ASSUME Crashable = {}, "age" \notin Faults
    PROVE  Spec => [](stolen = {})
<1> DEFINE IInv == OwnerInside /\ NoTakeover
<1> USE LockAssumption DEF OwnerInside, NoTakeover, Inside, Exists
<1>1. Init => IInv
  BY DEF Init
<1>2. TypeOK /\ IInv /\ [Next]_vars => IInv'
  <2> SUFFICES ASSUME TypeOK, IInv, [Next]_vars
               PROVE  IInv'
    OBVIOUS
  <2> USE DEF TypeOK
  <2>1. ASSUME NEW r \in Request, Acquire(r)
        PROVE  IInv'
    BY <2>1 DEF Acquire, Goto, Returned
  <2>2. ASSUME NEW r \in Request, Create(r)
        PROVE  IInv'
    BY <2>2 DEF Create, Goto, Absent, LockFile
  <2>3. ASSUME NEW r \in Request, WriteRecord(r)
        PROVE  IInv'
    BY <2>3 DEF WriteRecord, Goto, Absent, LockFile
  <2>4. ASSUME NEW r \in Request, WriteFails(r)
        PROVE  IInv'
    BY <2>4 DEF WriteFails, Goto, Unlink, Absent
  <2>5. ASSUME NEW r \in Request, ReadRecord(r)
        PROVE  IInv'
    BY <2>5 DEF ReadRecord, Goto, IsPidAlive, Absent, LockFile
  <2>6. ASSUME NEW r \in Request, Stat(r)
        PROVE  IInv'
    BY <2>6 DEF Stat, Goto, Absent, LockFile
  <2>7. ASSUME NEW r \in Request, StatVanished(r)
        PROVE  IInv'
    BY <2>7 DEF StatVanished, Goto
  <2>8. ASSUME NEW r \in Request, TakeOver(r)
        PROVE  IInv'
    BY <2>8 DEF TakeOver, Goto, Unlink, Absent
  <2>9. ASSUME NEW r \in Request, Poll(r)
        PROVE  IInv'
    BY <2>9 DEF Poll, Goto
  <2>10. ASSUME NEW r \in Request, Release(r)
        PROVE  IInv'
    BY <2>10 DEF Release, Goto, Unlink, Absent
  <2>11. ASSUME NEW p \in Process, Crash(p)
        PROVE  IInv'
    BY <2>11 DEF Crash
  <2>12. ASSUME NEW p \in Process, RecyclePid(p)
        PROVE  IInv'
    BY <2>12 DEF RecyclePid
  <2>13. CASE Age
    BY <2>13 DEF Age, Absent, LockFile
  <2>14. CASE LoseWritePermission
    BY <2>14 DEF LoseWritePermission
  <2>15. CASE UNCHANGED vars
    BY <2>15 DEF vars
  <2>16. QED
    BY <2>1, <2>2, <2>3, <2>4, <2>5, <2>6, <2>7, <2>8, <2>9, <2>10, <2>11,
       <2>12, <2>13, <2>14, <2>15 DEF Next, Acquiring, Environment
<1>3. NoTakeover => stolen = {}
  BY DEF NoTakeover
<1>4. QED
  BY <1>1, <1>2, <1>3, TypeCorrect, PTL DEF Spec

-----------------------------------------------------------------------------
\* With two processes a takeover is reached by the survivor only: the file in its way
\* is that of the dead one, or one that the directory has refused to give up.
SurvivorInv ==
    /\ stolen = {}
    /\ \A r \in Request : pc[r] = "crashed" <=> pid[ProcOf[r]] # "live"
    /\ \A r, q \in Request :
          r # q /\ ProcOf[r] = ProcOf[q] => pc[r] \notin Synchronous \/ pc[q] \notin Synchronous
    /\ Exists /\ writable => pc[file.owner] \in Inside \cup {"crashed"}
    /\ Exists /\ file.stale => pc[file.owner] \notin Inside
    /\ \A r \in Request : pc[r] = "unlink" /\ writable => Exists /\ pc[file.owner] = "crashed"

\* Nobody is robbed while the conversation has two processes and no live hold outlasts
\* staleMs: either may die at any step, with any number of requests waiting in the other.
THEOREM OfTwoProcessesNobodyIsRobbed ==
    ASSUME NEW host, NEW other, Process \subseteq {host, other}, "age" \notin Faults
    PROVE  Spec => [](stolen = {})
<1> DEFINE IInv == OwnerInside /\ SurvivorInv
<1> USE LockAssumption DEF OwnerInside, SurvivorInv, Inside, Exists, Synchronous
<1>1. Init => IInv
  BY DEF Init
<1>2. TypeOK /\ OwnerInside' /\ IInv /\ [Next]_vars => IInv'
  <2> SUFFICES ASSUME TypeOK, OwnerInside', IInv, [Next]_vars
               PROVE  SurvivorInv'
    OBVIOUS
  <2> USE DEF TypeOK
  <2>1. ASSUME NEW r \in Request, Acquire(r)
        PROVE  SurvivorInv'
    BY <2>1 DEF Acquire, Goto, Returned, Scheduled
  <2>2. ASSUME NEW r \in Request, Create(r)
        PROVE  SurvivorInv'
    BY <2>2 DEF Create, Goto, Absent, LockFile, Scheduled
  <2>3. ASSUME NEW r \in Request, WriteRecord(r)
        PROVE  SurvivorInv'
    BY <2>3 DEF WriteRecord, Goto, Absent, LockFile, Scheduled
  <2>4. ASSUME NEW r \in Request, WriteFails(r)
        PROVE  SurvivorInv'
    BY <2>4 DEF WriteFails, Goto, Unlink, Absent, Scheduled
  <2>5. ASSUME NEW r \in Request, ReadRecord(r)
        PROVE  SurvivorInv'
    BY <2>5 DEF ReadRecord, Goto, IsPidAlive, Absent, LockFile, Scheduled
  <2>6. ASSUME NEW r \in Request, Stat(r)
        PROVE  SurvivorInv'
    BY <2>6 DEF Stat, Goto, Absent, LockFile, Scheduled
  <2>7. ASSUME NEW r \in Request, StatVanished(r)
        PROVE  SurvivorInv'
    BY <2>7 DEF StatVanished, Goto, Scheduled
  <2>8. ASSUME NEW r \in Request, TakeOver(r)
        PROVE  SurvivorInv'
    BY <2>8 DEF TakeOver, Goto, Unlink, Absent, LockFile, Scheduled
  <2>9. ASSUME NEW r \in Request, Poll(r)
        PROVE  SurvivorInv'
    BY <2>9 DEF Poll, Goto, Scheduled
  <2>10. ASSUME NEW r \in Request, Release(r)
        PROVE  SurvivorInv'
    BY <2>10 DEF Release, Goto, Unlink, Absent, Scheduled
  <2>11. ASSUME NEW p \in Process, Crash(p)
         PROVE  SurvivorInv'
    BY <2>11 DEF Crash, LockFile
  <2>12. ASSUME NEW p \in Process, RecyclePid(p)
         PROVE  SurvivorInv'
    BY <2>12 DEF RecyclePid
  <2>13. CASE Age
    BY <2>13 DEF Age, Absent, LockFile
  <2>14. CASE LoseWritePermission
    BY <2>14 DEF LoseWritePermission
  <2>15. CASE UNCHANGED vars
    BY <2>15 DEF vars
  <2>16. QED
    BY <2>1, <2>2, <2>3, <2>4, <2>5, <2>6, <2>7, <2>8, <2>9, <2>10, <2>11,
       <2>12, <2>13, <2>14, <2>15 DEF Next, Acquiring, Environment
<1>3. SurvivorInv => stolen = {}
  BY DEF SurvivorInv
<1>4. QED
  BY <1>1, <1>2, <1>3, TypeCorrect, OwnerInvariant, PTL DEF Spec

\* So the lock of two processes is a mutex, whichever dies and whenever.
THEOREM LockOfTwoProcesses ==
    ASSUME NEW host, NEW other, Process \subseteq {host, other}, "age" \notin Faults
    PROVE  Spec => []MutualExclusion /\ ImplementsMutex
BY OfTwoProcessesNobodyIsRobbed, LockMutualExclusion, LockImplementsMutex, PTL

\* And so is the lock of any number of processes of which none dies.
THEOREM LockWithoutDeaths ==
    ASSUME Crashable = {}, "age" \notin Faults
    PROVE  Spec => []MutualExclusion /\ ImplementsMutex
BY WithoutDeathsNobodyIsRobbed, LockMutualExclusion, LockImplementsMutex, PTL
=============================================================================
