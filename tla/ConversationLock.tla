--------------------------- MODULE ConversationLock ---------------------------
(***************************************************************************)
(* The cross-process exclusion lock of one agy conversation                *)
(* (packages/engine/src/conversation-lock.ts).  A request that wants to    *)
(* resume the conversation runs acquireConversationLock; every system call *)
(* of it (exclusive create, write, read, stat, unlink) is a step of its    *)
(* own.  Requests of one process share a JavaScript thread: between two    *)
(* awaits the steps of a request are not interleaved with those of another *)
(* request of the SAME process, while other processes may step in anywhere.*)
(*                                                                         *)
(* Time is abstracted: the deadline of the bounded wait passes at any poll *)
(* (at the latest at poll MaxPolls), a lock file may outlive staleMs at    *)
(* any moment that the environment assumptions (Faults) allow.             *)
(***************************************************************************)
EXTENDS Naturals, FiniteSets

CONSTANTS
    Request,      \* turns that want the conversation
    Process,      \* operating-system processes (opencode, pi)
    ProcOf,       \* the process a request runs in
    Crashable,    \* processes that may die at any step
    Faults,       \* what else the environment may do, see FaultKind
    MaxPolls,     \* bound: polls after which the deadline has surely passed
    MaxSpins      \* bound: the spin cap of the vanished-file path

(***************************************************************************)
(* "age":      a live holder may hold the lock longer than staleMs         *)
(* "recycle":  the pid of a dead process may be reused by another program  *)
(* "readonly": the lock directory may lose its write permission            *)
(* "nospace":  writing the holder record may fail                          *)
(***************************************************************************)
FaultKind == {"age", "recycle", "readonly", "nospace"}

ASSUME LockAssumption ==
    /\ ProcOf \in [Request -> Process]
    /\ Crashable \subseteq Process
    /\ Faults \subseteq FaultKind
    /\ MaxPolls \in Nat
    /\ MaxSpins \in Nat

VARIABLES
    pc,        \* where each request is in acquireConversationLock or after it
    polls,     \* sleeps done by the current acquisition of a request
    spins,     \* vanishedSpins of the current acquisition
    file,      \* the lock file of the conversation, or Absent
    pid,       \* what process.kill(pid, 0) finds for each process
    writable,  \* the lock directory still accepts create and unlink
    stolen     \* history: requests whose lock file was removed under them

vars == <<pc, polls, spins, file, pid, writable, stolen>>

-----------------------------------------------------------------------------
Waiting  == {"create", "read", "stat", "unlink", "sleep"}
Inside   == {"write", "hold"}                       \* has created the file
Returned == {"idle", "busy", "failed", "released", "crashed"}

\* The steps between two awaits: the thread of the process is taken.
Synchronous == {"create", "read", "stat", "unlink", "write"}

\* An empty record is a file created but not yet written: JSON.parse fails.
LockFile == [owner : Request, record : {"empty", "pid"}, stale : BOOLEAN]
Absent   == [owner |-> {}]

Exists == file # Absent

\* process.kill(pid, 0): EPERM and a recycled pid both count as alive.
IsPidAlive(p) == pid[p] # "dead"

\* The request has a thread to run on.
Scheduled(r) ==
    /\ pid[ProcOf[r]] = "live"
    /\ \A q \in Request \ {r} :
          ProcOf[q] = ProcOf[r] => pc[q] \notin Synchronous

\* unlinkSync(lockPath) inside try/catch: the path goes, whoever owns it.
Unlink(r) ==
    IF Exists /\ writable
    THEN /\ file' = Absent
         /\ stolen' = stolen \cup
                         {q \in Request \ {r} : pc[q] \in Inside /\ file.owner = q}
    ELSE UNCHANGED <<file, stolen>>

Goto(r, label) == pc' = [pc EXCEPT ![r] = label]

-----------------------------------------------------------------------------
\* deadline = now + waitMs, vanishedSpins = 0.
Acquire(r) ==
    /\ pc[r] \in Returned \ {"crashed"}
    /\ Scheduled(r)
    /\ Goto(r, "create")
    /\ polls' = [polls EXCEPT ![r] = 0]
    /\ spins' = [spins EXCEPT ![r] = 0]
    /\ stolen' = stolen \ {r}
    /\ UNCHANGED <<file, pid, writable>>

\* Mutant of Create: openSync without the exclusive flag.
CreateShared(r) ==
    /\ pc[r] = "create"
    /\ Scheduled(r)
    /\ IF writable
       THEN /\ file' = [owner |-> r, record |-> "empty", stale |-> FALSE]
            /\ Goto(r, "write")
       ELSE Goto(r, "failed") /\ UNCHANGED file
    /\ UNCHANGED <<polls, spins, pid, writable, stolen>>

\* openSync(lockPath, "wx"): the exclusive create is the arbiter.
Create(r) ==
    /\ pc[r] = "create"
    /\ Scheduled(r)
    /\ \/ /\ ~Exists
          /\ writable
          /\ file' = [owner |-> r, record |-> "empty", stale |-> FALSE]
          /\ Goto(r, "write")
       \/ /\ Exists                                  \* EEXIST
          /\ Goto(r, "read")
          /\ UNCHANGED file
       \/ /\ ~Exists
          /\ ~writable                               \* EACCES is rethrown
          /\ Goto(r, "failed")
          /\ UNCHANGED file
    /\ UNCHANGED <<polls, spins, pid, writable, stolen>>

\* writeSync of the holder record, closeSync, return the lock.
WriteRecord(r) ==
    /\ pc[r] = "write"
    /\ Scheduled(r)
    /\ Goto(r, "hold")
    /\ file' = IF Exists /\ file.owner = r
               THEN [file EXCEPT !.record = "pid"]
               ELSE file                             \* the inode is unlinked
    /\ UNCHANGED <<polls, spins, pid, writable, stolen>>

\* writeSync throws: abandonLock unlinks the path, the error is rethrown.
WriteFails(r) ==
    /\ "nospace" \in Faults
    /\ pc[r] = "write"
    /\ Scheduled(r)
    /\ Unlink(r)
    /\ Goto(r, "failed")
    /\ UNCHANGED <<polls, spins, pid, writable>>

\* Mutant of ReadRecord: an unreadable record counts as a dead holder.
ReadRecordEager(r) ==
    /\ pc[r] = "read"
    /\ Scheduled(r)
    /\ LET holderGone == /\ Exists
                         /\ \/ file.record = "empty"
                            \/ ~IsPidAlive(ProcOf[file.owner])
       IN Goto(r, IF holderGone THEN "unlink" ELSE "stat")
    /\ UNCHANGED <<polls, spins, file, pid, writable, stolen>>

\* readFileSync + JSON.parse + isPidAlive: only a written record of a dead
\* pid proves the holder gone; a missing or empty one decides nothing.
ReadRecord(r) ==
    /\ pc[r] = "read"
    /\ Scheduled(r)
    /\ LET holderGone == /\ Exists
                         /\ file.record = "pid"
                         /\ ~IsPidAlive(ProcOf[file.owner])
       IN Goto(r, IF holderGone THEN "unlink" ELSE "stat")
    /\ UNCHANGED <<polls, spins, file, pid, writable, stolen>>

\* Mutant of Stat: the poll loop without its deadline.
StatPatient(r) ==
    /\ pc[r] = "stat"
    /\ Scheduled(r)
    /\ Exists
    /\ Goto(r, IF file.stale THEN "unlink" ELSE "create")
    /\ UNCHANGED <<polls, spins, file, pid, writable, stolen>>

\* statSync on a file that is still there: stale, or wait for it.
Stat(r) ==
    /\ pc[r] = "stat"
    /\ Scheduled(r)
    /\ Exists
    /\ \/ file.stale /\ Goto(r, "unlink")
       \/ ~file.stale /\ polls[r] < MaxPolls /\ Goto(r, "sleep")
       \/ ~file.stale /\ Goto(r, "busy")             \* now >= deadline
    /\ UNCHANGED <<polls, spins, file, pid, writable, stolen>>

\* statSync fails: the file vanished, retry at once within deadline and cap.
StatVanished(r) ==
    /\ pc[r] = "stat"
    /\ Scheduled(r)
    /\ ~Exists
    /\ \/ /\ spins[r] < MaxSpins
          /\ spins' = [spins EXCEPT ![r] = @ + 1]
          /\ Goto(r, "create")
       \/ /\ spins' = spins
          /\ Goto(r, "busy")
    /\ UNCHANGED <<polls, file, pid, writable, stolen>>

\* holderGone: unlink whatever is at the path NOW, then race for the create.
TakeOver(r) ==
    /\ pc[r] = "unlink"
    /\ Scheduled(r)
    /\ Unlink(r)
    /\ Goto(r, "create")
    /\ UNCHANGED <<polls, spins, pid, writable>>

\* The poll timer fires.
Poll(r) ==
    /\ pc[r] = "sleep"
    /\ Scheduled(r)
    /\ polls' = [polls EXCEPT ![r] = @ + 1]
    /\ Goto(r, "create")
    /\ UNCHANGED <<spins, file, pid, writable, stolen>>

\* release(): unlink the path and swallow every error.
Release(r) ==
    /\ pc[r] = "hold"
    /\ Scheduled(r)
    /\ Unlink(r)
    /\ Goto(r, "released")
    /\ UNCHANGED <<polls, spins, pid, writable>>

-----------------------------------------------------------------------------
\* A process dies; its lock file, written or not, stays on disk.
Crash(p) ==
    /\ p \in Crashable
    /\ pid[p] = "live"
    /\ pid' = [pid EXCEPT ![p] = "dead"]
    /\ pc' = [r \in Request |-> IF ProcOf[r] = p THEN "crashed" ELSE pc[r]]
    /\ UNCHANGED <<polls, spins, file, writable, stolen>>

RecyclePid(p) ==
    /\ "recycle" \in Faults
    /\ pid[p] = "dead"
    /\ pid' = [pid EXCEPT ![p] = "recycled"]
    /\ UNCHANGED <<pc, polls, spins, file, writable, stolen>>

\* mtime falls behind by staleMs: at any time for a file nobody holds any
\* more, for a held one only under the fault "age".
Age ==
    /\ Exists
    /\ ~file.stale
    /\ \/ pc[file.owner] \notin Inside
       \/ "age" \in Faults
    /\ file' = [file EXCEPT !.stale = TRUE]
    /\ UNCHANGED <<pc, polls, spins, pid, writable, stolen>>

LoseWritePermission ==
    /\ "readonly" \in Faults
    /\ writable
    /\ writable' = FALSE
    /\ UNCHANGED <<pc, polls, spins, file, pid, stolen>>

-----------------------------------------------------------------------------
Init ==
    /\ pc = [r \in Request |-> "idle"]
    /\ polls = [r \in Request |-> 0]
    /\ spins = [r \in Request |-> 0]
    /\ file = Absent
    /\ pid = [p \in Process |-> "live"]
    /\ writable = TRUE
    /\ stolen = {}

\* The steps acquireConversationLock takes by itself once it is called.
Acquiring(r) ==
    \/ Create(r) \/ WriteRecord(r) \/ WriteFails(r) \/ ReadRecord(r)
    \/ Stat(r) \/ StatVanished(r) \/ TakeOver(r) \/ Poll(r)

Environment ==
    \/ \E p \in Process : Crash(p) \/ RecyclePid(p)
    \/ Age
    \/ LoseWritePermission

Next ==
    \/ \E r \in Request : Acquire(r) \/ Acquiring(r) \/ Release(r)
    \/ Environment

Spec == Init /\ [][Next]_vars

\* A live process runs the steps of its requests, and its event loop serves an
\* expired timer however many other turns it starts meanwhile; nothing obliges
\* a host to start a turn, a holder to finish or the environment to fail.
FairSpec ==
    Spec /\ \A r \in Request : WF_vars(Acquiring(r)) /\ SF_vars(Poll(r))

-----------------------------------------------------------------------------
\* Each variable stays within its type.
TypeOK ==
    /\ pc \in [Request -> Waiting \cup Inside \cup Returned]
    /\ polls \in [Request -> 0..MaxPolls]
    /\ spins \in [Request -> 0..MaxSpins]
    /\ file \in LockFile \cup {Absent}
    /\ pid \in [Process -> {"live", "dead", "recycled"}]
    /\ writable \in BOOLEAN
    /\ stolen \subseteq Request

\* conversation-lock.ts 4-5: two requests never drive the conversation at
\* once.  True as long as no takeover races with another process.
MutualExclusion ==
    \A r, q \in Request : pc[r] = "hold" /\ pc[q] = "hold" => r = q

\* Under every fault: of the requests that believe they hold the lock, at
\* most one still has its file.  A double hold therefore needs a removal of
\* a live holder's file, and nothing else the code does can cause one.
AtMostOneUnstolen ==
    \A r, q \in Request \ stolen :
        pc[r] = "hold" /\ pc[q] = "hold" => r = q

\* The file of a holder that is gone or too slow, which nobody can unlink: the
\* loop neither sleeps nor looks at its deadline (conversation-lock.ts 172-180).
Unremovable == ~writable /\ Exists /\ (file.stale \/ pc[file.owner] \notin Inside)

\* Line 32, "bounded busy wait": a call of acquireConversationLock returns a
\* lock or an error, unless its process dies or the file in its way is
\* Unremovable.
AcquireReturns ==
    \A r \in Request :
        (pc[r] \in Waiting \cup {"write"})
            ~> (pc[r] \in Returned \cup {"hold"} \/ Unremovable)

\* The requests inside, as Mutex sees them.
Holders == {r \in Request : pc[r] = "hold"}
M == INSTANCE Mutex WITH holders <- Holders

\* The lock implements the abstract mutex.
ImplementsMutex == M!Spec
=============================================================================
