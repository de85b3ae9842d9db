----------------------------- MODULE SessionStore -----------------------------
(***************************************************************************)
(* The opencode session store as several processes run it                  *)
(* (packages/opencode-adapter/src/session-store.ts): lock, read the file,  *)
(* compute, rename a new file over it, unlock.  Within a process the       *)
(* global promise chain runs one operation at a time, so a process is one  *)
(* client here; every system call is a step of its own.  The Pi store      *)
(* (packages/pi-adapter/src/session-store.ts) locks in the same way.       *)
(*                                                                         *)
(* Time is abstracted: the deadline of the bounded wait may have passed at *)
(* any turn of the loop and has passed at turn MaxTries.                   *)
(***************************************************************************)
EXTENDS Integers, Sequences

CONSTANTS
    Session, Conversation, MaxBindings, MaxAge,         \* as in Bindings
    Client,        \* processes with a store open on the file
    Ops,           \* the operations they issue
    Crashable,     \* clients that may die at any step
    Faults,        \* see FaultKind
    MaxTries,      \* bound: turns of the wait loop within the deadline
    MaxClock       \* bound: last tick of the clock

(***************************************************************************)
(* "suspend":  a process may stall for longer than lockStaleMs             *)
(* "nospace":  writing the holder's pid or the temporary file may fail     *)
(* "readonly": the state directory may lose its write permission           *)
(***************************************************************************)
FaultKind == {"suspend", "nospace", "readonly"}

ASSUME StoreAssumption ==
    /\ \A o \in Ops : o.kind \in {"bind", "rebind", "rebindAll", "prune", "read"}
    /\ Crashable \subseteq Client
    /\ Faults \subseteq FaultKind
    /\ MaxTries \in Nat
    /\ MaxClock \in Nat

VARIABLES
    pc,            \* where each client is
    op,            \* its current operation
    tries,         \* turns of the wait loop so far
    view,          \* the sessions it loaded
    lock,          \* the lock file: its owner and age, or Absent
    writable,      \* the state directory accepts create, rename and unlink
    sessions,      \* the state file
    clock,
    bound          \* history: what the last operation that took effect bound

vars == <<pc, op, tries, view, lock, writable, sessions, clock, bound>>

-----------------------------------------------------------------------------
Waiting   == {"create", "stat", "unlink"}
Inside    == {"locked", "loaded", "unlock"}
Absent    == [owner |-> {}]
Exists    == lock # Absent

NoOp      == [kind |-> "none"]
NoSession == [s \in Session |-> <<>>]

F == INSTANCE SessionFile

Goto(c, label) == pc' = [pc EXCEPT ![c] = label]

\* The operation settles, with a value or an error, and its locals are gone.
Return(c) ==
    /\ Goto(c, "idle")
    /\ op' = [op EXCEPT ![c] = NoOp]
    /\ tries' = [tries EXCEPT ![c] = 0]
    /\ view' = [view EXCEPT ![c] = NoSession]

\* unlinkSync(lockPath): the path goes, whoever owns it.
Unlink == lock' = IF writable THEN Absent ELSE lock

\* Mutants of Again: no bound on the turns; no deadline at all; the operation
\* goes ahead at the deadline.
AgainUncounted(c) ==
    /\ tries' = [tries EXCEPT ![c] = @ + 1]
    /\ Goto(c, "create")
    /\ UNCHANGED <<op, view>>

AgainForever(c) ==
    /\ Goto(c, "create")
    /\ UNCHANGED <<op, tries, view>>

AgainRegardless(c) ==
    /\ Goto(c, "locked")
    /\ UNCHANGED <<op, tries, view>>

\* One more turn of the wait loop, slept on or not, or the deadline.
Again(c) ==
    \/ /\ tries[c] < MaxTries
       /\ tries' = [tries EXCEPT ![c] = @ + 1]
       /\ Goto(c, "create")
       /\ UNCHANGED <<op, view>>
    \/ Return(c)                                   \* SessionStoreBusyError

-----------------------------------------------------------------------------
\* An operation reaches the head of its process's chain.
Call(c) ==
    /\ pc[c] = "idle"
    /\ \E o \in Ops : op' = [op EXCEPT ![c] = o]
    /\ Goto(c, "create")
    /\ UNCHANGED <<tries, view, lock, writable, sessions, clock, bound>>

\* Mutant of Create: openSync without the exclusive flag.
CreateShared(c) ==
    /\ pc[c] = "create"
    /\ IF writable
       THEN /\ lock' = [owner |-> c, stale |-> FALSE]
            /\ Goto(c, "locked")
            /\ UNCHANGED <<op, tries, view>>
       ELSE Return(c) /\ UNCHANGED lock
    /\ UNCHANGED <<writable, sessions, clock, bound>>

\* openSync(lockPath, "wx").
Create(c) ==
    /\ pc[c] = "create"
    /\ \/ /\ Exists
          /\ Goto(c, "stat")
          /\ UNCHANGED <<op, tries, view, lock>>
       \/ /\ ~Exists /\ writable
          /\ lock' = [owner |-> c, stale |-> FALSE]
          /\ Goto(c, "locked")
          /\ UNCHANGED <<op, tries, view>>
       \/ /\ ~Exists /\ ~writable                   \* EACCES is rethrown
          /\ Return(c)
          /\ UNCHANGED lock
    /\ UNCHANGED <<writable, sessions, clock, bound>>

\* statSync: a fresh lock is waited for, a stale one goes, a vanished one is
\* retried at once.
Stat(c) ==
    /\ pc[c] = "stat"
    /\ IF Exists /\ lock.stale
       THEN Goto(c, "unlink") /\ UNCHANGED <<op, tries, view>>
       ELSE Again(c)
    /\ UNCHANGED <<lock, writable, sessions, clock, bound>>

TakeOver(c) ==
    /\ pc[c] = "unlink"
    /\ Unlink
    /\ Goto(c, "create")
    /\ UNCHANGED <<op, tries, view, writable, sessions, clock, bound>>

\* writeSync of the pid, readFileSync and the computation.  An operation that
\* writes nothing takes effect here.
Load(c) ==
    /\ pc[c] = "locked"
    /\ view' = [view EXCEPT ![c] = sessions]
    /\ IF F!Writes(op[c], sessions, clock)
       THEN Goto(c, "loaded") /\ UNCHANGED bound
       ELSE Goto(c, "unlock") /\ bound' = F!BoundBy(op[c])
    /\ UNCHANGED <<op, tries, lock, writable, sessions, clock>>

\* persist(): write a temporary file, rename it over the state file.
Persist(c) ==
    /\ pc[c] = "loaded"
    /\ writable
    /\ sessions' = F!Result(op[c], view[c], clock)
    /\ bound' = F!BoundBy(op[c])
    /\ Goto(c, "unlock")
    /\ UNCHANGED <<op, tries, view, lock, writable, clock>>

\* Mutant of WriteFails: no finally clause releases the lock.
WriteFailsLeaking(c) ==
    /\ pc[c] \in {"locked", "loaded"} /\ "nospace" \in Faults
    /\ Return(c)
    /\ UNCHANGED <<lock, writable, sessions, clock, bound>>

\* Writing the pid or persist() throws: the file is as it was, and the lock is
\* released all the same.
WriteFails(c) ==
    /\ \/ pc[c] = "locked" /\ "nospace" \in Faults
       \/ pc[c] = "loaded" /\ (~writable \/ "nospace" \in Faults)
    /\ Goto(c, "unlock")
    /\ UNCHANGED <<op, tries, view, lock, writable, sessions, clock, bound>>

\* releaseLock(): a vanished lock is tolerated; a failure to unlink makes the
\* operation fail after it has taken effect.
Release(c) ==
    /\ pc[c] = "unlock"
    /\ Unlink
    /\ Return(c)
    /\ UNCHANGED <<writable, sessions, clock, bound>>

-----------------------------------------------------------------------------
Crash(c) ==
    /\ c \in Crashable
    /\ pc[c] # "crashed"
    /\ Goto(c, "crashed")
    /\ UNCHANGED <<op, tries, view, lock, writable, sessions, clock, bound>>

\* The mtime of the lock falls behind: its owner is gone, or stalled for
\* seconds in what takes milliseconds.
Age ==
    /\ Exists /\ ~lock.stale
    /\ pc[lock.owner] \notin Inside \/ "suspend" \in Faults
    /\ lock' = [lock EXCEPT !.stale = TRUE]
    /\ UNCHANGED <<pc, op, tries, view, writable, sessions, clock, bound>>

LosePermission ==
    /\ "readonly" \in Faults
    /\ writable
    /\ writable' = FALSE
    /\ UNCHANGED <<pc, op, tries, view, lock, sessions, clock, bound>>

\* A tick is of the order of the retention age; an operation samples the clock
\* between its read and its rename, which are a moment apart.
Tick ==
    /\ clock < MaxClock
    /\ \A c \in Client : pc[c] # "loaded"
    /\ clock' = clock + 1
    /\ UNCHANGED <<pc, op, tries, view, lock, writable, sessions, bound>>

-----------------------------------------------------------------------------
Init ==
    /\ pc = [c \in Client |-> "idle"]
    /\ op = [c \in Client |-> NoOp]
    /\ tries = [c \in Client |-> 0]
    /\ view = [c \in Client |-> NoSession]
    /\ lock = Absent
    /\ writable = TRUE
    /\ sessions \in F!Legacy
    /\ clock = 0
    /\ bound = <<>>

\* What a client does by itself once an operation is called.
Working(c) ==
    \/ Create(c) \/ Stat(c) \/ TakeOver(c)
    \/ Load(c) \/ Persist(c) \/ WriteFails(c) \/ Release(c)

Next ==
    \/ \E c \in Client : Call(c) \/ Working(c) \/ Crash(c)
    \/ Age \/ LosePermission \/ Tick

Spec == Init /\ [][Next]_vars

\* Live processes run; nothing obliges them to issue operations.
FairSpec == Spec /\ \A c \in Client : WF_vars(Working(c))

-----------------------------------------------------------------------------
TypeOK ==
    /\ pc \in [Client -> {"idle"} \cup Waiting \cup Inside \cup {"crashed"}]
    /\ op \in [Client -> Ops \cup {NoOp}]
    /\ tries \in [Client -> 0..MaxTries]
    /\ DOMAIN view = Client
    /\ lock \in [owner : Client, stale : BOOLEAN] \cup {Absent}
    /\ writable \in BOOLEAN
    /\ clock \in 0..MaxClock

\* Lines 266-268: a cycle of one process never interleaves with that of another.
\* Nobody writes a file computed from a view that is no longer the file.
CyclesDoNotInterleave ==
    \A c \in Client : pc[c] = "loaded" => view[c] = sessions

\* The store implements SessionFile: no update is lost, none is half applied.
ImplementsSessionFile == F!Spec

\* Lines 266-269, "the lock dies with the op even when the body throws": while
\* the directory is writable, a lock on disk belongs to a client at work on it
\* or to one that died.
LockDiesWithOperation ==
    Exists /\ writable => pc[lock.owner] \in Inside \cup {"crashed"}

\* The client records keep their types (a client that retries stays within its
\* deadline), and no client leaves its lock behind.
StoreSound == TypeOK /\ LockDiesWithOperation

\* Line 37: the wait for the lock is bounded, and the body cannot hang.  The
\* exception is a stale lock in a directory that refuses to unlink it: that
\* path of the loop looks at no deadline.
OperationsReturn ==
    \A c \in Client :
        pc[c] \in Waiting \cup Inside ~> pc[c] \in {"idle", "crashed"} \/ ~writable
=============================================================================
