------------------------------ MODULE ScratchDirs ------------------------------
(***************************************************************************)
(* The scratch directories turns run or log in, and the two sweeps of      *)
(* their root, which the adapters share by default: pruneScratch of        *)
(* opencode (workdir.ts) empties old directories, prepareScratchWorkdir of *)
(* pi (scratch.ts) removes them.                                           *)
(***************************************************************************)
EXTENDS Naturals

CONSTANTS
    Opencode, Pi,     \* processes that run one turn at a time
    Week,             \* SCRATCH_MAX_AGE_MS, in ticks of the clock
    MaxCalls,         \* bound: turns started
    MaxClock          \* bound: last tick of the clock, which never steps back

Bridge == Opencode \cup Pi
Call == 1 .. MaxCalls

\* Two directories from long ago; the second is another user's.
Own     == 0
Foreign == MaxCalls + 1
Dir     == 0 .. MaxCalls + 1

VARIABLES
    clock,
    calls,         \* turns started so far
    turn,          \* per process: the step of its turn, its directory, and the
                   \*   directories its sweep has found to be old
    scratch        \* per directory: none, full, emptied or removed, and its mtime

vars == <<clock, calls, turn, scratch>>

Entry(state) == [state |-> state, at |-> clock]

NoTurn == [step |-> "idle", id |-> 0, judged |-> {}]

Init ==
    /\ clock = 0 /\ calls = 0
    /\ turn = [p \in Bridge |-> NoTurn]
    /\ \E left \in SUBSET {Own, Foreign} :
          scratch = [d \in Dir |-> Entry(IF d \in left THEN "full" ELSE "none")]

At(p, step) == turn[p].step = step

Tick ==
    /\ clock < MaxClock
    /\ clock' = clock + 1
    /\ UNCHANGED <<calls, turn, scratch>>

\* mkdtemp makes a directory of its own for every turn.
Begin(p, step) ==
    /\ At(p, "idle") /\ calls < MaxCalls
    /\ calls' = calls + 1
    /\ turn' = [turn EXCEPT ![p] = [NoTurn EXCEPT !.step = step, !.id = calls + 1]]
    /\ UNCHANGED clock

Present(d) == scratch[d].state \in {"full", "emptied"}

\* Mutant of OldDirs: every directory with the prefix.
OldDirsAll == {d \in Dir : Present(d)}

OldDirs == {d \in Dir : Present(d) /\ scratch[d].at + Week <= clock}

\* prepareWorkdir in scratch mode; the sweep comes next.
BeginOpencode(p) ==
    /\ Begin(p, "stating")
    /\ scratch' = [scratch EXCEPT ![calls + 1] = Entry("full")]

\* pruneScratch: the stats of one pass are taken together ...
Stat(p) ==
    /\ At(p, "stating")
    /\ turn' = [turn EXCEPT ![p].step = "emptying", ![p].judged = OldDirs]
    /\ UNCHANGED <<clock, calls, scratch>>

\* ... then each old directory is read and emptied (its mtime moves with that,
\* which only puts the next sweep off) ...
Empty(p, d) ==
    /\ At(p, "emptying") /\ d \in turn[p].judged /\ Present(d) /\ d # Foreign
    /\ scratch' = [scratch EXCEPT ![d].state = "emptied"]
    /\ turn' = [turn EXCEPT ![p].judged = @ \ {d}]
    /\ UNCHANGED <<clock, calls>>

\* ... unless it has vanished or may not be read: readdirSync throws, and with
\* it the turn.
Throw(p, d) ==
    /\ At(p, "emptying") /\ d \in turn[p].judged /\ (Present(d) => d = Foreign)
    /\ turn' = [turn EXCEPT ![p].step = "failed", ![p].judged = {d}]
    /\ UNCHANGED <<clock, calls, scratch>>

Swept(p) ==
    /\ At(p, "emptying") /\ turn[p].judged = {}
    /\ turn' = [turn EXCEPT ![p].step = "running"]
    /\ UNCHANGED <<clock, calls, scratch>>

\* An AskAgy call of pi first removes old directories; what cannot be removed
\* stays.  A provider turn makes the directory of its logs without a sweep.
BeginPi(p, sweep) ==
    /\ Begin(p, "running")
    /\ scratch' = [d \in Dir |->
          IF d = calls + 1 THEN Entry("full")
          ELSE IF sweep /\ d \in OldDirs \ {Foreign}
          THEN [scratch[d] EXCEPT !.state = "removed"]
          ELSE scratch[d]]

\* The turn ends, or its process dies; the directory stays.
End(p) ==
    /\ ~At(p, "idle")
    /\ turn' = [turn EXCEPT ![p] = NoTurn]
    /\ UNCHANGED <<clock, calls, scratch>>

Next ==
    \/ Tick
    \/ \E p \in Opencode : \/ BeginOpencode(p) \/ Stat(p) \/ Swept(p)
                           \/ \E d \in Dir : Empty(p, d) \/ Throw(p, d)
    \/ \E p \in Pi, sweep \in BOOLEAN : BeginPi(p, sweep)
    \/ \E p \in Bridge : End(p)

Spec == Init /\ [][Next]_vars

-----------------------------------------------------------------------------
\* The sweeps keep to what is old: while a turn runs nobody has emptied or
\* removed its directory, unless it has been running for a week; and the sweep
\* of an opencode turn fails the turn only over a directory that a pi turn
\* removed in the meantime or that belongs to somebody else.
ScratchForCause ==
    \A p \in Bridge :
        /\ At(p, "running") => LET d == scratch[turn[p].id]
                               IN d.state = "full" \/ d.at + Week <= clock
        /\ At(p, "failed") => \A d \in turn[p].judged :
                                 d = Foreign \/ (scratch[d].state = "removed" /\ Pi # {})
=============================================================================
