----------------------------- MODULE StagedImages -----------------------------
(***************************************************************************)
(* Images staged for agy in a worktree that several processes share:       *)
(* stageAttachments and pruneAttachments (packages/engine/src/             *)
(* attachments.ts) as runTurn of either bridge calls them.  An image is    *)
(* stored under the hash of its bytes; a file that is there already is     *)
(* reused as it is.  The functions are synchronous; other processes come   *)
(* between their system calls.                                             *)
(***************************************************************************)
EXTENDS Naturals

CONSTANTS
    Proc,         \* processes that run one turn at a time
    Image,        \* images, by their content hash
    Week,         \* ATTACHMENT_MAX_AGE_MS, in ticks of the clock
    MaxClock      \* bound: last tick of the clock, which never steps back

ASSUME StagedImagesAssumption == Week \in Nat \ {0} /\ MaxClock \in Nat

VARIABLES
    clock,
    file,         \* per image: absent, partial or whole, and its mtime
    turn          \* per process: the step of its turn, its image (none or one),
                  \*   the mtime of the file it staged, the images its sweep has
                  \*   condemned, and whether it staged one another sweep had

vars == <<clock, file, turn>>

Absent == [state |-> "absent", at |-> 0]
Written(state) == [state |-> state, at |-> clock]

NoTurn == [step |-> "idle", attached |-> {}, staged |-> 0, judged |-> {},
           risk |-> FALSE]

Step == {"idle", "staging", "comparing", "creating", "writing", "pruning",
         "unlinking", "running", "failed"}

TypeOK ==
    /\ clock \in 0 .. MaxClock
    /\ file \in [Image -> [state : {"absent", "partial", "whole"}, at : 0 .. MaxClock]]
    /\ turn \in [Proc -> [step : Step, attached : SUBSET Image, staged : 0 .. MaxClock,
                          judged : SUBSET Image, risk : BOOLEAN]]

\* A worktree an earlier turn may have left an image in.
Init ==
    /\ clock = 0
    /\ file \in [Image -> {Absent, Written("whole")}]
    /\ turn = [p \in Proc |-> NoTurn]

At(p, step) == turn[p].step = step
Goto(p, step) == turn' = [turn EXCEPT ![p].step = step]

Tick ==
    /\ clock < MaxClock
    /\ clock' = clock + 1
    /\ UNCHANGED <<file, turn>>

\* An opencode turn sweeps with or without an image, a pi turn only with one.
Begin(p, attached) ==
    /\ At(p, "idle")
    /\ turn' = [turn EXCEPT ![p] = [NoTurn EXCEPT
                   !.step = IF attached = {} THEN "pruning" ELSE "staging",
                   !.attached = attached]]
    /\ UNCHANGED <<clock, file>>

\* existsSync.
Look(p, i) ==
    /\ At(p, "staging") /\ i \in turn[p].attached
    /\ Goto(p, IF file[i].state = "absent" THEN "creating" ELSE "comparing")
    /\ UNCHANGED <<clock, file>>

\* A sweep has condemned the image and has not removed it yet.
Condemned(i) == \E q \in Proc : At(q, "unlinking") /\ i \in turn[q].judged

\* The same bytes are there: they are reused as they are, mtime and all.
Reuse(p, i) ==
    /\ At(p, "comparing") /\ i \in turn[p].attached /\ file[i].state = "whole"
    /\ turn' = [turn EXCEPT ![p].step = "pruning", ![p].staged = file[i].at,
                            ![p].risk = Condemned(i)]
    /\ UNCHANGED <<clock, file>>

\* Other bytes are there, of a process that is writing them or died so, or the
\* file has vanished since: the turn fails.
Refuse(p, i) ==
    /\ At(p, "comparing") /\ i \in turn[p].attached /\ file[i].state # "whole"
    /\ Goto(p, "failed")
    /\ UNCHANGED <<clock, file>>

\* writeFileSync opens and truncates, then writes.
Create(p, i) ==
    /\ At(p, "creating") /\ i \in turn[p].attached
    /\ file' = [file EXCEPT ![i] = Written("partial")]
    /\ Goto(p, "writing")
    /\ UNCHANGED clock

Write(p, i) ==
    /\ At(p, "writing") /\ i \in turn[p].attached
    /\ file' = [file EXCEPT ![i] = IF @.state = "absent" THEN @ ELSE Written("whole")]
    /\ turn' = [turn EXCEPT ![p].step = "pruning", ![p].staged = clock,
                            ![p].risk = file[i].state = "absent" \/ Condemned(i)]
    /\ UNCHANGED clock

\* Mutant of Old: every staged image is a candidate.
OldOrNot == {i \in Image : file[i].state # "absent"}

Old == {i \in Image : file[i].state # "absent" /\ file[i].at + Week <= clock}

\* pruneAttachments, right after staging: the ages are taken, then what is old
\* is removed.
Judge(p) ==
    /\ At(p, "pruning")
    /\ turn' = [turn EXCEPT ![p].step = "unlinking", ![p].judged = Old]
    /\ UNCHANGED <<clock, file>>

Unlink(p) ==
    /\ At(p, "unlinking")
    /\ file' = [i \in Image |-> IF i \in turn[p].judged THEN Absent ELSE file[i]]
    /\ turn' = [turn EXCEPT ![p].step = "running", ![p].judged = {}]
    /\ UNCHANGED clock

\* The turn ends, or its process dies wherever it is; the process is free.
End(p) ==
    /\ ~At(p, "idle")
    /\ turn' = [turn EXCEPT ![p] = NoTurn]
    /\ UNCHANGED <<clock, file>>

Turn(p) ==
    \/ \E attached \in {{}} \cup {{i} : i \in Image} : Begin(p, attached)
    \/ \E i \in Image :
          Look(p, i) \/ Reuse(p, i) \/ Refuse(p, i) \/ Create(p, i) \/ Write(p, i)
    \/ Judge(p) \/ Unlink(p) \/ End(p)

Next == Tick \/ \E p \in Proc : Turn(p)

Spec == Init /\ [][Next]_vars

-----------------------------------------------------------------------------
\* While agy runs, the image it was told to look at is there, unless the turn
\* reused a file that was staged a week ago or more, or staged it while another
\* sweep had condemned it already.  (It may be half written, if another process
\* stages the same image for the first time at that moment.)
ImageAtHand ==
    \A p \in Proc : At(p, "running") => \A i \in turn[p].attached :
        file[i].state = "absent" => turn[p].risk \/ turn[p].staged + Week <= clock
=============================================================================
