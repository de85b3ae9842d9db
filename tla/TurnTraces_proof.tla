--------------------------- MODULE TurnTraces_proof ---------------------------
(***************************************************************************)
(* Proofs about what a turn leaves for others to see (MCTurnTraces), for   *)
(* any processes, images, listings, limits and ages.                       *)
(***************************************************************************)
EXTENDS MCTurnTraces, FiniteSetTheorems, SequenceTheorems, TLAPS

\* Every step of the whole is a step of each part, or leaves it as it is.
LEMMA StepOfEachPart ==
    ASSUME [MCNext]_allVars
    PROVE  /\ [Next]_vars /\ [Logs!Next]_logVars /\ [Scratch!Next]_scratchVars
           /\ [Stream!Next]_streamVars /\ [Models!Next]_modelVars
BY DEF MCNext, allVars, imageVars, logVars, scratchVars, streamVars, modelVars, vars,
       Images, LogFiles, Dirs, Shown, Offered, Others

-----------------------------------------------------------------------------
(* Staged images.                                                          *)

\* Steps a turn takes once its image is staged.
Staged(p) == turn[p].step \in {"pruning", "unlinking", "running"}

\* The causes for which an image may go while its turn runs.
Excused(p) == turn[p].risk \/ turn[p].staged + Week <= clock

\* An image whose turn has no excuse is there, no sweep has condemned it, and
\* its file is at least as new as the turn found it.
Secure(p, i) ==
    /\ file[i].state # "absent" /\ turn[p].staged <= file[i].at
    /\ ~Condemned(i)

ImageInv ==
    /\ TypeOK
    /\ \A i \in Image : file[i].at <= clock
    /\ \A p \in Proc : turn[p].staged <= clock
    /\ \A p \in Proc : \A i, j \in turn[p].attached : i = j
    /\ \A p \in Proc : Staged(p) =>
          \A i \in turn[p].attached : Excused(p) \/ Secure(p, i)

\* The invariant of the images: it holds at first ...
LEMMA ImagesAtFirst == Init => ImageInv
BY StagedImagesAssumption
   DEF Init, ImageInv, TypeOK, Absent, Written, NoTurn, Step, Staged, Excused

\* ... and every step of a turn or of the clock preserves it.
LEMMA ImagesStep == ImageInv /\ [Next]_vars => ImageInv'
<1> SUFFICES ASSUME ImageInv, [Next]_vars
             PROVE  ImageInv'
  OBVIOUS
<1> USE StagedImagesAssumption
<1>t. TypeOK
  BY DEF ImageInv
<1>1. CASE Tick
  <2>1. clock' = clock + 1 /\ clock' \in 0 .. MaxClock /\ UNCHANGED <<file, turn>>
    BY <1>1, <1>t DEF Tick, TypeOK
  <2>2. clock \in Nat /\ \A i \in Image : file[i].at \in Nat
    BY <1>t DEF TypeOK
  <2>3. \A p \in Proc : turn[p].staged \in Nat
    BY <1>t DEF TypeOK
  <2>4. TypeOK'
    BY <1>t, <2>1 DEF TypeOK
  <2> QED
    BY <2>1, <2>2, <2>3, <2>4 DEF ImageInv, Staged, Excused, Secure, Condemned, At
<1>2. ASSUME NEW p \in Proc, Turn(p)
      PROVE  ImageInv'
  <2> DEFINE
        Turns == [step : Step, attached : SUBSET Image, staged : 0 .. MaxClock,
                  judged : SUBSET Image, risk : BOOLEAN]
        Files == [state : {"absent", "partial", "whole"}, at : 0 .. MaxClock]
  <2>a. /\ clock \in 0 .. MaxClock /\ file \in [Image -> Files] /\ turn \in [Proc -> Turns]
    BY <1>t DEF TypeOK
  <2>b. clock' = clock
    BY <1>2 DEF Turn, Begin, Look, Refuse, Reuse, Create, Write, Judge, Unlink, End
  <2> DEFINE
        Free(i) == \A q \in Proc \ {p} :
            ~(turn[q].step = "unlinking" /\ i \in turn[q].judged)
        Moves(t) ==
            /\ turn' = [turn EXCEPT ![p] = t] /\ t.staged <= clock
            /\ \A i, j \in t.attached : i = j
            /\ file' \in [Image -> Files]
            /\ \A i \in Image :
                  \/ file'[i] = file[i]
                  \/ file'[i].state # "absent" /\ file'[i].at = clock
                  \/ file'[i] = Absent /\ turn[p].step = "unlinking" /\ i \in turn[p].judged
            /\ t.step = "unlinking" => t.judged \subseteq Old /\ file' = file
            /\ t.step \in {"pruning", "unlinking", "running"} => \A i \in t.attached :
                  \/ t.risk \/ t.staged + Week <= clock
                  \/ /\ file'[i].state # "absent" /\ t.staged <= file'[i].at /\ Free(i)
                     /\ t.step = "unlinking" => i \notin t.judged
  \* What an action does to the turn of p and to the files, and why that is enough.
  <2>c. ASSUME NEW t \in Turns, Moves(t)
        PROVE  ImageInv'
    <3>1. turn'[p] = t /\ \A q \in Proc \ {p} : turn'[q] = turn[q]
      BY <2>a, <2>c
    <3>2. TypeOK'
      BY <2>a, <2>b, <2>c DEF TypeOK
    <3>3. \A i \in Image : file'[i].at <= clock'
      BY <2>a, <2>b, <2>c DEF ImageInv, Absent
    <3>4. \A q \in Proc : turn'[q].staged <= clock'
      BY <2>b, <2>c, <3>1 DEF ImageInv
    <3>5. \A q \in Proc : \A i, j \in turn'[q].attached : i = j
      BY <2>c, <3>1 DEF ImageInv
    <3>6. \A i \in Image : clock \in Nat /\ file[i].at \in Nat
      BY <2>a
    <3>7. ASSUME NEW q \in Proc, Staged(q)', NEW i \in turn'[q].attached
          PROVE  Excused(q)' \/ Secure(q, i)'
      <4>1. i \in Image
        BY <3>2 DEF TypeOK
      <4>2. CASE q = p
        BY <2>b, <2>c, <3>1, <3>7, <4>1, <4>2 DEF Staged, Excused, Secure, Condemned, At
      <4>3. CASE q # p
        <5>1. turn'[q] = turn[q] /\ Staged(q) /\ i \in turn[q].attached
          BY <3>1, <3>7, <4>3 DEF Staged
        <5>2. CASE Excused(q)
          BY <2>b, <5>1, <5>2 DEF Excused
        <5>3. CASE ~Excused(q)
          <6>1. Secure(q, i)
            BY <5>1, <5>3 DEF ImageInv
          <6>2. turn[q].staged \in Nat /\ turn[q].staged <= clock
            BY <2>a DEF ImageInv
          <6>3. file'[i].state # "absent" /\ turn'[q].staged <= file'[i].at
            BY <2>c, <4>1, <5>1, <6>1, <6>2 DEF Secure, Condemned, At
          <6>4. i \notin Old
            BY <3>6, <4>1, <5>3, <6>1, <6>2 DEF Old, Secure, Excused
          <6>5. ~Condemned(i)'
            BY <2>c, <3>1, <6>1, <6>4 DEF Secure, Condemned, At
          <6> QED
            BY <6>3, <6>5 DEF Secure
        <5> QED
          BY <5>2, <5>3
      <4> QED
        BY <4>2, <4>3
    <3> QED
      BY <3>2, <3>3, <3>4, <3>5, <3>7 DEF ImageInv
  <2> HIDE DEF Turns, Files, Moves
  <2>d. turn[p] \in Turns /\ turn[p].staged <= clock /\ clock \in Nat
        /\ \A i, j \in turn[p].attached : i = j
    BY <2>a DEF ImageInv
  <2>e. NoTurn \in Turns /\ NoTurn.step = "idle" /\ NoTurn.attached = {} /\ NoTurn.staged = 0
    BY StagedImagesAssumption DEF Turns, Step, NoTurn
  <2>1. ASSUME NEW attached \in {{}} \cup {{i} : i \in Image}, Begin(p, attached)
        PROVE  ImageInv'
    <3> DEFINE t == [NoTurn EXCEPT !.step = IF attached = {} THEN "pruning" ELSE "staging",
                                   !.attached = attached]
    <3>1. t \in Turns /\ t.staged = 0 /\ t.attached = attached
          /\ t.step = IF attached = {} THEN "pruning" ELSE "staging"
      BY <2>e DEF Turns, Step
    <3>2. \A i, j \in t.attached : i = j
      BY <3>1
    <3>3. file' = file
      BY <2>1 DEF Begin
    <3>4. turn' = [turn EXCEPT ![p] = t]
      BY <2>1, Zenon DEF Begin
    <3> HIDE DEF t
    <3>5. Moves(t)
      BY <2>a, <2>d, <3>1, <3>2, <3>3, <3>4 DEF Moves
    <3> QED
      BY <2>c, <3>1, <3>5
  <2>2. ASSUME NEW i \in Image, Look(p, i) \/ Refuse(p, i)
        PROVE  ImageInv'
    <3>1. PICK step \in {"creating", "comparing", "failed"} : Goto(p, step) /\ file' = file
      BY <2>2 DEF Look, Refuse
    <3> DEFINE t == [turn[p] EXCEPT !.step = step]
    <3>2. t \in Turns /\ t.step = step /\ t.staged = turn[p].staged
          /\ t.attached = turn[p].attached
      BY <2>d, <3>1 DEF Turns, Step
    <3>3. turn' = [turn EXCEPT ![p] = t]
      BY <2>a, <3>1 DEF Goto, Turns
    <3> HIDE DEF t
    <3>4. Moves(t)
      BY <2>a, <2>d, <3>1, <3>2, <3>3 DEF Moves
    <3> QED
      BY <2>c, <3>2, <3>4
  <2>3. ASSUME NEW i \in Image, Reuse(p, i)
        PROVE  ImageInv'
    <3> DEFINE risk == Condemned(i)
               t == [turn[p] EXCEPT !.step = "pruning", !.staged = file[i].at, !.risk = risk]
    <3>1. file[i].state = "whole" /\ file[i].at \in 0 .. MaxClock /\ file[i].at <= clock
          /\ i \in turn[p].attached /\ file' = file
      BY <2>3, <2>a DEF Reuse, Files, ImageInv
    <3>2. risk \in BOOLEAN /\ (~risk => Free(i))
      BY DEF Condemned, At
    <3>3. turn' = [turn EXCEPT ![p] = t]
      BY <2>3, <2>a DEF Reuse, Turns
    <3> HIDE DEF risk
    <3>4. t \in Turns /\ t.step = "pruning" /\ t.staged = file[i].at /\ t.risk = risk
          /\ t.attached = turn[p].attached
      BY <2>d, <3>1, <3>2 DEF Turns, Step
    <3> HIDE DEF t
    <3>5. Moves(t)
      BY <2>a, <2>d, <3>1, <3>2, <3>3, <3>4 DEF Moves
    <3> QED
      BY <2>c, <3>4, <3>5
  <2>4. ASSUME NEW i \in Image, Create(p, i)
        PROVE  ImageInv'
    <3> DEFINE t == [turn[p] EXCEPT !.step = "writing"]
    <3>1. file' = [file EXCEPT ![i] = [state |-> "partial", at |-> clock]]
      BY <2>4 DEF Create, Written
    <3>2. t \in Turns /\ t.step = "writing" /\ t.staged = turn[p].staged
          /\ t.attached = turn[p].attached
      BY <2>d DEF Turns, Step
    <3>3. turn' = [turn EXCEPT ![p] = t]
      BY <2>4, <2>a DEF Create, Goto, Turns
    <3> HIDE DEF t
    <3>4. file' \in [Image -> Files]
      BY <2>a, <3>1 DEF Files
    <3>5. Moves(t)
      BY <2>a, <2>d, <3>1, <3>2, <3>3, <3>4 DEF Moves
    <3> QED
      BY <2>c, <3>2, <3>5
  <2>5. ASSUME NEW i \in Image, Write(p, i)
        PROVE  ImageInv'
    <3> DEFINE risk == file[i].state = "absent" \/ Condemned(i)
               t == [turn[p] EXCEPT !.step = "pruning", !.staged = clock, !.risk = risk]
    <3>1. file' = [file EXCEPT ![i] = IF file[i].state = "absent" THEN file[i]
                                      ELSE [state |-> "whole", at |-> clock]]
          /\ i \in turn[p].attached
      BY <2>5, <2>a DEF Write, Written
    <3>2. risk \in BOOLEAN /\ (~risk => file[i].state # "absent" /\ Free(i))
      BY DEF Condemned, At
    <3>3. turn' = [turn EXCEPT ![p] = t]
      BY <2>5, <2>a DEF Write, Turns
    <3> HIDE DEF risk
    <3>4. t \in Turns /\ t.step = "pruning" /\ t.staged = clock /\ t.risk = risk
          /\ t.attached = turn[p].attached
      BY <2>a, <2>d, <3>2 DEF Turns, Step
    <3> HIDE DEF t
    <3>5. file' \in [Image -> Files]
      BY <2>a, <3>1 DEF Files
    <3>6. Moves(t)
      BY <2>a, <2>d, <3>1, <3>2, <3>3, <3>4, <3>5 DEF Moves
    <3> QED
      BY <2>c, <3>4, <3>6
  <2>6. ASSUME Judge(p)
        PROVE  ImageInv'
    <3> DEFINE t == [turn[p] EXCEPT !.step = "unlinking", !.judged = Old]
    <3>1. turn[p].step = "pruning" /\ file' = file
      BY <2>6 DEF Judge, At
    <3>2. t \in Turns /\ t.step = "unlinking" /\ t.staged = turn[p].staged
          /\ t.attached = turn[p].attached /\ t.risk = turn[p].risk /\ t.judged = Old
      BY <2>d DEF Turns, Step, Old
    <3>3. turn' = [turn EXCEPT ![p] = t]
      BY <2>6, <2>a DEF Judge, Turns
    <3> HIDE DEF t
    <3>4. ASSUME NEW i \in t.attached, ~(t.risk \/ t.staged + Week <= clock)
          PROVE  file'[i].state # "absent" /\ t.staged <= file'[i].at /\ Free(i)
                 /\ i \notin t.judged
      <4>1. i \in Image /\ turn[p].staged \in Nat
        BY <2>d, <3>2 DEF Turns
      <4>2. Secure(p, i)
        BY <3>1, <3>2, <3>4 DEF ImageInv, Staged, Excused
      <4>3. file[i].at \in Nat
        BY <2>a, <4>1 DEF Files
      <4> QED
        BY <3>1, <3>2, <3>4, <4>1, <4>2, <4>3, <2>d, StagedImagesAssumption
           DEF Secure, Condemned, At, Old
    <3>5. Moves(t)
      BY <2>a, <2>d, <3>1, <3>2, <3>3, <3>4 DEF Moves
    <3> QED
      BY <2>c, <3>2, <3>5
  <2>7. ASSUME Unlink(p)
        PROVE  ImageInv'
    <3> DEFINE t == [turn[p] EXCEPT !.step = "running", !.judged = {}]
    <3>1. turn[p].step = "unlinking"
          /\ file' = [i \in Image |-> IF i \in turn[p].judged THEN Absent ELSE file[i]]
      BY <2>7 DEF Unlink, At
    <3>2. t \in Turns /\ t.step = "running" /\ t.staged = turn[p].staged
          /\ t.attached = turn[p].attached /\ t.risk = turn[p].risk
      BY <2>d DEF Turns, Step
    <3>3. turn' = [turn EXCEPT ![p] = t]
      BY <2>7, <2>a DEF Unlink, Turns
    <3> HIDE DEF t
    <3>4. ASSUME NEW i \in t.attached, ~(t.risk \/ t.staged + Week <= clock)
          PROVE  file'[i].state # "absent" /\ t.staged <= file'[i].at /\ Free(i)
      <4>1. i \in Image
        BY <2>d, <3>2 DEF Turns
      <4>2. Secure(p, i)
        BY <3>1, <3>2, <3>4 DEF ImageInv, Staged, Excused
      <4> QED
        BY <3>1, <3>2, <4>1, <4>2 DEF Secure, Condemned, At
    <3>5. file' \in [Image -> Files]
      BY <2>a, <3>1, StagedImagesAssumption DEF Files, Absent
    <3>6. Moves(t)
      BY <2>a, <2>d, <3>1, <3>2, <3>3, <3>4, <3>5 DEF Moves
    <3> QED
      BY <2>c, <3>2, <3>6
  <2>8. ASSUME End(p)
        PROVE  ImageInv'
    <3>1. Moves(NoTurn)
      BY <2>8, <2>a, <2>d, <2>e DEF Moves, End
    <3> QED
      BY <2>c, <2>e, <3>1
  <2> QED
    BY <1>2, <2>1, <2>2, <2>3, <2>4, <2>5, <2>6, <2>7, <2>8 DEF Turn
<1>10. CASE UNCHANGED vars
  BY <1>10 DEF vars, ImageInv, TypeOK, Staged, Excused, Secure, Condemned, At
<1> QED
  BY <1>1, <1>2, <1>10 DEF Next

\* While agy runs, the image it was told to look at is there, unless the turn
\* reused a file a week old or staged it under another sweep's hands: whatever
\* the processes, the images and the age at which sweeps take them
\* (stageAttachments, pruneAttachments).
THEOREM StagedImageStays == MCSpec => []ImageAtHand
<1>1. MCInit => ImageInv
  BY ImagesAtFirst DEF MCInit
<1>2. ImageInv /\ [MCNext]_allVars => ImageInv'
  BY ImagesStep, StepOfEachPart
<1>3. ImageInv => ImageAtHand
  BY DEF ImageInv, ImageAtHand, At, Staged, Excused, Secure
<1> QED
  BY <1>1, <1>2, <1>3, PTL DEF MCSpec

-----------------------------------------------------------------------------
(* Scratch directories.                                                    *)

ScratchTurns ==
    [step : {"idle", "stating", "emptying", "running", "failed"},
     id : 0 .. MaxScratchCalls, judged : SUBSET Scratch!Dir]

ScratchDirs ==
    [Scratch!Dir -> [state : {"none", "full", "emptied", "removed"}, at : Nat]]

\* A directory that was old enough when a sweep looked stays old: nothing that
\* is done to it later makes it newer.
LongGone(d) == scratch[d].state # "none" /\ scratch[d].at + Week <= sclock

\* The directory of a turn at work is full or old, what its sweep has found is
\* old, and what it has failed over is gone or another user's.
ScratchTurnInv(p) ==
    LET t == sturn[p]
    IN /\ t.step # "idle" => scratch[t.id].state = "full" \/ LongGone(t.id)
       /\ t.step = "emptying" => \A d \in t.judged : LongGone(d)
       /\ t.step = "failed" =>
             \A d \in t.judged : d = Scratch!Foreign \/ scratch[d].state = "removed"

\* Directories of turns that have not started do not exist; only pi removes any.
ScratchInv ==
    /\ sclock \in Nat /\ scalls \in 0 .. MaxScratchCalls
    /\ sturn \in [Scratch!Bridge -> ScratchTurns] /\ scratch \in ScratchDirs
    /\ \A d \in scalls + 1 .. MaxScratchCalls : scratch[d].state = "none"
    /\ \A d \in Scratch!Dir : scratch[d].state = "removed" => PiProc # {}
    /\ \A p \in Scratch!Bridge : ScratchTurnInv(p)

\* The invariant of the scratch directories holds at first ...
LEMMA ScratchAtFirst == Scratch!Init => ScratchInv
<1> SUFFICES ASSUME Scratch!Init
             PROVE  ScratchInv
  OBVIOUS
<1> USE TurnTracesAssumption DEF Scratch!Dir, Scratch!Own, Scratch!Foreign
<1>1. sclock = 0 /\ scalls = 0
      /\ sturn = [p \in Scratch!Bridge |-> [step |-> "idle", id |-> 0, judged |-> {}]]
  BY DEF Scratch!Init, Scratch!NoTurn
<1>2. PICK left \in SUBSET {0, MaxScratchCalls + 1} :
          scratch = [d \in Scratch!Dir |-> [state |-> IF d \in left THEN "full" ELSE "none",
                                            at |-> 0]]
  BY <1>1 DEF Scratch!Init, Scratch!Entry
<1>3. sturn \in [Scratch!Bridge -> ScratchTurns]
  BY <1>1 DEF ScratchTurns
<1>4. scratch \in ScratchDirs
  BY <1>2 DEF ScratchDirs
<1> QED
  BY <1>1, <1>2, <1>3, <1>4 DEF ScratchInv, ScratchTurnInv

\* ... and every step of a turn or of the clock preserves it.
LEMMA ScratchStep == ScratchInv /\ [Scratch!Next]_scratchVars => ScratchInv'
<1> SUFFICES ASSUME ScratchInv, [Scratch!Next]_scratchVars
             PROVE  ScratchInv'
  OBVIOUS
<1> USE TurnTracesAssumption, StagedImagesAssumption
<1>a. /\ sclock \in Nat /\ scalls \in 0 .. MaxScratchCalls
      /\ sturn \in [Scratch!Bridge -> ScratchTurns] /\ scratch \in ScratchDirs
  BY DEF ScratchInv
<1>1. CASE Scratch!Tick
  <2>1. sclock' = sclock + 1 /\ UNCHANGED <<scalls, sturn, scratch>>
    BY <1>1 DEF Scratch!Tick
  <2>2. \A d \in Scratch!Dir : scratch[d].at \in Nat
    BY <1>a DEF ScratchDirs
  <2>3. \A p \in Scratch!Bridge : sturn[p].id \in Scratch!Dir /\ sturn[p].judged \in SUBSET Scratch!Dir
    BY <1>a DEF ScratchTurns, Scratch!Dir
  <2> QED
    BY <1>a, <2>1, <2>2, <2>3 DEF ScratchInv, ScratchTurnInv, LongGone
<1> DEFINE
      Moves(p, t) ==
          /\ sturn' = [sturn EXCEPT ![p] = t] /\ sclock' = sclock
          /\ scalls' \in 0 .. MaxScratchCalls /\ scalls <= scalls'
          /\ scratch' \in ScratchDirs
          /\ \A d \in Scratch!Dir :
                \/ scratch'[d] = scratch[d]
                \/ scratch[d].state = "none" /\ scratch'[d].state = "full" /\ d <= scalls'
                \/ /\ LongGone(d) /\ scratch'[d].at = scratch[d].at
                   /\ scratch[d].state # "removed"
                   /\ scratch'[d].state \in {"emptied", "removed"}
                   /\ scratch'[d].state = "removed" => PiProc # {}
          /\ t.step # "idle" => scratch'[t.id].state = "full" \/ LongGone(t.id)
          /\ t.step = "emptying" => \A d \in t.judged : LongGone(d)
          /\ t.step = "failed" =>
                \A d \in t.judged : d = Scratch!Foreign \/ scratch[d].state = "removed"
\* What an action does to the turn of p and to the directories, and why that is
\* enough.
<1>b. ASSUME NEW p \in Scratch!Bridge, NEW t \in ScratchTurns, Moves(p, t)
      PROVE  ScratchInv'
  <2>1. sturn'[p] = t /\ \A q \in Scratch!Bridge \ {p} : sturn'[q] = sturn[q]
    BY <1>a, <1>b
  <2>2. sturn' \in [Scratch!Bridge -> ScratchTurns]
    BY <1>a, <1>b
  <2>3. \A q \in Scratch!Bridge :
            /\ sturn[q].id \in Scratch!Dir /\ sturn[q].judged \in SUBSET Scratch!Dir
            /\ sturn'[q].id \in Scratch!Dir /\ sturn'[q].judged \in SUBSET Scratch!Dir
    BY <1>a, <2>2 DEF ScratchTurns, Scratch!Dir
  <2>4. \A d \in Scratch!Dir : LongGone(d) => LongGone(d)'
    BY <1>b DEF LongGone
  <2>5. \A d \in Scratch!Dir : scratch[d].state = "removed" => scratch'[d].state = "removed"
    BY <1>b
  <2>6. \A d \in Scratch!Dir :
            scratch[d].state = "full" => scratch'[d].state = "full" \/ LongGone(d)'
    BY <1>b, <2>4
  <2>7. ASSUME NEW q \in Scratch!Bridge
        PROVE  ScratchTurnInv(q)'
    <3>1. CASE q = p
      BY <1>b, <2>1, <2>3, <2>4, <2>5, <3>1 DEF ScratchTurnInv
    <3>2. CASE q # p
      BY <2>1, <2>3, <2>4, <2>5, <2>6, <3>2 DEF ScratchInv, ScratchTurnInv
    <3> QED
      BY <3>1, <3>2
  <2>8. \A d \in scalls' + 1 .. MaxScratchCalls : scratch'[d].state = "none"
    <3> SUFFICES ASSUME NEW d \in scalls' + 1 .. MaxScratchCalls
                 PROVE  scratch'[d].state = "none"
      OBVIOUS
    <3>1. d \in Scratch!Dir /\ d \in scalls + 1 .. MaxScratchCalls /\ ~(d <= scalls')
      BY <1>a, <1>b DEF Scratch!Dir
    <3> QED
      BY <1>b, <3>1 DEF ScratchInv, LongGone
  <2>9. \A d \in Scratch!Dir : scratch'[d].state = "removed" => PiProc # {}
    BY <1>b DEF ScratchInv
  <2> QED
    BY <1>a, <1>b, <2>2, <2>7, <2>8, <2>9 DEF ScratchInv
<1> HIDE DEF Moves
<1>9. CASE UNCHANGED scratchVars
  BY <1>9 DEF scratchVars, ScratchInv, ScratchTurnInv, LongGone
<1>c. Scratch!NoTurn \in ScratchTurns /\ Scratch!NoTurn.step = "idle"
  BY DEF ScratchTurns, Scratch!NoTurn
<1>d. \A p \in Scratch!Bridge : sturn[p] \in ScratchTurns
  BY <1>a
\* A new turn has a directory of its own, which did not exist.
<1>e. ASSUME NEW p \in Scratch!Bridge, NEW step \in {"stating", "running"},
             Scratch!Begin(p, step)
      PROVE  LET t == [Scratch!NoTurn EXCEPT !.step = step, !.id = scalls + 1]
             IN /\ sclock' = sclock /\ scalls' = scalls + 1 /\ scalls < MaxScratchCalls
                /\ sturn' = [sturn EXCEPT ![p] = t]
                /\ t \in ScratchTurns /\ t.step = step /\ t.id = scalls + 1
                /\ scratch[scalls + 1].state = "none" /\ scalls + 1 \in Scratch!Dir
  <2> DEFINE t == [Scratch!NoTurn EXCEPT !.step = step, !.id = scalls + 1]
  <2>1. sclock' = sclock /\ scalls' = scalls + 1 /\ scalls < MaxScratchCalls
    BY <1>e DEF Scratch!Begin
  <2>2. sturn' = [sturn EXCEPT ![p] = t]
    BY <1>e, Zenon DEF Scratch!Begin
  <2>3. t \in ScratchTurns /\ t.step = step /\ t.id = scalls + 1
    <3> DEFINE id == scalls + 1
    <3>1. id \in 0 .. MaxScratchCalls
      BY <1>a, <2>1
    <3> HIDE DEF id
    <3>2. [Scratch!NoTurn EXCEPT !.step = step, !.id = id] \in ScratchTurns
      BY <1>c, <1>e, <3>1 DEF ScratchTurns
    <3>3. /\ [Scratch!NoTurn EXCEPT !.step = step, !.id = id].step = step
          /\ [Scratch!NoTurn EXCEPT !.step = step, !.id = id].id = id
      BY <1>c DEF ScratchTurns
    <3> QED
      BY <3>2, <3>3 DEF id
  <2>4. scratch[scalls + 1].state = "none" /\ scalls + 1 \in Scratch!Dir
    BY <1>a, <2>1 DEF ScratchInv, Scratch!Dir
  <2> QED
    BY <2>1, <2>2, <2>3, <2>4
<1>2. ASSUME NEW p \in Scratch!Bridge, Scratch!BeginOpencode(p)
      PROVE  ScratchInv'
  <2> DEFINE t == [Scratch!NoTurn EXCEPT !.step = "stating", !.id = scalls + 1]
  <2>1. Scratch!Begin(p, "stating")
        /\ scratch' = [scratch EXCEPT ![scalls + 1] = [state |-> "full", at |-> sclock]]
    BY <1>2 DEF Scratch!BeginOpencode, Scratch!Entry
  <2>2. /\ sclock' = sclock /\ scalls' = scalls + 1 /\ scalls < MaxScratchCalls
        /\ sturn' = [sturn EXCEPT ![p] = t]
        /\ t \in ScratchTurns /\ t.step = "stating" /\ t.id = scalls + 1
        /\ scratch[scalls + 1].state = "none" /\ scalls + 1 \in Scratch!Dir
    BY <1>e, <2>1
  <2> HIDE DEF t
  <2>3. scratch' \in ScratchDirs
    BY <1>a, <2>1 DEF ScratchDirs
  <2>4. \A d \in Scratch!Dir : scratch'[d] = IF d = scalls + 1
            THEN [state |-> "full", at |-> sclock] ELSE scratch[d]
    BY <1>a, <2>1 DEF ScratchDirs
  <2>10. Moves(p, t)
    BY <1>a, <2>2, <2>3, <2>4 DEF Moves
  <2> QED
    BY <1>b, <2>10, <2>2
<1>3. ASSUME NEW p \in Scratch!Bridge, Scratch!Stat(p)
      PROVE  ScratchInv'
  <2> DEFINE t == [sturn[p] EXCEPT !.step = "emptying", !.judged = Scratch!OldDirs]
  <2>1. sturn[p].step = "stating" /\ UNCHANGED <<sclock, scalls, scratch>>
    BY <1>3 DEF Scratch!Stat, Scratch!At
  <2>2. sturn' = [sturn EXCEPT ![p] = t]
    BY <1>3, <1>a DEF Scratch!Stat, ScratchTurns
  <2>3. t \in ScratchTurns /\ t.step = "emptying" /\ t.id = sturn[p].id
        /\ t.judged = Scratch!OldDirs
    BY <1>d DEF ScratchTurns, Scratch!OldDirs
  <2>4. \A d \in Scratch!OldDirs : LongGone(d)
    BY DEF Scratch!OldDirs, Scratch!Present, LongGone
  <2> HIDE DEF t
  <2>10. Moves(p, t)
    BY <1>a, <2>1, <2>2, <2>3, <2>4 DEF Moves, ScratchInv, ScratchTurnInv
  <2> QED
    BY <1>b, <2>10, <2>3
<1>4. ASSUME NEW p \in Scratch!Bridge, NEW d \in Scratch!Dir, Scratch!Empty(p, d)
      PROVE  ScratchInv'
  <2> DEFINE t == [sturn[p] EXCEPT !.judged = sturn[p].judged \ {d}]
  <2>1. /\ sturn[p].step = "emptying" /\ d \in sturn[p].judged /\ Scratch!Present(d)
        /\ UNCHANGED <<sclock, scalls>>
    BY <1>4 DEF Scratch!Empty, Scratch!At
  <2>2. sturn' = [sturn EXCEPT ![p] = t]
    BY <1>4, <1>a DEF Scratch!Empty, ScratchTurns
  <2>3. t \in ScratchTurns /\ t.step = "emptying" /\ t.id = sturn[p].id
        /\ t.judged = sturn[p].judged \ {d}
    BY <1>d, <2>1 DEF ScratchTurns
  <2> DEFINE e == [scratch[d] EXCEPT !.state = "emptied"]
  <2>4. e \in [state : {"none", "full", "emptied", "removed"}, at : Nat]
        /\ e.state = "emptied" /\ e.at = scratch[d].at
    BY <1>a DEF ScratchDirs
  <2>5. scratch' = [scratch EXCEPT ![d] = e]
    BY <1>4, <1>a DEF Scratch!Empty, ScratchDirs
  <2> HIDE DEF t, e
  <2>6. scratch' \in ScratchDirs /\ scratch'[d] = e
        /\ \A f \in Scratch!Dir \ {d} : scratch'[f] = scratch[f]
    BY <1>a, <2>4, <2>5 DEF ScratchDirs
  <2>7. LongGone(d) /\ scratch[d].state # "removed"
    BY <2>1 DEF ScratchInv, ScratchTurnInv, Scratch!Present
  <2>8. scratch'[t.id].state = "full" \/ LongGone(t.id)
    <3>1. t.id \in Scratch!Dir
      BY <2>3 DEF ScratchTurns, Scratch!Dir
    <3>2. scratch[t.id].state = "full" \/ LongGone(t.id)
      BY <2>1, <2>3 DEF ScratchInv, ScratchTurnInv
    <3> QED
      BY <2>6, <2>7, <3>1, <3>2
  <2>9. \A f \in t.judged : LongGone(f)
    BY <2>1, <2>3 DEF ScratchInv, ScratchTurnInv
  <2>10. Moves(p, t)
    BY <1>a, <2>1, <2>2, <2>3, <2>4, <2>6, <2>7, <2>8, <2>9 DEF Moves
  <2> QED
    BY <1>b, <2>10, <2>3
<1>5. ASSUME NEW p \in Scratch!Bridge, NEW d \in Scratch!Dir, Scratch!Throw(p, d)
      PROVE  ScratchInv'
  <2> DEFINE t == [sturn[p] EXCEPT !.step = "failed", !.judged = {d}]
  <2>1. /\ sturn[p].step = "emptying" /\ d \in sturn[p].judged
        /\ Scratch!Present(d) => d = Scratch!Foreign
        /\ UNCHANGED <<sclock, scalls, scratch>>
    BY <1>5 DEF Scratch!Throw, Scratch!At
  <2>2. sturn' = [sturn EXCEPT ![p] = t]
    BY <1>5, <1>a DEF Scratch!Throw, ScratchTurns
  <2>3. t \in ScratchTurns /\ t.step = "failed" /\ t.id = sturn[p].id /\ t.judged = {d}
    BY <1>d DEF ScratchTurns
  <2>4. d = Scratch!Foreign \/ scratch[d].state = "removed"
    BY <1>a, <2>1 DEF ScratchInv, ScratchTurnInv, LongGone, Scratch!Present, ScratchDirs
  <2> HIDE DEF t
  <2>10. Moves(p, t)
    BY <1>a, <2>1, <2>2, <2>3, <2>4 DEF Moves, ScratchInv, ScratchTurnInv
  <2> QED
    BY <1>b, <2>10, <2>3
<1>6. ASSUME NEW p \in Scratch!Bridge, Scratch!Swept(p)
      PROVE  ScratchInv'
  <2> DEFINE t == [sturn[p] EXCEPT !.step = "running"]
  <2>1. sturn[p].step = "emptying" /\ UNCHANGED <<sclock, scalls, scratch>>
    BY <1>6 DEF Scratch!Swept, Scratch!At
  <2>2. sturn' = [sturn EXCEPT ![p] = t]
    BY <1>6, <1>a DEF Scratch!Swept, ScratchTurns
  <2>3. t \in ScratchTurns /\ t.step = "running" /\ t.id = sturn[p].id
    BY <1>d DEF ScratchTurns
  <2> HIDE DEF t
  <2>10. Moves(p, t)
    BY <1>a, <2>1, <2>2, <2>3 DEF Moves, ScratchInv, ScratchTurnInv
  <2> QED
    BY <1>b, <2>10, <2>3
<1>7. ASSUME NEW p \in PiProc, NEW sweep \in BOOLEAN, Scratch!BeginPi(p, sweep)
      PROVE  ScratchInv'
  <2>p. p \in Scratch!Bridge /\ PiProc # {}
    BY DEF Scratch!Bridge
  <2> DEFINE t == [Scratch!NoTurn EXCEPT !.step = "running", !.id = scalls + 1]
             gone(d) == [scratch[d] EXCEPT !.state = "removed"]
  <2>1. /\ Scratch!Begin(p, "running")
        /\ scratch' = [d \in Scratch!Dir |->
              IF d = scalls + 1 THEN [state |-> "full", at |-> sclock]
              ELSE IF sweep /\ d \in Scratch!OldDirs \ {Scratch!Foreign}
              THEN gone(d)
              ELSE scratch[d]]
    BY <1>7 DEF Scratch!BeginPi, Scratch!Entry
  <2>2. /\ sclock' = sclock /\ scalls' = scalls + 1 /\ scalls < MaxScratchCalls
        /\ sturn' = [sturn EXCEPT ![p] = t]
        /\ t \in ScratchTurns /\ t.step = "running" /\ t.id = scalls + 1
        /\ scratch[scalls + 1].state = "none" /\ scalls + 1 \in Scratch!Dir
    BY <1>e, <2>1, <2>p
  <2>3. \A d \in Scratch!Dir :
            /\ gone(d) \in [state : {"none", "full", "emptied", "removed"}, at : Nat]
            /\ gone(d).state = "removed" /\ gone(d).at = scratch[d].at
    BY <1>a DEF ScratchDirs
  <2> HIDE DEF t, gone
  <2>4. scratch' \in ScratchDirs
    BY <1>a, <2>1, <2>3 DEF ScratchDirs
  <2>5. \A d \in Scratch!OldDirs : LongGone(d) /\ scratch[d].state # "removed"
    BY DEF Scratch!OldDirs, Scratch!Present, LongGone
  <2>6. scratch'[scalls + 1].state = "full"
    BY <2>1, <2>2
  <2>7. \A d \in Scratch!Dir :
                \/ scratch'[d] = scratch[d]
                \/ scratch[d].state = "none" /\ scratch'[d].state = "full" /\ d <= scalls'
                \/ /\ LongGone(d) /\ scratch'[d].at = scratch[d].at
                   /\ scratch[d].state # "removed"
                   /\ scratch'[d].state \in {"emptied", "removed"}
                   /\ scratch'[d].state = "removed" => PiProc # {}
    BY <1>a, <2>1, <2>2, <2>3, <2>5, <2>p
  <2>10. Moves(p, t)
    BY <1>a, <2>p, <2>2, <2>4, <2>6, <2>7 DEF Moves
  <2> QED
    BY <1>b, <2>10, <2>p, <2>2
<1>8. ASSUME NEW p \in Scratch!Bridge, Scratch!End(p)
      PROVE  ScratchInv'
  <2>1. sturn' = [sturn EXCEPT ![p] = Scratch!NoTurn] /\ UNCHANGED <<sclock, scalls, scratch>>
    BY <1>8 DEF Scratch!End
  <2>10. Moves(p, Scratch!NoTurn)
    BY <1>a, <1>c, <2>1 DEF Moves
  <2> QED
    BY <1>b, <2>10, <1>c
<1> QED
  BY <1>1, <1>2, <1>3, <1>4, <1>5, <1>6, <1>7, <1>8, <1>9 DEF Scratch!Next, Scratch!Bridge

\* Sweeps of scratch directories keep to what is old, and fail an opencode turn only
\* over a directory that pi removed in the meantime or that is another user's:
\* whatever processes there are, and at any age (pruneScratch,
\* prepareScratchWorkdir).
THEOREM ScratchSweptForCause == MCSpec => []ScratchForCause
<1>1. MCInit => ScratchInv
  BY ScratchAtFirst DEF MCInit
<1>2. ScratchInv /\ [MCNext]_allVars => ScratchInv'
  BY ScratchStep, StepOfEachPart
<1>3. ScratchInv => ScratchForCause
  <2> SUFFICES ASSUME ScratchInv, NEW p \in Scratch!Bridge
               PROVE  /\ sturn[p].step = "running" =>
                           \/ scratch[sturn[p].id].state = "full"
                           \/ scratch[sturn[p].id].at + Week <= sclock
                      /\ sturn[p].step = "failed" => \A d \in sturn[p].judged :
                           d = Scratch!Foreign \/ (scratch[d].state = "removed" /\ PiProc # {})
    BY DEF ScratchForCause, Scratch!ScratchForCause, Scratch!At
  <2>1. sturn[p].judged \in SUBSET Scratch!Dir
    BY DEF ScratchInv, ScratchTurns
  <2> QED
    BY <2>1 DEF ScratchInv, ScratchTurnInv, LongGone
<1> QED
  BY <1>1, <1>2, <1>3, PTL DEF MCSpec

-----------------------------------------------------------------------------
(* Models offered.                                                         *)

RowsAtHand == [listing : Listing \cup {"silent"}, stamp : Int, printed : Int]

Hosts == [Models!Bridge -> [pc : {"idle", "list", "open", "write", "serving"},
                            now : Nat, cached : RowsAtHand, rows : RowsAtHand]]

\* A listing is stamped when agy is asked and printed no earlier.
Dated(rows) ==
    rows # Models!Absent =>
        0 <= rows.stamp /\ rows.stamp <= rows.printed /\ rows.printed <= mclock

ModelInv ==
    /\ mclock \in Nat /\ offered \in Listing \cup {"silent"}
    /\ cache \in [state : {"missing", "garbled", "intact"}, rows : RowsAtHand]
    /\ host \in Hosts
    /\ Dated(cache.rows)
    /\ \A p \in Models!Bridge :
          /\ Dated(host[p].rows) /\ Dated(host[p].cached) /\ host[p].now <= mclock
          /\ host[p].pc \in {"open", "write"} =>
                host[p].rows # Models!Absent /\ host[p].now <= host[p].rows.printed

\* The invariant of the models offered holds at first ...
LEMMA ModelsAtFirst == Models!Init => ModelInv
<1> SUFFICES ASSUME Models!Init
             PROVE  ModelInv
  OBVIOUS
<1> USE DEF Models!Absent, Models!Rows, Models!Silent
<1>1. mclock = 0 /\ offered \in Listing \cup {"silent"}
      /\ host = [p \in Models!Bridge |-> Models!Idle]
  BY DEF Models!Init
<1>2. Models!Absent \in RowsAtHand
  BY DEF RowsAtHand
<1>3. host \in Hosts
  BY <1>1, <1>2 DEF Hosts, Models!Idle
<1>4. cache \in [state : {"missing", "garbled", "intact"}, rows : RowsAtHand]
      /\ Dated(cache.rows)
  <2>1. CASE cache \in {Models!Missing, Models!Garbled}
    BY <1>2, <2>1 DEF Models!Missing, Models!Garbled, Dated
  <2>2. ASSUME NEW l \in Listing, cache = Models!Intact(Models!Rows(l, 0, 0))
        PROVE  <1>4!1 /\ <1>4!2
    BY <1>1, <2>2 DEF Models!Intact, Dated, RowsAtHand
  <2> QED
    BY <2>1, <2>2 DEF Models!Init
<1> QED
  BY <1>1, <1>3, <1>4 DEF ModelInv, Models!Idle, Dated

\* ... and every step of a host, of agy or of the clock preserves it.
LEMMA ModelsStep == ModelInv /\ [Models!Next]_modelVars => ModelInv'
<1> SUFFICES ASSUME ModelInv, [Models!Next]_modelVars
             PROVE  ModelInv'
  OBVIOUS
<1> DEFINE
      Caches == [state : {"missing", "garbled", "intact"}, rows : RowsAtHand]
      Host == [pc : {"idle", "list", "open", "write", "serving"},
               now : Nat, cached : RowsAtHand, rows : RowsAtHand]
      Moves(p, h) ==
          /\ host' = [host EXCEPT ![p] = h] /\ mclock' = mclock /\ offered' = offered
          /\ cache' \in Caches
          /\ cache'.rows \in {cache.rows, Models!Absent, host[p].rows}
          /\ Dated(h.rows) /\ Dated(h.cached) /\ h.now <= mclock
          /\ h.pc \in {"open", "write"} =>
                h.rows # Models!Absent /\ h.now <= h.rows.printed
<1>a. /\ mclock \in Nat /\ offered \in Listing \cup {"silent"}
      /\ cache \in Caches /\ host \in [Models!Bridge -> Host]
  BY DEF ModelInv, Hosts
<1>b. ASSUME NEW p \in Models!Bridge, NEW h \in Host, Moves(p, h)
      PROVE  ModelInv'
  <2>1. host'[p] = h /\ \A q \in Models!Bridge \ {p} : host'[q] = host[q]
    BY <1>a, <1>b
  <2>2. host' \in Hosts
    BY <1>a, <1>b DEF Hosts
  <2>3. Dated(cache'.rows)
    BY <1>b DEF ModelInv, Dated
  <2> QED
    BY <1>a, <1>b, <2>1, <2>2, <2>3 DEF ModelInv, Dated
<1>c. Models!Absent \in RowsAtHand
  BY DEF RowsAtHand, Models!Absent, Models!Rows, Models!Silent
<1>d. \A p \in Models!Bridge : host[p] \in Host
  BY <1>a
<1> HIDE DEF Moves
\* A host that serves rows, or goes on with what it has.
<1>e. ASSUME NEW p \in Models!Bridge, NEW rows \in RowsAtHand, Dated(rows),
             Models!Serve(p, rows), UNCHANGED <<mclock, offered, cache>>
      PROVE  ModelInv'
  <2> DEFINE h == [host[p] EXCEPT !.pc = "serving", !.rows = rows]
  <2>1. host' = [host EXCEPT ![p] = h]
    BY <1>a, <1>e DEF Models!Serve
  <2>2. h \in Host /\ h.pc = "serving" /\ h.rows = rows /\ h.cached = host[p].cached
        /\ h.now = host[p].now
    BY <1>d
  <2> HIDE DEF h
  <2>3. Moves(p, h)
    BY <1>a, <1>e, <2>1, <2>2 DEF Moves, ModelInv
  <2> QED
    BY <1>b, <2>2, <2>3
<1>f. ASSUME NEW p \in Models!Bridge, NEW pc \in {"write", "serving"}, Models!Goto(p, pc),
             host[p].pc \in {"open", "write"},
             cache' \in Caches, cache'.rows \in {cache.rows, Models!Absent, host[p].rows},
             UNCHANGED <<mclock, offered>>
      PROVE  ModelInv'
  <2> DEFINE h == [host[p] EXCEPT !.pc = pc]
  <2>1. host' = [host EXCEPT ![p] = h]
    BY <1>a, <1>f DEF Models!Goto
  <2>2. h \in Host /\ h.pc = pc /\ h.rows = host[p].rows /\ h.cached = host[p].cached
        /\ h.now = host[p].now
    BY <1>d
  <2> HIDE DEF h
  <2>3. Moves(p, h)
    BY <1>a, <1>f, <2>1, <2>2 DEF Moves, ModelInv
  <2> QED
    BY <1>b, <2>2, <2>3
<1>1. CASE Models!Tick
  <2>1. mclock' = mclock + 1 /\ UNCHANGED <<offered, cache, host>>
    BY <1>1 DEF Models!Tick
  <2>2. \A rows \in RowsAtHand : Dated(rows) => Dated(rows)'
    BY <1>a, <2>1 DEF Dated, RowsAtHand
  <2> QED
    BY <1>a, <2>1, <2>2 DEF ModelInv
<1>2. CASE Models!AgyChanges
  BY <1>2 DEF Models!AgyChanges, Models!Silent, ModelInv, Dated
<1>3. ASSUME NEW p \in Models!Bridge, Models!Ask(p)
      PROVE  ModelInv'
  <2>1. CASE Models!Serve(p, cache.rows)
    BY <1>3, <1>a, <1>e, <2>1 DEF Models!Ask, ModelInv
  <2>2. CASE ~Models!Serve(p, cache.rows)
    <3> DEFINE h == [pc |-> "list", now |-> mclock, cached |-> cache.rows,
                     rows |-> Models!Absent]
    <3>1. host' = [host EXCEPT ![p] = h] /\ UNCHANGED <<mclock, offered, cache>>
      BY <1>3, <2>2 DEF Models!Ask
    <3>2. h \in Host /\ h.pc = "list" /\ h.cached = cache.rows /\ h.rows = Models!Absent
          /\ h.now = mclock
      BY <1>a, <1>c
    <3> HIDE DEF h
    <3>3. Moves(p, h)
      BY <1>a, <3>1, <3>2 DEF Moves, ModelInv, Dated
    <3> QED
      BY <1>b, <3>2, <3>3
  <2> QED
    BY <2>1, <2>2
<1>4. ASSUME NEW p \in Models!Bridge, Models!List(p)
      PROVE  ModelInv'
  <2>1. CASE offered = "silent"
    <3>1. Models!Serve(p, host[p].cached) /\ UNCHANGED <<mclock, offered, cache>>
      BY <1>4, <2>1 DEF Models!List, Models!Silent
    <3> QED
      BY <1>d, <1>e, <3>1 DEF ModelInv
  <2>2. CASE offered # "silent"
    <3> DEFINE rows == [listing |-> offered, stamp |-> host[p].now, printed |-> mclock]
               h == [host[p] EXCEPT !.pc = "open", !.rows = rows]
    <3>1. host' = [host EXCEPT ![p] = h] /\ UNCHANGED <<mclock, offered, cache>>
      BY <1>4, <1>a, <2>2 DEF Models!List, Models!Rows, Models!Silent
    <3>2. rows \in RowsAtHand /\ rows # Models!Absent /\ rows.printed = mclock
          /\ rows.stamp = host[p].now
      BY <1>a, <1>d DEF RowsAtHand, Models!Absent, Models!Rows
    <3> HIDE DEF rows
    <3>3. h \in Host /\ h.pc = "open" /\ h.cached = host[p].cached /\ h.rows = rows
          /\ h.now = host[p].now
      BY <1>d, <3>2
    <3> HIDE DEF h
    <3>4. host[p].now \in Nat /\ host[p].now <= mclock
      BY <1>d DEF ModelInv
    <3>5. Moves(p, h)
      BY <1>a, <3>1, <3>2, <3>3, <3>4 DEF Moves, ModelInv, Dated
    <3> QED
      BY <1>b, <3>3, <3>5
  <2> QED
    BY <2>1, <2>2
<1>5. ASSUME NEW p \in Models!Bridge, Models!Truncate(p)
      PROVE  ModelInv'
  <2>1. CASE cache' = Models!Garbled /\ Models!Goto(p, "write")
    BY <1>5, <1>c, <1>f, <2>1 DEF Models!Truncate, Models!Garbled
  <2>2. CASE cache' = cache /\ Models!Goto(p, "serving")
    BY <1>5, <1>a, <1>f, <2>2 DEF Models!Truncate
  <2> QED
    BY <1>5, <2>1, <2>2 DEF Models!Truncate
<1>6. ASSUME NEW p \in Models!Bridge, Models!WriteCache(p)
      PROVE  ModelInv'
  <2>1. cache' \in {Models!Intact(host[p].rows), Models!Garbled, cache}
    BY <1>6 DEF Models!WriteCache, Models!Stamped
  <2>2. cache' \in Caches /\ cache'.rows \in {cache.rows, Models!Absent, host[p].rows}
    BY <1>a, <1>c, <1>d, <2>1 DEF Models!Intact, Models!Garbled
  <2> QED
    BY <1>6, <1>f, <2>2 DEF Models!WriteCache
<1>7. ASSUME NEW p \in Models!Bridge, Models!Exit(p)
      PROVE  ModelInv'
  <2>1. host' = [host EXCEPT ![p] = Models!Idle] /\ UNCHANGED <<mclock, offered, cache>>
    BY <1>7 DEF Models!Exit
  <2>2. Models!Idle \in Host /\ Models!Idle.pc = "idle" /\ Models!Idle.now = 0
        /\ Models!Idle.rows = Models!Absent /\ Models!Idle.cached = Models!Absent
    BY <1>c DEF Models!Idle
  <2>3. Moves(p, Models!Idle)
    BY <1>a, <2>1, <2>2 DEF Moves, Dated
  <2> QED
    BY <1>b, <2>2, <2>3
<1>8. ASSUME NEW p \in Models!Bridge, Models!Load(p) \/ Models!Reload(p)
      PROVE  ModelInv'
  <2> DEFINE rows == [listing |-> offered, stamp |-> mclock, printed |-> mclock]
  <2>1. UNCHANGED <<mclock, offered, cache>>
    BY <1>8 DEF Models!Load, Models!Reload
  <2>2. PICK r \in {rows, Models!Absent, host[p].rows} : Models!Serve(p, r)
    BY <1>8 DEF Models!Load, Models!Reload, Models!Reloaded, Models!Rows
  <2>3. rows \in RowsAtHand /\ Dated(rows)
    BY <1>a DEF RowsAtHand, Dated
  <2>4. r \in RowsAtHand /\ Dated(r)
    BY <1>c, <1>d, <2>2, <2>3 DEF ModelInv, Dated
  <2> QED
    BY <1>e, <2>1, <2>2, <2>4
<1>9. CASE UNCHANGED modelVars
  BY <1>9 DEF modelVars, ModelInv, Dated
<1> QED
  BY <1>1, <1>2, <1>3, <1>4, <1>5, <1>6, <1>7, <1>8, <1>9 DEF Models!Next, Models!Step

\* What a host offers comes and goes for cause (discoverModels, getRegistry,
\* rebuildDiscovery), for any hosts, listings and lifetime of the cache: a listing
\* past its lifetime, or the static list, only when agy gives nothing, and what is
\* offered gives way only to a later listing.
THEOREM ModelsOfferedForCause == MCSpec => OffersForCause
<1> DEFINE Cause ==
      \A p \in Models!Bridge :
        LET old == host[p].rows
            new == host'[p].rows
        IN /\ ~Models!Serving(p) /\ Models!Serving(p)' =>
                 \/ new.printed >= 0 /\ mclock - new.printed < Ttl
                 \/ host[p].pc # "idle" /\ new.printed >= host[p].now
                 \/ offered = Models!Silent
           /\ Models!Serving(p) /\ Models!Serving(p)' /\ new # old =>
                 new.printed >= old.printed /\ new # Models!Absent
<1>1. MCInit => ModelInv
  BY ModelsAtFirst DEF MCInit
<1>2. ModelInv /\ [MCNext]_allVars => ModelInv'
  BY ModelsStep, StepOfEachPart
<1>3. ModelInv /\ [Models!Next]_modelVars => [Cause]_modelVars
  <2> SUFFICES ASSUME ModelInv, Models!Next, NEW p \in Models!Bridge,
                      host'[p].pc = "serving", host'[p] # host[p]
               PROVE  LET old == host[p].rows
                          new == host'[p].rows
                      IN /\ host[p].pc # "serving" =>
                               \/ new.printed >= 0 /\ mclock - new.printed < Ttl
                               \/ host[p].pc # "idle" /\ new.printed >= host[p].now
                               \/ offered = "silent"
                         /\ host[p].pc = "serving" /\ new # old =>
                               new.printed >= old.printed /\ new # Models!Absent
    BY DEF Models!Serving, Models!Silent
  <2> DEFINE Host == [pc : {"idle", "list", "open", "write", "serving"},
                      now : Nat, cached : RowsAtHand, rows : RowsAtHand]
  <2>1. /\ mclock \in Nat /\ host \in [Models!Bridge -> Host] /\ cache.rows \in RowsAtHand
        /\ host[p] \in Host
    BY DEF ModelInv, Hosts
  <2>2. \A rows \in RowsAtHand : rows.stamp \in Int /\ rows.printed \in Int
    BY DEF RowsAtHand
  <2>3. Models!Step(p)
    <3>1. PICK q \in Models!Bridge : Models!Step(q)
      BY DEF Models!Next, Models!Tick, Models!AgyChanges
    <3>2. CASE q # p
      BY <2>1, <3>1, <3>2
         DEF Models!Step, Models!Ask, Models!List, Models!Truncate, Models!WriteCache,
             Models!Exit, Models!Load, Models!Reload, Models!Serve, Models!Goto
    <3> QED
      BY <3>1, <3>2
  \* A host that goes on with the listing it has.
  <2>4. ASSUME Models!Goto(p, "serving"), host[p].pc \in {"open", "write"}
        PROVE  host'[p].rows.printed >= host[p].now
    <3>1. host'[p].rows = host[p].rows
      BY <2>1, <2>4 DEF Models!Goto
    <3> QED
      BY <2>1, <2>2, <2>4, <3>1 DEF ModelInv
  <2>5. \A rows : Models!Serve(p, rows) => host'[p].rows = rows
    BY <2>1 DEF Models!Serve
  <2>6. CASE Models!Ask(p)
    <3>1. Models!Serve(p, cache.rows) /\ Models!cacheFresh(cache.rows, mclock)
          /\ host[p].pc = "idle"
      BY <2>1, <2>6 DEF Models!Ask
    <3> QED
      BY <2>1, <2>2, <2>5, <3>1, TurnTracesAssumption
         DEF Models!cacheFresh, ModelInv, Dated
  <2>7. CASE Models!List(p)
    BY <2>1, <2>7 DEF Models!List, Models!Silent
  <2>8. CASE Models!Truncate(p) \/ Models!WriteCache(p)
    <3>1. host[p].pc \in {"open", "write"} /\ Models!Goto(p, "serving")
      BY <2>1, <2>8 DEF Models!Truncate, Models!WriteCache, Models!Goto
    <3> QED
      BY <2>4, <3>1
  <2>9. CASE Models!Exit(p)
    BY <2>1, <2>9 DEF Models!Exit, Models!Idle
  <2>10. CASE Models!Load(p)
    <3>1. host[p].pc = "idle" /\ (offered # "silent" => host'[p].rows.printed = mclock)
      BY <2>5, <2>10 DEF Models!Load, Models!Rows, Models!Silent
    <3> QED
      BY <2>1, <3>1, TurnTracesAssumption
  <2>11. CASE Models!Reload(p)
    <3>1. host[p].pc = "serving" /\ host'[p].rows = Models!Reloaded(p)
      BY <2>5, <2>11 DEF Models!Reload
    <3>2. host[p].rows.printed <= mclock
      BY <2>1, <2>2 DEF ModelInv, Dated, Models!Absent, Models!Rows
    <3> QED
      BY <2>1, <3>1, <3>2 DEF Models!Reloaded, Models!Rows, Models!Absent, Models!Silent
  <2> QED
    BY <2>3, <2>6, <2>7, <2>8, <2>9, <2>10, <2>11 DEF Models!Step
<1>4. ModelInv /\ [MCNext]_allVars => [Cause]_modelVars
  BY <1>3, StepOfEachPart
<1>5. Models!OffersForCause <=> [][Cause]_modelVars
  BY DEF Models!OffersForCause, Models!vars, modelVars
<1> QED
  BY <1>1, <1>2, <1>4, <1>5, PTL DEF MCSpec, OffersForCause

-----------------------------------------------------------------------------
(* Logs of calls.                                                          *)

LogProc == Proc \ PiProc
LogCall == 1 .. MaxCalls

LogTurns ==
    [step : {"idle", "listing", "removing", "sweeping", "unlinking", "logging", "running"},
     id : 0 .. MaxCalls, log : {"none", "group", "loose"}, judged : SUBSET LogCall,
     risk : BOOLEAN]
Groups == [state : {"none", "open", "done", "pruned"}, at : Nat]
Looses == [state : {"none", "kept", "pruned"}, at : Nat]

\* Types; nothing is newer than the clock; the calls under way differ; only a
\* running turn has a log.
LogTypes ==
    /\ lclock \in Nat /\ lcalls \in 0 .. MaxCalls
    /\ lturn \in [LogProc -> LogTurns]
    /\ group \in [LogCall -> Groups] /\ loose \in [LogCall -> Looses]
    /\ \A c \in LogCall : group[c].at <= lclock /\ loose[c].at <= lclock
    /\ \A p \in LogProc :
          /\ lturn[p].step # "idle" => lturn[p].id \in 1 .. lcalls
          /\ lturn[p].log # "none" => lturn[p].step = "running"
    /\ \A p, q \in LogProc :
          lturn[p].step # "idle" /\ lturn[q].step # "idle" /\ lturn[p].id = lturn[q].id
              => p = q

\* What a turn of process p does, given its record t after it.
BeginLog(p, t) ==
    /\ lturn[p].step = "idle" /\ lcalls < MaxCalls /\ lcalls' = lcalls + 1
    /\ t.step = "listing" /\ t.id = lcalls + 1 /\ t.log = "none" /\ t.judged = {}
    /\ UNCHANGED <<group, loose>>
ListLogs(p, t) ==
    /\ lturn[p].step = "listing" /\ t.step = "removing"
    /\ t.id = lturn[p].id /\ t.log = lturn[p].log
    /\ t.judged \in Logs!Victims(Logs!Completed, group, MaxGroups)
    /\ UNCHANGED <<lcalls, group, loose>>
RemoveLogs(p, t) ==
    /\ lturn[p].step = "removing" /\ t.step = "sweeping"
    /\ t.id = lturn[p].id /\ t.log = lturn[p].log
    /\ group' = Logs!Remove(lturn[p].judged, group)
    /\ UNCHANGED <<lcalls, loose>>
ListLooseLogs(p, t) ==
    /\ lturn[p].step = "sweeping" /\ t.step = "unlinking"
    /\ t.id = lturn[p].id /\ t.log = lturn[p].log
    /\ t.judged \in Logs!Victims(Logs!Kept, loose, MaxLoose)
    /\ UNCHANGED <<lcalls, group, loose>>
UnlinkLogs(p, t) ==
    /\ lturn[p].step = "unlinking" /\ t.step = "logging"
    /\ t.id = lturn[p].id /\ t.log = lturn[p].log
    /\ loose' = Logs!Remove(lturn[p].judged, loose)
    /\ UNCHANGED <<lcalls, group>>
OpenLog(p, t) ==
    /\ lturn[p].step = "logging" /\ t.step = "running" /\ t.id = lturn[p].id
    /\ \/ /\ t.log = "group" /\ loose' = loose
          /\ group' = [group EXCEPT ![t.id] = [state |-> "open", at |-> lclock]]
       \/ /\ t.log = "loose" /\ group' = group
          /\ loose' = [loose EXCEPT ![t.id] = [state |-> "kept", at |-> lclock]]
    /\ UNCHANGED lcalls
WriteALog(p, t) ==
    /\ lturn[p].step = "running" /\ t.step = "running" /\ t.id = lturn[p].id
    /\ lturn[p].log = "loose" /\ t.log = "loose"
    /\ t.risk = (lturn[p].risk \/ Logs!Condemned(t.id))
    /\ loose[t.id].state = "kept"
    /\ loose' = [loose EXCEPT ![t.id] = [state |-> "kept", at |-> lclock]]
    /\ UNCHANGED <<lcalls, group>>
EndLog(p, t) ==
    /\ lturn[p].step # "idle" /\ t.step = "idle" /\ t.log = "none"
    /\ \/ group' = group
       \/ /\ lturn[p].step = "running"
          /\ group' = [group EXCEPT ![lturn[p].id] = [state |-> "done", at |-> lclock]]
    /\ UNCHANGED <<lcalls, loose>>

LogMove(p, t) ==
    \/ BeginLog(p, t) \/ ListLogs(p, t) \/ RemoveLogs(p, t)
    \/ ListLooseLogs(p, t) \/ UnlinkLogs(p, t)
    \/ OpenLog(p, t) \/ WriteALog(p, t) \/ EndLog(p, t)

\* Every action of a turn is one of these moves.
LEMMA LogMoves ==
    ASSUME LogTypes, NEW p \in LogProc, Logs!Turn(p)
    PROVE  /\ lclock' = lclock
           /\ \E t \in LogTurns : lturn' = [lturn EXCEPT ![p] = t] /\ LogMove(p, t)
<1> USE TurnTracesAssumption DEF LogMove
<1>a. /\ lcalls \in 0 .. MaxCalls /\ lturn \in [LogProc -> LogTurns]
      /\ lturn[p] \in LogTurns /\ Logs!Call = LogCall
  BY DEF LogTypes, Logs!Call, LogCall
<1>b. Logs!NoTurn \in LogTurns /\ Logs!NoTurn.step = "idle" /\ Logs!NoTurn.log = "none"
      /\ Logs!NoTurn.judged = {}
  BY DEF Logs!NoTurn, LogTurns
<1>1. lclock' = lclock
  BY DEF Logs!Turn, Logs!Begin, Logs!ListGroups, Logs!RemoveGroups, Logs!ListLoose,
         Logs!RemoveLoose, Logs!OpenGroup, Logs!OpenLoose, Logs!WriteLog, Logs!Break, Logs!Finish
<1>2. CASE Logs!Begin(p)
  <2> DEFINE id == lcalls + 1
             t == [Logs!NoTurn EXCEPT !.step = "listing", !.id = id]
  <2>1. lturn[p].step = "idle" /\ lcalls < MaxCalls /\ lcalls' = id
        /\ UNCHANGED <<group, loose>>
    BY <1>2 DEF Logs!Begin, Logs!At
  <2>2. lturn' = [lturn EXCEPT ![p] = t]
    BY <1>2, Zenon DEF Logs!Begin
  <2>3. id \in 0 .. MaxCalls
    BY <1>a, <2>1
  <2> HIDE DEF id
  <2>4. t \in LogTurns /\ t.step = "listing" /\ t.id = id /\ t.log = "none" /\ t.judged = {}
    BY <1>b, <2>3 DEF LogTurns
  <2> HIDE DEF t
  <2>5. BeginLog(p, t)
    BY <2>1, <2>4 DEF BeginLog, id
  <2> QED
    BY <1>1, <2>2, <2>4, <2>5
<1>3. CASE Logs!ListGroups(p)
  <2>1. PICK victims \in Logs!Victims(Logs!Completed, group, MaxGroups) :
            lturn' = [lturn EXCEPT ![p].step = "removing", ![p].judged = victims]
    BY <1>3 DEF Logs!ListGroups
  <2> DEFINE t == [lturn[p] EXCEPT !.step = "removing", !.judged = victims]
  <2>2. victims \in SUBSET LogCall
    BY <1>a DEF Logs!Victims, Logs!Completed
  <2>3. lturn' = [lturn EXCEPT ![p] = t]
    BY <1>a, <2>1 DEF LogTurns
  <2>4. t \in LogTurns /\ t.step = "removing" /\ t.judged = victims
        /\ t.id = lturn[p].id /\ t.log = lturn[p].log
    BY <1>a, <2>2 DEF LogTurns
  <2> HIDE DEF t
  <2>5. ListLogs(p, t)
    BY <1>3, <2>4 DEF ListLogs, Logs!ListGroups, Logs!At
  <2> QED
    BY <1>1, <2>3, <2>4, <2>5
<1>4. CASE Logs!RemoveGroups(p)
  <2> DEFINE t == [lturn[p] EXCEPT !.step = "sweeping", !.judged = {}]
  <2>1. lturn' = [lturn EXCEPT ![p] = t]
    BY <1>4, <1>a DEF Logs!RemoveGroups, LogTurns
  <2>2. t \in LogTurns /\ t.step = "sweeping" /\ t.id = lturn[p].id /\ t.log = lturn[p].log
    BY <1>a DEF LogTurns
  <2> HIDE DEF t
  <2>3. RemoveLogs(p, t)
    BY <1>4, <2>2 DEF RemoveLogs, Logs!RemoveGroups, Logs!At
  <2> QED
    BY <1>1, <2>1, <2>2, <2>3
<1>5. CASE Logs!ListLoose(p)
  <2>1. PICK victims \in Logs!Victims(Logs!Kept, loose, MaxLoose) :
            lturn' = [lturn EXCEPT ![p].step = "unlinking", ![p].judged = victims]
    BY <1>5 DEF Logs!ListLoose
  <2> DEFINE t == [lturn[p] EXCEPT !.step = "unlinking", !.judged = victims]
  <2>2. victims \in SUBSET LogCall
    BY <1>a DEF Logs!Victims, Logs!Kept
  <2>3. lturn' = [lturn EXCEPT ![p] = t]
    BY <1>a, <2>1 DEF LogTurns
  <2>4. t \in LogTurns /\ t.step = "unlinking" /\ t.judged = victims
        /\ t.id = lturn[p].id /\ t.log = lturn[p].log
    BY <1>a, <2>2 DEF LogTurns
  <2> HIDE DEF t
  <2>5. ListLooseLogs(p, t)
    BY <1>5, <2>4 DEF ListLooseLogs, Logs!ListLoose, Logs!At
  <2> QED
    BY <1>1, <2>3, <2>4, <2>5
<1>5a. CASE Logs!RemoveLoose(p)
  <2> DEFINE t == [lturn[p] EXCEPT !.step = "logging", !.judged = {}]
  <2>1. lturn' = [lturn EXCEPT ![p] = t]
    BY <1>5a, <1>a DEF Logs!RemoveLoose, LogTurns
  <2>2. t \in LogTurns /\ t.step = "logging" /\ t.id = lturn[p].id /\ t.log = lturn[p].log
    BY <1>a DEF LogTurns
  <2> HIDE DEF t
  <2>3. UnlinkLogs(p, t)
    BY <1>5a, <2>2 DEF UnlinkLogs, Logs!RemoveLoose, Logs!At
  <2> QED
    BY <1>1, <2>1, <2>2, <2>3
<1>6. ASSUME NEW log \in {"group", "loose"},
             log = "group" => Logs!OpenGroup(p), log = "loose" => Logs!OpenLoose(p)
      PROVE  \E t \in LogTurns : lturn' = [lturn EXCEPT ![p] = t] /\ LogMove(p, t)
  <2> DEFINE t == [lturn[p] EXCEPT !.step = "running", !.log = log]
  <2>1. lturn' = [lturn EXCEPT ![p] = t]
    BY <1>6, <1>a DEF Logs!OpenGroup, Logs!OpenLoose, LogTurns
  <2>2. t \in LogTurns /\ t.step = "running" /\ t.id = lturn[p].id /\ t.log = log
    BY <1>a, <1>6 DEF LogTurns
  <2> HIDE DEF t
  <2>3. OpenLog(p, t)
    BY <1>6, <2>2 DEF OpenLog, Logs!OpenGroup, Logs!OpenLoose, Logs!At, Logs!Entry
  <2> QED
    BY <2>1, <2>2, <2>3
<1>7. CASE Logs!WriteLog(p)
  <2> DEFINE risk == lturn[p].risk \/ Logs!Condemned(lturn[p].id)
             t == [lturn[p] EXCEPT !.risk = risk]
  <2>1. lturn' = [lturn EXCEPT ![p] = t]
    BY <1>7, <1>a DEF Logs!WriteLog, LogTurns
  <2>2. risk \in BOOLEAN
    OBVIOUS
  <2> HIDE DEF risk
  <2>3. t \in LogTurns /\ t.step = lturn[p].step /\ t.id = lturn[p].id
        /\ t.log = lturn[p].log /\ t.risk = risk
    BY <1>a, <2>2 DEF LogTurns
  <2> HIDE DEF t
  <2>4. WriteALog(p, t)
    BY <1>7, <2>3 DEF WriteALog, Logs!WriteLog, Logs!At, Logs!Entry, risk
  <2> QED
    BY <1>1, <2>1, <2>3, <2>4
<1>8. CASE Logs!Break(p) \/ \E written \in BOOLEAN : Logs!Finish(p, written)
  <2>1. lturn' = [lturn EXCEPT ![p] = Logs!NoTurn]
    BY <1>8 DEF Logs!Break, Logs!Finish
  <2>2. EndLog(p, Logs!NoTurn)
    BY <1>8, <1>b DEF EndLog, Logs!Break, Logs!Finish, Logs!At, Logs!Entry
  <2> QED
    BY <1>1, <1>b, <2>1, <2>2
<1> QED
  BY <1>1, <1>2, <1>3, <1>4, <1>5, <1>5a, <1>6, <1>7, <1>8 DEF Logs!Turn

\* Types hold at first ...
LEMMA LogTypesAtFirst == Logs!Init => LogTypes
BY TurnTracesAssumption
   DEF Logs!Init, Logs!Entry, Logs!NoTurn, Logs!Call, LogTypes, LogTurns, LogCall, LogProc,
       Groups, Looses

\* ... and every move of a turn preserves them.
LEMMA LogTypesStep ==
    ASSUME LogTypes, lclock' = lclock, NEW p \in LogProc, NEW t \in LogTurns,
           lturn' = [lturn EXCEPT ![p] = t], LogMove(p, t)
    PROVE  LogTypes'
<1> USE TurnTracesAssumption
<1>a. /\ lclock \in Nat /\ lcalls \in 0 .. MaxCalls
      /\ lturn \in [LogProc -> LogTurns] /\ lturn[p] \in LogTurns
      /\ group \in [LogCall -> Groups] /\ loose \in [LogCall -> Looses]
      /\ \A c \in LogCall : group[c].at <= lclock /\ loose[c].at <= lclock
  BY DEF LogTypes
<1>b. lturn'[p] = t /\ \A q \in LogProc \ {p} : lturn'[q] = lturn[q]
  BY <1>a
<1>c. lturn' \in [LogProc -> LogTurns]
  BY <1>a
\* The record of the turn, the number of calls.
<1>1. /\ lcalls' \in 0 .. MaxCalls
      /\ \/ lcalls' = lcalls /\ (t.step # "idle" => t.id = lturn[p].id /\ lturn[p].step # "idle")
         \/ lcalls' = lcalls + 1 /\ t.id = lcalls'
      /\ t.log # "none" => t.step = "running"
  BY <1>a DEF LogMove, BeginLog, ListLogs, RemoveLogs, ListLooseLogs, UnlinkLogs, OpenLog, WriteALog, EndLog,
              LogTypes
<1>2. \A q \in LogProc :
          /\ lturn'[q].step # "idle" => lturn'[q].id \in 1 .. lcalls'
          /\ lturn'[q].log # "none" => lturn'[q].step = "running"
  <2> SUFFICES ASSUME NEW q \in LogProc
               PROVE  /\ lturn'[q].step # "idle" => lturn'[q].id \in 1 .. lcalls'
                      /\ lturn'[q].log # "none" => lturn'[q].step = "running"
    OBVIOUS
  <2>1. CASE q = p
    BY <1>a, <1>b, <1>1, <2>1 DEF LogTypes
  <2>2. CASE q # p
    BY <1>a, <1>b, <1>1, <2>2 DEF LogTypes
  <2> QED
    BY <2>1, <2>2
<1>3. \A q, r \in LogProc :
          lturn'[q].step # "idle" /\ lturn'[r].step # "idle" /\ lturn'[q].id = lturn'[r].id
              => q = r
  <2>1. ASSUME NEW q \in LogProc \ {p}, lturn'[q].step # "idle", t.step # "idle"
        PROVE  lturn'[q].id # t.id
    BY <1>a, <1>b, <1>1, <2>1 DEF LogTypes
  <2> QED
    BY <1>b, <2>1 DEF LogTypes
\* The files.
<1>4. \A q \in LogProc : lturn[q].step # "idle" => lturn[q].id \in LogCall
  BY <1>a DEF LogTypes, LogCall
<1>5. ASSUME NEW S, group' = Logs!Remove(S, group)
      PROVE  group' \in [LogCall -> Groups] /\ \A c \in LogCall : group'[c].at = group[c].at
  <2>1. \A c \in LogCall : [group[c] EXCEPT !.state = "pruned"] \in Groups
                          /\ [group[c] EXCEPT !.state = "pruned"].at = group[c].at
    BY <1>a DEF Groups
  <2>2. group' = [c \in LogCall |-> IF c \in S THEN [group[c] EXCEPT !.state = "pruned"]
                                    ELSE group[c]]
    BY <1>a, <1>5 DEF Logs!Remove
  <2> QED
    BY <1>a, <2>1, <2>2
<1>6. ASSUME NEW S, loose' = Logs!Remove(S, loose)
      PROVE  loose' \in [LogCall -> Looses] /\ \A c \in LogCall : loose'[c].at = loose[c].at
  <2>1. \A c \in LogCall : [loose[c] EXCEPT !.state = "pruned"] \in Looses
                          /\ [loose[c] EXCEPT !.state = "pruned"].at = loose[c].at
    BY <1>a DEF Looses
  <2>2. loose' = [c \in LogCall |-> IF c \in S THEN [loose[c] EXCEPT !.state = "pruned"]
                                    ELSE loose[c]]
    BY <1>a, <1>6 DEF Logs!Remove
  <2> QED
    BY <1>a, <2>1, <2>2
<1>7. /\ group' \in [LogCall -> Groups] /\ loose' \in [LogCall -> Looses]
      /\ \A c \in LogCall : group'[c].at <= lclock /\ loose'[c].at <= lclock
  <2>1. CASE group' = group /\ loose' = loose
    BY <1>a, <2>1
  <2>2. CASE RemoveLogs(p, t)
    BY <1>a, <1>5, <2>2 DEF RemoveLogs
  <2>3. CASE UnlinkLogs(p, t)
    BY <1>a, <1>6, <2>3 DEF UnlinkLogs
  <2>4. CASE OpenLog(p, t) \/ WriteALog(p, t) \/ EndLog(p, t)
    <3>1. lturn[p].step # "idle" /\ lturn[p].id \in LogCall
      BY <1>4, <2>4 DEF OpenLog, WriteALog, EndLog
    <3> DEFINE open == [state |-> "open", at |-> lclock]
               done == [state |-> "done", at |-> lclock]
               kept == [state |-> "kept", at |-> lclock]
    <3>2. /\ open \in Groups /\ done \in Groups /\ kept \in Looses
          /\ open.at = lclock /\ done.at = lclock /\ kept.at = lclock
      BY <1>a DEF Groups, Looses
    <3>3. /\ group' \in {group} \cup {[group EXCEPT ![lturn[p].id] = g] : g \in {open, done}}
          /\ loose' \in {loose, [loose EXCEPT ![lturn[p].id] = kept]}
      BY <2>4 DEF OpenLog, WriteALog, EndLog
    <3> HIDE DEF open, done, kept
    <3> QED
      BY <1>a, <3>1, <3>2, <3>3
  <2> QED
    BY <2>1, <2>2, <2>3, <2>4 DEF LogMove, BeginLog, ListLogs, ListLooseLogs
<1> QED
  BY <1>a, <1>c, <1>1, <1>2, <1>3, <1>7 DEF LogTypes

\* There are finitely many calls.
LEMMA FiniteCalls == \A S \in SUBSET LogCall : IsFiniteSet(S) /\ Cardinality(S) \in Nat
<1>1. IsFiniteSet(LogCall)
  BY FS_Interval, TurnTracesAssumption DEF LogCall
<1> QED
  BY <1>1, FS_Subset, FS_CardinalityType

\* CallLogs counts as this module does.
LEMMA SameCount == \A S : Logs!Cardinality(S) = Cardinality(S)
BY DEF Logs!Cardinality, Cardinality

\* As many others as the limit are as new as c.
AsNew(S, entry, c, limit) ==
    \E K \in SUBSET (S \ {c}) :
        Cardinality(K) >= limit /\ \A k \in K : entry[k].at >= entry[c].at

\* What a sweep takes is in the set it looks at and leaves no more than the limit;
\* and whatever it takes is too old, or as many as the limit are as new.
LEMMA VictimsSound ==
    ASSUME NEW S \in SUBSET LogCall, NEW entry, NEW limit \in Nat,
           \A c \in LogCall : entry[c].at \in Nat, lclock \in Nat,
           NEW victims \in Logs!Victims(S, entry, limit)
    PROVE  /\ victims \in SUBSET S
           /\ Cardinality(S \ victims) <= limit
           /\ \A c \in victims : lclock - entry[c].at > Week \/ AsNew(S, entry, c, limit)
<1> DEFINE old  == {c \in S : lclock - entry[c].at > Week}
           rest == S \ old
           size == Cardinality(rest)
<1>1. IsFiniteSet(rest) /\ size \in Nat
  <2>1. IsFiniteSet(LogCall)
    BY FS_Interval, TurnTracesAssumption DEF LogCall
  <2>2. rest \in SUBSET LogCall
    OBVIOUS
  <2> HIDE DEF rest
  <2> QED
    BY <2>1, <2>2, FS_Subset, FS_CardinalityType
<1>2. PICK E \in SUBSET rest :
        /\ victims = old \cup E
        /\ \A e \in E, kept \in rest \ E : entry[e].at <= entry[kept].at
        /\ Cardinality(E) = IF size > limit THEN size - limit ELSE 0
  BY SameCount DEF Logs!Victims
<1>3. victims \in SUBSET S /\ S \ victims = rest \ E
  BY <1>2
<1>4. Cardinality(rest \ E) = size - Cardinality(E) /\ IsFiniteSet(E)
  <2>1. rest \cap E = E
    OBVIOUS
  <2> HIDE DEF rest
  <2> QED
    BY <1>1, <2>1, FS_Difference, FS_Subset
<1>5. Cardinality(E) \in Nat
  BY <1>4, FS_CardinalityType
<1>6. Cardinality(S \ victims) <= limit
  <2> HIDE DEF size
  <2>1. Cardinality(rest \ E) <= limit
    BY <1>1, <1>2, <1>4, <1>5
  <2> QED
    BY <1>3, <2>1
<1>7. ASSUME NEW c \in victims, ~(lclock - entry[c].at > Week)
      PROVE  AsNew(S, entry, c, limit)
  <2>1. c \in E
    BY <1>2, <1>7
  <2>2. Cardinality(E) # 0
    BY <1>4, <2>1, FS_EmptySet
  <2>3. Cardinality(rest \ E) = limit
    <3> HIDE DEF size
    <3> QED
      BY <1>1, <1>2, <1>4, <2>2
  <2>4. rest \ E \in SUBSET (S \ {c})
    BY <2>1
  <2>5. \A k \in rest \ E : entry[k].at >= entry[c].at
    <3>1. \A k \in rest \ E : k \in LogCall
      OBVIOUS
    <3> QED
      BY <1>2, <2>1, <3>1
  <2> QED
    BY <2>3, <2>4, <2>5 DEF AsNew
<1> QED
  BY <1>3, <1>6, <1>7

\* The causes for which an entry may have gone: it is too old, or as many others
\* as the limit are as new.
Cause(entry, c, now, states, limit) ==
    \/ now - entry[c].at > Week
    \/ Cardinality(Logs!NotOlder(entry, c, states)) >= limit

\* What is gone for a cause stays so: the cause may be an entry's age, or as many
\* others that are as new, and neither goes away.
LEMMA CauseStays ==
    ASSUME NEW before, NEW after, NEW then \in Nat, NEW now \in Nat, then <= now,
           NEW states, NEW limit \in Nat,
           \A c \in LogCall : before[c].at \in Nat /\ after[c].at \in Nat,
           \A c \in LogCall : before[c].state \in states =>
               after[c].state \in states /\ before[c].at <= after[c].at,
           NEW c \in LogCall, after[c].at = before[c].at,
           Cause(before, c, then, states, limit)
    PROVE  Cause(after, c, now, states, limit)
<1> USE TurnTracesAssumption, StagedImagesAssumption DEF Cause
<1>1. CASE then - before[c].at > Week
  BY <1>1
<1>2. CASE Cardinality(Logs!NotOlder(before, c, states)) >= limit
  <2> DEFINE B == Logs!NotOlder(before, c, states)
             A == Logs!NotOlder(after, c, states)
  <2>1. B \in SUBSET A /\ A \in SUBSET LogCall
    BY DEF Logs!NotOlder, Logs!Call, LogCall
  <2>2. IsFiniteSet(A)
    BY <2>1, FS_Interval, FS_Subset DEF LogCall
  <2> HIDE DEF A, B
  <2>3. Cardinality(B) <= Cardinality(A) /\ Cardinality(B) \in Nat /\ Cardinality(A) \in Nat
    BY <2>1, <2>2, FS_Subset, FS_CardinalityType
  <2>4. Cardinality(A) >= limit
    BY <1>2, <2>3 DEF B
  <2> QED
    BY <2>4 DEF A
<1> QED
  BY <1>1, <1>2

\* And there is such a cause for what a sweep takes.
LEMMA CauseOfVictims ==
    ASSUME NEW entry, NEW states, NEW limit \in Nat, lclock \in Nat,
           \A c \in LogCall : entry[c].at \in Nat,
           NEW S \in SUBSET LogCall, \A c \in S : entry[c].state \in states,
           NEW victims \in Logs!Victims(S, entry, limit), NEW c \in victims
    PROVE  Cause(entry, c, lclock, states, limit)
<1> USE DEF Cause
<1>1. CASE lclock - entry[c].at > Week
  BY <1>1
<1>2. CASE ~(lclock - entry[c].at > Week)
  <2>1. PICK K \in SUBSET (S \ {c}) :
            Cardinality(K) >= limit /\ \A k \in K : entry[k].at >= entry[c].at
    <3>1. AsNew(S, entry, c, limit)
      BY <1>2, VictimsSound
    <3> QED
      BY <3>1 DEF AsNew
  <2> DEFINE A == Logs!NotOlder(entry, c, states)
  <2>2. K \in SUBSET A /\ A \in SUBSET LogCall
    <3>1. \A k \in K : k \in LogCall \ {c} /\ entry[k].state \in states
                       /\ entry[k].at >= entry[c].at
      BY <2>1
    <3> QED
      BY <3>1 DEF Logs!NotOlder, Logs!Call, LogCall
  <2> HIDE DEF A
  <2>3. IsFiniteSet(A)
    BY <2>2, FiniteCalls
  <2>4. Cardinality(K) <= Cardinality(A) /\ Cardinality(K) \in Nat /\ Cardinality(A) \in Nat
    BY <2>2, <2>3, FS_Subset, FS_CardinalityType
  <2>5. Cardinality(A) >= limit
    BY <2>1, <2>4
  <2> QED
    BY <2>5 DEF A
<1> QED
  BY <1>1, <1>2

\* The causes for which a group, and a loose log, may have gone.
GroupCause(c) == Cause(group, c, lclock, {"done", "pruned"}, MaxGroups)
LooseCause(c) == Cause(loose, c, lclock, {"kept", "pruned"}, MaxLoose)

\* A turn that logs in its group holds it open, any other turn has no group yet;
\* what is pruned or condemned was completed, and there is a cause for it.
GroupInv ==
    /\ \A c \in lcalls + 1 .. MaxCalls : group[c].state = "none"
    /\ \A p \in LogProc : lturn[p].step # "idle" =>
          group[lturn[p].id].state = IF lturn[p].log = "group" THEN "open" ELSE "none"
    /\ \A c \in LogCall : group[c].state = "pruned" => GroupCause(c)
    /\ \A p \in LogProc : lturn[p].step = "removing" => \A c \in lturn[p].judged :
          group[c].state \in {"done", "pruned"} /\ GroupCause(c)

\* Only a turn with a loose log has one there, or had; if it is gone or condemned,
\* there is a cause for it, or the turn has written it since it was condemned.
LooseExcused(p) == lturn[p].risk \/ LooseCause(lturn[p].id)
LooseInv ==
    /\ \A c \in lcalls + 1 .. MaxCalls : loose[c].state = "none"
    /\ \A p \in LogProc : lturn[p].step # "idle" =>
          loose[lturn[p].id].state \in
              IF lturn[p].log = "loose" THEN {"kept", "pruned"} ELSE {"none"}
    /\ \A p \in LogProc :
          lturn[p].log = "loose" /\ loose[lturn[p].id].state = "pruned" => LooseExcused(p)
    /\ \A q \in LogProc : lturn[q].step = "unlinking" => \A c \in lturn[q].judged :
          /\ loose[c].state \in {"kept", "pruned"}
          /\ \A p \in LogProc : lturn[p].log = "loose" /\ lturn[p].id = c => LooseExcused(p)

\* Each move of a turn preserves what is said of the groups ...
LEMMA GroupStep ==
    ASSUME LogTypes, LogTypes', GroupInv, lclock' = lclock, NEW p \in LogProc,
           NEW t \in LogTurns, lturn' = [lturn EXCEPT ![p] = t], LogMove(p, t)
    PROVE  GroupInv'
<1> USE TurnTracesAssumption
<1>a. /\ lclock \in Nat /\ lcalls \in 0 .. MaxCalls /\ lcalls' \in 0 .. MaxCalls
      /\ lturn \in [LogProc -> LogTurns] /\ lturn[p] \in LogTurns
      /\ group \in [LogCall -> Groups] /\ group' \in [LogCall -> Groups]
      /\ lturn'[p] = t /\ \A q \in LogProc \ {p} : lturn'[q] = lturn[q]
  BY DEF LogTypes
<1>b. \A c \in LogCall : group[c].at \in Nat /\ group'[c].at \in Nat
  BY <1>a DEF Groups
<1>c. \A q \in LogProc : lturn[q].step # "idle" => lturn[q].id \in LogCall
  BY <1>a DEF LogTypes, LogCall
<1>d. \A q \in LogProc : lturn[q].judged \in SUBSET LogCall
  BY <1>a DEF LogTurns
\* Which groups change, and how.
<1>1. ASSUME NEW c \in LogCall
      PROVE  \/ group'[c] = group[c]
             \/ /\ lturn[p].step = "logging" /\ t.step = "running" /\ t.log = "group"
                /\ c = lturn[p].id /\ group'[c].state = "open"
             \/ /\ lturn[p].step = "running" /\ t.step = "idle"
                /\ c = lturn[p].id /\ group'[c].state = "done"
             \/ /\ lturn[p].step = "removing" /\ c \in lturn[p].judged
                /\ group'[c].state = "pruned" /\ group'[c].at = group[c].at
  <2> DEFINE e(state) == [state |-> state, at |-> lclock]
  <2>0. \A d \in LogCall, state \in {"open", "done"} : [group EXCEPT ![d] = e(state)][c] =
            IF c = d THEN e(state) ELSE group[c]
    BY <1>a
  <2>1. CASE group' = group
    BY <2>1
  <2>2. CASE RemoveLogs(p, t)
    <3> DEFINE g == [group[c] EXCEPT !.state = "pruned"]
    <3>1. group'[c] = IF c \in lturn[p].judged THEN g ELSE group[c]
      BY <1>a, <2>2 DEF RemoveLogs, Logs!Remove
    <3>2. g.state = "pruned" /\ g.at = group[c].at
      BY <1>a DEF Groups
    <3> HIDE DEF g
    <3> QED
      BY <2>2, <3>1, <3>2 DEF RemoveLogs
  <2>3. CASE OpenLog(p, t)
    BY <1>a, <1>c, <2>0, <2>1, <2>3 DEF OpenLog
  <2>4. CASE EndLog(p, t)
    BY <1>a, <1>c, <2>0, <2>1, <2>4 DEF EndLog
  <2> QED
    BY <2>1, <2>2, <2>3, <2>4 DEF LogMove, BeginLog, ListLogs, ListLooseLogs, UnlinkLogs, WriteALog
\* Completed groups stay as they are, and so do the causes for their going.
<1>2. \A c \in LogCall : group[c].state \in {"done", "pruned"} =>
          group'[c].state \in {"done", "pruned"} /\ group'[c].at = group[c].at
  BY <1>1, <1>c DEF GroupInv, LogTypes
<1>3. \A c \in LogCall : group[c].state \in {"done", "pruned"} /\ GroupCause(c) => GroupCause(c)'
  <2> SUFFICES ASSUME NEW c \in LogCall, group[c].state \in {"done", "pruned"}, GroupCause(c)
               PROVE  GroupCause(c)'
    OBVIOUS
  <2> DEFINE g == group'
             over == {"done", "pruned"}
  <2>1. Cause(group, c, lclock, over, MaxGroups)
    BY DEF GroupCause
  <2>2. \A d \in LogCall : group[d].at \in Nat /\ g[d].at \in Nat
    BY <1>b
  <2>3. \A d \in LogCall : group[d].state \in over =>
            g[d].state \in over /\ group[d].at <= g[d].at
    BY <1>2, <1>b
  <2>4. g[c].at = group[c].at
    BY <1>2
  <2> HIDE DEF g, over
  <2>5. Cause(g, c, lclock, over, MaxGroups)
    BY <1>a, <2>1, <2>2, <2>3, <2>4, CauseStays
  <2> QED
    BY <2>5 DEF GroupCause, Cause, g, over
<1>4. \A c \in lcalls' + 1 .. MaxCalls : group'[c].state = "none"
  <2> SUFFICES ASSUME NEW c \in lcalls' + 1 .. MaxCalls
               PROVE  group'[c].state = "none"
    OBVIOUS
  <2>1. c \in LogCall /\ c \in lcalls + 1 .. MaxCalls /\ group[c].state = "none"
    <3>1. lcalls' \in {lcalls, lcalls + 1}
      BY DEF LogMove, BeginLog, ListLogs, RemoveLogs, ListLooseLogs, UnlinkLogs, OpenLog, WriteALog, EndLog
    <3>2. lcalls \in Nat /\ lcalls' \in Nat /\ lcalls <= lcalls'
      BY <1>a, <3>1
    <3> DEFINE n == lcalls
               m == lcalls'
    <3>3. c \in m + 1 .. MaxCalls /\ n \in Nat /\ m \in Nat /\ n <= m /\ MaxCalls \in Nat
      BY <3>2
    <3> HIDE DEF n, m
    <3>4. c \in Int /\ c >= m + 1 /\ c <= MaxCalls
      BY <3>3
    <3>5. c \in 1 .. MaxCalls /\ c \in n + 1 .. MaxCalls
      BY <3>3, <3>4
    <3>6. c \in LogCall /\ c \in lcalls + 1 .. MaxCalls
      BY <3>5 DEF LogCall, n
    <3> QED
      BY <3>6 DEF GroupInv
  <2>2. lturn[p].step # "idle" => c # lturn[p].id
    BY <1>a, <2>1 DEF LogTypes
  <2> QED
    BY <1>1, <2>1, <2>2 DEF GroupInv
<1>5. \A q \in LogProc : lturn'[q].step # "idle" =>
          group'[lturn'[q].id].state = IF lturn'[q].log = "group" THEN "open" ELSE "none"
  <2> SUFFICES ASSUME NEW q \in LogProc, lturn'[q].step # "idle"
               PROVE  group'[lturn'[q].id].state =
                          IF lturn'[q].log = "group" THEN "open" ELSE "none"
    OBVIOUS
  <2>1. CASE q # p
    <3>1. lturn'[q] = lturn[q] /\ lturn[q].id \in LogCall
          /\ (lturn[p].step # "idle" => lturn[q].id # lturn[p].id)
      BY <1>a, <1>c, <2>1 DEF LogTypes
    <3> QED
      BY <1>1, <3>1 DEF GroupInv
  <2>2. CASE q = p /\ BeginLog(p, t)
    <3>1. t.id \in LogCall /\ t.id \in lcalls + 1 .. MaxCalls
      BY <1>a, <2>2 DEF BeginLog, LogCall
    <3> QED
      BY <1>a, <2>2, <3>1 DEF BeginLog, GroupInv
  <2>3. CASE q = p /\ ~BeginLog(p, t)
    <3>1. t.id = lturn[p].id /\ lturn[p].step # "idle" /\ t.id \in LogCall
      BY <1>a, <1>c, <2>3
         DEF LogMove, ListLogs, RemoveLogs, ListLooseLogs, UnlinkLogs, OpenLog, WriteALog, EndLog
    <3>2. group[t.id].state = IF lturn[p].log = "group" THEN "open" ELSE "none"
      BY <3>1 DEF GroupInv
    <3>3. CASE OpenLog(p, t)
      <4>1. lturn[p].log = "none"
        BY <3>3 DEF OpenLog, LogTypes
      <4>2. \/ t.log = "group" /\ group' = [group EXCEPT ![t.id] = [state |-> "open", at |-> lclock]]
            \/ t.log = "loose" /\ group' = group
        BY <3>3 DEF OpenLog
      <4> QED
        BY <1>a, <2>3, <3>1, <3>2, <4>1, <4>2
    <3>4. CASE ~OpenLog(p, t)
      <4>1. t.log = lturn[p].log /\ ~(lturn[p].step = "logging" /\ t.step = "running")
            /\ t.step # "idle"
        BY <1>a, <2>3, <3>4 DEF LogMove, ListLogs, RemoveLogs, ListLooseLogs, UnlinkLogs, WriteALog, EndLog
      <4>2. lturn[p].step = "removing" => t.id \notin lturn[p].judged
        BY <3>2 DEF GroupInv
      <4> QED
        BY <1>a, <1>1, <2>3, <3>1, <3>2, <4>1, <4>2
    <3> QED
      BY <3>3, <3>4
  <2> QED
    BY <2>1, <2>2, <2>3
<1>6. \A c \in LogCall : group'[c].state = "pruned" => GroupCause(c)'
  <2> SUFFICES ASSUME NEW c \in LogCall, group'[c].state = "pruned"
               PROVE  GroupCause(c)'
    OBVIOUS
  <2>1. CASE group[c].state = "pruned"
    BY <1>3, <2>1 DEF GroupInv
  <2>2. CASE group[c].state # "pruned"
    <3>1. lturn[p].step = "removing" /\ c \in lturn[p].judged
      BY <1>1, <2>2
    <3> QED
      BY <1>3, <3>1 DEF GroupInv
  <2> QED
    BY <2>1, <2>2
<1>7. \A q \in LogProc : lturn'[q].step = "removing" => \A c \in lturn'[q].judged :
          group'[c].state \in {"done", "pruned"} /\ GroupCause(c)'
  <2> SUFFICES ASSUME NEW q \in LogProc, lturn'[q].step = "removing", NEW c \in lturn'[q].judged
               PROVE  group'[c].state \in {"done", "pruned"} /\ GroupCause(c)'
    OBVIOUS
  <2>1. CASE q # p
    BY <1>a, <1>d, <1>2, <1>3, <2>1 DEF GroupInv
  <2>2. CASE q = p
    <3> DEFINE done == {d \in LogCall : group[d].state = "done"}
    <3>1. t.judged \in Logs!Victims(done, group, MaxGroups) /\ c \in t.judged
      BY <1>a, <2>2
         DEF LogMove, BeginLog, ListLogs, RemoveLogs, ListLooseLogs, UnlinkLogs, OpenLog, WriteALog, EndLog,
             Logs!Completed, Logs!Call, LogCall
    <3>2. done \in SUBSET LogCall /\ \A d \in done : group[d].state \in {"done", "pruned"}
      OBVIOUS
    <3>3. c \in done
      <4> HIDE DEF done
      <4>1. t.judged \in SUBSET done
        BY <3>1 DEF Logs!Victims
      <4> QED
        BY <3>1, <4>1
    <3>4. GroupCause(c)
      <4> HIDE DEF done
      <4> QED
        BY <1>a, <1>b, <3>1, <3>2, CauseOfVictims DEF GroupCause
    <3> QED
      BY <1>2, <1>3, <3>3, <3>4
  <2> QED
    BY <2>1, <2>2
<1> QED
  BY <1>4, <1>5, <1>6, <1>7 DEF GroupInv

\* ... and what is said of the loose logs.
LEMMA LooseStep ==
    ASSUME LogTypes, LogTypes', LooseInv, lclock' = lclock, NEW p \in LogProc,
           NEW t \in LogTurns, lturn' = [lturn EXCEPT ![p] = t], LogMove(p, t)
    PROVE  LooseInv'
<1> USE TurnTracesAssumption
<1>a. /\ lclock \in Nat /\ lcalls \in 0 .. MaxCalls /\ lcalls' \in 0 .. MaxCalls
      /\ lturn \in [LogProc -> LogTurns] /\ lturn[p] \in LogTurns
      /\ loose \in [LogCall -> Looses] /\ loose' \in [LogCall -> Looses]
      /\ lturn'[p] = t /\ \A q \in LogProc \ {p} : lturn'[q] = lturn[q]
  BY DEF LogTypes
<1>b. \A c \in LogCall : /\ loose[c].at \in Nat /\ loose'[c].at \in Nat
                        /\ loose[c].at <= lclock
  BY <1>a DEF Looses, LogTypes
<1>c. \A q \in LogProc :
          /\ lturn[q].step # "idle" => lturn[q].id \in LogCall
          /\ lturn[q].log = "loose" => lturn[q].step = "running"
  BY <1>a DEF LogTypes, LogCall
<1>d. \A q \in LogProc : lturn[q].judged \in SUBSET LogCall
  BY <1>a DEF LogTurns
\* Which logs change, and how.
<1>1. ASSUME NEW c \in LogCall
      PROVE  \/ loose'[c] = loose[c]
             \/ /\ OpenLog(p, t) /\ t.log = "loose" /\ c = lturn[p].id
                /\ loose'[c].state = "kept" /\ loose'[c].at = lclock
             \/ /\ WriteALog(p, t) /\ c = lturn[p].id
                /\ loose'[c].state = "kept" /\ loose'[c].at = lclock
             \/ /\ UnlinkLogs(p, t) /\ c \in lturn[p].judged
                /\ loose'[c].state = "pruned" /\ loose'[c].at = loose[c].at
  <2> DEFINE k == [state |-> "kept", at |-> lclock]
  <2>0. k.state = "kept" /\ k.at = lclock
    OBVIOUS
  <2> HIDE DEF k
  <2>1. CASE loose' = loose
    BY <2>1
  <2>2. CASE loose' # loose /\ OpenLog(p, t)
    <3>1. t.log = "loose" /\ loose' = [loose EXCEPT ![lturn[p].id] = k]
      BY <2>2 DEF OpenLog, k
    <3> QED
      BY <1>a, <2>0, <2>2, <3>1
  <2>3. CASE WriteALog(p, t)
    <3>1. loose' = [loose EXCEPT ![lturn[p].id] = k]
      BY <2>3 DEF WriteALog, k
    <3> QED
      BY <1>a, <2>0, <2>3, <3>1
  <2>4. CASE UnlinkLogs(p, t)
    <3> DEFINE l == [loose[c] EXCEPT !.state = "pruned"]
    <3>1. loose'[c] = IF c \in lturn[p].judged THEN l ELSE loose[c]
      BY <1>a, <2>4 DEF UnlinkLogs, Logs!Remove
    <3>2. l.state = "pruned" /\ l.at = loose[c].at
      BY <1>a DEF Looses
    <3> HIDE DEF l
    <3> QED
      BY <2>4, <3>1, <3>2
  <2> QED
    BY <2>1, <2>2, <2>3, <2>4 DEF LogMove, BeginLog, ListLogs, RemoveLogs, ListLooseLogs, EndLog
\* What a turn that goes on keeps of its record.
<1>2. /\ t.log = "loose" => /\ OpenLog(p, t) \/ WriteALog(p, t)
                           /\ t.id = lturn[p].id
      /\ t.step = "unlinking" => ListLooseLogs(p, t)
  BY <1>c DEF LogMove, BeginLog, ListLogs, RemoveLogs, ListLooseLogs, UnlinkLogs, OpenLog,
              WriteALog, EndLog
<1>3. \A c \in LogCall : loose[c].state \in {"kept", "pruned"} =>
          loose'[c].state \in {"kept", "pruned"} /\ loose[c].at <= loose'[c].at
  BY <1>1, <1>b
\* A cause stays unless the log is written again.
<1>4. ASSUME NEW c \in LogCall, LooseCause(c), loose'[c].at = loose[c].at
      PROVE  LooseCause(c)'
  <2> DEFINE l == loose'
             states == {"kept", "pruned"}
  <2>1. Cause(loose, c, lclock, states, MaxLoose)
    BY <1>4 DEF LooseCause
  <2>2. \A d \in LogCall : loose[d].at \in Nat /\ l[d].at \in Nat
    BY <1>b
  <2>3. \A d \in LogCall : loose[d].state \in states =>
            l[d].state \in states /\ loose[d].at <= l[d].at
    BY <1>3
  <2>4. l[c].at = loose[c].at
    BY <1>4
  <2> HIDE DEF l, states
  <2>5. Cause(l, c, lclock, states, MaxLoose)
    BY <1>a, <2>1, <2>2, <2>3, <2>4, CauseStays
  <2> QED
    BY <2>5 DEF LooseCause, Cause, l, states
\* So the others are excused as they were: nobody else writes their logs.
<1>5. ASSUME NEW q \in LogProc, q # p, lturn[q].log = "loose"
      PROVE  /\ lturn'[q] = lturn[q] /\ lturn[q].id \in LogCall
             /\ loose'[lturn[q].id].at = loose[lturn[q].id].at
             /\ LooseExcused(q) => LooseExcused(q)'
  <2>1. lturn'[q] = lturn[q] /\ lturn[q].step = "running" /\ lturn[q].id \in LogCall
    BY <1>5, <1>a, <1>c
  <2>2. lturn[p].step # "idle" => lturn[q].id # lturn[p].id
    BY <1>5, <2>1 DEF LogTypes
  <2>3. loose'[lturn[q].id].at = loose[lturn[q].id].at
    BY <1>1, <2>1, <2>2 DEF OpenLog, WriteALog
  <2> QED
    BY <1>4, <2>1, <2>3 DEF LooseExcused
<1>6. \A c \in lcalls' + 1 .. MaxCalls : loose'[c].state = "none"
  <2> SUFFICES ASSUME NEW c \in lcalls' + 1 .. MaxCalls
               PROVE  loose'[c].state = "none"
    OBVIOUS
  <2>1. c \in LogCall /\ c \in lcalls + 1 .. MaxCalls /\ loose[c].state = "none"
    <3>1. lcalls' \in {lcalls, lcalls + 1}
      BY DEF LogMove, BeginLog, ListLogs, RemoveLogs, ListLooseLogs, UnlinkLogs, OpenLog,
             WriteALog, EndLog
    <3>2. lcalls \in Nat /\ lcalls' \in Nat /\ lcalls <= lcalls'
      BY <1>a, <3>1
    <3> DEFINE n == lcalls
               m == lcalls'
    <3>3. c \in m + 1 .. MaxCalls /\ n \in Nat /\ m \in Nat /\ n <= m /\ MaxCalls \in Nat
      BY <3>2
    <3> HIDE DEF n, m
    <3>4. c \in Int /\ c >= m + 1 /\ c <= MaxCalls
      BY <3>3
    <3>5. c \in 1 .. MaxCalls /\ c \in n + 1 .. MaxCalls
      BY <3>3, <3>4
    <3>6. c \in LogCall /\ c \in lcalls + 1 .. MaxCalls
      BY <3>5 DEF LogCall, n
    <3> QED
      BY <3>6 DEF LooseInv
  <2>2. lturn[p].step # "idle" => c # lturn[p].id
    BY <1>a, <2>1 DEF LogTypes
  <2>3. lturn[p].step = "unlinking" => c \notin lturn[p].judged
    BY <2>1 DEF LooseInv
  <2> QED
    BY <1>1, <2>1, <2>2, <2>3 DEF OpenLog, WriteALog, UnlinkLogs
<1>7. ASSUME NEW q \in LogProc, lturn'[q].step # "idle"
      PROVE  loose'[lturn'[q].id].state \in
                 IF lturn'[q].log = "loose" THEN {"kept", "pruned"} ELSE {"none"}
  <2>1. CASE q # p
    <3>1. lturn'[q] = lturn[q] /\ lturn[q].id \in LogCall /\ lturn[q].step # "idle"
          /\ (lturn[p].step # "idle" => lturn[q].id # lturn[p].id)
      BY <1>7, <1>a, <1>c, <2>1 DEF LogTypes
    <3>2. CASE lturn[q].log = "loose"
      BY <1>3, <3>1, <3>2 DEF LooseInv
    <3>3. CASE lturn[q].log # "loose"
      <4>1. loose[lturn[q].id].state = "none"
        BY <3>1, <3>3 DEF LooseInv
      <4>2. lturn[p].step = "unlinking" => lturn[q].id \notin lturn[p].judged
        BY <4>1 DEF LooseInv
      <4>3. loose'[lturn[q].id] = loose[lturn[q].id]
        BY <1>1, <3>1, <4>2 DEF OpenLog, WriteALog, UnlinkLogs
      <4> QED
        BY <3>1, <3>3, <4>1, <4>3
    <3> QED
      BY <3>2, <3>3
  <2>2. CASE q = p /\ BeginLog(p, t)
    <3>1. t.id \in LogCall /\ t.id \in lcalls + 1 .. MaxCalls
      BY <1>a, <2>2 DEF BeginLog, LogCall
    <3> QED
      BY <1>a, <2>2, <3>1 DEF BeginLog, LooseInv
  <2>3. CASE q = p /\ t.log = "loose"
    <3>1. t.id \in LogCall /\ t.id = lturn[p].id
      BY <1>2, <1>c, <2>3 DEF OpenLog, WriteALog
    <3>2. loose'[t.id].state = "kept"
      BY <1>2, <1>a, <2>3, <3>1 DEF OpenLog, WriteALog
    <3> QED
      BY <1>a, <2>3, <3>2
  <2>4. CASE q = p /\ ~BeginLog(p, t) /\ t.log # "loose"
    <3>1. /\ t.id = lturn[p].id /\ lturn[p].step # "idle" /\ t.id \in LogCall
          /\ lturn[p].log # "loose"
      BY <1>7, <1>a, <1>c, <2>4
         DEF LogMove, ListLogs, RemoveLogs, ListLooseLogs, UnlinkLogs, OpenLog, WriteALog, EndLog
    <3>2. loose[t.id].state = "none"
      BY <3>1 DEF LooseInv
    <3>3. lturn[p].step = "unlinking" => t.id \notin lturn[p].judged
      BY <3>2 DEF LooseInv
    <3>4. loose'[t.id] = loose[t.id]
      BY <1>1, <2>4, <3>1, <3>3 DEF WriteALog, UnlinkLogs
    <3> QED
      BY <1>a, <2>4, <3>2, <3>4
  <2> QED
    BY <2>1, <2>2, <2>3, <2>4
<1>8. ASSUME NEW q \in LogProc, lturn'[q].log = "loose", loose'[lturn'[q].id].state = "pruned"
      PROVE  LooseExcused(q)'
  <2>1. q # p
    <3>1. ASSUME q = p
          PROVE  FALSE
      <4>1. t.log = "loose" /\ t.id = lturn[p].id /\ t.id \in LogCall
        BY <1>2, <1>8, <1>a, <1>c, <3>1 DEF OpenLog, WriteALog
      <4>2. loose'[t.id].state = "kept"
        BY <1>2, <1>a, <4>1 DEF OpenLog, WriteALog
      <4> QED
        BY <1>8, <1>a, <3>1, <4>2
    <3> QED
      BY <3>1
  <2>2. lturn'[q] = lturn[q] /\ lturn[q].log = "loose" /\ lturn[q].id \in LogCall
    BY <1>5, <1>8, <1>a, <2>1
  <2>3. CASE loose[lturn[q].id].state = "pruned"
    BY <1>5, <2>1, <2>2, <2>3 DEF LooseInv
  <2>4. CASE loose[lturn[q].id].state # "pruned"
    <3>1. lturn[p].step = "unlinking" /\ lturn[q].id \in lturn[p].judged
      BY <1>1, <1>8, <2>2, <2>4 DEF UnlinkLogs
    <3>2. LooseExcused(q)
      BY <2>2, <3>1 DEF LooseInv
    <3> QED
      BY <1>5, <2>1, <2>2, <3>2
  <2> QED
    BY <2>3, <2>4
<1>9. ASSUME NEW q \in LogProc, lturn'[q].step = "unlinking", NEW c \in lturn'[q].judged
      PROVE  /\ loose'[c].state \in {"kept", "pruned"}
             /\ \A r \in LogProc : lturn'[r].log = "loose" /\ lturn'[r].id = c => LooseExcused(r)'
  <2>1. CASE q = p
    <3>1. ListLooseLogs(p, t) /\ c \in t.judged
      BY <1>2, <1>9, <1>a, <2>1
    <3> DEFINE kept == {d \in LogCall : loose[d].state = "kept"}
               states == {"kept", "pruned"}
    <3>2. t.judged \in Logs!Victims(kept, loose, MaxLoose)
      BY <3>1 DEF ListLooseLogs, Logs!Kept, Logs!Call, LogCall
    <3>3. kept \in SUBSET LogCall /\ \A d \in kept : loose[d].state \in states
      OBVIOUS
    <3>4. c \in kept
      <4> HIDE DEF kept
      <4>1. t.judged \in SUBSET kept
        BY <3>2 DEF Logs!Victims
      <4> QED
        BY <3>1, <4>1
    <3>5. LooseCause(c)
      <4> HIDE DEF kept, states
      <4>1. Cause(loose, c, lclock, states, MaxLoose)
        BY <1>a, <1>b, <3>1, <3>2, <3>3, CauseOfVictims
      <4> QED
        BY <4>1 DEF LooseCause, states
    <3>6. loose' = loose /\ LooseCause(c)'
      BY <1>4, <3>1, <3>4, <3>5 DEF ListLooseLogs
    <3>7. loose'[c].state \in {"kept", "pruned"}
      BY <3>4, <3>6
    <3>8. ASSUME NEW r \in LogProc, lturn'[r].id = c
          PROVE  LooseExcused(r)'
      BY <3>6, <3>8 DEF LooseExcused
    <3> QED
      BY <3>7, <3>8
  <2>2. CASE q # p
    <3>1. lturn[q].step = "unlinking" /\ c \in lturn[q].judged /\ c \in LogCall
      BY <1>9, <1>a, <1>d, <2>2
    <3>2. loose[c].state \in {"kept", "pruned"}
      BY <3>1 DEF LooseInv
    <3>3. ASSUME NEW r \in LogProc, r # p, lturn'[r].log = "loose", lturn'[r].id = c
          PROVE  LooseExcused(r)'
      <4>1. lturn[r].log = "loose" /\ lturn[r].id = c
        BY <1>a, <3>3
      <4>2. LooseExcused(r)
        BY <3>1, <4>1 DEF LooseInv
      <4> QED
        BY <1>5, <3>3, <4>1, <4>2
    <3>4. ASSUME t.log = "loose", t.id = c
          PROVE  LooseExcused(p)'
      <4>1. ~OpenLog(p, t)
        <5>1. ASSUME OpenLog(p, t)
              PROVE  FALSE
          <6>1. lturn[p].step # "idle" /\ lturn[p].log # "loose" /\ lturn[p].id = c
            BY <1>c, <3>4, <5>1 DEF OpenLog
          <6>2. loose[c].state = "none"
            BY <6>1 DEF LooseInv
          <6> QED
            BY <3>2, <6>2
        <5> QED
          BY <5>1
      <4>2. WriteALog(p, t)
        BY <1>2, <3>4, <4>1
      <4>3. Logs!Condemned(c)
        BY <3>1 DEF Logs!Condemned, Logs!At, LogProc
      <4> QED
        BY <1>a, <3>4, <4>2, <4>3 DEF WriteALog, LooseExcused
    <3> QED
      BY <1>3, <1>a, <3>1, <3>2, <3>3, <3>4
  <2> QED
    BY <2>1, <2>2
<1> QED
  BY <1>6, <1>7, <1>8, <1>9 DEF LooseInv

\* The turns that have condemned groups and not yet removed them; those that have
\* made room since and may still complete a group; and what is completed and not
\* condemned by a turn of Q.
Removing == {p \in LogProc : lturn[p].step = "removing"}
Committed == {p \in LogProc : lturn[p].step \in {"sweeping", "unlinking", "logging", "running"}}
Spared(Q) ==
    {c \in LogCall : group[c].state = "done" /\ \A q \in Q : c \notin lturn[q].judged}

Fits(spared, Q, committed) ==
    Cardinality(spared) + Cardinality(Q) + Cardinality(committed)
        <= MaxGroups + Cardinality(LogProc)

\* Whichever of the condemning turns go on to remove what they have condemned,
\* there is room for the group that each of them, and each turn that made room
\* before, may still complete.
RoomInv == \A Q \in SUBSET Removing : Fits(Spared(Q), Q, Committed)

\* There are finitely many processes.
LEMMA FiniteProcs ==
    \A S \in SUBSET LogProc :
        /\ IsFiniteSet(S) /\ Cardinality(S) \in Nat
        /\ \A Q \in SUBSET S : Cardinality(Q) <= Cardinality(S)
<1>1. IsFiniteSet(LogProc)
  <2>1. LogProc \in SUBSET Proc
    BY DEF LogProc
  <2> QED
    BY <2>1, FS_Subset, TurnTracesAssumption
<1> QED
  BY <1>1, FS_Subset, FS_CardinalityType

\* Fewer calls, fewer turns that condemn and fewer that made room fit as well.
LEMMA FewerFit ==
    ASSUME NEW S \in SUBSET LogCall, NEW Q \in SUBSET LogProc, NEW K \in SUBSET LogProc,
           NEW s \in SUBSET S, NEW q \in SUBSET Q, NEW k \in SUBSET K, Fits(S, Q, K)
    PROVE  Fits(s, q, k)
<1>1. Cardinality(s) <= Cardinality(S) /\ Cardinality(s) \in Nat /\ Cardinality(S) \in Nat
  BY FiniteCalls, FS_Subset
<1>2. /\ Cardinality(q) <= Cardinality(Q) /\ Cardinality(q) \in Nat /\ Cardinality(Q) \in Nat
      /\ Cardinality(k) <= Cardinality(K) /\ Cardinality(k) \in Nat /\ Cardinality(K) \in Nat
      /\ Cardinality(LogProc) \in Nat
  BY FiniteProcs
<1> QED
  BY <1>1, <1>2, TurnTracesAssumption DEF Fits

\* So does a turn that removes what it condemned.
LEMMA RemoverFits ==
    ASSUME NEW S \in SUBSET LogCall, NEW Q \in SUBSET LogProc, NEW K \in SUBSET LogProc,
           NEW p \in LogProc \ Q, p \notin K, Fits(S, Q \cup {p}, K)
    PROVE  Fits(S, Q, K \cup {p})
<1>1. IsFiniteSet(Q) /\ IsFiniteSet(K) /\ Cardinality(Q) \in Nat /\ Cardinality(K) \in Nat
  BY FiniteProcs
<1>2. Cardinality(Q \cup {p}) = Cardinality(Q) + 1 /\ Cardinality(K \cup {p}) = Cardinality(K) + 1
  BY <1>1, FS_AddElement
<1> QED
  BY <1>1, <1>2, FiniteCalls DEF Fits

\* And a turn that made room and completes its group.
LEMMA CompleterFits ==
    ASSUME NEW S \in SUBSET LogCall, NEW Q \in SUBSET LogProc, NEW K \in SUBSET LogProc,
           NEW p \in K, NEW c \in LogCall, Fits(S, Q, K)
    PROVE  Fits(S \cup {c}, Q, K \ {p})
<1>1. IsFiniteSet(K) /\ Cardinality(K) \in Nat /\ Cardinality(Q) \in Nat
      /\ IsFiniteSet(S) /\ Cardinality(S) \in Nat
  BY FiniteProcs, FiniteCalls
<1>2. Cardinality(K \ {p}) = Cardinality(K) - 1
  BY <1>1, FS_RemoveElement
<1>3. Cardinality(S \cup {c}) \in {Cardinality(S), Cardinality(S) + 1}
  BY <1>1, FS_AddElement
<1>4. Cardinality(LogProc) \in Nat
  BY FiniteProcs
<1> QED
  BY <1>1, <1>2, <1>3, <1>4, TurnTracesAssumption DEF Fits

\* And whatever the sweep of a turn leaves, with all the processes there are.
LEMMA SweptFits ==
    ASSUME NEW S \in SUBSET LogCall, Cardinality(S) <= MaxGroups,
           NEW Q \in SUBSET LogProc, NEW K \in SUBSET LogProc, Q \cap K = {}
    PROVE  Fits(S, Q, K)
<1>1. IsFiniteSet(Q) /\ IsFiniteSet(K) /\ Cardinality(Q) \in Nat /\ Cardinality(K) \in Nat
      /\ Cardinality(S) \in Nat
  BY FiniteProcs, FiniteCalls
<1>2. Cardinality(Q \cup K) = Cardinality(Q) + Cardinality(K)
  <2>1. Cardinality(Q \cup K) = Cardinality(Q) + Cardinality(K) - Cardinality(Q \cap K)
    BY <1>1, FS_Union
  <2>2. Cardinality(Q \cap K) = 0
    BY FS_EmptySet
  <2> QED
    BY <1>1, <2>1, <2>2
<1>3. Cardinality(Q \cup K) <= Cardinality(LogProc) /\ Cardinality(LogProc) \in Nat
  BY FiniteProcs
<1> QED
  BY <1>1, <1>2, <1>3, TurnTracesAssumption DEF Fits

\* Each move of a turn leaves room.
LEMMA RoomStep ==
    ASSUME LogTypes, RoomInv, lclock' = lclock, NEW p \in LogProc,
           NEW t \in LogTurns, lturn' = [lturn EXCEPT ![p] = t], LogMove(p, t)
    PROVE  RoomInv'
<1> DEFINE Judged(q) == lturn'[q].judged
           Now(Q) == {c \in LogCall : group'[c].state = "done" /\ \A q \in Q : c \notin Judged(q)}
           Move == {q \in LogProc : lturn'[q].step = "removing"}
           Made == {q \in LogProc : lturn'[q].step \in {"sweeping", "unlinking", "logging", "running"}}
<1> SUFFICES ASSUME NEW Q \in SUBSET Move
             PROVE  Fits(Now(Q), Q, Made)
  BY DEF RoomInv, Fits, Spared, Removing, Committed
<1>a. /\ lclock \in Nat /\ lcalls \in 0 .. MaxCalls
      /\ lturn \in [LogProc -> LogTurns] /\ lturn[p] \in LogTurns
      /\ group \in [LogCall -> Groups]
      /\ lturn'[p] = t /\ \A q \in LogProc \ {p} : lturn'[q] = lturn[q]
  BY DEF LogTypes
<1>b. /\ Move \in SUBSET LogProc /\ Made \in SUBSET LogProc /\ Q \in SUBSET LogProc
      /\ Removing \in SUBSET LogProc /\ Committed \in SUBSET LogProc
      /\ Move \cap Made = {} /\ Now(Q) \in SUBSET LogCall /\ Spared(Q) \in SUBSET LogCall
  BY DEF Removing, Committed, Spared
<1>c. p \notin Q => Q \in SUBSET Removing /\ \A q \in Q : Judged(q) = lturn[q].judged
  BY <1>a DEF Removing
<1>1. CASE BeginLog(p, t) \/ ListLooseLogs(p, t) \/ UnlinkLogs(p, t) \/ WriteALog(p, t)
         \/ (EndLog(p, t) /\ group' = group)
  <2>1. p \notin Q /\ Made \in SUBSET Committed
    BY <1>1, <1>a DEF BeginLog, ListLooseLogs, UnlinkLogs, WriteALog, EndLog, Committed
  <2>2. Now(Q) = Spared(Q)
    BY <1>1, <1>c, <2>1 DEF BeginLog, ListLooseLogs, UnlinkLogs, WriteALog, EndLog, Spared
  <2>3. Fits(Spared(Q), Q, Committed)
    BY <1>c, <2>1 DEF RoomInv
  <2> HIDE DEF Now, Move, Made
  <2> QED
    BY <1>b, <2>1, <2>2, <2>3, FewerFit
<1>2. CASE OpenLog(p, t)
  <2>1. p \notin Q /\ Made \in SUBSET Committed
    BY <1>2, <1>a DEF OpenLog, Committed
  <2>2. Now(Q) \in SUBSET Spared(Q)
    <3> DEFINE open == [state |-> "open", at |-> lclock]
    <3>1. group' \in {group, [group EXCEPT ![t.id] = open]} /\ open.state # "done"
      BY <1>2 DEF OpenLog
    <3> HIDE DEF open
    <3>2. \A c \in LogCall : group'[c].state = "done" => group[c].state = "done"
      BY <1>a, <3>1
    <3> QED
      BY <1>c, <2>1, <3>2 DEF Spared
  <2>3. Fits(Spared(Q), Q, Committed)
    BY <1>c, <2>1 DEF RoomInv
  <2> HIDE DEF Now, Move, Made
  <2> QED
    BY <1>b, <2>1, <2>2, <2>3, FewerFit
<1>3. CASE ListLogs(p, t) /\ p \notin Q
  <2>1. Made \in SUBSET Committed
    BY <1>3, <1>a DEF ListLogs, Committed
  <2>2. Now(Q) = Spared(Q)
    BY <1>3, <1>c DEF ListLogs, Spared
  <2>3. Fits(Spared(Q), Q, Committed)
    BY <1>c, <1>3 DEF RoomInv
  <2> HIDE DEF Now, Move, Made
  <2> QED
    BY <1>b, <2>1, <2>2, <2>3, FewerFit
<1>4. CASE ListLogs(p, t) /\ p \in Q
  <2> DEFINE done == {c \in LogCall : group[c].state = "done"}
  <2>1. t.judged \in Logs!Victims(done, group, MaxGroups)
    BY <1>4 DEF ListLogs, Logs!Completed, Logs!Call, LogCall
  <2>2. Now(Q) \in SUBSET (done \ t.judged)
    BY <1>4, <1>a DEF ListLogs
  <2>3. \A c \in LogCall : group[c].at \in Nat
    BY <1>a DEF Groups
  <2>4. done \in SUBSET LogCall
    OBVIOUS
  <2> HIDE DEF done
  <2>5. Cardinality(done \ t.judged) <= MaxGroups
    <3>1. MaxGroups \in Nat /\ lclock \in Nat
      BY <1>a, TurnTracesAssumption
    <3> QED
      BY <2>1, <2>3, <2>4, <3>1, VictimsSound
  <2>6. Cardinality(Now(Q)) <= MaxGroups
    <3> HIDE DEF Now
    <3> DEFINE left == done \ t.judged
    <3>1. IsFiniteSet(left) /\ Cardinality(left) \in Nat /\ Now(Q) \in SUBSET left
      BY <2>2, <2>4, FiniteCalls
    <3> HIDE DEF left
    <3>2. Cardinality(Now(Q)) <= Cardinality(left) /\ Cardinality(Now(Q)) \in Nat
      BY <1>b, <3>1, FS_Subset, FiniteCalls
    <3> QED
      BY <2>5, <3>1, <3>2, TurnTracesAssumption DEF left
  <2>7. Q \cap Made = {}
    OBVIOUS
  <2> HIDE DEF Now, Move, Made
  <2> QED
    BY <1>b, <2>6, <2>7, SweptFits
<1>5. CASE RemoveLogs(p, t)
  <2>1. /\ p \notin Q /\ p \in Removing /\ p \notin Committed
        /\ Made = Committed \cup {p}
    BY <1>5, <1>a DEF RemoveLogs, Committed, Removing
  <2>2. Now(Q) = Spared(Q \cup {p})
    <3> DEFINE gone(c) == [group[c] EXCEPT !.state = "pruned"]
    <3>1. \A c \in LogCall : gone(c).state # "done"
      BY <1>a DEF Groups
    <3>2. \A c \in LogCall : group'[c] = IF c \in lturn[p].judged THEN gone(c) ELSE group[c]
      BY <1>5, <1>a DEF RemoveLogs, Logs!Remove
    <3> HIDE DEF gone
    <3> QED
      BY <1>c, <2>1, <3>1, <3>2 DEF Spared
  <2>3. Fits(Spared(Q \cup {p}), Q \cup {p}, Committed)
    BY <1>c, <2>1 DEF RoomInv
  <2> HIDE DEF Now, Move, Made
  <2> QED
    BY <1>b, <2>1, <2>2, <2>3, RemoverFits
<1>6. CASE EndLog(p, t) /\ group' # group
  <2>1. p \notin Q /\ p \in Committed /\ Made = Committed \ {p} /\ lturn[p].id \in LogCall
    <3>1. lturn[p].step = "running" /\ t.step = "idle"
      BY <1>6 DEF EndLog
    <3>2. lturn[p].id \in LogCall
      BY <1>a, <3>1, TurnTracesAssumption DEF LogTypes, LogCall
    <3>3. p \notin Q /\ p \in Committed /\ Made = Committed \ {p}
      BY <1>a, <3>1 DEF Committed
    <3> QED
      BY <3>2, <3>3
  <2>2. Now(Q) \in SUBSET (Spared(Q) \cup {lturn[p].id})
    <3>1. \A c \in LogCall \ {lturn[p].id} : group'[c] = group[c]
      BY <1>6, <1>a DEF EndLog
    <3> QED
      BY <1>c, <2>1, <3>1 DEF Spared
  <2>3. Fits(Spared(Q), Q, Committed)
    BY <1>c, <2>1 DEF RoomInv
  <2> HIDE DEF Now, Move, Made
  <2>4. Fits(Spared(Q) \cup {lturn[p].id}, Q, Made)
    BY <1>b, <2>1, <2>3, CompleterFits
  <2>5. Spared(Q) \cup {lturn[p].id} \in SUBSET LogCall
    BY <1>b, <2>1
  <2> QED
    BY <1>b, <2>2, <2>4, <2>5, FewerFit
<1> HIDE DEF Now, Move, Made
<1> QED
  BY <1>1, <1>2, <1>3, <1>4, <1>5, <1>6 DEF LogMove

\* What is true of the logs of calls: the inductive invariant.
LogInv == LogTypes /\ GroupInv /\ LooseInv /\ RoomInv

\* It holds at first ...
LEMMA LogsAtFirst == Logs!Init => LogInv
<1> SUFFICES ASSUME Logs!Init
             PROVE  LogInv
  OBVIOUS
<1>1. /\ \A p \in LogProc : lturn[p].step = "idle" /\ lturn[p].log = "none"
      /\ \A c \in LogCall : group[c].state = "none" /\ loose[c].state = "none"
      /\ lcalls = 0
  BY DEF Logs!Init, Logs!Entry, Logs!NoTurn, Logs!Call, LogCall, LogProc
<1>2. GroupInv
  BY <1>1, TurnTracesAssumption DEF GroupInv, LogCall
<1>3. LooseInv
  BY <1>1, TurnTracesAssumption DEF LooseInv, LogCall
<1>4. ASSUME NEW Q \in SUBSET Removing
      PROVE  Fits(Spared(Q), Q, Committed)
  <2>1. Spared(Q) = {} /\ Q = {} /\ Committed = {}
    BY <1>1 DEF Spared, Removing, Committed
  <2>2. Cardinality(LogProc) \in Nat
    BY FiniteProcs
  <2> QED
    BY <2>1, <2>2, FS_EmptySet, TurnTracesAssumption DEF Fits
<1> QED
  BY <1>2, <1>3, <1>4, LogTypesAtFirst DEF LogInv, RoomInv

\* ... and every move of a turn and of the clock preserves it.
LEMMA LogsStep == LogInv /\ [Logs!Next]_logVars => LogInv'
<1> SUFFICES ASSUME LogInv, [Logs!Next]_logVars
             PROVE  LogInv'
  OBVIOUS
<1>1. ASSUME NEW p \in LogProc, Logs!Turn(p)
      PROVE  LogInv'
  <2>1. LogTypes /\ GroupInv /\ LooseInv /\ RoomInv
    BY DEF LogInv
  <2>2. lclock' = lclock
    BY <1>1, <2>1, LogMoves
  <2>3. PICK t \in LogTurns : lturn' = [lturn EXCEPT ![p] = t] /\ LogMove(p, t)
    BY <1>1, <2>1, LogMoves
  <2>4. LogTypes'
    BY <2>1, <2>2, <2>3, LogTypesStep
  <2>5. GroupInv'
    BY <2>1, <2>2, <2>3, <2>4, GroupStep
  <2>6. LooseInv'
    BY <2>1, <2>2, <2>3, <2>4, LooseStep
  <2>7. RoomInv'
    BY <2>1, <2>2, <2>3, RoomStep
  <2> QED
    BY <2>4, <2>5, <2>6, <2>7 DEF LogInv
\* The clock goes on, or nothing happens at all.
<1>2. ASSUME lclock' \in {lclock, lclock + 1}, UNCHANGED <<lcalls, lturn, group, loose>>
      PROVE  LogInv'
  <2>1. lclock \in Nat /\ lclock' \in Nat /\ lclock <= lclock'
        /\ MaxGroups \in Nat /\ MaxLoose \in Nat
    BY <1>2, TurnTracesAssumption DEF LogInv, LogTypes
  <2>2. \A c \in LogCall : group[c].at \in Nat /\ loose[c].at \in Nat
    BY DEF LogInv, LogTypes, Groups, Looses
  <2>3. LogTypes'
    BY <1>2, <2>1, <2>2 DEF LogInv, LogTypes
  <2>4. RoomInv'
    BY <1>2 DEF LogInv, RoomInv, Fits, Spared, Removing, Committed
  <2> DEFINE now == lclock'
  <2>5. ASSUME NEW entry, NEW states, NEW limit \in Nat, \A c \in LogCall : entry[c].at \in Nat,
               NEW c \in LogCall, Cause(entry, c, lclock, states, limit)
        PROVE  Cause(entry, c, now, states, limit)
    <3>1. lclock \in Nat /\ now \in Nat /\ lclock <= now
      BY <2>1
    <3>2. /\ \A d \in LogCall : entry[d].at \in Nat /\ entry[d].at \in Nat
          /\ \A d \in LogCall : entry[d].state \in states =>
                 entry[d].state \in states /\ entry[d].at <= entry[d].at
      BY <2>5
    <3> HIDE DEF now
    <3> QED
      BY <2>5, <3>1, <3>2, CauseStays
  <2>6. ASSUME NEW c \in LogCall, GroupCause(c)
        PROVE  GroupCause(c)'
    <3> DEFINE over == {"done", "pruned"}
    <3>1. Cause(group, c, lclock, over, MaxGroups)
      BY <2>6 DEF GroupCause
    <3> HIDE DEF over, now
    <3>2. Cause(group, c, now, over, MaxGroups)
      BY <2>1, <2>2, <2>5, <3>1
    <3> QED
      BY <1>2, <3>2 DEF GroupCause, Cause, over, now
  <2>7. ASSUME NEW c \in LogCall, LooseCause(c)
        PROVE  LooseCause(c)'
    <3> DEFINE over == {"kept", "pruned"}
    <3>1. Cause(loose, c, lclock, over, MaxLoose)
      BY <2>7 DEF LooseCause
    <3> HIDE DEF over, now
    <3>2. Cause(loose, c, now, over, MaxLoose)
      BY <2>1, <2>2, <2>5, <3>1
    <3> QED
      BY <1>2, <3>2 DEF LooseCause, Cause, over, now
  <2>8. \A p \in LogProc : lturn[p].judged \in SUBSET LogCall
    BY DEF LogInv, LogTypes, LogTurns
  <2>9. GroupInv'
    BY <1>2, <2>6, <2>8 DEF LogInv, GroupInv
  <2>9a. \A p \in LogProc : lturn[p].log = "loose" => lturn[p].id \in LogCall
    BY TurnTracesAssumption DEF LogInv, LogTypes, LogCall
  <2>9b. \A p \in LogProc : lturn[p].log = "loose" /\ LooseExcused(p) => LooseExcused(p)'
    BY <1>2, <2>7, <2>9a DEF LooseExcused
  <2>10. LooseInv'
    BY <1>2, <2>9b DEF LogInv, LooseInv
  <2> QED
    BY <2>3, <2>4, <2>9, <2>10 DEF LogInv
<1> QED
  BY <1>1, <1>2 DEF Logs!Next, Logs!Tick, LogProc, logVars

\* However the turns of several processes overlap, whatever they are and whatever the
\* limits: no sweep takes the log a running turn keeps in its group, however old; a
\* sweep takes a running turn's loose log only if it was not written for a week, or as
\* many others as the limit are as new, or it was condemned before it was last written; a
\* group is pruned only if it is too old or as many others as the limit are as new;
\* and the completed groups that no turn has condemned are at most the limit and one
\* more for each process (pruneDiagnosticsUnder, pruneCallGroups,
\* pruneFallbackDiagnostics, finalizeDiagnostics).
THEOREM LogsAreKeptRight == MCSpec => []LogsKeptRight
<1>1. MCInit => LogInv
  BY LogsAtFirst DEF MCInit
<1>2. LogInv /\ [MCNext]_allVars => LogInv'
  BY LogsStep, StepOfEachPart
<1>3. ASSUME LogInv
      PROVE  LogsKeptRight
  <2> USE SameCount
  <2>1. \A p \in LogProc : lturn[p].step # "idle" => lturn[p].id \in LogCall
    BY <1>3, TurnTracesAssumption DEF LogInv, LogTypes, LogCall
  <2>2. Logs!LogAtHand
    <3> SUFFICES ASSUME NEW p \in LogProc, lturn[p].step = "running"
                 PROVE  LET c == lturn[p].id
                        IN /\ lturn[p].log = "group" => group[c].state = "open"
                           /\ lturn[p].log = "loose" =>
                                 \/ loose[c].state = "kept" \/ lturn[p].risk
                                 \/ lclock - loose[c].at > Week
                                 \/ Cardinality(Logs!NotOlder(loose, c, {"kept", "pruned"}))
                                        >= MaxLoose
      BY DEF Logs!LogAtHand, Logs!At, LogProc
    <3>1. lturn[p].log = "group" => group[lturn[p].id].state = "open"
      BY <1>3 DEF LogInv, GroupInv
    <3>2. lturn[p].log = "loose" =>
             loose[lturn[p].id].state = "kept" \/ LooseExcused(p)
      BY <1>3 DEF LogInv, LooseInv
    <3> QED
      BY <3>1, <3>2 DEF LooseExcused, LooseCause, Cause
  <2>3. \A c \in LogCall : group[c].state = "pruned" =>
           \/ lclock - group[c].at > Week
           \/ Cardinality(Logs!NotOlder(group, c, {"done", "pruned"})) >= MaxGroups
    BY <1>3 DEF LogInv, GroupInv, GroupCause, Cause
  <2>4. LET condemned == UNION {lturn[p].judged : p \in Removing}
        IN Cardinality(Logs!Completed \ condemned) <= MaxGroups + Cardinality(LogProc)
    <3> DEFINE condemned == UNION {lturn[p].judged : p \in Removing}
    <3>1. Logs!Completed \ condemned = Spared(Removing)
      BY DEF Spared, Logs!Completed, Logs!Call, LogCall
    <3>2. Fits(Spared(Removing), Removing, Committed)
      BY <1>3 DEF LogInv, RoomInv
    <3>3. Removing \in SUBSET LogProc /\ Committed \in SUBSET LogProc
          /\ Spared(Removing) \in SUBSET LogCall
      BY DEF Removing, Committed, Spared
    <3>4. /\ Cardinality(Removing) \in Nat /\ Cardinality(Committed) \in Nat
          /\ Cardinality(Spared(Removing)) \in Nat /\ Cardinality(LogProc) \in Nat
      BY <3>3, FiniteProcs, FiniteCalls
    <3> HIDE DEF condemned
    <3>5. Cardinality(Spared(Removing)) <= MaxGroups + Cardinality(LogProc)
      BY <3>2, <3>4, TurnTracesAssumption DEF Fits
    <3> QED
      BY <3>1, <3>5 DEF condemned
  <2>5. Logs!RetentionExact
    BY <2>3, <2>4 DEF Logs!RetentionExact, Logs!At, Logs!Call, LogCall, LogProc, Removing
  <2> QED
    BY <2>2, <2>5 DEF LogsKeptRight
<1> QED
  BY <1>1, <1>2, <1>3, PTL DEF MCSpec

-----------------------------------------------------------------------------
(* Streams.                                                                *)

StreamPart == [step : {"start", "delta", "end", "done", "error"}, block : Nat]

Occurrences(parts, p) == {i \in DOMAIN parts : parts[i] = p}
Count(parts, p) == Cardinality(Occurrences(parts, p))

\* A part that is appended occurs once more, and nothing else does.
LEMMA CountAppend ==
    ASSUME NEW parts \in Seq(StreamPart), NEW p \in StreamPart, NEW q
    PROVE  /\ Count(parts, q) \in Nat
           /\ Count(Append(parts, p), q) = Count(parts, q) + IF p = q THEN 1 ELSE 0
<1> DEFINE n == Len(parts)
<1>1. n \in Nat /\ DOMAIN parts = 1 .. n /\ DOMAIN Append(parts, p) = 1 .. n + 1
      /\ Append(parts, p)[n + 1] = p /\ \A i \in 1 .. n : Append(parts, p)[i] = parts[i]
  OBVIOUS
<1>2. Occurrences(parts, q) \in SUBSET (1 .. n)
  BY <1>1 DEF Occurrences
<1> DEFINE before == Occurrences(parts, q)
           after == Occurrences(Append(parts, p), q)
<1>3. after = IF p = q THEN before \cup {n + 1} ELSE before
  BY <1>1 DEF Occurrences
<1>4. n + 1 \notin before
  BY <1>1, <1>2
<1> HIDE DEF n, before, after
<1>5. IsFiniteSet(before) /\ Cardinality(before) \in Nat
  <2>1. IsFiniteSet(1 .. n)
    BY <1>1, FS_Interval
  <2> QED
    BY <1>2, <2>1, FS_Subset, FS_CardinalityType DEF before
<1>6. Cardinality(before \cup {n + 1}) = Cardinality(before) + 1
  BY <1>4, <1>5, FS_AddElement
<1>7. Cardinality(after) = Cardinality(before) + IF p = q THEN 1 ELSE 0
  BY <1>3, <1>5, <1>6
<1> QED
  BY <1>5, <1>7 DEF Count, before, after

Started(b) == [step |-> "start", block |-> b]
Stopped(b) == [step |-> "end", block |-> b]

\* The parts so far nest, and these blocks are open.
Nested(parts, open) ==
    /\ parts \in Seq(StreamPart) /\ Len(parts) > 0 /\ Stream!WellFormed(parts)
    /\ open \in SUBSET (Nat \ {0})
    /\ \A b \in Nat \ {0} :
          Count(parts, Started(b)) = Count(parts, Stopped(b)) + IF b \in open THEN 1 ELSE 0

Unfinished(parts) == \A i \in DOMAIN parts : parts[i].step \notin {"done", "error"}

\* A host sees exactly these blocks open.
LEMMA OpenOfNested ==
    ASSUME NEW parts, NEW open, Nested(parts, open)
    PROVE  Stream!OpenBlocks(parts) = open
<1>a. parts \in Seq(StreamPart) /\ open \in SUBSET (Nat \ {0})
  BY DEF Nested
<1>b. \A q : Count(parts, q) \in Nat
  <2>1. Started(1) \in StreamPart
    BY DEF Started, StreamPart
  <2> QED
    BY <1>a, <2>1, CountAppend
<1> DEFINE seen == {parts[i].block : i \in DOMAIN parts} \ {0}
<1>c. seen \in SUBSET (Nat \ {0})
  <2>1. \A i \in DOMAIN parts : parts[i] \in StreamPart
    BY <1>a
  <2>2. \A i \in DOMAIN parts : parts[i].block \in Nat
    BY <2>1 DEF StreamPart
  <2> QED
    BY <2>2
<1>1. Stream!OpenBlocks(parts) = {b \in seen : Count(parts, Started(b)) > Count(parts, Stopped(b))}
  <2>1. \A S : Stream!Cardinality(S) = Cardinality(S)
    BY DEF Stream!Cardinality, Cardinality
  <2> QED
    BY <2>1 DEF Stream!OpenBlocks, Stream!Part, Count, Occurrences, Started, Stopped
<1>2. ASSUME NEW b \in open
      PROVE  b \in seen
  <2>1. Count(parts, Started(b)) > 0
    <3>1. Count(parts, Started(b)) = Count(parts, Stopped(b)) + 1 /\ Count(parts, Stopped(b)) \in Nat
      BY <1>a, <1>b, <1>2 DEF Nested
    <3> HIDE DEF Count
    <3> QED
      BY <3>1
  <2>2. Occurrences(parts, Started(b)) # {}
    <3>1. Cardinality({}) = 0
      BY FS_EmptySet
    <3> QED
      BY <2>1, <3>1 DEF Count
  <2>3. PICK i \in DOMAIN parts : parts[i] = Started(b)
    BY <2>2 DEF Occurrences
  <2> QED
    BY <1>a, <1>2, <2>3 DEF Started
<1>3. \A b \in Nat \ {0} : b \in open <=> Count(parts, Started(b)) > Count(parts, Stopped(b))
  BY <1>a, <1>b DEF Nested
<1> HIDE DEF seen
<1> QED
  BY <1>a, <1>c, <1>1, <1>2, <1>3

\* The part that may come next while a stream goes on, and what is open after it.
Follows(step, block, open, next) ==
    /\ block \in Nat \ {0}
    /\ \/ step = "start" /\ open = {} /\ next = {block}
       \/ step = "delta" /\ open = {block} /\ next = open
       \/ step = "end" /\ open = {block} /\ next = {}

\* Only its terminal may be the last.
IsTerminal(step, block) == step \in {"done", "error"} /\ block = 0

\* Parts that nest still do when such a part is appended.
LEMMA NestAppend ==
    ASSUME NEW parts, NEW open, Nested(parts, open), Unfinished(parts),
           NEW p \in StreamPart, NEW next,
           Follows(p.step, p.block, open, next) \/ (IsTerminal(p.step, p.block) /\ next = open)
    PROVE  /\ Nested(Append(parts, p), next)
           /\ Follows(p.step, p.block, open, next) => Unfinished(Append(parts, p))
<1> DEFINE n == Len(parts)
           more == Append(parts, p)
<1>a. /\ parts \in Seq(StreamPart) /\ n \in Nat /\ n > 0 /\ Stream!WellFormed(parts)
      /\ open \in SUBSET (Nat \ {0})
  BY DEF Nested
<1>b. /\ more \in Seq(StreamPart) /\ Len(more) = n + 1 /\ DOMAIN parts = 1 .. n
      /\ DOMAIN more = 1 .. n + 1
      /\ more[n + 1] = p /\ \A i \in 1 .. n : more[i] = parts[i]
  BY <1>a
<1>c. next \in SUBSET (Nat \ {0})
  BY <1>a DEF Follows, IsTerminal, StreamPart
<1>1. \A b \in Nat \ {0} :
          Count(more, Started(b)) = Count(more, Stopped(b)) + IF b \in next THEN 1 ELSE 0
  <2> SUFFICES ASSUME NEW b \in Nat \ {0}
               PROVE  Count(more, Started(b)) =
                          Count(more, Stopped(b)) + IF b \in next THEN 1 ELSE 0
    OBVIOUS
  <2>1. /\ Count(parts, Started(b)) \in Nat /\ Count(parts, Stopped(b)) \in Nat
        /\ Count(parts, Started(b)) = Count(parts, Stopped(b)) + IF b \in open THEN 1 ELSE 0
        /\ Count(more, Started(b)) = Count(parts, Started(b)) + IF p = Started(b) THEN 1 ELSE 0
        /\ Count(more, Stopped(b)) = Count(parts, Stopped(b)) + IF p = Stopped(b) THEN 1 ELSE 0
    BY <1>a, CountAppend DEF Nested
  <2>2. /\ p = Started(b) <=> p.step = "start" /\ p.block = b
        /\ p = Stopped(b) <=> p.step = "end" /\ p.block = b
    BY DEF Started, Stopped, StreamPart
  <2> HIDE DEF more
  <2> QED
    BY <1>c, <2>1, <2>2 DEF Follows, IsTerminal
<1>2. Stream!WellFormed(more)
  <2> SUFFICES ASSUME NEW m \in 1 .. n + 1
               PROVE  LET o == Stream!OpenBlocks(SubSeq(more, 1, m - 1))
                          q == more[m]
                      IN /\ m = 1 <=> q = [step |-> "start", block |-> 0]
                         /\ q.step \in {"done", "error"} => q.block = 0 /\ m = n + 1
                         /\ q.step = "start" => o = {}
                         /\ q.step \in {"delta", "end"} => o = {q.block}
    BY <1>b DEF Stream!WellFormed, Stream!Part, Stream!Terminal
  <2>1. CASE m \in 1 .. n
    <3>1. SubSeq(more, 1, m - 1) = SubSeq(parts, 1, m - 1)
      <4>1. m - 1 \in 0 .. n
        BY <1>a, <2>1
      <4> DEFINE k == m - 1
      <4> HIDE DEF k, more
      <4>2. k \in Nat /\ k <= n /\ k <= n + 1
        BY <4>1, <1>a DEF k
      <4>3. \A i \in 1 .. k : more[i] = parts[i] /\ i \in 1 .. n /\ i \in 1 .. n + 1
        BY <1>a, <1>b, <4>2
      <4>4. SubSeq(more, 1, k) = [i \in 1 .. k |-> more[i]]
        BY <1>b, <4>2
      <4>5. SubSeq(parts, 1, k) = [i \in 1 .. k |-> parts[i]]
        BY <1>a, <4>2
      <4> QED
        BY <4>3, <4>4, <4>5 DEF k
    <3>2. more[m] = parts[m] /\ parts[m].step \notin {"done", "error"} /\ m \in DOMAIN parts
      BY <1>b, <2>1 DEF Unfinished
    <3> HIDE DEF more
    <3> QED
      BY <1>a, <3>1, <3>2 DEF Stream!WellFormed, Stream!Part, Stream!Terminal
  <2>2. CASE m = n + 1
    <3>1. SubSeq(more, 1, m - 1) = parts
      <4>1. SubSeq(more, 1, n) = [i \in 1 .. n |-> more[i]]
        BY <1>a, <1>b
      <4>2. parts = [i \in 1 .. n |-> parts[i]]
        BY <1>a
      <4> QED
        BY <1>a, <1>b, <2>2, <4>1, <4>2
    <3>2. Stream!OpenBlocks(parts) = open
      BY OpenOfNested
    <3>3. more[m] = p /\ m # 1 /\ (p.step = "start" => p.block # 0)
      BY <1>a, <1>b, <2>2 DEF Follows, IsTerminal
    <3> DEFINE o == Stream!OpenBlocks(SubSeq(more, 1, m - 1))
               q == more[m]
    <3>4. o = open /\ q = p
      BY <3>1, <3>2, <3>3
    <3> HIDE DEF more, n, o, q
    <3>5. /\ m = 1 <=> q = [step |-> "start", block |-> 0]
          /\ q.step \in {"done", "error"} => q.block = 0 /\ m = n + 1
          /\ q.step = "start" => o = {}
          /\ q.step \in {"delta", "end"} => o = {q.block}
      BY <2>2, <3>3, <3>4 DEF Follows, IsTerminal
    <3> QED
      BY <3>5 DEF o, q
  <2> QED
    BY <1>a, <2>1, <2>2
<1>3. Nested(more, next)
  BY <1>a, <1>b, <1>c, <1>1, <1>2 DEF Nested
<1>4. Follows(p.step, p.block, open, next) => Unfinished(more)
  <2> HIDE DEF more
  <2> QED
    BY <1>a, <1>b DEF Unfinished, Follows
<1> QED
  BY <1>3, <1>4

\* A stream that has just started nests.
LEMMA NestStarted == Nested(<<Started(0)>>, {}) /\ Unfinished(<<Started(0)>>)
<1> DEFINE parts == <<Started(0)>>
<1>1. parts \in Seq(StreamPart) /\ Len(parts) = 1 /\ DOMAIN parts = {1} /\ parts[1] = Started(0)
  BY DEF Started, StreamPart
<1>2. Stream!WellFormed(parts)
  <2>1. SubSeq(parts, 1, 0) = <<>>
    OBVIOUS
  <2>2. Stream!OpenBlocks(<<>>) = {}
    BY DEF Stream!OpenBlocks
  <2>3. \A n \in DOMAIN parts : n = 1 /\ n - 1 = 0
    BY <1>1
  <2> HIDE DEF parts
  <2>4. \A n \in DOMAIN parts : Stream!OpenBlocks(SubSeq(parts, 1, n - 1)) = {}
    BY <2>1, <2>2, <2>3
  <2>5. parts[1].step = "start"
    BY <1>1 DEF Started
  <2>6. \A n \in DOMAIN parts : n = 1 /\ parts[n] = [step |-> "start", block |-> 0]
                               /\ parts[n].step = "start"
    BY <1>1, <2>5, <2>3 DEF Started
  <2> QED
    BY <2>4, <2>6 DEF Stream!WellFormed, Stream!Part, Stream!Terminal
<1>3. \A b \in Nat \ {0} : Count(parts, Started(b)) = 0 /\ Count(parts, Stopped(b)) = 0
  <2>1. \A b \in Nat \ {0} : Occurrences(parts, Started(b)) = {} /\ Occurrences(parts, Stopped(b)) = {}
    <3> HIDE DEF parts
    <3> QED
      BY <1>1 DEF Occurrences, Started, Stopped
  <2> QED
    BY <2>1, FS_EmptySet DEF Count
<1>4. Unfinished(parts)
  <2> HIDE DEF parts
  <2> QED
    BY <1>1 DEF Unfinished, Started
<1> HIDE DEF parts
<1> QED
  BY <1>1, <1>2, <1>3, <1>4 DEF Nested, parts

\* A stream of opencode with some text, and one whose parts nest so far and that
\* has thrown nothing at its reader.
OcStream(text) ==
    [parts : Seq(StreamPart), reasoningOpen : BOOLEAN, closed : BOOLEAN,
     threw : BOOLEAN, text : text]
IsOcStream(s) == \E text : s \in OcStream(text)

OcLive(s, open) ==
    /\ IsOcStream(s) /\ ~s.closed /\ ~s.threw
    /\ Nested(s.parts, open) /\ Unfinished(s.parts)

\* A stream that has ended: with a terminal, unless it was thrown at its reader.
OcDone(s) ==
    /\ IsOcStream(s) /\ s.closed
    /\ \E open : /\ Nested(s.parts, open)
                 /\ s.parts[Len(s.parts)].step \in {"done", "error"} => open = {}

\* One more part on a live stream.
LEMMA OcEnqueue ==
    ASSUME NEW s, NEW open, OcLive(s, open), NEW step, NEW block, NEW next,
           \/ Follows(step, block, open, next)
           \/ IsTerminal(step, block) /\ next = open,
           NEW n, n = Stream!Oc!enqueue(s, step, block)
    PROVE  /\ Follows(step, block, open, next) => OcLive(n, next)
           /\ IsOcStream(n) /\ Nested(n.parts, next)
           /\ n.reasoningOpen = s.reasoningOpen /\ ~n.closed /\ ~n.threw
<1> DEFINE p == [step |-> step, block |-> block]
           parts == Append(s.parts, p)
<1>1. PICK text : s \in OcStream(text)
  BY DEF OcLive, IsOcStream
<1>2. p \in StreamPart /\ p.step = step /\ p.block = block
  BY DEF StreamPart, Follows, IsTerminal
<1>3. n = [s EXCEPT !.parts = parts]
  BY DEF Stream!Oc!enqueue, Stream!Oc!Part, OcLive
<1> HIDE DEF p
<1>5. Nested(parts, next) /\ (Follows(step, block, open, next) => Unfinished(parts))
  BY <1>2, NestAppend DEF OcLive
<1> HIDE DEF parts
<1>6. parts \in Seq(StreamPart)
  BY <1>5 DEF Nested
<1>7. /\ n \in OcStream(text) /\ n.parts = parts /\ n.reasoningOpen = s.reasoningOpen
      /\ n.closed = s.closed /\ n.threw = s.threw
  BY <1>1, <1>3, <1>6 DEF OcStream
<1>8. s.closed = FALSE /\ s.threw = FALSE
  BY <1>1 DEF OcLive, OcStream
<1> QED
  BY <1>5, <1>7, <1>8 DEF OcLive, IsOcStream

\* What is open on a live stream between two calls.
OcOpen(s) == IF s.reasoningOpen THEN {1} ELSE {}

\* A stream that has just started is live.
LEMMA OcFresh == OcLive(Stream!Oc!Started, {}) /\ OcOpen(Stream!Oc!Started) = {}
<1> DEFINE parts == <<Started(0)>>
<1>1. Stream!Oc!Started = [parts |-> parts, reasoningOpen |-> FALSE, closed |-> FALSE,
                           threw |-> FALSE, text |-> <<>>]
  BY DEF Stream!Oc!Started, Stream!Oc!Part, Started
<1>2. Nested(parts, {}) /\ Unfinished(parts)
  BY NestStarted
<1>3. parts \in Seq(StreamPart)
  BY <1>2 DEF Nested
<1> HIDE DEF parts
<1>4. Stream!Oc!Started \in OcStream({<<>>})
  BY <1>1, <1>3 DEF OcStream
<1> QED
  BY <1>1, <1>2, <1>4 DEF OcLive, OcOpen, IsOcStream

\* A line of the status block.
LEMMA OcStatus ==
    ASSUME NEW s, OcLive(s, OcOpen(s)), NEW n, n = Stream!Oc!Status(s)
    PROVE  OcLive(n, OcOpen(n)) /\ n.reasoningOpen
<1> DEFINE o == Stream!Oc!openReasoning(s)
<1>1. OcLive(o, {1}) /\ o.reasoningOpen = TRUE
  <2>1. CASE s.reasoningOpen
    <3>1. s.reasoningOpen = TRUE
      BY <2>1 DEF OcLive, IsOcStream, OcStream
    <3> QED
      BY <2>1, <3>1 DEF Stream!Oc!openReasoning, OcOpen
  <2>2. CASE ~s.reasoningOpen
    <3> DEFINE t == Stream!Oc!enqueue(s, "start", 1)
    <3>1. OcLive(t, {1}) /\ t.closed = FALSE
      <4>1. OcLive(s, {})
        BY <2>2 DEF OcOpen
      <4>2. Follows("start", 1, {}, {1})
        BY DEF Follows
      <4>3. t = Stream!Oc!enqueue(s, "start", 1)
        OBVIOUS
      <4> HIDE DEF t
      <4>4. OcLive(t, {1})
        BY <4>1, <4>2, <4>3, OcEnqueue
      <4>5. t.closed = FALSE
        BY <4>4 DEF OcLive, IsOcStream, OcStream
      <4> QED
        BY <4>4, <4>5
    <3>2. o = [t EXCEPT !.reasoningOpen = ~t.closed]
      BY <2>2 DEF Stream!Oc!openReasoning, Stream!Oc!Reasoning
    <3> HIDE DEF o, t
    <3>3. PICK text : t \in OcStream(text)
      BY <3>1 DEF OcLive, IsOcStream
    <3>4. /\ o \in OcStream(text) /\ o.reasoningOpen = TRUE /\ o.parts = t.parts
          /\ o.closed = t.closed /\ o.threw = t.threw
      BY <3>1, <3>2, <3>3 DEF OcStream
    <3> QED
      BY <3>1, <3>4 DEF OcLive, IsOcStream
  <2> QED
    BY <2>1, <2>2
<1>2. n = Stream!Oc!enqueue(o, "delta", 1)
  BY <1>1 DEF Stream!Oc!Status, Stream!Oc!Reasoning, OcLive
<1> HIDE DEF o
<1>3. Follows("delta", 1, {1}, {1})
  BY DEF Follows
<1>4. OcLive(n, {1}) /\ n.reasoningOpen = TRUE
  BY <1>1, <1>2, <1>3, OcEnqueue
<1> QED
  BY <1>4 DEF OcOpen

\* The status block ends.
LEMMA OcCloseReasoning ==
    ASSUME NEW s, OcLive(s, OcOpen(s)), NEW n, n = Stream!Oc!closeReasoning(s)
    PROVE  OcLive(n, {})
<1>1. CASE s.reasoningOpen
  <2>1. OcLive(s, {1}) /\ n = Stream!Oc!enqueue(s, "end", 1)
    BY <1>1 DEF OcOpen, Stream!Oc!closeReasoning, Stream!Oc!Reasoning
  <2>2. Follows("end", 1, {1}, {})
    BY DEF Follows
  <2> QED
    BY <2>1, <2>2, OcEnqueue, Zenon
<1>2. CASE ~s.reasoningOpen
  BY <1>2 DEF OcOpen, Stream!Oc!closeReasoning
<1> QED
  BY <1>1, <1>2

\* The answer, if there is any.
LEMMA OcEmitAnswer ==
    ASSUME NEW s, OcLive(s, {}), NEW text, NEW n, n = Stream!Oc!emitAnswer(s, text)
    PROVE  OcLive(n, {})
<1>1. CASE text = <<>>
  BY <1>1 DEF Stream!Oc!emitAnswer
<1>2. CASE text # <<>>
  <2> DEFINE a == Stream!Oc!enqueue(s, "start", 2)
             b == [a EXCEPT !.text = text]
             c == Stream!Oc!enqueue(b, "delta", 2)
  <2>1. n = Stream!Oc!enqueue(c, "end", 2)
    BY <1>2 DEF Stream!Oc!emitAnswer, Stream!Oc!Answer
  <2> HIDE DEF c
  <2>2. OcLive(a, {2})
    <3>1. Follows("start", 2, {}, {2})
      BY DEF Follows
    <3> QED
      BY <3>1, OcEnqueue
  <2> HIDE DEF a
  <2>3. OcLive(b, {2})
    <3>1. PICK old : a \in OcStream(old)
      BY <2>2 DEF OcLive, IsOcStream
    <3>2. b \in OcStream({text}) /\ b.parts = a.parts /\ b.closed = a.closed /\ b.threw = a.threw
      BY <3>1 DEF OcStream
    <3> QED
      BY <2>2, <3>2 DEF OcLive, IsOcStream
  <2> HIDE DEF b
  <2>4. OcLive(c, {2})
    <3>1. Follows("delta", 2, {2}, {2})
      BY DEF Follows
    <3> QED
      BY <2>3, <3>1, OcEnqueue DEF c
  <2>5. Follows("end", 2, {2}, {})
    BY DEF Follows
  <2> QED
    BY <2>1, <2>4, <2>5, OcEnqueue
<1> QED
  BY <1>1, <1>2

\* A terminal, and the stream is closed.
LEMMA OcTerminal ==
    ASSUME NEW s, OcLive(s, {}), NEW step \in {"done", "error"},
           NEW n, n = Stream!Oc!controllerClose(Stream!Oc!enqueue(s, step, 0))
    PROVE  OcDone(n) /\ ~n.threw
<1> DEFINE t == Stream!Oc!enqueue(s, step, 0)
<1>1. IsOcStream(t) /\ ~t.threw /\ Nested(t.parts, {})
  <2>1. IsTerminal(step, 0)
    BY DEF IsTerminal
  <2>2. t = Stream!Oc!enqueue(s, step, 0)
    OBVIOUS
  <2> HIDE DEF t
  <2>3. OcLive(s, {})
    OBVIOUS
  <2>4. IsOcStream(t) /\ Nested(t.parts, {})
    BY <2>1, <2>2, <2>3, OcEnqueue
  <2>5. ~t.threw
    BY <2>1, <2>2, <2>3, OcEnqueue
  <2> QED
    BY <2>4, <2>5
<1>2. n = [t EXCEPT !.closed = TRUE]
  BY DEF Stream!Oc!controllerClose
<1> HIDE DEF t
<1>3. PICK text : t \in OcStream(text)
  BY <1>1 DEF IsOcStream
<1>4. n \in OcStream(text) /\ n.closed /\ n.threw = t.threw /\ n.parts = t.parts
  BY <1>2, <1>3 DEF OcStream
<1> QED
  BY <1>1, <1>4 DEF OcDone, IsOcStream

\* However a turn ends, its stream is done.
LEMMA OcEnds ==
    ASSUME NEW s, OcLive(s, OcOpen(s)), NEW n,
           \/ \E response : \E uninspected \in BOOLEAN : n = Stream!Oc!Succeed(s, response, uninspected)
           \/ n = Stream!Oc!Fail(s) \/ n = Stream!Oc!Refused \/ n = Stream!Oc!Abort(s)
    PROVE  OcDone(n) /\ ~n.threw
<1>1. ASSUME NEW response, NEW uninspected \in BOOLEAN,
             n = Stream!Oc!Succeed(s, response, uninspected)
      PROVE  OcDone(n) /\ ~n.threw
  <2> DEFINE told == IF uninspected THEN Stream!Oc!Status(s) ELSE s
             quiet == Stream!Oc!closeReasoning(told)
             said == Stream!Oc!emitAnswer(quiet, Stream!Oc!normalizeResponseText(response))
  <2>1. n = Stream!Oc!controllerClose(Stream!Oc!enqueue(said, "done", 0))
    BY <1>1 DEF Stream!Oc!Succeed
  <2> HIDE DEF said
  <2>2. OcLive(told, OcOpen(told))
    BY OcStatus
  <2> HIDE DEF told
  <2>3. OcLive(quiet, {})
    BY <2>2, OcCloseReasoning
  <2> HIDE DEF quiet
  <2>4. OcLive(said, {})
    BY <2>3, OcEmitAnswer DEF said
  <2> QED
    BY <2>1, <2>4, OcTerminal
<1>2. CASE n = Stream!Oc!Fail(s)
  <2> DEFINE quiet == Stream!Oc!closeReasoning(s)
  <2>1. n = Stream!Oc!controllerClose(Stream!Oc!enqueue(quiet, "error", 0))
    BY <1>2 DEF Stream!Oc!Fail
  <2>2. OcLive(quiet, {})
    BY OcCloseReasoning
  <2> HIDE DEF quiet
  <2> QED
    BY <2>1, <2>2, OcTerminal
<1>3. CASE n = Stream!Oc!Refused
  BY <1>3, OcFresh, OcTerminal DEF Stream!Oc!Refused, OcOpen
<1>4. CASE n = Stream!Oc!Abort(s)
  <2>1. n = [s EXCEPT !.closed = TRUE]
    BY <1>4 DEF Stream!Oc!Abort, Stream!Oc!controllerClose
  <2>2. PICK text : s \in OcStream(text)
    BY DEF OcLive, IsOcStream
  <2>3. /\ n \in OcStream(text) /\ n.closed = TRUE /\ n.threw = s.threw /\ n.parts = s.parts
        /\ s.threw = FALSE
    BY <2>1, <2>2 DEF OcStream, OcLive
  <2>4. Nested(n.parts, OcOpen(s)) /\ n.parts[Len(n.parts)].step \notin {"done", "error"}
    <3>1. Nested(n.parts, OcOpen(s)) /\ Unfinished(n.parts)
      BY <2>3 DEF OcLive
    <3>2. Len(n.parts) \in DOMAIN n.parts
      BY <3>1 DEF Nested
    <3> QED
      BY <3>1, <3>2 DEF Unfinished
  <2> QED
    BY <2>3, <2>4 DEF OcDone, IsOcStream
<1> QED
  BY <1>1, <1>2, <1>3, <1>4

\* A line on a stream that is closed throws in the host and adds nothing.
LEMMA OcStatusLate ==
    ASSUME NEW s, OcDone(s), NEW n, n = Stream!Oc!Status(s)
    PROVE  OcDone(n)
<1> DEFINE thrown(r) == [r EXCEPT !.threw = TRUE]
<1>1. PICK text : s \in OcStream(text)
  BY DEF OcDone, IsOcStream
<1>2. s.closed = TRUE
  BY <1>1 DEF OcDone, OcStream
<1>3. \A r \in OcStream(text) : /\ thrown(r) \in OcStream(text) /\ thrown(r).closed = r.closed
                               /\ thrown(r).parts = r.parts /\ thrown(r).threw = TRUE
                               /\ thrown(r).reasoningOpen = r.reasoningOpen
  BY DEF OcStream
<1>4. \A r, step, block : r.closed = TRUE => Stream!Oc!enqueue(r, step, block) = thrown(r)
  BY DEF Stream!Oc!enqueue
<1> HIDE DEF thrown
<1>5. CASE s.reasoningOpen
  <2>1. Stream!Oc!openReasoning(s) = s
    BY <1>5 DEF Stream!Oc!openReasoning
  <2>2. n = s \/ n = thrown(s)
    BY <1>2, <1>4, <2>1 DEF Stream!Oc!Status
  <2> QED
    BY <1>1, <1>3, <2>2 DEF OcDone, IsOcStream
<1>6. CASE ~s.reasoningOpen
  <2> DEFINE t == thrown(s)
             o == [t EXCEPT !.reasoningOpen = ~t.closed]
  <2>1. t \in OcStream(text) /\ t.closed = TRUE /\ t.threw = TRUE /\ t.parts = s.parts
    BY <1>1, <1>2, <1>3
  <2>2. Stream!Oc!openReasoning(s) = o
    BY <1>2, <1>4, <1>6 DEF Stream!Oc!openReasoning
  <2> HIDE DEF t
  <2>3. o \in OcStream(text) /\ o.closed = TRUE /\ o.threw = TRUE /\ o.parts = s.parts
    BY <2>1 DEF OcStream
  <2> HIDE DEF o
  <2>4. n = o
    BY <2>2, <2>3 DEF Stream!Oc!Status
  <2> QED
    BY <2>3, <2>4 DEF OcDone, IsOcStream
<1> QED
  BY <1>5, <1>6

\* A message of pi with some texts.
PiBlocks(texts) == [type : {"text", "thinking"}, text : texts]
PiMessages(texts, said) ==
    [content : Seq(PiBlocks(texts)), thinkingIdx : Nat, textIdx : Nat, attemptBase : Nat,
     attemptText : said, stopReason : {"pending", "stop", "aborted", "error"},
     ended : BOOLEAN, events : Seq(StreamPart)]
IsPiMessage(m) == \E texts, said : m \in PiMessages(texts, said)

\* At most one block is open, of the type it is taken for; an open text belongs to the
\* attempt that runs.
PiShape(m) ==
    /\ IsPiMessage(m)
    /\ m.attemptBase <= Len(m.content)
    /\ m.thinkingIdx = 0 \/ m.textIdx = 0
    /\ m.thinkingIdx # 0 =>
          m.thinkingIdx <= Len(m.content) /\ m.content[m.thinkingIdx].type = "thinking"
    /\ m.textIdx # 0 =>
          /\ m.attemptBase < m.textIdx /\ m.textIdx <= Len(m.content)
          /\ m.content[m.textIdx].type = "text"

PiOpen(m) == {m.thinkingIdx, m.textIdx} \ {0}

\* And the host sees the same blocks open; or, when all is said, thinking at most.
PiSound(m) ==
    /\ PiShape(m)
    /\ ~m.ended => Nested(m.events, PiOpen(m)) /\ Unfinished(m.events)
    /\ m.ended => \E open :
          /\ Nested(m.events, open)
          /\ \A b \in open : b <= Len(m.content) /\ m.content[b].type = "thinking"

\* Blocks keep their types, and those of the first attempt stay as they are.
PiKeeps(m, n) ==
    /\ Len(m.content) <= Len(n.content)
    /\ n.attemptBase = m.attemptBase
    /\ n.ended <=> m.ended
    /\ \A i \in 1 .. Len(m.content) : n.content[i].type = m.content[i].type
    /\ \A i \in 1 .. m.attemptBase : n.content[i] = m.content[i]

\* What is so kept over two changes is kept over both.
LEMMA PiKeepsOn ==
    ASSUME NEW l, NEW m, NEW n, PiShape(l), PiShape(m), PiShape(n), PiKeeps(l, m), PiKeeps(m, n)
    PROVE  PiKeeps(l, n)
<1>1. /\ Len(l.content) \in Nat /\ Len(m.content) \in Nat /\ Len(n.content) \in Nat
      /\ l.attemptBase \in Nat /\ m.attemptBase \in Nat
  BY DEF PiShape, IsPiMessage, PiMessages
<1> QED
  BY <1>1 DEF PiKeeps

\* A change that opens and closes nothing.
LEMMA PiQuiet ==
    ASSUME NEW m, PiSound(m), NEW v, PiShape(v), PiKeeps(m, v),
           v.events = m.events, PiOpen(v) = PiOpen(m)
    PROVE  PiSound(v)
<1>1. ASSUME m.ended
      PROVE  \E open : Nested(m.events, open) /\ \A b \in open :
                 b <= Len(v.content) /\ v.content[b].type = "thinking"
  <2>1. PICK open : Nested(m.events, open) /\ \A b \in open :
                        b <= Len(m.content) /\ m.content[b].type = "thinking"
    BY <1>1 DEF PiSound
  <2>2. open \in SUBSET (Nat \ {0})
    BY <2>1 DEF Nested
  <2>3. Len(m.content) \in Nat /\ Len(v.content) \in Nat
    BY DEF PiSound, PiShape, IsPiMessage, PiMessages
  <2>4. \A b \in open : b \in 1 .. Len(m.content) /\ b <= Len(v.content)
    BY <2>1, <2>2, <2>3 DEF PiKeeps
  <2> QED
    BY <2>1, <2>4 DEF PiKeeps
<1> QED
  BY <1>1 DEF PiSound, PiKeeps

\* A change that the host is told of.
LEMMA PiPush ==
    ASSUME NEW m, PiSound(m), NEW v, PiShape(v), PiKeeps(m, v), v.events = m.events,
           NEW step, NEW block, Follows(step, block, PiOpen(m), PiOpen(v)),
           NEW n, n = Stream!Pi!push(v, step, block)
    PROVE  /\ PiSound(n) /\ PiKeeps(m, n)
           /\ n.content = v.content /\ n.thinkingIdx = v.thinkingIdx /\ n.textIdx = v.textIdx
<1> DEFINE p == [step |-> step, block |-> block]
           events == Append(v.events, p)
<1>1. PICK texts, said : v \in PiMessages(texts, said)
  BY DEF PiShape, IsPiMessage
<1>2. CASE m.ended
  <2>1. n = v
    BY <1>2 DEF Stream!Pi!push, PiKeeps
  <2>2. PICK open : Nested(m.events, open) /\ \A b \in open :
                        b <= Len(m.content) /\ m.content[b].type = "thinking"
    BY <1>2 DEF PiSound
  <2>3. open \in SUBSET (Nat \ {0})
    BY <2>2 DEF Nested
  <2>4. Len(m.content) \in Nat /\ Len(v.content) \in Nat
    BY DEF PiSound, PiShape, IsPiMessage, PiMessages
  <2>5. \A b \in open : b \in 1 .. Len(m.content) /\ b <= Len(v.content)
    BY <2>2, <2>3, <2>4 DEF PiKeeps
  <2> QED
    BY <1>2, <2>1, <2>2, <2>5 DEF PiSound, PiKeeps
<1>3. CASE ~m.ended
  <2>1. n = [v EXCEPT !.events = events]
    BY <1>3 DEF Stream!Pi!push, Stream!Pi!Part, PiKeeps
  <2>2. p \in StreamPart /\ p.step = step /\ p.block = block
    BY DEF StreamPart, Follows
  <2>3. Nested(v.events, PiOpen(m)) /\ Unfinished(v.events)
    BY <1>3 DEF PiSound
  <2> HIDE DEF p
  <2>4. Follows(p.step, p.block, PiOpen(m), PiOpen(v))
    BY <2>2
  <2>5. Nested(events, PiOpen(v)) /\ Unfinished(events)
    BY <2>2, <2>3, <2>4, NestAppend
  <2> HIDE DEF events
  <2>6. events \in Seq(StreamPart)
    BY <2>5 DEF Nested
  <2>7. /\ n \in PiMessages(texts, said) /\ n.events = events /\ n.content = v.content
        /\ n.thinkingIdx = v.thinkingIdx /\ n.textIdx = v.textIdx
        /\ n.attemptBase = v.attemptBase /\ n.ended = v.ended
    BY <1>1, <2>1, <2>6 DEF PiMessages
  <2>8. PiShape(n) /\ PiOpen(n) = PiOpen(v)
    BY <2>7 DEF PiShape, PiOpen, IsPiMessage
  <2>9. ~n.ended
    BY <1>3, <2>7 DEF PiKeeps
  <2> QED
    BY <2>5, <2>7, <2>8, <2>9 DEF PiSound, PiKeeps
<1> QED
  BY <1>2, <1>3

\* The indices of a message, and what is open.
LEMMA PiIndices ==
    ASSUME NEW m, PiShape(m)
    PROVE  /\ Len(m.content) \in Nat /\ m.attemptBase \in Nat
           /\ m.thinkingIdx \in Nat /\ m.textIdx \in Nat
           /\ m.thinkingIdx # 0 => PiOpen(m) = {m.thinkingIdx} /\ m.textIdx = 0
           /\ m.textIdx # 0 => PiOpen(m) = {m.textIdx} /\ m.thinkingIdx = 0
           /\ m.thinkingIdx = 0 /\ m.textIdx = 0 => PiOpen(m) = {}
BY DEF PiShape, IsPiMessage, PiMessages, PiOpen

\* The block of narration ends ...
LEMMA PiCloseThinking ==
    ASSUME NEW m, PiSound(m), NEW n, n = Stream!Pi!closeThinking(m)
    PROVE  PiSound(n) /\ PiKeeps(m, n) /\ n.thinkingIdx = 0 /\ n.textIdx = m.textIdx
<1> DEFINE v == [m EXCEPT !.thinkingIdx = 0]
<1>a. PiShape(m)
  BY DEF PiSound
<1>1. CASE m.thinkingIdx = 0
  BY <1>1, <1>a, PiIndices DEF Stream!Pi!closeThinking, PiKeeps
<1>2. CASE m.thinkingIdx # 0
  <2>1. n = Stream!Pi!push(v, "end", m.thinkingIdx)
    BY <1>2 DEF Stream!Pi!closeThinking
  <2>2. PICK texts, said : m \in PiMessages(texts, said)
    BY <1>a DEF PiShape, IsPiMessage
  <2>3. /\ v \in PiMessages(texts, said) /\ v.events = m.events /\ v.content = m.content
        /\ v.thinkingIdx = 0 /\ v.textIdx = m.textIdx
        /\ v.attemptBase = m.attemptBase /\ v.ended = m.ended
    BY <2>2 DEF PiMessages
  <2> HIDE DEF v
  <2>4. PiShape(v) /\ PiKeeps(m, v) /\ v.textIdx = 0
    BY <1>a, <1>2, <2>3 DEF PiShape, PiKeeps, IsPiMessage, PiMessages
  <2>5. Follows("end", m.thinkingIdx, PiOpen(m), PiOpen(v))
    BY <1>a, <1>2, <2>3, <2>4, PiIndices DEF Follows
  <2> QED
    BY <2>1, <2>3, <2>4, <2>5, PiPush
<1> QED
  BY <1>1, <1>2

\* ... and so does a block of text.
LEMMA PiCloseText ==
    ASSUME NEW m, PiSound(m), NEW n, n = Stream!Pi!closeText(m)
    PROVE  PiSound(n) /\ PiKeeps(m, n) /\ n.textIdx = 0 /\ n.thinkingIdx = m.thinkingIdx
<1> DEFINE v == [m EXCEPT !.textIdx = 0]
<1>a. PiShape(m)
  BY DEF PiSound
<1>1. CASE m.textIdx = 0
  BY <1>1, <1>a, PiIndices DEF Stream!Pi!closeText, PiKeeps
<1>2. CASE m.textIdx # 0
  <2>1. n = Stream!Pi!push(v, "end", m.textIdx)
    BY <1>2 DEF Stream!Pi!closeText
  <2>2. PICK texts, said : m \in PiMessages(texts, said)
    BY <1>a DEF PiShape, IsPiMessage
  <2>3. /\ v \in PiMessages(texts, said) /\ v.events = m.events /\ v.content = m.content
        /\ v.textIdx = 0 /\ v.thinkingIdx = m.thinkingIdx
        /\ v.attemptBase = m.attemptBase /\ v.ended = m.ended
    BY <2>2 DEF PiMessages
  <2> HIDE DEF v
  <2>4. PiShape(v) /\ PiKeeps(m, v) /\ v.thinkingIdx = 0
    BY <1>a, <1>2, <2>3 DEF PiShape, PiKeeps, IsPiMessage, PiMessages
  <2>5. Follows("end", m.textIdx, PiOpen(m), PiOpen(v))
    BY <1>a, <1>2, <2>3, <2>4, PiIndices DEF Follows
  <2> QED
    BY <2>1, <2>3, <2>4, <2>5, PiPush
<1> QED
  BY <1>1, <1>2

\* A block starts where none is open.
LEMMA PiStartBlock ==
    ASSUME NEW m, PiSound(m), m.thinkingIdx = 0, m.textIdx = 0, NEW n,
           n = Stream!Pi!OpenThinking(m) \/ n = Stream!Pi!OpenText(m)
    PROVE  /\ PiSound(n) /\ PiKeeps(m, n)
           /\ n = Stream!Pi!OpenThinking(m) => n.thinkingIdx # 0
           /\ n = Stream!Pi!OpenText(m) => n.textIdx # 0
<1> DEFINE k == Len(m.content) + 1
           block(type) == [type |-> type, text |-> <<>>]
           content(type) == Append(m.content, block(type))
           thinking == [m EXCEPT !.content = content("thinking"), !.thinkingIdx = k]
           text == [m EXCEPT !.content = content("text"), !.textIdx = k]
<1>a. PiShape(m)
  BY DEF PiSound
<1>1. PICK texts, said : m \in PiMessages(texts, said)
  BY <1>a DEF PiShape, IsPiMessage
<1> DEFINE more == texts \cup {<<>>}
<1>b. k \in Nat \ {0} /\ m.attemptBase < k /\ Len(m.content) < k
  BY <1>a, PiIndices DEF PiShape
<1>2. ASSUME NEW type \in {"text", "thinking"}
      PROVE  /\ content(type) \in Seq(PiBlocks(more)) /\ Len(content(type)) = k
             /\ content(type)[k].type = type
             /\ \A i \in 1 .. Len(m.content) : content(type)[i] = m.content[i]
  <2>1. block(type) \in PiBlocks(more) /\ block(type).type = type
    BY DEF PiBlocks
  <2> HIDE DEF block
  <2>2. m.content \in Seq(PiBlocks(texts))
    BY <1>1 DEF PiMessages
  <2>3. PiBlocks(texts) \subseteq PiBlocks(more)
    BY DEF PiBlocks
  <2>4. m.content \in Seq(PiBlocks(more))
    BY <2>2, <2>3, SeqMonotonic
  <2> QED
    BY <2>1, <2>4
<1> HIDE DEF content, block
<1>3. ASSUME n = Stream!Pi!OpenThinking(m)
      PROVE  PiSound(n) /\ PiKeeps(m, n) /\ n.thinkingIdx # 0
  <2>1. n = Stream!Pi!push(thinking, "start", k)
    BY <1>3 DEF Stream!Pi!OpenThinking, Stream!Pi!Block, content, block
  <2>2. m \in PiMessages(more, said)
    <3>1. PiBlocks(texts) \subseteq PiBlocks(more)
      BY DEF PiBlocks
    <3>2. m.content \in Seq(PiBlocks(more))
      BY <1>1, <3>1, SeqMonotonic DEF PiMessages
    <3> HIDE DEF more
    <3> QED
      BY <1>1, <3>2 DEF PiMessages
  <2> HIDE DEF more, k
  <2>3. /\ thinking \in PiMessages(more, said) /\ thinking.events = m.events
        /\ thinking.content = content("thinking") /\ thinking.thinkingIdx = k
        /\ thinking.textIdx = m.textIdx /\ thinking.attemptBase = m.attemptBase
        /\ thinking.ended = m.ended
    BY <1>b, <1>2, <2>2 DEF PiMessages
  <2> HIDE DEF thinking
  <2>4. Len(m.content) \in Nat /\ m.attemptBase \in Nat /\ m.attemptBase <= Len(m.content)
    BY <1>a, PiIndices DEF PiShape
  <2>5. PiShape(thinking) /\ PiKeeps(m, thinking)
    BY <1>b, <1>2, <2>3, <2>4 DEF PiShape, PiKeeps, IsPiMessage
  <2>6. Follows("start", k, PiOpen(m), PiOpen(thinking))
    BY <1>a, <1>b, <2>3, <2>5, PiIndices DEF Follows
  <2> QED
    BY <1>b, <2>1, <2>3, <2>5, <2>6, PiPush
<1>4. ASSUME n = Stream!Pi!OpenText(m)
      PROVE  PiSound(n) /\ PiKeeps(m, n) /\ n.textIdx # 0
  <2>1. n = Stream!Pi!push(text, "start", k)
    BY <1>4 DEF Stream!Pi!OpenText, Stream!Pi!Block, content, block
  <2>2. m \in PiMessages(more, said)
    <3>1. PiBlocks(texts) \subseteq PiBlocks(more)
      BY DEF PiBlocks
    <3>2. m.content \in Seq(PiBlocks(more))
      BY <1>1, <3>1, SeqMonotonic DEF PiMessages
    <3> HIDE DEF more
    <3> QED
      BY <1>1, <3>2 DEF PiMessages
  <2> HIDE DEF more, k
  <2>3. /\ text \in PiMessages(more, said) /\ text.events = m.events
        /\ text.content = content("text") /\ text.textIdx = k
        /\ text.thinkingIdx = m.thinkingIdx /\ text.attemptBase = m.attemptBase
        /\ text.ended = m.ended
    BY <1>b, <1>2, <2>2 DEF PiMessages
  <2> HIDE DEF text
  <2>4. Len(m.content) \in Nat /\ m.attemptBase \in Nat /\ m.attemptBase <= Len(m.content)
    BY <1>a, PiIndices DEF PiShape
  <2>5. PiShape(text) /\ PiKeeps(m, text)
    BY <1>b, <1>2, <2>3, <2>4 DEF PiShape, PiKeeps, IsPiMessage
  <2>6. Follows("start", k, PiOpen(m), PiOpen(text))
    BY <1>a, <1>b, <2>3, <2>5, PiIndices DEF Follows
  <2> QED
    BY <1>b, <2>1, <2>3, <2>5, <2>6, PiPush
<1> QED
  BY <1>3, <1>4

\* Narration goes to a block of its own.
LEMMA PiAppendThinking ==
    ASSUME NEW m, PiSound(m), NEW n, n = Stream!Pi!appendThinking(m)
    PROVE  PiSound(n) /\ PiKeeps(m, n) /\ n.textIdx = 0
<1> DEFINE c == Stream!Pi!closeText(m)
           t == IF m.thinkingIdx = 0 THEN Stream!Pi!OpenThinking(c) ELSE m
<1>a. \A l : PiSound(l) => PiShape(l)
  BY DEF PiSound
<1>1. PiSound(t) /\ PiKeeps(m, t) /\ t.thinkingIdx # 0
  <2>1. CASE m.thinkingIdx = 0
    <3>1. PiSound(c) /\ PiKeeps(m, c) /\ c.textIdx = 0 /\ c.thinkingIdx = 0
      BY <2>1, PiCloseText
    <3>2. t = Stream!Pi!OpenThinking(c)
      BY <2>1
    <3> HIDE DEF c, t
    <3>3. PiSound(t) /\ PiKeeps(c, t) /\ t.thinkingIdx # 0
      BY <3>1, <3>2, PiStartBlock
    <3> QED
      BY <1>a, <3>1, <3>3, PiKeepsOn
  <2>2. CASE m.thinkingIdx # 0
    BY <1>a, <2>2, PiIndices DEF PiKeeps
  <2> QED
    BY <2>1, <2>2
<1>2. n = Stream!Pi!push(t, "delta", t.thinkingIdx)
  BY DEF Stream!Pi!appendThinking
<1> HIDE DEF t
<1>3. Follows("delta", t.thinkingIdx, PiOpen(t), PiOpen(t)) /\ t.textIdx = 0
  BY <1>a, <1>1, PiIndices DEF Follows
<1>4. PiKeeps(t, t)
  BY <1>a, <1>1, PiIndices DEF PiKeeps
<1>5. PiSound(n) /\ PiKeeps(t, n) /\ n.textIdx = t.textIdx
  BY <1>a, <1>1, <1>2, <1>3, <1>4, PiPush
<1> QED
  BY <1>a, <1>1, <1>3, <1>5, PiKeepsOn

\* Text goes to the open block of text, or to a new one.
LEMMA PiAppendText ==
    ASSUME NEW m, PiSound(m), NEW text, NEW n, n = Stream!Pi!appendText(m, text)
    PROVE  PiSound(n) /\ PiKeeps(m, n)
<1> DEFINE c == Stream!Pi!closeThinking(m)
           t == IF c.textIdx = 0 THEN Stream!Pi!OpenText(c) ELSE c
<1>a. \A l : PiSound(l) => PiShape(l)
  BY DEF PiSound
<1>1. PiSound(c) /\ PiKeeps(m, c) /\ c.thinkingIdx = 0
  BY PiCloseThinking
<1> HIDE DEF c
<1>2. PiSound(t) /\ PiKeeps(m, t) /\ t.textIdx # 0
  <2>1. CASE c.textIdx = 0
    <3>1. t = Stream!Pi!OpenText(c)
      BY <2>1
    <3> HIDE DEF t
    <3>2. PiSound(t) /\ PiKeeps(c, t) /\ t.textIdx # 0
      BY <1>1, <2>1, <3>1, PiStartBlock
    <3> QED
      BY <1>a, <1>1, <3>2, PiKeepsOn
  <2>2. CASE c.textIdx # 0
    BY <1>1, <2>2
  <2> QED
    BY <2>1, <2>2
<1> DEFINE k == t.textIdx
           said == t.content[k].text \o text
           v == [t EXCEPT !.content[k].text = said]
<1>3. n = Stream!Pi!push(v, "delta", k)
  BY DEF Stream!Pi!appendText, c
<1> HIDE DEF t
<1>4. PICK texts, heard : t \in PiMessages(texts, heard)
  BY <1>a, <1>2 DEF PiShape, IsPiMessage
<1> DEFINE more == texts \cup {said}
           block == [t.content[k] EXCEPT !.text = said]
           content == [t.content EXCEPT ![k] = block]
<1>b. /\ PiShape(t) /\ k \in 1 .. Len(t.content) /\ Len(t.content) \in Nat
      /\ t.attemptBase \in Nat /\ t.attemptBase < k
  BY <1>a, <1>2, PiIndices DEF PiShape
<1>5. t.content \in Seq(PiBlocks(texts)) /\ t.content[k] \in PiBlocks(texts)
  BY <1>4, <1>b DEF PiMessages
<1>c. v = [t EXCEPT !.content = content]
  BY <1>4, <1>5 DEF PiMessages, PiBlocks
<1>6. block \in PiBlocks(more) /\ block.type = t.content[k].type
  <2> HIDE DEF said
  <2> QED
    BY <1>5 DEF PiBlocks
<1>7. PiBlocks(texts) \subseteq PiBlocks(more)
  BY DEF PiBlocks
<1> HIDE DEF more, block, v, said
<1>8. t.content \in Seq(PiBlocks(more))
  BY <1>5, <1>7, SeqMonotonic
<1>9. /\ content \in Seq(PiBlocks(more)) /\ Len(content) = Len(t.content)
      /\ content[k].type = t.content[k].type
      /\ \A i \in 1 .. Len(t.content) : i # k => content[i] = t.content[i]
  BY <1>6, <1>8, <1>b, ExceptSeq
<1> HIDE DEF content
<1>10. /\ v \in PiMessages(more, heard) /\ v.events = t.events /\ v.content = content
       /\ v.thinkingIdx = t.thinkingIdx /\ v.textIdx = k
       /\ v.attemptBase = t.attemptBase /\ v.ended = t.ended
  BY <1>4, <1>8, <1>9, <1>c DEF PiMessages
<1>11. PiShape(v) /\ PiKeeps(t, v) /\ PiOpen(v) = PiOpen(t)
  <2>1. t.thinkingIdx = 0
    BY <1>2, <1>b DEF PiShape
  <2>2. PiShape(v)
    BY <1>2, <1>9, <1>10, <1>b, <2>1 DEF PiShape, IsPiMessage
  <2>3. PiKeeps(t, v)
    BY <1>9, <1>10, <1>b DEF PiKeeps
  <2> QED
    BY <1>10, <2>2, <2>3 DEF PiOpen
<1>12. Follows("delta", k, PiOpen(t), PiOpen(v))
  BY <1>2, <1>11, <1>b, PiIndices DEF Follows
<1>13. PiSound(n) /\ PiKeeps(t, n)
  BY <1>2, <1>3, <1>10, <1>11, <1>12, PiPush
<1> QED
  BY <1>a, <1>2, <1>13, PiKeepsOn

\* A step of agy is shown, and an attempt begins anew.
LEMMA PiShows ==
    ASSUME NEW m, PiSound(m), NEW n,
           (\E delta : n = Stream!Pi!onStep(m, delta)) \/ n = Stream!Pi!onDiverged(m)
    PROVE  PiSound(n) /\ PiKeeps(m, n)
<1>1. ASSUME NEW delta, n = Stream!Pi!onStep(m, delta)
      PROVE  PiSound(n) /\ PiKeeps(m, n)
  <2>1. CASE delta = <<>>
    BY <1>1, <2>1, PiAppendThinking DEF Stream!Pi!onStep
  <2>2. CASE delta # <<>>
    <3> DEFINE said == m.attemptText \o delta
               v == [m EXCEPT !.attemptText = said]
    <3>1. n = Stream!Pi!appendText(v, delta)
      BY <1>1, <2>2 DEF Stream!Pi!onStep
    <3>2. PICK texts, heard : m \in PiMessages(texts, heard)
      BY DEF PiSound, PiShape, IsPiMessage
    <3> HIDE DEF said
    <3>3. /\ v \in PiMessages(texts, {said}) /\ v.events = m.events /\ v.content = m.content
          /\ v.thinkingIdx = m.thinkingIdx /\ v.textIdx = m.textIdx
          /\ v.attemptBase = m.attemptBase /\ v.ended = m.ended
      BY <3>2 DEF PiMessages
    <3> HIDE DEF v
    <3>4. PiShape(v) /\ PiKeeps(m, v) /\ PiOpen(v) = PiOpen(m)
      <4>1. Len(m.content) \in Nat
        BY PiIndices DEF PiSound
      <4> QED
        BY <3>3, <4>1 DEF PiSound, PiShape, PiKeeps, PiOpen, IsPiMessage
    <3>5. PiSound(v)
      BY <3>3, <3>4, PiQuiet
    <3>6. PiSound(n) /\ PiKeeps(v, n)
      BY <3>1, <3>5, PiAppendText
    <3> QED
      BY <3>4, <3>6, PiKeepsOn DEF PiSound
  <2> QED
    BY <2>1, <2>2
<1>2. CASE n = Stream!Pi!onDiverged(m)
  BY <1>2, PiAppendThinking DEF Stream!Pi!onDiverged
<1> QED
  BY <1>1, <1>2

\* Texts are set in blocks of the attempt that runs.
LEMMA PiSetTexts ==
    ASSUME NEW m, PiSound(m), NEW texts,
           \A i \in DOMAIN texts \cap DOMAIN m.content :
               i > m.attemptBase /\ m.content[i].type = "text",
           NEW n, n = Stream!Pi!SetTexts(m, texts)
    PROVE  PiSound(n) /\ PiKeeps(m, n)
<1> DEFINE new(i) == [type |-> "text", text |-> texts[i]]
           content == [i \in DOMAIN m.content |->
                          IF i \in DOMAIN texts THEN new(i) ELSE m.content[i]]
<1>a. PiShape(m)
  BY DEF PiSound
<1>1. PICK old, heard : m \in PiMessages(old, heard)
  BY <1>a DEF PiShape, IsPiMessage
<1> DEFINE more == old \cup {texts[i] : i \in DOMAIN texts}
<1>2. n = [m EXCEPT !.content = content]
  BY DEF Stream!Pi!SetTexts, Stream!Pi!Block
<1>b. /\ Len(m.content) \in Nat /\ DOMAIN m.content = 1 .. Len(m.content)
      /\ m.content \in Seq(PiBlocks(old)) /\ m.attemptBase \in Nat
      /\ m.attemptBase <= Len(m.content)
  BY <1>1, <1>a, PiIndices DEF PiMessages, PiShape
<1>3. \A i \in 1 .. Len(m.content) : content[i] \in PiBlocks(more)
  <2>1. \A i \in 1 .. Len(m.content) : m.content[i] \in PiBlocks(old)
    BY <1>b
  <2> QED
    BY <1>b, <2>1 DEF PiBlocks
<1>4. /\ \A i \in 1 .. Len(m.content) : content[i].type = m.content[i].type
      /\ \A i \in 1 .. m.attemptBase : content[i] = m.content[i]
  BY <1>b
<1>5. content \in Seq(PiBlocks(more)) /\ Len(content) = Len(m.content)
  <2>1. content \in [1 .. Len(m.content) -> PiBlocks(more)]
    BY <1>3, <1>b
  <2> HIDE DEF content, more
  <2> QED
    BY <1>b, <2>1
<1> HIDE DEF content, more
<1>6. /\ n \in PiMessages(more, heard) /\ n.events = m.events /\ n.content = content
      /\ n.thinkingIdx = m.thinkingIdx /\ n.textIdx = m.textIdx
      /\ n.attemptBase = m.attemptBase /\ n.ended = m.ended
  BY <1>1, <1>2, <1>5 DEF PiMessages
<1>7. PiKeeps(m, n) /\ PiOpen(n) = PiOpen(m)
  BY <1>4, <1>5, <1>6, <1>b DEF PiKeeps, PiOpen
<1>8. PiShape(n)
  <2>1. m.thinkingIdx \in Nat /\ m.textIdx \in Nat
    BY <1>a, PiIndices
  <2> QED
    BY <1>4, <1>5, <1>6, <1>a, <1>b, <2>1 DEF PiShape, IsPiMessage
<1> QED
  BY <1>6, <1>7, <1>8, PiQuiet

\* The answer is reconciled with what was streamed.
LEMMA PiReconcile ==
    ASSUME NEW m, PiSound(m), NEW response, NEW n, n = Stream!Pi!reconcile(m, response)
    PROVE  PiSound(n) /\ PiKeeps(m, n)
<1> DEFINE idxs == Stream!Pi!AttemptBlocks(m)
<1>1. CASE idxs = {}
  BY <1>1, PiAppendText DEF Stream!Pi!reconcile
<1>2. CASE idxs # {}
  <2> DEFINE answer == Stream!Pi!normalizeResponseText(response)
             last == Stream!Pi!Max(idxs)
             folded(i) == Stream!Pi!Fold(m.content[i].text)
             texts == [i \in idxs |->
                         IF Stream!Pi!normalizeResponseText(m.attemptText) # answer
                         THEN IF i = last THEN answer ELSE <<>>
                         ELSE IF i = last THEN Stream!Pi!TrimEnd(folded(i)) ELSE folded(i)]
  <2>1. n = Stream!Pi!SetTexts(m, texts)
    BY <1>2 DEF Stream!Pi!reconcile
  <2>2. DOMAIN texts = idxs
    OBVIOUS
  <2> HIDE DEF texts
  <2>3. \A i \in idxs : i > m.attemptBase /\ m.content[i].type = "text"
    BY DEF Stream!Pi!AttemptBlocks
  <2> QED
    BY <2>1, <2>2, <2>3, PiSetTexts
<1> QED
  BY <1>1, <1>2

\* A message has its end: the host may be left with a block of narration open.
PiDone(m, n) == PiSound(n) /\ n.ended /\ \A i \in 1 .. m.attemptBase : n.content[i] = m.content[i]

\* Only an end sets the terminal.
LEMMA PiFinalize ==
    ASSUME NEW m, PiSound(m), ~m.ended, NEW reason \in {"stop", "aborted", "error"},
           NEW step \in {"done", "error"}, NEW n, n = Stream!Pi!Finalize(m, reason, step)
    PROVE  PiDone(m, n)
<1> DEFINE c == Stream!Pi!closeText(m)
           v == [c EXCEPT !.stopReason = reason]
           p == [step |-> step, block |-> 0]
           events == Append(c.events, p)
<1>1. PiSound(c) /\ PiKeeps(m, c) /\ c.textIdx = 0
  BY PiCloseText
<1> HIDE DEF c
<1>2. PICK texts, heard : c \in PiMessages(texts, heard)
  BY <1>1 DEF PiSound, PiShape, IsPiMessage
<1>3. /\ v \in PiMessages(texts, heard) /\ v.events = c.events /\ v.content = c.content
      /\ v.thinkingIdx = c.thinkingIdx /\ v.textIdx = c.textIdx
      /\ v.attemptBase = c.attemptBase /\ v.ended = c.ended
  BY <1>2 DEF PiMessages
<1>4. n = [Stream!Pi!push(v, step, 0) EXCEPT !.ended = TRUE]
  BY DEF Stream!Pi!Finalize, c
<1> HIDE DEF v
<1>5. ~c.ended
  BY <1>1 DEF PiKeeps
<1>6. Stream!Pi!push(v, step, 0) = [v EXCEPT !.events = events]
  BY <1>3, <1>5 DEF Stream!Pi!push, Stream!Pi!Part
<1>7. p \in StreamPart /\ IsTerminal(p.step, p.block)
  BY DEF StreamPart, IsTerminal
<1> HIDE DEF p
<1>8. Nested(events, PiOpen(c))
  <2>1. Nested(c.events, PiOpen(c)) /\ Unfinished(c.events)
    BY <1>1, <1>5 DEF PiSound
  <2> QED
    BY <1>7, <2>1, NestAppend
<1> HIDE DEF events
<1>9. events \in Seq(StreamPart)
  BY <1>8 DEF Nested
<1> DEFINE w == [v EXCEPT !.events = events]
<1>w. /\ w \in PiMessages(texts, heard) /\ w.events = events /\ w.content = c.content
      /\ w.thinkingIdx = c.thinkingIdx /\ w.textIdx = c.textIdx
      /\ w.attemptBase = c.attemptBase
  BY <1>3, <1>9 DEF PiMessages
<1>u. n = [w EXCEPT !.ended = TRUE]
  BY <1>4, <1>6
<1> HIDE DEF w
<1>10. /\ n \in PiMessages(texts, heard) /\ n.events = events /\ n.content = c.content
       /\ n.thinkingIdx = c.thinkingIdx /\ n.textIdx = c.textIdx
       /\ n.attemptBase = c.attemptBase /\ n.ended
  BY <1>w, <1>u DEF PiMessages
<1>11. PiShape(n)
  BY <1>1, <1>10 DEF PiSound, PiShape, IsPiMessage
<1>12. \A b \in PiOpen(c) : b <= Len(n.content) /\ n.content[b].type = "thinking"
  BY <1>1, <1>10 DEF PiSound, PiShape, PiOpen
<1>13. \A i \in 1 .. m.attemptBase : n.content[i] = m.content[i]
  BY <1>1, <1>10 DEF PiKeeps
<1> QED
  BY <1>8, <1>10, <1>11, <1>12, <1>13 DEF PiSound, PiDone

\* However a turn ends, its message is done.
LEMMA PiEnds ==
    ASSUME NEW m, PiSound(m), ~m.ended, NEW n,
           \/ \E response : \E uninspected \in BOOLEAN : n = Stream!Pi!Succeed(m, response, uninspected)
           \/ n = Stream!Pi!Fail(m) \/ \E said : n = Stream!Pi!Abort(m, said)
    PROVE  PiDone(m, n)
<1>1. ASSUME NEW response, NEW uninspected \in BOOLEAN,
             n = Stream!Pi!Succeed(m, response, uninspected)
      PROVE  PiDone(m, n)
  <2> DEFINE r == Stream!Pi!reconcile(m, response)
             t == IF uninspected THEN Stream!Pi!appendThinking(r) ELSE r
  <2>1. n = Stream!Pi!Finalize(t, "stop", "done")
    BY <1>1 DEF Stream!Pi!Succeed
  <2>2. PiSound(r) /\ PiKeeps(m, r)
    BY PiReconcile
  <2> HIDE DEF r
  <2>3. PiSound(t) /\ PiKeeps(m, t)
    <3>1. CASE uninspected
      <4>1. t = Stream!Pi!appendThinking(r)
        BY <3>1
      <4> HIDE DEF t
      <4>2. PiSound(t) /\ PiKeeps(r, t)
        BY <2>2, <4>1, PiAppendThinking
      <4> QED
        BY <2>2, <4>2, PiKeepsOn DEF PiSound
    <3>2. CASE ~uninspected
      BY <2>2, <3>2
    <3> QED
      BY <3>1, <3>2
  <2> HIDE DEF t
  <2>4. ~t.ended
    BY <2>3 DEF PiKeeps
  <2>5. PiDone(t, n)
    BY <2>1, <2>3, <2>4, PiFinalize
  <2> QED
    BY <2>3, <2>5 DEF PiDone, PiKeeps
<1>2. CASE n = Stream!Pi!Fail(m)
  BY <1>2, PiFinalize DEF Stream!Pi!Fail
<1>3. ASSUME NEW said, n = Stream!Pi!Abort(m, said)
      PROVE  PiDone(m, n)
  <2> DEFINE texts == [i \in {m.textIdx} \ {0} |->
                          IF said = {} THEN m.content[i].text
                          ELSE Stream!Pi!normalizeResponseText(CHOOSE text \in said : TRUE)]
             t == Stream!Pi!SetTexts(m, texts)
  <2>1. n = Stream!Pi!Finalize(t, "aborted", "error")
    BY <1>3 DEF Stream!Pi!Abort
  <2>2. DOMAIN texts = {m.textIdx} \ {0}
    OBVIOUS
  <2> HIDE DEF texts
  <2>3. \A i \in DOMAIN texts : i > m.attemptBase /\ m.content[i].type = "text"
    BY <2>2, PiIndices DEF PiSound, PiShape
  <2>4. PiSound(t) /\ PiKeeps(m, t)
    BY <2>3, PiSetTexts
  <2> HIDE DEF t
  <2>5. ~t.ended
    BY <2>4 DEF PiKeeps
  <2>6. PiDone(t, n)
    BY <2>1, <2>4, <2>5, PiFinalize
  <2> QED
    BY <2>4, <2>6 DEF PiDone, PiKeeps
<1> QED
  BY <1>1, <1>2, <1>3

\* A retry freezes the blocks there are.
LEMMA PiRetry ==
    ASSUME NEW m, PiSound(m), NEW n, n = Stream!Pi!retryReset(m)
    PROVE  /\ PiSound(n) /\ n.ended = m.ended
           /\ \A i \in 1 .. m.attemptBase : n.content[i] = m.content[i]
<1> DEFINE t == Stream!Pi!appendThinking(m)
<1>1. PiSound(t) /\ PiKeeps(m, t) /\ t.textIdx = 0
  BY PiAppendThinking
<1>2. n = [t EXCEPT !.attemptText = <<>>, !.attemptBase = Len(t.content)]
  BY DEF Stream!Pi!retryReset
<1> HIDE DEF t
<1>3. PICK texts, heard : t \in PiMessages(texts, heard)
  BY <1>1 DEF PiSound, PiShape, IsPiMessage
<1>4. Len(t.content) \in Nat
  BY <1>1, PiIndices DEF PiSound
<1>5. /\ n \in PiMessages(texts, {<<>>}) /\ n.events = t.events /\ n.content = t.content
      /\ n.thinkingIdx = t.thinkingIdx /\ n.textIdx = t.textIdx
      /\ n.attemptBase = Len(t.content) /\ n.ended = t.ended
  BY <1>2, <1>3, <1>4 DEF PiMessages
<1>6. PiSound(n)
  BY <1>1, <1>4, <1>5 DEF PiSound, PiShape, PiOpen, IsPiMessage
<1>7. m.ended \in BOOLEAN /\ t.ended \in BOOLEAN
  BY <1>3 DEF PiSound, PiShape, IsPiMessage, PiMessages
<1> QED
  BY <1>1, <1>5, <1>6, <1>7 DEF PiKeeps

-----------------------------------------------------------------------------
\* The turn that both streams show.
ShownTurns(answers) ==
    [phase : {"starting", "attempt", "between", "ended"}, attempt : {0, 1, 2}, steps : Nat,
     rest : [Stream!Attempts -> SUBSET Deltas], alive : [Stream!Attempts -> BOOLEAN],
     answer : answers, late : BOOLEAN]
IsShownTurn == \E answers : shown \in ShownTurns(answers)

\* Both streams end with the turn, and nothing was thrown at opencode before.
StreamInv ==
    /\ IsShownTurn
    /\ PiSound(pi)
    /\ pi.ended <=> shown.phase = "ended"
    /\ shown.phase # "ended" => OcLive(oc, OcOpen(oc))
    /\ shown.phase = "ended" => OcDone(oc)
    /\ oc.threw => shown.late

\* What the first attempt wrote.
Frozen == \A i \in 1 .. pi.attemptBase : pi'.content[i] = pi.content[i]

\* It holds when the turn starts.
LEMMA StreamAtFirst == Stream!Init => StreamInv
<1> SUFFICES ASSUME Stream!Init PROVE StreamInv
  OBVIOUS
<1>1. IsShownTurn /\ shown.phase = "starting" /\ ~shown.late
  <2>1. shown \in ShownTurns({{}})
    BY DEF Stream!Init, ShownTurns, Stream!Attempts
  <2> QED
    BY <2>1 DEF Stream!Init, IsShownTurn
<1>2. PiSound(pi) /\ ~pi.ended
  <2> DEFINE parts == <<Started(0)>>
  <2>1. pi = [content |-> <<>>, thinkingIdx |-> 0, textIdx |-> 0, attemptBase |-> 0,
              attemptText |-> <<>>, stopReason |-> "pending", ended |-> FALSE,
              events |-> parts]
    BY DEF Stream!Init, Stream!Pi!Started, Stream!Pi!Part, Started
  <2>2. Nested(parts, {}) /\ Unfinished(parts)
    BY NestStarted
  <2> HIDE DEF parts
  <2>3. parts \in Seq(StreamPart)
    BY <2>2 DEF Nested
  <2>4. pi \in PiMessages({}, {<<>>})
    BY <2>1, <2>3 DEF PiMessages
  <2>5. PiShape(pi) /\ PiOpen(pi) = {}
    BY <2>1, <2>4 DEF PiShape, PiOpen, IsPiMessage
  <2> QED
    BY <2>1, <2>2, <2>5 DEF PiSound
<1>3. OcLive(oc, OcOpen(oc))
  BY OcFresh DEF Stream!Init
<1> QED
  BY <1>1, <1>2, <1>3 DEF StreamInv, OcLive

\* The lines an attempt shows go to both streams; opencode throws if it is closed.
LEMMA ShowsBoth ==
    ASSUME StreamInv, NEW lines, Stream!Show(lines)
    PROVE  /\ PiSound(pi') /\ (pi'.ended <=> pi.ended) /\ Frozen
           /\ shown.phase # "ended" => OcLive(oc', OcOpen(oc'))
           /\ shown.phase = "ended" => OcDone(oc')
           /\ lines = {} => oc' = oc
<1>1. CASE lines = {}
  <2>1. pi' = pi /\ oc' = oc
    BY <1>1 DEF Stream!Show
  <2> QED
    BY <2>1 DEF StreamInv, Frozen
<1>2. CASE lines # {}
  <2>1. oc' = Stream!Oc!Status(oc) /\ \E delta : pi' = Stream!Pi!onStep(pi, delta)
    BY <1>2 DEF Stream!Show
  <2>2. PiSound(pi') /\ PiKeeps(pi, pi')
    BY <2>1, PiShows DEF StreamInv
  <2>3. shown.phase # "ended" => OcLive(oc', OcOpen(oc'))
    BY <2>1, OcStatus DEF StreamInv
  <2>4. shown.phase = "ended" => OcDone(oc')
    BY <2>1, OcStatusLate DEF StreamInv
  <2> QED
    BY <1>2, <2>2, <2>3, <2>4 DEF PiKeeps, Frozen
<1> QED
  BY <1>1, <1>2

\* The end of a turn is the end of both streams.
LEMMA EndsBoth ==
    ASSUME StreamInv, shown.phase # "ended", IsShownTurn', shown'.phase = "ended",
           \/ \E response : \E uninspected \in BOOLEAN :
                 /\ pi' = Stream!Pi!Succeed(pi, response, uninspected)
                 /\ oc' = Stream!Oc!Succeed(oc, response, uninspected)
           \/ /\ pi' = Stream!Pi!Fail(pi) \/ \E said : pi' = Stream!Pi!Abort(pi, said)
              /\ oc' = Stream!Oc!Fail(oc) \/ oc' = Stream!Oc!Refused \/ oc' = Stream!Oc!Abort(oc)
    PROVE  StreamInv' /\ Frozen
<1>1. PiSound(pi) /\ ~pi.ended /\ OcLive(oc, OcOpen(oc))
  BY DEF StreamInv
<1>2. PiDone(pi, pi')
  <2>1. \/ \E response : \E uninspected \in BOOLEAN :
              pi' = Stream!Pi!Succeed(pi, response, uninspected)
        \/ pi' = Stream!Pi!Fail(pi) \/ \E said : pi' = Stream!Pi!Abort(pi, said)
    OBVIOUS
  <2> QED
    BY <1>1, <2>1, PiEnds
<1>3. OcDone(oc') /\ ~oc'.threw
  <2>1. \/ \E response : \E uninspected \in BOOLEAN :
              oc' = Stream!Oc!Succeed(oc, response, uninspected)
        \/ oc' = Stream!Oc!Fail(oc) \/ oc' = Stream!Oc!Refused \/ oc' = Stream!Oc!Abort(oc)
    OBVIOUS
  <2> QED
    BY <1>1, <2>1, OcEnds
<1> QED
  BY <1>2, <1>3 DEF StreamInv, PiDone, Frozen

\* It is kept by every step, and no step touches what is frozen.
LEMMA StreamsStep ==
    StreamInv /\ [Stream!Next]_streamVars => StreamInv' /\ Frozen
<1> SUFFICES ASSUME StreamInv, [Stream!Next]_streamVars PROVE StreamInv' /\ Frozen
  OBVIOUS
<1>0. PICK answers : shown \in ShownTurns(answers)
  BY DEF StreamInv, IsShownTurn
\* A step that goes on: the turn has not ended and does not end.
<1>a. ASSUME shown' \in ShownTurns(answers), shown.phase # "ended", shown'.phase # "ended",
             PiSound(pi'), ~pi'.ended, OcLive(oc', OcOpen(oc')), Frozen
      PROVE  StreamInv' /\ Frozen
  BY <1>a DEF StreamInv, IsShownTurn, OcLive
<1>b. PiSound(pi) /\ (shown.phase # "ended" => ~pi.ended /\ OcLive(oc, OcOpen(oc)))
  BY DEF StreamInv
<1>c. pi' = pi => Frozen
  BY DEF Frozen
<1>1. ASSUME NEW diverged \in BOOLEAN, Stream!Spawn(diverged) PROVE StreamInv' /\ Frozen
  <2>1. shown' \in ShownTurns(answers) /\ shown.phase # "ended" /\ shown'.phase # "ended"
    BY <1>0, <1>1 DEF Stream!Spawn, ShownTurns, Stream!Attempts
  <2>2. CASE diverged
    <3>1. pi' = Stream!Pi!onDiverged(pi) /\ oc' = Stream!Oc!Status(oc)
      BY <1>1, <2>2 DEF Stream!Spawn
    <3>2. PiSound(pi') /\ PiKeeps(pi, pi')
      BY <1>b, <3>1, PiShows
    <3>3. ~pi'.ended /\ Frozen
      BY <1>b, <2>1, <3>2 DEF PiKeeps, Frozen
    <3>4. OcLive(oc', OcOpen(oc'))
      BY <1>b, <2>1, <3>1, OcStatus
    <3> QED
      BY <1>a, <2>1, <3>2, <3>3, <3>4
  <2>3. CASE ~diverged
    <3>1. pi' = pi /\ oc' = oc
      BY <1>1, <2>3 DEF Stream!Spawn
    <3> QED
      BY <1>a, <1>b, <1>c, <2>1, <3>1
  <2> QED
    BY <2>2, <2>3
<1>2. ASSUME NEW lines, Stream!Show(lines), shown' \in ShownTurns(answers),
             shown.phase # "ended", shown'.phase # "ended"
      PROVE  StreamInv' /\ Frozen
  BY <1>2, <1>a, <1>b, ShowsBoth
<1>3. CASE Stream!Exit
  <2>1. shown' \in ShownTurns(answers) /\ shown.phase # "ended" /\ shown'.phase # "ended"
    BY <1>0, <1>3 DEF Stream!Exit, Stream!Running, ShownTurns, Stream!Attempts
  <2> QED
    BY <1>2, <1>3, <2>1 DEF Stream!Exit
<1>4. CASE Stream!SettleEarly
  <2>1. shown' \in ShownTurns(answers) /\ shown.phase # "ended" /\ shown'.phase # "ended"
    BY <1>0, <1>4 DEF Stream!SettleEarly, Stream!Running, ShownTurns
  <2>2. pi' = pi /\ oc' = oc
    BY <1>4 DEF Stream!SettleEarly
  <2> QED
    BY <1>a, <1>b, <1>c, <2>1, <2>2
<1>5. CASE Stream!Retry
  <2>1. shown' \in ShownTurns(answers) /\ shown.phase # "ended" /\ shown'.phase # "ended"
    BY <1>0, <1>5 DEF Stream!Retry, ShownTurns, Stream!Attempts
  <2>2. pi' = Stream!Pi!retryReset(pi) /\ oc' = Stream!Oc!Status(oc)
    BY <1>5 DEF Stream!Retry
  <2>3. PiSound(pi') /\ ~pi'.ended /\ Frozen
    BY <1>b, <2>1, <2>2, PiRetry DEF Frozen
  <2>4. OcLive(oc', OcOpen(oc'))
    BY <1>b, <2>1, <2>2, OcStatus
  <2> QED
    BY <1>a, <2>1, <2>3, <2>4
<1>6. ASSUME NEW response, NEW uninspected \in BOOLEAN, Stream!Succeed(response, uninspected)
      PROVE  StreamInv' /\ Frozen
  <2>1. shown' \in ShownTurns(answers \cup {{response}}) /\ shown.phase # "ended"
        /\ shown'.phase = "ended"
    BY <1>0, <1>6 DEF Stream!Succeed, ShownTurns
  <2>2. IsShownTurn'
    BY <2>1 DEF IsShownTurn
  <2> QED
    BY <1>6, <2>1, <2>2, EndsBoth DEF Stream!Succeed
<1>7. CASE Stream!Fail \/ Stream!Refuse \/ Stream!Break \/ \E said : Stream!Abort(said)
  <2>1. shown' \in ShownTurns(answers) /\ shown.phase # "ended" /\ shown'.phase = "ended"
    BY <1>0, <1>7 DEF Stream!Fail, Stream!Refuse, Stream!Break, Stream!Abort, ShownTurns
  <2>2. IsShownTurn'
    BY <2>1 DEF IsShownTurn
  <2>3. /\ pi' = Stream!Pi!Fail(pi) \/ \E said : pi' = Stream!Pi!Abort(pi, said)
        /\ oc' = Stream!Oc!Fail(oc) \/ oc' = Stream!Oc!Refused \/ oc' = Stream!Oc!Abort(oc)
    BY <1>7 DEF Stream!Fail, Stream!Refuse, Stream!Break, Stream!Abort
  <2> QED
    BY <2>1, <2>2, <2>3, EndsBoth
<1>8. ASSUME NEW delta \in Deltas, Stream!Line(delta)
      PROVE  StreamInv' /\ Frozen
  <2>1. shown' \in ShownTurns(answers) /\ shown.phase # "ended" /\ shown'.phase # "ended"
    BY <1>0, <1>8 DEF Stream!Line, Stream!Running, ShownTurns
  <2> QED
    BY <1>2, <1>8, <2>1 DEF Stream!Line
<1>9. ASSUME NEW delta \in Deltas, Stream!Partial(delta)
      PROVE  StreamInv' /\ Frozen
  <2>1. shown' \in ShownTurns(answers) /\ shown.phase # "ended" /\ shown'.phase # "ended"
    <3>1. ASSUME NEW r \in [Stream!Attempts -> SUBSET Deltas], NEW n \in Nat
          PROVE  /\ [shown EXCEPT !.steps = n, !.rest = r] \in ShownTurns(answers)
                 /\ [shown EXCEPT !.steps = n, !.rest = r].phase = shown.phase
      BY <1>0 DEF ShownTurns
    <3> DEFINE left == [shown.rest EXCEPT ![shown.attempt] = {delta}]
    <3>0. shown.steps + 1 \in Nat
      BY <1>0 DEF ShownTurns
    <3>2. left \in [Stream!Attempts -> SUBSET Deltas]
      BY <1>0 DEF ShownTurns
    <3>3. shown' = [shown EXCEPT !.steps = shown.steps + 1, !.rest = left]
      BY <1>0, <1>9 DEF Stream!Partial, ShownTurns
    <3>4. shown.phase = "attempt"
      BY <1>9 DEF Stream!Partial, Stream!Running
    <3> HIDE DEF left
    <3> QED
      BY <3>0, <3>1, <3>2, <3>3, <3>4
  <2>2. pi' = pi /\ oc' = oc
    BY <1>9 DEF Stream!Partial
  <2> QED
    BY <1>a, <1>b, <1>c, <2>1, <2>2
<1>10. CASE Stream!Newline
  <2>1. shown' \in ShownTurns(answers) /\ shown.phase # "ended" /\ shown'.phase # "ended"
    BY <1>0, <1>10 DEF Stream!Newline, Stream!Running, ShownTurns, Stream!Attempts
  <2> QED
    BY <1>2, <1>10, <2>1 DEF Stream!Newline
<1>11. ASSUME NEW a \in Stream!Attempts, Stream!LateExit(a) PROVE StreamInv' /\ Frozen
  <2>1. /\ shown' \in ShownTurns(answers) /\ shown'.phase = shown.phase
        /\ shown.late => shown'.late
        /\ shown.phase = "ended" /\ shown.rest[a] # {} => shown'.late
    BY <1>0, <1>11 DEF Stream!LateExit, Stream!Ended, ShownTurns, Stream!Attempts
  <2>2. Stream!Show(shown.rest[a])
    BY <1>11 DEF Stream!LateExit
  <2>3. CASE shown.phase # "ended"
    BY <1>2, <2>1, <2>2, <2>3
  <2>4. CASE shown.phase = "ended"
    <3>1. PiSound(pi') /\ (pi'.ended <=> pi.ended) /\ Frozen /\ OcDone(oc')
      BY <2>2, <2>4, ShowsBoth
    <3>2. oc'.threw => shown'.late
      <4>1. CASE shown.rest[a] = {}
        BY <2>1, <2>2, <4>1, ShowsBoth DEF StreamInv
      <4>2. CASE shown.rest[a] # {}
        BY <2>1, <2>4, <4>2
      <4> QED
        BY <4>1, <4>2
    <3> QED
      BY <2>1, <2>4, <3>1, <3>2 DEF StreamInv, IsShownTurn
  <2> QED
    BY <2>3, <2>4
<1>12. CASE UNCHANGED streamVars
  <2>1. shown' = shown /\ pi' = pi /\ oc' = oc
    BY <1>12 DEF streamVars
  <2> QED
    BY <1>c, <2>1 DEF StreamInv, IsShownTurn
<1>13. CASE Stream!Advance
  BY <1>13, <1>1, <1>3, <1>4, <1>5, <1>6, <1>7 DEF Stream!Advance
<1> QED
  BY <1>8, <1>9, <1>10, <1>11, <1>12, <1>13 DEF Stream!Next

\* It says what the hosts rely on.
LEMMA StreamInvNests == StreamInv => PartsNest
<1> SUFFICES ASSUME StreamInv PROVE PartsNest
  OBVIOUS
<1>1. PICK said : /\ Nested(pi.events, said)
                  /\ pi.ended => \A b \in said :
                        b <= Len(pi.content) /\ pi.content[b].type = "thinking"
  BY DEF StreamInv, PiSound
<1>2. PICK told : /\ Nested(oc.parts, told)
                  /\ shown.phase = "ended" /\ oc.parts[Len(oc.parts)].step \in {"done", "error"}
                        => told = {}
  BY DEF StreamInv, OcLive, OcDone
<1>3. Stream!OpenBlocks(pi.events) = said /\ Stream!OpenBlocks(oc.parts) = told
  BY <1>1, <1>2, OpenOfNested
<1> QED
  BY <1>1, <1>2, <1>3
  DEF StreamInv, PartsNest, Stream!PartsNest, Stream!Ended, Stream!Terminal, Nested

\* The parts either bridge shows its host nest, and nothing comes after the terminal,
\* whatever agy says and whenever its children end (stream-simple.ts, language-model.ts).
THEOREM HostsCanFollow == MCSpec => []PartsNest
<1>1. MCInit => StreamInv
  BY StreamAtFirst DEF MCInit
<1>2. StreamInv /\ [MCNext]_allVars => StreamInv'
  BY StepOfEachPart, StreamsStep
<1>3. StreamInv => PartsNest
  BY StreamInvNests
<1> QED
  BY <1>1, <1>2, <1>3, PTL DEF MCSpec

\* A retry freezes what the first attempt wrote: no step of the turn, no late line of its
\* child and no end changes a block of it (retryReset, reconcile).
THEOREM FirstAttemptStays == MCSpec => FirstAttemptFrozen
<1>1. MCInit => StreamInv
  BY StreamAtFirst DEF MCInit
<1>2. StreamInv /\ [MCNext]_allVars => StreamInv' /\ [Frozen]_streamVars
  BY StepOfEachPart, StreamsStep
<1>3. Stream!FirstAttemptFrozen <=> [][Frozen]_streamVars
  BY DEF Stream!FirstAttemptFrozen, Stream!vars, streamVars, Frozen
<1> QED
  BY <1>1, <1>2, <1>3, PTL DEF MCSpec, FirstAttemptFrozen

-----------------------------------------------------------------------------
\* opencode has been told a piece of the answer.
Told(s) == \E i \in DOMAIN s.parts : s.parts[i] = Stream!Oc!Part("delta", 2)

\* The stream goes on without saying anything about the answer.
Quiet(s, n) ==
    /\ IsOcStream(n) /\ n.text = s.text /\ n.closed = s.closed
    /\ Told(n) <=> Told(s)

\* Only a delta of the answer tells it, and a closed stream takes none.
LEMMA OcSays ==
    ASSUME NEW s, IsOcStream(s), NEW step, NEW block,
           [step |-> step, block |-> block] \in StreamPart,
           NEW n, n = Stream!Oc!enqueue(s, step, block)
    PROVE  /\ ~(step = "delta" /\ block = 2) => Quiet(s, n)
           /\ IsOcStream(n) /\ n.text = s.text /\ n.closed = s.closed
           /\ step = "delta" /\ block = 2 /\ ~s.closed => Told(n)
<1> DEFINE p == [step |-> step, block |-> block]
           parts == Append(s.parts, p)
<1>1. PICK text : s \in OcStream(text)
  BY DEF IsOcStream
<1>2. CASE s.closed
  <2>1. n = [s EXCEPT !.threw = TRUE]
    BY <1>2 DEF Stream!Oc!enqueue
  <2>2. n \in OcStream(text) /\ n.text = s.text /\ n.closed = s.closed /\ n.parts = s.parts
    BY <1>1, <2>1 DEF OcStream
  <2> QED
    BY <1>2, <2>2 DEF Quiet, IsOcStream, Told
<1>3. CASE ~s.closed
  <2>1. n = [s EXCEPT !.parts = parts]
    BY <1>3 DEF Stream!Oc!enqueue, Stream!Oc!Part
  <2>2. /\ s.parts \in Seq(StreamPart) /\ p \in StreamPart
        /\ p.step = step /\ p.block = block
    BY <1>1 DEF OcStream
  <2> HIDE DEF p
  <2>3. /\ parts \in Seq(StreamPart) /\ Len(parts) = Len(s.parts) + 1
        /\ \A i \in 1 .. Len(s.parts) : parts[i] = s.parts[i]
        /\ parts[Len(s.parts) + 1] = p
    BY <2>2
  <2> HIDE DEF parts
  <2>4. n \in OcStream(text) /\ n.text = s.text /\ n.closed = s.closed /\ n.parts = parts
    BY <1>1, <2>1, <2>3 DEF OcStream
  <2>5. DOMAIN parts = 1 .. Len(s.parts) + 1 /\ DOMAIN s.parts = 1 .. Len(s.parts)
        /\ Len(s.parts) \in Nat
    BY <2>2, <2>3
  <2>6. p = Stream!Oc!Part("delta", 2) <=> step = "delta" /\ block = 2
    BY <2>2 DEF Stream!Oc!Part, p
  <2>7. Told(n) <=> Told(s) \/ p = Stream!Oc!Part("delta", 2)
    BY <2>3, <2>4, <2>5 DEF Told
  <2> QED
    BY <1>3, <2>4, <2>6, <2>7 DEF Quiet, IsOcStream
<1> QED
  BY <1>2, <1>3

\* A line of the status block says nothing of the answer, at any time.
LEMMA OcStatusQuiet ==
    ASSUME NEW s, IsOcStream(s), NEW n, n = Stream!Oc!Status(s)
    PROVE  Quiet(s, n)
<1> DEFINE o == Stream!Oc!openReasoning(s)
<1>a. /\ [step |-> "start", block |-> 1] \in StreamPart
      /\ [step |-> "delta", block |-> 1] \in StreamPart
  BY DEF StreamPart
<1>1. Quiet(s, o)
  <2>1. CASE s.reasoningOpen
    BY <2>1 DEF Stream!Oc!openReasoning, Quiet
  <2>2. CASE ~s.reasoningOpen
    <3> DEFINE t == Stream!Oc!enqueue(s, "start", 1)
    <3>1. Quiet(s, t)
      BY <1>a, OcSays
    <3>2. o = [t EXCEPT !.reasoningOpen = ~t.closed]
      BY <2>2 DEF Stream!Oc!openReasoning, Stream!Oc!Reasoning
    <3> HIDE DEF o, t
    <3>3. PICK text : t \in OcStream(text)
      BY <3>1 DEF Quiet, IsOcStream
    <3>4. /\ o \in OcStream(text) /\ o.parts = t.parts /\ o.closed = t.closed
          /\ o.text = t.text
      BY <3>2, <3>3 DEF OcStream
    <3> QED
      BY <3>1, <3>4 DEF Quiet, IsOcStream, Told
  <2> QED
    BY <2>1, <2>2
<1>2. n = IF o.threw THEN o ELSE Stream!Oc!enqueue(o, "delta", 1)
  BY DEF Stream!Oc!Status, Stream!Oc!Reasoning
<1> HIDE DEF o
<1>3. IsOcStream(o)
  BY <1>1 DEF Quiet
<1>4. n # o => Quiet(o, n)
  BY <1>a, <1>2, <1>3, OcSays
<1> QED
  BY <1>1, <1>4 DEF Quiet

\* The end of the status block and a terminal say nothing either.
LEMMA OcClosesQuietly ==
    ASSUME NEW s, IsOcStream(s)
    PROVE  /\ Quiet(s, Stream!Oc!closeReasoning(s))
           /\ \A step \in {"done", "error"} :
                 LET n == Stream!Oc!controllerClose(Stream!Oc!enqueue(s, step, 0))
                 IN IsOcStream(n) /\ n.text = s.text /\ (Told(n) <=> Told(s))
           /\ LET n == Stream!Oc!controllerClose(s)
              IN IsOcStream(n) /\ n.text = s.text /\ (Told(n) <=> Told(s))
<1>a. /\ [step |-> "end", block |-> 1] \in StreamPart
      /\ \A step \in {"done", "error"} : [step |-> step, block |-> 0] \in StreamPart
  BY DEF StreamPart
<1>1. Quiet(s, s)
  BY DEF Quiet
<1>2. Quiet(s, Stream!Oc!closeReasoning(s))
  BY <1>a, <1>1, OcSays DEF Stream!Oc!closeReasoning, Stream!Oc!Reasoning
<1>3. ASSUME NEW t, IsOcStream(t), NEW n, n = Stream!Oc!controllerClose(t)
      PROVE  IsOcStream(n) /\ n.text = t.text /\ (Told(n) <=> Told(t))
  <2>1. PICK text : t \in OcStream(text)
    BY <1>3 DEF IsOcStream
  <2>2. n = [t EXCEPT !.closed = TRUE]
    BY <1>3 DEF Stream!Oc!controllerClose
  <2>3. n \in OcStream(text) /\ n.text = t.text /\ n.parts = t.parts
    BY <2>1, <2>2 DEF OcStream
  <2> QED
    BY <2>3 DEF IsOcStream, Told
<1>4. ASSUME NEW step \in {"done", "error"}
      PROVE  Quiet(s, Stream!Oc!enqueue(s, step, 0))
  BY <1>a, OcSays
<1> QED
  BY <1>2, <1>3, <1>4 DEF Quiet

\* A success says the answer, once and as it is, or nothing if there is none.
LEMMA OcSaysAnswer ==
    ASSUME NEW s, IsOcStream(s), ~s.closed, ~Told(s), NEW response, NEW uninspected \in BOOLEAN,
           NEW n, n = Stream!Oc!Succeed(s, response, uninspected)
    PROVE  Stream!Oc!doGenerate(n) = Stream!Oc!normalizeResponseText(response)
<1> DEFINE text == Stream!Oc!normalizeResponseText(response)
           told == IF uninspected THEN Stream!Oc!Status(s) ELSE s
           quiet == Stream!Oc!closeReasoning(told)
           said == Stream!Oc!emitAnswer(quiet, text)
<1>1. n = Stream!Oc!controllerClose(Stream!Oc!enqueue(said, "done", 0))
  BY DEF Stream!Oc!Succeed
<1>2. IsOcStream(told) /\ ~told.closed /\ ~Told(told)
  BY OcStatusQuiet DEF Quiet
<1> HIDE DEF told
<1>3. IsOcStream(quiet) /\ ~quiet.closed /\ ~Told(quiet)
  BY <1>2, OcClosesQuietly DEF Quiet
<1> HIDE DEF quiet, text
<1>4. /\ IsOcStream(said)
      /\ text = <<>> => ~Told(said)
      /\ text # <<>> => Told(said) /\ said.text = text
  <2>1. CASE text = <<>>
    BY <1>3, <2>1 DEF Stream!Oc!emitAnswer
  <2>2. CASE text # <<>>
    <3> DEFINE a == Stream!Oc!enqueue(quiet, "start", 2)
               b == [a EXCEPT !.text = text]
               c == Stream!Oc!enqueue(b, "delta", 2)
    <3>a. \A step \in {"start", "delta", "end"} : [step |-> step, block |-> 2] \in StreamPart
      BY DEF StreamPart
    <3>1. said = Stream!Oc!enqueue(c, "end", 2)
      BY <2>2 DEF Stream!Oc!emitAnswer, Stream!Oc!Answer
    <3>2. IsOcStream(a) /\ ~a.closed
      BY <1>3, <3>a, OcSays DEF Quiet
    <3> HIDE DEF a
    <3>3. IsOcStream(b) /\ ~b.closed /\ b.text = text
      <4>1. PICK old : a \in OcStream(old)
        BY <3>2 DEF IsOcStream
      <4>2. b \in OcStream({text}) /\ b.closed = a.closed /\ b.text = text
        BY <4>1 DEF OcStream
      <4> QED
        BY <3>2, <4>2 DEF IsOcStream
    <3> HIDE DEF b
    <3>4. IsOcStream(c) /\ c.text = text /\ Told(c)
      BY <3>3, <3>a, OcSays
    <3> HIDE DEF c
    <3>5. Quiet(c, said)
      BY <3>1, <3>4, <3>a, OcSays
    <3> QED
      BY <2>2, <3>4, <3>5 DEF Quiet
  <2> QED
    BY <2>1, <2>2
<1> HIDE DEF said
<1>5. n.text = said.text /\ (Told(n) <=> Told(said))
  <2> DEFINE t == Stream!Oc!enqueue(said, "done", 0)
  <2>1. [step |-> "done", block |-> 0] \in StreamPart
    BY DEF StreamPart
  <2>2. Quiet(said, t)
    BY <1>4, <2>1, OcSays
  <2> HIDE DEF t
  <2>3. n.text = t.text /\ (Told(n) <=> Told(t))
    BY <1>1, <2>2, OcClosesQuietly DEF Quiet, t
  <2> QED
    BY <2>2, <2>3 DEF Quiet
<1>6. Stream!Oc!doGenerate(n) = IF Told(n) THEN n.text ELSE <<>>
  BY DEF Stream!Oc!doGenerate, Told, Stream!Oc!Answer
<1> QED
  BY <1>4, <1>5, <1>6 DEF text

\* Until the turn ends opencode has been told nothing of an answer, and then all of it.
AnswerInv ==
    /\ shown.phase # "ended" => ~Told(oc) /\ shown.answer = {}
    /\ \A answer \in shown.answer :
          Stream!Oc!doGenerate(oc) = Stream!Oc!normalizeResponseText(answer)

\* A step that says nothing of the answer, at any time, is a step of AnswerInv.
LEMMA QuietStep ==
    ASSUME AnswerInv, shown'.answer = shown.answer,
           shown'.phase = "ended" => shown.phase = "ended" \/ shown.answer = {},
           shown.phase = "ended" => shown'.phase = "ended",
           shown'.phase # "ended" \/ shown.phase = "ended" => oc' = oc \/ Quiet(oc, oc')
    PROVE  AnswerInv'
<1>1. oc' = oc \/ Quiet(oc, oc') => (Told(oc') <=> Told(oc)) /\ oc'.text = oc.text
  BY DEF Quiet
<1>2. \A s : Stream!Oc!doGenerate(s) = IF Told(s) THEN s.text ELSE <<>>
  BY DEF Stream!Oc!doGenerate, Told, Stream!Oc!Answer
<1>3. oc' = oc \/ Quiet(oc, oc') => Stream!Oc!doGenerate(oc') = Stream!Oc!doGenerate(oc)
  BY <1>1, <1>2
<1> QED
  BY <1>1, <1>3 DEF AnswerInv

\* And the success says it.
LEMMA AnswerStep ==
    StreamInv /\ AnswerInv /\ [Stream!Next]_streamVars => AnswerInv'
<1> SUFFICES ASSUME StreamInv, AnswerInv, [Stream!Next]_streamVars PROVE AnswerInv'
  OBVIOUS
<1>1. PICK answers : shown \in ShownTurns(answers)
  BY DEF StreamInv, IsShownTurn
<1>2. IsOcStream(oc) /\ (shown.phase # "ended" => ~oc.closed)
  BY DEF StreamInv, OcLive, OcDone
<1>3. \A lines : Stream!Show(lines) => oc' = oc \/ Quiet(oc, oc')
  BY <1>2, OcStatusQuiet DEF Stream!Show
<1>4. CASE \/ \E diverged \in BOOLEAN : Stream!Spawn(diverged)
           \/ Stream!SettleEarly \/ Stream!Retry
  <2>1. /\ shown'.answer = shown.answer
        /\ shown.phase # "ended" /\ shown'.phase # "ended"
    BY <1>1, <1>4 DEF Stream!Spawn, Stream!SettleEarly, Stream!Retry, Stream!Running, ShownTurns
  <2>2. oc' = oc \/ oc' = Stream!Oc!Status(oc)
    BY <1>4 DEF Stream!Spawn, Stream!SettleEarly, Stream!Retry
  <2>3. oc' = oc \/ Quiet(oc, oc')
    BY <1>2, <2>2, OcStatusQuiet
  <2> QED
    BY <2>1, <2>3, QuietStep
<1>5. CASE \/ \E delta \in Deltas : Stream!Line(delta) \/ Stream!Partial(delta)
           \/ Stream!Newline \/ Stream!Exit
           \/ \E a \in Stream!Attempts : Stream!LateExit(a)
  <2>1. /\ shown'.answer = shown.answer
        /\ shown'.phase = "ended" <=> shown.phase = "ended"
    BY <1>1, <1>5 DEF Stream!Line, Stream!Partial, Stream!Newline, Stream!Exit, Stream!LateExit,
                      Stream!Running, Stream!Ended, ShownTurns
  <2>2. oc' = oc \/ \E lines : Stream!Show(lines)
    BY <1>5 DEF Stream!Line, Stream!Partial, Stream!Newline, Stream!Exit, Stream!LateExit
  <2> QED
    BY <1>3, <2>1, <2>2, QuietStep
<1>6. ASSUME NEW response, NEW uninspected \in BOOLEAN, Stream!Succeed(response, uninspected)
      PROVE  AnswerInv'
  <2>1. shown'.phase = "ended" /\ shown'.answer = {response} /\ shown.phase # "ended"
    BY <1>1, <1>6 DEF Stream!Succeed, ShownTurns
  <2>2. oc' = Stream!Oc!Succeed(oc, response, uninspected)
    BY <1>6 DEF Stream!Succeed
  <2>3. Stream!Oc!doGenerate(oc') = Stream!Oc!normalizeResponseText(response)
    BY <1>2, <2>1, <2>2, OcSaysAnswer DEF AnswerInv
  <2> QED
    BY <2>1, <2>3 DEF AnswerInv
<1>7. CASE Stream!Fail \/ Stream!Refuse \/ Stream!Break \/ \E said : Stream!Abort(said)
  <2>1. /\ shown'.answer = shown.answer
        /\ shown.phase # "ended" /\ shown'.phase = "ended"
    BY <1>1, <1>7 DEF Stream!Fail, Stream!Refuse, Stream!Break, Stream!Abort, ShownTurns
  <2> QED
    BY <2>1, QuietStep DEF AnswerInv
<1>8. CASE UNCHANGED streamVars
  BY <1>8, QuietStep DEF streamVars
<1> QED
  BY <1>4, <1>5, <1>6, <1>7, <1>8 DEF Stream!Next, Stream!Advance

-----------------------------------------------------------------------------
\* What Bindings_proof says of numbers: every set of them has a least one.
B == INSTANCE Bindings_proof
        WITH Session <- {}, Conversation <- {}, MaxBindings <- 1, MaxAge <- 1

\* What holds at 0 and carries over from one number to the next holds of all of them.
LEMMA Upwards ==
    ASSUME NEW n \in Nat, NEW good, 0 \in good, \A k \in 1 .. n : k - 1 \in good => k \in good
    PROVE  0 .. n \subseteq good
<1> DEFINE bad == (0 .. n) \ good
<1>1. SUFFICES ASSUME bad # {} PROVE FALSE
  OBVIOUS
<1>2. bad \subseteq Nat /\ 1 \in Nat \ {0}
  OBVIOUS
<1>3. PICK m \in bad : \A k \in bad : m <= k
  <2> HIDE DEF bad
  <2> QED
    BY <1>1, <1>2, B!LeastNatural, Zenon
<1>4. m # 0 /\ m \in 0 .. n
  OBVIOUS
<1>5. m - 1 \in good
  BY <1>3, <1>4
<1> QED
  BY <1>3, <1>4, <1>5

\* A recursion over 1 .. n has its function.
LEMMA Recursion ==
    ASSUME NEW S, NEW z \in S, NEW n \in Nat, NEW step \in [(1 .. n) \X S -> S]
    PROVE  \E f \in [0 .. n -> S] : f[0] = z /\ \A k \in 1 .. n : f[k] = step[<<k, f[k - 1]>>]
<1> DEFINE Solves(f, m) == f[0] = z /\ \A k \in 1 .. m : f[k] = step[<<k, f[k - 1]>>]
           good == {m \in 0 .. n : \E f \in [0 .. m -> S] : Solves(f, m)}
<1>1. 0 \in good
  <2> DEFINE f == [i \in 0 .. 0 |-> z]
  <2>1. f \in [0 .. 0 -> S] /\ f[0] = z /\ \A k \in 1 .. 0 : FALSE
    OBVIOUS
  <2> HIDE DEF f
  <2>2. Solves(f, 0)
    BY <2>1
  <2> HIDE DEF Solves
  <2> QED
    BY <2>1, <2>2
<1>2. ASSUME NEW m \in 1 .. n, m - 1 \in good
      PROVE  m \in good
  <2>1. PICK f \in [0 .. m - 1 -> S] : Solves(f, m - 1)
    BY <1>2
  <2> DEFINE g == [i \in 0 .. m |-> IF i = m THEN step[<<m, f[m - 1]>>] ELSE f[i]]
  <2>2. step[<<m, f[m - 1]>>] \in S
    <3>1. f[m - 1] \in S
      OBVIOUS
    <3> QED
      BY <3>1
  <2>3. g \in [0 .. m -> S]
    BY <2>2
  <2>4. Solves(g, m)
    <3>1. g[0] = z /\ g[m] = step[<<m, f[m - 1]>>]
      BY <2>1
    <3>2. \A k \in 0 .. m - 1 : g[k] = f[k]
      OBVIOUS
    <3> HIDE DEF g
    <3>3. \A k \in 1 .. m : k - 1 \in 0 .. m - 1 /\ (k = m \/ k \in 1 .. m - 1)
      OBVIOUS
    <3>4. ASSUME NEW k \in 1 .. m PROVE g[k] = step[<<k, g[k - 1]>>]
      <4>1. g[k - 1] = f[k - 1]
        BY <3>2, <3>3
      <4>2. CASE k = m
        BY <3>1, <4>1, <4>2
      <4>3. CASE k \in 1 .. m - 1
        <5>1. g[k] = f[k] /\ f[k] = step[<<k, f[k - 1]>>]
          BY <2>1, <3>2, <4>3
        <5> QED
          BY <4>1, <5>1
      <4> QED
        BY <3>3, <4>2, <4>3
    <3> QED
      BY <3>1, <3>4
  <2> HIDE DEF g
  <2> QED
    BY <2>3, <2>4
<1>3. 0 .. n \subseteq good
  <2> HIDE DEF good
  <2> QED
    BY <1>1, <1>2, Upwards, Zenon
<1>4. n \in good
  BY <1>3
<1> QED
  BY <1>4

-----------------------------------------------------------------------------
\* What agy says.
Text == Seq({"word", "CR", "LF"})

\* A recursion over the pieces of a text has its function.
LEMMA TextRecursion ==
    ASSUME NEW z \in Text, NEW n \in Nat, NEW step \in [(1 .. n) \X Text -> Text]
    PROVE  \E f \in [0 .. n -> Text] :
              f[0] = z /\ \A k \in 1 .. n : f[k] = step[<<k, f[k - 1]>>]
BY Recursion

\* A text is empty or begins with a piece, and shorter texts come first.
LEMMA TextInduction ==
    ASSUME NEW good, <<>> \in good,
           \A p \in {"word", "CR", "LF"}, a \in Text : a \in good => <<p>> \o a \in good
    PROVE  Text \subseteq good
<1> DEFINE short == {k \in Nat : \A a \in Text : Len(a) = k => a \in good}
<1>1. 0 \in short
  BY DEF Text
<1>2. ASSUME NEW k \in Nat \ {0}, k - 1 \in short
      PROVE  k \in short
  <2> SUFFICES ASSUME NEW a \in Text, Len(a) = k PROVE a \in good
    OBVIOUS
  <2>1. /\ a # <<>> /\ Tail(a) \in Text /\ Len(Tail(a)) = k - 1
        /\ Head(a) \in {"word", "CR", "LF"}
    BY DEF Text
  <2>2. a = <<Head(a)>> \o Tail(a)
    BY <2>1 DEF Text
  <2> QED
    BY <1>2, <2>1, <2>2
<1> SUFFICES ASSUME NEW a \in Text PROVE a \in good
  OBVIOUS
<1>3. Len(a) \in Nat
  BY DEF Text
<1>4. 0 .. Len(a) \subseteq short
  <2>1. \A k \in 1 .. Len(a) : k - 1 \in short => k \in short
    <3> HIDE DEF short
    <3> QED
      BY <1>2, <1>3
  <2> HIDE DEF short
  <2> QED
    BY <1>1, <1>3, <2>1, Upwards, Zenon
<1>5. Len(a) \in short
  BY <1>3, <1>4
<1> QED
  BY <1>5

\* What is read when this text is read from its end and this has been read before.
After(text, z) ==
    LET last[i \in 0 .. Len(text)] ==
          IF i = 0 THEN z ELSE Stream!Before(text[Len(text) - i + 1], last[i - 1])
    IN last[Len(text)]

\* This function reads a text from its end.
IsAfter(text, z, f) ==
    f = [i \in 0 .. Len(text) |->
           IF i = 0 THEN z ELSE Stream!Before(text[Len(text) - i + 1], f[i - 1])]

\* The lines of a text are what it makes before nothing.
LEMMA LinesIsAfter == \A text : Stream!Lines(text) = After(text, <<>>)
BY DEF After, Stream!Lines

\* A piece before a text makes a text.
LEMMA BeforeIsText ==
    ASSUME NEW p \in {"word", "CR", "LF"}, NEW u \in Text
    PROVE  Stream!Before(p, u) \in Text /\ <<p>> \o u \in Text
<1>1. <<p>> \o u \in Text
  <2>1. <<p>> \in Seq({"word", "CR", "LF"})
    OBVIOUS
  <2> QED
    BY <2>1, ConcatProperties DEF Text
<1> QED
  BY <1>1 DEF Stream!Before

\* The recursion unfolds.
LEMMA AfterUnfolds ==
    ASSUME NEW a \in Text, NEW z \in Text
    PROVE  \E f \in [0 .. Len(a) -> Text] :
              /\ f[0] = z
              /\ \A i \in 1 .. Len(a) : f[i] = Stream!Before(a[Len(a) - i + 1], f[i - 1])
              /\ After(a, z) = f[Len(a)]
<1> DEFINE n == Len(a)
           step == [x \in (1 .. n) \X Text |-> Stream!Before(a[n - x[1] + 1], x[2])]
           F == CHOOSE f : IsAfter(a, z, f)
<1>1. n \in Nat /\ \A i \in 1 .. n : a[n - i + 1] \in {"word", "CR", "LF"}
  BY DEF Text
<1>2. step \in [(1 .. n) \X Text -> Text]
  BY <1>1, BeforeIsText
<1>3. PICK f \in [0 .. n -> Text] :
         f[0] = z /\ \A k \in 1 .. n : f[k] = step[<<k, f[k - 1]>>]
  <2>1. n \in Nat
    BY <1>1
  <2>2. z \in Text
    OBVIOUS
  <2> HIDE DEF step, n, F, Text
  <2> QED
    BY <1>2, <2>1, <2>2, TextRecursion
<1>4. \A k \in 1 .. n : f[k] = Stream!Before(a[n - k + 1], f[k - 1])
  <2>1. \A k \in 1 .. n : <<k, f[k - 1]>> \in (1 .. n) \X Text
    <3>1. \A k \in 1 .. n : k - 1 \in 0 .. n
      BY <1>1
    <3> HIDE DEF n
    <3> QED
      BY <3>1
  <2> QED
    BY <1>3, <2>1
<1>5. IsAfter(a, z, f)
  <2>1. f = [i \in 0 .. n |-> f[i]]
    OBVIOUS
  <2>2. \A i \in 0 .. n : f[i] = IF i = 0 THEN z ELSE Stream!Before(a[n - i + 1], f[i - 1])
    BY <1>1, <1>3, <1>4
  <2> QED
    BY <2>1, <2>2 DEF IsAfter
<1>6. IsAfter(a, z, F)
  BY <1>5, Zenon
<1>7. After(a, z) = F[n]
  BY DEF After, IsAfter
<1> HIDE DEF F
<1>8. F[0] = z /\ \A i \in 1 .. n : F[i] = Stream!Before(a[n - i + 1], F[i - 1])
  BY <1>1, <1>6 DEF IsAfter
<1>9. F \in [0 .. n -> Text]
  <2> DEFINE good == {i \in 0 .. n : F[i] = f[i]}
  <2>1. 0 .. n \subseteq good
    <3>1. 0 \in good
      BY <1>1, <1>3, <1>8
    <3>2. \A k \in 1 .. n : k - 1 \in good => k \in good
      BY <1>1, <1>4, <1>8
    <3> HIDE DEF good, n
    <3> QED
      BY <1>1, <3>1, <3>2, Upwards, Zenon
  <2>2. F = [i \in 0 .. n |-> F[i]]
    BY <1>6 DEF IsAfter
  <2> QED
    BY <2>1, <2>2
<1> QED
  BY <1>7, <1>8, <1>9

\* And so does a text before another.
LEMMA AfterIsText == \A a, z \in Text : After(a, z) \in Text
<1> SUFFICES ASSUME NEW a \in Text, NEW z \in Text PROVE After(a, z) \in Text
  OBVIOUS
<1>1. Len(a) \in Nat
  BY DEF Text
<1>2. Len(a) \in 0 .. Len(a)
  BY <1>1
<1> QED
  BY <1>2, AfterUnfolds

\* Texts join to a text ...
LEMMA JoinIsText ==
    ASSUME NEW a \in Text, NEW b \in Text
    PROVE  /\ a \o b \in Text /\ Len(a) \in Nat /\ Len(b) \in Nat
           /\ Len(a \o b) = Len(a) + Len(b)
           /\ \A i \in 1 .. Len(a) + Len(b) :
                 (a \o b)[i] = IF i <= Len(a) THEN a[i] ELSE b[i - Len(a)]
BY ConcatProperties DEF Text

\* ... in any order.
LEMMA JoinAssociates == \A a, b, c \in Text : a \o (b \o c) = (a \o b) \o c
BY ConcatAssociative DEF Text

\* What is joined is read one after the other.
LEMMA AfterJoins ==
    ASSUME NEW a \in Text, NEW b \in Text, NEW z \in Text
    PROVE  After(a \o b, z) = After(a, After(b, z))
<1> DEFINE y == After(b, z)
           m == Len(a)
           n == Len(b)
           ab == a \o b
<1>1. /\ ab \in Text /\ m \in Nat /\ n \in Nat /\ Len(ab) = m + n
      /\ \A i \in 1 .. m + n : ab[i] = IF i <= m THEN a[i] ELSE b[i - m]
  BY JoinIsText
<1>2. y \in Text
  BY AfterIsText
<1>3. PICK f \in [0 .. Len(ab) -> Text] :
         /\ f[0] = z
         /\ \A i \in 1 .. Len(ab) : f[i] = Stream!Before(ab[Len(ab) - i + 1], f[i - 1])
         /\ After(ab, z) = f[Len(ab)]
  <2> HIDE DEF ab
  <2> QED
    BY <1>1, AfterUnfolds
<1>4. PICK g \in [0 .. n -> Text] :
         /\ g[0] = z
         /\ \A i \in 1 .. n : g[i] = Stream!Before(b[n - i + 1], g[i - 1])
         /\ After(b, z) = g[n]
  BY AfterUnfolds
<1>5. PICK h \in [0 .. m -> Text] :
         /\ h[0] = y
         /\ \A i \in 1 .. m : h[i] = Stream!Before(a[m - i + 1], h[i - 1])
         /\ After(a, y) = h[m]
  <2> HIDE DEF y
  <2> QED
    BY <1>2, AfterUnfolds
<1> HIDE DEF ab, m, n
<1>6. f[n] = g[n]
  <2> DEFINE good == {i \in 0 .. n : f[i] = g[i]}
  <2>1. 0 \in good
    BY <1>1, <1>3, <1>4
  <2>2. ASSUME NEW i \in 1 .. n, i - 1 \in good PROVE i \in good
    <3>1. i \in 1 .. m + n /\ m + n - i + 1 \in 1 .. m + n
          /\ ~(m + n - i + 1 <= m) /\ m + n - i + 1 - m = n - i + 1 /\ i \in 0 .. n
      BY <1>1
    <3>2. ab[m + n - i + 1] = b[n - i + 1]
      BY <1>1, <3>1
    <3> QED
      BY <1>1, <1>3, <1>4, <2>2, <3>1, <3>2
  <2>3. 0 .. n \subseteq good
    <3> HIDE DEF good
    <3> QED
      BY <1>1, <2>1, <2>2, Upwards, Zenon
  <2> QED
    BY <1>1, <2>3
<1>7. f[n + m] = h[m]
  <2> DEFINE good == {i \in 0 .. m : f[n + i] = h[i]}
  <2>1. 0 \in good
    BY <1>1, <1>4, <1>5, <1>6 DEF y
  <2>2. ASSUME NEW i \in 1 .. m, i - 1 \in good PROVE i \in good
    <3>1. /\ n + i \in 1 .. m + n /\ m + n - (n + i) + 1 = m - i + 1
          /\ m - i + 1 \in 1 .. m + n /\ m - i + 1 <= m
          /\ n + i - 1 = n + (i - 1) /\ i \in 0 .. m
      BY <1>1
    <3>2. ab[m - i + 1] = a[m - i + 1]
      BY <1>1, <3>1
    <3>3. f[n + i] = Stream!Before(ab[m - i + 1], f[n + (i - 1)])
      BY <1>1, <1>3, <3>1
    <3>4. f[n + (i - 1)] = h[i - 1]
      BY <2>2
    <3> QED
      BY <1>5, <3>1, <3>2, <3>3, <3>4
  <2>3. 0 .. m \subseteq good
    <3> HIDE DEF good
    <3> QED
      BY <1>1, <2>1, <2>2, Upwards, Zenon
  <2> QED
    BY <1>1, <2>3
<1> QED
  BY <1>1, <1>3, <1>5, <1>7 DEF ab, y, m, n

\* No text before another changes nothing.
LEMMA AfterNone == \A z \in Text : After(<<>>, z) = z
<1>1. <<>> \in Text /\ Len(<<>>) = 0
  BY DEF Text
<1> QED
  BY <1>1, AfterUnfolds

\* The first piece is read last.
LEMMA AfterFirst ==
    ASSUME NEW p \in {"word", "CR", "LF"}, NEW a \in Text, NEW z \in Text
    PROVE  After(<<p>> \o a, z) = Stream!Before(p, After(a, z))
<1>1. <<p>> \in Text /\ Len(<<p>>) = 1 /\ <<p>>[1] = p
  BY DEF Text
<1>2. After(a, z) \in Text
  BY AfterIsText
<1>3. After(<<p>> \o a, z) = After(<<p>>, After(a, z))
  BY <1>1, AfterJoins
<1> DEFINE y == After(a, z)
           q == <<p>>
<1> HIDE DEF y, q
<1>4. PICK f \in [0 .. Len(q) -> Text] :
         /\ f[0] = y
         /\ \A i \in 1 .. Len(q) : f[i] = Stream!Before(q[Len(q) - i + 1], f[i - 1])
         /\ After(q, y) = f[Len(q)]
  BY <1>1, <1>2, AfterUnfolds DEF q, y
<1>5. After(q, y) = Stream!Before(p, y)
  <2>1. Len(q) = 1 /\ q[1] = p
    BY <1>1 DEF q
  <2> QED
    BY <1>4, <2>1
<1> QED
  BY <1>3, <1>5 DEF q, y

\* A line end is read as one.
LEMMA AfterLineFeed ==
    ASSUME NEW a \in Text, NEW z \in Text, a # <<>>, a[1] = "LF"
    PROVE  Stream!Before("CR", After(a, z)) = After(a, z)
<1>1. Tail(a) \in Text /\ a = <<"LF">> \o Tail(a)
  BY DEF Text
<1>2. After(a, z) = Stream!Before("LF", After(Tail(a), z))
  BY <1>1, AfterFirst
<1> DEFINE y == After(Tail(a), z)
<1>3. y \in Text
  BY <1>1, AfterIsText
<1> HIDE DEF y
<1>4. After(a, z) = <<"LF">> \o y
  BY <1>2 DEF Stream!Before, y
<1>5. (<<"LF">> \o y)[1] = "LF" /\ <<"LF">> \o y # <<>>
  BY <1>3 DEF Text
<1> QED
  BY <1>4, <1>5 DEF Stream!Before

\* This function folds a text from its beginning.
IsKept(text, f) ==
    f = [i \in 0 .. Len(text) |->
           IF i = 0 THEN <<>>
           ELSE IF i < Len(text) /\ text[i] = "CR" /\ text[i + 1] = "LF" THEN f[i - 1]
           ELSE Append(f[i - 1], text[i])]

\* Fold unfolds likewise.
LEMMA FoldUnfolds ==
    ASSUME NEW a \in Text
    PROVE  \E f \in [0 .. Len(a) -> Text] :
              /\ f[0] = <<>>
              /\ \A i \in 1 .. Len(a) :
                    f[i] = IF i < Len(a) /\ a[i] = "CR" /\ a[i + 1] = "LF" THEN f[i - 1]
                           ELSE Append(f[i - 1], a[i])
              /\ Stream!Fold(a) = f[Len(a)]
<1> DEFINE n == Len(a)
           next(i, u) == IF i < n /\ a[i] = "CR" /\ a[i + 1] = "LF" THEN u ELSE Append(u, a[i])
           step == [x \in (1 .. n) \X Text |-> next(x[1], x[2])]
           F == CHOOSE f : IsKept(a, f)
<1>1. n \in Nat /\ (\A i \in 1 .. n : a[i] \in {"word", "CR", "LF"}) /\ <<>> \in Text
  BY DEF Text
<1>2. \A i \in 1 .. n, u \in Text : next(i, u) \in Text
  BY <1>1 DEF Text
<1>3. step \in [(1 .. n) \X Text -> Text]
  <2> HIDE DEF next
  <2> QED
    BY <1>2
<1>4. PICK f \in [0 .. n -> Text] :
         f[0] = <<>> /\ \A k \in 1 .. n : f[k] = step[<<k, f[k - 1]>>]
  <2>1. n \in Nat /\ <<>> \in Text
    BY <1>1
  <2> DEFINE z == <<>>
  <2>2. z \in Text
    BY <1>1
  <2> HIDE DEF step, next, n, F, Text, z
  <2>3. \E f \in [0 .. n -> Text] : f[0] = z /\ \A k \in 1 .. n : f[k] = step[<<k, f[k - 1]>>]
    BY <1>3, <2>1, <2>2, TextRecursion
  <2> QED
    BY <2>3 DEF z
<1>5. \A k \in 1 .. n : f[k] = next(k, f[k - 1])
  <2>1. \A k \in 1 .. n : <<k, f[k - 1]>> \in (1 .. n) \X Text
    <3>1. \A k \in 1 .. n : k - 1 \in 0 .. n
      BY <1>1
    <3> HIDE DEF n
    <3> QED
      BY <3>1
  <2> HIDE DEF next
  <2> QED
    BY <1>4, <2>1
<1>6. IsKept(a, f)
  <2>1. f = [i \in 0 .. n |-> f[i]]
    OBVIOUS
  <2>2. \A i \in 0 .. n : f[i] = IF i = 0 THEN <<>> ELSE next(i, f[i - 1])
    <3> HIDE DEF next
    <3> QED
      BY <1>1, <1>4, <1>5
  <2> QED
    BY <2>1, <2>2 DEF IsKept
<1>7. IsKept(a, F)
  BY <1>6, Zenon
<1>8. Stream!Fold(a) = F[n]
  BY DEF Stream!Fold, IsKept
<1> HIDE DEF F
<1>9. F[0] = <<>> /\ \A i \in 1 .. n : F[i] = next(i, F[i - 1])
  <2>1. \A i \in 0 .. n : F[i] = IF i = 0 THEN <<>> ELSE next(i, F[i - 1])
    BY <1>7 DEF IsKept
  <2> HIDE DEF next
  <2> QED
    BY <1>1, <2>1
<1>10. F \in [0 .. n -> Text]
  <2> DEFINE good == {i \in 0 .. n : F[i] = f[i]}
  <2>1. 0 .. n \subseteq good
    <3>1. 0 \in good
      BY <1>1, <1>4, <1>9
    <3>2. \A k \in 1 .. n : k - 1 \in good => k \in good
      <4> HIDE DEF next
      <4> QED
        BY <1>1, <1>5, <1>9
    <3> HIDE DEF good, n
    <3> QED
      BY <1>1, <3>1, <3>2, Upwards, Zenon
  <2>2. F = [i \in 0 .. n |-> F[i]]
    BY <1>7 DEF IsKept
  <2> QED
    BY <2>1, <2>2
<1> QED
  BY <1>8, <1>9, <1>10

\* Folding makes a text of a text ...
LEMMA FoldIsText == Stream!Fold(<<>>) = <<>> /\ \A a \in Text : Stream!Fold(a) \in Text
<1>1. \A a \in Text : Len(a) \in 0 .. Len(a)
  BY DEF Text
<1>2. \A a \in Text : Stream!Fold(a) \in Text
  BY <1>1, FoldUnfolds
<1>3. <<>> \in Text /\ Len(<<>>) = 0
  BY DEF Text
<1> QED
  BY <1>2, <1>3, FoldUnfolds

\* A CR goes if an LF is next; every other piece stays.
LEMMA FoldFirst ==
    ASSUME NEW p \in {"word", "CR", "LF"}, NEW a \in Text
    PROVE  Stream!Fold(<<p>> \o a) =
              IF p = "CR" /\ a # <<>> /\ a[1] = "LF" THEN Stream!Fold(a)
              ELSE <<p>> \o Stream!Fold(a)
<1> DEFINE n == Len(a)
           pa == <<p>> \o a
           first == IF p = "CR" /\ a # <<>> /\ a[1] = "LF" THEN <<>> ELSE <<p>>
<1>1. /\ pa \in Text /\ n \in Nat /\ Len(pa) = n + 1
      /\ pa[1] = p /\ \A i \in 1 .. n : pa[i + 1] = a[i]
      /\ a # <<>> <=> n > 0
      /\ \A i \in 1 .. n : a[i] \in {"word", "CR", "LF"}
  BY DEF Text
<1>2. PICK f \in [0 .. n + 1 -> Text] :
         /\ f[0] = <<>>
         /\ \A i \in 1 .. n + 1 :
               f[i] = IF i < n + 1 /\ pa[i] = "CR" /\ pa[i + 1] = "LF" THEN f[i - 1]
                      ELSE Append(f[i - 1], pa[i])
         /\ Stream!Fold(pa) = f[n + 1]
  <2> HIDE DEF pa
  <2> QED
    BY <1>1, FoldUnfolds
<1>3. PICK g \in [0 .. n -> Text] :
         /\ g[0] = <<>>
         /\ \A i \in 1 .. n :
               g[i] = IF i < n /\ a[i] = "CR" /\ a[i + 1] = "LF" THEN g[i - 1]
                      ELSE Append(g[i - 1], a[i])
         /\ Stream!Fold(a) = g[n]
  BY FoldUnfolds
<1> HIDE DEF pa
<1>4. first \in Text /\ f[1] = first
  <2>1. 1 \in 1 .. n + 1 /\ (1 < n + 1 <=> n > 0) /\ (n > 0 => pa[2] = a[1])
    BY <1>1
  <2>a. f[1] = IF 1 < n + 1 /\ pa[1] = "CR" /\ pa[1 + 1] = "LF" THEN f[1 - 1]
               ELSE Append(f[1 - 1], pa[1])
    BY <1>2, <2>1
  <2>2. f[1] = IF n > 0 /\ p = "CR" /\ a[1] = "LF" THEN <<>> ELSE Append(<<>>, p)
    BY <1>1, <1>2, <2>1, <2>a
  <2>3. Append(<<>>, p) = <<p>> /\ <<p>> \in Text /\ <<>> \in Text
    BY DEF Text
  <2> QED
    BY <1>1, <2>2, <2>3
<1> DEFINE good == {i \in 0 .. n : f[i + 1] = first \o g[i]}
<1>5. 0 \in good
  <2>1. first \o <<>> = first
    BY <1>4, ConcatEmptySeq DEF Text
  <2> HIDE DEF first
  <2>2. f[0 + 1] = first \o g[0] /\ 0 \in 0 .. n
    BY <1>1, <1>3, <1>4, <2>1
  <2> QED
    BY <2>2
<1> HIDE DEF first
<1>6. ASSUME NEW i \in 1 .. n, i - 1 \in good PROVE i \in good
  <2>1. /\ i \in 0 .. n /\ i + 1 \in 1 .. n + 1 /\ (i + 1 < n + 1 <=> i < n)
        /\ (i + 1) - 1 = i /\ pa[i + 1] = a[i] /\ (i < n => pa[i + 2] = a[i + 1])
        /\ (i + 1) + 1 = i + 2 /\ i - 1 \in 0 .. n
    <3>1. i < n => i + 1 \in 1 .. n /\ (i + 1) + 1 = i + 2
      BY <1>1
    <3> QED
      BY <1>1, <3>1
  <2>2. f[i] = first \o g[i - 1]
    BY <1>6
  <2>3. f[i + 1] = IF i < n /\ a[i] = "CR" /\ a[i + 1] = "LF" THEN f[i]
                   ELSE Append(f[i], a[i])
    BY <1>2, <2>1
  <2>4. g[i] = IF i < n /\ a[i] = "CR" /\ a[i + 1] = "LF" THEN g[i - 1]
               ELSE Append(g[i - 1], a[i])
    BY <1>3
  <2>5. g[i - 1] \in Text /\ a[i] \in {"word", "CR", "LF"}
    BY <1>1, <2>1
  <2>6. Append(first \o g[i - 1], a[i]) = first \o Append(g[i - 1], a[i])
    <3> DEFINE u == g[i - 1]
               q == a[i]
    <3>1. u \in Seq({"word", "CR", "LF"}) /\ q \in {"word", "CR", "LF"}
          /\ first \in Seq({"word", "CR", "LF"})
      BY <1>4, <2>5 DEF Text
    <3> HIDE DEF u, q
    <3>2. <<q>> \in Seq({"word", "CR", "LF"}) /\ first \o u \in Seq({"word", "CR", "LF"})
      BY <3>1, ConcatProperties
    <3>3. /\ Append(first \o u, q) = (first \o u) \o <<q>>
          /\ Append(u, q) = u \o <<q>>
      BY <3>1, <3>2, AppendIsConcat
    <3>4. (first \o u) \o <<q>> = first \o (u \o <<q>>)
      BY <3>1, <3>2, ConcatAssociative
    <3>5. Append(first \o u, q) = first \o Append(u, q)
      BY <3>3, <3>4
    <3> QED
      BY <3>5 DEF u, q
  <2>7. f[i + 1] = first \o g[i]
    BY <2>2, <2>3, <2>4, <2>6
  <2> QED
    BY <2>1, <2>7
<1>7. 0 .. n \subseteq good
  <2> HIDE DEF good, n
  <2> QED
    BY <1>1, <1>5, <1>6, Upwards, Zenon
<1>8. Stream!Fold(pa) = first \o Stream!Fold(a)
  <2>1. n \in good
    BY <1>1, <1>7
  <2> QED
    BY <1>2, <1>3, <2>1
<1>9. <<>> \o Stream!Fold(a) = Stream!Fold(a)
  BY FoldIsText DEF Text
<1> QED
  BY <1>8, <1>9 DEF first, pa

\* Folded or not, a text reads the same.
LEMMA FoldReadsAlike == \A a, z \in Text : After(Stream!Fold(a), z) = After(a, z)
<1> DEFINE good == {a \in Text : \A z \in Text : After(Stream!Fold(a), z) = After(a, z)}
<1>1. <<>> \in good
  BY FoldIsText DEF Text
<1>2. ASSUME NEW p \in {"word", "CR", "LF"}, NEW a \in Text, a \in good
      PROVE  <<p>> \o a \in good
  <2>1. <<p>> \o a \in Text
    BY BeforeIsText
  <2>2. ASSUME NEW z \in Text
        PROVE  After(Stream!Fold(<<p>> \o a), z) = After(<<p>> \o a, z)
    <3>1. After(<<p>> \o a, z) = Stream!Before(p, After(a, z))
      BY AfterFirst
    <3>2. After(Stream!Fold(a), z) = After(a, z)
      BY <1>2
    <3>3. CASE p = "CR" /\ a # <<>> /\ a[1] = "LF"
      BY <3>1, <3>2, <3>3, AfterLineFeed, FoldFirst
    <3>4. CASE ~(p = "CR" /\ a # <<>> /\ a[1] = "LF")
      <4>1. Stream!Fold(<<p>> \o a) = <<p>> \o Stream!Fold(a)
        BY <3>4, FoldFirst
      <4>2. Stream!Fold(a) \in Text
        BY FoldIsText
      <4>3. After(<<p>> \o Stream!Fold(a), z) = Stream!Before(p, After(Stream!Fold(a), z))
        BY <4>2, AfterFirst
      <4> QED
        BY <3>1, <3>2, <4>1, <4>3
    <3> QED
      BY <3>3, <3>4
  <2> QED
    BY <2>1, <2>2
<1>3. Text \subseteq good
  <2> HIDE DEF good
  <2> QED
    BY <1>1, <1>2, TextInduction
<1> QED
  BY <1>3

\* TrimEnd cuts after the last word.
LEMMA TrimCuts ==
    ASSUME NEW a \in Text
    PROVE  \E k \in 0 .. Len(a) :
              /\ Stream!TrimEnd(a) = SubSeq(a, 1, k)
              /\ k > 0 => a[k] = "word"
              /\ \A i \in 1 .. Len(a) : a[i] = "word" => i <= k
<1> DEFINE n == Len(a)
           words == {0} \cup {i \in DOMAIN a : a[i] = "word"}
           k == Stream!Max(words)
<1>1. n \in Nat /\ DOMAIN a = 1 .. n
  BY DEF Text
<1>2. words \subseteq 0 .. n /\ words # {}
  BY <1>1
<1>3. \E m \in words : \A i \in words : i <= m
  <2>1. 1 \in Nat \ {0}
    OBVIOUS
  <2> HIDE DEF words, n
  <2> QED
    BY <1>1, <1>2, <2>1, B!GreatestNatural, Zenon
<1>4. k \in words /\ \A i \in words : k >= i
  <2> HIDE DEF words
  <2>1. \E m \in words : \A i \in words : m >= i
    BY <1>2, <1>3
  <2> QED
    BY <2>1 DEF Stream!Max
<1>5. Stream!TrimEnd(a) = SubSeq(a, 1, k)
  BY DEF Stream!TrimEnd
<1> HIDE DEF k
<1>6. k \in 0 .. n /\ (k > 0 => a[k] = "word")
  BY <1>1, <1>4
<1>7. \A i \in 1 .. n : a[i] = "word" => i <= k
  BY <1>1, <1>4, <1>6
<1> QED
  BY <1>5, <1>6, <1>7

\* And so does trimming.
LEMMA TrimIsText == Stream!TrimEnd(<<>>) = <<>> /\ \A a \in Text : Stream!TrimEnd(a) \in Text
<1>1. ASSUME NEW a \in Text PROVE Stream!TrimEnd(a) \in Text
  <2>1. PICK k \in 0 .. Len(a) : Stream!TrimEnd(a) = SubSeq(a, 1, k)
    BY TrimCuts
  <2>2. Len(a) \in Nat /\ \A i \in 1 .. k : a[i] \in {"word", "CR", "LF"}
    BY DEF Text
  <2> QED
    BY <2>1, <2>2, SubSeqProperties DEF Text
<1>2. <<>> \in Text /\ Len(<<>>) = 0
  BY DEF Text
<1>3. Stream!TrimEnd(<<>>) = <<>>
  BY <1>2, TrimCuts, SubSeqEmpty
<1> QED
  BY <1>1, <1>3

\* A first piece stays if a word follows, or if it is one.
LEMMA TrimFirst ==
    ASSUME NEW p \in {"word", "CR", "LF"}, NEW a \in Text
    PROVE  /\ Stream!TrimEnd(<<p>> \o a) =
                 IF Stream!TrimEnd(a) # <<>> \/ p = "word" THEN <<p>> \o Stream!TrimEnd(a)
                 ELSE <<>>
           /\ Stream!TrimEnd(a) # <<>> => a # <<>> /\ a[1] = Stream!TrimEnd(a)[1]
<1> DEFINE n == Len(a)
           pa == <<p>> \o a
<1>1. /\ pa \in Text /\ n \in Nat /\ Len(pa) = n + 1
      /\ pa[1] = p /\ \A i \in 1 .. n : pa[i + 1] = a[i]
      /\ a # <<>> <=> n > 0
      /\ \A i \in 1 .. n : a[i] \in {"word", "CR", "LF"}
  BY DEF Text
<1> HIDE DEF pa
<1>2. PICK k \in 0 .. n :
         /\ Stream!TrimEnd(a) = SubSeq(a, 1, k)
         /\ k > 0 => a[k] = "word"
         /\ \A i \in 1 .. n : a[i] = "word" => i <= k
  BY TrimCuts
<1>3. PICK j \in 0 .. n + 1 :
         /\ Stream!TrimEnd(pa) = SubSeq(pa, 1, j)
         /\ j > 0 => pa[j] = "word"
         /\ \A i \in 1 .. n + 1 : pa[i] = "word" => i <= j
  BY <1>1, TrimCuts
<1>a. /\ n \in Nat /\ k \in 0 .. n /\ j \in 0 .. n + 1
      /\ k > 0 => a[k] = "word"
      /\ \A i \in 1 .. n : a[i] = "word" => i <= k
      /\ j > 0 => pa[j] = "word"
      /\ \A i \in 1 .. n + 1 : pa[i] = "word" => i <= j
      /\ pa[1] = p /\ \A i \in 1 .. n : pa[i + 1] = a[i]
  <2> HIDE DEF n
  <2> QED
    BY <1>1, <1>2, <1>3, Zenon
<1>b. Stream!TrimEnd(a) = SubSeq(a, 1, k) /\ Stream!TrimEnd(pa) = SubSeq(pa, 1, j)
  BY <1>2, <1>3, Zenon
<1>4. j = IF k > 0 \/ p = "word" THEN k + 1 ELSE 0
  <2> HIDE DEF n
  <2>1. ASSUME j > 1 PROVE j - 1 <= k
    <3>1. j - 1 \in 1 .. n /\ (j - 1) + 1 = j
      BY <1>a, <2>1
    <3>2. pa[j] = a[j - 1]
      BY <1>a, <3>1
    <3> QED
      BY <1>a, <2>1, <3>1, <3>2
  <2>2. ASSUME k > 0 PROVE k + 1 <= j
    <3>1. k + 1 \in 1 .. n + 1 /\ k \in 1 .. n
      BY <1>a, <2>2
    <3>2. pa[k + 1] = "word"
      BY <1>a, <2>2, <3>1
    <3> QED
      BY <1>a, <3>1, <3>2
  <2>3. 1 \in 1 .. n + 1
    BY <1>a
  <2>4. (p = "word" => 1 <= j) /\ (j = 1 => p = "word")
    BY <1>a, <2>3
  <2> QED
    BY <1>a, <2>1, <2>2, <2>4
<1>5. /\ SubSeq(a, 1, k) \in Text /\ Len(SubSeq(a, 1, k)) = k
      /\ \A i \in 1 .. k : SubSeq(a, 1, k)[i] = a[i]
  BY <1>1, SubSeqProperties DEF Text
<1>6. SubSeq(a, 1, k) # <<>> <=> k > 0
  BY <1>5 DEF Text
<1>7. SubSeq(pa, 1, k + 1) = <<p>> \o SubSeq(a, 1, k)
  <2> DEFINE s == SubSeq(pa, 1, k + 1)
             t == <<p>> \o SubSeq(a, 1, k)
  <2>1. /\ s \in Text /\ Len(s) = k + 1 /\ \A i \in 1 .. k + 1 : s[i] = pa[i]
    <3>1. k + 1 \in Nat /\ \A i \in 1 .. k + 1 : pa[i] \in {"word", "CR", "LF"}
      BY <1>1 DEF Text
    <3> QED
      BY <3>1, SubSeqProperties DEF Text
  <2>2. /\ t \in Text /\ Len(t) = k + 1 /\ t[1] = p
        /\ \A i \in 1 .. k : t[i + 1] = SubSeq(a, 1, k)[i]
    BY <1>5 DEF Text
  <2> HIDE DEF s, t
  <2>3. \A i \in 1 .. k + 1 : s[i] = t[i]
    <3>1. ASSUME NEW i \in 1 .. k + 1, i # 1 PROVE s[i] = t[i]
      <4>1. i - 1 \in 1 .. k /\ (i - 1) + 1 = i /\ i - 1 \in 1 .. n
        BY <1>1, <3>1
      <4>2. s[i] = a[i - 1]
        BY <1>1, <2>1, <4>1
      <4>3. t[i] = a[i - 1]
        BY <1>5, <2>2, <4>1
      <4> QED
        BY <4>2, <4>3
    <3> QED
      BY <1>1, <2>1, <2>2, <3>1
  <2>4. s = t
    BY <2>1, <2>2, <2>3, SeqEqual DEF Text
  <2> QED
    BY <2>4 DEF s, t
<1>8. j = 0 => SubSeq(pa, 1, j) = <<>>
  BY SubSeqEmpty
<1>9. k > 0 => 1 \in 1 .. k
  OBVIOUS
<1> DEFINE ta == Stream!TrimEnd(a)
<1>10. Stream!TrimEnd(pa) = IF ta # <<>> \/ p = "word" THEN <<p>> \o ta ELSE <<>>
  <2>1. CASE k > 0 \/ p = "word"
    <3>1. j = k + 1
      BY <1>4, <2>1
    <3>2. Stream!TrimEnd(pa) = <<p>> \o ta
      BY <1>b, <1>7, <3>1, Zenon
    <3>3. ta # <<>> \/ p = "word"
      BY <1>b, <1>6, <2>1, Zenon
    <3> QED
      BY <3>2, <3>3, Zenon
  <2>2. CASE ~(k > 0 \/ p = "word")
    <3>1. j = 0
      BY <1>4, <2>2
    <3>2. Stream!TrimEnd(pa) = <<>>
      BY <1>b, <1>8, <3>1, Zenon
    <3>3. ~(ta # <<>> \/ p = "word")
      BY <1>b, <1>6, <2>2, Zenon
    <3> QED
      BY <3>2, <3>3, Zenon
  <2> QED
    BY <2>1, <2>2
<1>11. ASSUME ta # <<>> PROVE a # <<>> /\ a[1] = ta[1]
  <2>1. k > 0
    BY <1>b, <1>6, <1>11, Zenon
  <2>2. a # <<>> /\ 1 \in 1 .. k
    BY <1>1, <2>1
  <2>3. SubSeq(a, 1, k)[1] = a[1]
    BY <1>5, <2>2, Zenon
  <2> QED
    BY <1>b, <2>2, <2>3, Zenon
<1> QED
  BY <1>10, <1>11 DEF pa

\* Texts with the same trimmed text have it still when the same is read after them.
LEMMA TrimBefore ==
    ASSUME NEW p \in {"word", "CR", "LF"}, NEW u \in Text, NEW v \in Text,
           Stream!TrimEnd(u) = Stream!TrimEnd(v)
    PROVE  /\ Stream!TrimEnd(Stream!Before(p, u)) = Stream!TrimEnd(Stream!Before(p, v))
           /\ p # "word" /\ Stream!TrimEnd(u) = <<>> => Stream!TrimEnd(Stream!Before(p, u)) = <<>>
<1> DEFINE t == Stream!TrimEnd(u)
<1>1. /\ Stream!TrimEnd(<<p>> \o u) = IF t # <<>> \/ p = "word" THEN <<p>> \o t ELSE <<>>
      /\ Stream!TrimEnd(<<p>> \o v) = IF t # <<>> \/ p = "word" THEN <<p>> \o t ELSE <<>>
      /\ t # <<>> => u # <<>> /\ v # <<>> /\ u[1] = t[1] /\ v[1] = t[1]
  <2>1. Stream!TrimEnd(u) = t /\ Stream!TrimEnd(v) = t
    OBVIOUS
  <2>2. /\ Stream!TrimEnd(<<p>> \o u) = IF Stream!TrimEnd(u) # <<>> \/ p = "word"
                                        THEN <<p>> \o Stream!TrimEnd(u) ELSE <<>>
        /\ Stream!TrimEnd(u) # <<>> => u # <<>> /\ u[1] = Stream!TrimEnd(u)[1]
    BY TrimFirst
  <2>3. /\ Stream!TrimEnd(<<p>> \o v) = IF Stream!TrimEnd(v) # <<>> \/ p = "word"
                                        THEN <<p>> \o Stream!TrimEnd(v) ELSE <<>>
        /\ Stream!TrimEnd(v) # <<>> => v # <<>> /\ v[1] = Stream!TrimEnd(v)[1]
    BY TrimFirst
  <2> HIDE DEF t
  <2> QED
    BY <2>1, <2>2, <2>3
<1>2. /\ Stream!Before(p, u) \in {u, <<p>> \o u}
      /\ Stream!Before(p, v) \in {v, <<p>> \o v}
      /\ Stream!Before(p, u) = u \/ Stream!Before(p, v) = v => p = "CR"
  BY DEF Stream!Before
<1>3. CASE t = <<>>
  BY <1>1, <1>2, <1>3
<1>4. CASE t # <<>>
  BY <1>1, <1>4 DEF Stream!Before
<1> QED
  BY <1>3, <1>4

\* And so have they before a whole text.
LEMMA TrimAfter ==
    ASSUME NEW u \in Text, NEW v \in Text, Stream!TrimEnd(u) = Stream!TrimEnd(v)
    PROVE  \A a \in Text : Stream!TrimEnd(After(a, u)) = Stream!TrimEnd(After(a, v))
<1> DEFINE good == {a \in Text : Stream!TrimEnd(After(a, u)) = Stream!TrimEnd(After(a, v))}
<1>1. <<>> \in good
  BY AfterNone DEF Text
<1>2. ASSUME NEW p \in {"word", "CR", "LF"}, NEW a \in Text, a \in good
      PROVE  <<p>> \o a \in good
  <2>1. <<p>> \o a \in Text
    BY BeforeIsText
  <2>2. /\ After(<<p>> \o a, u) = Stream!Before(p, After(a, u))
        /\ After(<<p>> \o a, v) = Stream!Before(p, After(a, v))
    BY AfterFirst
  <2>3. After(a, u) \in Text /\ After(a, v) \in Text
    BY AfterIsText
  <2>4. Stream!TrimEnd(After(a, u)) = Stream!TrimEnd(After(a, v))
    BY <1>2
  <2> QED
    BY <2>1, <2>2, <2>3, <2>4, TrimBefore
<1>3. Text \subseteq good
  <2> HIDE DEF good
  <2> QED
    BY <1>1, <1>2, TextInduction
<1> QED
  BY <1>3

\* What a reader makes of a text.
Reads(text) == Stream!TrimEnd(Stream!Lines(text))

\* What is cut off the end of a text is not read.
LEMMA TrimReadsAlike == \A a \in Text : Reads(Stream!TrimEnd(a)) = Reads(a)
<1> DEFINE good == {a \in Text : Reads(Stream!TrimEnd(a)) = Reads(a)}
<1>0. <<>> \in Text
  BY DEF Text
<1>1. <<>> \in good
  BY <1>0, TrimIsText
<1>2. ASSUME NEW p \in {"word", "CR", "LF"}, NEW a \in Text, a \in good
      PROVE  <<p>> \o a \in good
  <2> DEFINE t == Stream!TrimEnd(a)
             u == After(t, <<>>)
             v == After(a, <<>>)
  <2>1. <<p>> \o a \in Text /\ t \in Text /\ u \in Text /\ v \in Text
    BY <1>0, BeforeIsText, TrimIsText, AfterIsText
  <2>2. Stream!TrimEnd(u) = Stream!TrimEnd(v)
    BY <1>2, LinesIsAfter DEF Reads
  <2>3. Stream!Lines(<<p>> \o a) = Stream!Before(p, v)
    BY <1>0, LinesIsAfter, AfterFirst
  <2>4. CASE t # <<>> \/ p = "word"
    <3>1. Stream!TrimEnd(<<p>> \o a) = <<p>> \o t
      BY <2>4, TrimFirst
    <3>2. Stream!Lines(<<p>> \o t) = Stream!Before(p, u)
      BY <1>0, <2>1, LinesIsAfter, AfterFirst
    <3> HIDE DEF t, u, v
    <3>3. Reads(<<p>> \o t) = Reads(<<p>> \o a)
      BY <2>1, <2>2, <2>3, <3>2, TrimBefore DEF Reads
    <3> QED
      BY <2>1, <3>1, <3>3
  <2>5. CASE ~(t # <<>> \/ p = "word")
    <3>1. Stream!TrimEnd(<<p>> \o a) = <<>>
      BY <2>5, TrimFirst
    <3>2. u = <<>>
      BY <1>0, <2>5, AfterNone
    <3>3. Reads(<<>>) = <<>>
      BY <1>0, AfterNone, LinesIsAfter, TrimIsText DEF Reads
    <3>4. Stream!TrimEnd(v) = <<>>
      BY <2>2, <3>2, TrimIsText
    <3> HIDE DEF t, u, v
    <3>5. Reads(<<p>> \o a) = <<>>
      BY <2>1, <2>3, <2>5, <3>4, TrimBefore DEF Reads
    <3> QED
      BY <2>1, <3>1, <3>3, <3>5
  <2> QED
    BY <2>4, <2>5
<1>3. Text \subseteq good
  <2> HIDE DEF good
  <2> QED
    BY <1>1, <1>2, TextInduction
<1> QED
  BY <1>3

\* What is cut off the end of a text is not read, and neither is what normalisation takes.
LEMMA NormalReadsAlike ==
    ASSUME NEW a \in Text, NEW b \in Text
    PROVE  /\ Reads(a \o Stream!TrimEnd(b)) = Reads(a \o b)
           /\ Reads(Stream!normalizeResponseText(a)) = Reads(a)
<1>0. <<>> \in Text /\ Stream!TrimEnd(b) \in Text /\ Stream!Fold(a) \in Text
  BY TrimIsText, FoldIsText DEF Text
<1> DEFINE t == Stream!TrimEnd(b)
           u == After(t, <<>>)
           v == After(b, <<>>)
<1>1. Stream!TrimEnd(u) = Stream!TrimEnd(v)
  BY TrimReadsAlike, LinesIsAfter DEF Reads
<1>2. u \in Text /\ v \in Text
  BY <1>0, AfterIsText
<1>3. Stream!Lines(a \o t) = After(a, u) /\ Stream!Lines(a \o b) = After(a, v)
  BY <1>0, AfterJoins, LinesIsAfter
<1> HIDE DEF t, u, v
<1>4. Reads(a \o t) = Reads(a \o b)
  BY <1>1, <1>2, <1>3, TrimAfter DEF Reads
<1>5. Reads(Stream!Fold(a)) = Reads(a)
  BY <1>0, FoldReadsAlike, LinesIsAfter DEF Reads
<1>6. Reads(Stream!normalizeResponseText(a)) = Reads(a)
  BY <1>0, <1>5, TrimReadsAlike DEF Stream!normalizeResponseText
<1> QED
  BY <1>4, <1>6 DEF t

-----------------------------------------------------------------------------
\* Blocks joined to one text, and the function that joins them.
Flat(blocks) == Stream!FlattenSeq(blocks)

IsFlat(s, f) == f = [i \in 1 .. Len(s) |-> IF i = 1 THEN s[i] ELSE f[i - 1] \o s[i]]

\* The texts of the lists that begin a list.
Sums(s, f) == f[0] = <<>> /\ \A i \in 1 .. Len(s) : f[i] = f[i - 1] \o s[i]

\* FlattenSeq unfolds likewise.
LEMMA FlatUnfolds ==
    ASSUME NEW s \in Seq(Text)
    PROVE  \E f \in [0 .. Len(s) -> Text] : Sums(s, f) /\ Flat(s) = f[Len(s)]
<1> DEFINE n == Len(s)
           next(i, u) == u \o s[i]
           step == [x \in (1 .. n) \X Text |-> next(x[1], x[2])]
           F == CHOOSE f : IsFlat(s, f)
<1>1. n \in Nat /\ \A i \in 1 .. n : s[i] \in Text
  OBVIOUS
<1>2. <<>> \in Text /\ \A u \in Text : <<>> \o u = u
  BY ConcatEmptySeq DEF Text
<1>3. step \in [(1 .. n) \X Text -> Text]
  <2>1. \A i \in 1 .. n, u \in Text : next(i, u) \in Text
    BY <1>1, JoinIsText
  <2> HIDE DEF next
  <2> QED
    BY <2>1
<1>4. PICK f \in [0 .. n -> Text] :
         f[0] = <<>> /\ \A k \in 1 .. n : f[k] = step[<<k, f[k - 1]>>]
  <2> DEFINE z == <<>>
  <2>1. n \in Nat
    BY <1>1
  <2>2. z \in Text
    BY <1>2
  <2> HIDE DEF step, next, n, F, Text, z
  <2>3. \E f \in [0 .. n -> Text] : f[0] = z /\ \A k \in 1 .. n : f[k] = step[<<k, f[k - 1]>>]
    BY <1>3, <2>1, <2>2, TextRecursion
  <2> QED
    BY <2>3 DEF z
<1>5. \A k \in 1 .. n : f[k] = next(k, f[k - 1])
  <2>1. \A k \in 1 .. n : <<k, f[k - 1]>> \in (1 .. n) \X Text
    <3>1. \A k \in 1 .. n : k - 1 \in 0 .. n
      BY <1>1
    <3> HIDE DEF n
    <3> QED
      BY <3>1
  <2> HIDE DEF next
  <2> QED
    BY <1>4, <2>1
<1>6. \A k \in 1 .. n : f[k] = f[k - 1] \o s[k]
  BY <1>5
<1> HIDE DEF step, next
<1>7. CASE n = 0
  <2>1. Flat(s) = <<>>
    BY <1>7 DEF Flat, Stream!FlattenSeq
  <2> QED
    BY <1>4, <1>6, <1>7, <2>1 DEF Sums
<1>8. CASE n # 0
  <2> DEFINE g == [i \in 1 .. n |-> f[i]]
  <2>1. IsFlat(s, g)
    <3>1. f[1] = s[1]
      BY <1>1, <1>2, <1>4, <1>6, <1>8
    <3>2. \A i \in 1 .. n : g[i] = IF i = 1 THEN s[i] ELSE g[i - 1] \o s[i]
      <4>1. ASSUME NEW i \in 1 .. n, i # 1 PROVE g[i] = g[i - 1] \o s[i]
        <5>1. i - 1 \in 1 .. n
          BY <1>1, <4>1
        <5> QED
          BY <1>6, <5>1
      <4> QED
        BY <3>1, <4>1
    <3> QED
      BY <3>2 DEF IsFlat
  <2>2. IsFlat(s, F)
    <3> HIDE DEF g
    <3> QED
      BY <2>1, Zenon
  <2>3. Flat(s) = F[n]
    BY <1>8 DEF Flat, Stream!FlattenSeq, IsFlat
  <2> HIDE DEF F, g
  <2>4. \A i \in 1 .. n : F[i] = IF i = 1 THEN s[i] ELSE F[i - 1] \o s[i]
    BY <2>2 DEF IsFlat
  <2> DEFINE good == {i \in 0 .. n : i = 0 \/ F[i] = f[i]}
  <2>5. 0 \in good
    BY <1>1
  <2>6. ASSUME NEW k \in 1 .. n, k - 1 \in good PROVE k \in good
    <3>1. k \in 0 .. n
      BY <1>1
    <3>a. f[k] = f[k - 1] \o s[k] /\ s[k] \in Text
      BY <1>1, <1>6
    <3>2. CASE k = 1
      <4>1. k - 1 = 0 /\ F[k] = s[k]
        BY <2>4, <3>2
      <4>2. f[k] = <<>> \o s[k]
        BY <1>4, <3>a, <4>1
      <4> QED
        BY <1>2, <3>1, <3>a, <4>1, <4>2
    <3>3. CASE k # 1
      <4>1. F[k] = F[k - 1] \o s[k]
        BY <2>4, <3>3
      <4>2. F[k - 1] = f[k - 1]
        BY <2>6, <3>3
      <4> QED
        BY <3>1, <3>a, <4>1, <4>2
    <3> QED
      BY <3>2, <3>3
  <2>7. 0 .. n \subseteq good
    <3> HIDE DEF good, n
    <3> QED
      BY <1>1, <2>5, <2>6, Upwards, Zenon
  <2>8. F[n] = f[n]
    BY <1>1, <1>8, <2>7
  <2> QED
    BY <1>4, <1>6, <2>3, <2>8 DEF Sums
<1> QED
  BY <1>7, <1>8

\* Joined blocks are a text.
LEMMA FlatIsText == Flat(<<>>) = <<>> /\ \A s \in Seq(Text) : Flat(s) \in Text
<1>1. ASSUME NEW s \in Seq(Text) PROVE Flat(s) \in Text
  <2>1. Len(s) \in 0 .. Len(s)
    OBVIOUS
  <2> QED
    BY <2>1, FlatUnfolds
<1> QED
  BY <1>1 DEF Flat, Stream!FlattenSeq

\* Two lists that begin alike have alike texts up to there.
LEMMA FlatAlike ==
    ASSUME NEW s \in Seq(Text), NEW u \in Seq(Text), NEW k \in Nat, k <= Len(s), k <= Len(u),
           \A i \in 1 .. k : s[i] = u[i],
           NEW f, Sums(s, f), NEW g, Sums(u, g)
    PROVE  f[k] = g[k]
<1> DEFINE good == {i \in 0 .. k : f[i] = g[i]}
<1>1. 0 \in good
  BY DEF Sums
<1>2. ASSUME NEW i \in 1 .. k, i - 1 \in good PROVE i \in good
  <2>1. i \in 0 .. k /\ i \in 1 .. Len(s) /\ i \in 1 .. Len(u)
    OBVIOUS
  <2>2. f[i] = f[i - 1] \o s[i] /\ g[i] = g[i - 1] \o u[i] /\ f[i - 1] = g[i - 1]
    BY <1>2, <2>1 DEF Sums
  <2> QED
    BY <2>1, <2>2
<1>3. 0 .. k \subseteq good
  <2> HIDE DEF good
  <2> QED
    BY <1>1, <1>2, Upwards, Zenon
<1> QED
  BY <1>3

\* A block at the end adds its text.
LEMMA FlatAppend ==
    ASSUME NEW s \in Seq(Text), NEW d \in Text
    PROVE  Append(s, d) \in Seq(Text) /\ Flat(Append(s, d)) = Flat(s) \o d
<1> DEFINE n == Len(s)
           u == Append(s, d)
<1>1. /\ u \in Seq(Text) /\ n \in Nat /\ Len(u) = n + 1 /\ u[n + 1] = d
      /\ \A i \in 1 .. n : s[i] = u[i]
  OBVIOUS
<1> HIDE DEF u
<1>2. PICK f \in [0 .. n -> Text] : Sums(s, f) /\ Flat(s) = f[n]
  BY FlatUnfolds
<1>3. PICK g \in [0 .. n + 1 -> Text] : Sums(u, g) /\ Flat(u) = g[n + 1]
  BY <1>1, FlatUnfolds
<1>4. f[n] = g[n]
  <2>1. n <= Len(s) /\ n <= Len(u)
    BY <1>1
  <2> HIDE DEF n
  <2> QED
    BY <1>1, <1>2, <1>3, <2>1, FlatAlike
<1>5. g[n + 1] = g[n] \o d
  <2>1. n + 1 \in 1 .. Len(u) /\ (n + 1) - 1 = n
    BY <1>1
  <2> HIDE DEF n
  <2> QED
    BY <1>1, <1>3, <2>1 DEF Sums
<1> QED
  BY <1>1, <1>2, <1>3, <1>4, <1>5 DEF u

\* Blocks without text at the end add nothing.
LEMMA FlatBlank ==
    ASSUME NEW s \in Seq(Text), NEW k \in 0 .. Len(s),
           \A i \in 1 .. Len(s) : i > k => s[i] = <<>>
    PROVE  SubSeq(s, 1, k) \in Seq(Text) /\ Flat(s) = Flat(SubSeq(s, 1, k))
<1> DEFINE n == Len(s)
           u == SubSeq(s, 1, k)
<1>1. /\ u \in Seq(Text) /\ n \in Nat /\ k \in Nat /\ Len(u) = k /\ k <= n
      /\ \A i \in 1 .. k : s[i] = u[i]
  <2>1. \A i \in 1 .. k : s[i] \in Text
    OBVIOUS
  <2> QED
    BY <2>1, SubSeqProperties
<1> HIDE DEF u
<1>2. PICK f \in [0 .. n -> Text] : Sums(s, f) /\ Flat(s) = f[n]
  BY FlatUnfolds
<1>3. PICK g \in [0 .. k -> Text] : Sums(u, g) /\ Flat(u) = g[k]
  BY <1>1, FlatUnfolds
<1>4. f[k] = g[k]
  <2>1. k <= Len(s) /\ k <= Len(u)
    BY <1>1
  <2> HIDE DEF n
  <2> QED
    BY <1>1, <1>2, <1>3, <2>1, FlatAlike
<1> DEFINE good == {i \in 0 .. n : i < k \/ f[i] = f[k]}
<1>5. 0 \in good
  BY <1>1
<1>6. ASSUME NEW i \in 1 .. n, i - 1 \in good PROVE i \in good
  <2>1. i \in 0 .. n /\ i - 1 \in 0 .. n
    BY <1>1
  <2>2. CASE i > k
    <3>a. s[i] = <<>> /\ ~(i - 1 < k)
      BY <1>1, <2>2
    <3>b. f[i] = f[i - 1] \o s[i] /\ f[i - 1] \in Text
      BY <1>2, <2>1 DEF Sums
    <3>1. f[i] = f[i - 1] \o <<>> /\ f[i - 1] = f[k] /\ f[i - 1] \in Text
      BY <1>6, <3>a, <3>b
    <3>2. f[i - 1] \o <<>> = f[i - 1]
      BY <3>1, ConcatEmptySeq DEF Text
    <3> QED
      BY <2>1, <3>1, <3>2
  <2>3. CASE ~(i > k)
    BY <1>1, <2>1, <2>3
  <2> QED
    BY <2>2, <2>3
<1>7. 0 .. n \subseteq good
  <2> HIDE DEF good, n
  <2> QED
    BY <1>1, <1>5, <1>6, Upwards, Zenon
<1>8. f[n] = f[k]
  BY <1>1, <1>7
<1> QED
  BY <1>1, <1>2, <1>3, <1>4, <1>8 DEF u

\* The last block with text is the end of the whole.
LEMMA FlatLast ==
    ASSUME NEW s \in Seq(Text), NEW k \in 1 .. Len(s),
           \A i \in 1 .. Len(s) : i > k => s[i] = <<>>
    PROVE  /\ SubSeq(s, 1, k - 1) \in Seq(Text)
           /\ Flat(s) = Flat(SubSeq(s, 1, k - 1)) \o s[k]
<1> DEFINE u == SubSeq(s, 1, k - 1)
<1>1. /\ u \in Seq(Text) /\ s[k] \in Text /\ Len(s) \in Nat /\ k \in 0 .. Len(s)
  <2>1. \A i \in 1 .. k - 1 : s[i] \in Text
    OBVIOUS
  <2> QED
    BY <2>1, SubSeqProperties
<1>2. SubSeq(s, 1, k) = u \o <<s[k]>>
  BY <1>1, SubSeqRecursiveSecond
<1>3. Append(u, s[k]) = u \o <<s[k]>>
  <2> HIDE DEF u
  <2> QED
    BY <1>1, AppendIsConcat
<1>4. Flat(s) = Flat(SubSeq(s, 1, k))
  BY <1>1, FlatBlank
<1> HIDE DEF u
<1>5. Flat(Append(u, s[k])) = Flat(u) \o s[k]
  BY <1>1, FlatAppend
<1> QED
  BY <1>1, <1>2, <1>3, <1>4, <1>5 DEF u

\* No block with text, no text.
LEMMA FlatEmpty ==
    ASSUME NEW s \in Seq(Text), \A i \in 1 .. Len(s) : s[i] = <<>>
    PROVE  Flat(s) = <<>>
<1>1. 0 \in 0 .. Len(s) /\ SubSeq(s, 1, 0) = <<>>
  BY SubSeqEmpty
<1> QED
  BY <1>1, FlatBlank, FlatIsText

\* Blocks folded one by one read as they did.
LEMMA FlatFolded ==
    ASSUME NEW s \in Seq(Text), NEW u \in Seq(Text), Len(u) = Len(s),
           \A i \in 1 .. Len(s) : u[i] = Stream!Fold(s[i])
    PROVE  \A z \in Text : After(Flat(u), z) = After(Flat(s), z)
<1> DEFINE n == Len(s)
<1>1. n \in Nat
  OBVIOUS
<1>2. PICK f \in [0 .. n -> Text] : Sums(s, f) /\ Flat(s) = f[n]
  BY FlatUnfolds
<1>3. PICK g \in [0 .. n -> Text] : Sums(u, g) /\ Flat(u) = g[n]
  BY FlatUnfolds
<1> DEFINE good == {i \in 0 .. n : \A z \in Text : After(g[i], z) = After(f[i], z)}
<1>4. 0 \in good
  BY <1>1, <1>2, <1>3 DEF Sums
<1>5. ASSUME NEW i \in 1 .. n, i - 1 \in good PROVE i \in good
  <2>1. i \in 0 .. n /\ i - 1 \in 0 .. n /\ s[i] \in Text /\ u[i] \in Text
    BY <1>1
  <2>2. f[i - 1] \in Text /\ g[i - 1] \in Text
    BY <2>1
  <2>3. f[i] = f[i - 1] \o s[i] /\ g[i] = g[i - 1] \o u[i]
    BY <1>2, <1>3 DEF Sums
  <2>4. ASSUME NEW z \in Text PROVE After(g[i], z) = After(f[i], z)
    <3> DEFINE y == After(s[i], z)
    <3>1. y \in Text /\ After(u[i], z) = y
      BY <2>1, AfterIsText, FoldReadsAlike
    <3>2. After(f[i], z) = After(f[i - 1], y)
      BY <2>1, <2>2, <2>3, AfterJoins
    <3>3. After(g[i], z) = After(g[i - 1], y)
      BY <2>1, <2>2, <2>3, <3>1, AfterJoins
    <3> HIDE DEF y
    <3>4. After(g[i - 1], y) = After(f[i - 1], y)
      BY <1>5, <3>1
    <3> QED
      BY <3>2, <3>3, <3>4
  <2> QED
    BY <2>1, <2>4
<1>6. 0 .. n \subseteq good
  <2> HIDE DEF good, n
  <2> QED
    BY <1>1, <1>4, <1>5, Upwards, Zenon
<1>7. n \in good
  BY <1>1, <1>6
<1> QED
  BY <1>2, <1>3, <1>7

\* Lists that begin alike have the same beginning.
LEMMA SameFront ==
    ASSUME NEW s \in Seq(Text), NEW u \in Seq(Text), NEW k \in Nat, k <= Len(s), k <= Len(u),
           \A i \in 1 .. k : u[i] = s[i]
    PROVE  SubSeq(u, 1, k) = SubSeq(s, 1, k)
<1>1. \A i \in 1 .. k : s[i] \in Text /\ u[i] \in Text
  OBVIOUS
<1>2. /\ SubSeq(s, 1, k) \in Seq(Text) /\ Len(SubSeq(s, 1, k)) = k
      /\ \A i \in 1 .. k : SubSeq(s, 1, k)[i] = s[i]
  BY <1>1, SubSeqProperties
<1>3. /\ SubSeq(u, 1, k) \in Seq(Text) /\ Len(SubSeq(u, 1, k)) = k
      /\ \A i \in 1 .. k : SubSeq(u, 1, k)[i] = u[i]
  BY <1>1, SubSeqProperties
<1> QED
  BY <1>2, <1>3, SeqEqual

-----------------------------------------------------------------------------
\* The texts of the blocks from some place on; what is no text is empty.
Texts(content, base) ==
    [i \in 1 .. Len(content) |->
        IF i > base /\ content[i].type = "text" THEN content[i].text ELSE <<>>]

\* What the blocks of the attempt that runs, or ran last, say in all.
Wrote(m) == Flat(Texts(m.content, m.attemptBase))

\* Blocks of texts.
Content == Seq(PiBlocks(Text))

\* There is one text for each block.
LEMMA TextsOf ==
    ASSUME NEW content \in Content, NEW base \in Nat
    PROVE  /\ Texts(content, base) \in Seq(Text) /\ Len(content) \in Nat
           /\ Len(Texts(content, base)) = Len(content)
           /\ \A i \in 1 .. Len(content) :
                 /\ content[i] \in PiBlocks(Text)
                 /\ Texts(content, base)[i] =
                       IF i > base /\ content[i].type = "text" THEN content[i].text ELSE <<>>
<1> DEFINE n == Len(content)
           texts == Texts(content, base)
<1>1. n \in Nat /\ \A i \in 1 .. n : content[i] \in PiBlocks(Text)
  BY DEF Content
<1>2. <<>> \in Text
  BY DEF Text
<1>3. texts \in [1 .. n -> Text]
  BY <1>1, <1>2 DEF Texts, PiBlocks
<1>4. texts \in Seq(Text) /\ Len(texts) = n
  <2> HIDE DEF texts, n
  <2> QED
    BY <1>1, <1>3, IsASeq
<1> QED
  BY <1>1, <1>4 DEF Texts

\* A new block adds its text.
LEMMA WrittenMore ==
    ASSUME NEW content \in Content, NEW base \in Nat, base <= Len(content),
           NEW type \in {"text", "thinking"}, NEW next, next = Append(content, [type |-> type, text |-> <<>>])
    PROVE  next \in Content /\ Flat(Texts(next, base)) = Flat(Texts(content, base))
<1> DEFINE block == [type |-> type, text |-> <<>>]
           n == Len(content)
           s == Texts(content, base)
           u == Texts(next, base)
<1>0. <<>> \in Text
  BY DEF Text
<1>1. block \in PiBlocks(Text) /\ block.text = <<>>
  BY <1>0 DEF PiBlocks
<1> HIDE DEF block
<1>2. /\ next \in Content /\ n \in Nat /\ Len(next) = n + 1 /\ next[n + 1] = block
      /\ \A i \in 1 .. n : next[i] = content[i]
  BY <1>1 DEF Content, block
<1>3. /\ s \in Seq(Text) /\ Len(s) = n
      /\ \A i \in 1 .. n : s[i] = IF i > base /\ content[i].type = "text" THEN content[i].text ELSE <<>>
  BY TextsOf
<1>4. /\ u \in Seq(Text) /\ Len(u) = n + 1
      /\ \A i \in 1 .. n + 1 : u[i] = IF i > base /\ next[i].type = "text" THEN next[i].text ELSE <<>>
  BY <1>2, TextsOf
<1> HIDE DEF s, u, n
<1>5. u[n + 1] = <<>> /\ \A i \in 1 .. n : u[i] = s[i]
  BY <1>1, <1>2, <1>3, <1>4
<1>6. Flat(u) = Flat(SubSeq(u, 1, n))
  <2>1. n \in 0 .. Len(u) /\ \A i \in 1 .. Len(u) : i > n => u[i] = <<>>
    BY <1>2, <1>4, <1>5
  <2> QED
    BY <1>4, <2>1, FlatBlank
<1>7. SubSeq(u, 1, n) = s
  <2>1. \A i \in 1 .. n : u[i] \in Text
    BY <1>2, <1>4
  <2>2. /\ SubSeq(u, 1, n) \in Seq(Text) /\ Len(SubSeq(u, 1, n)) = n
        /\ \A i \in 1 .. n : SubSeq(u, 1, n)[i] = u[i]
    BY <1>2, <2>1, SubSeqProperties
  <2> QED
    BY <1>3, <1>5, <2>2, SeqEqual
<1> QED
  BY <1>2, <1>6, <1>7 DEF s, u

\* The blocks say this more.
Grown(content, base, n, d, next) ==
    /\ next \in Content /\ Len(next) = n
    /\ Flat(Texts(next, base)) = Flat(Texts(content, base)) \o d

\* And so does more text in the last block.
LEMMA WrittenLonger ==
    \A content \in Content : \A base \in Nat : \A d \in Text : \A block \in PiBlocks(Text) :
        /\ Len(content) > base /\ content[Len(content)].type = "text"
        /\ block.type = "text" /\ block.text = content[Len(content)].text \o d
        => Grown(content, base, Len(content), d, [content EXCEPT ![Len(content)] = block])
<1> SUFFICES
        ASSUME NEW content \in Content, NEW base \in Nat, NEW d \in Text,
               NEW block \in PiBlocks(Text),
               Len(content) > base, content[Len(content)].type = "text",
               block.type = "text", block.text = content[Len(content)].text \o d
        PROVE  Grown(content, base, Len(content), d, [content EXCEPT ![Len(content)] = block])
  OBVIOUS
<1> DEFINE n == Len(content)
           next == [content EXCEPT ![n] = block]
<1> SUFFICES Grown(content, base, n, d, next)
  OBVIOUS
<1>0. /\ n = Len(content) /\ n > base /\ content[n].type = "text"
      /\ block.type = "text" /\ block.text = content[n].text \o d
      /\ next = [content EXCEPT ![n] = block]
  OBVIOUS
<1> HIDE DEF n, next
<1> USE <1>0
<1> DEFINE t == content[n].text
           td == t \o d
           s == Texts(content, base)
           u == Texts(next, base)
<1>1. n \in Nat /\ n \in 1 .. n /\ content[n] \in PiBlocks(Text)
  BY DEF Content
<1>2. t \in Text /\ td \in Text
  <2>1. t \in Text
    BY <1>1 DEF PiBlocks
  <2> QED
    BY <2>1, JoinIsText
<1>4. /\ next \in Content /\ Len(next) = n /\ next[n] = block
      /\ \A i \in 1 .. n : i # n => next[i] = content[i]
  BY <1>1, ExceptSeq DEF Content
<1>5. /\ s \in Seq(Text) /\ Len(s) = n
      /\ \A i \in 1 .. n : s[i] = IF i > base /\ content[i].type = "text" THEN content[i].text ELSE <<>>
  BY TextsOf
<1>6. /\ u \in Seq(Text) /\ Len(u) = n
      /\ \A i \in 1 .. n : u[i] = IF i > base /\ next[i].type = "text" THEN next[i].text ELSE <<>>
  <2>1. next \in Content /\ Len(next) = n
    BY <1>4
  <2>2. \A c \in Content :
           /\ Texts(c, base) \in Seq(Text) /\ Len(Texts(c, base)) = Len(c)
           /\ \A i \in 1 .. Len(c) :
                 Texts(c, base)[i] = IF i > base /\ c[i].type = "text" THEN c[i].text ELSE <<>>
    BY TextsOf
  <2> QED
    BY <2>1, <2>2
<1> HIDE DEF s, u
<1>7. s[n] = t /\ u[n] = td /\ \A i \in 1 .. n - 1 : u[i] = s[i]
  <2>1. s[n] = t
    BY <1>1, <1>5
  <2>2. u[n] = td
    BY <1>1, <1>4, <1>6
  <2>3. ASSUME NEW i \in 1 .. n - 1 PROVE u[i] = s[i]
    <3>1. i \in 1 .. n /\ i # n
      BY <1>1
    <3> QED
      BY <1>4, <1>5, <1>6, <3>1
  <2> QED
    BY <2>1, <2>2, <2>3
<1> HIDE DEF t, td
<1>8. /\ SubSeq(s, 1, n - 1) \in Seq(Text) /\ Flat(s) = Flat(SubSeq(s, 1, n - 1)) \o t
      /\ Flat(u) = Flat(SubSeq(u, 1, n - 1)) \o td
  <2>1. n \in 1 .. Len(s) /\ \A i \in 1 .. Len(s) : i > n => s[i] = <<>>
    BY <1>1, <1>5
  <2>2. n \in 1 .. Len(u) /\ \A i \in 1 .. Len(u) : i > n => u[i] = <<>>
    BY <1>1, <1>6
  <2>3. SubSeq(s, 1, n - 1) \in Seq(Text) /\ Flat(s) = Flat(SubSeq(s, 1, n - 1)) \o s[n]
    BY <1>5, <2>1, FlatLast
  <2>4. Flat(u) = Flat(SubSeq(u, 1, n - 1)) \o u[n]
    BY <1>6, <2>2, FlatLast
  <2> QED
    BY <1>7, <2>3, <2>4
<1>9. SubSeq(u, 1, n - 1) = SubSeq(s, 1, n - 1)
  <2>1. n - 1 \in Nat /\ n - 1 <= Len(s) /\ n - 1 <= Len(u)
    BY <1>1, <1>5, <1>6
  <2> QED
    BY <1>5, <1>6, <1>7, <2>1, SameFront
<1> DEFINE f == Flat(SubSeq(s, 1, n - 1))
<1>10. f \in Text
  BY <1>8, FlatIsText
<1>11. f \o (t \o d) = (f \o t) \o d
  <2> HIDE DEF f
  <2> QED
    BY <1>2, <1>10, JoinAssociates
<1> QED
  BY <1>4, <1>8, <1>9, <1>11 DEF s, u, td, Grown

\* A message of texts; the open one is its last block.
PiText(m) ==
    /\ PiSound(m) /\ m.content \in Content /\ m.attemptText \in Text
    /\ m.textIdx # 0 => m.textIdx = Len(m.content)

\* It goes on without a word.
PiMute(m, n) ==
    /\ PiText(n) /\ n.attemptBase = m.attemptBase /\ n.attemptText = m.attemptText
    /\ Wrote(n) = Wrote(m)

\* What such a message is made of.
LEMMA PiTextTypes ==
    ASSUME NEW m, PiText(m)
    PROVE  /\ IsPiMessage(m) /\ PiShape(m)
           /\ Len(m.content) \in Nat /\ m.attemptBase \in Nat /\ m.attemptBase <= Len(m.content)
           /\ m.textIdx \in Nat /\ m.thinkingIdx \in Nat
           /\ Wrote(m) \in Text
<1>1. PiShape(m) /\ IsPiMessage(m)
  BY DEF PiText, PiSound, PiShape
<1>2. /\ Len(m.content) \in Nat /\ m.attemptBase \in Nat /\ m.attemptBase <= Len(m.content)
      /\ m.textIdx \in Nat /\ m.thinkingIdx \in Nat
  BY <1>1, PiIndices DEF PiShape
<1>3. m.content \in Content
  BY DEF PiText
<1>4. Texts(m.content, m.attemptBase) \in Seq(Text)
  BY <1>2, <1>3, TextsOf
<1> QED
  BY <1>1, <1>2, <1>4, FlatIsText DEF Wrote

\* What is pushed is not written.
LEMMA PiPushed ==
    ASSUME NEW v, IsPiMessage(v), NEW step, NEW block, NEW n, n = Stream!Pi!push(v, step, block)
    PROVE  /\ n.content = v.content /\ n.thinkingIdx = v.thinkingIdx /\ n.textIdx = v.textIdx
           /\ n.attemptBase = v.attemptBase /\ n.attemptText = v.attemptText
<1>1. PICK texts, said : v \in PiMessages(texts, said)
  BY DEF IsPiMessage
<1> DEFINE events == Append(v.events, Stream!Pi!Part(step, block))
<1>2. n = v \/ n = [v EXCEPT !.events = events]
  BY DEF Stream!Pi!push
<1> HIDE DEF events
<1> QED
  BY <1>1, <1>2 DEF PiMessages

\* A block that ends changes no text.
LEMMA PiCloses ==
    ASSUME NEW m, PiText(m), NEW n
    PROVE  /\ n = Stream!Pi!closeThinking(m) =>
                 PiMute(m, n) /\ n.content = m.content /\ n.thinkingIdx = 0 /\ n.textIdx = m.textIdx
           /\ n = Stream!Pi!closeText(m) =>
                 PiMute(m, n) /\ n.content = m.content /\ n.textIdx = 0
                 /\ n.thinkingIdx = m.thinkingIdx
<1>1. PICK texts, said : m \in PiMessages(texts, said)
  BY PiTextTypes DEF IsPiMessage
<1>2. ASSUME n.content = m.content, n.attemptBase = m.attemptBase, n.attemptText = m.attemptText,
             PiSound(n), n.textIdx = m.textIdx \/ n.textIdx = 0
      PROVE  PiMute(m, n)
  BY <1>2 DEF PiMute, PiText, Wrote
<1>3. ASSUME n = Stream!Pi!closeThinking(m)
      PROVE  PiMute(m, n) /\ n.content = m.content /\ n.thinkingIdx = 0 /\ n.textIdx = m.textIdx
  <2>1. PiSound(n) /\ n.thinkingIdx = 0 /\ n.textIdx = m.textIdx
    BY <1>3, PiCloseThinking DEF PiText
  <2> DEFINE v == [m EXCEPT !.thinkingIdx = 0]
  <2>2. n = m \/ n = Stream!Pi!push(v, "end", m.thinkingIdx)
    BY <1>3 DEF Stream!Pi!closeThinking
  <2>3. /\ v \in PiMessages(texts, said) /\ v.content = m.content
        /\ v.attemptBase = m.attemptBase /\ v.attemptText = m.attemptText
    BY <1>1 DEF PiMessages
  <2> HIDE DEF v
  <2>4. n.content = m.content /\ n.attemptBase = m.attemptBase /\ n.attemptText = m.attemptText
    BY <2>2, <2>3, PiPushed DEF IsPiMessage
  <2> QED
    BY <1>2, <2>1, <2>4
<1>4. ASSUME n = Stream!Pi!closeText(m)
      PROVE  PiMute(m, n) /\ n.content = m.content /\ n.textIdx = 0
             /\ n.thinkingIdx = m.thinkingIdx
  <2>1. PiSound(n) /\ n.textIdx = 0 /\ n.thinkingIdx = m.thinkingIdx
    BY <1>4, PiCloseText DEF PiText
  <2> DEFINE v == [m EXCEPT !.textIdx = 0]
  <2>2. n = m \/ n = Stream!Pi!push(v, "end", m.textIdx)
    BY <1>4 DEF Stream!Pi!closeText
  <2>3. /\ v \in PiMessages(texts, said) /\ v.content = m.content
        /\ v.attemptBase = m.attemptBase /\ v.attemptText = m.attemptText
    BY <1>1 DEF PiMessages
  <2> HIDE DEF v
  <2>4. n.content = m.content /\ n.attemptBase = m.attemptBase /\ n.attemptText = m.attemptText
    BY <2>2, <2>3, PiPushed DEF IsPiMessage
  <2> QED
    BY <1>2, <2>1, <2>4
<1> QED
  BY <1>3, <1>4

\* A block that starts is empty.
LEMMA PiOpens ==
    ASSUME NEW m, PiText(m), m.thinkingIdx = 0, m.textIdx = 0, NEW n
    PROVE  /\ n = Stream!Pi!OpenThinking(m) => PiMute(m, n) /\ n.textIdx = 0
           /\ n = Stream!Pi!OpenText(m) => PiMute(m, n) /\ n.textIdx # 0
<1> DEFINE k == Len(m.content) + 1
           content(type) == Append(m.content, [type |-> type, text |-> <<>>])
           thinking == [m EXCEPT !.content = content("thinking"), !.thinkingIdx = k]
           text == [m EXCEPT !.content = content("text"), !.textIdx = k]
<1>1. PICK texts, said : m \in PiMessages(texts, said)
  BY PiTextTypes DEF IsPiMessage
<1>2. /\ k \in Nat \ {0} /\ m.content \in Content /\ m.attemptBase \in Nat
      /\ m.attemptBase <= Len(m.content)
  BY PiTextTypes DEF PiText
<1>3. ASSUME NEW type \in {"text", "thinking"}
      PROVE  /\ content(type) \in Content /\ Len(content(type)) = k
             /\ Flat(Texts(content(type), m.attemptBase)) = Wrote(m)
  <2>1. /\ content(type) \in Content
        /\ Flat(Texts(content(type), m.attemptBase)) = Wrote(m)
    BY <1>2, WrittenMore DEF Wrote
  <2> QED
    BY <1>2, <2>1 DEF Content
<1> HIDE DEF content
<1>4. ASSUME NEW v, NEW type \in {"text", "thinking"}, NEW texts2, NEW said2,
             v \in PiMessages(texts2, said2), v.content = content(type),
             v.attemptBase = m.attemptBase, v.attemptText = m.attemptText,
             v.textIdx = 0 \/ v.textIdx = k,
             n = Stream!Pi!push(v, "start", k), PiSound(n)
      PROVE  PiMute(m, n) /\ n.textIdx = v.textIdx
  <2>1. /\ n.content = content(type) /\ n.textIdx = v.textIdx
        /\ n.attemptBase = m.attemptBase /\ n.attemptText = m.attemptText
    BY <1>4, PiPushed DEF IsPiMessage
  <2> HIDE DEF k
  <2> QED
    BY <1>3, <1>4, <2>1 DEF PiMute, PiText, Wrote
<1>a. \A type \in {"text", "thinking"} : content(type) \in Seq(PiBlocks(Text))
  BY <1>3 DEF Content
<1>5. ASSUME n = Stream!Pi!OpenThinking(m) PROVE PiMute(m, n) /\ n.textIdx = 0
  <2>1. PiSound(n)
    BY <1>5, PiStartBlock DEF PiText
  <2>2. n = Stream!Pi!push(thinking, "start", k)
    BY <1>5 DEF Stream!Pi!OpenThinking, Stream!Pi!Block, content
  <2> HIDE DEF k
  <2>3. /\ thinking \in PiMessages(Text, said) /\ thinking.content = content("thinking")
        /\ thinking.attemptBase = m.attemptBase /\ thinking.attemptText = m.attemptText
        /\ thinking.textIdx = m.textIdx
    BY <1>1, <1>2, <1>a DEF PiMessages
  <2> HIDE DEF thinking
  <2> QED
    BY <1>4, <2>1, <2>2, <2>3
<1>6. ASSUME n = Stream!Pi!OpenText(m) PROVE PiMute(m, n) /\ n.textIdx # 0
  <2>1. PiSound(n)
    BY <1>6, PiStartBlock DEF PiText
  <2>2. n = Stream!Pi!push(text, "start", k)
    BY <1>6 DEF Stream!Pi!OpenText, Stream!Pi!Block, content
  <2> HIDE DEF k
  <2>3. /\ text \in PiMessages(Text, said) /\ text.content = content("text")
        /\ text.attemptBase = m.attemptBase /\ text.attemptText = m.attemptText
        /\ text.textIdx = k
    BY <1>1, <1>2, <1>a DEF PiMessages
  <2> HIDE DEF text
  <2>4. PiMute(m, n) /\ n.textIdx = k
    BY <1>4, <2>1, <2>2, <2>3
  <2> QED
    BY <1>2, <2>4
<1> QED
  BY <1>5, <1>6

\* Narration writes nothing.
LEMMA PiThinks ==
    ASSUME NEW m, PiText(m), NEW n, n = Stream!Pi!appendThinking(m)
    PROVE  PiMute(m, n) /\ n.textIdx = 0
<1> DEFINE c == Stream!Pi!closeText(m)
           t == IF m.thinkingIdx = 0 THEN Stream!Pi!OpenThinking(c) ELSE m
<1>0. PiSound(n) /\ n.textIdx = 0
  BY PiAppendThinking DEF PiText
<1>1. PiMute(m, t)
  <2>1. CASE m.thinkingIdx = 0
    <3>1. PiMute(m, c) /\ c.textIdx = 0 /\ c.thinkingIdx = 0
      BY <2>1, PiCloses
    <3>2. t = Stream!Pi!OpenThinking(c)
      BY <2>1
    <3> HIDE DEF c, t
    <3>3. PiMute(c, t)
      BY <3>1, <3>2, PiOpens DEF PiMute
    <3> QED
      BY <3>1, <3>3 DEF PiMute
  <2>2. CASE m.thinkingIdx # 0
    BY <2>2 DEF PiMute
  <2> QED
    BY <2>1, <2>2
<1>2. n = Stream!Pi!push(t, "delta", t.thinkingIdx)
  BY DEF Stream!Pi!appendThinking
<1> HIDE DEF t
<1>3. IsPiMessage(t)
  BY <1>1, PiTextTypes DEF PiMute
<1>4. /\ n.content = t.content /\ n.attemptBase = t.attemptBase /\ n.attemptText = t.attemptText
  BY <1>2, <1>3, PiPushed
<1> QED
  BY <1>0, <1>1, <1>4 DEF PiMute, PiText, Wrote

\* A step's text is written at the end.
LEMMA PiWrites ==
    ASSUME NEW m, PiText(m), NEW d \in Text, NEW n, n = Stream!Pi!appendText(m, d)
    PROVE  /\ PiText(n) /\ n.attemptBase = m.attemptBase /\ n.attemptText = m.attemptText
           /\ Wrote(n) = Wrote(m) \o d
<1> DEFINE c == Stream!Pi!closeThinking(m)
           t == IF c.textIdx = 0 THEN Stream!Pi!OpenText(c) ELSE c
<1>0. PiSound(n)
  BY PiAppendText DEF PiText
<1>1. PiMute(m, c) /\ c.thinkingIdx = 0
  BY PiCloses
<1> HIDE DEF c
<1>2. PiMute(m, t) /\ t.textIdx # 0
  <2>1. CASE c.textIdx = 0
    <3>1. t = Stream!Pi!OpenText(c)
      BY <2>1
    <3> HIDE DEF t
    <3>2. PiMute(c, t) /\ t.textIdx # 0
      BY <1>1, <2>1, <3>1, PiOpens DEF PiMute
    <3> QED
      BY <1>1, <3>2 DEF PiMute
  <2>2. CASE c.textIdx # 0
    BY <1>1, <2>2
  <2> QED
    BY <2>1, <2>2
<1> DEFINE k == t.textIdx
           said == t.content[k].text \o d
           v == [t EXCEPT !.content[k].text = said]
           block == [t.content[k] EXCEPT !.text = said]
           content == [t.content EXCEPT ![k] = block]
<1>3. n = Stream!Pi!push(v, "delta", k)
  BY DEF Stream!Pi!appendText, c
<1> HIDE DEF t
<1>4. /\ PiText(t) /\ t.content \in Content /\ k = Len(t.content)
      /\ t.attemptBase \in Nat /\ k > t.attemptBase /\ t.content[k].type = "text"
      /\ IsPiMessage(t) /\ k \in Nat
  BY <1>2, PiTextTypes DEF PiMute, PiText, PiShape
<1>5. PICK texts, heard : t \in PiMessages(texts, heard)
  BY <1>4 DEF IsPiMessage
<1>6. t.content[k] \in PiBlocks(Text)
  BY <1>4 DEF Content
<1>7. said \in Text
  <2>1. t.content[k].text \in Text
    BY <1>6 DEF PiBlocks
  <2> QED
    BY <2>1, JoinIsText
<1>8. block \in PiBlocks(Text) /\ block.type = "text" /\ block.text = t.content[k].text \o d
  <2> HIDE DEF said
  <2>1. block \in PiBlocks(Text) /\ block.type = "text" /\ block.text = said
    BY <1>4, <1>6, <1>7 DEF PiBlocks
  <2> QED
    BY <2>1 DEF said
<1>9. v = [t EXCEPT !.content = content]
  BY <1>5, <1>6 DEF PiMessages, PiBlocks
<1> HIDE DEF said, v, block
<1>10. /\ content \in Content /\ Len(content) = k
       /\ Flat(Texts(content, t.attemptBase)) = Wrote(t) \o d
  <2> DEFINE old == t.content
             base == t.attemptBase
  <2>1. /\ old \in Content /\ base \in Nat /\ k = Len(old) /\ k > base
        /\ old[k].type = "text" /\ block.text = old[k].text \o d
        /\ content = [old EXCEPT ![k] = block]
    BY <1>4, <1>8
  <2>2. Wrote(t) = Flat(Texts(old, base))
    BY DEF Wrote
  <2> HIDE DEF old, base, content, k
  <2>3. /\ content \in Content /\ Len(content) = k
        /\ Flat(Texts(content, base)) = Flat(Texts(old, base)) \o d
    <3>1. /\ old \in Content /\ base \in Nat /\ Len(old) > base /\ d \in Text
          /\ old[Len(old)].type = "text" /\ block.text = old[Len(old)].text \o d
          /\ block.type = "text" /\ block \in PiBlocks(Text)
      BY <1>8, <2>1
    <3>2. Grown(old, base, Len(old), d, [old EXCEPT ![Len(old)] = block])
      BY <3>1, WrittenLonger
    <3>3. Grown(old, base, k, d, content)
      BY <2>1, <3>2
    <3> QED
      BY <3>3 DEF Grown
  <2> QED
    BY <2>2, <2>3 DEF base
<1>11. /\ v \in PiMessages(Text, heard) /\ v.content = content
       /\ v.attemptBase = t.attemptBase /\ v.attemptText = t.attemptText /\ v.textIdx = k
  <2> HIDE DEF content
  <2> QED
    BY <1>5, <1>9, <1>10 DEF PiMessages, Content
<1>12. /\ n.content = content /\ n.attemptBase = t.attemptBase /\ n.attemptText = t.attemptText
       /\ n.textIdx = k
  BY <1>3, <1>11, PiPushed DEF IsPiMessage
<1> HIDE DEF content
<1> QED
  BY <1>0, <1>2, <1>10, <1>12 DEF PiMute, PiText, Wrote

-----------------------------------------------------------------------------
\* All that was streamed is written: the blocks of the attempt hold its text.
Abreast(m) == PiText(m) /\ Wrote(m) = m.attemptText

\* A step keeps them abreast.
LEMMA AbreastStep ==
    ASSUME NEW m, Abreast(m), NEW n,
           (\E d \in Text : n = Stream!Pi!onStep(m, d)) \/ n = Stream!Pi!onDiverged(m)
    PROVE  Abreast(n)
<1>0. PiText(m)
  BY DEF Abreast
<1>1. ASSUME n = Stream!Pi!appendThinking(m) PROVE Abreast(n)
  BY <1>0, <1>1, PiThinks DEF Abreast, PiMute
<1>2. ASSUME NEW d \in Text, d # <<>>, n = Stream!Pi!onStep(m, d) PROVE Abreast(n)
  <2> DEFINE said == m.attemptText \o d
             v == [m EXCEPT !.attemptText = said]
  <2>1. n = Stream!Pi!appendText(v, d)
    BY <1>2 DEF Stream!Pi!onStep
  <2>2. PICK texts, heard : m \in PiMessages(texts, heard)
    BY <1>0, PiTextTypes DEF IsPiMessage
  <2>3. said \in Text
    BY <1>0, JoinIsText DEF PiText
  <2>a. Wrote(m) = m.attemptText
    BY DEF Abreast
  <2>b. said = Wrote(m) \o d
    BY <2>a
  <2> HIDE DEF said
  <2>4. /\ v \in PiMessages(texts, {said}) /\ v.events = m.events /\ v.content = m.content
        /\ v.thinkingIdx = m.thinkingIdx /\ v.textIdx = m.textIdx
        /\ v.attemptBase = m.attemptBase /\ v.ended = m.ended /\ v.attemptText = said
    BY <2>2 DEF PiMessages
  <2> HIDE DEF v
  <2>5. PiShape(v) /\ PiKeeps(m, v) /\ PiOpen(v) = PiOpen(m)
    <3>1. Len(m.content) \in Nat /\ PiShape(m)
      BY <1>0, PiTextTypes
    <3> QED
      BY <2>4, <3>1 DEF PiShape, PiKeeps, PiOpen, IsPiMessage
  <2>6. PiSound(v)
    BY <1>0, <2>4, <2>5, PiQuiet DEF PiText
  <2>7. PiText(v) /\ Wrote(v) = Wrote(m)
    BY <1>0, <2>3, <2>4, <2>6 DEF PiText, Wrote
  <2>8. PiText(n) /\ n.attemptText = said /\ Wrote(n) = Wrote(v) \o d
    BY <2>1, <2>4, <2>7, PiWrites
  <2> QED
    BY <2>7, <2>8, <2>b DEF Abreast
<1>3. ASSUME NEW d \in Text, d = <<>>, n = Stream!Pi!onStep(m, d) PROVE Abreast(n)
  BY <1>1, <1>3 DEF Stream!Pi!onStep
<1>4. CASE n = Stream!Pi!onDiverged(m)
  BY <1>1, <1>4 DEF Stream!Pi!onDiverged
<1> QED
  BY <1>2, <1>3, <1>4

\* A retry starts with nothing streamed and nothing written.
LEMMA AbreastRetry ==
    ASSUME NEW m, Abreast(m), NEW n, n = Stream!Pi!retryReset(m)
    PROVE  Abreast(n)
<1> DEFINE t == Stream!Pi!appendThinking(m)
<1>1. PiText(t) /\ t.textIdx = 0
  BY PiThinks DEF Abreast, PiMute
<1>2. n = [t EXCEPT !.attemptText = <<>>, !.attemptBase = Len(t.content)]
  BY DEF Stream!Pi!retryReset
<1>3. PiSound(n)
  BY PiRetry DEF Abreast, PiText
<1> HIDE DEF t
<1>4. PICK texts, heard : t \in PiMessages(texts, heard)
  BY <1>1, PiTextTypes DEF IsPiMessage
<1>5. /\ n.content = t.content /\ n.textIdx = 0 /\ n.attemptText = <<>>
      /\ n.attemptBase = Len(t.content)
  BY <1>1, <1>2, <1>4 DEF PiMessages
<1>6. PiText(n)
  BY <1>1, <1>3, <1>5 DEF PiText, Text
<1> DEFINE s == Texts(n.content, n.attemptBase)
<1>7. s \in Seq(Text) /\ \A i \in 1 .. Len(s) : s[i] = <<>>
  <2>1. n.content \in Content /\ n.attemptBase \in Nat /\ Len(n.content) \in Nat
        /\ n.attemptBase = Len(n.content)
    BY <1>5, <1>6, PiTextTypes DEF PiText
  <2> QED
    BY <2>1, TextsOf
<1>8. Wrote(n) = <<>>
  <2>1. Wrote(n) = Flat(s)
    BY DEF Wrote
  <2> HIDE DEF s
  <2> QED
    BY <1>7, <2>1, FlatEmpty
<1> QED
  BY <1>5, <1>6, <1>8 DEF Abreast

-----------------------------------------------------------------------------
\* Both conversions are one: of the stream and of the bridge.
LEMMA SameConversions ==
    /\ \A text : Stream!Pi!Fold(text) = Stream!Fold(text)
    /\ \A text : Stream!Pi!TrimEnd(text) = Stream!TrimEnd(text)
    /\ \A text : Stream!Pi!normalizeResponseText(text) = Stream!normalizeResponseText(text)
<1>1. \A text : Stream!Pi!Fold(text) = Stream!Fold(text)
  BY DEF Stream!Pi!Fold, Stream!Fold
<1>2. \A text : Stream!Pi!TrimEnd(text) = Stream!TrimEnd(text)
  BY DEF Stream!Pi!TrimEnd, Stream!TrimEnd, Stream!Pi!Max, Stream!Max
<1> QED
  BY <1>1, <1>2 DEF Stream!Pi!normalizeResponseText, Stream!normalizeResponseText

\* Texts set in the blocks of the attempt are what it wrote.
LEMMA PiSets ==
    ASSUME NEW m, PiText(m), NEW texts, DOMAIN texts = Stream!Pi!AttemptBlocks(m),
           \A i \in DOMAIN texts : texts[i] \in Text, NEW n, n = Stream!Pi!SetTexts(m, texts)
    PROVE  /\ PiText(n) /\ n.attemptBase = m.attemptBase /\ Len(n.content) = Len(m.content)
           /\ \A i \in 1 .. Len(m.content) :
                 Texts(n.content, m.attemptBase)[i] =
                     IF i \in Stream!Pi!AttemptBlocks(m) THEN texts[i] ELSE <<>>
<1> DEFINE idxs == Stream!Pi!AttemptBlocks(m)
           k == Len(m.content)
           new(i) == [type |-> "text", text |-> texts[i]]
           content == [i \in 1 .. k |-> IF i \in idxs THEN new(i) ELSE m.content[i]]
<1>1. PICK old, heard : m \in PiMessages(old, heard)
  BY PiTextTypes DEF IsPiMessage
<1>2. /\ k \in Nat /\ m.content \in Content /\ m.attemptBase \in Nat /\ DOMAIN m.content = 1 .. k
      /\ \A i \in 1 .. k : m.content[i] \in PiBlocks(Text)
  BY PiTextTypes DEF PiText, Content
<1>3. \A i \in 1 .. k : i \in idxs <=> i > m.attemptBase /\ m.content[i].type = "text"
  BY <1>2 DEF Stream!Pi!AttemptBlocks
<1>4. n = [m EXCEPT !.content = content]
  BY <1>1, <1>2 DEF Stream!Pi!SetTexts, Stream!Pi!Block, PiMessages
<1>5. PiSound(n)
  <2>1. \A i \in DOMAIN texts \cap DOMAIN m.content :
            i > m.attemptBase /\ m.content[i].type = "text"
    BY <1>2, <1>3
  <2> QED
    BY <2>1, PiSetTexts DEF PiText
<1>6. \A i \in 1 .. k : content[i] \in PiBlocks(Text)
  BY <1>2 DEF PiBlocks
<1>7. content \in Content /\ Len(content) = k
  <2>1. content \in [1 .. k -> PiBlocks(Text)]
    BY <1>6
  <2> HIDE DEF content, k
  <2> QED
    BY <1>2, <2>1, IsASeq DEF Content
<1>8. \A i \in 1 .. k : content[i] = IF i \in idxs THEN new(i) ELSE m.content[i]
  OBVIOUS
<1>b. \A i : new(i).type = "text" /\ new(i).text = texts[i]
  OBVIOUS
<1> HIDE DEF content, idxs, new
<1>9. /\ n.content = content /\ n.attemptBase = m.attemptBase /\ n.textIdx = m.textIdx
      /\ n.attemptText = m.attemptText
  BY <1>1, <1>4 DEF PiMessages
<1>10. PiText(n)
  BY <1>5, <1>7, <1>9 DEF PiText
<1>11. \A i \in 1 .. k : Texts(content, m.attemptBase)[i] = IF i \in idxs THEN texts[i] ELSE <<>>
  <2>1. \A i \in 1 .. k : Texts(content, m.attemptBase)[i] =
            IF i > m.attemptBase /\ content[i].type = "text" THEN content[i].text ELSE <<>>
    BY <1>2, <1>7, TextsOf
  <2>2. ASSUME NEW i \in 1 .. k, i \in idxs
        PROVE  content[i].type = "text" /\ content[i].text = texts[i] /\ i > m.attemptBase
    BY <1>3, <1>8, <1>b, <2>2
  <2>3. ASSUME NEW i \in 1 .. k, i \notin idxs
        PROVE  ~(i > m.attemptBase /\ content[i].type = "text")
    BY <1>3, <1>8, <2>3
  <2> QED
    BY <2>1, <2>2, <2>3
<1> QED
  BY <1>7, <1>9, <1>10, <1>11 DEF idxs

\* Blocks normalised one by one read as they did.
LEMMA NormalBlocks ==
    ASSUME NEW s \in Seq(Text), NEW u \in Seq(Text), Len(u) = Len(s), NEW k \in 1 .. Len(s),
           \A i \in 1 .. Len(s) : i > k => s[i] = <<>>,
           \A i \in 1 .. Len(s) :
               u[i] = IF i = k THEN Stream!TrimEnd(Stream!Fold(s[i])) ELSE Stream!Fold(s[i])
    PROVE  Reads(Flat(u)) = Reads(Flat(s))
<1> DEFINE n == Len(s)
           v == [i \in 1 .. n |-> Stream!Fold(s[i])]
<1>1. n \in Nat /\ \A i \in 1 .. n : s[i] \in Text
  OBVIOUS
<1>2. v \in Seq(Text) /\ Len(v) = n /\ \A i \in 1 .. n : v[i] = Stream!Fold(s[i])
  <2>1. v \in [1 .. n -> Text]
    BY <1>1, FoldIsText
  <2>2. v \in Seq(Text) /\ Len(v) = n
    <3> HIDE DEF v, n
    <3> QED
      BY <1>1, <2>1, IsASeq
  <2> QED
    BY <2>2
<1> HIDE DEF v
<1>3. \A i \in 1 .. n : i > k => v[i] = <<>> /\ u[i] = <<>>
  BY <1>2, FoldIsText
<1>4. /\ SubSeq(v, 1, k - 1) \in Seq(Text) /\ Flat(v) = Flat(SubSeq(v, 1, k - 1)) \o v[k]
      /\ Flat(u) = Flat(SubSeq(u, 1, k - 1)) \o u[k]
  <2>1. k \in 1 .. Len(v) /\ \A i \in 1 .. Len(v) : i > k => v[i] = <<>>
    BY <1>2, <1>3
  <2>2. k \in 1 .. Len(u) /\ \A i \in 1 .. Len(u) : i > k => u[i] = <<>>
    BY <1>3
  <2>3. SubSeq(v, 1, k - 1) \in Seq(Text) /\ Flat(v) = Flat(SubSeq(v, 1, k - 1)) \o v[k]
    BY <1>2, <2>1, FlatLast
  <2>4. Flat(u) = Flat(SubSeq(u, 1, k - 1)) \o u[k]
    BY <2>2, FlatLast
  <2> QED
    BY <2>3, <2>4
<1>5. SubSeq(u, 1, k - 1) = SubSeq(v, 1, k - 1)
  <2>1. k - 1 \in Nat /\ k - 1 <= Len(v) /\ k - 1 <= Len(u)
    BY <1>1, <1>2
  <2>2. \A i \in 1 .. k - 1 : u[i] = v[i]
    <3>1. ASSUME NEW i \in 1 .. k - 1 PROVE u[i] = v[i]
      <4>1. i \in 1 .. n /\ i # k
        BY <1>1
      <4> QED
        BY <1>2, <4>1
    <3> QED
      BY <3>1
  <2> QED
    BY <1>2, <2>1, <2>2, SameFront
<1>6. u[k] = Stream!TrimEnd(v[k]) /\ v[k] \in Text
  BY <1>1, <1>2
<1> DEFINE f == Flat(SubSeq(v, 1, k - 1))
<1>7. f \in Text
  BY <1>4, FlatIsText
<1>8. Reads(f \o Stream!TrimEnd(v[k])) = Reads(f \o v[k])
  <2> HIDE DEF f
  <2> QED
    BY <1>6, <1>7, NormalReadsAlike
<1>9. Reads(Flat(v)) = Reads(Flat(s))
  <2>1. \A z \in Text : After(Flat(v), z) = After(Flat(s), z)
    BY <1>2, FlatFolded
  <2>2. <<>> \in Text
    BY DEF Text
  <2> QED
    BY <2>1, <2>2, LinesIsAfter DEF Reads
<1> QED
  BY <1>4, <1>5, <1>6, <1>8, <1>9

\* The end of a finite list of places.
LEMMA LastPlace ==
    ASSUME NEW S, S # {}, NEW n \in Nat, S \subseteq 1 .. n
    PROVE  Stream!Pi!Max(S) \in S /\ \A i \in S : i <= Stream!Pi!Max(S)
<1>1. \E k \in S : \A i \in S : i <= k
  <2>1. S \subseteq 0 .. n /\ 1 \in Nat \ {0}
    OBVIOUS
  <2> QED
    BY <2>1, B!GreatestNatural, Zenon
<1>2. \E k \in S : \A i \in S : k >= i
  BY <1>1
<1>3. Stream!Pi!Max(S) = CHOOSE k \in S : \A i \in S : k >= i
  BY DEF Stream!Pi!Max
<1>4. Stream!Pi!Max(S) \in S /\ \A i \in S : Stream!Pi!Max(S) >= i
  BY <1>2, <1>3
<1> QED
  BY <1>4

\* Whatever was streamed, what is written after the reconciliation reads as the response.
LEMMA ReconcileReads ==
    ASSUME NEW m, Abreast(m), NEW response \in Text, NEW n, n = Stream!Pi!reconcile(m, response)
    PROVE  PiText(n) /\ Reads(Wrote(n)) = Reads(response)
<1> DEFINE idxs == Stream!Pi!AttemptBlocks(m)
           answer == Stream!normalizeResponseText(response)
           last == Stream!Pi!Max(idxs)
           k == Len(m.content)
           s == Texts(m.content, m.attemptBase)
           spoken == m.attemptText
<1>0. /\ PiText(m) /\ k \in Nat /\ m.attemptBase \in Nat /\ m.content \in Content
      /\ spoken \in Text /\ Wrote(m) = spoken
  BY PiTextTypes DEF Abreast, PiText
<1>1. answer \in Text /\ Reads(answer) = Reads(response)
  <2>1. answer \in Text
    BY FoldIsText, TrimIsText DEF Stream!normalizeResponseText
  <2>2. Reads(answer) = Reads(response)
    BY NormalReadsAlike
  <2> QED
    BY <2>1, <2>2
<1>2. /\ s \in Seq(Text) /\ Len(s) = k
      /\ \A i \in 1 .. k : /\ s[i] = IF i \in idxs THEN m.content[i].text ELSE <<>>
                          /\ s[i] \in Text
  <2>1. /\ s \in Seq(Text) /\ Len(s) = k
        /\ \A i \in 1 .. k : s[i] = IF i > m.attemptBase /\ m.content[i].type = "text"
                                     THEN m.content[i].text ELSE <<>>
    BY <1>0, TextsOf
  <2>2. \A i \in 1 .. k : i \in idxs <=> i > m.attemptBase /\ m.content[i].type = "text"
    BY <1>0 DEF Stream!Pi!AttemptBlocks, Content
  <2> QED
    BY <2>1, <2>2
<1>3. idxs \subseteq 1 .. k
  BY <1>0 DEF Stream!Pi!AttemptBlocks, Content
<1>a. Wrote(m) = Flat(s)
  BY DEF Wrote
<1>4. CASE idxs = {}
  <2>1. n = Stream!Pi!appendText(m, answer)
    BY <1>4, SameConversions DEF Stream!Pi!reconcile
  <2>2. Wrote(m) = <<>>
    <3>1. \A i \in 1 .. Len(s) : s[i] = <<>>
      BY <1>2, <1>4
    <3> HIDE DEF s
    <3> QED
      BY <1>2, <1>a, <3>1, FlatEmpty
  <2> HIDE DEF answer
  <2>3. PiText(n) /\ Wrote(n) = Wrote(m) \o answer
    BY <1>0, <1>1, <2>1, PiWrites
  <2>4. Wrote(n) = answer
    BY <1>1, <2>2, <2>3 DEF Text
  <2> QED
    BY <1>1, <2>3, <2>4
<1>5. CASE idxs # {}
  <2> DEFINE folded(i) == Stream!Fold(m.content[i].text)
             other == Stream!normalizeResponseText(spoken) # answer
             texts == [i \in idxs |->
                         IF other THEN IF i = last THEN answer ELSE <<>>
                         ELSE IF i = last THEN Stream!TrimEnd(folded(i)) ELSE folded(i)]
             u == Texts(n.content, m.attemptBase)
  <2>1. n = Stream!Pi!SetTexts(m, texts)
    <3>1. n = Stream!Pi!SetTexts(m, [i \in idxs |->
                IF Stream!Pi!normalizeResponseText(m.attemptText) # Stream!Pi!normalizeResponseText(response)
                THEN IF i = last THEN Stream!Pi!normalizeResponseText(response) ELSE <<>>
                ELSE IF i = last THEN Stream!Pi!TrimEnd(Stream!Pi!Fold(m.content[i].text))
                     ELSE Stream!Pi!Fold(m.content[i].text)])
      BY <1>5 DEF Stream!Pi!reconcile
    <3> HIDE DEF idxs, last
    <3>2. [i \in idxs |->
                IF Stream!Pi!normalizeResponseText(m.attemptText) # Stream!Pi!normalizeResponseText(response)
                THEN IF i = last THEN Stream!Pi!normalizeResponseText(response) ELSE <<>>
                ELSE IF i = last THEN Stream!Pi!TrimEnd(Stream!Pi!Fold(m.content[i].text))
                     ELSE Stream!Pi!Fold(m.content[i].text)] = texts
      BY SameConversions
    <3> QED
      BY <3>1, <3>2
  <2>2. last \in idxs /\ \A i \in idxs : i <= last
    <3> HIDE DEF idxs
    <3> QED
      BY <1>0, <1>3, <1>5, LastPlace
  <2> HIDE DEF last
  <2>3. \A i \in idxs : m.content[i].text \in Text /\ m.content[i].text = s[i]
    <3> HIDE DEF s, idxs
    <3> QED
      BY <1>2, <1>3
  <2>4. \A i \in idxs : texts[i] \in Text
    <3>1. <<>> \in Text
      BY DEF Text
    <3>2. \A i \in idxs : folded(i) \in Text /\ Stream!TrimEnd(folded(i)) \in Text
      BY <2>3, FoldIsText, TrimIsText
    <3> HIDE DEF idxs, answer, folded
    <3> QED
      BY <1>1, <3>1, <3>2
  <2>5. /\ PiText(n) /\ n.attemptBase = m.attemptBase /\ Len(n.content) = k
        /\ \A i \in 1 .. k : u[i] = IF i \in idxs THEN texts[i] ELSE <<>>
    <3>1. DOMAIN texts = idxs
      OBVIOUS
    <3> HIDE DEF texts
    <3> QED
      BY <1>0, <2>1, <2>4, <3>1, PiSets
  <2>6. u \in Seq(Text) /\ Len(u) = k /\ Wrote(n) = Flat(u)
    <3>1. n.content \in Content
      BY <2>5 DEF PiText
    <3> QED
      BY <1>0, <2>5, <3>1, TextsOf DEF Wrote
  <2>7. last \in 1 .. k
    BY <1>3, <2>2
  <2>8. \A i \in 1 .. k : i > last => s[i] = <<>>
    <3> HIDE DEF s, idxs
    <3> QED
      BY <1>2, <2>2, <2>7, <1>0
  <2>9. CASE other
    <3>1. \A i \in 1 .. k : u[i] = IF i = last THEN answer ELSE <<>>
      BY <2>2, <2>5, <2>9
    <3> HIDE DEF u, answer, k
    <3>2. last \in 1 .. Len(u) /\ \A i \in 1 .. Len(u) : i > last => u[i] = <<>>
      BY <1>0, <2>6, <2>7, <3>1
    <3> DEFINE front == SubSeq(u, 1, last - 1)
    <3>3. front \in Seq(Text) /\ Flat(u) = Flat(front) \o u[last]
      BY <2>6, <3>2, FlatLast
    <3>4. Flat(front) = <<>>
      <4>1. Len(front) = last - 1 /\ \A i \in 1 .. last - 1 : front[i] = u[i]
        <5>1. \A i \in 1 .. last - 1 : u[i] \in Text
          BY <2>6, <2>7, <1>0
        <5>2. last - 1 \in Nat
          BY <1>0, <2>7
        <5> QED
          BY <5>1, <5>2, SubSeqProperties
      <4>2. \A i \in 1 .. last - 1 : i \in 1 .. k /\ i # last
        BY <1>0, <2>7
      <4>3. \A i \in 1 .. Len(front) : front[i] = <<>>
        BY <3>1, <4>1, <4>2
      <4> HIDE DEF front
      <4> QED
        BY <3>3, <4>3, FlatEmpty
    <3>5. u[last] = answer
      BY <2>7, <3>1
    <3> HIDE DEF front
    <3>6. Wrote(n) = answer
      BY <1>1, <2>6, <3>3, <3>4, <3>5 DEF Text
    <3> QED
      BY <1>1, <2>5, <3>6
  <2>10. CASE ~other
    <3>1. \A i \in 1 .. k :
             u[i] = IF i = last THEN Stream!TrimEnd(Stream!Fold(s[i])) ELSE Stream!Fold(s[i])
      <4>1. ASSUME NEW i \in 1 .. k, i \in idxs
            PROVE  u[i] = IF i = last THEN Stream!TrimEnd(Stream!Fold(s[i])) ELSE Stream!Fold(s[i])
        BY <2>3, <2>5, <2>10, <4>1
      <4>2. ASSUME NEW i \in 1 .. k, i \notin idxs
            PROVE  u[i] = Stream!Fold(s[i]) /\ i # last
        <5>1. u[i] = <<>> /\ s[i] = <<>>
          BY <1>2, <2>5, <4>2
        <5> QED
          BY <2>2, <4>2, <5>1, FoldIsText
      <4> QED
        BY <4>1, <4>2
    <3>2. Reads(Flat(u)) = Reads(Flat(s))
      <4> HIDE DEF u, s
      <4> QED
        BY <1>2, <2>6, <2>7, <2>8, <3>1, NormalBlocks
    <3>3. Reads(spoken) = Reads(answer)
      <4>1. Reads(Stream!normalizeResponseText(spoken)) = Reads(spoken)
        BY <1>0, NormalReadsAlike
      <4> QED
        BY <2>10, <4>1
    <3> QED
      BY <1>0, <1>1, <1>a, <2>5, <2>6, <3>2, <3>3
  <2> QED
    BY <2>9, <2>10
<1> QED
  BY <1>4, <1>5

\* And so it reads when the turn has succeeded.
LEMMA SuccessReads ==
    ASSUME NEW m, Abreast(m), NEW response \in Text, NEW uninspected \in BOOLEAN,
           NEW n, n = Stream!Pi!Succeed(m, response, uninspected)
    PROVE  n.content \in Content /\ Reads(Wrote(n)) = Reads(response)
<1> DEFINE r == Stream!Pi!reconcile(m, response)
           t == IF uninspected THEN Stream!Pi!appendThinking(r) ELSE r
           c == Stream!Pi!closeText(t)
           v == [c EXCEPT !.stopReason = "stop"]
           w == Stream!Pi!push(v, "done", 0)
<1>1. PiText(r) /\ Reads(Wrote(r)) = Reads(response)
  BY ReconcileReads
<1>2. n = [w EXCEPT !.ended = TRUE]
  BY DEF Stream!Pi!Succeed, Stream!Pi!Finalize
<1> HIDE DEF r
<1>3. PiText(t) /\ Wrote(t) = Wrote(r)
  BY <1>1, PiThinks DEF PiMute
<1> HIDE DEF t
<1>4. PiText(c) /\ Wrote(c) = Wrote(t)
  BY <1>3, PiCloses DEF PiMute
<1> HIDE DEF c
<1>5. PICK texts, heard : c \in PiMessages(texts, heard)
  BY <1>4, PiTextTypes DEF IsPiMessage
<1>6. v \in PiMessages(texts, heard) /\ v.content = c.content /\ v.attemptBase = c.attemptBase
  BY <1>5 DEF PiMessages
<1> HIDE DEF v
<1>7. w.content = c.content /\ w.attemptBase = c.attemptBase
  BY <1>6, PiPushed DEF IsPiMessage
<1>8. n.content = w.content /\ n.attemptBase = w.attemptBase
  <2>1. w = v \/ \E events : w = [v EXCEPT !.events = events]
    BY DEF Stream!Pi!push
  <2> HIDE DEF w
  <2> QED
    BY <1>2, <1>6, <2>1 DEF PiMessages
<1> QED
  BY <1>1, <1>3, <1>4, <1>7, <1>8 DEF Wrote, PiText

-----------------------------------------------------------------------------
\* An attempt that runs is the first or the second.
Numbered == shown.phase = "attempt" => shown.attempt \in {1, 2}

\* Until the turn ends the message is abreast of agy; a success leaves the answer written,
\* until a child that outlived the turn says more.
WrittenInv ==
    /\ Numbered
    /\ shown.phase # "ended" => Abreast(pi)
    /\ shown.phase = "ended" /\ ~shown.late =>
          \A answer \in shown.answer : Reads(Wrote(pi)) = Reads(answer)

\* It holds when the turn starts.
LEMMA WrittenAtFirst == Stream!Init => WrittenInv
<1> SUFFICES ASSUME Stream!Init PROVE WrittenInv
  OBVIOUS
<1>1. PiSound(pi) /\ shown.phase = "starting"
  BY StreamAtFirst DEF StreamInv, Stream!Init
<1>2. /\ pi.content = <<>> /\ pi.textIdx = 0 /\ pi.attemptText = <<>>
  BY DEF Stream!Init, Stream!Pi!Started
<1>3. <<>> \in Text /\ <<>> \in Content
  BY DEF Text, Content
<1>4. PiText(pi)
  BY <1>1, <1>2, <1>3 DEF PiText
<1>5. Wrote(pi) = <<>>
  <2> DEFINE s == Texts(pi.content, pi.attemptBase)
  <2>1. s \in Seq(Text) /\ Len(s) = Len(pi.content)
    BY <1>4, PiTextTypes, TextsOf DEF PiText
  <2>2. \A i \in 1 .. Len(s) : s[i] = <<>>
    BY <1>2, <2>1
  <2>3. Wrote(pi) = Flat(s)
    BY DEF Wrote
  <2> HIDE DEF s
  <2> QED
    BY <2>1, <2>2, <2>3, FlatEmpty
<1> QED
  BY <1>1, <1>2, <1>4, <1>5 DEF WrittenInv, Numbered, Abreast

\* Lines of agy keep the message abreast.
LEMMA ShowsAbreast ==
    ASSUME Abreast(pi), NEW lines \in SUBSET Deltas, Stream!Show(lines)
    PROVE  Abreast(pi') /\ (lines = {} => pi' = pi)
<1>1. CASE lines = {}
  <2>1. pi' = pi
    BY <1>1 DEF Stream!Show
  <2> QED
    BY <2>1
<1>2. CASE lines # {}
  <2> DEFINE d == CHOOSE d \in lines : TRUE
  <2>1. d \in Text
    BY <1>2, TurnTracesAssumption DEF Text
  <2>2. pi' = Stream!Pi!onStep(pi, d)
    BY <1>2 DEF Stream!Show
  <2> HIDE DEF d
  <2> QED
    BY <1>2, <2>1, <2>2, AbreastStep
<1> QED
  BY <1>1, <1>2

\* Attempts are numbered as they start.
LEMMA NumberedStep ==
    StreamInv /\ Numbered /\ [Stream!Next]_streamVars => Numbered'
<1> SUFFICES ASSUME StreamInv, Numbered, [Stream!Next]_streamVars PROVE Numbered'
  OBVIOUS
<1>1. PICK answers : shown \in ShownTurns(answers)
  BY DEF StreamInv, IsShownTurn
<1>2. CASE UNCHANGED streamVars
  BY <1>2 DEF streamVars, Numbered
<1>3. CASE Stream!Next
  BY <1>1, <1>3
  DEF Numbered, ShownTurns, Stream!Next, Stream!Advance, Stream!Spawn, Stream!Exit,
      Stream!SettleEarly, Stream!Retry, Stream!Succeed, Stream!Fail, Stream!Refuse,
      Stream!Break, Stream!Abort, Stream!Line, Stream!Partial, Stream!Newline,
      Stream!LateExit, Stream!Running
<1> QED
  BY <1>2, <1>3

\* A step of the turn keeps it.
LEMMA WrittenStep ==
    StreamInv /\ AnswerInv /\ WrittenInv /\ [Stream!Next]_streamVars => WrittenInv'
<1> SUFFICES ASSUME StreamInv, AnswerInv, WrittenInv, [Stream!Next]_streamVars PROVE WrittenInv'
  OBVIOUS
<1>0. PICK answers : shown \in ShownTurns(answers)
  BY DEF StreamInv, IsShownTurn
<1>a. /\ shown.phase # "ended" => Abreast(pi) /\ shown.answer = {}
      /\ \A a \in Stream!Attempts : shown.rest[a] \in SUBSET Deltas
  BY <1>0 DEF WrittenInv, AnswerInv, ShownTurns
<1>n. Numbered'
  BY NumberedStep DEF WrittenInv
\* A step that goes on.
<1>b. ASSUME shown'.phase # "ended", Abreast(pi') PROVE WrittenInv'
  BY <1>b, <1>n DEF WrittenInv
<1>1. ASSUME NEW diverged \in BOOLEAN, Stream!Spawn(diverged) PROVE WrittenInv'
  <2>1. shown.phase # "ended" /\ shown'.phase # "ended"
    BY <1>0, <1>1 DEF Stream!Spawn, ShownTurns
  <2>2. pi' = pi \/ pi' = Stream!Pi!onDiverged(pi)
    BY <1>1 DEF Stream!Spawn
  <2>3. Abreast(pi')
    BY <1>a, <2>1, <2>2, AbreastStep
  <2> QED
    BY <1>b, <2>1, <2>3
<1>2. ASSUME NEW lines \in SUBSET Deltas, Stream!Show(lines),
             shown.phase # "ended", shown'.phase # "ended"
      PROVE  WrittenInv'
  BY <1>2, <1>a, <1>b, ShowsAbreast
<1>3. CASE Stream!Exit \/ Stream!Newline
  <2>1. /\ shown.phase # "ended" /\ shown'.phase # "ended"
        /\ Stream!Show(shown.rest[shown.attempt]) /\ shown.rest[shown.attempt] \in SUBSET Deltas
    <3>1. /\ shown.phase # "ended" /\ shown'.phase # "ended"
          /\ Stream!Show(shown.rest[shown.attempt])
      BY <1>0, <1>3 DEF Stream!Exit, Stream!Newline, Stream!Running, ShownTurns
    <3>2. shown.attempt \in Stream!Attempts
      BY <1>3 DEF WrittenInv, Numbered, Stream!Exit, Stream!Newline, Stream!Running, Stream!Attempts
    <3> QED
      BY <1>a, <3>1, <3>2
  <2> QED
    BY <1>2, <2>1
<1>4. CASE Stream!SettleEarly
  <2>1. shown.phase # "ended" /\ shown'.phase # "ended" /\ pi' = pi
    BY <1>0, <1>4 DEF Stream!SettleEarly, Stream!Running, ShownTurns
  <2> QED
    BY <1>a, <1>b, <2>1
<1>5. CASE Stream!Retry
  <2>1. /\ shown.phase # "ended" /\ shown'.phase # "ended"
        /\ pi' = Stream!Pi!retryReset(pi)
    BY <1>0, <1>5 DEF Stream!Retry, ShownTurns
  <2>2. Abreast(pi')
    BY <1>a, <2>1, AbreastRetry
  <2> QED
    BY <1>b, <2>1, <2>2
<1>6. ASSUME NEW response \in Stream!Said, NEW uninspected \in BOOLEAN,
             Stream!Succeed(response, uninspected)
      PROVE  WrittenInv'
  <2>1. /\ shown.phase # "ended" /\ shown'.phase = "ended" /\ shown'.answer = {response}
        /\ pi' = Stream!Pi!Succeed(pi, response, uninspected)
    BY <1>0, <1>6 DEF Stream!Succeed, ShownTurns
  <2>2. response \in Text
    <3>1. pi.attemptText \in Text /\ <<"LF">> \in Text
      BY <1>a, <2>1 DEF Abreast, PiText, Text
    <3>2. pi.attemptText \o <<"LF">> \in Text
      BY <3>1, JoinIsText
    <3> QED
      BY <3>1, <3>2, TurnTracesAssumption DEF Stream!Said, Text
  <2>3. Reads(Wrote(pi')) = Reads(response)
    BY <1>a, <2>1, <2>2, SuccessReads
  <2> QED
    BY <1>n, <2>1, <2>3 DEF WrittenInv
<1>7. CASE Stream!Fail \/ Stream!Refuse \/ Stream!Break \/ \E said : Stream!Abort(said)
  <2>1. shown'.answer = {} /\ shown'.phase = "ended"
    BY <1>0, <1>7, <1>a DEF Stream!Fail, Stream!Refuse, Stream!Break, Stream!Abort, ShownTurns
  <2> QED
    BY <1>n, <2>1 DEF WrittenInv
<1>8. ASSUME NEW delta \in Deltas, Stream!Line(delta) PROVE WrittenInv'
  <2>1. shown.phase # "ended" /\ shown'.phase # "ended" /\ Stream!Show({delta})
    BY <1>0, <1>8 DEF Stream!Line, Stream!Running, ShownTurns
  <2> QED
    BY <1>2, <2>1
<1>9. ASSUME NEW delta \in Deltas, Stream!Partial(delta) PROVE WrittenInv'
  <2>1. shown.phase # "ended" /\ shown'.phase # "ended" /\ pi' = pi
    BY <1>0, <1>9 DEF Stream!Partial, Stream!Running, ShownTurns
  <2> QED
    BY <1>a, <1>b, <2>1
<1>10. ASSUME NEW a \in Stream!Attempts, Stream!LateExit(a) PROVE WrittenInv'
  <2>1. /\ shown'.phase = shown.phase /\ shown'.answer = shown.answer
        /\ shown.late => shown'.late
        /\ shown.phase = "ended" /\ shown.rest[a] # {} => shown'.late
    BY <1>0, <1>10 DEF Stream!LateExit, Stream!Ended, ShownTurns
  <2>2. Stream!Show(shown.rest[a]) /\ shown.rest[a] \in SUBSET Deltas
    BY <1>a, <1>10 DEF Stream!LateExit
  <2>3. CASE shown.phase # "ended"
    BY <1>2, <2>1, <2>2, <2>3
  <2>4. CASE shown.phase = "ended" /\ shown.rest[a] # {}
    BY <1>n, <2>1, <2>4 DEF WrittenInv
  <2>5. CASE shown.phase = "ended" /\ shown.rest[a] = {}
    <3>1. pi' = pi
      BY <2>2, <2>5 DEF Stream!Show
    <3> QED
      BY <1>n, <2>1, <2>5, <3>1 DEF WrittenInv
  <2> QED
    BY <2>3, <2>4, <2>5
<1>11. CASE UNCHANGED streamVars
  BY <1>n, <1>11 DEF streamVars, WrittenInv
<1>12. CASE Stream!Advance
  BY <1>12, <1>1, <1>3, <1>4, <1>5, <1>6, <1>7 DEF Stream!Advance
<1> QED
  BY <1>3, <1>8, <1>9, <1>10, <1>11, <1>12 DEF Stream!Next

\* What the host is shown is what is written.
LEMMA ShownIsWritten == StreamInv => Stream!ShownText = Wrote(pi)
<1> SUFFICES ASSUME StreamInv PROVE Stream!ShownText = Wrote(pi)
  OBVIOUS
<1>1. PICK texts, said : pi \in PiMessages(texts, said)
  BY DEF StreamInv, PiSound, PiShape, IsPiMessage
<1>2. DOMAIN pi.content = 1 .. Len(pi.content)
  BY <1>1 DEF PiMessages
<1>3. \A i \in 1 .. Len(pi.content) : i \in Stream!Pi!AttemptBlocks(pi) <=>
          i > pi.attemptBase /\ pi.content[i].type = "text"
  BY <1>2 DEF Stream!Pi!AttemptBlocks
<1>4. [i \in 1 .. Len(pi.content) |->
          IF i \in Stream!Pi!AttemptBlocks(pi) THEN pi.content[i].text ELSE <<>>]
      = Texts(pi.content, pi.attemptBase)
  BY <1>3 DEF Texts
<1> QED
  BY <1>4 DEF Stream!ShownText, Wrote, Flat

\* The answer of a success is shown in either host, once and as agy gave it up to line ends
\* and trailing white space, whatever was streamed before, cut into blocks or forgotten by a
\* retry (onStep, retryReset, reconcile, emitAnswer, doGenerate).
THEOREM AnswerShownOnce == MCSpec => []AnswerIsShown
<1>1. MCInit => StreamInv /\ AnswerInv /\ WrittenInv
  <2>1. Stream!Init => ~Told(oc) /\ shown.answer = {}
    BY DEF Stream!Init, Stream!Oc!Started, Stream!Oc!Part, Told
  <2> QED
    BY <2>1, StreamAtFirst, WrittenAtFirst DEF MCInit, AnswerInv
<1>2. StreamInv /\ AnswerInv /\ WrittenInv /\ [MCNext]_allVars
          => (StreamInv /\ AnswerInv /\ WrittenInv)'
  BY StepOfEachPart, StreamsStep, AnswerStep, WrittenStep
<1>3. StreamInv /\ AnswerInv /\ WrittenInv => AnswerIsShown
  <2> SUFFICES ASSUME StreamInv, AnswerInv, WrittenInv, NEW answer \in shown.answer
               PROVE  /\ ~shown.late => Reads(Stream!ShownText) = Reads(answer)
                      /\ Stream!Oc!doGenerate(oc) = Stream!normalizeResponseText(answer)
    BY DEF AnswerIsShown, Stream!AnswerIsShown, Reads
  <2>1. Stream!Oc!normalizeResponseText(answer) = Stream!normalizeResponseText(answer)
    BY DEF Stream!Oc!normalizeResponseText, Stream!normalizeResponseText, Stream!Oc!Fold, Stream!Fold,
           Stream!Oc!TrimEnd, Stream!TrimEnd, Stream!Oc!Max, Stream!Max
  <2>2. shown.phase = "ended"
    BY DEF AnswerInv
  <2> QED
    BY <2>1, <2>2, ShownIsWritten DEF AnswerInv, WrittenInv
<1> QED
  BY <1>1, <1>2, <1>3, PTL DEF MCSpec
=============================================================================
