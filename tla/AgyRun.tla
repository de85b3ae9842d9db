-------------------------------- MODULE AgyRun --------------------------------
(***************************************************************************)
(* One agy child process under the stream runner runAgyStream              *)
(* (packages/engine/src/spawn.ts): the watchdogs, the bounded termination  *)
(* chain, cancellation by kill or by detaching, and the single settlement  *)
(* of the promise.  Every action is one callback of the event loop or one  *)
(* step of the child; time is abstracted to the order in which timers fire.*)
(***************************************************************************)
EXTENDS Naturals, Sequences

CONSTANTS
    StallMs,         \* the stall window; 0 disables the watchdog
    DetachOnAbort,   \* what callers want of cancellation: to detach or to kill
    PreAborted,      \* the signals callers pass in: already aborted or not
    MaxLines         \* bound: lines the child writes

ASSUME RunAssumption ==
    /\ StallMs \in Nat
    /\ DetachOnAbort \subseteq BOOLEAN /\ DetachOnAbort # {}
    /\ PreAborted \subseteq BOOLEAN /\ PreAborted # {}
    /\ MaxLines \in Nat

VARIABLES
    opts,      \* of the caller: signal.aborted, detachOnAbort
    phase,     \* "idle", "running" (promise pending), "settled", "rejected"
    obs,       \* the locals of the executor that resolve() reads
    result,    \* what the promise resolved with, or NoResult
    timer,     \* state of each timer
    on,        \* which listeners and handles the runner still owns
    child,     \* the child: exists, how it ended, which events are delivered
    pipe,      \* lines the child wrote and the runner has not read
    written,   \* number of lines written so far
    kills,     \* signals that reached the child
    ghost      \* history: calls of onChildExit, an envelope the child wrote

runVars == <<opts, phase, obs, result, timer, on, child, pipe, written, kills, ghost>>

-----------------------------------------------------------------------------
Timer    == {"cap", "stall", "grace", "final", "envelope"}
Watchdog == Timer \ {"envelope"}
Line     == {"init", "event", "success", "error"}
Envelope == {"success", "error"}
ExitCode == {"0", "1", "124", "null"}       \* null: ended by a signal
Trigger  == {"timeout", "stall", "abort"}
NoResult == [pending |-> TRUE]

Obs == [exitCode : ExitCode, envelope : Envelope \cup {"none"},
        conversationId : BOOLEAN, timedOut : BOOLEAN, stalled : BOOLEAN,
        spawnError : {"none", "ENOENT", "other"},
        terminationUnconfirmed : BOOLEAN,
        terminationTrigger : Trigger \cup {"none"},
        requestedSignal : BOOLEAN, escalatedSignal : BOOLEAN,
        observedSignal : BOOLEAN, detached : BOOLEAN]

\* main: onExit and onClose; collector: onChildFinalExit; abort: onAbort;
\* stdio: the line reader; log: the attempt log is open.
Owned == {"main", "collector", "abort", "stdio", "log"}

ChildState == {"none", "alive", "dead", "failed"}

InitialObs ==
    [exitCode |-> "null", envelope |-> "none", conversationId |-> FALSE,
     timedOut |-> FALSE, stalled |-> FALSE, spawnError |-> "none",
     terminationUnconfirmed |-> FALSE, terminationTrigger |-> "none",
     requestedSignal |-> FALSE, escalatedSignal |-> FALSE,
     observedSignal |-> FALSE, detached |-> FALSE]

Settled == phase = "settled"

-----------------------------------------------------------------------------
\* The helpers below are the local functions of the executor.  Each takes the
\* locals o and timers t it starts from and says what they become.

\* killOrRecord: the signal arrives, or kill() throws and is caught, or the
\* child object reports the failure as an 'error' event.
KillOrRecord(sig, o) ==
    \/ /\ kills' = IF child.state = "alive" THEN kills \cup {sig} ELSE kills
       /\ obs' = o
    \/ /\ kills' = kills
       /\ obs' = o
    \/ /\ child.state = "alive"
       /\ kills' = kills
       /\ obs' = [o EXCEPT !.spawnError = "other"]

\* The locals after requestTermination: only the first requester owns the
\* recorded trigger.
Requested(trigger, o) ==
    [o EXCEPT !.terminationTrigger = IF @ = "none" THEN trigger ELSE @,
              !.requestedSignal = TRUE]

\* The grace timer is armed once, no matter how many triggers fire.
ArmGrace(t) == IF t["grace"] = "unset" THEN [t EXCEPT !["grace"] = "armed"] ELSE t

RequestTermination(trigger, o, t) ==
    IF Settled
    THEN /\ obs' = o
         /\ timer' = t
         /\ UNCHANGED kills
    ELSE /\ KillOrRecord("SIGTERM", Requested(trigger, o))
         /\ timer' = ArmGrace(t)

\* Mutant of Finish: the watchdogs are not cleared.
FinishKeepingTimers(o, t) ==
    /\ phase' = "settled"
    /\ result' = o
    /\ timer' = t
    /\ on' = IF o.detached THEN (on \ {"abort"}) \cup {"collector"} ELSE {}
    /\ ghost' = [ghost EXCEPT !.onChildExit = IF o.detached THEN @ ELSE @ + 1]

\* finish(): clears every watchdog and gives up what the runner owns; a
\* detached run leaves the collector, the pipes and the log in place.
Finish(o, t) ==
    /\ phase' = "settled"
    /\ result' = o
    /\ timer' = [w \in Timer |-> IF w \in Watchdog THEN "done" ELSE t[w]]
    /\ IF o.detached
       THEN /\ on' = (on \ {"abort"}) \cup {"collector"}
            /\ ghost' = ghost
       ELSE /\ on' = {}
            /\ ghost' = [ghost EXCEPT !.onChildExit = @ + 1]

\* Mutant of ArmStall: a line read after settlement arms the watchdog again.
ArmStallSettled(t) ==
    [t EXCEPT !["stall"] = IF StallMs = 0 THEN "unset" ELSE "armed"]

\* armStall: restart the window, unless disabled or settled.
ArmStall(t) ==
    [t EXCEPT !["stall"] = IF StallMs = 0 \/ Settled THEN "unset" ELSE "armed"]

-----------------------------------------------------------------------------
Unstarted ==
    /\ obs = InitialObs
    /\ result = NoResult
    /\ timer = [w \in Timer |-> "unset"]
    /\ on = {}
    /\ opts \in [aborted : PreAborted, detach : DetachOnAbort]
    /\ child = [state |-> "none", code |-> "null", exit |-> FALSE, close |-> FALSE]
    /\ pipe = <<>>
    /\ written = 0
    /\ kills = {}
    /\ ghost = [onChildExit |-> 0, wrote |-> FALSE]

RunInit == phase = "idle" /\ Unstarted

\* openSync(logPath) or spawn() throws: nothing is left behind.
StartFails ==
    /\ phase = "idle"
    /\ phase' = "rejected"
    /\ UNCHANGED <<obs, result, timer, on, opts, child, pipe, written, kills,
                   ghost>>

\* spawn() returns.  A binary that cannot start still yields a child object,
\* which reports 'error' and then 'close', with an errno for its code or none.
SpawnedChild ==
    \/ child' = [child EXCEPT !.state = "alive"]
    \/ \E code \in {"1", "null"} :
          child' = [child EXCEPT !.state = "failed", !.code = code]

\* The executor from spawn to the last listener.
Start ==
    /\ phase = "idle"
    /\ ~(opts.aborted /\ opts.detach)
    /\ phase' = "running"
    /\ SpawnedChild
    /\ LET armed == [ArmStall(timer) EXCEPT !["cap"] = "armed"]
       IN IF opts.aborted
          THEN /\ \/ /\ kills' = {}
                     /\ obs' = Requested("abort", obs)
                  \/ /\ child'.state = "alive"
                     /\ kills' \in {{}, {"SIGTERM"}}
                     /\ \E e \in {"none", "other"} :
                           obs' = [Requested("abort", obs) EXCEPT !.spawnError = e]
               /\ timer' = ArmGrace(armed)
               /\ on' = {"main", "stdio", "log"}
          ELSE /\ timer' = armed
               /\ on' = {"main", "stdio", "log", "abort"}
               /\ UNCHANGED <<kills, obs>>
    /\ UNCHANGED <<result, opts, pipe, written, ghost>>

\* The same executor with a signal already aborted and detachOnAbort: onAbort
\* runs before the constant finish is initialised, so it throws out of the
\* executor.  The promise rejects with the child running, the cap timer armed
\* and no listener attached.
StartDetachedTooEarly ==
    /\ phase = "idle"
    /\ opts.aborted /\ opts.detach
    /\ phase' = "rejected"
    /\ SpawnedChild
    /\ obs' = [obs EXCEPT !.terminationTrigger = "abort"]
    /\ timer' = [timer EXCEPT !["cap"] = "armed"]
    /\ on' = {"log"}
    /\ UNCHANGED <<result, opts, pipe, written, kills, ghost>>

-----------------------------------------------------------------------------
\* Mutant of ReadLine: an envelope that is not a success is dropped.
ReadLineSuccess ==
    /\ "stdio" \in on
    /\ pipe # <<>>
    /\ LET line == Head(pipe)
       IN /\ obs' = [obs EXCEPT
                       !.conversationId = @ \/ line = "init",
                       !.envelope = IF line = "success" THEN line ELSE @]
          /\ timer' = IF line = "success"
                      THEN [ArmStall(timer) EXCEPT !["envelope"] = "armed"]
                      ELSE ArmStall(timer)
    /\ pipe' = Tail(pipe)
    /\ UNCHANGED <<phase, result, on, opts, child, written, kills, ghost>>

\* rl.on('line'), and stderr data, which arms and appends the same way.
ReadLine ==
    /\ "stdio" \in on
    /\ pipe # <<>>
    /\ LET line == Head(pipe)
       IN /\ obs' = [obs EXCEPT
                       !.conversationId = @ \/ line = "init",
                       !.envelope = IF line \in Envelope THEN line ELSE @]
          /\ timer' = IF line \in Envelope
                      THEN [ArmStall(timer) EXCEPT !["envelope"] = "armed"]
                      ELSE ArmStall(timer)
    /\ pipe' = Tail(pipe)
    /\ UNCHANGED <<phase, result, on, opts, child, written, kills, ghost>>

Armed(w) == timer[w] = "armed"

\* Mutant of CapFires: timedOut is not set.
CapFiresUnmarked ==
    /\ Armed("cap")
    /\ RequestTermination("timeout", obs, [timer EXCEPT !["cap"] = "done"])
    /\ UNCHANGED <<phase, result, on, opts, child, pipe, written, ghost>>

CapFires ==
    /\ Armed("cap")
    /\ RequestTermination("timeout", [obs EXCEPT !.timedOut = TRUE],
                          [timer EXCEPT !["cap"] = "done"])
    /\ UNCHANGED <<phase, result, on, opts, child, pipe, written, ghost>>

StallFires ==
    /\ Armed("stall")
    /\ RequestTermination("stall", [obs EXCEPT !.stalled = TRUE],
                          [timer EXCEPT !["stall"] = "done"])
    /\ UNCHANGED <<phase, result, on, opts, child, pipe, written, ghost>>

\* Mutants of GraceFires: the final deadline is not armed; the escalation is
\* not recorded.
GraceFiresLast ==
    /\ Armed("grace")
    /\ timer' = [timer EXCEPT !["grace"] = "done"]
    /\ IF Settled
       THEN UNCHANGED <<obs, kills>>
       ELSE KillOrRecord("SIGKILL", [obs EXCEPT !.escalatedSignal = TRUE])
    /\ UNCHANGED <<phase, result, on, opts, child, pipe, written, ghost>>

GraceFiresUnrecorded ==
    /\ Armed("grace")
    /\ IF Settled
       THEN /\ timer' = [timer EXCEPT !["grace"] = "done"]
            /\ UNCHANGED <<obs, kills>>
       ELSE /\ KillOrRecord("SIGKILL", obs)
            /\ timer' = [timer EXCEPT !["grace"] = "done", !["final"] = "armed"]
    /\ UNCHANGED <<phase, result, on, opts, child, pipe, written, ghost>>

\* The grace window is over: escalate, and arm the final deadline.
GraceFires ==
    /\ Armed("grace")
    /\ IF Settled
       THEN /\ timer' = [timer EXCEPT !["grace"] = "done"]
            /\ UNCHANGED <<obs, kills>>
       ELSE /\ KillOrRecord("SIGKILL", [obs EXCEPT !.escalatedSignal = TRUE])
            /\ timer' = [timer EXCEPT !["grace"] = "done", !["final"] = "armed"]
    /\ UNCHANGED <<phase, result, on, opts, child, pipe, written, ghost>>

\* Forced settlement without exit or close.
FinalFires ==
    /\ Armed("final")
    /\ phase = "running"
    /\ obs' = [obs EXCEPT !.terminationUnconfirmed = TRUE]
    /\ Finish(obs', timer)
    /\ UNCHANGED <<opts, child, pipe, written, kills>>

\* The final deadline of a run whose executor threw: finish was never
\* initialised, the timer callback throws.
FinalThrows ==
    /\ Armed("final")
    /\ phase = "rejected"
    /\ timer' = [timer EXCEPT !["final"] = "done"]
    /\ obs' = [obs EXCEPT !.terminationUnconfirmed = TRUE]
    /\ UNCHANGED <<phase, result, on, opts, child, pipe, written, kills, ghost>>

\* Mutant of EnvelopeFires: finish() without its test of settled.
EnvelopeFiresAgain ==
    /\ Armed("envelope")
    /\ Finish(obs, [timer EXCEPT !["envelope"] = "done"])
    /\ UNCHANGED <<obs, opts, child, pipe, written, kills>>

\* 100 ms after an envelope was read.
EnvelopeFires ==
    /\ Armed("envelope")
    /\ LET t == [timer EXCEPT !["envelope"] = "done"]
       IN IF Settled
          THEN /\ timer' = t
               /\ UNCHANGED <<phase, result, on, ghost>>
          ELSE Finish(obs, t)
    /\ UNCHANGED <<obs, opts, child, pipe, written, kills>>

\* Mutants of Detach: the child is told to stop; an expired cap still shows.
DetachKilling ==
    /\ obs' = [obs EXCEPT !.timedOut = FALSE, !.terminationTrigger = "abort"]
    /\ Finish([obs' EXCEPT !.detached = TRUE], timer)
    /\ kills' = kills \cup {"SIGTERM"}

DetachKeepingTimeout ==
    /\ obs' = [obs EXCEPT !.terminationTrigger = "abort"]
    /\ Finish([obs' EXCEPT !.detached = TRUE], timer)
    /\ UNCHANGED kills

\* onAbort with detachOnAbort: settle now, leave the child running.
Detach ==
    /\ obs' = [obs EXCEPT !.timedOut = FALSE, !.terminationTrigger = "abort"]
    /\ Finish([obs' EXCEPT !.detached = TRUE], timer)
    /\ UNCHANGED kills

\* The caller aborts: the listener runs inside abort(), once.
Abort ==
    /\ phase # "idle"
    /\ ~opts.aborted
    /\ opts' = [opts EXCEPT !.aborted = TRUE]
    /\ IF "abort" \notin on
       THEN UNCHANGED <<phase, obs, result, timer, on, kills, ghost>>
       ELSE IF opts.detach
       THEN Detach
       ELSE /\ RequestTermination("abort", obs, timer)
            /\ on' = on \ {"abort"}
            /\ UNCHANGED <<phase, result, ghost>>
    /\ UNCHANGED <<child, pipe, written>>

-----------------------------------------------------------------------------
\* onChildFinalExit, on the first of exit and close of a detached child.  The
\* line reader stays; onExit and onClose find the run settled.
Collect ==
    /\ on' = on \ {"collector", "log"}
    /\ ghost' = [ghost EXCEPT !.onChildExit = @ + 1]

\* 'exit': may come before the pipe is drained.
Exit ==
    /\ child.state = "dead"
    /\ ~child.exit
    /\ child' = [child EXCEPT !.exit = TRUE]
    /\ IF "collector" \in on
       THEN /\ Collect
            /\ UNCHANGED <<phase, obs, result, timer>>
       ELSE IF "main" \in on /\ ~Settled
       THEN /\ obs' = [obs EXCEPT !.exitCode = child.code]
            /\ Finish(obs', timer)
       ELSE UNCHANGED <<phase, obs, result, timer, on, ghost>>
    /\ UNCHANGED <<opts, pipe, written, kills>>

\* 'close': after exit and after the pipes are drained or destroyed.  A child
\* that never started has no exit, and its close carries no signal.
Close ==
    /\ child.exit \/ (child.state = "failed" /\ obs.spawnError # "none")
    /\ ~child.close
    /\ "stdio" \notin on \/ pipe = <<>>
    /\ child' = [child EXCEPT !.close = TRUE]
    /\ IF "collector" \in on
       THEN /\ Collect
            /\ UNCHANGED <<phase, obs, result, timer>>
       ELSE IF "main" \in on /\ ~Settled
       THEN /\ obs' = [obs EXCEPT
                         !.exitCode = child.code,
                         !.observedSignal = child.state = "dead" /\ child.code = "null"]
            /\ Finish(obs', timer)
       ELSE UNCHANGED <<phase, obs, result, timer, on, ghost>>
    /\ UNCHANGED <<opts, pipe, written, kills>>

\* 'error' of a child that could not start.
SpawnError ==
    /\ child.state = "failed"
    /\ "main" \in on
    /\ obs.spawnError = "none"
    /\ \E e \in {"ENOENT", "other"} : obs' = [obs EXCEPT !.spawnError = e]
    /\ UNCHANGED <<phase, result, timer, on, opts, child, pipe, written, kills,
                   ghost>>

\* The child writes a line: init first, at most one envelope, at the end.
ChildWrites ==
    /\ child.state = "alive"
    /\ written < MaxLines
    /\ ~ghost.wrote
    /\ \E line \in Line :
          /\ line = "init" => written = 0
          /\ pipe' = IF phase = "rejected" \/ (Settled /\ "stdio" \notin on)
                     THEN pipe ELSE Append(pipe, line)
          /\ ghost' = [ghost EXCEPT !.wrote = line \in Envelope]
    /\ written' = written + 1
    /\ UNCHANGED <<phase, obs, result, timer, on, opts, child, kills>>

\* The child ends, by itself or by a signal (ours or someone else's); it may
\* as well ignore SIGTERM, and outlive SIGKILL in an uninterruptible wait.
ChildEnds ==
    /\ child.state = "alive"
    /\ \E code \in ExitCode :
          child' = [child EXCEPT !.state = "dead", !.code = code]
    /\ UNCHANGED <<phase, obs, result, timer, on, opts, pipe, written, kills,
                   ghost>>

-----------------------------------------------------------------------------
\* Callbacks of the runner's event loop.
Runner ==
    \/ StartFails \/ Start \/ StartDetachedTooEarly
    \/ ReadLine
    \/ CapFires \/ StallFires \/ GraceFires \/ FinalFires \/ FinalThrows
    \/ EnvelopeFires
    \/ Exit \/ Close \/ SpawnError

RunNext == Runner \/ Abort \/ ChildWrites \/ ChildEnds

RunSpec == RunInit /\ [][RunNext]_runVars

\* Armed timers fire and emitted events are delivered.  The child owes
\* nothing: it may be silent, deaf to signals and immortal.
RunFairness ==
    /\ WF_runVars(StartFails \/ Start \/ StartDetachedTooEarly)
    /\ WF_runVars(CapFires) /\ WF_runVars(GraceFires) /\ WF_runVars(FinalFires)
    /\ WF_runVars(FinalThrows) /\ WF_runVars(EnvelopeFires)
    /\ WF_runVars(Exit \/ Close \/ SpawnError)

FairRun == RunSpec /\ RunFairness

-----------------------------------------------------------------------------
RunTypeOK ==
    /\ phase \in {"idle", "running", "settled", "rejected"}
    /\ obs \in Obs
    /\ result \in Obs \cup {NoResult}
    /\ timer \in [Timer -> {"unset", "armed", "done"}]
    /\ on \subseteq Owned
    /\ opts \in [aborted : BOOLEAN, detach : BOOLEAN]
    /\ child \in [state : ChildState, code : ExitCode, exit : BOOLEAN,
                  close : BOOLEAN]
    /\ pipe \in Seq(Line) /\ Len(pipe) <= written
    /\ written \in 0..MaxLines
    /\ kills \subseteq {"SIGTERM", "SIGKILL"}
    /\ ghost \in [onChildExit : 0..1, wrote : BOOLEAN]

\* finish() leaves no watchdog behind and, unless the child was detached, no
\* listener, pipe or descriptor either; onChildExit runs once, and closes the
\* log.
ReleasesEverything ==
    /\ ghost.onChildExit <= 1
    /\ Settled =>
        /\ \A w \in Watchdog : ~Armed(w)
        /\ "abort" \notin on
        /\ ~result.detached => on = {}
        /\ ghost.onChildExit = 1 <=> "log" \notin on

\* terminationUnconfirmed is claimed only after both signals were attempted on
\* behalf of a recorded trigger and neither exit nor close was seen.
UnconfirmedIsHonest ==
    Settled /\ result.terminationUnconfirmed =>
        /\ result.requestedSignal /\ result.escalatedSignal
        /\ result.terminationTrigger # "none"
        /\ result.exitCode = "null" /\ ~result.observedSignal
        /\ ~result.detached

\* The cause a caller reads is the cause that happened: a signal is requested
\* exactly when a trigger is recorded, and the trigger names a watchdog that
\* fired or an abort that was raised; a detached run blames only the abort.
CauseAttributed ==
    Settled =>
        /\ result.requestedSignal => result.terminationTrigger # "none"
        /\ ~result.detached /\ result.terminationTrigger # "none" =>
                result.requestedSignal
        /\ result.terminationTrigger = "timeout" => result.timedOut
        /\ result.terminationTrigger = "stall" => result.stalled
        /\ result.terminationTrigger = "abort" => opts.aborted
        /\ result.detached =>
                result.terminationTrigger = "abort" /\ ~result.timedOut

\* What a caller is told of a run that had to be ended is what happened to it.
CausesTold == UnconfirmedIsHonest /\ CauseAttributed

\* Detaching stops the wait, never the child: with no earlier request to
\* terminate it, the child of a detached run gets no signal, then or later.
DetachLeavesChildAlone ==
    Settled /\ result.detached /\ ~result.requestedSignal => kills = {}

\* In every state: the variables keep their types, a settled run holds nothing
\* any more, and the child of a detached one is left to itself.
RunSound == RunTypeOK /\ ReleasesEverything /\ DetachLeavesChildAlone

\* "An unkillable child can never hang the attempt" (270): whatever the child
\* does, the promise settles.
AlwaysSettles == phase = "idle" ~> phase \in {"settled", "rejected"}

\* README.md 278, as far as it goes: an envelope the child wrote reaches the
\* caller unless the run was detached, unconfirmed or settled by an exit that
\* overtook the line in the pipe.
EnvelopeLostOnlyInPipe ==
    /\ Settled /\ ~result.detached /\ ~result.terminationUnconfirmed
    /\ ghost.wrote /\ result.envelope = "none"
    => pipe # <<>> /\ pipe[Len(pipe)] \in Envelope
=============================================================================
