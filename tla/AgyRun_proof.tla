----------------------------- MODULE AgyRun_proof -----------------------------
(***************************************************************************)
(* Proofs about AgyRun for any stall window, any callers and any number of *)
(* lines.  The argument: while the promise is pending the executor's       *)
(* locals already tell the truth about what was requested and why; finish  *)
(* copies them once, and nothing that runs later reaches the copy.  The    *)
(* last part is about what is decided of a run and a turn (MCOutcomes),    *)
(* for any evidence, window files and number of parts.                     *)
(***************************************************************************)
EXTENDS AgyRun, MCOutcomes, TLAPS

\* The locals of a run nothing has settled yet.
Unsettled(o) ==
    /\ o.exitCode = "null" /\ ~o.observedSignal
    /\ ~o.terminationUnconfirmed /\ ~o.detached

\* A signal is requested on behalf of a trigger, and the trigger happened.
Caused(o, aborted) ==
    /\ o.requestedSignal => o.terminationTrigger # "none"
    /\ o.terminationTrigger # "none" => o.requestedSignal
    /\ o.terminationTrigger = "timeout" => o.timedOut
    /\ o.terminationTrigger = "stall" => o.stalled
    /\ o.terminationTrigger = "abort" => aborted
    /\ o.escalatedSignal => o.requestedSignal

\* Before the executor runs there is nothing.
IdleInv ==
    phase = "idle" =>
        /\ obs = InitialObs /\ timer = [w \in Timer |-> "unset"]
        /\ on = {} /\ child.state = "none" /\ kills = {} /\ ~ghost.wrote

\* The promise is pending: the runner owns the child, and every timer of the
\* termination chain stands for a request that was recorded.
PendingInv ==
    phase = "running" =>
        /\ {"main", "stdio", "log"} \subseteq on /\ "collector" \notin on
        /\ "abort" \in on => ~opts.aborted
        /\ Unsettled(obs)
        /\ Caused(obs, opts.aborted)
        /\ kills # {} => obs.requestedSignal
        /\ Armed("grace") => obs.requestedSignal
        /\ Armed("final") => obs.escalatedSignal

\* The executor threw or never ran: only the log may be left open, and no line
\* was read.
RejectedInv == phase = "rejected" => on \subseteq {"log"} /\ ~Armed("envelope")

\* Nothing is settled before finish, and onChildExit runs no earlier.
NotSettledInv == ~Settled => result = NoResult /\ ghost.onChildExit = 0

\* After finish: the log is open exactly while a collector is due to close it.
SettledInv ==
    Settled =>
        /\ result \in Obs
        /\ \A w \in Watchdog : ~Armed(w)
        /\ "abort" \notin on
        /\ ~result.detached => on = {}
        /\ "collector" \in on <=> "log" \in on
        /\ "log" \in on => ghost.onChildExit = 0
        /\ "log" \notin on => ghost.onChildExit = 1

\* What finish copied stays true of the run.
ToldInv ==
    Settled =>
        /\ UnconfirmedIsHonest
        /\ CauseAttributed
        /\ DetachLeavesChildAlone

\* The envelope is the last thing in the pipe.
Unread == pipe # <<>> /\ pipe[Len(pipe)] \in Envelope

\* An envelope the child wrote has been read or waits at the end of the pipe;
\* a run that settles without one settles on an exit, after which none is
\* written any more.
EnvelopeInv ==
    /\ Armed("envelope") => obs.envelope # "none"
    /\ phase = "running" /\ ghost.wrote => obs.envelope # "none" \/ Unread
    /\ child.exit => child.state = "dead"
    /\ Settled /\ ~result.detached /\ ~result.terminationUnconfirmed =>
          \/ result.envelope # "none"
          \/ child.state # "alive" /\ (ghost.wrote => Unread)

IInv ==
    /\ RunTypeOK
    /\ IdleInv /\ PendingInv /\ RejectedInv
    /\ NotSettledInv /\ SettledInv /\ ToldInv
    /\ EnvelopeInv

-----------------------------------------------------------------------------
\* The facts about the locals that the invariant reads.
Agrees(p, o) ==
    /\ p.exitCode = o.exitCode /\ p.observedSignal = o.observedSignal
    /\ p.terminationUnconfirmed = o.terminationUnconfirmed
    /\ p.detached = o.detached /\ p.envelope = o.envelope
    /\ p.terminationTrigger = o.terminationTrigger
    /\ p.requestedSignal = o.requestedSignal
    /\ p.escalatedSignal = o.escalatedSignal
    /\ p.timedOut = o.timedOut /\ p.stalled = o.stalled

\* killOrRecord touches no local but the spawn error, and nobody but the child.
LEMMA KillRecords ==
    ASSUME RunTypeOK, NEW sig \in {"SIGTERM", "SIGKILL"}, NEW o \in Obs,
           KillOrRecord(sig, o)
    PROVE  /\ obs' \in Obs /\ Agrees(obs', o)
           /\ kills' \subseteq {"SIGTERM", "SIGKILL"}
<1>1. kills' \subseteq {"SIGTERM", "SIGKILL"}
  BY DEF KillOrRecord, RunTypeOK
<1>2. obs' = o \/ obs' = [o EXCEPT !.spawnError = "other"]
  BY DEF KillOrRecord
<1>3. CASE obs' = o
  BY <1>1, <1>3 DEF Agrees
<1>4. CASE obs' = [o EXCEPT !.spawnError = "other"]
  <2>1. obs' \in Obs
    BY <1>4 DEF Obs
  <2>2. Agrees(obs', o)
    BY <1>4 DEF Agrees, Obs
  <2>3. QED
    BY <1>1, <2>1, <2>2
<1>5. QED
  BY <1>2, <1>3, <1>4

\* requestTermination records a trigger unless one is recorded, and nothing else.
LEMMA RequestRecords ==
    ASSUME NEW trigger \in Trigger, NEW o \in Obs
    PROVE  LET r == Requested(trigger, o)
           IN /\ r \in Obs
              /\ r.requestedSignal
              /\ r.terminationTrigger =
                    IF o.terminationTrigger = "none" THEN trigger ELSE o.terminationTrigger
              /\ r.exitCode = o.exitCode /\ r.observedSignal = o.observedSignal
              /\ r.terminationUnconfirmed = o.terminationUnconfirmed
              /\ r.detached = o.detached /\ r.envelope = o.envelope
              /\ r.escalatedSignal = o.escalatedSignal
              /\ r.timedOut = o.timedOut /\ r.stalled = o.stalled
  BY DEF Requested, Obs, Trigger

\* armStall and the grace timer touch their own timer only.
LEMMA ArmsOne ==
    ASSUME NEW t \in [Timer -> {"unset", "armed", "done"}]
    PROVE  /\ ArmStall(t) \in [Timer -> {"unset", "armed", "done"}]
           /\ \A w \in Timer \ {"stall"} : ArmStall(t)[w] = t[w]
           /\ Settled => ArmStall(t)["stall"] = "unset"
           /\ ArmGrace(t) \in [Timer -> {"unset", "armed", "done"}]
           /\ \A w \in Timer \ {"grace"} : ArmGrace(t)[w] = t[w]
  BY DEF ArmStall, ArmGrace, Timer

\* finish releases what it should, whatever it copies.
LEMMA FinishReleases ==
    ASSUME IInv, phase = "running", NEW o \in Obs,
           NEW t \in [Timer -> {"unset", "armed", "done"}], Finish(o, t)
    PROVE  /\ phase' = "settled" /\ result' = o
           /\ timer' \in [Timer -> {"unset", "armed", "done"}]
           /\ timer'["envelope"] = t["envelope"]
           /\ on' \subseteq Owned
           /\ ghost' \in [onChildExit : 0..1, wrote : BOOLEAN]
           /\ ghost'.wrote = ghost.wrote
           /\ IdleInv' /\ PendingInv' /\ RejectedInv' /\ NotSettledInv' /\ SettledInv'
<1>1. phase' = "settled" /\ result' = o
  BY DEF Finish
<1>2. /\ timer' \in [Timer -> {"unset", "armed", "done"}]
      /\ timer'["envelope"] = t["envelope"]
      /\ \A w \in Watchdog : timer'[w] # "armed"
  BY DEF Finish, Timer, Watchdog
<1>3. /\ ghost.onChildExit = 0 /\ ghost \in [onChildExit : 0..1, wrote : BOOLEAN]
      /\ "log" \in on /\ on \subseteq Owned
  BY DEF IInv, NotSettledInv, PendingInv, Settled, RunTypeOK
<1>4. CASE o.detached
  <2>1. on' = (on \ {"abort"}) \cup {"collector"} /\ ghost' = ghost
    BY <1>4 DEF Finish
  <2>2. SettledInv'
    BY <1>1, <1>2, <1>3, <1>4, <2>1 DEF SettledInv, Settled, Armed
  <2>3. QED
    BY <1>1, <1>2, <1>3, <2>1, <2>2
       DEF IdleInv, PendingInv, RejectedInv, NotSettledInv, Settled, Owned
<1>5. CASE ~o.detached
  <2>1. on' = {} /\ ghost' = [ghost EXCEPT !.onChildExit = @ + 1]
    BY <1>5 DEF Finish
  <2>2. /\ ghost' \in [onChildExit : 0..1, wrote : BOOLEAN]
        /\ ghost'.onChildExit = 1 /\ ghost'.wrote = ghost.wrote
    BY <1>3, <2>1
  <2>3. SettledInv'
    BY <1>1, <1>2, <1>5, <2>1, <2>2 DEF SettledInv, Settled, Armed
  <2>4. QED
    BY <1>1, <1>2, <2>1, <2>2, <2>3
       DEF IdleInv, PendingInv, RejectedInv, NotSettledInv, Settled, Owned
<1>6. QED
  BY <1>4, <1>5

\* What finish copies is told truly when the pending locals were true.
LEMMA FinishTells ==
    ASSUME phase' = "settled", result' \in Obs,
           Caused(result', opts.aborted'),
           result'.terminationUnconfirmed =>
              /\ result'.escalatedSignal /\ ~result'.detached
              /\ result'.exitCode = "null" /\ ~result'.observedSignal,
           ~result'.detached
    PROVE  ToldInv'
  BY DEF ToldInv, UnconfirmedIsHonest, CauseAttributed, DetachLeavesChildAlone,
         Caused, Settled

LEMMA InitInv == RunInit => IInv
<1> SUFFICES ASSUME RunInit PROVE IInv
  OBVIOUS
<1>1. obs \in Obs
  BY DEF RunInit, Unstarted, InitialObs, Obs, ExitCode
<1>2. opts \in [aborted : BOOLEAN, detach : BOOLEAN]
  BY RunAssumption DEF RunInit, Unstarted
<1>3. child \in [state : ChildState, code : ExitCode, exit : BOOLEAN, close : BOOLEAN]
  BY DEF RunInit, Unstarted, ChildState, ExitCode
<1>4. RunTypeOK
  BY <1>1, <1>2, <1>3, RunAssumption DEF RunInit, Unstarted, RunTypeOK
<1>5. QED
  BY <1>4 DEF RunInit, Unstarted, IInv, IdleInv, PendingInv, RejectedInv, NotSettledInv, SettledInv,
     ToldInv, EnvelopeInv, Settled, Armed, Timer, UnconfirmedIsHonest,
     CauseAttributed, DetachLeavesChildAlone

-----------------------------------------------------------------------------
LEMMA StartFailsKeeps == IInv /\ StartFails => IInv'
  BY DEF IInv, StartFails, RunTypeOK, IdleInv, PendingInv, RejectedInv, NotSettledInv,
     SettledInv, ToldInv, EnvelopeInv, Unread, Settled, Armed, Timer

\* A child that has just been spawned has not ended.
LEMMA SpawnedTyped ==
    ASSUME IInv, phase = "idle", SpawnedChild
    PROVE  /\ child' \in [state : ChildState, code : ExitCode, exit : BOOLEAN,
                          close : BOOLEAN]
           /\ ~child'.exit
  BY DEF IInv, RunTypeOK, IdleInv, EnvelopeInv, SpawnedChild, ChildState, ExitCode

LEMMA StartKeeps == IInv /\ Start => IInv'
<1> SUFFICES ASSUME IInv, Start PROVE IInv'
  OBVIOUS
<1> DEFINE armed == [ArmStall(timer) EXCEPT !["cap"] = "armed"]
<1>1. /\ phase = "idle" /\ phase' = "running"
      /\ UNCHANGED <<result, opts, pipe, written, ghost>>
  BY DEF Start
<1>2. /\ obs = InitialObs /\ on = {} /\ kills = {} /\ ~ghost.wrote
      /\ timer = [w \in Timer |-> "unset"]
      /\ obs \in Obs /\ RunTypeOK
      /\ result = NoResult /\ ghost.onChildExit = 0
  BY <1>1 DEF IInv, IdleInv, NotSettledInv, Settled, RunTypeOK
<1>3. /\ child' \in [state : ChildState, code : ExitCode, exit : BOOLEAN, close : BOOLEAN]
      /\ ~child'.exit
  BY <1>1, SpawnedTyped DEF Start
<1>4. /\ armed \in [Timer -> {"unset", "armed", "done"}]
      /\ armed["grace"] = "unset" /\ armed["final"] = "unset"
      /\ armed["envelope"] = "unset"
  BY <1>2, ArmsOne DEF Timer
<1> HIDE DEF armed
<1>5. CASE opts.aborted
  <2> DEFINE r == Requested("abort", obs)
  <2>1. /\ r \in Obs /\ Unsettled(r) /\ Caused(r, opts.aborted)
        /\ r.requestedSignal /\ r.envelope = "none"
    BY <1>2, <1>5, RequestRecords DEF Unsettled, Caused, Trigger, InitialObs
  <2>2. /\ obs' = r \/ \E e \in {"none", "other"} : obs' = [r EXCEPT !.spawnError = e]
        /\ timer' = ArmGrace(armed) /\ on' = {"main", "stdio", "log"}
        /\ kills' \subseteq {"SIGTERM"}
    BY <1>5 DEF Start, armed
  <2> HIDE DEF r
  <2>3. /\ obs' \in Obs /\ Unsettled(obs') /\ Caused(obs', opts.aborted)
        /\ obs'.requestedSignal
    <3>1. CASE obs' = r
      BY <2>1, <3>1
    <3>2. CASE \E e \in {"none", "other"} : obs' = [r EXCEPT !.spawnError = e]
      <4>1. PICK e \in {"none", "other"} : obs' = [r EXCEPT !.spawnError = e]
        BY <3>2
      <4>2. obs' \in Obs /\ Agrees(obs', r)
        BY <2>1, <4>1 DEF Obs, Agrees
      <4>3. QED
        BY <2>1, <4>2 DEF Agrees, Unsettled, Caused
    <3>3. QED
      BY <2>2, <3>1, <3>2
  <2>4. /\ timer' \in [Timer -> {"unset", "armed", "done"}]
        /\ timer'["final"] = "unset" /\ timer'["envelope"] = "unset"
    BY <1>4, <2>2, ArmsOne DEF Timer
  <2>5. RunTypeOK'
    BY <1>1, <1>2, <1>3, <2>2, <2>3, <2>4 DEF RunTypeOK, Owned
  <2>6. PendingInv'
    BY <1>1, <2>2, <2>3, <2>4 DEF PendingInv, Armed
  <2>7. QED
    BY <1>1, <1>2, <1>3, <2>4, <2>5, <2>6
       DEF IInv, IdleInv, RejectedInv, NotSettledInv, SettledInv, ToldInv,
           EnvelopeInv, Settled, Armed
<1>6. CASE ~opts.aborted
  <2>1. /\ timer' = armed /\ on' = {"main", "stdio", "log", "abort"}
        /\ UNCHANGED <<kills, obs>>
    BY <1>6 DEF Start, armed
  <2>2. RunTypeOK'
    BY <1>1, <1>2, <1>3, <1>4, <2>1 DEF RunTypeOK, Owned
  <2>3. PendingInv'
    BY <1>1, <1>2, <1>4, <1>6, <2>1
       DEF PendingInv, Armed, Unsettled, Caused, InitialObs
  <2>4. QED
    BY <1>1, <1>2, <1>3, <1>4, <2>1, <2>2, <2>3
       DEF IInv, IdleInv, RejectedInv, NotSettledInv, SettledInv, ToldInv,
           EnvelopeInv, Settled, Armed
<1>7. QED
  BY <1>5, <1>6 DEF IInv, RunTypeOK

LEMMA StartDetachedTooEarlyKeeps == IInv /\ StartDetachedTooEarly => IInv'
<1> SUFFICES ASSUME IInv, StartDetachedTooEarly PROVE IInv'
  OBVIOUS
<1>1. /\ phase = "idle" /\ phase' = "rejected" /\ on' = {"log"}
      /\ UNCHANGED <<result, opts, pipe, written, kills, ghost>>
  BY DEF StartDetachedTooEarly
<1>2. /\ child' \in [state : ChildState, code : ExitCode, exit : BOOLEAN, close : BOOLEAN]
      /\ ~child'.exit
  BY <1>1, SpawnedTyped DEF StartDetachedTooEarly
<1>3. obs' \in Obs
  BY DEF StartDetachedTooEarly, IInv, RunTypeOK, Obs, Trigger
<1>4. timer' \in [Timer -> {"unset", "armed", "done"}] /\ timer'["envelope"] = "unset"
  BY <1>1 DEF StartDetachedTooEarly, IInv, RunTypeOK, IdleInv, Timer
<1>5. RunTypeOK'
  BY <1>1, <1>2, <1>3, <1>4 DEF IInv, RunTypeOK, Owned
<1>6. QED
  BY <1>1, <1>2, <1>4, <1>5
     DEF IInv, IdleInv, PendingInv, RejectedInv, NotSettledInv, SettledInv, ToldInv,
         EnvelopeInv, Settled, Armed

-----------------------------------------------------------------------------
\* A request to terminate, whoever asks, from locals o and timers t that already
\* show its trigger.
LEMMA TerminationKeeps ==
    ASSUME IInv, phase \in {"running", "rejected"}, NEW trigger \in Trigger,
           NEW o \in Obs, NEW t \in [Timer -> {"unset", "armed", "done"}],
           phase = "running" =>
              /\ Unsettled(o) /\ Caused(o, opts'.aborted)
              /\ trigger = "timeout" => o.timedOut
              /\ trigger = "stall" => o.stalled
              /\ trigger = "abort" => opts'.aborted,
           o.escalatedSignal = obs.escalatedSignal, o.envelope = obs.envelope,
           t["final"] = timer["final"], t["envelope"] = timer["envelope"],
           RequestTermination(trigger, o, t),
           UNCHANGED <<phase, result, child, pipe, written, ghost>>,
           opts' \in [aborted : BOOLEAN, detach : BOOLEAN],
           on' \subseteq on, on \ {"abort"} \subseteq on',
           "abort" \in on' => ~opts'.aborted
    PROVE  IInv'
<1> DEFINE r == Requested(trigger, o)
<1>1. /\ r \in Obs /\ r.requestedSignal
      /\ r.terminationTrigger =
            IF o.terminationTrigger = "none" THEN trigger ELSE o.terminationTrigger
      /\ r.exitCode = o.exitCode /\ r.observedSignal = o.observedSignal
      /\ r.terminationUnconfirmed = o.terminationUnconfirmed
      /\ r.detached = o.detached /\ r.envelope = o.envelope
      /\ r.escalatedSignal = o.escalatedSignal
      /\ r.timedOut = o.timedOut /\ r.stalled = o.stalled
  BY RequestRecords
<1>2. KillOrRecord("SIGTERM", r) /\ timer' = ArmGrace(t)
  BY DEF RequestTermination, Settled
<1> HIDE DEF r
<1>3. RunTypeOK
  BY DEF IInv
<1>4. obs' \in Obs /\ Agrees(obs', r) /\ kills' \subseteq {"SIGTERM", "SIGKILL"}
  BY <1>1, <1>2, <1>3, KillRecords
<1>5. /\ timer' \in [Timer -> {"unset", "armed", "done"}]
      /\ timer'["final"] = timer["final"] /\ timer'["envelope"] = timer["envelope"]
  BY <1>2, ArmsOne DEF Timer
<1>6. RunTypeOK'
  BY <1>3, <1>4, <1>5 DEF RunTypeOK
<1>7. PendingInv'
  <2> SUFFICES ASSUME phase = "running" PROVE PendingInv'
    BY DEF PendingInv
  <2>1. Unsettled(obs') /\ Caused(obs', opts'.aborted) /\ obs'.requestedSignal
    BY <1>1, <1>4 DEF Agrees, Unsettled, Caused, Trigger
  <2>2. timer'["final"] = "armed" => obs'.escalatedSignal
    BY <1>1, <1>4, <1>5 DEF Agrees, IInv, PendingInv, Armed
  <2>3. {"main", "stdio", "log"} \subseteq on' /\ "collector" \notin on'
    BY DEF IInv, PendingInv
  <2>4. QED
    BY <2>1, <2>2, <2>3 DEF PendingInv, Armed
<1>8. EnvelopeInv'
  BY <1>1, <1>4, <1>5 DEF Agrees, IInv, EnvelopeInv, Unread, Armed, Settled
<1>9. RejectedInv'
  BY <1>5 DEF IInv, RejectedInv, Armed
<1>10. QED
  BY <1>6, <1>7, <1>8, <1>9
     DEF IInv, IdleInv, NotSettledInv, SettledInv, ToldInv, Settled

\* A timer that fires belongs to a run that is pending or was rejected.
LEMMA ArmedUnsettled ==
    ASSUME IInv, NEW w \in Watchdog, Armed(w)
    PROVE  phase \in {"running", "rejected"}
  BY DEF IInv, RunTypeOK, IdleInv, SettledInv, Settled, Armed, Watchdog, Timer

LEMMA CapFiresKeeps == IInv /\ CapFires => IInv'
<1> SUFFICES ASSUME IInv, CapFires PROVE IInv'
  OBVIOUS
<1> DEFINE o == [obs EXCEPT !.timedOut = TRUE]
           t == [timer EXCEPT !["cap"] = "done"]
<1>1. phase \in {"running", "rejected"}
  BY ArmedUnsettled DEF CapFires, Watchdog, Timer
<1>2. RunTypeOK
  BY DEF IInv
<1>3. /\ o \in Obs /\ o.timedOut
      /\ o.exitCode = obs.exitCode /\ o.observedSignal = obs.observedSignal
      /\ o.terminationUnconfirmed = obs.terminationUnconfirmed
      /\ o.detached = obs.detached /\ o.envelope = obs.envelope
      /\ o.terminationTrigger = obs.terminationTrigger
      /\ o.requestedSignal = obs.requestedSignal
      /\ o.escalatedSignal = obs.escalatedSignal /\ o.stalled = obs.stalled
  BY <1>2 DEF RunTypeOK, Obs
<1>4. /\ t \in [Timer -> {"unset", "armed", "done"}]
      /\ t["final"] = timer["final"] /\ t["envelope"] = timer["envelope"]
  BY <1>2 DEF RunTypeOK, Timer
<1>5. /\ RequestTermination("timeout", o, t)
      /\ UNCHANGED <<phase, result, on, opts, child, pipe, written, ghost>>
  BY DEF CapFires
<1> HIDE DEF o, t
<1>6. phase = "running" => /\ Unsettled(o) /\ Caused(o, opts'.aborted)
                           /\ "abort" \in on => ~opts.aborted
  BY <1>3, <1>5 DEF IInv, PendingInv, Unsettled, Caused
<1>7. phase = "rejected" => "abort" \notin on
  BY DEF IInv, RejectedInv
<1>8. QED
  BY <1>1, <1>2, <1>3, <1>4, <1>5, <1>6, <1>7, TerminationKeeps DEF Trigger, RunTypeOK

LEMMA StallFiresKeeps == IInv /\ StallFires => IInv'
<1> SUFFICES ASSUME IInv, StallFires PROVE IInv'
  OBVIOUS
<1> DEFINE o == [obs EXCEPT !.stalled = TRUE]
           t == [timer EXCEPT !["stall"] = "done"]
<1>1. phase \in {"running", "rejected"}
  BY ArmedUnsettled DEF StallFires, Watchdog, Timer
<1>2. RunTypeOK
  BY DEF IInv
<1>3. /\ o \in Obs /\ o.stalled
      /\ o.exitCode = obs.exitCode /\ o.observedSignal = obs.observedSignal
      /\ o.terminationUnconfirmed = obs.terminationUnconfirmed
      /\ o.detached = obs.detached /\ o.envelope = obs.envelope
      /\ o.terminationTrigger = obs.terminationTrigger
      /\ o.requestedSignal = obs.requestedSignal
      /\ o.escalatedSignal = obs.escalatedSignal /\ o.timedOut = obs.timedOut
  BY <1>2 DEF RunTypeOK, Obs
<1>4. /\ t \in [Timer -> {"unset", "armed", "done"}]
      /\ t["final"] = timer["final"] /\ t["envelope"] = timer["envelope"]
  BY <1>2 DEF RunTypeOK, Timer
<1>5. /\ RequestTermination("stall", o, t)
      /\ UNCHANGED <<phase, result, on, opts, child, pipe, written, ghost>>
  BY DEF StallFires
<1> HIDE DEF o, t
<1>6. phase = "running" => /\ Unsettled(o) /\ Caused(o, opts'.aborted)
                           /\ "abort" \in on => ~opts.aborted
  BY <1>3, <1>5 DEF IInv, PendingInv, Unsettled, Caused
<1>7. phase = "rejected" => "abort" \notin on
  BY DEF IInv, RejectedInv
<1>8. QED
  BY <1>1, <1>2, <1>3, <1>4, <1>5, <1>6, <1>7, TerminationKeeps DEF Trigger, RunTypeOK

LEMMA GraceFiresKeeps == IInv /\ GraceFires => IInv'
<1> SUFFICES ASSUME IInv, GraceFires PROVE IInv'
  OBVIOUS
<1> DEFINE o == [obs EXCEPT !.escalatedSignal = TRUE]
<1>1. phase \in {"running", "rejected"} /\ RunTypeOK
  BY ArmedUnsettled DEF GraceFires, Watchdog, Timer, IInv
<1>2. /\ o \in Obs /\ o.escalatedSignal
      /\ o.exitCode = obs.exitCode /\ o.observedSignal = obs.observedSignal
      /\ o.terminationUnconfirmed = obs.terminationUnconfirmed
      /\ o.detached = obs.detached /\ o.envelope = obs.envelope
      /\ o.terminationTrigger = obs.terminationTrigger
      /\ o.requestedSignal = obs.requestedSignal
      /\ o.timedOut = obs.timedOut /\ o.stalled = obs.stalled
  BY <1>1 DEF RunTypeOK, Obs
<1>3. /\ KillOrRecord("SIGKILL", o)
      /\ timer' = [timer EXCEPT !["grace"] = "done", !["final"] = "armed"]
      /\ UNCHANGED <<phase, result, on, opts, child, pipe, written, ghost>>
  BY <1>1 DEF GraceFires, Settled
<1> HIDE DEF o
<1>4. obs' \in Obs /\ Agrees(obs', o) /\ kills' \subseteq {"SIGTERM", "SIGKILL"}
  BY <1>1, <1>2, <1>3, KillRecords
<1>5. /\ timer' \in [Timer -> {"unset", "armed", "done"}]
      /\ timer'["envelope"] = timer["envelope"] /\ timer'["grace"] = "done"
  BY <1>1, <1>3 DEF RunTypeOK, Timer
<1>6. RunTypeOK'
  BY <1>1, <1>3, <1>4, <1>5 DEF RunTypeOK
<1>7. PendingInv'
  <2> SUFFICES ASSUME phase = "running" PROVE PendingInv'
    BY <1>3 DEF PendingInv
  <2>1. obs.requestedSignal
    BY DEF IInv, PendingInv, GraceFires
  <2>2. /\ Unsettled(obs') /\ Caused(obs', opts'.aborted)
        /\ obs'.requestedSignal /\ obs'.escalatedSignal
    BY <1>2, <1>3, <1>4, <2>1 DEF Agrees, Unsettled, Caused, IInv, PendingInv
  <2>3. QED
    BY <1>3, <2>2 DEF PendingInv, IInv
<1>8. EnvelopeInv'
  BY <1>1, <1>2, <1>3, <1>4, <1>5 DEF Agrees, IInv, EnvelopeInv, Unread, Armed, Settled
<1>9. RejectedInv'
  BY <1>3, <1>5 DEF IInv, RejectedInv, Armed
<1>10. QED
  BY <1>1, <1>3, <1>6, <1>7, <1>8, <1>9
     DEF IInv, IdleInv, NotSettledInv, SettledInv, ToldInv, Settled

LEMMA FinalThrowsKeeps == IInv /\ FinalThrows => IInv'
<1> SUFFICES ASSUME IInv, FinalThrows PROVE IInv'
  OBVIOUS
<1>1. RunTypeOK
  BY DEF IInv
<1>2. obs' \in Obs /\ obs'.envelope = obs.envelope
  BY <1>1 DEF FinalThrows, RunTypeOK, Obs
<1>3. /\ timer' \in [Timer -> {"unset", "armed", "done"}]
      /\ timer'["envelope"] = timer["envelope"]
  BY <1>1 DEF FinalThrows, RunTypeOK, Timer
<1>4. RunTypeOK'
  BY <1>1, <1>2, <1>3 DEF FinalThrows, RunTypeOK
<1>5. QED
  BY <1>2, <1>3, <1>4
     DEF FinalThrows, IInv, IdleInv, PendingInv, RejectedInv, NotSettledInv, SettledInv,
         ToldInv, EnvelopeInv, Unread, Armed, Settled

-----------------------------------------------------------------------------
LEMMA FinalFiresKeeps == IInv /\ FinalFires => IInv'
<1> SUFFICES ASSUME IInv, FinalFires PROVE IInv'
  OBVIOUS
<1>1. /\ phase = "running" /\ Armed("final") /\ RunTypeOK
      /\ Finish(obs', timer)
      /\ UNCHANGED <<opts, child, pipe, written, kills>>
  BY DEF FinalFires, IInv
<1>2. /\ obs' \in Obs /\ obs'.terminationUnconfirmed
      /\ obs'.exitCode = obs.exitCode /\ obs'.observedSignal = obs.observedSignal
      /\ obs'.detached = obs.detached /\ obs'.envelope = obs.envelope
      /\ obs'.terminationTrigger = obs.terminationTrigger
      /\ obs'.requestedSignal = obs.requestedSignal
      /\ obs'.escalatedSignal = obs.escalatedSignal
      /\ obs'.timedOut = obs.timedOut /\ obs'.stalled = obs.stalled
  BY <1>1 DEF FinalFires, RunTypeOK, Obs
<1>3. /\ phase' = "settled" /\ result' = obs'
      /\ timer' \in [Timer -> {"unset", "armed", "done"}]
      /\ timer'["envelope"] = timer["envelope"]
      /\ on' \subseteq Owned /\ ghost' \in [onChildExit : 0..1, wrote : BOOLEAN]
      /\ IdleInv' /\ PendingInv' /\ RejectedInv' /\ NotSettledInv' /\ SettledInv'
  BY <1>1, <1>2, FinishReleases DEF RunTypeOK
<1>4. RunTypeOK'
  BY <1>1, <1>2, <1>3 DEF RunTypeOK
<1>5. ToldInv'
  <2>1. Unsettled(obs) /\ Caused(obs, opts.aborted) /\ obs.escalatedSignal
    BY <1>1 DEF IInv, PendingInv
  <2>2. Caused(obs', opts.aborted')
    BY <1>1, <1>2, <2>1 DEF Caused
  <2>3. QED
    BY <1>2, <1>3, <2>1, <2>2, FinishTells DEF Unsettled
<1>6. EnvelopeInv'
  BY <1>1, <1>2, <1>3 DEF IInv, EnvelopeInv, Armed
<1>7. QED
  BY <1>3, <1>4, <1>5, <1>6 DEF IInv

LEMMA EnvelopeFiresKeeps == IInv /\ EnvelopeFires => IInv'
<1> SUFFICES ASSUME IInv, EnvelopeFires PROVE IInv'
  OBVIOUS
<1> DEFINE t == [timer EXCEPT !["envelope"] = "done"]
<1>1. RunTypeOK /\ Armed("envelope") /\ UNCHANGED <<obs, opts, child, pipe, written, kills>>
  BY DEF EnvelopeFires, IInv
<1>2. /\ t \in [Timer -> {"unset", "armed", "done"}] /\ t["envelope"] = "done"
      /\ \A w \in Watchdog : t[w] = timer[w]
  BY <1>1 DEF RunTypeOK, Timer, Watchdog
<1>3. /\ Settled => timer' = t /\ UNCHANGED <<phase, result, on, ghost>>
      /\ ~Settled => Finish(obs, t)
  BY DEF EnvelopeFires
<1> HIDE DEF t
<1>4. CASE Settled
  <2>1. RunTypeOK'
    BY <1>1, <1>2, <1>3, <1>4 DEF RunTypeOK
  <2>2. EnvelopeInv' /\ SettledInv'
    BY <1>1, <1>2, <1>3, <1>4
       DEF IInv, EnvelopeInv, SettledInv, Settled, Armed, Unread, Watchdog, Timer
  <2>3. ToldInv'
    BY <1>1, <1>3, <1>4
       DEF IInv, ToldInv, Settled, UnconfirmedIsHonest, CauseAttributed,
           DetachLeavesChildAlone
  <2>4. QED
    BY <1>3, <1>4, <2>1, <2>2, <2>3
       DEF IInv, IdleInv, PendingInv, RejectedInv, NotSettledInv, Settled
<1>5. CASE phase = "running"
  <2>1. Finish(obs, t) /\ obs \in Obs
    BY <1>1, <1>3, <1>5 DEF Settled, RunTypeOK
  <2>2. /\ phase' = "settled" /\ result' = obs
        /\ timer' \in [Timer -> {"unset", "armed", "done"}]
        /\ timer'["envelope"] = t["envelope"]
        /\ on' \subseteq Owned /\ ghost' \in [onChildExit : 0..1, wrote : BOOLEAN]
        /\ IdleInv' /\ PendingInv' /\ RejectedInv' /\ NotSettledInv' /\ SettledInv'
    BY <1>2, <1>5, <2>1, FinishReleases
  <2>3. RunTypeOK'
    BY <1>1, <2>1, <2>2 DEF RunTypeOK
  <2>4. ToldInv'
    BY <1>1, <1>5, <2>1, <2>2, FinishTells DEF IInv, PendingInv, Unsettled
  <2>5. EnvelopeInv'
    BY <1>1, <1>2, <2>2 DEF IInv, EnvelopeInv, Armed
  <2>6. QED
    BY <2>2, <2>3, <2>4, <2>5 DEF IInv
<1>6. phase \in {"running", "settled"}
  \* A timer of 100 ms after an envelope needs a line reader.
  BY <1>1 DEF IInv, RunTypeOK, IdleInv, RejectedInv, Armed, Timer
<1>7. QED
  BY <1>4, <1>5, <1>6 DEF Settled

-----------------------------------------------------------------------------
LEMMA AbortKeeps == IInv /\ Abort => IInv'
<1> SUFFICES ASSUME IInv, Abort PROVE IInv'
  OBVIOUS
<1>1. /\ RunTypeOK /\ phase # "idle" /\ ~opts.aborted
      /\ opts' = [opts EXCEPT !.aborted = TRUE]
      /\ UNCHANGED <<child, pipe, written>>
  BY DEF Abort, IInv
<1>2. /\ opts' \in [aborted : BOOLEAN, detach : BOOLEAN]
      /\ opts'.aborted /\ opts'.detach = opts.detach
  BY <1>1 DEF RunTypeOK
<1>3. CASE "abort" \notin on
  <2>1. UNCHANGED <<phase, obs, result, timer, on, kills, ghost>>
    BY <1>3 DEF Abort
  <2>2. RunTypeOK'
    BY <1>1, <1>2, <2>1 DEF RunTypeOK
  <2>3. PendingInv'
    BY <1>2, <1>3, <2>1 DEF IInv, PendingInv, Caused, Armed
  <2>4. ToldInv'
    BY <1>2, <2>1 DEF IInv, ToldInv, UnconfirmedIsHonest, CauseAttributed,
                      DetachLeavesChildAlone, Settled
  <2>5. QED
    BY <1>1, <2>1, <2>2, <2>3, <2>4
       DEF IInv, IdleInv, RejectedInv, NotSettledInv, SettledInv, EnvelopeInv,
           Unread, Armed, Settled
<1>4. CASE "abort" \in on /\ opts.detach
  <2>1. phase = "running"
    BY <1>1, <1>4 DEF IInv, RunTypeOK, RejectedInv, SettledInv, Settled
  <2> DEFINE d == [obs' EXCEPT !.detached = TRUE]
  <2>2. /\ obs' = [obs EXCEPT !.timedOut = FALSE, !.terminationTrigger = "abort"]
        /\ Finish(d, timer) /\ UNCHANGED kills
    BY <1>4 DEF Abort, Detach
  <2>3. /\ obs' \in Obs /\ obs'.envelope = obs.envelope
        /\ ~obs'.timedOut /\ obs'.terminationTrigger = "abort"
        /\ obs'.requestedSignal = obs.requestedSignal
        /\ obs'.terminationUnconfirmed = obs.terminationUnconfirmed
    BY <1>1, <2>2 DEF RunTypeOK, Obs, Trigger
  <2>4. /\ d \in Obs /\ d.detached /\ ~d.timedOut /\ d.terminationTrigger = "abort"
        /\ d.requestedSignal = obs.requestedSignal
        /\ d.terminationUnconfirmed = obs.terminationUnconfirmed
    BY <2>3 DEF Obs
  <2> HIDE DEF d
  <2>5. /\ phase' = "settled" /\ result' = d
        /\ timer' \in [Timer -> {"unset", "armed", "done"}]
        /\ timer'["envelope"] = timer["envelope"]
        /\ on' \subseteq Owned /\ ghost' \in [onChildExit : 0..1, wrote : BOOLEAN]
        /\ IdleInv' /\ PendingInv' /\ RejectedInv' /\ NotSettledInv' /\ SettledInv'
    BY <1>1, <2>1, <2>2, <2>4, FinishReleases DEF RunTypeOK
  <2>6. RunTypeOK'
    BY <1>1, <1>2, <2>2, <2>3, <2>4, <2>5 DEF RunTypeOK
  <2>7. ToldInv'
    <3>1. kills' # {} => result'.requestedSignal
      BY <2>1, <2>2, <2>4, <2>5 DEF IInv, PendingInv, Unsettled
    <3>2. ~result'.terminationUnconfirmed
      BY <2>1, <2>4, <2>5 DEF IInv, PendingInv, Unsettled
    <3>3. QED
      BY <1>2, <2>4, <2>5, <3>1, <3>2
         DEF ToldInv, UnconfirmedIsHonest, CauseAttributed, DetachLeavesChildAlone
  <2>8. EnvelopeInv'
    BY <1>1, <2>3, <2>4, <2>5 DEF IInv, EnvelopeInv, Armed
  <2>9. QED
    BY <2>5, <2>6, <2>7, <2>8 DEF IInv
<1>5. CASE "abort" \in on /\ ~opts.detach
  <2>1. phase = "running"
    BY <1>1, <1>5 DEF IInv, RunTypeOK, RejectedInv, SettledInv, Settled
  <2>2. /\ RequestTermination("abort", obs, timer) /\ on' = on \ {"abort"}
        /\ UNCHANGED <<phase, result, ghost>>
    BY <1>5 DEF Abort
  <2>3. Unsettled(obs) /\ Caused(obs, opts'.aborted)
    BY <1>2, <2>1 DEF IInv, PendingInv, Caused
  <2>4. /\ obs \in Obs /\ timer \in [Timer -> {"unset", "armed", "done"}]
        /\ "abort" \in Trigger
    BY <1>1 DEF RunTypeOK, Trigger
  <2>5. on' \subseteq on /\ on \ {"abort"} \subseteq on' /\ "abort" \notin on'
    BY <2>2
  <2>6. QED
    BY <1>1, <1>2, <2>1, <2>2, <2>3, <2>4, <2>5, TerminationKeeps
<1>6. QED
  BY <1>3, <1>4, <1>5

-----------------------------------------------------------------------------
\* An event of the child that settles nothing and closes nothing.
LEMMA EventKeeps ==
    ASSUME IInv,
           child' \in [state : ChildState, code : ExitCode, exit : BOOLEAN,
                       close : BOOLEAN],
           child'.state = child.state, child'.exit => child.state = "dead",
           UNCHANGED <<phase, obs, result, timer, on, ghost, opts, pipe, written, kills>>
    PROVE  IInv'
<1>1. RunTypeOK'
  BY DEF IInv, RunTypeOK
<1>2. ToldInv'
  BY DEF IInv, ToldInv, Settled, UnconfirmedIsHonest, CauseAttributed,
         DetachLeavesChildAlone
<1>3. QED
  BY <1>1, <1>2
     DEF IInv, IdleInv, PendingInv, RejectedInv, NotSettledInv, SettledInv,
         EnvelopeInv, Unread, Armed, Settled

\* The collector of a detached run takes the first event there is.
LEMMA CollectKeeps ==
    ASSUME IInv, "collector" \in on, Collect,
           child' \in [state : ChildState, code : ExitCode, exit : BOOLEAN,
                       close : BOOLEAN],
           child'.state = child.state, child'.exit => child.state = "dead",
           UNCHANGED <<phase, obs, result, timer, opts, pipe, written, kills>>
    PROVE  IInv'
<1>1. phase = "settled" /\ RunTypeOK
  BY DEF IInv, RunTypeOK, IdleInv, PendingInv, RejectedInv
<1>2. /\ ghost.onChildExit = 0 /\ "log" \in on
      /\ on' = on \ {"collector", "log"}
      /\ ghost' = [ghost EXCEPT !.onChildExit = @ + 1]
  BY <1>1 DEF Collect, IInv, SettledInv, Settled
<1>3. /\ ghost' \in [onChildExit : 0..1, wrote : BOOLEAN]
      /\ ghost'.onChildExit = 1 /\ ghost'.wrote = ghost.wrote
  BY <1>1, <1>2 DEF RunTypeOK
<1>4. RunTypeOK'
  BY <1>1, <1>2, <1>3 DEF RunTypeOK
<1>5. SettledInv'
  BY <1>1, <1>2, <1>3 DEF IInv, SettledInv, Settled, Armed
<1>6. ToldInv' /\ EnvelopeInv'
  BY <1>3 DEF IInv, ToldInv, EnvelopeInv, Settled, UnconfirmedIsHonest,
              CauseAttributed, DetachLeavesChildAlone, Unread, Armed
<1>7. QED
  BY <1>1, <1>4, <1>5, <1>6
     DEF IInv, IdleInv, PendingInv, RejectedInv, NotSettledInv, Settled

\* exit and close settle a pending run alike: the locals gain the exit code and
\* perhaps the signal that was seen.
LEMMA EndSettles ==
    ASSUME IInv, phase = "running", obs' \in Obs, Finish(obs', timer),
           obs'.detached = obs.detached, obs'.envelope = obs.envelope,
           obs'.terminationUnconfirmed = obs.terminationUnconfirmed,
           obs'.terminationTrigger = obs.terminationTrigger,
           obs'.requestedSignal = obs.requestedSignal,
           obs'.escalatedSignal = obs.escalatedSignal,
           obs'.timedOut = obs.timedOut, obs'.stalled = obs.stalled,
           child' \in [state : ChildState, code : ExitCode, exit : BOOLEAN,
                       close : BOOLEAN],
           child'.state = child.state, child.state # "alive",
           child'.exit => child.state = "dead",
           UNCHANGED <<opts, pipe, written, kills>>
    PROVE  IInv'
<1>1. RunTypeOK /\ timer \in [Timer -> {"unset", "armed", "done"}]
  BY DEF IInv, RunTypeOK
<1>2. /\ phase' = "settled" /\ result' = obs'
      /\ timer' \in [Timer -> {"unset", "armed", "done"}]
      /\ timer'["envelope"] = timer["envelope"]
      /\ on' \subseteq Owned /\ ghost' \in [onChildExit : 0..1, wrote : BOOLEAN]
      /\ ghost'.wrote = ghost.wrote
      /\ IdleInv' /\ PendingInv' /\ RejectedInv' /\ NotSettledInv' /\ SettledInv'
  BY <1>1, FinishReleases
<1>3. RunTypeOK'
  BY <1>1, <1>2 DEF RunTypeOK
<1>4. Unsettled(obs) /\ Caused(obs', opts.aborted')
  BY DEF IInv, PendingInv, Caused
<1>5. ToldInv'
  BY <1>2, <1>4, FinishTells DEF Unsettled
<1>6. EnvelopeInv'
  BY <1>2 DEF IInv, EnvelopeInv, Unread, Armed
<1>7. QED
  BY <1>2, <1>3, <1>5, <1>6 DEF IInv

LEMMA ExitKeeps == IInv /\ Exit => IInv'
<1> SUFFICES ASSUME IInv, Exit PROVE IInv'
  OBVIOUS
<1>1. /\ RunTypeOK /\ child.state = "dead"
      /\ child' = [child EXCEPT !.exit = TRUE]
      /\ UNCHANGED <<opts, pipe, written, kills>>
  BY DEF Exit, IInv
<1>2. /\ child' \in [state : ChildState, code : ExitCode, exit : BOOLEAN, close : BOOLEAN]
      /\ child'.state = child.state /\ child.code \in ExitCode
  BY <1>1 DEF RunTypeOK
<1>3. CASE "collector" \in on
  <2>1. Collect /\ UNCHANGED <<phase, obs, result, timer>>
    BY <1>3 DEF Exit
  <2>2. QED
    BY <1>1, <1>2, <1>3, <2>1, CollectKeeps
<1>4. CASE "collector" \notin on /\ "main" \in on /\ ~Settled
  <2>1. phase = "running"
    BY <1>1, <1>4 DEF IInv, RunTypeOK, IdleInv, RejectedInv, Settled
  <2>2. /\ obs' = [obs EXCEPT !.exitCode = child.code]
        /\ Finish(obs', timer)
    BY <1>4 DEF Exit
  <2>3. /\ obs' \in Obs
        /\ obs'.detached = obs.detached /\ obs'.envelope = obs.envelope
        /\ obs'.terminationUnconfirmed = obs.terminationUnconfirmed
        /\ obs'.terminationTrigger = obs.terminationTrigger
        /\ obs'.requestedSignal = obs.requestedSignal
        /\ obs'.escalatedSignal = obs.escalatedSignal
        /\ obs'.timedOut = obs.timedOut /\ obs'.stalled = obs.stalled
    BY <1>1, <1>2, <2>2 DEF RunTypeOK, Obs
  <2>4. QED
    BY <1>1, <1>2, <2>1, <2>2, <2>3, EndSettles
<1>5. CASE "collector" \notin on /\ ("main" \notin on \/ Settled)
  <2>1. UNCHANGED <<phase, obs, result, timer, on, ghost>>
    BY <1>5 DEF Exit
  <2>2. QED
    BY <1>1, <1>2, <2>1, EventKeeps
<1>6. QED
  BY <1>3, <1>4, <1>5

LEMMA CloseKeeps == IInv /\ Close => IInv'
<1> SUFFICES ASSUME IInv, Close PROVE IInv'
  OBVIOUS
<1> DEFINE seen == child.state = "dead" /\ child.code = "null"
<1>1. /\ RunTypeOK
      /\ child' = [child EXCEPT !.close = TRUE]
      /\ UNCHANGED <<opts, pipe, written, kills>>
  BY DEF Close, IInv
<1>2. /\ child' \in [state : ChildState, code : ExitCode, exit : BOOLEAN, close : BOOLEAN]
      /\ child'.state = child.state /\ child'.exit = child.exit
      /\ child.code \in ExitCode
  BY <1>1 DEF RunTypeOK
<1>3. (child'.exit => child.state = "dead") /\ child.state # "alive"
  <2>1. child.exit => child.state = "dead"
    BY DEF IInv, EnvelopeInv
  <2>2. child.exit \/ child.state = "failed"
    BY DEF Close
  <2>3. QED
    BY <1>2, <2>1, <2>2
<1>4. CASE "collector" \in on
  <2>1. Collect /\ UNCHANGED <<phase, obs, result, timer>>
    BY <1>4 DEF Close
  <2>2. QED
    BY <1>1, <1>2, <1>3, <1>4, <2>1, CollectKeeps
<1>5. CASE "collector" \notin on /\ "main" \in on /\ ~Settled
  <2>1. phase = "running"
    BY <1>1, <1>5 DEF IInv, RunTypeOK, IdleInv, RejectedInv, Settled
  <2>2. /\ obs' = [obs EXCEPT
                     !.exitCode = child.code,
                     !.observedSignal = seen]
        /\ Finish(obs', timer)
    BY <1>5 DEF Close
  <2> seen \in BOOLEAN
    OBVIOUS
  <2> HIDE DEF seen
  <2>3. /\ obs' \in Obs
        /\ obs'.detached = obs.detached /\ obs'.envelope = obs.envelope
        /\ obs'.terminationUnconfirmed = obs.terminationUnconfirmed
        /\ obs'.terminationTrigger = obs.terminationTrigger
        /\ obs'.requestedSignal = obs.requestedSignal
        /\ obs'.escalatedSignal = obs.escalatedSignal
        /\ obs'.timedOut = obs.timedOut /\ obs'.stalled = obs.stalled
    BY <1>1, <1>2, <2>2 DEF RunTypeOK, Obs
  <2>4. QED
    BY <1>1, <1>2, <1>3, <2>1, <2>2, <2>3, EndSettles
<1>6. CASE "collector" \notin on /\ ("main" \notin on \/ Settled)
  <2>1. UNCHANGED <<phase, obs, result, timer, on, ghost>>
    BY <1>6 DEF Close
  <2>2. QED
    BY <1>1, <1>2, <1>3, <2>1, EventKeeps
<1>7. QED
  BY <1>4, <1>5, <1>6

-----------------------------------------------------------------------------
LEMMA SpawnErrorKeeps == IInv /\ SpawnError => IInv'
<1> SUFFICES ASSUME IInv, SpawnError PROVE IInv'
  OBVIOUS
<1>1. /\ RunTypeOK /\ "main" \in on
      /\ UNCHANGED <<phase, result, timer, on, opts, child, pipe, written, kills, ghost>>
  BY DEF SpawnError, IInv
<1>2. PICK e \in {"ENOENT", "other"} : obs' = [obs EXCEPT !.spawnError = e]
  BY DEF SpawnError
<1>3. obs' \in Obs /\ Agrees(obs', obs)
  BY <1>1, <1>2 DEF RunTypeOK, Obs, Agrees
<1>4. RunTypeOK'
  BY <1>1, <1>3 DEF RunTypeOK
<1>5. PendingInv' /\ EnvelopeInv'
  BY <1>1, <1>3 DEF IInv, PendingInv, EnvelopeInv, Agrees, Unsettled, Caused, Unread,
                    Armed, Settled
<1>6. IdleInv'
  BY <1>1 DEF IInv, IdleInv
<1>7. ToldInv'
  BY <1>1 DEF IInv, ToldInv, Settled, UnconfirmedIsHonest, CauseAttributed,
              DetachLeavesChildAlone
<1>8. QED
  BY <1>1, <1>4, <1>5, <1>6, <1>7
     DEF IInv, RejectedInv, NotSettledInv, SettledInv, Armed, Settled

LEMMA ReadLineKeeps == IInv /\ ReadLine => IInv'
<1> SUFFICES ASSUME IInv, ReadLine PROVE IInv'
  OBVIOUS
<1> DEFINE line == Head(pipe)
           a == ArmStall(timer)
<1>1. /\ RunTypeOK /\ "stdio" \in on /\ pipe # <<>> /\ pipe' = Tail(pipe)
      /\ obs' = [obs EXCEPT !.conversationId = @ \/ line = "init",
                            !.envelope = IF line \in Envelope THEN line ELSE @]
      /\ timer' = IF line \in Envelope THEN [a EXCEPT !["envelope"] = "armed"] ELSE a
      /\ UNCHANGED <<phase, result, on, opts, child, written, kills, ghost>>
  BY DEF ReadLine, IInv
<1>2. /\ pipe \in Seq(Line) /\ Len(pipe) \in Nat \ {0} /\ line = pipe[1] /\ line \in Line
      /\ pipe' \in Seq(Line) /\ Len(pipe') = Len(pipe) - 1
      /\ pipe' # <<>> => pipe'[Len(pipe')] = pipe[Len(pipe)]
      /\ pipe' = <<>> => Len(pipe) = 1
  <2>1. pipe \in Seq(Line) /\ Len(pipe) \in Nat \ {0}
    BY <1>1 DEF RunTypeOK
  <2>2. line = pipe[1] /\ line \in Line
    BY <2>1
  <2>3. pipe' \in Seq(Line) /\ Len(pipe') = Len(pipe) - 1
    BY <1>1, <2>1
  <2>4. pipe' # <<>> => pipe'[Len(pipe')] = pipe[Len(pipe)]
    BY <1>1, <2>1, <2>3
  <2>5. pipe' = <<>> => Len(pipe) = 1
    BY <2>1, <2>3
  <2>6. QED
    BY <2>1, <2>2, <2>3, <2>4, <2>5
<1>3. /\ obs' \in Obs
      /\ obs'.envelope = IF line \in Envelope THEN line ELSE obs.envelope
      /\ obs'.exitCode = obs.exitCode /\ obs'.observedSignal = obs.observedSignal
      /\ obs'.terminationUnconfirmed = obs.terminationUnconfirmed
      /\ obs'.detached = obs.detached
      /\ obs'.terminationTrigger = obs.terminationTrigger
      /\ obs'.requestedSignal = obs.requestedSignal
      /\ obs'.escalatedSignal = obs.escalatedSignal
      /\ obs'.timedOut = obs.timedOut /\ obs'.stalled = obs.stalled
  BY <1>1 DEF RunTypeOK, Obs
<1>4. /\ a \in [Timer -> {"unset", "armed", "done"}]
      /\ \A w \in Timer \ {"stall"} : a[w] = timer[w]
      /\ Settled => a["stall"] = "unset"
  BY <1>1, ArmsOne DEF RunTypeOK
<1> HIDE DEF line, a
<1>5. /\ timer' \in [Timer -> {"unset", "armed", "done"}]
      /\ \A w \in Timer \ {"stall", "envelope"} : timer'[w] = timer[w]
      /\ Settled => timer'["stall"] = "unset"
      /\ line \notin Envelope => timer'["envelope"] = timer["envelope"]
  BY <1>1, <1>4 DEF Timer
<1>6. phase \in {"running", "settled"}
  BY <1>1 DEF IInv, RunTypeOK, IdleInv, RejectedInv
<1>7. RunTypeOK'
  BY <1>1, <1>2, <1>3, <1>5 DEF RunTypeOK
<1>8. PendingInv'
  BY <1>1, <1>3, <1>5 DEF IInv, PendingInv, Unsettled, Caused, Armed, Timer
<1>9. SettledInv' /\ ToldInv'
  BY <1>1, <1>5 DEF IInv, SettledInv, ToldInv, Settled, Armed, Watchdog, Timer,
                    UnconfirmedIsHonest, CauseAttributed, DetachLeavesChildAlone
<1>10. EnvelopeInv'
  <2>1. obs.envelope # "none" => obs'.envelope # "none"
    BY <1>3 DEF Envelope
  <2>2. line \in Envelope => obs'.envelope # "none"
    BY <1>3 DEF Envelope
  <2>3. Armed("envelope")' => obs'.envelope # "none"
    BY <1>5, <2>1, <2>2 DEF Armed, IInv, EnvelopeInv
  <2>4. Unread => obs'.envelope # "none" \/ Unread'
    BY <1>2, <2>2 DEF Unread
  <2>5. Settled => result.detached
    BY <1>1 DEF IInv, SettledInv
  <2>6. QED
    BY <1>1, <2>1, <2>3, <2>4, <2>5 DEF IInv, EnvelopeInv, Settled
<1>11. QED
  BY <1>1, <1>6, <1>7, <1>8, <1>9, <1>10
     DEF IInv, IdleInv, RejectedInv, NotSettledInv, Settled

LEMMA ChildWritesKeeps == IInv /\ ChildWrites => IInv'
<1> SUFFICES ASSUME IInv, ChildWrites PROVE IInv'
  OBVIOUS
<1>1. /\ RunTypeOK /\ child.state = "alive" /\ written < MaxLines /\ ~ghost.wrote
      /\ written' = written + 1
      /\ UNCHANGED <<phase, obs, result, timer, on, opts, child, kills>>
  BY DEF ChildWrites, IInv
<1>2. PICK line \in Line :
        /\ pipe' = IF phase = "rejected" \/ (Settled /\ "stdio" \notin on)
                   THEN pipe ELSE Append(pipe, line)
        /\ ghost' = [ghost EXCEPT !.wrote = line \in Envelope]
  BY DEF ChildWrites
<1>3. /\ ghost' \in [onChildExit : 0..1, wrote : BOOLEAN]
      /\ ghost'.onChildExit = ghost.onChildExit
      /\ ghost'.wrote => line \in Envelope
  <2> DEFINE ends == line \in Envelope
  <2>1. ghost' = [ghost EXCEPT !.wrote = ends] /\ ends \in BOOLEAN
    BY <1>2
  <2> HIDE DEF ends
  <2>2. /\ ghost' \in [onChildExit : 0..1, wrote : BOOLEAN]
        /\ ghost'.onChildExit = ghost.onChildExit
        /\ ghost'.wrote = ends
    BY <1>1, <2>1 DEF RunTypeOK
  <2>3. QED
    BY <2>2 DEF ends
<1>4. /\ pipe' \in Seq(Line) /\ Len(pipe') <= written + 1 /\ written + 1 \in 0..MaxLines
      /\ phase = "running" =>
           pipe' # <<>> /\ pipe'[Len(pipe')] = line
  BY <1>1, <1>2, RunAssumption DEF RunTypeOK, Settled
<1>5. RunTypeOK'
  BY <1>1, <1>3, <1>4 DEF RunTypeOK
<1>6. EnvelopeInv'
  BY <1>1, <1>3, <1>4 DEF IInv, EnvelopeInv, Unread, Armed, Settled
<1>7. IdleInv' /\ PendingInv' /\ RejectedInv'
  BY <1>1, <1>3 DEF IInv, IdleInv, PendingInv, RejectedInv, Armed
<1>8. NotSettledInv' /\ SettledInv' /\ ToldInv'
  BY <1>1, <1>3 DEF IInv, NotSettledInv, SettledInv, ToldInv, Armed, Settled,
                    UnconfirmedIsHonest, CauseAttributed, DetachLeavesChildAlone
<1>9. QED
  BY <1>5, <1>6, <1>7, <1>8 DEF IInv

LEMMA ChildEndsKeeps == IInv /\ ChildEnds => IInv'
<1> SUFFICES ASSUME IInv, ChildEnds PROVE IInv'
  OBVIOUS
<1>1. /\ RunTypeOK /\ child.state = "alive"
      /\ UNCHANGED <<phase, obs, result, timer, on, opts, pipe, written, kills, ghost>>
  BY DEF ChildEnds, IInv
<1>2. PICK code \in ExitCode : child' = [child EXCEPT !.state = "dead", !.code = code]
  BY DEF ChildEnds
<1>3. /\ child' \in [state : ChildState, code : ExitCode, exit : BOOLEAN, close : BOOLEAN]
      /\ child'.state = "dead"
  BY <1>1, <1>2 DEF RunTypeOK, ChildState
<1>4. RunTypeOK'
  BY <1>1, <1>3 DEF RunTypeOK
<1>5. EnvelopeInv'
  BY <1>1, <1>3 DEF IInv, EnvelopeInv, Unread, Armed, Settled
<1>6. IdleInv' /\ PendingInv' /\ RejectedInv'
  BY <1>1 DEF IInv, IdleInv, PendingInv, RejectedInv, Armed
<1>7. NotSettledInv' /\ SettledInv' /\ ToldInv'
  BY <1>1 DEF IInv, NotSettledInv, SettledInv, ToldInv, Armed, Settled,
              UnconfirmedIsHonest, CauseAttributed, DetachLeavesChildAlone
<1>8. QED
  BY <1>4, <1>5, <1>6, <1>7 DEF IInv

LEMMA StutterKeeps == IInv /\ UNCHANGED runVars => IInv'
  BY DEF runVars, IInv, RunTypeOK, IdleInv, PendingInv, RejectedInv, NotSettledInv,
         SettledInv, ToldInv, EnvelopeInv, Unread, Settled, Armed,
         UnconfirmedIsHonest, CauseAttributed, DetachLeavesChildAlone

-----------------------------------------------------------------------------
\* The locals of the executor and what finish made of them fit together in every
\* state, for every stall window, caller and number of lines.
THEOREM InductiveInvariant == RunSpec => []IInv
<1>1. IInv /\ [RunNext]_runVars => IInv'
  <2> SUFFICES ASSUME IInv, [RunNext]_runVars PROVE IInv'
    OBVIOUS
  <2>1. CASE Runner
    BY <2>1, StartFailsKeeps, StartKeeps, StartDetachedTooEarlyKeeps, ReadLineKeeps,
       CapFiresKeeps, StallFiresKeeps, GraceFiresKeeps, FinalFiresKeeps,
       FinalThrowsKeeps, EnvelopeFiresKeeps, ExitKeeps, CloseKeeps, SpawnErrorKeeps
       DEF Runner
  <2>2. CASE Abort \/ ChildWrites \/ ChildEnds
    BY <2>2, AbortKeeps, ChildWritesKeeps, ChildEndsKeeps
  <2>3. QED
    BY <2>1, <2>2, StutterKeeps DEF RunNext
<1>2. QED
  BY <1>1, InitInv, PTL DEF RunSpec

\* In every state of runAgyStream: its variables keep their types, a settled run
\* holds no timer, listener, pipe or log it should have given up, onChildExit runs
\* once, and the child of a detached run that asked for nothing gets no signal.
THEOREM RunIsSound == RunSpec => []RunSound
<1>1. IInv => RunSound
  <2> SUFFICES ASSUME IInv PROVE RunSound
    OBVIOUS
  <2>1. RunTypeOK /\ ghost.onChildExit <= 1
    BY DEF IInv, RunTypeOK
  <2>2. ReleasesEverything
    BY <2>1 DEF IInv, SettledInv, ReleasesEverything
  <2>3. DetachLeavesChildAlone
    BY DEF IInv, ToldInv, DetachLeavesChildAlone
  <2>4. QED
    BY <2>1, <2>2, <2>3 DEF RunSound
<1>2. QED
  BY <1>1, InductiveInvariant, PTL

\* What resolve() reports of a run that had to be ended is what happened: its
\* trigger, its request to terminate and an end nobody could confirm.
THEOREM CausesAreTold == RunSpec => []CausesTold
<1>1. IInv => CausesTold
  BY DEF IInv, ToldInv, CausesTold, UnconfirmedIsHonest, CauseAttributed
<1>2. QED
  BY <1>1, InductiveInvariant, PTL

\* An envelope the child wrote is missing from the result only where an exit
\* overtook it in the pipe.
THEOREM EnvelopesReach == RunSpec => []EnvelopeLostOnlyInPipe
<1>1. IInv => EnvelopeLostOnlyInPipe
  BY DEF IInv, EnvelopeInv, EnvelopeLostOnlyInPipe, Unread
<1>2. QED
  BY <1>1, InductiveInvariant, PTL

\* The promise settles once: no timer, event, line or abort that comes later
\* changes the outcome, takes it back or sends the child another signal.
THEOREM SettlesOnce ==
    RunSpec => [][Settled => UNCHANGED <<phase, result, kills>>]_runVars
<1>1. ASSUME IInv, Settled, [RunNext]_runVars
      PROVE  UNCHANGED <<phase, result, kills>>
  <2>1. /\ phase = "settled" /\ "abort" \notin on
        /\ ~Armed("cap") /\ ~Armed("stall") /\ ~Armed("grace") /\ ~Armed("final")
    BY <1>1 DEF IInv, SettledInv, Settled, Watchdog, Timer
  <2>2. CASE Runner
    BY <1>1, <2>1, <2>2
       DEF Runner, StartFails, Start, StartDetachedTooEarly, ReadLine, CapFires,
           StallFires, GraceFires, FinalFires, FinalThrows, EnvelopeFires, Exit,
           Close, SpawnError
  <2>3. CASE Abort \/ ChildWrites \/ ChildEnds
    BY <2>1, <2>3 DEF Abort, ChildWrites, ChildEnds
  <2>4. QED
    BY <1>1, <2>2, <2>3 DEF RunNext, runVars
<1>2. QED
  BY <1>1, InductiveInvariant, PTL DEF RunSpec

-----------------------------------------------------------------------------
(* The decisions of a call.                                                *)

\* The rule that decides is the first whose condition holds.
LEMMA FirstMatchDecides ==
    ASSUME NEW n \in Nat, NEW rules, DOMAIN rules = 1 .. n,
           NEW k \in 1 .. n, rules[k].when, \A i \in 1 .. n : i < k => ~rules[i].when
    PROVE  FirstMatch(rules) = rules[k].then
<1> DEFINE matching == {i \in DOMAIN rules : rules[i].when}
           first == CHOOSE i \in matching : \A j \in matching : i <= j
<1>1. k \in matching /\ matching \subseteq 1 .. n
  OBVIOUS
<1>2. \A j \in matching : k <= j
  OBVIOUS
<1> HIDE DEF matching
<1>3. first \in matching /\ \A j \in matching : first <= j
  BY <1>1, <1>2
<1> HIDE DEF first
<1>4. first = k
  BY <1>1, <1>2, <1>3
<1> QED
  BY <1>4 DEF FirstMatch, first, matching

\* The rules of classifyRun, one by one.
Holds(s, i) ==
    \/ i = 1 /\ s.spawnError = "ENOENT"
    \/ i = 2 /\ s.terminationUnconfirmed
    \/ i = 3 /\ s.stalled
    \/ i = 4 /\ (s.timedOut \/ s.exitCode = "124")
    \/ i = 5 /\ \/ s.exitCode = "0" /\ s.artifact
                \/ s.exitCode \in {"0", "null"} /\ artifactLessSuccess(s)
    \/ i = 6 /\ "cut" \in Log(s)
    \/ i = 7 /\ isAuthFailure(s)
    \/ i = 8 /\ ErrorMatches(s, "wait")
    \/ i = 9 /\ ErrorMatches(s, "interrupted")
    \/ i = 10 /\ s.exitCode # "0" /\ "wait" \in Log(s)
    \/ i = 11 /\ s.exitCode # "0" /\ "quota" \in Log(s)
    \/ i = 12 /\ s.exitCode # "0" /\ "transient" \in Log(s)
    \/ i = 13 /\ s.exitCode # "0"
    \/ i = 14

\* So the rules are, and these are their verdicts.
LEMMA RulesAre ==
    ASSUME NEW s
    PROVE  /\ DOMAIN Rules(s) = 1 .. 14
           /\ \A i \in 1 .. 14 : Rules(s)[i].when <=> Holds(s, i)
           /\ Rules(s)[1].then = Verdict("transient_unavailable", "agy_absent")
           /\ Rules(s)[2].then.outcome = "termination_unconfirmed"
           /\ Rules(s)[3].then = Verdict("timeout", "stall_detected")
           /\ Rules(s)[4].then = Verdict("timeout", "timeout")
           /\ Rules(s)[5].then = Verdict("success", "ok")
           /\ \A i \in {6, 8, 10} :
                 Rules(s)[i].then = Verdict("timeout", "agy_print_wait_timeout")
           /\ Rules(s)[7].then = Verdict("auth_captcha", "auth_or_captcha")
           /\ Rules(s)[9].then = Verdict("task_failure", "interrupted")
           /\ Rules(s)[11].then = Verdict("quota_unavailable", "quota_exhausted")
           /\ Rules(s)[12].then = Verdict("transient_unavailable", "provider_outage")
           /\ Rules(s)[13].then = Verdict("task_failure", "nonzero_exit")
           /\ Rules(s)[14].then =
                 Verdict("artifact_validation_failure", "artifact_missing_or_empty")
<1>1. DOMAIN Rules(s) = 1 .. 14
  BY DEF Rules
<1>2. \A i \in 1 .. 14 : i = 1 \/ i = 2 \/ i = 3 \/ i = 4 \/ i = 5 \/ i = 6 \/ i = 7 \/ i = 8
                         \/ i = 9 \/ i = 10 \/ i = 11 \/ i = 12 \/ i = 13 \/ i = 14
  OBVIOUS
<1>3. Rules(s)[1].when <=> Holds(s, 1)
  <2>1. ASSUME (s.spawnError = "ENOENT") PROVE Rules(s)[1].when
    BY <2>1 DEF Rules
  <2>2. ASSUME ~(s.spawnError = "ENOENT") PROVE ~Rules(s)[1].when
    BY <2>2 DEF Rules
  <2> QED
    BY <2>1, <2>2 DEF Holds
<1>4. Rules(s)[2].when <=> Holds(s, 2)
  BY DEF Rules, Holds
<1>5. Rules(s)[3].when <=> Holds(s, 3)
  BY DEF Rules, Holds
<1>6. Rules(s)[4].when <=> Holds(s, 4)
  <2>1. ASSUME (s.timedOut \/ s.exitCode = "124") PROVE Rules(s)[4].when
    BY <2>1 DEF Rules
  <2>2. ASSUME ~(s.timedOut \/ s.exitCode = "124") PROVE ~Rules(s)[4].when
    BY <2>2 DEF Rules
  <2> QED
    BY <2>1, <2>2 DEF Holds
<1>7. Rules(s)[5].when <=> Holds(s, 5)
  BY DEF Rules, Holds
<1>8. Rules(s)[6].when <=> Holds(s, 6)
  <2>1. ASSUME ("cut" \in Log(s)) PROVE Rules(s)[6].when
    BY <2>1 DEF Rules
  <2>2. ASSUME ~("cut" \in Log(s)) PROVE ~Rules(s)[6].when
    BY <2>2 DEF Rules
  <2> QED
    BY <2>1, <2>2 DEF Holds
<1>9. Rules(s)[7].when <=> Holds(s, 7)
  BY DEF Rules, Holds
<1>10. Rules(s)[8].when <=> Holds(s, 8)
  BY DEF Rules, Holds
<1>11. Rules(s)[9].when <=> Holds(s, 9)
  BY DEF Rules, Holds
<1>12. Rules(s)[10].when <=> Holds(s, 10)
  <2>1. ASSUME (s.exitCode # "0" /\ "wait" \in Log(s)) PROVE Rules(s)[10].when
    BY <2>1 DEF Rules
  <2>2. ASSUME ~(s.exitCode # "0" /\ "wait" \in Log(s)) PROVE ~Rules(s)[10].when
    BY <2>2 DEF Rules
  <2> QED
    BY <2>1, <2>2 DEF Holds
<1>13. Rules(s)[11].when <=> Holds(s, 11)
  <2>1. ASSUME (s.exitCode # "0" /\ "quota" \in Log(s)) PROVE Rules(s)[11].when
    BY <2>1 DEF Rules
  <2>2. ASSUME ~(s.exitCode # "0" /\ "quota" \in Log(s)) PROVE ~Rules(s)[11].when
    BY <2>2 DEF Rules
  <2> QED
    BY <2>1, <2>2 DEF Holds
<1>14. Rules(s)[12].when <=> Holds(s, 12)
  <2>1. ASSUME (s.exitCode # "0" /\ "transient" \in Log(s)) PROVE Rules(s)[12].when
    BY <2>1 DEF Rules
  <2>2. ASSUME ~(s.exitCode # "0" /\ "transient" \in Log(s)) PROVE ~Rules(s)[12].when
    BY <2>2 DEF Rules
  <2> QED
    BY <2>1, <2>2 DEF Holds
<1>15. Rules(s)[13].when <=> Holds(s, 13)
  <2>1. ASSUME (s.exitCode # "0") PROVE Rules(s)[13].when
    BY <2>1 DEF Rules
  <2>2. ASSUME ~(s.exitCode # "0") PROVE ~Rules(s)[13].when
    BY <2>2 DEF Rules
  <2> QED
    BY <2>1, <2>2 DEF Holds
<1>16. Rules(s)[14].when <=> Holds(s, 14)
  BY DEF Rules, Holds
<1>17. /\ Rules(s)[1].then = Verdict("transient_unavailable", "agy_absent")
      /\ Rules(s)[2].then.outcome = "termination_unconfirmed"
      /\ Rules(s)[3].then = Verdict("timeout", "stall_detected")
      /\ Rules(s)[4].then = Verdict("timeout", "timeout")
      /\ Rules(s)[5].then = Verdict("success", "ok")
  BY DEF Rules, Verdict
<1>18. /\ \A i \in {6, 8, 10} :
            Rules(s)[i].then = Verdict("timeout", "agy_print_wait_timeout")
      /\ Rules(s)[7].then = Verdict("auth_captcha", "auth_or_captcha")
      /\ Rules(s)[9].then = Verdict("task_failure", "interrupted")
      /\ Rules(s)[11].then = Verdict("quota_unavailable", "quota_exhausted")
      /\ Rules(s)[12].then = Verdict("transient_unavailable", "provider_outage")
      /\ Rules(s)[13].then = Verdict("task_failure", "nonzero_exit")
      /\ Rules(s)[14].then =
            Verdict("artifact_validation_failure", "artifact_missing_or_empty")
  BY DEF Rules
<1> QED
  BY <1>1, <1>2, <1>3, <1>4, <1>5, <1>6, <1>7, <1>8, <1>9, <1>10,
     <1>11, <1>12, <1>13, <1>14, <1>15, <1>16, <1>17, <1>18

\* The rule that is the first to hold.
First(s, k) == k \in 1 .. 14 /\ Holds(s, k) /\ \A i \in 1 .. 14 : i < k => ~Holds(s, i)

\* Some rule is, and its verdict is the one given.
LEMMA OneDecides ==
    ASSUME NEW s
    PROVE  \E k : First(s, k) /\ classifyRun(s) = Rules(s)[k].then
<1>1. ASSUME NEW k, First(s, k) PROVE classifyRun(s) = Rules(s)[k].then
  <2> DEFINE rules == Rules(s)
  <2>1. /\ DOMAIN rules = 1 .. 14 /\ k \in 1 .. 14 /\ Holds(s, k)
        /\ \A i \in 1 .. 14 : i < k => ~Holds(s, i)
        /\ \A i \in 1 .. 14 : rules[i].when <=> Holds(s, i)
    BY <1>1, RulesAre DEF First
  <2> HIDE DEF rules
  <2>2. rules[k].when /\ \A i \in 1 .. 14 : i < k => ~rules[i].when
    BY <2>1
  <2>3. FirstMatch(rules) = rules[k].then
    BY <2>1, <2>2, FirstMatchDecides
  <2> QED
    BY <2>3 DEF classifyRun, rules
<1>2. \E k : First(s, k)
  <2> SUFFICES ASSUME \A k : ~First(s, k) PROVE FALSE
    OBVIOUS
  <2>1. \A i \in 1 .. 5 : ~Holds(s, i)
    BY DEF First
  <2>2. \A i \in 6 .. 10 : ~Holds(s, i)
    BY <2>1 DEF First
  <2>3. \A i \in 11 .. 14 : ~Holds(s, i)
    BY <2>1, <2>2 DEF First
  <2> QED
    <3>1. Holds(s, 14)
      BY DEF Holds
    <3> QED
      BY <2>3, <3>1
<1> QED
  BY <1>1, <1>2

\* Which rule stands behind an outcome.
LEMMA OutcomesNamed ==
    ASSUME NEW s, NEW v, v = classifyRun(s)
    PROVE  /\ \A k, l : First(s, k) /\ First(s, l) => k = l
           /\ v.outcome = "success" <=> First(s, 5)
           /\ v.outcome = "quota_unavailable" <=> First(s, 11)
           /\ v.outcome = "transient_unavailable" <=> First(s, 1) \/ First(s, 12)
           /\ v.outcome = "auth_captcha" <=> First(s, 7)
           /\ v.outcome = "timeout" <=> \E k \in {3, 4, 6, 8, 10} : First(s, k)
           /\ v.outcome = "task_failure" => First(s, 9) \/ First(s, 13)
           /\ \A k \in {6, 8, 10} : First(s, k) => v = Verdict("timeout", "agy_print_wait_timeout")
           /\ First(s, 1) => v.reason = "agy_absent"
           /\ First(s, 2) => v.outcome = "termination_unconfirmed"
<1>1. \A k, l : First(s, k) /\ First(s, l) => k = l
  BY DEF First
<1>2. PICK k : First(s, k) /\ v = Rules(s)[k].then
  BY OneDecides
<1>3. k \in 1 .. 14
  BY <1>2 DEF First
<1>4. \A o, r : Verdict(o, r).outcome = o /\ Verdict(o, r).reason = r
  BY DEF Verdict
<1>5. \/ k = 1 /\ v.outcome = "transient_unavailable" /\ v.reason = "agy_absent"
      \/ k = 2 /\ v.outcome = "termination_unconfirmed"
      \/ k \in {3, 4} /\ v.outcome = "timeout"
      \/ k = 5 /\ v.outcome = "success"
      \/ /\ k \in {6, 8, 10} /\ v.outcome = "timeout"
         /\ v = Verdict("timeout", "agy_print_wait_timeout")
      \/ k = 7 /\ v.outcome = "auth_captcha"
      \/ k \in {9, 13} /\ v.outcome = "task_failure"
      \/ k = 11 /\ v.outcome = "quota_unavailable"
      \/ k = 12 /\ v.outcome = "transient_unavailable"
      \/ k = 14 /\ v.outcome = "artifact_validation_failure"
  BY <1>2, <1>3, <1>4, RulesAre
<1>6. \A l : First(s, l) <=> l = k
  BY <1>1, <1>2
<1> QED
  BY <1>1, <1>5, <1>6

\* A run that is claimed stops at one of the first four rules.
LEMMA ClaimedFirst ==
    /\ Claimed <=> \E i \in 1 .. 4 : Holds(signal, i)
    /\ Delivered <=> Holds(signal, 5)
BY DEF Claimed, Delivered, artifactLessSuccess, Holds

-----------------------------------------------------------------------------
(* The models offered and spawned.                                         *)

\* For the least member of a set of naturals, and the greatest of a bounded one.
B == INSTANCE Bindings_proof
        WITH Session <- {}, Conversation <- {}, MaxBindings <- 1, MaxAge <- 1

\* Min picks a member, of any set of naturals.
LEMMA FirstExists == ASSUME NEW S, S \subseteq Nat, S # {} PROVE Min(S) \in S
<1>1. 1 \in Nat \ {0}
  OBVIOUS
<1>2. \E m \in S : \A n \in S : m <= n
  BY <1>1, B!LeastNatural, Zenon
<1> QED
  BY <1>2 DEF Min

AgyId(bases) == [base : bases, effort : Effort \cup {"none"}]

\* Rows that begin with our default.
RowsOfAgy(rows) ==
    /\ \E m \in Nat : DOMAIN rows = 1 .. m
    /\ 1 \in DOMAIN rows /\ rows[1] = Default
    /\ \A i \in DOMAIN rows : rows[i] = Id(rows[i].base, rows[i].effort)
    /\ \A i \in DOMAIN rows : rows[i].effort \in Effort \cup {"none"}

\* So are the rows of a registry, whatever agy lists.
LEMMA RowsAre ==
    ASSUME NEW n \in Nat, NEW bases, NEW discovered \in [1 .. n -> AgyId(bases)],
           NEW rows, rows = AllRows(discovered)
    PROVE  RowsOfAgy(rows)
<1> DEFINE given == IF discovered = <<>> THEN FALLBACK_DISCOVERY ELSE discovered
           All == AgyId(bases \cup {"flash", "default"})
<1>1. given \in Seq(All)
  <2>1. FALLBACK_DISCOVERY \in Seq(All)
    <3>1. \A e \in Effort : Id("flash", e) \in All
      BY DEF Id, AgyId
    <3> HIDE DEF All
    <3> QED
      BY <3>1 DEF FALLBACK_DISCOVERY, Effort
  <2>2. discovered \in Seq(All)
    <3>1. \A i \in 1 .. n : discovered[i] \in All
      BY DEF AgyId
    <3> HIDE DEF All
    <3> QED
      BY <3>1
  <2> QED
    BY <2>1, <2>2
<1>2. Default \in All /\ Default = Id("default", "none")
  BY DEF Default, Bare, Id, AgyId
<1>3. rows = <<Default>> \o given
  BY DEF AllRows
<1>4. \A id \in All : id = Id(id.base, id.effort) /\ id.effort \in Effort \cup {"none"}
  BY DEF AgyId, Id
<1> HIDE DEF given, All
<1>5. rows \in Seq(All) /\ Len(rows) = Len(given) + 1 /\ rows[1] = Default
  BY <1>1, <1>2, <1>3
<1>6. \A i \in 1 .. Len(rows) : rows[i] \in All
  BY <1>5
<1>7. Len(rows) \in Nat /\ Len(given) \in Nat /\ DOMAIN rows = 1 .. Len(rows)
  BY <1>1, <1>5
<1> QED
  BY <1>4, <1>5, <1>6, <1>7 DEF RowsOfAgy

\* What is listed for the base of a row, and where it is named first.
LEMMA NamedFirst ==
    ASSUME NEW rows, RowsOfAgy(rows), NEW id \in BareIds(rows)
    PROVE  /\ id = Bare(id.base)
           /\ FirstNaming(rows, id.base) \in Naming(rows, id.base)
           /\ EffortsOf(rows, id.base) \subseteq Effort
           /\ \A e \in EffortsOf(rows, id.base) :
                 \E i \in DOMAIN rows : rows[i] = Id(id.base, e)
<1>1. PICK i \in DOMAIN rows : id = Bare(rows[i].base)
  BY DEF BareIds
<1>2. id.base = rows[i].base /\ id = Bare(id.base)
  BY <1>1 DEF Bare, Id
<1>3. Naming(rows, id.base) # {}
  <2>1. CASE rows[i] = Default
    <3>1. Default.base = rows[1].base
      BY DEF RowsOfAgy
    <3> QED
      BY <1>2, <2>1, <3>1 DEF RowsOfAgy, Naming
  <2>2. CASE rows[i] # Default
    BY <1>2, <2>2 DEF Naming
  <2> QED
    BY <2>1, <2>2
<1>4. Naming(rows, id.base) \subseteq DOMAIN rows /\ DOMAIN rows \subseteq Nat
  BY DEF Naming, RowsOfAgy
<1>5. FirstNaming(rows, id.base) \in Naming(rows, id.base)
  BY <1>3, <1>4, FirstExists DEF FirstNaming
<1>6. ASSUME NEW e \in EffortsOf(rows, id.base)
      PROVE  e \in Effort /\ \E j \in DOMAIN rows : rows[j] = Id(id.base, e)
  <2>1. PICK j \in DOMAIN rows : rows[j].base = id.base /\ rows[j].effort = e /\ e # "none"
    BY <1>6 DEF EffortsOf, Naming
  <2> QED
    BY <2>1 DEF RowsOfAgy
<1> QED
  BY <1>2, <1>5, <1>6

\* The efforts of a base that is listed with an effort, and of one that is not.
LEMMA EffortsListed ==
    ASSUME NEW rows, RowsOfAgy(rows), NEW i \in DOMAIN rows
    PROVE  /\ Bare(rows[i].base) \in BareIds(rows)
           /\ rows[i].effort # "none" => rows[i].effort \in EffortsOf(rows, rows[i].base)
           /\ rows[i] # Default => i \in Naming(rows, rows[i].base)
<1>1. rows[i] # Default => i \in Naming(rows, rows[i].base)
  BY DEF Naming
<1>2. rows[i].effort # "none" => rows[i] # Default
  BY DEF Default, Bare, Id
<1> QED
  BY <1>1, <1>2 DEF BareIds, EffortsOf

\* The best effort is one of the efforts.
LEMMA HighestIsOne ==
    ASSUME NEW efforts \in SUBSET Effort, efforts # {} PROVE Highest(efforts) \in efforts
BY DEF Highest, Effort

\* OffersWhatAgyLists, of any rows and of what the two pickers stand for.
OffersAll(rows, opencode, pi) ==
    LET listed == ToSet(rows) \ {Default}
        Mixed(id) == /\ EffortsOf(rows, id.base) # {}
                     /\ \E i \in Naming(rows, id.base) : rows[i].effort = "none"
    IN /\ opencode \subseteq listed \cup {NoArg}
       /\ \A id \in listed : ~Mixed(id) => id \in opencode
       /\ listed \subseteq pi
       /\ \A id \in pi \ listed : id = NoArg \/ \E r \in listed : id = Bare(r.base)

\* The picker of opencode.
LEMMA OpencodeOffers ==
    ASSUME NEW discovered, NEW rows, rows = AllRows(discovered), RowsOfAgy(rows),
           NEW registry, registry = baseRegistry(discovered)
    PROVE  /\ Spawnable(registry) \subseteq (ToSet(rows) \ {Default}) \cup {NoArg}
           /\ \A id \in ToSet(rows) \ {Default} :
                 \/ /\ EffortsOf(rows, id.base) # {}
                    /\ \E i \in Naming(rows, id.base) : rows[i].effort = "none"
                 \/ id \in Spawnable(registry)
<1> DEFINE Row(base) == rows[FirstNaming(rows, base)]
           Patched(base) == \A i \in Naming(rows, base) :
                               rows[i].effort = "none" => i = FirstNaming(rows, base)
           Collapsed(base) == EffortsOf(rows, base) # {} /\ Patched(base)
           Entry(base) ==
              IF Collapsed(base)
              THEN AgyModel(Id(base, Highest(EffortsOf(rows, base))), TRUE,
                            {Variant(e, Id(base, e)) : e \in EffortsOf(rows, base)})
              ELSE AgyModel(IF Row(base) = Default THEN NoArg ELSE Row(base), FALSE, {})
<1>1. registry = [id \in BareIds(rows) |-> Entry(id.base)]
  BY DEF baseRegistry
<1>2. \A id \in BareIds(rows) :
        /\ Collapsed(id.base) =>
              /\ registry[id].modelArg = Id(id.base, Highest(EffortsOf(rows, id.base)))
              /\ registry[id].variants =
                    {Variant(e, Id(id.base, e)) : e \in EffortsOf(rows, id.base)}
        /\ ~Collapsed(id.base) =>
              /\ registry[id].modelArg = IF Row(id.base) = Default THEN NoArg ELSE Row(id.base)
              /\ registry[id].variants = {}
  BY <1>1 DEF AgyModel
<1> HIDE DEF Collapsed
<1>3. DOMAIN registry = BareIds(rows)
  BY <1>1
<1>4. \A j \in DOMAIN rows : rows[j] \in ToSet(rows)
  BY DEF ToSet
<1>5. ASSUME NEW id \in BareIds(rows), NEW e \in EffortsOf(rows, id.base)
      PROVE  Id(id.base, e) \in ToSet(rows) \ {Default}
  <2>1. Id(id.base, e) \in ToSet(rows) /\ e # "none"
    BY <1>4, NamedFirst DEF EffortsOf
  <2> QED
    BY <2>1 DEF Default, Bare, Id
<1>6. ASSUME NEW id \in BareIds(rows)
      PROVE  /\ registry[id].modelArg \in (ToSet(rows) \ {Default}) \cup {NoArg}
             /\ \A v \in registry[id].variants : v.agyModelId \in ToSet(rows) \ {Default}
  <2>1. CASE Collapsed(id.base)
    <3>1. Highest(EffortsOf(rows, id.base)) \in EffortsOf(rows, id.base)
      BY <2>1, NamedFirst, HighestIsOne DEF Collapsed
    <3>2. registry[id].modelArg \in ToSet(rows) \ {Default}
      BY <1>2, <1>5, <2>1, <3>1
    <3>3. ASSUME NEW v \in registry[id].variants PROVE v.agyModelId \in ToSet(rows) \ {Default}
      <4>1. PICK e \in EffortsOf(rows, id.base) : v = Variant(e, Id(id.base, e))
        BY <1>2, <2>1
      <4>2. v.agyModelId = Id(id.base, e)
        BY <4>1 DEF Variant
      <4> QED
        BY <1>5, <4>2
    <3> QED
      BY <3>2, <3>3
  <2>2. CASE ~Collapsed(id.base)
    <3>1. Row(id.base) \in ToSet(rows)
      BY <1>4, NamedFirst DEF Naming
    <3> QED
      BY <1>2, <2>2, <3>1
  <2> QED
    BY <2>1, <2>2
<1>7. Spawnable(registry) \subseteq (ToSet(rows) \ {Default}) \cup {NoArg}
  BY <1>3, <1>6 DEF Spawnable
<1>8. ASSUME NEW id \in ToSet(rows) \ {Default},
             EffortsOf(rows, id.base) = {}
                \/ \A i \in Naming(rows, id.base) : rows[i].effort # "none"
      PROVE  id \in Spawnable(registry)
  <2>1. PICK i \in DOMAIN rows : id = rows[i]
    BY DEF ToSet
  <2>2. Bare(id.base) \in BareIds(rows) /\ Bare(id.base).base = id.base
        /\ i \in Naming(rows, id.base) /\ id = Id(id.base, id.effort)
    <3>1. Bare(id.base).base = id.base
      BY DEF Bare, Id
    <3> QED
      BY <2>1, <3>1, EffortsListed DEF RowsOfAgy
  <2>3. CASE id.effort # "none"
    <3>1. id.effort \in EffortsOf(rows, id.base)
      BY <2>1, <2>3, EffortsListed
    <3>2. Collapsed(id.base)
      BY <1>8, <3>1 DEF Collapsed
    <3>3. Variant(id.effort, id) \in registry[Bare(id.base)].variants
      BY <1>2, <2>2, <3>1, <3>2
    <3>4. Variant(id.effort, id).agyModelId = id
      BY DEF Variant
    <3> QED
      BY <1>3, <2>2, <3>3, <3>4 DEF Spawnable
  <2>4. CASE id.effort = "none"
    <3>1. EffortsOf(rows, id.base) = {} /\ ~Collapsed(id.base)
      BY <1>8, <2>1, <2>2, <2>4 DEF Collapsed
    <3>2. FirstNaming(rows, id.base) \in Naming(rows, id.base)
      BY <2>2, NamedFirst
    <3>3. /\ FirstNaming(rows, id.base) \in DOMAIN rows
          /\ Row(id.base).base = id.base /\ Row(id.base).effort = "none"
      BY <3>1, <3>2 DEF Naming, EffortsOf
    <3>4. Row(id.base) = id
      BY <2>2, <2>4, <3>3 DEF RowsOfAgy
    <3>5. registry[Bare(id.base)].modelArg = id
      BY <1>2, <2>2, <3>1, <3>4
    <3> QED
      BY <1>3, <2>2, <3>5 DEF Spawnable
  <2> QED
    BY <2>3, <2>4
<1> QED
  BY <1>7, <1>8

\* The picker of pi, with every level of thinking a user may ask for.
LEMMA PiOffers ==
    ASSUME NEW discovered, NEW rows, rows = AllRows(discovered), RowsOfAgy(rows),
           NEW registry, registry = piResolveRegistry({}, discovered),
           NEW listed, listed = ToSet(rows) \ {Default}
    PROVE  /\ listed \subseteq PiSpawnable(registry)
           /\ \A id \in PiSpawnable(registry) \ listed :
                 id = NoArg \/ \E r \in listed : id = Bare(r.base)
<1> DEFINE Mapped(id, l) ==
              IF l \in EffortsOf(rows, id.base) THEN Id(id.base, l) ELSE NoArg
           Arg(id, l) == resolveModelArg(registry[id], l)
           Level == ThinkingLevel \cup {"none"}
<1>1. DOMAIN registry = BareIds(rows)
  BY DEF piResolveRegistry, piBaseRegistry
<1>2. \A id \in BareIds(rows) : registry[id] = PiAgyModel(id, EffortsOf(rows, id.base))
  BY DEF piResolveRegistry, piBaseRegistry
<1>3. PiSpawnable(registry) = {Arg(id, l) : id \in BareIds(rows), l \in Level}
  BY <1>1 DEF PiSpawnable
<1>4. \A id \in BareIds(rows) : \A l \in Level :
        Arg(id, l) = IF l # "none" /\ Mapped(id, l) # NoArg THEN Mapped(id, l)
                     ELSE IF id = Default THEN NoArg ELSE id
  <2>1. \A id \in BareIds(rows) :
           /\ registry[id].id = id
           /\ \A l \in ThinkingLevel : registry[id].thinkingLevelMap[l] = Mapped(id, l)
    <3>1. \A id, levels :
             /\ PiAgyModel(id, levels).id = id
             /\ \A l \in ThinkingLevel :
                   PiAgyModel(id, levels).thinkingLevelMap[l] =
                      IF l \in levels THEN Id(id.base, l) ELSE NoArg
      BY DEF PiAgyModel
    <3> SUFFICES ASSUME NEW id \in BareIds(rows)
                 PROVE  /\ registry[id].id = id
                        /\ \A l \in ThinkingLevel :
                              registry[id].thinkingLevelMap[l] = Mapped(id, l)
      OBVIOUS
    <3>2. registry[id] = PiAgyModel(id, EffortsOf(rows, id.base))
      BY <1>2
    <3>3. /\ PiAgyModel(id, EffortsOf(rows, id.base)).id = id
          /\ \A l \in ThinkingLevel :
                PiAgyModel(id, EffortsOf(rows, id.base)).thinkingLevelMap[l] = Mapped(id, l)
      BY <3>1, Zenon
    <3> HIDE DEF Mapped
    <3> QED
      BY <3>2, <3>3, Zenon
  <2> HIDE DEF Mapped
  <2> QED
    BY <2>1 DEF resolveModelArg
<1> HIDE DEF Arg
<1>5. Effort \subseteq ThinkingLevel /\ "none" \notin Effort
  BY DEF Effort, ThinkingLevel
<1>6. \A base : \A e \in Effort : Id(base, e) # NoArg /\ Id(base, e) # Default
  BY <1>5 DEF Id, NoArg, Default, Bare
<1>7. ASSUME NEW id \in listed PROVE id \in PiSpawnable(registry)
  <2>1. PICK i \in DOMAIN rows : id = rows[i]
    BY <1>7 DEF ToSet
  <2>2. Bare(id.base) \in BareIds(rows) /\ Bare(id.base).base = id.base
        /\ id = Id(id.base, id.effort) /\ id.effort \in Effort \cup {"none"}
    <3>1. Bare(id.base).base = id.base
      BY DEF Bare, Id
    <3> QED
      BY <2>1, <3>1, EffortsListed DEF RowsOfAgy
  <2>3. CASE id.effort # "none"
    <3>1. Mapped(Bare(id.base), id.effort) = id
      BY <2>1, <2>2, <2>3, EffortsListed
    <3>2. id # NoArg /\ id.effort \in Level
      BY <1>5, <1>6, <2>2, <2>3
    <3>3. Arg(Bare(id.base), id.effort) = id
      BY <1>4, <2>2, <2>3, <3>1, <3>2
    <3> QED
      BY <1>3, <2>2, <3>2, <3>3
  <2>4. CASE id.effort = "none"
    <3>1. id = Bare(id.base)
      BY <2>2, <2>4 DEF Bare
    <3>2. Arg(id, "none") = id
      BY <1>4, <1>7, <2>2, <3>1
    <3> QED
      BY <1>3, <2>2, <3>1, <3>2
  <2> QED
    BY <2>3, <2>4
<1>8. ASSUME NEW id \in BareIds(rows), NEW l \in Level, Arg(id, l) \notin listed
      PROVE  Arg(id, l) = NoArg \/ \E r \in listed : Arg(id, l) = Bare(r.base)
  <2>1. CASE l # "none" /\ Mapped(id, l) # NoArg
    <3>1. Mapped(id, l) \in listed
      <4>1. l \in EffortsOf(rows, id.base) /\ Mapped(id, l) = Id(id.base, l)
        BY <2>1
      <4>2. l \in Effort /\ \E j \in DOMAIN rows : rows[j] = Id(id.base, l)
        BY <4>1, NamedFirst
      <4> QED
        BY <1>6, <4>1, <4>2 DEF ToSet
    <3> QED
      BY <1>4, <1>8, <2>1, <3>1
  <2>2. CASE ~(l # "none" /\ Mapped(id, l) # NoArg) /\ id # Default
    <3>1. PICK i \in DOMAIN rows : id = Bare(rows[i].base)
      BY DEF BareIds
    <3>2. rows[i] \in listed /\ Arg(id, l) = Bare(rows[i].base)
      <4>1. rows[i] # Default
        BY <2>2, <3>1 DEF Default, Bare, Id
      <4> QED
        BY <1>4, <2>2, <3>1, <4>1 DEF ToSet
    <3> QED
      BY <3>2
  <2>3. CASE ~(l # "none" /\ Mapped(id, l) # NoArg) /\ id = Default
    BY <1>4, <2>3
  <2> QED
    BY <2>1, <2>2, <2>3
<1> QED
  BY <1>3, <1>7, <1>8

\* Without a config the registry is the table.
LEMMA NoConfig ==
    ASSUME NEW base, base = [id \in DOMAIN base |-> base[id]] PROVE applyConfig(base, <<>>) = base
<1>1. \A user : DOMAIN user = {} => applyConfig(base, user) = [id \in DOMAIN base |-> base[id]]
  <2> SUFFICES ASSUME NEW user, DOMAIN user = {}
               PROVE  applyConfig(base, user) = [id \in DOMAIN base |-> base[id]]
    OBVIOUS
  <2>1. DOMAIN base \cup {user[i].id : i \in DOMAIN user} = DOMAIN base
    OBVIOUS
  <2>2. \A id : {i \in {i \in DOMAIN user : user[i].id = id} : user[i].given} = {}
    OBVIOUS
  <2> QED
    BY <2>1, <2>2, Zenon DEF applyConfig
<1>2. DOMAIN <<>> = {}
  OBVIOUS
<1> QED
  BY <1>1, <1>2, Zenon

\* What is said of the pickers (resolveRegistry of both adapters), of whatever agy lists.
THEOREM PickersOffer ==
    ASSUME NEW n \in Nat, NEW bases, NEW discovered \in [1 .. n -> AgyId(bases)],
           NEW rows, rows = AllRows(discovered)
    PROVE  OffersAll(rows, Spawnable(resolveRegistry(<<>>, discovered)),
                     PiSpawnable(piResolveRegistry({}, discovered)))
<1>1. RowsOfAgy(rows)
  BY RowsAre
<1>2. resolveRegistry(<<>>, discovered) = baseRegistry(discovered)
  <2>1. baseRegistry(discovered) = [id \in DOMAIN baseRegistry(discovered) |-> baseRegistry(discovered)[id]]
    BY DEF baseRegistry
  <2> QED
    BY <2>1, NoConfig DEF resolveRegistry
<1> DEFINE registry == resolveRegistry(<<>>, discovered)
           piRegistry == piResolveRegistry({}, discovered)
           listed == ToSet(rows) \ {Default}
<1>3. /\ Spawnable(registry) \subseteq listed \cup {NoArg}
      /\ \A id \in listed :
            \/ /\ EffortsOf(rows, id.base) # {}
               /\ \E i \in Naming(rows, id.base) : rows[i].effort = "none"
            \/ id \in Spawnable(registry)
  BY <1>1, <1>2, OpencodeOffers
<1>4. /\ listed \subseteq PiSpawnable(piRegistry)
      /\ \A id \in PiSpawnable(piRegistry) \ listed :
            id = NoArg \/ \E r \in listed : id = Bare(r.base)
  <2> DEFINE Fits(r, l) ==
                /\ l \subseteq PiSpawnable(r)
                /\ \A id \in PiSpawnable(r) \ l : id = NoArg \/ \E row \in l : id = Bare(row.base)
  <2>1. ASSUME NEW r, r = piRegistry, NEW l, l = listed PROVE Fits(r, l)
    BY <1>1, <2>1, PiOffers
  <2>2. Fits(piRegistry, listed)
    <3> HIDE DEF Fits, piRegistry, listed
    <3> QED
      BY <2>1
  <2> QED
    BY <2>2
<1> HIDE DEF registry, piRegistry
<1>5. OffersAll(rows, Spawnable(registry), PiSpawnable(piRegistry))
  BY <1>3, <1>4, Zenon DEF OffersAll
<1> QED
  BY <1>5 DEF registry, piRegistry

-----------------------------------------------------------------------------
\* A variant stands for an id of its own effort, or for none.
WellNamed(v) == v.agyModelId = NoArg \/ v.agyModelId.effort = v.name

WellNamedConfig(user) ==
    /\ \E m \in Nat : DOMAIN user = 1 .. m
    /\ \A i \in DOMAIN user : \A v \in ToSet(user[i].variants) : WellNamed(v)

\* Max picks a member, of any non-empty set of indices.
LEMMA LastExists == ASSUME NEW m \in Nat, NEW S, S \subseteq 1 .. m, S # {} PROVE Max(S) \in S
<1>1. S \subseteq 0 .. m /\ 1 \in Nat \ {0}
  OBVIOUS
<1>2. \E i \in S : \A k \in S : k <= i
  BY <1>1, B!GreatestNatural, Zenon
<1>3. \E i \in S : \A k \in S : i >= k
  BY <1>2
<1> QED
  BY <1>3 DEF Max

\* Every entry of opencode carries well named variants only.
LEMMA VariantsWellNamed ==
    ASSUME NEW user, WellNamedConfig(user), NEW id,
           NEW v \in resolveModel(id, user).variants
    PROVE  WellNamed(v)
<1> DEFINE base == baseRegistry(<<>>)
           models == applyConfig(base, user)
<1>1. \A i \in DOMAIN base : \A w \in base[i].variants : WellNamed(w)
  BY DEF baseRegistry, AgyModel, Variant, WellNamed, Id
<1> HIDE DEF base
<1>2. ASSUME NEW i \in DOMAIN models, NEW w \in models[i].variants
      PROVE  WellNamed(w)
  <2> DEFINE Configuring == {k \in DOMAIN user : user[k].id = i}
             Giving == {k \in Configuring : user[k].given}
             Entry == IF i \in DOMAIN base THEN base[i]
                      ELSE AgyModel(fallbackArg(user[Min(Configuring)]), FALSE, {})
  <2>1. \A e \in Entry.variants : WellNamed(e)
    BY <1>1 DEF AgyModel
  <2>2. models[i] = IF Giving = {} THEN Entry
                    ELSE AgyModel(Entry.modelArg, TRUE, ToSet(user[Max(Giving)].variants))
    BY <1>2, Zenon DEF applyConfig
  <2> HIDE DEF Entry, models
  <2>3. CASE Giving = {}
    BY <1>2, <2>1, <2>2, <2>3
  <2>4. CASE Giving # {}
    <3>1. PICK m \in Nat : DOMAIN user = 1 .. m
      BY DEF WellNamedConfig
    <3>2. Max(Giving) \in Giving
      <4>1. Giving \subseteq 1 .. m
        BY <3>1
      <4> HIDE DEF Giving
      <4> QED
        BY <2>4, <4>1, LastExists
    <3>3. models[i].variants = ToSet(user[Max(Giving)].variants)
      BY <2>2, <2>4 DEF AgyModel
    <3> QED
      BY <1>2, <3>2, <3>3 DEF WellNamedConfig
  <2> QED
    BY <2>3, <2>4
<1>3. resolveModel(id, user) = IF id \in DOMAIN models THEN models[id] ELSE AgyModel(id, FALSE, {})
  BY DEF resolveModel, listModels, resolveRegistry, base
<1> HIDE DEF models
<1> QED
  BY <1>2, <1>3 DEF AgyModel

\* A direct id is spawned as it is; of a model with a choice of variants the variant
\* chosen is spawned, if it has an id, or the host is warned.
ChosenWell(entry, direct, variant) ==
    LET payload == {v.agyModelId : v \in Named(entry, variant)}
        arg == modelArgOf(entry, direct, variant)
        warned == variantFallbackNotice(entry, direct, variant)
    IN IF direct # NoArg
       THEN arg = direct /\ ~warned
       ELSE /\ entry.collapsed => (warned <=> payload = {})
            /\ payload \notin {{}, {NoArg}} => arg \in payload \ {NoArg}

\* A choice of variant is honoured (modelArgOf, variantFallbackNotice), whatever entry,
\* variant and direct id a turn has.
THEOREM ChosenOrWarned ==
    ASSUME NEW entry, NEW direct, NEW variant PROVE ChosenWell(entry, direct, variant)
<1> DEFINE payload == {v.agyModelId : v \in Named(entry, variant)}
           usable == {v \in Named(entry, variant) : v.agyModelId # NoArg}
<1>1. CASE direct # NoArg
  BY <1>1 DEF modelArgOf, variantFallbackNotice, ChosenWell
<1>2. CASE direct = NoArg
  <2>1. payload = {} <=> Named(entry, variant) = {}
    OBVIOUS
  <2>2. ASSUME payload \notin {{}, {NoArg}}
        PROVE  modelArgOf(entry, direct, variant) \in payload \ {NoArg}
    <3>1. usable # {}
      BY <2>2
    <3>2. \E v \in usable : modelArgOf(entry, direct, variant) = v.agyModelId
      BY <1>2, <3>1 DEF modelArgOf, resolveVariantModelArg
    <3> QED
      BY <3>2
  <2>3. variantFallbackNotice(entry, direct, variant) <=>
           entry.collapsed /\ Named(entry, variant) = {}
    BY <1>2 DEF variantFallbackNotice
  <2> QED
    BY <1>2, <2>1, <2>2, <2>3 DEF ChosenWell
<1> QED
  BY <1>1, <1>2

\* What a well named variant stands for, of any model of a well named config, is an id
\* of the effort chosen (resolveRegistry, resolveModel), or nothing.
THEOREM PayloadsWellNamed ==
    ASSUME NEW user, WellNamedConfig(user), NEW id, NEW variant,
           NEW v \in Named(resolveModel(id, user), variant)
    PROVE  v.agyModelId = NoArg \/ v.agyModelId.effort = variant
BY VariantsWellNamed DEF Named, WellNamed

-----------------------------------------------------------------------------
\* What has been answered is what the operators give, and a question is one about
\* window files, rows agy lists, a config or parts of a prompt.
WindowFile == [readable : {"object", "unusable"}, used : Int, limit : Int, resets_at : Int]

Asked ==
    /\ question.about = "quota" => question.dir \in [SnapshotFile -> WindowFile]
    /\ question.about = "picker" =>
          \E n \in Nat : question.rows \in [1 .. n -> AgyId({"pro", "default"})]
    /\ question.about = "spawn" =>
          /\ WellNamedConfig(question.user)
          /\ readDirectModelId(question.direct) \in {NoArg, Id("pro", "high")}
    /\ question.about = "parts" =>
          /\ \E n \in Nat : question.content \in [1 .. n -> PromptPart]
          /\ question.imageInput \in BOOLEAN /\ question.adapter \in {"opencode", "pi"}

\* What a turn spawns with, and whether the host is warned.
Spawned(q) ==
    LET entry == resolveModel(q.id, q.user)
        variant == readVariant(q.places)
        direct == readDirectModelId(q.direct)
    IN [arg |-> modelArgOf(entry, direct, variant),
        warned |-> variantFallbackNotice(entry, direct, variant)]

Given ==
    answer # <<>> =>
        /\ question.about = "run" => answer = <<classifyRun(question.run)>>
        /\ question.about = "quota" =>
              answer = <<GateOpen(question.dir, question.family, Now)>>
        /\ question.about = "picker" =>
              answer = <<[opencode |-> resolveRegistry(<<>>, question.rows),
                          pi |-> piResolveRegistry({}, question.rows)]>>
        /\ question.about = "spawn" => answer = <<Spawned(question)>>
        /\ question.about = "parts" =>
              answer = <<Turn(question.content, question.imageInput, question.adapter)>>

\* An id handed over directly is the one in a place, or none.
LEMMA DirectRead ==
    ASSUME NEW direct \in [1 .. 2 -> {Bare("absent"), Bare("garbled"), Id("pro", "high")}]
    PROVE  readDirectModelId(direct) \in {NoArg, Id("pro", "high")}
<1> DEFINE filled == {i \in DOMAIN direct : direct[i] # Bare("absent")}
<1>1. filled \subseteq Nat /\ filled \subseteq 1 .. 2
  OBVIOUS
<1>2. filled # {} => Min(filled) \in filled
  <2> HIDE DEF filled
  <2> QED
    BY <1>1, FirstExists
<1>3. filled # {} => direct[Min(filled)] \in {Bare("garbled"), Id("pro", "high")}
  BY <1>2
<1> QED
  BY <1>3 DEF readDirectModelId, Read

\* The configs that are asked about name their variants well.
LEMMA UsersWellNamed == \A user \in Users : WellNamedConfig(user)
<1>1. \A e \in Effort : \A base : WellNamed(Variant(e, Id(base, e))) /\ WellNamed(Variant(e, NoArg))
  BY DEF WellNamed, Variant, Id
<1>2. \A v, w : ToSet(<<v>>) = {v} /\ ToSet(<<v, w>>) = {v, w} /\ ToSet(<<>>) = {}
  BY DEF ToSet
<1>3. \A id, given, variants : ModelConfig(id, given, variants).variants = variants
  BY DEF ModelConfig
<1>4. \A c : /\ DOMAIN <<c>> = 1 .. 1
             /\ (\A v \in ToSet(c.variants) : WellNamed(v)) => WellNamedConfig(<<c>>)
  BY DEF WellNamedConfig
<1>5. \A c, d : /\ \A v \in ToSet(c.variants) : WellNamed(v)
                /\ \A v \in ToSet(d.variants) : WellNamed(v)
                => WellNamedConfig(<<c, d>>)
  BY DEF WellNamedConfig
<1>6. WellNamedConfig(<<>>)
  BY DEF WellNamedConfig
<1>7. /\ WellNamed(Variant("high", NoArg))
      /\ \A base : /\ WellNamed(Variant("low", Id(base, "low")))
                   /\ WellNamed(Variant("medium", Id(base, "medium")))
  BY <1>1 DEF Effort
<1> DEFINE Flash == ModelConfig(Bare("flash"), TRUE, <<Variant("low", Id("flash", "low"))>>)
           Lower == ModelConfig(Bare("pro"), TRUE, <<Variant("low", Id("pro", "low")),
                                                     Variant("medium", Id("pro", "medium"))>>)
           Holed == ModelConfig(Bare("pro"), TRUE, <<Variant("high", NoArg),
                                                     Variant("low", Id("pro", "low"))>>)
           Plain(id) == ModelConfig(id, FALSE, <<>>)
<1>8. /\ Flash.variants = <<Variant("low", Id("flash", "low"))>>
      /\ Lower.variants = <<Variant("low", Id("pro", "low")), Variant("medium", Id("pro", "medium"))>>
      /\ Holed.variants = <<Variant("high", NoArg), Variant("low", Id("pro", "low"))>>
      /\ \A id : Plain(id).variants = <<>>
  BY <1>3, Zenon
<1>9. Users = {<<>>, <<Flash>>, <<Lower>>, <<Holed>>, <<Plain(Id("pro", "high")), Plain(Bare("pro"))>>}
  BY Zenon DEF Users
<1> HIDE DEF Flash, Lower, Holed, Plain
<1>10. WellNamedConfig(<<Flash>>) /\ WellNamedConfig(<<Lower>>) /\ WellNamedConfig(<<Holed>>)
  <2>1. \A v \in ToSet(Flash.variants) : WellNamed(v)
    BY <1>2, <1>7, <1>8
  <2>2. \A v \in ToSet(Lower.variants) : WellNamed(v)
    BY <1>2, <1>7, <1>8
  <2>3. \A v \in ToSet(Holed.variants) : WellNamed(v)
    BY <1>2, <1>7, <1>8
  <2> QED
    BY <1>4, <2>1, <2>2, <2>3, Zenon
<1>11. WellNamedConfig(<<Plain(Id("pro", "high")), Plain(Bare("pro"))>>)
  <2>1. \A id : ToSet(Plain(id).variants) = {}
    BY <1>2, <1>8, Zenon
  <2> QED
    BY <1>5, <2>1
<1> QED
  BY <1>6, <1>9, <1>10, <1>11, Zenon

\* Whatever is asked at first is a question of its kind.
LEMMA AskedAtFirst == Ask => Asked /\ Given
<1> SUFFICES ASSUME Ask PROVE Asked /\ Given
  OBVIOUS
<1>1. answer = <<>>
  BY DEF Ask, Unanswered
<1>2. CASE AskRun
  BY <1>1, <1>2 DEF AskRun, Asked, Given
<1>3. CASE AskQuota
  <2>1. FiveHourFiles \subseteq WindowFile /\ WeeklyFiles \subseteq WindowFile
    <3>1. \A r \in {"object", "unusable"} : \A u, l, t \in Int : File(r, u, l, t) \in WindowFile
      BY DEF File, WindowFile
    <3>2. NoTime \in Int /\ NoDate \in Int /\ -10 \in Int
      BY DEF NoTime, NoDate
    <3>3. Unusable \subseteq WindowFile
      BY <3>1, <3>2 DEF Unusable, Unreadable
    <3>4. ASSUME NEW f \in FiveHourFiles \cup WeeklyFiles
          PROVE  f \in Unusable \/ \E u, l, t \in Int : f = File("object", u, l, t)
      <4>1. \/ f \in Unusable
            \/ \E u \in {95, 96}, r \in {NoTime, NoDate, 2, 3} : f = File("object", u, 100, r)
            \/ \E u \in {-10, 41} : f = File("object", u, 40, 3)
            \/ \E u \in {95, 96} : f = File("object", u, 100, NoTime)
        BY <3>4, SMT DEF WeeklyFiles, FiveHourFiles
      <4>2. /\ \A u \in {95, 96, -10, 41} : u \in Int
            /\ \A r \in {NoTime, NoDate, 2, 3} : r \in Int
        BY <3>2
      <4> QED
        BY <3>2, <4>1, <4>2
    <3>5. ASSUME NEW f \in FiveHourFiles \cup WeeklyFiles PROVE f \in WindowFile
      BY <3>1, <3>3, <3>4
    <3> QED
      BY <3>5
  <2>2. PICK dir \in [SnapshotFile -> FiveHourFiles \cup WeeklyFiles] :
            \E family : question = [about |-> "quota", dir |-> dir, family |-> family]
    BY <1>3 DEF AskQuota
  <2>3. dir \in [SnapshotFile -> WindowFile]
    BY <2>1
  <2> QED
    BY <1>1, <2>2, <2>3 DEF Asked, Given
<1>4. CASE AskPicker
  <2>1. Ids \subseteq AgyId({"pro", "default"})
    BY DEF Ids, Id, Bare, Default, AgyId, Effort
  <2>2. PICK n \in 0 .. 3 : \E rows \in [1 .. n -> Ids] : question = [about |-> "picker", rows |-> rows]
    BY <1>4 DEF AskPicker
  <2>3. PICK rows \in [1 .. n -> Ids] : question = [about |-> "picker", rows |-> rows]
    BY <2>2
  <2>4. rows \in [1 .. n -> AgyId({"pro", "default"})] /\ n \in Nat
    BY <2>1
  <2> QED
    BY <1>1, <2>3, <2>4 DEF Asked, Given
<1>5. CASE AskSpawn
  <2>1. PICK id \in Ids \cup {Bare("flash"), Id("flash", "low")}, user \in Users,
             places \in [1 .. 3 -> {"absent", "garbled", "high", "low", "max"}],
             direct \in [1 .. 2 -> {Bare("absent"), Bare("garbled"), Id("pro", "high")}] :
            question = [about |-> "spawn", id |-> id, user |-> user,
                        places |-> places, direct |-> direct]
    BY <1>5, Zenon DEF AskSpawn
  <2>2. readDirectModelId(direct) \in {NoArg, Id("pro", "high")}
    BY DirectRead
  <2>3. WellNamedConfig(user)
    BY UsersWellNamed
  <2> QED
    BY <1>1, <2>1, <2>2, <2>3 DEF Asked, Given
<1>6. CASE AskParts
  <2>1. Parts \subseteq PromptPart
    BY DEF Parts, PromptPart, Payload, Media
  <2>2. PICK n \in 1 .. 2 : \E content \in [1 .. n -> Parts], imageInput \in BOOLEAN,
                                adapter \in {"opencode", "pi"} :
            question = [about |-> "parts", content |-> content,
                        imageInput |-> imageInput, adapter |-> adapter]
    BY <1>6 DEF AskParts
  <2>4. PICK content \in [1 .. n -> Parts], imageInput \in BOOLEAN,
             adapter \in {"opencode", "pi"} :
            question = [about |-> "parts", content |-> content,
                        imageInput |-> imageInput, adapter |-> adapter]
    BY <2>2
  <2>3. content \in [1 .. n -> PromptPart]
    BY <2>1
  <2> QED
    BY <1>1, <2>3, <2>4 DEF Asked, Given
<1> QED
  BY <1>2, <1>3, <1>4, <1>5, <1>6 DEF Ask

\* A question stays as it is, and is answered by the operator it asks about.
LEMMA AskedStep == Asked /\ Given /\ [Decide]_exchange => (Asked /\ Given)'
<1> SUFFICES ASSUME Asked, Given, [Decide]_exchange PROVE (Asked /\ Given)'
  OBVIOUS
<1>1. question' = question
  BY DEF Decide, Classify, Gate, Offer, Spawn, Attach, Answer, exchange
<1>2. Asked'
  BY <1>1 DEF Asked
<1>3. CASE Classify
  BY <1>1, <1>2, <1>3 DEF Classify, Answer, Given
<1>4. CASE Gate
  BY <1>1, <1>2, <1>4 DEF Gate, Answer, Given
<1>5. CASE Offer
  BY <1>1, <1>2, <1>5 DEF Offer, Answer, Given
<1>8. CASE Spawn
  <2>1. answer' = <<Spawned(question)>> /\ question.about = "spawn"
    BY <1>8 DEF Spawn, Answer, Spawned
  <2> QED
    BY <1>1, <1>2, <2>1 DEF Given
<1>6. CASE Attach
  BY <1>1, <1>2, <1>6 DEF Attach, Answer, Given
<1>7. CASE UNCHANGED exchange
  BY <1>2, <1>7 DEF Given, exchange
<1> QED
  BY <1>2, <1>3, <1>4, <1>5, <1>6, <1>7, <1>8 DEF Decide

\* The verdict is right on whatever run is asked about.
LEMMA VerdictsSound ==
    ASSUME Given
    PROVE  SuccessIffDelivered /\ FailuresNamedRight /\ ReplayedOnceAtMost
<1> SUFFICES ASSUME Classified
             PROVE  /\ Outcome = "success" <=> Delivered /\ ~Claimed
                    /\ Corroborated
                    /\ TimeoutSignature /\ ~Claimed /\ ~Delivered
                       /\ ~isAuthFailure(signal) =>
                          verdict = Verdict("timeout", "agy_print_wait_timeout")
                    /\ ReplayedOnceAtMost
  BY DEF SuccessIffDelivered, FailuresNamedRight, ReplayedOnceAtMost
<1> DEFINE s == signal
           v == verdict
<1>1. v = classifyRun(s)
  BY DEF Given, Classified, Answered, Unanswered, verdict, signal
<1>2. Outcome = v.outcome
  BY DEF Outcome
<1>3. /\ Claimed <=> \E i \in 1 .. 4 : Holds(s, i)
      /\ Delivered <=> Holds(s, 5)
  BY ClaimedFirst
<1> HIDE DEF s, v
<1>4. /\ v.outcome = "success" <=> First(s, 5)
      /\ v.outcome = "quota_unavailable" <=> First(s, 11)
      /\ v.outcome = "transient_unavailable" <=> First(s, 1) \/ First(s, 12)
      /\ v.outcome = "auth_captcha" <=> First(s, 7)
      /\ v.outcome = "timeout" <=> \E k \in {3, 4, 6, 8, 10} : First(s, k)
      /\ v.outcome = "task_failure" => First(s, 9) \/ First(s, 13)
      /\ \A k \in {6, 8, 10} : First(s, k) => v = Verdict("timeout", "agy_print_wait_timeout")
      /\ First(s, 1) => v.reason = "agy_absent"
      /\ First(s, 2) => v.outcome = "termination_unconfirmed"
  BY <1>1, OutcomesNamed
<1>5. Outcome = "success" <=> Delivered /\ ~Claimed
  <2>1. First(s, 5) <=> Holds(s, 5) /\ ~\E i \in 1 .. 4 : Holds(s, i)
    BY DEF First
  <2> QED
    BY <1>2, <1>3, <1>4, <2>1
<1>6. Corroborated
  <2>1. First(s, 11) => s.exitCode # "0" /\ "quota" \in Log(s)
    BY DEF First, Holds
  <2>2. First(s, 12) => s.exitCode # "0" /\ "transient" \in Log(s)
    BY DEF First, Holds
  <2>3. First(s, 7) => "auth" \in s.diagnostic \/ ErrorMatches(s, "auth")
    BY DEF First, Holds, isAuthFailure
  <2>4. First(s, 1) => s.spawnError = "ENOENT"
    BY DEF First, Holds
  <2> QED
    BY <1>2, <1>4, <2>1, <2>2, <2>3, <2>4 DEF Corroborated, s
<1>7. ASSUME TimeoutSignature, ~Claimed, ~Delivered, ~isAuthFailure(s)
      PROVE  v = Verdict("timeout", "agy_print_wait_timeout")
  <2>1. /\ \A i \in 1 .. 5 : ~Holds(s, i)
        /\ ~Holds(s, 7)
    <3>1. ~Holds(s, 7)
      BY <1>7 DEF Holds
    <3>2. \A i \in 1 .. 5 : i \in 1 .. 4 \/ i = 5
      OBVIOUS
    <3> QED
      BY <1>3, <1>7, <3>1, <3>2
  <2>2. \/ Holds(s, 6) \/ Holds(s, 8)
        \/ Holds(s, 10) /\ ~Holds(s, 9)
    BY <1>7 DEF TimeoutSignature, Holds, Log, ErrorMatches, s
  <2>3. First(s, 6) \/ First(s, 8) \/ First(s, 10)
    <3>1. CASE Holds(s, 6)
      BY <2>1, <3>1 DEF First
    <3>2. CASE ~Holds(s, 6) /\ Holds(s, 8)
      BY <2>1, <3>2 DEF First
    <3>3. CASE ~Holds(s, 6) /\ ~Holds(s, 8) /\ Holds(s, 10) /\ ~Holds(s, 9)
      BY <2>1, <3>3 DEF First
    <3> QED
      BY <2>2, <3>1, <3>2, <3>3
  <2> QED
    BY <1>4, <2>3
<1>8. ReplayedOnceAtMost
  <2>1. s.terminationUnconfirmed /\ s.spawnError # "ENOENT" => First(s, 2)
    <3>1. \A i \in 1 .. 14 : i < 2 => i = 1
      OBVIOUS
    <3> QED
      BY <3>1 DEF First, Holds
  <2> QED
    BY <1>2, <1>4, <2>1
       DEF ReplayedOnceAtMost, isFallbackAllowed, retryable, opencodeResume,
           piResume, s, v
<1> QED
  BY <1>5, <1>6, <1>7, <1>8 DEF s, v

-----------------------------------------------------------------------------
\* A window has less than a twentieth left exactly when its percentage, rounded down,
\* is under the threshold.
LEMMA LessThanATwentieth ==
    ASSUME NEW limit \in Int, limit > 0, NEW left \in Int
    PROVE  /\ (left * 100) \div limit \in Int
           /\ (left * 100) \div limit >= 5 <=> 20 * left >= limit
           /\ left >= 0 => (left * 100) \div limit >= 0
<1> DEFINE q == (left * 100) \div limit
           r == (left * 100) % limit
<1>1. q \in Int /\ r \in 0 .. limit - 1 /\ left * 100 = limit * q + r
  OBVIOUS
<1> HIDE DEF q, r
<1>2. limit * q <= left * 100 /\ left * 100 < limit * q + limit
  BY <1>1
<1>3. q >= 5 => limit * q >= limit * 5
  BY <1>1
<1>4. q <= 4 => limit * q + limit <= limit * 5
  BY <1>1
<1>5. q <= -1 => limit * q + limit <= 0
  BY <1>1
<1> QED
  BY <1>1, <1>2, <1>3, <1>4, <1>5 DEF q

\* What is known of a window: its percentage is Unknown unless it has a limit to divide
\* by, and under the threshold exactly when less than a twentieth is left.
LEMMA WindowRead ==
    ASSUME NEW w \in WindowFile, NEW known, known <=> w.readable = "object" /\ w.limit > 0
    PROVE  /\ remainingFraction(w) \in Int
           /\ known <=> remainingFraction(w) # Unknown
           /\ known => (remainingFraction(w) >= DEFAULT_THRESHOLD <=>
                           20 * (w.limit - w.used) >= w.limit)
<1>1. /\ w.readable \in {"object", "unusable"} /\ w.used \in Int /\ w.limit \in Int
      /\ w.limit - w.used \in Int
  BY DEF WindowFile
<1>2. CASE ~known
  BY <1>1, <1>2 DEF remainingFraction, Unknown
<1>3. CASE known
  <2>1. w.readable # "unusable" /\ ~(w.limit <= 0) /\ w.limit > 0
    BY <1>1, <1>3
  <2>2. CASE w.used > w.limit
    BY <1>1, <1>3, <2>1, <2>2 DEF remainingFraction, Unknown, DEFAULT_THRESHOLD
  <2>3. CASE ~(w.used > w.limit) /\ w.used < 0
    BY <1>1, <1>3, <2>1, <2>3 DEF remainingFraction, Unknown, DEFAULT_THRESHOLD
  <2>4. CASE ~(w.used > w.limit) /\ ~(w.used < 0)
    <3> DEFINE left == w.limit - w.used
    <3>1. remainingFraction(w) = (left * 100) \div w.limit
      BY <1>1, <2>1, <2>4 DEF remainingFraction
    <3>2. left >= 0 /\ left \in Int
      BY <1>1, <2>4
    <3> HIDE DEF left
    <3>3. /\ (left * 100) \div w.limit \in Int
          /\ (left * 100) \div w.limit >= 5 <=> 20 * left >= w.limit
          /\ (left * 100) \div w.limit >= 0
      BY <1>1, <2>1, <3>2, LessThanATwentieth
    <3> QED
      BY <1>3, <3>1, <3>3 DEF Unknown, DEFAULT_THRESHOLD, left
  <2> QED
    BY <2>2, <2>3, <2>4
<1> QED
  BY <1>2, <1>3

\* When the gate stops a turn, for any window files, model and instant.
THEOREM GateStops ==
    ASSUME NEW dir \in [SnapshotFile -> WindowFile], NEW family, NEW now \in Nat,
           NEW pool, pool = poolForModel(family)
    PROVE  GateOpen(dir, family, now) <=>
             ~ /\ \A w \in Window : dir[<<pool, w>>].readable = "object" /\ dir[<<pool, w>>].limit > 0
               /\ \E w \in Window :
                     20 * (dir[<<pool, w>>].limit - dir[<<pool, w>>].used) < dir[<<pool, w>>].limit
               /\ \/ dir[<<pool, "fiveHour">>].resets_at = NoDate
                  \/ dir[<<pool, "fiveHour">>].resets_at > now
<1> DEFINE left == [f \in SnapshotFile |-> remainingFraction(dir[f])]
           Complete(p) == \A w \in Window : left[<<p, w>>] # Unknown
           q(p) == IF Complete(p)
                   THEN [fiveHour |-> left[<<p, "fiveHour">>], weekly |-> left[<<p, "weekly">>],
                         resetTime |-> dir[<<p, "fiveHour">>].resets_at]
                   ELSE [fiveHour |-> Unknown, weekly |-> Unknown, resetTime |-> NoTime]
           snapshot == [p \in Pool |-> q(p)]
           f5 == dir[<<pool, "fiveHour">>]
           wk == dir[<<pool, "weekly">>]
           Known(w) == w.readable = "object" /\ w.limit > 0
           Short(w) == 20 * (w.limit - w.used) < w.limit
<1>1. pool \in Pool /\ <<pool, "fiveHour">> \in SnapshotFile /\ <<pool, "weekly">> \in SnapshotFile
  BY DEF poolForModel, Pool, SnapshotFile, Window
<1>2. f5 \in WindowFile /\ wk \in WindowFile
  BY <1>1
<1>3. f5.limit \in Int /\ f5.used \in Int /\ wk.limit \in Int /\ wk.used \in Int /\ f5.resets_at \in Int
  BY <1>2 DEF WindowFile
<1>4. /\ left[<<pool, "fiveHour">>] = remainingFraction(f5)
      /\ left[<<pool, "weekly">>] = remainingFraction(wk)
  BY <1>1
<1>5. /\ Complete(pool) <=> Known(f5) /\ Known(wk)
      /\ Complete(pool) =>
            /\ left[<<pool, "fiveHour">>] \in Int /\ left[<<pool, "weekly">>] \in Int
            /\ left[<<pool, "fiveHour">>] >= DEFAULT_THRESHOLD <=> ~Short(f5)
            /\ left[<<pool, "weekly">>] >= DEFAULT_THRESHOLD <=> ~Short(wk)
  <2>1. ASSUME NEW w \in WindowFile, w.limit \in Int, w.used \in Int
        PROVE  /\ remainingFraction(w) \in Int
               /\ Known(w) <=> remainingFraction(w) # Unknown
               /\ Known(w) => (remainingFraction(w) >= DEFAULT_THRESHOLD <=> ~Short(w))
    <3>1. \A known \in BOOLEAN : (known <=> Known(w)) =>
             /\ remainingFraction(w) \in Int
             /\ known <=> remainingFraction(w) # Unknown
             /\ known => (remainingFraction(w) >= DEFAULT_THRESHOLD <=>
                             20 * (w.limit - w.used) >= w.limit)
      BY WindowRead
    <3>2. 20 * (w.limit - w.used) >= w.limit <=> ~Short(w)
      BY <2>1
    <3> HIDE DEF Known, Short
    <3> QED
      BY <3>1, <3>2
  <2>2. Complete(pool) <=> left[<<pool, "fiveHour">>] # Unknown /\ left[<<pool, "weekly">>] # Unknown
    BY DEF Window
  <2> HIDE DEF Known, Short, left, Complete, f5, wk
  <2> QED
    BY <1>2, <1>3, <1>4, <2>1, <2>2
<1>6. GateOpen(dir, family, now) <=>
        \/ \A f \in SnapshotFile : left[f] = Unknown
        \/ decidePool(snapshot, family, now)
  <2>1. parseSnapshotDir(dir) =
          IF \A f \in SnapshotFile : left[f] = Unknown THEN {} ELSE {snapshot}
    BY DEF parseSnapshotDir, NoSnapshot
  <2> HIDE DEF left, snapshot
  <2> QED
    BY <2>1 DEF GateOpen
<1>7. snapshot[pool] = q(pool)
  BY <1>1
<1>8. Complete(pool) => ~\A f \in SnapshotFile : left[f] = Unknown
  BY <1>1 DEF Window
<1>9. Complete(pool) =>
        (decidePool(snapshot, family, now) <=>
            \/ f5.resets_at = NoTime
            \/ f5.resets_at \notin {NoTime, NoDate} /\ f5.resets_at <= now
            \/ ~Short(f5) /\ ~Short(wk))
  <2> SUFFICES ASSUME Complete(pool)
               PROVE  decidePool(snapshot, family, now) <=>
                         \/ f5.resets_at = NoTime
                         \/ f5.resets_at \notin {NoTime, NoDate} /\ f5.resets_at <= now
                         \/ ~Short(f5) /\ ~Short(wk)
    OBVIOUS
  <2>1. /\ snapshot[pool].resetTime = f5.resets_at
        /\ snapshot[pool].fiveHour = left[<<pool, "fiveHour">>]
        /\ snapshot[pool].weekly = left[<<pool, "weekly">>]
    BY <1>7
  <2> HIDE DEF snapshot, left, Complete, Short, f5, wk
  <2> QED
    BY <1>5, <2>1 DEF decidePool, isStale
<1>10. ~Complete(pool) => decidePool(snapshot, family, now)
  <2> SUFFICES ASSUME ~Complete(pool) PROVE decidePool(snapshot, family, now)
    OBVIOUS
  <2>1. snapshot[pool].resetTime = NoTime
    BY <1>7
  <2> HIDE DEF snapshot
  <2> QED
    BY <2>1 DEF decidePool
<1>11. /\ (\A w \in Window : dir[<<pool, w>>].readable = "object" /\ dir[<<pool, w>>].limit > 0)
             <=> Known(f5) /\ Known(wk)
       /\ (\E w \in Window :
             20 * (dir[<<pool, w>>].limit - dir[<<pool, w>>].used) < dir[<<pool, w>>].limit)
             <=> Short(f5) \/ Short(wk)
  BY DEF Window
<1>12. f5.resets_at = NoTime \/ (f5.resets_at \notin {NoTime, NoDate} /\ f5.resets_at <= now)
         <=> ~(f5.resets_at = NoDate \/ f5.resets_at > now)
  BY <1>3 DEF NoTime, NoDate
<1> HIDE DEF snapshot, left, Complete, Known, Short
<1> QED
  BY <1>5, <1>6, <1>8, <1>9, <1>10, <1>11, <1>12

\* The gate fails open for whatever is asked.
LEMMA GateSound ==
    ASSUME Asked, Given
    PROVE  GateFailsOpen
<1> SUFFICES ASSUME Answered("quota") PROVE GateFailsOpen
  BY DEF GateFailsOpen
<1> DEFINE pool == IF question.family = "gemini" THEN "gemini" ELSE "3p"
           At(w) == question.dir[<<pool, w>>]
           reset == At("fiveHour").resets_at
           Stops(now) == /\ \A w \in Window : At(w).readable = "object" /\ At(w).limit > 0
                         /\ \E w \in Window : 20 * (At(w).limit - At(w).used) < At(w).limit
                         /\ reset = NoDate \/ reset > now
<1>1. /\ question.dir \in [SnapshotFile -> WindowFile]
      /\ answer = <<GateOpen(question.dir, question.family, Now)>>
  BY DEF Answered, Unanswered, Asked, Given
<1>2. \A now \in Nat : GateOpen(question.dir, question.family, now) <=> ~Stops(now)
  BY <1>1, GateStops DEF poolForModel
<1>3. reset \in Int
  <2>1. <<pool, "fiveHour">> \in SnapshotFile
    BY DEF SnapshotFile, Pool, Window
  <2> QED
    BY <1>1, <2>1 DEF WindowFile
<1>4. Now \in Nat
  BY DEF Now
<1>5. Stops(Now) /\ reset # NoDate => reset \in Nat /\ ~Stops(reset)
  BY <1>3, <1>4
<1>6. GateOpen(question.dir, question.family, Now) = ~Stops(Now)
  <2>1. GateOpen(question.dir, question.family, Now) \in BOOLEAN
    BY DEF GateOpen
  <2> QED
    BY <1>2, <1>4, <2>1
<1>7. GateFailsOpen <=>
        /\ answer = <<~Stops(Now)>>
        /\ Stops(Now) /\ reset # NoDate => GateOpen(question.dir, question.family, reset)
  BY DEF GateFailsOpen
<1> HIDE DEF Stops, reset
<1> QED
  BY <1>1, <1>2, <1>5, <1>6, <1>7

-----------------------------------------------------------------------------
\* What becomes of a part: text is skipped, and nothing else is; a file that is taken is
\* an image of a known type.
LEMMA FateOfPart ==
    ASSUME NEW part \in PromptPart
    PROVE  /\ Fate(part) \in {"skipped", "taken", "unsupported", "thrown"}
           /\ Fate(part) = "skipped" <=> part.type = "text"
           /\ Fate(part) = "taken" =>
                 \/ part.type \in {"image", "image-url"}
                 \/ part.type = "file" /\ part.media = "allowed"
<1>1. /\ part.type \in {"text", "file", "image", "image-url", "other"}
      /\ part.data \in {"none", "bytes", "tooManyBytes", "webAddress"}
  BY DEF PromptPart
<1>2. /\ ofAddress(part) \in {"taken", "unsupported", "thrown"}
  BY DEF ofAddress, fetchUrlImage, Taken, Unsupported, Thrown
<1>3. /\ ofFile(part) \in {"taken", "unsupported", "thrown"}
      /\ ofFile(part) = "taken" => part.media = "allowed"
  BY <1>1, <1>2 DEF ofFile, Taken, Unsupported, Thrown
<1>4. ofImage(part) \in {"taken", "unsupported", "thrown"}
  BY <1>2 DEF ofImage, Taken, Unsupported, Thrown
<1> QED
  BY <1>1, <1>3, <1>4 DEF Fate, Skipped, Unsupported

\* A turn that takes images all or none and drops none in silence.
AllOrNone(content, imageInput, adapter, turn) ==
    LET NoText == {i \in DOMAIN content : content[i].type # "text"}
    IN /\ turn.staged # {} => turn.runs /\ turn.staged = NoText
       /\ turn.runs /\ ~imageInput => extractAttachments(content) = {}
       /\ turn.runs /\ imageInput => turn.staged = NoText
       /\ \A i \in turn.staged \cap turn.warned :
             /\ adapter = "opencode"
             /\ content[i].type = "file" /\ content[i].key = "mimeType"

\* So is the turn made of any parts, whatever their number.
THEOREM TurnOfParts ==
    ASSUME NEW n \in Nat, NEW content \in [1 .. n -> PromptPart],
           NEW imageInput \in BOOLEAN, NEW adapter \in {"opencode", "pi"},
           NEW turn, turn = Turn(content, imageInput, adapter)
    PROVE  AllOrNone(content, imageInput, adapter, turn)
<1> DEFINE NoText == {i \in DOMAIN content : content[i].type # "text"}
<1> DEFINE extracted == extractAttachments(content)
           staged == IF imageInput THEN extracted ELSE {}
           refused == \/ ~imageInput /\ promptHasImage(content)
                      \/ imageInput /\ Fates(content) \cap {Unsupported, Thrown} # {}
           dropped == Dropped(content, staged, adapter)
           warned == Warned(content, dropped)
<1>0. \A i \in DOMAIN content : content[i] \in PromptPart
  OBVIOUS
<1>1. turn = IF refused THEN [runs |-> FALSE, staged |-> {}, warned |-> {}]
             ELSE [runs |-> TRUE, staged |-> staged, warned |-> warned]
  BY DEF Turn, Rejected
<1>2. /\ refused => ~turn.runs /\ turn.staged = {} /\ turn.warned = {}
      /\ ~refused => turn.runs /\ turn.staged = staged /\ turn.warned = warned
  <2> HIDE DEF refused, staged, warned
  <2> QED
    BY <1>1
<1>3. \A i \in extracted : i \in DOMAIN content /\ Fate(content[i]) = "taken"
  BY DEF extractAttachments, Taken
\* Not refused: every part that is no text is taken.
<1>4. ASSUME ~refused, imageInput PROVE extracted = NoText
  <2>1. \A i \in DOMAIN content : Fate(content[i]) \notin {"unsupported", "thrown"}
    BY <1>4 DEF Fates, Unsupported, Thrown
  <2>2. extracted = {i \in DOMAIN content : Fate(content[i]) = "taken"}
    BY <2>1 DEF extractAttachments, Fates, Unsupported, Taken
  <2>3. \A i \in DOMAIN content : Fate(content[i]) = "taken" <=> content[i].type # "text"
    BY <1>0, <2>1, FateOfPart
  <2> HIDE DEF extracted
  <2> QED
    BY <2>2, <2>3
\* With the bridge off, a turn that runs has no image.
<1>5. ASSUME ~refused, ~imageInput PROVE extracted = {}
  <2> SUFFICES ASSUME NEW i \in extracted PROVE FALSE
    OBVIOUS
  <2>1. i \in DOMAIN content /\ content[i] \in PromptPart /\ Fate(content[i]) = "taken"
    BY <1>0, <1>3
  <2>2. \/ content[i].type \in {"image", "image-url"}
        \/ content[i].type = "file" /\ content[i].media = "allowed"
    BY <2>1, FateOfPart
  <2>3. promptHasImage(content)
    BY <2>1, <2>2 DEF promptHasImage, ImageMedia
  <2> QED
    BY <1>5, <2>3
\* Staged and warned of: a file that the filter does not see.
<1>6. ASSUME NEW i \in turn.staged \cap turn.warned
      PROVE  /\ adapter = "opencode"
             /\ content[i].type = "file" /\ content[i].key = "mimeType"
  <2>1. ~refused /\ i \in staged /\ i \in warned /\ imageInput
    BY <1>2, <1>6
  <2>2. i \in DOMAIN content /\ content[i] \in PromptPart /\ Fate(content[i]) = "taken"
    BY <1>0, <1>3, <2>1
  <2>3. \/ content[i].type \in {"image", "image-url"}
        \/ content[i].type = "file" /\ content[i].media = "allowed"
    BY <2>2, FateOfPart
  <2>4. ~isImagePartShape(content[i], adapter)
    <3>1. i \notin dropped
      BY <2>1 DEF Warned
    <3>2. staged # {}
      BY <2>1
    <3> HIDE DEF staged
    <3> QED
      BY <2>2, <3>1, <3>2 DEF Dropped
  <2>5. content[i].key \in {"mediaType", "mimeType"}
    BY <2>2 DEF PromptPart
  <2> QED
    BY <2>3, <2>4, <2>5 DEF isImagePartShape, ImageMedia
<1>7. staged = IF imageInput THEN extracted ELSE {}
  OBVIOUS
<1> HIDE DEF refused, extracted, warned, staged
<1>8. turn.staged # {} => turn.runs /\ turn.staged = NoText
  BY <1>2, <1>4, <1>7
<1>9. turn.runs /\ ~imageInput => extracted = {}
  BY <1>2, <1>5
<1>10. turn.runs /\ imageInput => turn.staged = NoText
  BY <1>2, <1>4, <1>7
<1> QED
  BY <1>6, <1>8, <1>9, <1>10 DEF extracted, AllOrNone

-----------------------------------------------------------------------------
\* Whatever is asked, the decisions of a call are these.
LEMMA DecisionsHold == Decisions => [](Asked /\ Given)
<1>1. Ask => Asked /\ Given
  BY AskedAtFirst
<1>2. Asked /\ Given /\ [Decide]_exchange => (Asked /\ Given)'
  BY AskedStep
<1> QED
  BY <1>1, <1>2, PTL DEF Decisions, exchange

\* A run is a success exactly when it delivered and nothing had claimed it
\* (classifyRun), whatever the model's text matches and whatever was recorded.
THEOREM SuccessForCause == Decisions => []SuccessIffDelivered
<1>1. Given => SuccessIffDelivered
  BY VerdictsSound
<1> QED
  BY <1>1, DecisionsHold, PTL

\* A failure gets the name its evidence deserves (classifyRun).
THEOREM FailuresForCause == Decisions => []FailuresNamedRight
<1>1. Given => FailuresNamedRight
  BY VerdictsSound
<1> QED
  BY <1>1, DecisionsHold, PTL

\* Replays exclude each other (isFallbackAllowed, mapClassification of both adapters).
THEOREM OneReplay == Decisions => []ReplayedOnceAtMost
<1>1. Given => ReplayedOnceAtMost
  BY VerdictsSound
<1> QED
  BY <1>1, DecisionsHold, PTL

\* The quota gate fails open (decidePool): by GateStops for any window files, model and
\* instant, and so for those that are asked about.
THEOREM GateIsOpen == Decisions => []GateFailsOpen
<1>1. Asked /\ Given => GateFailsOpen
  BY GateSound
<1> QED
  BY <1>1, DecisionsHold, PTL

\* No id agy lists is lost in a picker and none is made up (models.ts): by PickersOffer
\* for any rows, and so for those that are asked about.
THEOREM PickersAreTrue == Decisions => []OffersWhatAgyLists
<1>1. Asked /\ Given => OffersWhatAgyLists
  <2> SUFFICES ASSUME Asked, Given, Answered("picker") PROVE OffersWhatAgyLists
    BY DEF OffersWhatAgyLists
  <2>1. /\ \E n \in Nat : question.rows \in [1 .. n -> AgyId({"pro", "default"})]
        /\ answer[1].opencode = resolveRegistry(<<>>, question.rows)
        /\ answer[1].pi = piResolveRegistry({}, question.rows)
    BY DEF Answered, Unanswered, Asked, Given
  <2>2. OffersAll(AllRows(question.rows), Spawnable(answer[1].opencode), PiSpawnable(answer[1].pi))
    BY <2>1, PickersOffer
  <2> QED
    BY <2>2 DEF OffersAll, OffersWhatAgyLists
<1> QED
  BY <1>1, DecisionsHold, PTL

\* A picked effort is what agy runs, or the host is warned (language-model.ts): by
\* ChosenOrWarned and PayloadsWellNamed for any model of any well named config, any
\* variant and any direct id.
THEOREM EffortsAreHonoured == Decisions => []EffortHonoured
<1>1. Asked /\ Given => EffortHonoured
  <2> SUFFICES ASSUME Asked, Given, Answered("spawn") PROVE EffortHonoured
    BY DEF EffortHonoured
  <2> DEFINE entry == resolveModel(question.id, question.user)
             variant == readVariant(question.places)
             direct == readDirectModelId(question.direct)
             payload == {v.agyModelId : v \in Named(entry, variant)}
  <2>1. /\ WellNamedConfig(question.user)
        /\ direct \in {NoArg, Id("pro", "high")}
        /\ answer[1] = Spawned(question)
    BY DEF Answered, Unanswered, Asked, Given
  <2>2. /\ answer[1].arg = modelArgOf(entry, direct, variant)
        /\ answer[1].warned = variantFallbackNotice(entry, direct, variant)
    BY <2>1 DEF Spawned
  <2>3. ChosenWell(entry, direct, variant)
    BY ChosenOrWarned
  <2>4. \A id \in payload : id = NoArg \/ id.effort = variant
    BY <2>1, PayloadsWellNamed
  <2> QED
    BY <2>1, <2>2, <2>3, <2>4 DEF ChosenWell, EffortHonoured
<1> QED
  BY <1>1, DecisionsHold, PTL

\* Images are taken all or none (extractAttachments): by TurnOfParts for any number of
\* parts, and so for those that are asked about.
THEOREM ImagesTogether == Decisions => []ImagesAllOrNone
<1>1. Asked /\ Given => ImagesAllOrNone
  <2> SUFFICES ASSUME Asked, Given, Answered("parts") PROVE ImagesAllOrNone
    BY DEF ImagesAllOrNone
  <2>1. /\ \E n \in Nat : question.content \in [1 .. n -> PromptPart]
        /\ question.imageInput \in BOOLEAN /\ question.adapter \in {"opencode", "pi"}
        /\ answer[1] = Turn(question.content, question.imageInput, question.adapter)
    BY DEF Answered, Unanswered, Asked, Given
  <2>2. AllOrNone(question.content, question.imageInput, question.adapter, answer[1])
    BY <2>1, TurnOfParts
  <2> QED
    BY <2>2 DEF AllOrNone, ImagesAllOrNone
<1> QED
  BY <1>1, DecisionsHold, PTL
=============================================================================
